SPECIFICATION FairSpec
CONSTANTS
  a1 = a1
  a2 = a2
  a3 = a3
  h1 = h1
  h2 = h2
  h3 = h3
  Agents <- ThreeAgents
  operator = operator
  Operator = operator
  Calls <- ThreeCalls
  Looks <- OneLook
  Asks <- Rings
  MaxConcurrentAwaits = 2
  None = None
  Other = Other
INVARIANTS TypeOK NoWaitCycle EdgesAreOpenWaits
PROPERTY EveryAskReturns
