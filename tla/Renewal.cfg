SPECIFICATION FairSpec
CONSTANTS
  a1 = a1
  t1 = t1
  Agents <- OneAgent
  Timers <- OneTimer
  MaxLogins = 2
  MaxAttempts = 2
  Issues <- EveryLife
  Faults <- EveryFault
  None = None
INVARIANTS TypeOK RenewalIsScheduled EngineGivesUp FreshNotRenewed
PROPERTIES LoginsFollowOn CallersReturn
CHECK_DEADLOCK FALSE
