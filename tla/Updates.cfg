SPECIFICATION FairSpec
CONSTANTS
  e1 = e1
  MaxVersion = 3
  CiCommits <- LastTouchesCi
  Engines <- OneEngine
  AutoUpdate = TRUE
  Breaker = 1
  None = None
  Unknown = Unknown
  UpToDate = UpToDate
INVARIANTS TypeOK RollbackPossible NoTurnIsKilled PauseIsLifted
PROPERTIES PromiseKept OnlyGatedBuildsAreTried RequestsAreServed TrialEnds
