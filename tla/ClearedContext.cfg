\* A start races the clearing of the context.
SPECIFICATION Spec
CONSTANTS
  user_msg = user_msg
  t1 = t1
  t2 = t2
  Msgs = {user_msg}
  UserMsgs = {user_msg}
  NotifyMsgs = {}
  MaxLimitRequeues = 1
  UserLaneBurst = 1
  Tasks = {t1, t2}
  MaxRuns = 2
  Ops = {"clear", "start"}
  MaxOps = 2
  Ephemeral = FALSE
  RunOnStartup = TRUE
  HasFallback = FALSE
  StaleOutput = FALSE
SYMMETRY TaskSymmetry
INVARIANT ClearedContextStaysCleared
