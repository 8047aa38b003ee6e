\* A graceful shutdown and the boot after it, while turns run and other requests
\* are under way.  Nobody lifts the gate here.
SPECIFICATION Spec
CONSTANTS
  user_msg = user_msg
  agent_msg = agent_msg
  t1 = t1
  t2 = t2
  Msgs = {user_msg, agent_msg}
  UserMsgs = {user_msg}
  NotifyMsgs = {agent_msg}
  MaxLimitRequeues = 1
  UserLaneBurst = 1
  Tasks = {t1, t2}
  MaxRuns = 2
  Ops = {"shutdown", "restart", "interrupt", "error"}
  MaxOps = 2
  Ephemeral = FALSE
  RunOnStartup = TRUE
  HasFallback = FALSE
  StaleOutput = FALSE
SYMMETRY TaskSymmetry
INVARIANTS NothingStartsOnceOff ConsumedExactlyOnce
