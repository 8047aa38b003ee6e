\* A message arrives while the idle timer parks the agent.
SPECIFICATION Spec
CONSTANTS
  user_msg = user_msg
  agent_msg = agent_msg
  t1 = t1
  t2 = t2
  Msgs = {user_msg, agent_msg}
  UserMsgs = {user_msg}
  NotifyMsgs = {}
  MaxLimitRequeues = 1
  UserLaneBurst = 1
  Tasks = {t1, t2}
  MaxRuns = 2
  Ops = {"park"}
  MaxOps = 0
  Ephemeral = FALSE
  RunOnStartup = TRUE
  HasFallback = FALSE
  StaleOutput = FALSE
SYMMETRY TaskSymmetry
INVARIANT ParkedMeansNothingWaits
