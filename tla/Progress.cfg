\* Every message settles by itself, whatever one operator does meanwhile.
SPECIFICATION FairSpec
CONSTANTS
  user_msg = user_msg
  agent_msg = agent_msg
  t1 = t1
  t2 = t2
  Msgs = {user_msg, agent_msg}
  UserMsgs = {user_msg}
  NotifyMsgs = {agent_msg}
  MaxLimitRequeues = 1
  UserLaneBurst = 1
  Tasks = {t1, t2}
  MaxRuns = 3
  Ops = {"interrupt", "error", "start", "wedge", "resume_turns"}
  MaxOps = 1
  Ephemeral = FALSE
  RunOnStartup = TRUE
  HasFallback = FALSE
  StaleOutput = FALSE
PROPERTY EveryMessageSettles
