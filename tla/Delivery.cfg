\* What becomes of two messages, one in each lane, when turns end well or badly,
\* the operator interrupts and pauses, and starts fail: two tasks, three readers.
SPECIFICATION Spec
CONSTANTS
  user_msg = user_msg
  agent_msg = agent_msg
  t1 = t1
  t2 = t2
  Msgs = {user_msg, agent_msg}
  UserMsgs = {user_msg}
  NotifyMsgs = {agent_msg}
  MaxLimitRequeues = 1
  UserLaneBurst = 1
  Tasks = {t1, t2}
  MaxRuns = 3
  Ops = {"interrupt", "error", "start", "wedge", "resume_turns",
         "pause", "lapse", "nospawn"}
  MaxOps = 2
  Ephemeral = FALSE
  RunOnStartup = TRUE
  HasFallback = FALSE
  StaleOutput = FALSE
SYMMETRY TaskSymmetry
INVARIANTS NothingIsLost ConsumedExactlyOnce NotifiedOnlyWhenSettled
