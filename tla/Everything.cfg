\* Every operation, timer and fault of the supervisor, two of them per
\* behaviour, around one message from another agent.
SPECIFICATION Spec
CONSTANTS
  agent_msg = agent_msg
  t1 = t1
  t2 = t2
  Msgs = {agent_msg}
  UserMsgs = {}
  NotifyMsgs = {agent_msg}
  MaxLimitRequeues = 1
  UserLaneBurst = 1
  Tasks = {t1, t2}
  MaxRuns = 2
  Ops = {"start", "stop", "restart", "interrupt", "clear", "oauth", "pause",
         "resume_turns", "shutdown", "renew", "park", "wedge", "crash", "lapse",
         "nospawn", "garble", "budget", "die", "error", "auth", "limit"}
  MaxOps = 2
  Ephemeral = FALSE
  RunOnStartup = TRUE
  HasFallback = TRUE
  StaleOutput = TRUE
SYMMETRY TaskSymmetry
INVARIANTS TypeOK OneProcess
PROPERTY LedgerSpec
