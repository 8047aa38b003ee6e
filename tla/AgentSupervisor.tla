---- MODULE AgentSupervisor ----
(***************************************************************************)
(* One agent under crates/wheel-engine/src/supervisor: the threads that    *)
(* start, feed, interrupt, park, recycle and stop its harness process, the *)
(* reader thread of each process, and the database and slot they share.    *)
(*                                                                         *)
(* A step is what the code does without giving another thread the chance   *)
(* to run in between: one critical section of the slot mutex, one database *)
(* block, or several of them that no other thread can tell apart.  The     *)
(* slot mutex is held across steps exactly at the program counters in      *)
(* Holding.                                                                *)
(***************************************************************************)
EXTENDS MessageStore, Sequences

CONSTANTS
  Tasks,        \* request handlers, timers and spawned tasks (model values)
  MaxRuns,      \* bound: harness processes ever spawned
  Ops,          \* operations and faults this instance may meet
  MaxOps,       \* bound: how many of them happen in one behaviour
  Ephemeral,    \* the node's ephemeral_context
  RunOnStartup, \* the node's run_on_startup
  HasFallback,  \* the node reads a fallback vault
  StaleOutput   \* a killed process's unread output is still read afterwards

Runs == 1 .. MaxRuns
Threads == Tasks \cup Runs

\* How the harness may end a turn; all but "ok" are faults.
Ends == {"ok"} \cup (Ops \cap {"error", "auth", "limit"})

ASSUME SupervisorAssumption ==
  /\ MaxRuns \in Nat
  /\ Tasks \cap Runs = {}
  /\ MaxOps \in Nat
  /\ {Ephemeral, RunOnStartup, HasFallback, StaleOutput} \subseteq BOOLEAN

VARIABLES
  \* The database: survives a restart of the engine.
  row,          \* messages addressed to the agent
  status,       \* agent_state.status
  session,      \* agent_state.session_id; 0 is NULL
  token,        \* the node token the last start minted is valid
  fallback,     \* agent_state.fallback_until lies in the future
  \* The engine's memory.
  slot,         \* the Running record; run 0 is None
  closing,      \* Supervisor.closing
  paused,       \* Supervisor.paused_for_update
  login,        \* generation of the session vault's login
  parkTimer,    \* a park timer is armed
  resumeTimer,  \* a timer for the usage window's reset is armed
  \* The harness processes, and the stdout pipe of each.
  child, pipe,
  \* The threads.
  pc, loc,
  left,         \* how many of Ops may still happen
  \* History: completed turns per message; sessions a clear_context threw away.
  ran, discarded

db == <<row, status, session, token, fallback>>
memory == <<slot, closing, paused, login, parkTimer, resumeTimer>>
harness == <<child, pipe>>
threads == <<pc, loc>>
history == <<ran, discarded>>
vars == <<db, memory, harness, threads, left, history>>

Statuses == {"stopped", "starting", "running", "idle", "parked", "needs_auth",
             "error", "budget_exhausted", "rate_limited"}
Sessions == 0 .. MaxRuns

EmptySlot == [run |-> 0, sess |-> 0, inFlight |-> {}, consec |-> 0, gen |-> 0,
              onFallback |-> FALSE]
NoChild == [phase |-> "unborn", sess |-> 0, todo |-> <<>>]
NoLoc == [op |-> "none", run |-> 0, msgs |-> {}, kind |-> "none", gen |-> 0,
          resume |-> 0, stopped |-> FALSE, onFallback |-> FALSE, init |-> FALSE]

Init ==
  /\ row = [m \in Msgs |-> NoRow]
  /\ status = "stopped" /\ session = 0
  /\ token = FALSE /\ fallback = FALSE
  /\ slot = EmptySlot /\ closing = FALSE /\ paused = FALSE /\ login = 1
  /\ parkTimer = FALSE /\ resumeTimer = FALSE
  /\ child = [r \in Runs |-> NoChild]
  /\ pipe = [r \in Runs |-> <<>>]
  /\ \E t \in Tasks :
       pc = [u \in Threads |-> IF u = t THEN "boot"
                               ELSE IF u \in Runs THEN "unborn" ELSE "free"]
  /\ loc = [t \in Threads |-> NoLoc]
  /\ left = MaxOps
  /\ ran = [m \in Msgs |-> 0] /\ discarded = {}

-----------------------------------------------------------------------------
\* Between the first and the last step of these the slot mutex is held.
Holding == {"spawning", "writing", "parking", "stopping"}
LockFree == \A t \in Threads : pc[t] \notin Holding

\* A start that has read stop_epoch and has not yet spawned.
Starting == {"creds", "retake", "spawning"}

Live(r) == child[r].phase \in {"booting", "ready"}
Stale(gen) == gen # 0 /\ gen # login

\* The processes in S are killed.  What they had written may still be read.
Kill(S) ==
  /\ child' = [r \in Runs |-> IF r \in S
                              THEN [child[r] EXCEPT !.phase = "dead", !.todo = <<>>]
                              ELSE child[r]]
  /\ pipe' = [r \in Runs |-> IF r \in S /\ ~StaleOutput THEN <<>> ELSE pipe[r]]

SlotRuns == {slot.run} \ {0}

Goto(t, p) == pc' = [pc EXCEPT ![t] = p]
Keep(t, l) == loc' = [loc EXCEPT ![t] = l]
At(t, p) == pc[t] = p

\* A task ends; a reader goes back to its pipe.
Finish(t) ==
  /\ Goto(t, IF t \in Runs THEN "read" ELSE "free")
  /\ Keep(t, [NoLoc EXCEPT !.init = loc[t].init])

\* A parked agent is delivered to by the thread that parked it.
RedeliverNever(t) == Finish(t) \* mutant: it waits for a later message
Redeliver(t) == Goto(t, "deliver") /\ Keep(t, [NoLoc EXCEPT !.init = loc[t].init])

Spend(op) == op \in Ops /\ left > 0 /\ left' = left - 1

-----------------------------------------------------------------------------
(* What the operator, the other agents and the timers ask for. *)

\* agent_routes::send and `wheel msg`: the row is stored, then delivered.
Send(t, m) ==
  /\ At(t, "free") /\ m \in Absent(row)
  /\ row' = Enqueue(row, m)
  /\ Goto(t, "deliver")
  /\ UNCHANGED <<status, session, token, fallback, memory, harness, loc, left, history>>

\* Requests that begin by calling one method of the supervisor.
Request(t, op, first) ==
  /\ At(t, "free") /\ Spend(op)
  /\ Goto(t, first) /\ Keep(t, [NoLoc EXCEPT !.op = op])
  /\ UNCHANGED <<db, memory, harness, history>>

Start(t) == Request(t, "start", "start")
Stop(t) == Request(t, "stop", "note_stop")
Restart(t) == Request(t, "restart", "note_stop")
Interrupt(t) == Request(t, "interrupt", "take")
ClearContext(t) == Request(t, "clear", "take")
KillIfOauthShaped(t) == Request(t, "oauth", "take")
ResumeTurns(t) == Request(t, "resume_turns", "lift")

PauseTurns(t) ==
  /\ At(t, "free") /\ Spend("pause")
  /\ paused' = TRUE /\ closing' = TRUE
  /\ UNCHANGED <<db, slot, login, parkTimer, resumeTimer, harness, threads, history>>

Shutdown(t) ==
  /\ At(t, "free") /\ Spend("shutdown")
  /\ paused' = FALSE /\ closing' = TRUE
  /\ Goto(t, "drain") /\ Keep(t, [NoLoc EXCEPT !.op = "shutdown"])
  /\ UNCHANGED <<db, slot, login, parkTimer, resumeTimer, harness, history>>

\* The broker renewed the login and spawned the pass that moves idle readers.
Renew(t) ==
  /\ At(t, "free") /\ Spend("renew")
  /\ login' = login + 1
  /\ Goto(t, "adopt")
  /\ UNCHANGED <<db, slot, closing, paused, parkTimer, resumeTimer, harness, loc, history>>

-----------------------------------------------------------------------------
(* deliver, start and pump_queue. *)

Deliver(t) ==
  /\ At(t, "deliver")
  /\ IF paused THEN Finish(t)
     ELSE /\ Goto(t, IF HasQueued(row) /\ status = "parked" THEN "start" ELSE "pump")
          /\ UNCHANGED loc
  /\ UNCHANGED <<db, memory, harness, left, history>>

\* A start that returned Ok: the start routes call deliver, deliver pumps.
AfterStart(t) ==
  /\ Goto(t, IF loc[t].op \in {"start", "restart"} THEN "deliver" ELSE "pump")
  /\ Keep(t, [NoLoc EXCEPT !.init = loc[t].init])

\* stop_epoch, the first look at the slot, the session to resume, fallback_until.
StartLooks(t) ==
  /\ At(t, "start") /\ LockFree
  /\ IF closing THEN Finish(t)
     ELSE IF slot.run # 0 THEN AfterStart(t)
     ELSE /\ Goto(t, "creds")
          /\ Keep(t, [loc[t] EXCEPT !.resume = session, !.stopped = FALSE,
                               !.onFallback = fallback])
  /\ UNCHANGED <<db, memory, harness, left, history>>

\* ensure_fresh succeeded; the generation this child will carry is read.
StartRenews(t) ==
  /\ At(t, "creds")
  /\ Goto(t, "retake") /\ Keep(t, [loc[t] EXCEPT !.gen = login])
  /\ UNCHANGED <<db, memory, harness, left, history>>

\* No driver, a lapsed or forbidden credential, or a renewal that failed.
StartRefused(t) ==
  /\ At(t, "creds") /\ Spend("lapse")
  /\ status' \in {"needs_auth", "error"}
  /\ AfterStart(t)
  /\ UNCHANGED <<row, session, token, fallback, memory, harness, history>>

\* mutant: the second look forgets the slot
RetakesBlind(t) ==
  /\ At(t, "retake") /\ LockFree
  /\ IF closing THEN Finish(t)
     ELSE IF loc[t].stopped THEN AfterStart(t)
     ELSE Goto(t, "spawning") /\ UNCHANGED loc
  /\ UNCHANGED <<db, memory, harness, left, history>>

\* mutant: only the first look asks whether the engine is closing
RetakesWhileClosing(t) ==
  /\ At(t, "retake") /\ LockFree
  /\ IF slot.run # 0 \/ loc[t].stopped THEN AfterStart(t)
     ELSE Goto(t, "spawning") /\ UNCHANGED loc
  /\ UNCHANGED <<db, memory, harness, left, history>>

\* The slot is taken again, and what may have changed meanwhile is asked again.
StartRetakes(t) ==
  /\ At(t, "retake") /\ LockFree
  /\ IF closing THEN Finish(t)
     ELSE IF slot.run # 0 \/ loc[t].stopped THEN AfterStart(t)
     ELSE Goto(t, "spawning") /\ UNCHANGED loc
  /\ UNCHANGED <<db, memory, harness, left, history>>

\* A stop landed while the workspace was being materialised.
StartStopped(t) ==
  /\ At(t, "spawning") /\ loc[t].stopped
  /\ AfterStart(t)
  /\ UNCHANGED <<db, memory, harness, left, history>>

\* Token, status, process, slot and reader.  The reader's thread is its run.
Spawn(t, r) ==
  /\ At(t, "spawning") /\ ~loc[t].stopped
  /\ pc[r] = "unborn" /\ \A q \in Runs : q < r => pc[q] # "unborn"
  /\ token' = TRUE /\ status' = "starting"
  /\ slot' = [EmptySlot EXCEPT !.run = r, !.gen = loc[t].gen,
                               !.onFallback = HasFallback /\ loc[t].onFallback /\ fallback]
  /\ child' = [child EXCEPT ![r] =
       [phase |-> "booting", todo |-> <<>>,
        sess |-> IF loc[t].resume = 0 THEN r ELSE loc[t].resume]]
  /\ pc' = [pc EXCEPT ![r] = "read",
       ![t] = IF loc[t].op \in {"start", "restart"} THEN "deliver" ELSE "pump"]
  /\ Keep(t, [NoLoc EXCEPT !.init = loc[t].init])
  /\ UNCHANGED <<row, session, fallback, closing, paused, login, parkTimer,
                 resumeTimer, pipe, left, history>>

\* Anything that fails after the status says `starting`.
SpawnFails(t) ==
  /\ At(t, "spawning") /\ ~loc[t].stopped /\ Spend("nospawn")
  /\ token' = TRUE /\ status' = "starting"
  /\ Finish(t)
  /\ UNCHANGED <<row, session, fallback, memory, harness, history>>

CanPumpMidTurn == \* mutant: a turn under way does not hold the next one back
  slot.run # 0 /\ ~closing /\ status # "needs_auth" /\ HasQueued(row)

\* One message per turn, to a process that can run it.
CanPump ==
  slot.run # 0 /\ slot.inFlight = {} /\ ~closing /\ status # "needs_auth"
  /\ HasQueued(row)

PumpSkips(t) ==
  /\ At(t, "pump") /\ LockFree /\ ~CanPump
  /\ Finish(t)
  /\ UNCHANGED <<db, memory, harness, left, history>>

\* The bytes go down stdin; a dead process makes the write fail.
PumpWrites(t, aged) ==
  /\ At(t, "pump") /\ LockFree /\ CanPump
  /\ \E m \in NextForDelivery(row, slot.consec, aged) :
     IF Live(slot.run)
     THEN /\ child' = [child EXCEPT ![slot.run].todo = Append(@, m)]
          /\ Goto(t, "writing") /\ Keep(t, [loc[t] EXCEPT !.msgs = {m}])
     ELSE Finish(t) /\ UNCHANGED child
  /\ UNCHANGED <<db, memory, pipe, left, history>>

\* A body whose encoding panics is set aside, and its sender told.
PumpQuarantines(t, aged) ==
  /\ At(t, "pump") /\ LockFree /\ CanPump /\ Spend("garble")
  /\ LET S == NextForDelivery(row, slot.consec, aged)
     IN row' = ClaimNotification(Quarantine(row, S), S)
  /\ Finish(t)
  /\ UNCHANGED <<status, session, token, fallback, memory, harness, history>>

PumpAdvances(t) ==
  /\ At(t, "writing")
  /\ slot' = [slot EXCEPT !.inFlight = loc[t].msgs,
                !.consec = IF loc[t].msgs \subseteq UserMsgs THEN @ + 1 ELSE 0]
  /\ row' = MarkDelivered(row, loc[t].msgs)
  /\ status' = "running"
  /\ Finish(t)
  /\ UNCHANGED <<session, token, fallback, closing, paused, login, parkTimer,
                 resumeTimer, harness, left, history>>

-----------------------------------------------------------------------------
(* stop, interrupt, clear_context, recycle, park_needs_auth and               *)
(* kill_if_oauth_shaped: each takes the slot and kills under the lock.  stop  *)
(* keeps the lock until it has written the outcome, the others let it go.     *)

Stops == {"stop", "restart", "budget"}

NoteStop(t) ==
  /\ At(t, "note_stop")
  /\ Goto(t, "take")
  /\ loc' = [u \in Threads |-> IF pc[u] \in Starting
                               THEN [loc[u] EXCEPT !.stopped = TRUE] ELSE loc[u]]
  /\ UNCHANGED <<db, memory, harness, left, history>>

\* interrupt needs a turn to cancel, kill_if_oauth_shaped a process to kill.
NothingToTake(t) ==
  \/ loc[t].op = "interrupt" /\ slot.inFlight = {}
  \/ loc[t].op = "oauth" /\ slot.run = 0

TakeNothing(t) ==
  /\ At(t, "take") /\ LockFree /\ NothingToTake(t)
  /\ Finish(t)
  /\ UNCHANGED <<db, memory, harness, left, history>>

TakeAndKill(t) ==
  /\ At(t, "take") /\ LockFree /\ ~NothingToTake(t)
  /\ slot' = EmptySlot
  /\ Kill(SlotRuns)
  /\ Goto(t, IF loc[t].op \in Stops THEN "stopping" ELSE "taken")
  /\ Keep(t, [loc[t] EXCEPT !.msgs = slot.inFlight])
  /\ UNCHANGED <<db, closing, paused, login, parkTimer, resumeTimer, left, history>>

\* The last thing stop does: a message in flight is left as it is.
Stopped(t) ==
  /\ At(t, "stopping")
  /\ token' = FALSE /\ status' = "stopped"
  /\ CASE loc[t].op = "restart" -> Goto(t, "start") /\ UNCHANGED loc
       [] loc[t].op = "budget" -> Goto(t, "overspent") /\ UNCHANGED loc
       [] OTHER -> Finish(t)
  /\ UNCHANGED <<row, session, fallback, memory, harness, left, history>>

\* The reader that stopped an agent over its budget then says why.
Overspent(t) ==
  /\ At(t, "overspent")
  /\ status' = "budget_exhausted"
  /\ Finish(t)
  /\ UNCHANGED <<row, session, token, fallback, memory, harness, left, history>>

\* park_needs_auth and kill_if_oauth_shaped leave the message in flight as it is, too.
StayDown(t) ==
  /\ At(t, "taken") /\ loc[t].op \in {"auth", "oauth"}
  /\ token' = FALSE
  /\ status' = IF loc[t].op = "auth" THEN "needs_auth" ELSE "error"
  /\ Finish(t)
  /\ UNCHANGED <<row, session, fallback, memory, harness, left, history>>

\* The agent is parked and delivered to at once.
ComeBack(t) ==
  /\ At(t, "taken") /\ loc[t].op \in {"interrupt", "clear", "recycle"}
  /\ row' = CASE loc[t].op = "interrupt" -> MarkError(row, loc[t].msgs)
              [] loc[t].op = "recycle" -> RequeueUndelivered(row, loc[t].msgs)
              [] OTHER -> row
  /\ IF loc[t].op = "clear"
     THEN session' = 0 /\ discarded' = discarded \cup ({session} \ {0})
     ELSE UNCHANGED <<session, discarded>>
  /\ token' = (token /\ loc[t].op = "clear")
  /\ status' = "parked"
  /\ Redeliver(t)
  /\ UNCHANGED <<fallback, memory, harness, left, ran>>

\* recycle is refused while turns are paused or the engine is closing.
Recycle(t) ==
  /\ At(t, "recycle")
  /\ IF closing THEN Finish(t)
     ELSE Goto(t, "take") /\ Keep(t, [loc[t] EXCEPT !.op = "recycle"])
  /\ UNCHANGED <<db, memory, harness, left, history>>

\* spawn_adopt: judged under the slot lock, acted on after letting it go.
Adopt(t) ==
  /\ At(t, "adopt") /\ LockFree
  /\ IF slot.run # 0 /\ slot.inFlight = {} /\ Stale(slot.gen)
     THEN Goto(t, "recycle") /\ UNCHANGED loc ELSE Finish(t)
  /\ UNCHANGED <<db, memory, harness, left, history>>

-----------------------------------------------------------------------------
(* park, the wedge watcher, the usage-window timer. *)

\* The lock is kept from the look at the queue to the status that follows the kill.
ParkTakes(t) ==
  /\ At(t, "free") /\ parkTimer /\ LockFree
  /\ status = "idle" /\ ~HasQueued(row) /\ slot.run # 0
  /\ parkTimer' = FALSE
  /\ slot' = EmptySlot
  /\ Kill(SlotRuns)
  /\ Goto(t, "parking")
  /\ UNCHANGED <<db, closing, paused, login, resumeTimer, loc, left, history>>

Parks(t) ==
  /\ At(t, "parking")
  /\ token' = FALSE /\ status' = "parked"
  /\ Finish(t)
  /\ UNCHANGED <<row, session, fallback, memory, harness, left, history>>

\* watch_for_a_wedged_start: one deadline per start.
WedgeCheck(t) ==
  /\ At(t, "free") /\ Spend("wedge") /\ LockFree
  /\ slot.run # 0 /\ status = "starting" /\ HasQueued(row)
  /\ Goto(t, "wedged")
  /\ UNCHANGED <<db, memory, harness, loc, history>>

Wedged(t) ==
  /\ At(t, "wedged")
  /\ status' = "error"
  /\ Finish(t)
  /\ UNCHANGED <<row, session, token, fallback, memory, harness, left, history>>

\* resume_after_limit finds the agent still waiting for its window.
WindowOpens(t) ==
  /\ At(t, "free") /\ resumeTimer
  /\ resumeTimer' = FALSE
  /\ fallback' = FALSE
  /\ Goto(t, IF status = "rate_limited" THEN "reopen" ELSE "free")
  /\ UNCHANGED <<row, status, session, token, slot, closing, paused, login, parkTimer,
                 harness, loc, left, history>>

\* An empty queue gets a system message so that the session continues.
Reopen(t) ==
  /\ At(t, "reopen")
  /\ row' \in IF HasQueued(row) \/ Absent(row) \ UserMsgs = {} THEN {row}
              ELSE {Enqueue(row, m) : m \in Absent(row) \ UserMsgs}
  /\ status' = "parked"
  /\ Goto(t, "deliver")
  /\ UNCHANGED <<session, token, fallback, memory, harness, loc, left, history>>

-----------------------------------------------------------------------------
(* The reader of run r: pump_stdout and reap. *)

ReadInit(r) ==
  /\ At(r, "read") /\ LockFree
  /\ pipe[r] # <<>> /\ Head(pipe[r]).ev = "init"
  /\ LET sid == Head(pipe[r]).sess IN
     /\ slot' = IF slot.run # 0 THEN [slot EXCEPT !.sess = sid] ELSE slot
     /\ session' = sid
  /\ status' = IF slot.inFlight # {} THEN "running" ELSE "idle"
  /\ pipe' = [pipe EXCEPT ![r] = Tail(@)]
  /\ Goto(r, "pump") /\ Keep(r, [loc[r] EXCEPT !.init = TRUE])
  /\ UNCHANGED <<row, token, fallback, closing, paused, login, parkTimer,
                 resumeTimer, child, left, history>>

\* session_matches: a slot that knows no session believes any event.
Matches(e) == slot.sess = 0 \/ slot.sess = e.sess

ReadResult(r) ==
  /\ At(r, "read") /\ LockFree
  /\ pipe[r] # <<>> /\ Head(pipe[r]).ev # "init"
  /\ LET e == Head(pipe[r]) IN
     IF Matches(e)
     THEN /\ slot' = [slot EXCEPT !.inFlight = {}]
          /\ Goto(r, IF e.ev = "limit" THEN "limited" ELSE "settle")
          /\ Keep(r, [loc[r] EXCEPT !.msgs = slot.inFlight, !.kind = e.ev,
                        !.run = slot.run, !.gen = slot.gen,
                        !.onFallback = slot.onFallback])
     ELSE UNCHANGED <<slot, pc, loc>>
  /\ pipe' = [pipe EXCEPT ![r] = Tail(@)]
  /\ UNCHANGED <<db, closing, paused, login, parkTimer, resumeTimer, child, left, history>>

\* mutant: an errored turn is put back, and its sender told all the same
RetriesErrors(kind, S) ==
  CASE kind = "ok" -> ClaimNotification(Complete(row, S), S)
    [] kind = "error" -> ClaimNotification(RequeueUndelivered(row, S), S)
    [] OTHER -> RequeueUndelivered(row, S)

\* settle_turn, and notify_sender's claim.
SettledRows(kind, S) ==
  CASE kind = "ok" -> ClaimNotification(Complete(row, S), S)
    [] kind = "error" -> ClaimNotification(MarkError(row, S), S)
    [] OTHER -> RequeueUndelivered(row, S)

TurnStatus(kind) ==
  CASE kind = "ok" -> "idle" [] kind = "error" -> "error" [] OTHER -> "needs_auth"

\* Where the reader goes next, in the order the code asks.
Settle(r) ==
  /\ At(r, "settle")
  /\ LET l == loc[r] IN
     /\ row' = SettledRows(l.kind, l.msgs)
     /\ status' = TurnStatus(l.kind)
     /\ IF l.kind = "auth" THEN Goto(r, "recover") /\ UNCHANGED <<loc, parkTimer>>
        ELSE IF Ephemeral
        THEN Goto(r, "take") /\ Keep(r, [l EXCEPT !.op = "clear"]) /\ UNCHANGED parkTimer
        ELSE IF l.kind = "ok" /\ Stale(l.gen)
        THEN Goto(r, "recycle") /\ UNCHANGED <<loc, parkTimer>>
        ELSE Goto(r, "pump") /\ parkTimer' = ("park" \in Ops) /\ UNCHANGED loc
  /\ UNCHANGED <<session, token, fallback, slot, closing, paused, login,
                 resumeTimer, harness, left, history>>

\* A turn that crossed the budget: the status is left to the stop that follows.
SettleOverBudget(r) ==
  /\ At(r, "settle") /\ loc[r].run # 0 /\ Spend("budget")
  /\ row' = SettledRows(loc[r].kind, loc[r].msgs)
  /\ Goto(r, "note_stop") /\ Keep(r, [loc[r] EXCEPT !.op = "budget"])
  /\ UNCHANGED <<status, session, token, fallback, memory, harness, history>>

\* recover_from_auth_failure: a newer login, or a renewal that works, is retried.
Recover(r) ==
  /\ At(r, "recover")
  /\ IF Stale(loc[r].gen) THEN Goto(r, "recycle") /\ UNCHANGED loc
     ELSE Goto(r, "take") /\ Keep(r, [loc[r] EXCEPT !.op = "auth"])
  /\ UNCHANGED <<db, memory, harness, left, history>>

RecoverRenews(r) ==
  /\ At(r, "recover") /\ loc[r].gen = login /\ Spend("renew")
  /\ login' = login + 1
  /\ Goto(r, "recycle")
  /\ UNCHANGED <<db, slot, closing, paused, parkTimer, resumeTimer, harness, loc, history>>

\* on_limit, first block: requeue_limited.
LimitedRows(S) ==
  LET capped == {m \in S : LimitCapReached(row[m])}
  IN ClaimNotification(MarkError(RequeueForLimit(row, S), capped), capped)

Limited(r) ==
  /\ At(r, "limited")
  /\ row' = LimitedRows(loc[r].msgs)
  /\ Goto(r, "halt")
  /\ UNCHANGED <<status, session, token, fallback, memory, harness, loc, left, history>>

\* The turn that closed the window also crossed the budget.
LimitedOverBudget(r) ==
  /\ At(r, "limited") /\ loc[r].run # 0 /\ Spend("budget")
  /\ row' = LimitedRows(loc[r].msgs)
  /\ Goto(r, "halt") /\ Keep(r, [loc[r] EXCEPT !.op = "budget"])
  /\ UNCHANGED <<status, session, token, fallback, memory, harness, history>>

\* halt_child takes whatever is in the slot, and kills it after letting go.
HaltTakes(r) ==
  /\ At(r, "halt") /\ LockFree
  /\ slot' = EmptySlot
  /\ Goto(r, "halting") /\ Keep(r, [loc[r] EXCEPT !.run = slot.run])
  /\ UNCHANGED <<db, closing, paused, login, parkTimer, resumeTimer, harness, left, history>>

\* The kill, and the rest of on_limit: the budget, the fallback credential, or the
\* wait for the window.
HaltKills(r) ==
  /\ At(r, "halting")
  /\ Kill({loc[r].run} \ {0})
  /\ token' = FALSE
  /\ IF loc[r].op = "budget"
     THEN status' = "budget_exhausted" /\ UNCHANGED <<fallback, resumeTimer>> /\ Finish(r)
     ELSE IF HasFallback /\ ~loc[r].onFallback
     THEN /\ fallback' = TRUE /\ status' = "parked" /\ UNCHANGED resumeTimer
          /\ Redeliver(r)
     ELSE /\ status' = "rate_limited" /\ resumeTimer' = TRUE /\ UNCHANGED fallback
          /\ Finish(r)
  /\ UNCHANGED <<row, session, slot, closing, paused, login, parkTimer, left, history>>

\* End of file.  Only the run still in the slot is settled.
Reap(r) ==
  /\ At(r, "read") /\ LockFree
  /\ pipe[r] = <<>> /\ child[r].phase = "dead"
  /\ IF slot.run = r
     THEN slot' = EmptySlot /\ Goto(r, "reap")
     ELSE Goto(r, "gone") /\ UNCHANGED slot
  /\ UNCHANGED <<db, closing, paused, login, parkTimer, resumeTimer, harness, loc, left, history>>

\* Has something already diagnosed this run?  Asked before the block that acts on it.
ReapLooks(r) ==
  /\ At(r, "reap")
  /\ Goto(r, "reaped")
  /\ Keep(r, [loc[r] EXCEPT !.kind =
       IF status \in {"needs_auth", "error", "budget_exhausted"} THEN "diagnosed" ELSE "none"])
  /\ UNCHANGED <<db, memory, harness, left, history>>

ReapSettles(r, verdict) ==
  /\ At(r, "reaped")
  /\ verdict \in IF loc[r].init THEN {"stopped"} ELSE {"needs_auth", "error", "stopped"}
  /\ row' = IF closing THEN ConsumeAllDeliveredAsInterrupted(row)
            ELSE RequeueAllUndelivered(row)
  /\ token' = FALSE
  /\ session' = IF loc[r].init THEN session ELSE 0
  /\ status' = IF loc[r].kind = "diagnosed" THEN status ELSE verdict
  /\ Goto(r, "gone")
  /\ UNCHANGED <<fallback, memory, harness, loc, left, history>>

-----------------------------------------------------------------------------
(* The update gate and the shutdown of the engine. *)

\* resume_turns: the swap of paused_for_update, then the store to closing.
LiftSwaps(t) ==
  /\ At(t, "lift")
  /\ paused' = FALSE
  /\ IF paused THEN Goto(t, "open") /\ UNCHANGED loc ELSE Finish(t)
  /\ UNCHANGED <<db, slot, closing, login, parkTimer, resumeTimer, harness, left, history>>

LiftOpens(t) ==
  /\ At(t, "open")
  /\ closing' = FALSE
  /\ IF HasQueued(row) THEN Goto(t, "deliver") /\ UNCHANGED loc ELSE Finish(t)
  /\ UNCHANGED <<db, slot, paused, login, parkTimer, resumeTimer, harness, left, history>>

\* The drain has ended, by itself or at its deadline; the slot is taken.
DrainEnds(t) ==
  /\ At(t, "drain") /\ LockFree
  /\ slot' = EmptySlot
  /\ Goto(t, IF slot.run = 0 THEN "off" ELSE "took")
  /\ Keep(t, [loc[t] EXCEPT !.run = slot.run, !.msgs = slot.inFlight])
  /\ UNCHANGED <<db, closing, paused, login, parkTimer, resumeTimer, harness, left, history>>

\* mutant: the interrupted turn is put back, to run again after the boot
ShutdownRequeues(t) ==
  /\ At(t, "took")
  /\ row' = RequeueUndelivered(row, loc[t].msgs)
  /\ Goto(t, "sweep")
  /\ UNCHANGED <<status, session, token, fallback, memory, harness, loc, left, history>>

ShutdownMarks(t) ==
  /\ At(t, "took")
  /\ row' = MarkError(row, loc[t].msgs)
  /\ Goto(t, "sweep")
  /\ UNCHANGED <<status, session, token, fallback, memory, harness, loc, left, history>>

\* SHUTDOWN_GRACE is over.
ShutdownKills(t) ==
  /\ At(t, "sweep")
  /\ Kill({loc[t].run})
  /\ token' = FALSE /\ status' = "parked"
  /\ Goto(t, "off")
  /\ UNCHANGED <<row, session, fallback, memory, loc, left, history>>

\* The process ends and a new one boots: start_configured_agents runs in task t.
Reboot(t) ==
  /\ Kill({r \in Runs : Live(r)})
  /\ slot' = EmptySlot /\ closing' = FALSE /\ paused' = FALSE
  /\ parkTimer' = FALSE
  /\ resumeTimer' = (status = "rate_limited")
  /\ pc' = [u \in Threads |->
       IF u = t THEN "boot" ELSE IF u \in Tasks THEN "free"
       ELSE IF pc[u] = "unborn" THEN "unborn" ELSE "gone"]
  /\ loc' = [u \in Threads |-> NoLoc]
  /\ UNCHANGED <<db, login, history>>

Exit(t) == At(t, "off") /\ Reboot(t) /\ UNCHANGED left
Crash(t) == Spend("crash") /\ Reboot(t)

Boot(t) ==
  /\ At(t, "boot")
  /\ LET chosen == \/ RunOnStartup /\ status # "rate_limited"
                   \/ ~RunOnStartup /\ status = "parked" /\ HasQueued(row)
     IN /\ status' = IF chosen THEN "parked" ELSE status
        /\ IF chosen THEN Goto(t, "deliver") /\ UNCHANGED loc ELSE Finish(t)
  /\ UNCHANGED <<row, session, token, fallback, memory, harness, left, history>>

-----------------------------------------------------------------------------
(* The harness process (external): what the reader may find on its stdout. *)

Says(r, e) == pipe' = [pipe EXCEPT ![r] = Append(@, [ev |-> e, sess |-> child[r].sess])]

ChildInits(r) ==
  /\ child[r].phase = "booting"
  /\ child' = [child EXCEPT ![r].phase = "ready"]
  /\ Says(r, "init")
  /\ UNCHANGED <<db, memory, threads, left, history>>

ChildEndsTurn(r, e) ==
  /\ child[r].phase = "ready" /\ child[r].todo # <<>> /\ e \in Ends
  /\ IF e = "ok" THEN UNCHANGED left ELSE Spend(e)
  /\ child' = [child EXCEPT ![r].todo = Tail(@)]
  /\ ran' = IF e = "ok" THEN [ran EXCEPT ![Head(child[r].todo)] = @ + 1] ELSE ran
  /\ Says(r, e)
  /\ UNCHANGED <<db, memory, threads, discarded>>

ChildDies(r) ==
  /\ Live(r) /\ Spend("die")
  /\ child' = [child EXCEPT ![r].phase = "dead", ![r].todo = <<>>]
  /\ UNCHANGED <<db, memory, pipe, threads, history>>

-----------------------------------------------------------------------------
Asked(t) ==
  \/ \E m \in Msgs : Send(t, m)
  \/ Start(t) \/ Stop(t) \/ Restart(t) \/ Interrupt(t) \/ ClearContext(t)
  \/ KillIfOauthShaped(t) \/ PauseTurns(t) \/ ResumeTurns(t) \/ Shutdown(t)
  \/ Renew(t) \/ WedgeCheck(t) \/ ParkTakes(t) \/ Crash(t)

\* What a thread does once it has begun.
Works(t) ==
  \/ Deliver(t) \/ StartLooks(t) \/ StartRenews(t) \/ StartRetakes(t)
  \/ StartStopped(t) \/ \E r \in Runs : Spawn(t, r)
  \/ PumpSkips(t) \/ \E aged \in BOOLEAN : PumpWrites(t, aged)
  \/ PumpAdvances(t)
  \/ NoteStop(t) \/ TakeNothing(t) \/ TakeAndKill(t) \/ Stopped(t)
  \/ Overspent(t) \/ StayDown(t) \/ ComeBack(t)
  \/ Recycle(t) \/ Adopt(t) \/ Parks(t) \/ Wedged(t) \/ Reopen(t)
  \/ LiftSwaps(t) \/ LiftOpens(t)
  \/ DrainEnds(t) \/ ShutdownMarks(t) \/ ShutdownKills(t) \/ Exit(t) \/ Boot(t)

Reads(r) ==
  \/ ReadInit(r) \/ ReadResult(r) \/ Settle(r) \/ Recover(r)
  \/ Limited(r) \/ HaltTakes(r) \/ HaltKills(r)
  \/ Reap(r) \/ ReapLooks(r) \/ \E v \in Statuses : ReapSettles(r, v)

\* Faults along the way.
Fails(t) ==
  \/ StartRefused(t) \/ SpawnFails(t)
  \/ \E aged \in BOOLEAN : PumpQuarantines(t, aged)

ReaderFails(r) ==
  SettleOverBudget(r) \/ LimitedOverBudget(r) \/ RecoverRenews(r) \/ ChildDies(r)

\* Nothing is under way and no process has work: the engine waits to be asked.
AtRest ==
  /\ \A t \in Tasks : pc[t] = "free"
  /\ \A r \in Runs : \/ pc[r] \in {"unborn", "gone"}
                     \/ pc[r] = "read" /\ pipe[r] = <<>> /\ child[r].todo = <<>>
                        /\ child[r].phase # "dead"
  /\ ~resumeTimer

\* A start that finds MaxRuns spent waits here: the bound, not the engine, stops it.
OutOfRuns == /\ \E t \in Threads : pc[t] = "spawning"
             /\ \A r \in Runs : pc[r] # "unborn"

Rest == (AtRest \/ OutOfRuns) /\ UNCHANGED vars

Next ==
  \/ \E t \in Tasks : Asked(t) \/ WindowOpens(t)
  \/ \E t \in Threads : Works(t) \/ Fails(t)
  \/ \E r \in Runs : \/ Reads(r) \/ ReaderFails(r) \/ ChildInits(r)
                     \/ \E e \in Ends : ChildEndsTurn(r, e)
  \/ Rest

Spec == Init /\ [][Next]_vars

\* Threads run, timers fire, and a harness with work to do ends its turn.
Fairness ==
  /\ \A t \in Threads : WF_vars(Works(t))
  /\ \A r \in Runs : /\ WF_vars(Reads(r))
                     /\ WF_vars(child[r].todo # <<>> /\ ChildInits(r))
                     /\ WF_vars(\E e \in Ends : ChildEndsTurn(r, e))
  /\ WF_vars(\E t \in Tasks : WindowOpens(t))

FairSpec == Spec /\ Fairness

-----------------------------------------------------------------------------
(* What the supervisor must keep. *)

SlotType == [run : 0 .. MaxRuns, sess : Sessions, inFlight : SUBSET Msgs,
             consec : Nat, gen : Nat, onFallback : BOOLEAN]
ChildType == [phase : {"unborn", "booting", "ready", "dead"}, sess : Sessions,
              todo : Seq(Msgs)]
EventType == [ev : {"init", "ok", "error", "auth", "limit"}, sess : Sessions]
OpNames == {"none", "start", "stop", "restart", "interrupt", "clear", "oauth",
            "resume_turns", "shutdown", "budget", "auth", "recycle"}
Kinds == {"none", "ok", "error", "auth", "limit", "diagnosed"}
Points == Holding \cup Starting \cup
  {"unborn", "free", "boot", "deliver", "start", "pump", "note_stop", "take", "taken",
   "overspent", "recycle", "adopt", "wedged", "reopen", "lift", "open", "drain",
   "took", "sweep", "off", "read", "settle", "recover", "limited", "halt", "halting",
   "reap", "reaped", "gone"}
LocType == [op : OpNames, run : 0 .. MaxRuns, msgs : SUBSET Msgs, kind : Kinds,
            gen : Nat, resume : Sessions, stopped : BOOLEAN, onFallback : BOOLEAN,
            init : BOOLEAN]

RowsOK == /\ row \in [Msgs -> Row]
          /\ \A m \in Msgs : row[m].requeues <= MaxLimitRequeues
DbOK == /\ status \in Statuses /\ session \in Sessions
        /\ token \in BOOLEAN /\ fallback \in BOOLEAN
MemoryOK == /\ slot \in SlotType /\ login \in Nat
            /\ closing \in BOOLEAN /\ paused \in BOOLEAN
            /\ parkTimer \in BOOLEAN /\ resumeTimer \in BOOLEAN
HarnessOK == child \in [Runs -> ChildType] /\ pipe \in [Runs -> Seq(EventType)]
ThreadsOK == pc \in [Threads -> Points] /\ loc \in [Threads -> LocType]
BookOK == left \in Nat /\ ran \in [Msgs -> Nat] /\ discarded \in SUBSET Sessions

\* Every variable has its type, and a closed usage window (requeue_for_limit)
\* never sends a message back more than MaxLimitRequeues times.
TypeOK == RowsOK /\ DbOK /\ MemoryOK /\ HarnessOK /\ ThreadsOK /\ BookOK

\* The rows obey the ledger's promise whatever the threads do to them.
Ledger == INSTANCE MessageLedger
LedgerSpec == Ledger!LedgerSpec

\* Section 3c#13 and 3c#15: a live process is the one in the slot, unless a
\* thread has taken it out of the slot and kills it before doing anything else
\* (halt_child, shutdown).  No path leaves a process nobody will ever reap.
Owners(r) == {t \in Threads : pc[t] \in {"halting", "took", "sweep"} /\ loc[t].run = r}
OneProcess == \A r \in Runs : Live(r) => r = slot.run \/ Owners(r) # {}

\* Once shutdown has returned, and until someone lifts the gate, the slot is empty
\* and stays empty: a start that passed its first look at `closing` is caught by
\* the second.
NothingStartsOnceOff ==
  \A t \in Tasks : pc[t] = "off" /\ closing
    => slot.run = 0 /\ \A u \in Threads : pc[u] \notin {"spawning", "writing"}

\* A thread between taking a message out of the slot and writing its outcome.
Settles(t, m) ==
  \/ pc[t] \in {"settle", "limited", "taken", "took"} /\ m \in loc[t].msgs
  \/ pc[t] \in {"reap", "reaped"}

\* 3c#11: a message is `delivered` only while it is in flight or some thread is
\* about to write what became of it; otherwise nothing would ever move it again.
NothingIsLost ==
  \A m \in Msgs : row[m].state = "delivered"
    => m \in slot.inFlight \/ \E t \in Threads : Settles(t, m)

\* "Consumed exactly once": a turn is never run again, a message is consumed as
\* completed only by its own turn, and only a consumed message carries an error.
ConsumedExactlyOnce ==
  \A m \in Msgs :
    /\ ran[m] <= 1
    /\ row[m].state = "consumed" /\ ~row[m].isError => ran[m] = 1
    /\ row[m].isError => row[m].state = "consumed"

\* claim_notification: a sender is told that its message settled, never earlier.
NotifiedOnlyWhenSettled ==
  \A m \in Msgs : row[m].notify = 2 => row[m].state \in {"consumed", "undeliverable"}

\* A queued message is eventually consumed or set aside, with no later message,
\* restart or operator needed to push it.
EveryMessageSettles ==
  \A m \in Msgs :
    row[m].state = "queued" ~> row[m].state \in {"consumed", "undeliverable"}

\* park and deliver: "whichever takes the lock first wins and the other sees the
\* world it made".  An agent at rest and parked has nothing waiting.
ParkedMeansNothingWaits == AtRest /\ status = "parked" /\ ~closing => ~HasQueued(row)

\* clear_context: a process that resumes a session (its own has its run's number)
\* never resumes one that was thrown away.
ClearedContextStaysCleared ==
  \A r \in Runs : Live(r) /\ child[r].sess # r => child[r].sess \notin discarded
====
