---- MODULE AgentSupervisorProofs ----
(***************************************************************************)
(* What holds of the supervisor of one agent for every number of messages, *)
(* tasks, processes, operations and faults: every variable keeps its type, *)
(* and the messages table implements the ledger.                           *)
(***************************************************************************)
EXTENDS AgentSupervisor, MessageStoreProofs, SequenceTheorems

RestOK == DbOK /\ MemoryOK /\ HarnessOK /\ ThreadsOK /\ BookOK

\* What a step of any thread must establish.
Good == LegalStep(row, row') /\ RestOK'

LEMMA RowsAreWellFormed == TypeOK => WellFormed(row)
  BY DEF TypeOK, RowsOK, WellFormed, Bounded

LEMMA GoodStepsKeepTypes == Good => TypeOK'
  BY DEF Good, RestOK, TypeOK, RowsOK, LegalStep, WellFormed, Bounded

-----------------------------------------------------------------------------
(* The operators the actions are made of. *)

LEMMA NoLocOK == NoLoc \in LocType /\ EmptySlot \in SlotType
  <1>1. 0 \in 0 .. MaxRuns /\ 0 \in Nat
    BY SupervisorAssumption
  <1>2. NoLoc \in LocType
    BY <1>1 DEF NoLoc, LocType, Sessions, OpNames, Kinds
  <1>3. EmptySlot \in SlotType
    BY <1>1 DEF EmptySlot, SlotType, Sessions
  <1> QED BY <1>2, <1>3

LEMMA LocOK ==
  ASSUME ThreadsOK, NEW t \in Threads
  PROVE  loc[t] \in LocType /\ [NoLoc EXCEPT !.init = loc[t].init] \in LocType
  BY NoLocOK DEF ThreadsOK, LocType

LEMMA GotoOK ==
  ASSUME ThreadsOK, NEW t \in Threads, NEW p \in Points, Goto(t, p)
  PROVE  pc' \in [Threads -> Points]
  BY DEF ThreadsOK, Goto

LEMMA KeepOK ==
  ASSUME ThreadsOK, NEW t \in Threads, NEW l \in LocType, Keep(t, l)
  PROVE  loc' \in [Threads -> LocType]
  BY DEF ThreadsOK, Keep

LEMMA FinishOK ==
  ASSUME ThreadsOK, NEW t \in Threads, Finish(t)
  PROVE  ThreadsOK'
  <1>1. loc' \in [Threads -> LocType]
    BY LocOK DEF Finish, Keep, ThreadsOK
  <1>2. pc' \in [Threads -> Points]
    BY DEF Finish, Goto, ThreadsOK, Points, Holding, Starting
  <1> QED BY <1>1, <1>2 DEF ThreadsOK

LEMMA RedeliverOK ==
  ASSUME ThreadsOK, NEW t \in Threads, Redeliver(t)
  PROVE  ThreadsOK'
  <1>1. loc' \in [Threads -> LocType]
    BY LocOK DEF Redeliver, Keep, ThreadsOK
  <1>2. pc' \in [Threads -> Points]
    BY DEF Redeliver, Goto, ThreadsOK, Points, Holding, Starting
  <1> QED BY <1>1, <1>2 DEF ThreadsOK

LEMMA AfterStartOK ==
  ASSUME ThreadsOK, NEW t \in Threads, AfterStart(t)
  PROVE  ThreadsOK'
  <1>1. loc' \in [Threads -> LocType]
    BY LocOK DEF AfterStart, Keep, ThreadsOK
  <1>2. pc' \in [Threads -> Points]
    BY DEF AfterStart, Goto, ThreadsOK, Points, Holding, Starting
  <1> QED BY <1>1, <1>2 DEF ThreadsOK

LEMMA KillOK ==
  ASSUME HarnessOK, NEW S, Kill(S)
  PROVE  HarnessOK'
  <1>1. <<>> \in Seq(Msgs) /\ <<>> \in Seq(EventType)
    OBVIOUS
  <1>2. \A r \in Runs : [child[r] EXCEPT !.phase = "dead", !.todo = <<>>] \in
  ChildType
    BY <1>1 DEF HarnessOK, ChildType
  <1> QED
    BY <1>1, <1>2 DEF HarnessOK, Kill

LEMMA SpendOK ==
  ASSUME left \in Nat, NEW op, Spend(op)
  PROVE  left' \in Nat
  BY DEF Spend

\* Records with some fields replaced keep their type.
LEMMA LocUpdates ==
  ASSUME NEW l \in LocType
  PROVE  /\ \A o \in OpNames : [l EXCEPT !.op = o] \in LocType
         /\ \A s \in Sessions, b \in BOOLEAN :
              [l EXCEPT !.resume = s, !.stopped = FALSE, !.onFallback = b] \in LocType
         /\ \A n \in Nat : [l EXCEPT !.gen = n] \in LocType
         /\ \A S \in SUBSET Msgs : [l EXCEPT !.msgs = S] \in LocType
         /\ \A S \in SUBSET Msgs, n \in 0 .. MaxRuns :
              [l EXCEPT !.run = n, !.msgs = S] \in LocType
         /\ \A n \in 0 .. MaxRuns : [l EXCEPT !.run = n] \in LocType
         /\ \A k \in Kinds : [l EXCEPT !.kind = k] \in LocType
         /\ [l EXCEPT !.stopped = TRUE] \in LocType
         /\ [l EXCEPT !.init = TRUE] \in LocType
         /\ \A S \in SUBSET Msgs, k \in Kinds, n \in 0 .. MaxRuns, g \in Nat, b \in BOOLEAN :
              [l EXCEPT !.msgs = S, !.kind = k, !.run = n, !.gen = g,
                        !.onFallback = b] \in LocType
  BY DEF LocType

LEMMA SlotUpdates ==
  ASSUME NEW s \in SlotType
  PROVE  /\ \A i \in Sessions : [s EXCEPT !.sess = i] \in SlotType
         /\ \A S \in SUBSET Msgs : [s EXCEPT !.inFlight = S] \in SlotType
         /\ \A S \in SUBSET Msgs, n \in Nat :
              [s EXCEPT !.inFlight = S, !.consec = n] \in SlotType
         /\ \A n \in 0 .. MaxRuns, g \in Nat, b \in BOOLEAN :
              [s EXCEPT !.run = n, !.gen = g, !.onFallback = b] \in SlotType
  BY DEF SlotType

LEMMA ChildUpdates ==
  ASSUME NEW c \in ChildType
  PROVE  /\ \A p \in {"ready", "dead"} : [c EXCEPT !.phase = p] \in ChildType
         /\ \A q \in Seq(Msgs) : [c EXCEPT !.todo = q] \in ChildType
         /\ [c EXCEPT !.phase = "dead", !.todo = <<>>] \in ChildType
         /\ \A m \in Msgs : [c EXCEPT !.todo = Append(c.todo, m)] \in ChildType
  <1>1. c.todo \in Seq(Msgs) /\ <<>> \in Seq(Msgs)
    BY DEF ChildType
  <1>2. \A m \in Msgs : Append(c.todo, m) \in Seq(Msgs)
    BY <1>1
  <1> QED BY <1>1, <1>2 DEF ChildType

\* What a reader takes from a pipe, and a process from its standard input.
LEMMA PipeOK ==
  ASSUME HarnessOK, NEW r \in Runs
  PROVE  /\ pipe[r] \in Seq(EventType) /\ child[r] \in ChildType
         /\ pipe[r] # <<>> => /\ Head(pipe[r]) \in EventType
                              /\ Tail(pipe[r]) \in Seq(EventType)
         /\ child[r].todo # <<>> => /\ Head(child[r].todo) \in Msgs
                                    /\ Tail(child[r].todo) \in Seq(Msgs)
  <1>1. /\ pipe[r] \in Seq(EventType) /\ child[r] \in ChildType
        /\ child[r].todo \in Seq(Msgs)
    BY DEF HarnessOK, ChildType
  <1> QED BY <1>1, HeadTailProperties

LEMMA PicksMessages ==
  ASSUME NEW n, NEW aged
  PROVE  NextForDelivery(row, n, aged) \subseteq Msgs
  BY PicksFromTheQueue DEF Queued, InState

-----------------------------------------------------------------------------
(* What each kind of step does to the types of the variables. *)

LEMMA PcStep ==
  ASSUME TypeOK, Next
  PROVE  pc' \in [Threads -> Points]
  <1>1. ASSUME NEW t \in Tasks, Asked(t) \/ WindowOpens(t)
       PROVE  pc' \in [Threads -> Points]
    BY <1>1, FinishOK, AfterStartOK, RedeliverOK DEF TypeOK, ThreadsOK, threads,
    Goto, Points, Holding, Starting, Asked, Send, Start, Stop, Restart, Interrupt,
    ClearContext, KillIfOauthShaped, ResumeTurns, Request, PauseTurns, Shutdown,
    Renew, WedgeCheck, ParkTakes, Crash, Reboot, WindowOpens, Threads
  <1>2. ASSUME NEW t \in Threads, Works(t)
       PROVE  pc' \in [Threads -> Points]
    <2>1. CASE \/ Deliver(t) \/ StartLooks(t) \/ StartRenews(t) \/ StartRetakes(t)
               \/ StartStopped(t) \/ PumpSkips(t) \/ PumpAdvances(t) \/ TakeNothing(t)
      BY <2>1, FinishOK, AfterStartOK DEF TypeOK, ThreadsOK, Goto, Points, Holding,
      Starting, Deliver, StartLooks, StartRenews, StartRetakes, StartStopped,
      PumpSkips, PumpAdvances, TakeNothing
    <2>2. ASSUME NEW r \in Runs, Spawn(t, r)
          PROVE  pc' \in [Threads -> Points]
      BY <2>2 DEF TypeOK, ThreadsOK, Points, Spawn
    <2>3. ASSUME NEW aged \in BOOLEAN, PumpWrites(t, aged)
          PROVE  pc' \in [Threads -> Points]
      <3>1. Goto(t, "writing") \/ Finish(t)
        BY <2>3 DEF PumpWrites
      <3> QED BY <3>1, FinishOK DEF TypeOK, ThreadsOK, Goto, Points, Holding
    <2>4. CASE \/ NoteStop(t) \/ TakeAndKill(t) \/ Stopped(t) \/ Overspent(t)
               \/ StayDown(t) \/ ComeBack(t) \/ Recycle(t) \/ Adopt(t)
      BY <2>4, FinishOK, RedeliverOK DEF TypeOK, ThreadsOK, Goto, Points, Holding,
      NoteStop, TakeAndKill, Stopped, Overspent, StayDown, ComeBack, Recycle, Adopt
    <2>5. CASE \/ Parks(t) \/ Wedged(t) \/ Reopen(t) \/ LiftSwaps(t) \/ LiftOpens(t)
               \/ DrainEnds(t) \/ ShutdownMarks(t) \/ ShutdownKills(t) \/ Boot(t)
      BY <2>5, FinishOK DEF TypeOK, ThreadsOK, Goto, Points, Parks, Wedged, Reopen,
      LiftSwaps, LiftOpens, DrainEnds, ShutdownMarks, ShutdownKills, Boot
    <2>6. CASE Exit(t)
      BY <2>6 DEF TypeOK, ThreadsOK, Points, Exit, Reboot
    <2> QED
      BY <1>2, <2>1, <2>2, <2>3, <2>4, <2>5, <2>6 DEF Works
  <1>3. ASSUME NEW t \in Threads, Fails(t)
       PROVE  pc' \in [Threads -> Points]
    BY <1>3, FinishOK, AfterStartOK, RedeliverOK DEF TypeOK, ThreadsOK, threads,
    Goto, Points, Holding, Starting, Fails, StartRefused, SpawnFails,
    PumpQuarantines
  <1>4. ASSUME NEW r \in Runs, Reads(r) \/ ReaderFails(r)
       PROVE  pc' \in [Threads -> Points]
    BY <1>4, FinishOK, AfterStartOK, RedeliverOK DEF TypeOK, ThreadsOK, threads,
    Goto, Points, Holding, Starting, Reads, ReadInit, ReadResult, Settle, Recover,
    Limited, HaltTakes, HaltKills, Reap, ReapLooks, ReapSettles, ReaderFails,
    SettleOverBudget, LimitedOverBudget, RecoverRenews, ChildDies, Threads
  <1>5. ASSUME NEW r \in Runs, ChildInits(r) \/ \E e \in Ends : ChildEndsTurn(r, e)
       PROVE  pc' \in [Threads -> Points]
    BY <1>5, FinishOK, AfterStartOK, RedeliverOK DEF TypeOK, ThreadsOK, threads,
    Goto, Points, Holding, Starting, ChildInits, ChildEndsTurn, Says
  <1>6. CASE Rest
    BY <1>6 DEF Rest, vars, TypeOK, ThreadsOK, threads
  <1> QED
    BY <1>1, <1>2, <1>3, <1>4, <1>5, <1>6 DEF Next

LEMMA LocStep ==
  ASSUME TypeOK, Next
  PROVE  loc' \in [Threads -> LocType]
  <1>1. ASSUME NEW t \in Tasks, Asked(t) \/ WindowOpens(t)
       PROVE  loc' \in [Threads -> LocType]
    <2>1. \A o \in OpNames : [NoLoc EXCEPT !.op = o] \in LocType
      BY NoLocOK, LocUpdates
    <2>2. {"start", "stop", "restart", "interrupt", "clear", "oauth", "resume_turns",
           "shutdown"} \subseteq OpNames
      BY DEF OpNames
    <2> QED
      BY <1>1, <2>1, <2>2, NoLocOK DEF TypeOK, ThreadsOK, threads, Keep, Asked,
      Send, Start, Stop, Restart, Interrupt, ClearContext, KillIfOauthShaped,
      ResumeTurns, Request, PauseTurns, Shutdown, Renew, WedgeCheck, ParkTakes,
      Crash, Reboot, WindowOpens, Threads
  <1>2. ASSUME NEW t \in Threads, Works(t)
       PROVE  loc' \in [Threads -> LocType]
    <2>1. \A u \in Threads : loc[u] \in LocType
      BY DEF TypeOK, ThreadsOK
    <2>2. \A u \in Threads :
            /\ [loc[u] EXCEPT !.resume = session, !.stopped = FALSE,
                              !.onFallback = fallback] \in LocType
            /\ [loc[u] EXCEPT !.gen = login] \in LocType
            /\ [loc[u] EXCEPT !.msgs = slot.inFlight] \in LocType
            /\ [loc[u] EXCEPT !.run = slot.run, !.msgs = slot.inFlight] \in LocType
            /\ [loc[u] EXCEPT !.stopped = TRUE] \in LocType
            /\ [loc[u] EXCEPT !.op = "recycle"] \in LocType
            /\ \A m \in Msgs : [loc[u] EXCEPT !.msgs = {m}] \in LocType
      <3> TAKE u \in Threads
      <3>1. /\ slot.inFlight \in SUBSET Msgs /\ slot.run \in 0 .. MaxRuns
            /\ session \in Sessions /\ login \in Nat /\ fallback \in BOOLEAN
        BY DEF TypeOK, MemoryOK, SlotType, DbOK
      <3>2. "recycle" \in OpNames /\ \A m \in Msgs : {m} \in SUBSET Msgs
        BY DEF OpNames
      <3> QED BY <2>1, <3>1, <3>2, LocUpdates
    <2>3. CASE NoteStop(t)
      BY <2>1, <2>2, <2>3 DEF NoteStop, TypeOK, ThreadsOK
    <2>4. ASSUME NEW aged \in BOOLEAN, PumpWrites(t, aged)
          PROVE  loc' \in [Threads -> LocType]
      <3>1. PICK m \in NextForDelivery(row, slot.consec, aged) :
              Keep(t, [loc[t] EXCEPT !.msgs = {m}]) \/ Finish(t)
        BY <2>4 DEF PumpWrites
      <3>2. [loc[t] EXCEPT !.msgs = {m}] \in LocType
        BY <2>2, PicksMessages
      <3> QED BY <3>1, <3>2, FinishOK DEF TypeOK, ThreadsOK, Keep
    <2>5. CASE Reboot(t)
      BY <2>5, NoLocOK DEF Reboot
    <2>6. CASE StartLooks(t) \/ StartRenews(t) \/ StartRetakes(t) \/ StartStopped(t)
      BY <2>1, <2>2, <2>6, FinishOK, AfterStartOK
      DEF TypeOK, ThreadsOK, Keep, StartLooks, StartRenews, StartRetakes, StartStopped
    <2>7. CASE TakeAndKill(t) \/ DrainEnds(t) \/ Recycle(t)
      BY <2>1, <2>2, <2>7, FinishOK
      DEF TypeOK, ThreadsOK, Keep, TakeAndKill, DrainEnds, Recycle
    <2>8. ASSUME NEW r \in Runs, Spawn(t, r) PROVE loc' \in [Threads -> LocType]
      BY <2>8, LocOK DEF TypeOK, ThreadsOK, Keep, Spawn
    <2>9. CASE \/ Deliver(t) \/ PumpSkips(t) \/ PumpAdvances(t) \/ TakeNothing(t)
               \/ Stopped(t) \/ Overspent(t) \/ StayDown(t) \/ ComeBack(t)
               \/ Adopt(t) \/ Parks(t) \/ Wedged(t)
               \/ Reopen(t) \/ LiftSwaps(t) \/ LiftOpens(t) \/ ShutdownMarks(t)
               \/ ShutdownKills(t) \/ Boot(t)
      BY <2>9, FinishOK, RedeliverOK
      DEF TypeOK, ThreadsOK, threads, Deliver, PumpSkips, PumpAdvances, TakeNothing,
          Stopped, Overspent, StayDown, ComeBack, Adopt, Parks, Wedged, Reopen,
          LiftSwaps, LiftOpens, ShutdownMarks, ShutdownKills, Boot
    <2> QED
      BY <1>2, <2>3, <2>4, <2>5, <2>6, <2>7, <2>8, <2>9 DEF Works, Exit
  <1>3. ASSUME NEW t \in Threads, Fails(t)
       PROVE  loc' \in [Threads -> LocType]
    BY <1>3, FinishOK, AfterStartOK, RedeliverOK, LocOK, NoLocOK DEF TypeOK,
    ThreadsOK, threads, Keep, Fails, StartRefused, SpawnFails, PumpQuarantines
  <1>4. ASSUME NEW r \in Runs, Reads(r) \/ ReaderFails(r)
       PROVE  loc' \in [Threads -> LocType]
    <2>1. r \in Threads /\ loc[r] \in LocType
      BY DEF Threads, TypeOK, ThreadsOK
    <2>2. /\ {"clear", "budget", "auth"} \subseteq OpNames
          /\ {"diagnosed", "none"} \subseteq Kinds
      BY DEF OpNames, Kinds
    <2>3. /\ slot.inFlight \in SUBSET Msgs /\ slot.run \in 0 .. MaxRuns
          /\ slot.gen \in Nat /\ slot.onFallback \in BOOLEAN
      BY DEF TypeOK, MemoryOK, SlotType
    <2>4. ReadResult(r) => Head(pipe[r]).ev \in Kinds
      BY PipeOK DEF ReadResult, EventType, Kinds, TypeOK
    <2>5. ReadResult(r) =>
            [loc[r] EXCEPT !.msgs = slot.inFlight, !.kind = Head(pipe[r]).ev,
                           !.run = slot.run, !.gen = slot.gen,
                           !.onFallback = slot.onFallback] \in LocType
      BY <2>1, <2>3, <2>4, LocUpdates
    <2>6. /\ [loc[r] EXCEPT !.init = TRUE] \in LocType
          /\ [loc[r] EXCEPT !.op = "clear"] \in LocType
          /\ [loc[r] EXCEPT !.op = "budget"] \in LocType
          /\ [loc[r] EXCEPT !.op = "auth"] \in LocType
          /\ [loc[r] EXCEPT !.run = slot.run] \in LocType
          /\ [loc[r] EXCEPT !.kind = "diagnosed"] \in LocType
          /\ [loc[r] EXCEPT !.kind = "none"] \in LocType
      BY <2>1, <2>2, <2>3, LocUpdates
    <2> QED
      BY <1>4, <2>1, <2>5, <2>6, LocOK, FinishOK, RedeliverOK DEF TypeOK,
      ThreadsOK, threads, Keep, Reads, ReadInit, ReadResult, Settle, Recover,
      Limited, HaltTakes, HaltKills, Reap, ReapLooks, ReapSettles, ReaderFails,
      SettleOverBudget, LimitedOverBudget, RecoverRenews, ChildDies
  <1>5. ASSUME NEW r \in Runs, ChildInits(r) \/ \E e \in Ends : ChildEndsTurn(r, e)
       PROVE  loc' \in [Threads -> LocType]
    BY <1>5, FinishOK, AfterStartOK, RedeliverOK, LocOK, NoLocOK DEF TypeOK,
    ThreadsOK, threads, Keep, ChildInits, ChildEndsTurn, Says
  <1>6. CASE Rest
    BY <1>6 DEF Rest, vars, TypeOK, ThreadsOK, threads
  <1> QED
    BY <1>1, <1>2, <1>3, <1>4, <1>5, <1>6 DEF Next

LEMMA SlotStep ==
  ASSUME TypeOK, Next
  PROVE  slot' \in SlotType
  <1>1. ASSUME NEW t \in Tasks, Asked(t) \/ WindowOpens(t)
       PROVE  slot' \in SlotType
    BY <1>1, NoLocOK DEF TypeOK, MemoryOK, memory, Asked, Send, Start, Stop,
    Restart, Interrupt, ClearContext, KillIfOauthShaped, ResumeTurns, Request,
    PauseTurns, Shutdown, Renew, WedgeCheck, ParkTakes, Crash, Reboot,
    WindowOpens, Threads
  <1>2. ASSUME NEW t \in Threads, Works(t)
       PROVE  slot' \in SlotType
    <2>1. ASSUME NEW r \in Runs, Spawn(t, r) PROVE slot' \in SlotType
      <3>0. loc[t].gen \in Nat /\ loc[t].onFallback \in BOOLEAN
        BY LocOK DEF LocType, TypeOK
      <3>1. r \in 0 .. MaxRuns
        BY SupervisorAssumption DEF Runs
      <3>2. (HasFallback /\ loc[t].onFallback /\ fallback) \in BOOLEAN
        BY <3>0, SupervisorAssumption DEF TypeOK, DbOK
      <3> QED BY <2>1, <3>0, <3>1, <3>2, NoLocOK, SlotUpdates DEF Spawn
    <2>2. CASE PumpAdvances(t)
      <3>1. loc[t].msgs \in SUBSET Msgs
        BY LocOK DEF LocType, TypeOK
      <3>2. slot.consec + 1 \in Nat /\ 0 \in Nat
        BY DEF TypeOK, MemoryOK, SlotType
      <3>3. slot' = [slot EXCEPT !.inFlight = loc[t].msgs,
                       !.consec = IF loc[t].msgs \subseteq UserMsgs
                                  THEN slot.consec + 1 ELSE 0]
        BY <2>2 DEF PumpAdvances
      <3> QED BY <3>1, <3>2, <3>3, SlotUpdates DEF TypeOK, MemoryOK
    <2>3. CASE ~PumpAdvances(t) /\ \A r \in Runs : ~Spawn(t, r)
      BY <1>2, <2>3, NoLocOK DEF TypeOK, MemoryOK, memory, Works, Deliver,
      StartLooks, StartRenews, StartRetakes, StartStopped, PumpSkips, PumpWrites,
      NoteStop, TakeNothing, TakeAndKill, Stopped, Overspent, StayDown, ComeBack,
      Recycle, Adopt, Parks, Wedged, Reopen, LiftSwaps, LiftOpens, DrainEnds,
      ShutdownMarks, ShutdownKills, Exit, Reboot, Boot
    <2> QED BY <2>1, <2>2, <2>3
  <1>3. ASSUME NEW t \in Threads, Fails(t)
       PROVE  slot' \in SlotType
    BY <1>3, NoLocOK DEF TypeOK, MemoryOK, memory, Fails, StartRefused,
    SpawnFails, PumpQuarantines
  <1>4. ASSUME NEW r \in Runs, Reads(r) \/ ReaderFails(r)
       PROVE  slot' \in SlotType
    <2>1. ReadInit(r) => Head(pipe[r]).sess \in Sessions
      BY PipeOK DEF ReadInit, EventType, TypeOK
    <2> QED
      BY <1>4, <2>1, NoLocOK, SlotUpdates DEF TypeOK, MemoryOK, memory, Reads,
      ReadInit, ReadResult, Settle, Recover, Limited, HaltTakes, HaltKills, Reap,
      ReapLooks, ReapSettles, ReaderFails, SettleOverBudget, LimitedOverBudget,
      RecoverRenews, ChildDies
  <1>5. ASSUME NEW r \in Runs, ChildInits(r) \/ \E e \in Ends : ChildEndsTurn(r, e)
       PROVE  slot' \in SlotType
    BY <1>5, NoLocOK DEF TypeOK, MemoryOK, memory, ChildInits, ChildEndsTurn, Says
  <1>6. CASE Rest
    BY <1>6 DEF Rest, vars, TypeOK, MemoryOK, memory
  <1> QED
    BY <1>1, <1>2, <1>3, <1>4, <1>5, <1>6 DEF Next

LEMMA FlagsStep ==
  ASSUME TypeOK, Next
  PROVE  /\ closing' \in BOOLEAN /\ paused' \in BOOLEAN
         /\ parkTimer' \in BOOLEAN /\ resumeTimer' \in BOOLEAN
  <1>1. ASSUME NEW t \in Tasks, Asked(t) \/ WindowOpens(t)
       PROVE  /\ closing' \in BOOLEAN /\ paused' \in BOOLEAN
         /\ parkTimer' \in BOOLEAN /\ resumeTimer' \in BOOLEAN
    BY <1>1 DEF TypeOK, MemoryOK, memory, Asked, Send, Start, Stop, Restart,
    Interrupt, ClearContext, KillIfOauthShaped, ResumeTurns, Request, PauseTurns,
    Shutdown, Renew, WedgeCheck, ParkTakes, Crash, Reboot, WindowOpens, Threads
  <1>2. ASSUME NEW t \in Threads, Works(t)
       PROVE  /\ closing' \in BOOLEAN /\ paused' \in BOOLEAN
         /\ parkTimer' \in BOOLEAN /\ resumeTimer' \in BOOLEAN
    BY <1>2 DEF TypeOK, MemoryOK, memory, Works, Deliver, StartLooks, StartRenews,
    StartRetakes, StartStopped, Spawn, PumpSkips, PumpWrites, PumpAdvances,
    NoteStop, TakeNothing, TakeAndKill, Stopped, Overspent, StayDown, ComeBack,
    Recycle, Adopt, Parks, Wedged, Reopen, LiftSwaps, LiftOpens, DrainEnds,
    ShutdownMarks, ShutdownKills, Exit, Reboot, Boot
  <1>3. ASSUME NEW t \in Threads, Fails(t)
       PROVE  /\ closing' \in BOOLEAN /\ paused' \in BOOLEAN
         /\ parkTimer' \in BOOLEAN /\ resumeTimer' \in BOOLEAN
    BY <1>3 DEF TypeOK, MemoryOK, memory, Fails, StartRefused, SpawnFails,
    PumpQuarantines
  <1>4. ASSUME NEW r \in Runs, Reads(r) \/ ReaderFails(r)
       PROVE  /\ closing' \in BOOLEAN /\ paused' \in BOOLEAN
         /\ parkTimer' \in BOOLEAN /\ resumeTimer' \in BOOLEAN
    <2>1. CASE Settle(r)
      <3>1. ("park" \in Ops) \in BOOLEAN
        OBVIOUS
      <3>2. parkTimer' = parkTimer \/ parkTimer' = ("park" \in Ops)
        BY <2>1, Zenon DEF Settle
      <3>3. parkTimer' \in BOOLEAN
        BY <3>1, <3>2, Zenon DEF TypeOK, MemoryOK
      <3> QED BY <2>1, <3>3 DEF Settle, TypeOK, MemoryOK
    <2>2. CASE ~Settle(r)
      BY <1>4, <2>2 DEF TypeOK, MemoryOK, memory, Reads, ReadInit, ReadResult,
      Recover, Limited, HaltTakes, HaltKills, Reap, ReapLooks, ReapSettles,
      ReaderFails, SettleOverBudget, LimitedOverBudget, RecoverRenews, ChildDies
    <2> QED BY <2>1, <2>2
  <1>5. ASSUME NEW r \in Runs, ChildInits(r) \/ \E e \in Ends : ChildEndsTurn(r, e)
       PROVE  /\ closing' \in BOOLEAN /\ paused' \in BOOLEAN
         /\ parkTimer' \in BOOLEAN /\ resumeTimer' \in BOOLEAN
    BY <1>5 DEF TypeOK, MemoryOK, memory, ChildInits, ChildEndsTurn, Says
  <1>6. CASE Rest
    BY <1>6 DEF Rest, vars, TypeOK, MemoryOK, memory
  <1> QED
    BY <1>1, <1>2, <1>3, <1>4, <1>5, <1>6 DEF Next

LEMMA LoginStep ==
  ASSUME TypeOK, Next
  PROVE  login' \in Nat
  <1>1. ASSUME NEW t \in Tasks, Asked(t) \/ WindowOpens(t)
       PROVE  login' \in Nat
    BY <1>1 DEF TypeOK, MemoryOK, memory, Asked, Send, Start, Stop, Restart,
    Interrupt, ClearContext, KillIfOauthShaped, ResumeTurns, Request, PauseTurns,
    Shutdown, Renew, WedgeCheck, ParkTakes, Crash, Reboot, WindowOpens, Threads
  <1>2. ASSUME NEW t \in Threads, Works(t)
       PROVE  login' \in Nat
    BY <1>2 DEF TypeOK, MemoryOK, memory, Works, Deliver, StartLooks, StartRenews,
    StartRetakes, StartStopped, Spawn, PumpSkips, PumpWrites, PumpAdvances,
    NoteStop, TakeNothing, TakeAndKill, Stopped, Overspent, StayDown, ComeBack,
    Recycle, Adopt, Parks, Wedged, Reopen, LiftSwaps, LiftOpens, DrainEnds,
    ShutdownMarks, ShutdownKills, Exit, Reboot, Boot
  <1>3. ASSUME NEW t \in Threads, Fails(t)
       PROVE  login' \in Nat
    BY <1>3 DEF TypeOK, MemoryOK, memory, Fails, StartRefused, SpawnFails,
    PumpQuarantines
  <1>4. ASSUME NEW r \in Runs, Reads(r) \/ ReaderFails(r)
       PROVE  login' \in Nat
    BY <1>4 DEF TypeOK, MemoryOK, memory, Reads, ReadInit, ReadResult, Settle,
    Recover, Limited, HaltTakes, HaltKills, Reap, ReapLooks, ReapSettles,
    ReaderFails, SettleOverBudget, LimitedOverBudget, RecoverRenews, ChildDies,
    Threads
  <1>5. ASSUME NEW r \in Runs, ChildInits(r) \/ \E e \in Ends : ChildEndsTurn(r, e)
       PROVE  login' \in Nat
    BY <1>5 DEF TypeOK, MemoryOK, memory, ChildInits, ChildEndsTurn, Says
  <1>6. CASE Rest
    BY <1>6 DEF Rest, vars, TypeOK, MemoryOK, memory
  <1> QED
    BY <1>1, <1>2, <1>3, <1>4, <1>5, <1>6 DEF Next

LEMMA TokenStep ==
  ASSUME TypeOK, Next
  PROVE  token' \in BOOLEAN /\ fallback' \in BOOLEAN
  <1>1. ASSUME NEW t \in Tasks, Asked(t) \/ WindowOpens(t)
       PROVE  token' \in BOOLEAN /\ fallback' \in BOOLEAN
    BY <1>1, SupervisorAssumption DEF TypeOK, DbOK, db, Asked, Send, Start, Stop,
    Restart, Interrupt, ClearContext, KillIfOauthShaped, ResumeTurns, Request,
    PauseTurns, Shutdown, Renew, WedgeCheck, ParkTakes, Crash, Reboot,
    WindowOpens, Threads
  <1>2. ASSUME NEW t \in Threads, Works(t)
       PROVE  token' \in BOOLEAN /\ fallback' \in BOOLEAN
    BY <1>2, SupervisorAssumption DEF TypeOK, DbOK, db, Works, Deliver,
    StartLooks, StartRenews, StartRetakes, StartStopped, Spawn, PumpSkips,
    PumpWrites, PumpAdvances, NoteStop, TakeNothing, TakeAndKill, Stopped,
    Overspent, StayDown, ComeBack, Recycle, Adopt, Parks, Wedged, Reopen, LiftSwaps,
    LiftOpens, DrainEnds, ShutdownMarks, ShutdownKills, Exit, Reboot, Boot
  <1>3. ASSUME NEW t \in Threads, Fails(t)
       PROVE  token' \in BOOLEAN /\ fallback' \in BOOLEAN
    BY <1>3, SupervisorAssumption DEF TypeOK, DbOK, db, Fails, StartRefused,
    SpawnFails, PumpQuarantines
  <1>4. ASSUME NEW r \in Runs, Reads(r) \/ ReaderFails(r)
       PROVE  token' \in BOOLEAN /\ fallback' \in BOOLEAN
    BY <1>4, SupervisorAssumption DEF TypeOK, DbOK, db, Reads, ReadInit,
    ReadResult, Settle, Recover, Limited, HaltTakes, HaltKills, Reap, ReapLooks,
    ReapSettles, ReaderFails, SettleOverBudget, LimitedOverBudget, RecoverRenews,
    ChildDies, Threads
  <1>5. ASSUME NEW r \in Runs, ChildInits(r) \/ \E e \in Ends : ChildEndsTurn(r, e)
       PROVE  token' \in BOOLEAN /\ fallback' \in BOOLEAN
    BY <1>5, SupervisorAssumption DEF TypeOK, DbOK, db, ChildInits, ChildEndsTurn,
    Says
  <1>6. CASE Rest
    BY <1>6 DEF Rest, vars, TypeOK, DbOK, db
  <1> QED
    BY <1>1, <1>2, <1>3, <1>4, <1>5, <1>6 DEF Next

LEMMA StatusStep ==
  ASSUME TypeOK, Next
  PROVE  status' \in Statuses
  <1>1. ASSUME NEW t \in Tasks, Asked(t) \/ WindowOpens(t)
       PROVE  status' \in Statuses
    BY <1>1 DEF TypeOK, DbOK, db, Statuses, TurnStatus, Asked, Send, Start, Stop,
    Restart, Interrupt, ClearContext, KillIfOauthShaped, ResumeTurns, Request,
    PauseTurns, Shutdown, Renew, WedgeCheck, ParkTakes, Crash, Reboot,
    WindowOpens, Threads
  <1>2. ASSUME NEW t \in Threads, Works(t)
       PROVE  status' \in Statuses
    <2>1. CASE Stopped(t) \/ Overspent(t) \/ StayDown(t)
      BY <2>1 DEF Stopped, Overspent, StayDown, Statuses
    <2>2. CASE ~Stopped(t) /\ ~Overspent(t) /\ ~StayDown(t)
      BY <1>2, <2>2 DEF TypeOK, DbOK, db, Statuses, Works, Deliver, StartLooks,
      StartRenews, StartRetakes, StartStopped, Spawn, PumpSkips, PumpWrites,
      PumpAdvances, NoteStop, TakeNothing, TakeAndKill, ComeBack, Recycle, Adopt,
      Parks, Wedged, Reopen, LiftSwaps, LiftOpens, DrainEnds, ShutdownMarks,
      ShutdownKills, Exit, Reboot, Boot
    <2> QED BY <2>1, <2>2
  <1>3. ASSUME NEW t \in Threads, Fails(t)
       PROVE  status' \in Statuses
    BY <1>3 DEF TypeOK, DbOK, db, Statuses, TurnStatus, Fails, StartRefused,
    SpawnFails, PumpQuarantines
  <1>4. ASSUME NEW r \in Runs, Reads(r) \/ ReaderFails(r)
       PROVE  status' \in Statuses
    BY <1>4 DEF TypeOK, DbOK, db, Statuses, TurnStatus, Reads, ReadInit,
    ReadResult, Settle, Recover, Limited, HaltTakes, HaltKills, Reap, ReapLooks,
    ReapSettles, ReaderFails, SettleOverBudget, LimitedOverBudget, RecoverRenews,
    ChildDies, Threads
  <1>5. ASSUME NEW r \in Runs, ChildInits(r) \/ \E e \in Ends : ChildEndsTurn(r, e)
       PROVE  status' \in Statuses
    BY <1>5 DEF TypeOK, DbOK, db, Statuses, TurnStatus, ChildInits, ChildEndsTurn,
    Says
  <1>6. CASE Rest
    BY <1>6 DEF Rest, vars, TypeOK, DbOK, db
  <1> QED
    BY <1>1, <1>2, <1>3, <1>4, <1>5, <1>6 DEF Next

LEMMA SessionStep ==
  ASSUME TypeOK, Next
  PROVE  session' \in Sessions
  <1>0. 0 \in Sessions
    BY SupervisorAssumption DEF Sessions
  <1>1. ASSUME NEW t \in Tasks, Asked(t) \/ WindowOpens(t)
       PROVE  session' \in Sessions
    BY <1>1, <1>0 DEF TypeOK, DbOK, db, Asked, Send, Start, Stop, Restart,
    Interrupt, ClearContext, KillIfOauthShaped, ResumeTurns, Request, PauseTurns,
    Shutdown, Renew, WedgeCheck, ParkTakes, Crash, Reboot, WindowOpens, Threads
  <1>2. ASSUME NEW t \in Threads, Works(t)
       PROVE  session' \in Sessions
    BY <1>2, <1>0 DEF TypeOK, DbOK, db, Works, Deliver, StartLooks, StartRenews,
    StartRetakes, StartStopped, Spawn, PumpSkips, PumpWrites, PumpAdvances,
    NoteStop, TakeNothing, TakeAndKill, Stopped, Overspent, StayDown, ComeBack,
    Recycle, Adopt, Parks, Wedged, Reopen, LiftSwaps, LiftOpens, DrainEnds,
    ShutdownMarks, ShutdownKills, Exit, Reboot, Boot
  <1>3. ASSUME NEW t \in Threads, Fails(t)
       PROVE  session' \in Sessions
    BY <1>3, <1>0 DEF TypeOK, DbOK, db, Fails, StartRefused, SpawnFails,
    PumpQuarantines
  <1>4. ASSUME NEW r \in Runs, Reads(r) \/ ReaderFails(r)
       PROVE  session' \in Sessions
    <2>1. ReadInit(r) => Head(pipe[r]).sess \in Sessions
      BY PipeOK DEF ReadInit, EventType, TypeOK
    <2> QED
      BY <1>4, <2>1, <1>0 DEF TypeOK, DbOK, db, Reads, ReadInit, ReadResult,
      Settle, Recover, Limited, HaltTakes, HaltKills, Reap, ReapLooks,
      ReapSettles, ReaderFails, SettleOverBudget, LimitedOverBudget, RecoverRenews,
      ChildDies
  <1>5. ASSUME NEW r \in Runs, ChildInits(r) \/ \E e \in Ends : ChildEndsTurn(r, e)
       PROVE  session' \in Sessions
    BY <1>5, <1>0 DEF TypeOK, DbOK, db, ChildInits, ChildEndsTurn, Says
  <1>6. CASE Rest
    BY <1>6 DEF Rest, vars, TypeOK, DbOK, db
  <1> QED
    BY <1>1, <1>2, <1>3, <1>4, <1>5, <1>6 DEF Next

LEMMA HarnessStep ==
  ASSUME TypeOK, Next
  PROVE  HarnessOK'
  <1>1. ASSUME NEW t \in Tasks, Asked(t) \/ WindowOpens(t)
       PROVE  HarnessOK'
    BY <1>1, KillOK DEF TypeOK, HarnessOK, harness, Asked, Send, Start, Stop,
    Restart, Interrupt, ClearContext, KillIfOauthShaped, ResumeTurns, Request,
    PauseTurns, Shutdown, Renew, WedgeCheck, ParkTakes, Crash, Reboot,
    WindowOpens, Threads
  <1>2. ASSUME NEW t \in Threads, Works(t)
       PROVE  HarnessOK'
    <2>1. ASSUME NEW aged \in BOOLEAN, PumpWrites(t, aged) PROVE HarnessOK'
      <3>1. slot.run \in Runs
        BY <2>1, SupervisorAssumption
        DEF PumpWrites, CanPump, SlotType, Runs, TypeOK, MemoryOK
      <3>2. ASSUME NEW m \in Msgs
            PROVE  [child EXCEPT ![slot.run].todo = Append(@, m)] \in [Runs ->
            ChildType]
        <4>1. [child[slot.run] EXCEPT !.todo = Append(child[slot.run].todo, m)]
                \in ChildType
          BY <3>1, ChildUpdates DEF TypeOK, HarnessOK
        <4> QED BY <4>1 DEF TypeOK, HarnessOK
      <3> QED BY <2>1, <3>2, PicksMessages DEF PumpWrites, TypeOK, HarnessOK
    <2>2. ASSUME NEW r \in Runs, Spawn(t, r) PROVE HarnessOK'
      <3>1. r \in Sessions
        BY SupervisorAssumption DEF Runs, Sessions
      <3>2. loc[t].resume \in Sessions
        BY LocOK DEF LocType, TypeOK
      <3>3. <<>> \in Seq(Msgs)
        OBVIOUS
      <3> QED BY <2>2, <3>1, <3>2, <3>3 DEF Spawn, TypeOK, HarnessOK, ChildType
    <2>3. CASE TakeAndKill(t) \/ ShutdownKills(t) \/ Exit(t)
      BY <2>3, KillOK DEF TakeAndKill, ShutdownKills, Exit, Reboot, TypeOK
    <2>4. CASE /\ ~TakeAndKill(t) /\ ~ShutdownKills(t) /\ ~Exit(t)
               /\ \A r \in Runs : ~Spawn(t, r)
               /\ \A aged \in BOOLEAN : ~PumpWrites(t, aged)
      <3>1. \/ Deliver(t) \/ StartLooks(t) \/ StartRenews(t) \/ StartRetakes(t)
            \/ StartStopped(t) \/ PumpSkips(t) \/ PumpAdvances(t) \/ NoteStop(t)
            \/ TakeNothing(t) \/ Stopped(t) \/ Overspent(t) \/ StayDown(t)
            \/ ComeBack(t) \/ Recycle(t) \/ Adopt(t) \/ Parks(t) \/ Wedged(t)
            \/ Reopen(t) \/ LiftSwaps(t) \/ LiftOpens(t) \/ DrainEnds(t) \/ ShutdownMarks(t) \/ Boot(t)
        BY <1>2, <2>4, Zenon DEF Works
      <3>2. UNCHANGED <<child, pipe>>
        BY <3>1 DEF harness, Deliver, StartLooks, StartRenews, StartRetakes,
        StartStopped, PumpSkips, PumpAdvances, NoteStop, TakeNothing, Stopped,
        Overspent, StayDown, ComeBack, Recycle, Adopt, Parks, Wedged, Reopen,
        LiftSwaps, LiftOpens, DrainEnds, ShutdownMarks, Boot
      <3> QED BY <3>2 DEF TypeOK, HarnessOK
    <2> QED BY <2>1, <2>2, <2>3, <2>4
  <1>3. ASSUME NEW t \in Threads, Fails(t)
       PROVE  HarnessOK'
    BY <1>3, KillOK DEF TypeOK, HarnessOK, harness, Fails, StartRefused,
    SpawnFails, PumpQuarantines
  <1>4. ASSUME NEW r \in Runs, Reads(r) \/ ReaderFails(r)
       PROVE  HarnessOK'
    <2>1. CASE ReadInit(r) \/ ReadResult(r) \/ ChildDies(r)
      <3>1. \/ UNCHANGED pipe
            \/ pipe[r] # <<>> /\ pipe' = [pipe EXCEPT ![r] = Tail(pipe[r])]
        BY <2>1 DEF ReadInit, ReadResult, ChildDies
      <3>2. \/ UNCHANGED child
            \/ child' = [child EXCEPT ![r] =
                           [child[r] EXCEPT !.phase = "dead", !.todo = <<>>]]
        BY <2>1, PipeOK DEF ReadInit, ReadResult, ChildDies, TypeOK, HarnessOK, ChildType
      <3>3. /\ pipe \in [Runs -> Seq(EventType)] /\ child \in [Runs -> ChildType]
            /\ [child[r] EXCEPT !.phase = "dead", !.todo = <<>>] \in ChildType
            /\ pipe[r] # <<>> => Tail(pipe[r]) \in Seq(EventType)
        BY PipeOK, ChildUpdates DEF TypeOK, HarnessOK
      <3>4. pipe' \in [Runs -> Seq(EventType)]
        BY <3>1, <3>3
      <3>5. child' \in [Runs -> ChildType]
        BY <3>2, <3>3
      <3> QED BY <3>4, <3>5 DEF HarnessOK
    <2>2. CASE HaltKills(r)
      BY <2>2, KillOK DEF HaltKills, TypeOK
    <2>3. CASE \/ Settle(r) \/ Recover(r) \/ Limited(r) \/ HaltTakes(r) \/ Reap(r)
               \/ ReapLooks(r) \/ \E v \in Statuses : ReapSettles(r, v)
               \/ SettleOverBudget(r) \/ LimitedOverBudget(r) \/ RecoverRenews(r)
      <3>1. UNCHANGED <<child, pipe>>
        BY <2>3 DEF harness, Settle, Recover, Limited, HaltTakes, Reap, ReapLooks,
        ReapSettles, SettleOverBudget, LimitedOverBudget, RecoverRenews
      <3> QED BY <3>1 DEF TypeOK, HarnessOK
    <2> QED BY <1>4, <2>1, <2>2, <2>3 DEF Reads, ReaderFails
  <1>5. ASSUME NEW r \in Runs, ChildInits(r) \/ \E e \in Ends : ChildEndsTurn(r, e)
       PROVE  HarnessOK'
    <2>1. ASSUME NEW e \in {"init"} \cup Ends
          PROVE  Append(pipe[r], [ev |-> e, sess |-> child[r].sess]) \in
          Seq(EventType)
      <3>1. [ev |-> e, sess |-> child[r].sess] \in EventType
        BY PipeOK DEF EventType, ChildType, Ends, TypeOK
      <3> QED BY <3>1, PipeOK DEF TypeOK
    <2>2. CASE ChildInits(r)
      BY <2>1, <2>2, PipeOK, ChildUpdates DEF ChildInits, TypeOK, HarnessOK, Says
    <2>3. ASSUME NEW e \in Ends, ChildEndsTurn(r, e) PROVE HarnessOK'
      BY <2>1, <2>3, PipeOK, ChildUpdates DEF ChildEndsTurn, TypeOK, HarnessOK, Says
    <2> QED BY <1>5, <2>2, <2>3
  <1>6. CASE Rest
    BY <1>6 DEF Rest, vars, TypeOK, HarnessOK, harness
  <1> QED
    BY <1>1, <1>2, <1>3, <1>4, <1>5, <1>6 DEF Next

LEMMA LeftStep ==
  ASSUME TypeOK, Next
  PROVE  left' \in Nat
  <1>1. ASSUME NEW t \in Tasks, Asked(t) \/ WindowOpens(t)
       PROVE  left' \in Nat
    BY <1>1, SpendOK DEF TypeOK, BookOK, Asked, Send, Start, Stop, Restart,
    Interrupt, ClearContext, KillIfOauthShaped, ResumeTurns, Request, PauseTurns,
    Shutdown, Renew, WedgeCheck, ParkTakes, Crash, Reboot, WindowOpens, Threads
  <1>2. ASSUME NEW t \in Threads, Works(t)
       PROVE  left' \in Nat
    BY <1>2, SpendOK DEF TypeOK, BookOK, Works, Deliver, StartLooks, StartRenews,
    StartRetakes, StartStopped, Spawn, PumpSkips, PumpWrites, PumpAdvances,
    NoteStop, TakeNothing, TakeAndKill, Stopped, Overspent, StayDown, ComeBack,
    Recycle, Adopt, Parks, Wedged, Reopen, LiftSwaps, LiftOpens, DrainEnds,
    ShutdownMarks, ShutdownKills, Exit, Reboot, Boot
  <1>3. ASSUME NEW t \in Threads, Fails(t)
       PROVE  left' \in Nat
    BY <1>3, SpendOK DEF TypeOK, BookOK, Fails, StartRefused, SpawnFails,
    PumpQuarantines
  <1>4. ASSUME NEW r \in Runs, Reads(r) \/ ReaderFails(r)
       PROVE  left' \in Nat
    BY <1>4, SpendOK DEF TypeOK, BookOK, Reads, ReadInit, ReadResult, Settle,
    Recover, Limited, HaltTakes, HaltKills, Reap, ReapLooks, ReapSettles,
    ReaderFails, SettleOverBudget, LimitedOverBudget, RecoverRenews, ChildDies,
    Threads
  <1>5. ASSUME NEW r \in Runs, ChildInits(r) \/ \E e \in Ends : ChildEndsTurn(r, e)
       PROVE  left' \in Nat
    BY <1>5, SpendOK DEF TypeOK, BookOK, ChildInits, ChildEndsTurn, Says
  <1>6. CASE Rest
    BY <1>6 DEF Rest, vars, TypeOK, BookOK
  <1> QED
    BY <1>1, <1>2, <1>3, <1>4, <1>5, <1>6 DEF Next

LEMMA HistoryStep ==
  ASSUME TypeOK, Next
  PROVE  ran' \in [Msgs -> Nat] /\ discarded' \in SUBSET Sessions
  <1>1. ASSUME NEW t \in Tasks, Asked(t) \/ WindowOpens(t)
       PROVE  ran' \in [Msgs -> Nat] /\ discarded' \in SUBSET Sessions
    BY <1>1, PipeOK DEF TypeOK, BookOK, DbOK, history, Asked, Send, Start, Stop,
    Restart, Interrupt, ClearContext, KillIfOauthShaped, ResumeTurns, Request,
    PauseTurns, Shutdown, Renew, WedgeCheck, ParkTakes, Crash, Reboot,
    WindowOpens, Threads
  <1>2. ASSUME NEW t \in Threads, Works(t)
       PROVE  ran' \in [Msgs -> Nat] /\ discarded' \in SUBSET Sessions
    BY <1>2, PipeOK DEF TypeOK, BookOK, DbOK, history, Works, Deliver, StartLooks,
    StartRenews, StartRetakes, StartStopped, Spawn, PumpSkips, PumpWrites,
    PumpAdvances, NoteStop, TakeNothing, TakeAndKill, Stopped, Overspent, StayDown,
    ComeBack, Recycle, Adopt, Parks, Wedged, Reopen, LiftSwaps, LiftOpens,
    DrainEnds, ShutdownMarks, ShutdownKills, Exit, Reboot, Boot
  <1>3. ASSUME NEW t \in Threads, Fails(t)
       PROVE  ran' \in [Msgs -> Nat] /\ discarded' \in SUBSET Sessions
    BY <1>3, PipeOK DEF TypeOK, BookOK, DbOK, history, Fails, StartRefused,
    SpawnFails, PumpQuarantines
  <1>4. ASSUME NEW r \in Runs, Reads(r) \/ ReaderFails(r)
       PROVE  ran' \in [Msgs -> Nat] /\ discarded' \in SUBSET Sessions
    BY <1>4, PipeOK DEF TypeOK, BookOK, DbOK, history, Reads, ReadInit,
    ReadResult, Settle, Recover, Limited, HaltTakes, HaltKills, Reap, ReapLooks,
    ReapSettles, ReaderFails, SettleOverBudget, LimitedOverBudget, RecoverRenews,
    ChildDies, Threads
  <1>5. ASSUME NEW r \in Runs, ChildInits(r) \/ \E e \in Ends : ChildEndsTurn(r, e)
       PROVE  ran' \in [Msgs -> Nat] /\ discarded' \in SUBSET Sessions
    BY <1>5, PipeOK DEF TypeOK, BookOK, history, ChildInits, ChildEndsTurn
  <1>6. CASE Rest
    BY <1>6 DEF Rest, vars, TypeOK, BookOK, history
  <1> QED
    BY <1>1, <1>2, <1>3, <1>4, <1>5, <1>6 DEF Next

-----------------------------------------------------------------------------
(* What each kind of step does to the messages table. *)

LEMMA RowsStep ==
  ASSUME TypeOK, Next
  PROVE  LegalStep(row, row')
  <1>0. WellFormed(row)
    BY RowsAreWellFormed
  <1>1. ASSUME NEW t \in Tasks, Asked(t) \/ WindowOpens(t)
       PROVE  LegalStep(row, row')
    <2>1. ASSUME NEW m \in Msgs, Send(t, m) PROVE LegalStep(row, row')
      BY <2>1, <1>0, EnqueuesLegally DEF Send
    <2>2. CASE \A m \in Msgs : ~Send(t, m)
      <3>1. row' = row
        BY <1>1, <2>2 DEF db, Asked, Start, Stop, Restart, Interrupt,
        ClearContext, KillIfOauthShaped, ResumeTurns, Request, PauseTurns,
        Shutdown, Renew, WedgeCheck, ParkTakes, Crash, Reboot, WindowOpens
      <3> QED BY <3>1, <1>0, Untouched
    <2> QED BY <2>1, <2>2
  <1>2. ASSUME NEW t \in Threads, Works(t)
       PROVE  LegalStep(row, row')
    <2>1. CASE PumpAdvances(t)
      BY <2>1, <1>0, AdvancesLegally DEF PumpAdvances
    <2>2. CASE ComeBack(t)
      BY <2>2, <1>0, AdvancesLegally, RequeuesLegally, Untouched DEF ComeBack
    <2>3. CASE Reopen(t)
      BY <2>3, <1>0, EnqueuesLegally, Untouched DEF Reopen
    <2>4. CASE ShutdownMarks(t)
      BY <2>4, <1>0, AdvancesLegally DEF ShutdownMarks
    <2>5. CASE ~PumpAdvances(t) /\ ~ComeBack(t) /\ ~Reopen(t) /\ ~ShutdownMarks(t)
      <3>1. row' = row
        BY <1>2, <2>5 DEF db, Works, Deliver, StartLooks, StartRenews,
        StartRetakes, StartStopped, Spawn, PumpSkips, PumpWrites, NoteStop,
        TakeNothing, TakeAndKill, Stopped, Overspent, StayDown, Recycle, Adopt,
        Parks, Wedged, LiftSwaps, LiftOpens, DrainEnds, ShutdownKills, Exit, Reboot,
        Boot
      <3> QED BY <3>1, <1>0, Untouched
    <2> QED BY <2>1, <2>2, <2>3, <2>4, <2>5
  <1>3. ASSUME NEW t \in Threads, Fails(t)
       PROVE  LegalStep(row, row')
    <2>1. ASSUME NEW aged \in BOOLEAN, PumpQuarantines(t, aged)
          PROVE  LegalStep(row, row')
      BY <2>1, <1>0, PicksFromTheQueue, QuarantinesLegally DEF PumpQuarantines
    <2>2. CASE \A aged \in BOOLEAN : ~PumpQuarantines(t, aged)
      <3>1. row' = row
        BY <1>3, <2>2 DEF Fails, StartRefused, SpawnFails
      <3> QED BY <3>1, <1>0, Untouched
    <2> QED BY <2>1, <2>2
  <1>4. ASSUME NEW r \in Runs, Reads(r) \/ ReaderFails(r)
       PROVE  LegalStep(row, row')
    <2>1. CASE Settle(r) \/ SettleOverBudget(r)
      BY <2>1, <1>0, SettlesLegally, RequeuesLegally
      DEF Settle, SettleOverBudget, SettledRows
    <2>2. CASE Limited(r) \/ LimitedOverBudget(r)
      <3> DEFINE capped == {m \in loc[r].msgs : LimitCapReached(row[m])}
      <3>1. row' = ClaimNotification(MarkError(RequeueForLimit(row, loc[r].msgs),
                                               capped), capped)
        BY <2>2 DEF Limited, LimitedOverBudget, LimitedRows
      <3> QED BY <3>1, <1>0, LimitsLegally
    <2>3. ASSUME NEW v \in Statuses, ReapSettles(r, v) PROVE LegalStep(row, row')
      BY <2>3, <1>0, RequeuesLegally DEF ReapSettles
    <2>4. CASE /\ ~Settle(r) /\ ~SettleOverBudget(r) /\ ~Limited(r)
               /\ ~LimitedOverBudget(r) /\ \A v \in Statuses : ~ReapSettles(r, v)
      <3>1. row' = row
        BY <1>4, <2>4 DEF db, Reads, ReadInit, ReadResult, Recover, HaltTakes,
        HaltKills, Reap, ReapLooks, ReaderFails, RecoverRenews, ChildDies
      <3> QED BY <3>1, <1>0, Untouched
    <2> QED BY <2>1, <2>2, <2>3, <2>4
  <1>5. ASSUME NEW r \in Runs, ChildInits(r) \/ \E e \in Ends : ChildEndsTurn(r, e)
       PROVE  LegalStep(row, row')
    BY <1>5, <1>0, Untouched DEF ChildInits, ChildEndsTurn, db
  <1>6. CASE Rest
    BY <1>6, <1>0, Untouched DEF Rest, vars, db
  <1> QED
    BY <1>1, <1>2, <1>3, <1>4, <1>5, <1>6 DEF Next

-----------------------------------------------------------------------------
(* The theorems. *)

LEMMA TypedAtFirst == Init => TypeOK
  <1> SUFFICES ASSUME Init PROVE TypeOK
    OBVIOUS
  <1>1. NoRow \in Row /\ NoRow.requeues <= MaxLimitRequeues
    BY StoreAssumption DEF NoRow, Row, States
  <1>2. 0 \in Sessions /\ 0 \in Nat /\ 1 \in Nat
    BY SupervisorAssumption DEF Sessions
  <1>3. NoChild \in ChildType /\ <<>> \in Seq(EventType)
    BY <1>2 DEF NoChild, ChildType
  <1>4. RowsOK
    BY <1>1 DEF Init, RowsOK
  <1>5. DbOK /\ MemoryOK
    BY <1>2, NoLocOK DEF Init, DbOK, MemoryOK, Statuses
  <1>6. HarnessOK
    BY <1>3 DEF Init, HarnessOK
  <1>7. ThreadsOK
    BY NoLocOK DEF Init, ThreadsOK, Points, Holding, Starting
  <1>8. BookOK
    BY <1>2, SupervisorAssumption DEF Init, BookOK
  <1> QED BY <1>4, <1>5, <1>6, <1>7, <1>8 DEF TypeOK

LEMMA StepsAreGood == ASSUME TypeOK, Next PROVE Good
  BY PcStep, LocStep, SlotStep, FlagsStep, LoginStep, TokenStep, StatusStep,
  SessionStep, HarnessStep, LeftStep, HistoryStep, RowsStep
  DEF Good, RestOK, DbOK, MemoryOK, ThreadsOK, BookOK

LEMMA TypedNext == TypeOK /\ [Next]_vars => TypeOK'
  <1> SUFFICES ASSUME TypeOK, [Next]_vars PROVE TypeOK'
    OBVIOUS
  <1>1. CASE Next
    BY <1>1, StepsAreGood, GoodStepsKeepTypes
  <1>2. CASE UNCHANGED vars
    BY <1>2 DEF vars, db, memory, harness, threads, history, TypeOK, RowsOK, DbOK,
                MemoryOK, HarnessOK, ThreadsOK, BookOK
  <1> QED BY <1>1, <1>2

\* Whatever the threads do and in whatever order, every variable keeps its type
\* and no message is sent back by a usage window more often than the cap allows.
THEOREM TypeCorrect == Spec => []TypeOK
  BY TypedAtFirst, TypedNext, PTL DEF Spec

\* The messages table of the supervisor implements the ledger: a message is
\* consumed only from `delivered`, `consumed` and `undeliverable` are final, an
\* error is never taken back, and a sender is told at most once.
THEOREM ImplementsLedger == Spec => LedgerSpec
  <1>1. Init => Ledger!LedgerInit
    BY DEF Init, Ledger!LedgerInit, Ledger!NoRow, NoRow
  <1>2. TypeOK /\ [Next]_vars => [Ledger!LedgerNext]_row
    <2> SUFFICES ASSUME TypeOK, [Next]_vars PROVE Ledger!LedgerNext \/ row' = row
      OBVIOUS
    <2>1. CASE Next
      <3>1. \A m \in Msgs : Legal(row[m], row'[m])
        BY <2>1, RowsStep DEF LegalStep
      <3> QED BY <3>1 DEF Ledger!LedgerNext, Ledger!Legal, Ledger!Moves, Legal, Moves
    <2>2. CASE UNCHANGED vars
      BY <2>2 DEF vars, db
    <2> QED BY <2>1, <2>2
  <1> QED
    BY <1>1, <1>2, TypeCorrect, PTL DEF Spec, LedgerSpec, Ledger!LedgerSpec
====
