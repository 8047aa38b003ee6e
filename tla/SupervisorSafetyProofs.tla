---- MODULE SupervisorSafetyProofs ----
(***************************************************************************)
(* Safety of AgentSupervisor beyond its types, for every number of         *)
(* messages, tasks, processes and faults.                                  *)
(*                                                                         *)
(* Two processes never serve one agent.  OneProcess alone is not           *)
(* inductive: a start overwrites the slot, so one needs to know that it    *)
(* found the slot empty, and that nobody filled it since.  That is what    *)
(* the slot mutex is for, and LockOK states it.                            *)
(*                                                                         *)
(* Then, each under the weakest hypothesis on the operations that it       *)
(* stands under: a slot emptied for a shutdown stays empty, a message is   *)
(* in one pair of hands (Kept), a sender hears only of what has settled,   *)
(* no delivered message is forgotten, and no turn is run twice (Served).   *)
(***************************************************************************)
EXTENDS AgentSupervisorProofs

\* One thread at a time holds the slot mutex, and a spawn found the slot empty.
LockOK ==
  /\ \A t, u \in Threads : pc[t] \in Holding /\ pc[u] \in Holding => t = u
  /\ \A t \in Threads : pc[t] = "spawning" => slot.run = 0

\* The points at which a thread has a process out of the slot and still to kill.
Owning == {"halting", "took", "sweep"}

\* A step that moves no thread but t and starts no process.
OnlyMoves(t) ==
  \A u \in Threads \ {t} :
    /\ pc'[u] = pc[u] /\ loc'[u].run = loc[u].run
    /\ loc'[u].msgs = loc[u].msgs /\ loc'[u].op = loc[u].op
    /\ loc'[u].kind = loc[u].kind /\ loc'[u].gen = loc[u].gen

StartsNothing ==
  /\ slot'.run \in {0, slot.run}
  /\ \A r \in Runs : Live(r)' => Live(r)

\* Thread t enters the mutex only when it is free, and to spawn only when the
\* slot is empty.
EntersFreely(t) ==
  \/ pc'[t] = pc[t]
  \/ /\ pc'[t] \in Holding => LockFree
     /\ pc'[t] = "spawning" => slot.run = 0

\* What t takes out of the slot, or had taken before, it kills or goes on owning.
Answers(t) ==
  \A r \in Runs :
    Live(r)' /\ (r = slot.run \/ (pc[t] \in Owning /\ loc[t].run = r))
      => r = slot'.run \/ (pc'[t] \in Owning /\ loc'[t].run = r)

Calm(t) == OnlyMoves(t) /\ StartsNothing /\ EntersFreely(t) /\ Answers(t)

\* A kill ends the processes it names and no other.
LEMMA KillsOnly ==
  ASSUME HarnessOK, NEW S, Kill(S), NEW r \in Runs
  PROVE  Live(r)' <=> Live(r) /\ r \notin S
  BY DEF HarnessOK, ChildType, Kill, Live

\* Calm steps preserve both invariants.
LEMMA CalmKeepsLock ==
  ASSUME TypeOK, LockOK, NEW t \in Threads, Calm(t)
  PROVE  LockOK'
  BY DEF LockOK, Calm, OnlyMoves, StartsNothing, EntersFreely, LockFree, Holding

LEMMA CalmKeepsOne ==
  ASSUME OneProcess, NEW t \in Threads, Calm(t)
  PROVE  OneProcess'
  <1> SUFFICES ASSUME NEW r \in Runs, Live(r)'
               PROVE  r = slot'.run \/ \E u \in Threads : pc'[u] \in Owning /\ loc'[u].run = r
    BY DEF OneProcess, Owners, Owning
  <1>1. r = slot.run \/ \E u \in Threads : pc[u] \in Owning /\ loc[u].run = r
    BY DEF Calm, StartsNothing, OneProcess, Owners, Owning
  <1>2. CASE r = slot.run \/ (pc[t] \in Owning /\ loc[t].run = r)
    BY <1>2 DEF Calm, Answers, Live
  <1>3. ASSUME NEW u \in Threads \ {t}, pc[u] \in Owning, loc[u].run = r
        PROVE  pc'[u] \in Owning /\ loc'[u].run = r
    BY <1>3 DEF Calm, OnlyMoves
  <1> QED BY <1>1, <1>2, <1>3

\* Most steps touch neither the process in the slot nor the mutex.
LEMMA QuietIsCalm ==
  ASSUME NEW t \in Threads, OnlyMoves(t), slot'.run = slot.run,
         \A r \in Runs : Live(r)' => Live(r),
         pc[t] \notin Owning, pc'[t] \notin Holding
  PROVE  Calm(t)
  <1>1. StartsNothing
    BY DEF StartsNothing, Live
  <1>2. EntersFreely(t)
    BY DEF EntersFreely, Holding
  <1>3. Answers(t)
    BY DEF Answers, Live
  <1> QED BY <1>1, <1>2, <1>3 DEF Calm

-----------------------------------------------------------------------------
(* Every step but a spawn and a reboot is calm. *)

LEMMA AskedIsCalm ==
  ASSUME TypeOK, NEW t \in Tasks, Asked(t) \/ WindowOpens(t), ~Crash(t)
  PROVE  Calm(t)
  <1>0. t \in Threads
    BY DEF Threads
  <1>1. OnlyMoves(t)
    BY <1>0 DEF TypeOK, ThreadsOK, threads, OnlyMoves, Goto, Keep, Asked, Send, Start,
    Stop, Restart, Interrupt, ClearContext, KillIfOauthShaped, ResumeTurns, Request,
    PauseTurns, Shutdown, Renew, WedgeCheck, ParkTakes, WindowOpens
  <1>2. CASE ParkTakes(t)
    <2>1. slot'.run = 0 /\ LockFree /\ Kill(SlotRuns)
      BY <1>2 DEF ParkTakes, EmptySlot
    <2>2. pc[t] = "free" /\ pc'[t] = "parking"
      BY <1>0, <1>2 DEF ParkTakes, At, Goto, TypeOK, ThreadsOK
    <2>3. StartsNothing
      BY <2>1, KillsOnly DEF StartsNothing, TypeOK
    <2>4. EntersFreely(t)
      BY <2>1, <2>2 DEF EntersFreely
    <2>5. Answers(t)
      BY <2>1, <2>2, KillsOnly DEF Answers, Owning, SlotRuns, TypeOK, Runs
    <2> QED BY <1>1, <2>3, <2>4, <2>5 DEF Calm
  <1>3. CASE ~ParkTakes(t)
    <2>1. slot' = slot /\ child' = child
      BY <1>3 DEF memory, harness, Asked, Send, Start, Stop, Restart, Interrupt,
      ClearContext, KillIfOauthShaped, ResumeTurns, Request, PauseTurns, Shutdown,
      Renew, WedgeCheck, WindowOpens
    <2>2. pc[t] = "free" /\ pc'[t] \notin Holding
      BY <1>0, <1>3 DEF TypeOK, ThreadsOK, threads, At, Goto, Holding, Asked, Send,
      Start, Stop, Restart, Interrupt, ClearContext, KillIfOauthShaped, ResumeTurns,
      Request, PauseTurns, Shutdown, Renew, WedgeCheck, WindowOpens
    <2>3. /\ slot'.run = slot.run /\ pc[t] \notin Owning
          /\ \A r \in Runs : Live(r)' => Live(r)
      BY <2>1, <2>2 DEF Owning, Live
    <2> QED BY <1>0, <1>1, <2>2, <2>3, QuietIsCalm
  <1> QED BY <1>2, <1>3

LEMMA FailsIsCalm ==
  ASSUME TypeOK, NEW t \in Threads, Fails(t)
  PROVE  Calm(t)
  <1>1. OnlyMoves(t)
    BY DEF TypeOK, ThreadsOK, threads, OnlyMoves, Goto, Keep, Fails, StartRefused,
    SpawnFails, PumpQuarantines, Finish, AfterStart
  <1>2. /\ slot'.run = slot.run /\ \A r \in Runs : Live(r)' => Live(r)
    BY DEF memory, harness, Fails, StartRefused, SpawnFails, PumpQuarantines, Live
  <1>3. pc[t] \notin Owning /\ pc'[t] \notin Holding
    BY DEF TypeOK, ThreadsOK, At, Goto, Holding, Owning, Fails, StartRefused,
    SpawnFails, PumpQuarantines, Finish, AfterStart
  <1> QED BY <1>1, <1>2, <1>3, QuietIsCalm

LEMMA ChildIsCalm ==
  ASSUME TypeOK, NEW r \in Runs, ChildInits(r) \/ \E e \in Ends : ChildEndsTurn(r, e)
  PROVE  Calm(r)
  <1>1. pc' = pc /\ loc' = loc /\ slot' = slot
    BY DEF ChildInits, ChildEndsTurn, threads, memory
  <1>2. \A q \in Runs : Live(q)' => Live(q)
    BY DEF ChildInits, ChildEndsTurn, Live, TypeOK, HarnessOK, ChildType
  <1>3. StartsNothing
    BY <1>1, <1>2 DEF StartsNothing, Live
  <1> QED BY <1>1, <1>3 DEF Calm, OnlyMoves, EntersFreely, Answers, Live

LEMMA WorksOnlyMoves ==
  ASSUME TypeOK, NEW t \in Threads, Works(t), ~Exit(t), \A r \in Runs : ~Spawn(t, r)
  PROVE  OnlyMoves(t)
  <1>1. CASE \/ Deliver(t) \/ StartLooks(t) \/ StartRenews(t) \/ StartRetakes(t)
             \/ StartStopped(t) \/ PumpSkips(t) \/ PumpAdvances(t) \/ TakeNothing(t)
             \/ \E aged \in BOOLEAN : PumpWrites(t, aged)
    BY <1>1 DEF TypeOK, ThreadsOK, threads, OnlyMoves, Goto, Keep, Finish, AfterStart,
    Deliver, StartLooks, StartRenews, StartRetakes, StartStopped, PumpSkips,
    PumpAdvances, TakeNothing, PumpWrites
  <1>2. CASE NoteStop(t)
    BY <1>2, LocOK DEF TypeOK, ThreadsOK, OnlyMoves, Goto, LocType, NoteStop
  <1>3. CASE \/ TakeAndKill(t) \/ Stopped(t) \/ Overspent(t) \/ StayDown(t)
             \/ ComeBack(t) \/ Recycle(t) \/ Adopt(t)
    BY <1>3 DEF TypeOK, ThreadsOK, threads, OnlyMoves, Goto, Keep, Finish, Redeliver,
    TakeAndKill, Stopped, Overspent, StayDown, ComeBack, Recycle, Adopt
  <1>4. CASE \/ Parks(t) \/ Wedged(t) \/ Reopen(t) \/ LiftSwaps(t) \/ LiftOpens(t)
             \/ DrainEnds(t) \/ ShutdownMarks(t) \/ ShutdownKills(t) \/ Boot(t)
    BY <1>4 DEF TypeOK, ThreadsOK, threads, OnlyMoves, Goto, Keep, Finish, Parks,
    Wedged, Reopen, LiftSwaps, LiftOpens, DrainEnds, ShutdownMarks, ShutdownKills, Boot
  <1> QED BY <1>1, <1>2, <1>3, <1>4 DEF Works

\* The steps that look at the slot or take something out of it.
LEMMA SlotWorkIsCalm ==
  ASSUME TypeOK, NEW t \in Threads, OnlyMoves(t),
         \/ StartRetakes(t) \/ \E aged \in BOOLEAN : PumpWrites(t, aged)
         \/ PumpAdvances(t) \/ TakeAndKill(t) \/ DrainEnds(t)
         \/ ShutdownMarks(t) \/ ShutdownKills(t)
  PROVE  Calm(t)
  <1>1. CASE StartRetakes(t)
    <2>1. slot' = slot /\ child' = child /\ pc[t] = "retake" /\ LockFree
      BY <1>1 DEF StartRetakes, memory, harness, At
    <2>2. pc'[t] = "spawning" => slot.run = 0
      BY <1>1 DEF StartRetakes, Finish, AfterStart, Goto, TypeOK, ThreadsOK
    <2> QED BY <2>1, <2>2 DEF Calm, StartsNothing, EntersFreely, Answers, Owning, Live
  <1>2. ASSUME NEW aged \in BOOLEAN, PumpWrites(t, aged) PROVE Calm(t)
    <2>1. slot' = slot /\ pc[t] = "pump" /\ LockFree
      BY <1>2 DEF PumpWrites, memory, At
    <2>2. pc'[t] # "spawning"
      BY <1>2 DEF PumpWrites, Finish, Goto, TypeOK, ThreadsOK
    <2>3. \A r \in Runs : Live(r)' => Live(r)
      BY <1>2 DEF PumpWrites, Live, TypeOK, HarnessOK, ChildType
    <2> QED BY <2>1, <2>2, <2>3 DEF Calm, StartsNothing, EntersFreely, Answers,
    Owning, Live
  <1>3. CASE PumpAdvances(t)
    <2>1. slot'.run = slot.run /\ child' = child
      BY <1>3 DEF PumpAdvances, harness, TypeOK, MemoryOK, SlotType
    <2>2. pc[t] \notin Owning /\ pc'[t] \notin Holding
      BY <1>3 DEF PumpAdvances, At, Finish, Goto, Owning, Holding, TypeOK, ThreadsOK
    <2> QED BY <2>1, <2>2, QuietIsCalm DEF Live
  <1>4. CASE TakeAndKill(t)
    <2>1. slot'.run = 0 /\ Kill(SlotRuns)
      BY <1>4 DEF TakeAndKill, EmptySlot
    <2>2. LockFree /\ pc[t] \notin Owning /\ pc'[t] # "spawning"
      BY <1>4 DEF TakeAndKill, At, Goto, Owning, TypeOK, ThreadsOK
    <2>3. \A r \in Runs : Live(r)' => Live(r) /\ r # slot.run
      BY <2>1, KillsOnly, SupervisorAssumption DEF SlotRuns, TypeOK, Runs
    <2> QED BY <2>1, <2>2, <2>3 DEF Calm, StartsNothing, EntersFreely, Answers,
    Live, Holding
  <1>5. CASE DrainEnds(t)
    <2>1. slot'.run = 0 /\ child' = child
      BY <1>5 DEF DrainEnds, EmptySlot, harness
    <2>2. pc[t] \notin Owning /\ pc'[t] \notin Holding
      BY <1>5 DEF DrainEnds, At, Goto, Owning, Holding, TypeOK, ThreadsOK
    <2>3. slot.run # 0 => pc'[t] \in Owning /\ loc'[t].run = slot.run
      BY <1>5, LocOK DEF DrainEnds, Goto, Keep, Owning, TypeOK, ThreadsOK, LocType
    <2>4. 0 \notin Runs
      BY SupervisorAssumption DEF Runs
    <2> QED BY <2>1, <2>2, <2>3, <2>4 DEF Calm, StartsNothing, EntersFreely,
    Answers, Live, Holding
  <1>6. CASE ShutdownMarks(t)
    <2>1. slot' = slot /\ child' = child /\ loc' = loc
      BY <1>6 DEF ShutdownMarks, memory, harness
    <2>2. pc'[t] = "sweep"
      BY <1>6 DEF ShutdownMarks, Goto, TypeOK, ThreadsOK
    <2> QED BY <2>1, <2>2 DEF Calm, StartsNothing, EntersFreely, Answers, Live,
    Holding, Owning
  <1>7. CASE ShutdownKills(t)
    <2>1. slot' = slot /\ Kill({loc[t].run})
      BY <1>7 DEF ShutdownKills, memory
    <2>2. pc'[t] = "off"
      BY <1>7 DEF ShutdownKills, Goto, TypeOK, ThreadsOK
    <2>3. \A r \in Runs : Live(r)' => Live(r) /\ r # loc[t].run
      BY <2>1, KillsOnly DEF TypeOK
    <2> QED BY <2>1, <2>2, <2>3 DEF Calm, StartsNothing, EntersFreely, Answers,
    Live, Holding
  <1> QED BY <1>1, <1>2, <1>3, <1>4, <1>5, <1>6, <1>7

LEMMA WorksIsCalm ==
  ASSUME TypeOK, NEW t \in Threads, Works(t), ~Exit(t), \A r \in Runs : ~Spawn(t, r)
  PROVE  Calm(t)
  <1>1. OnlyMoves(t)
    BY WorksOnlyMoves
  <1>2. CASE \/ StartRetakes(t) \/ \E aged \in BOOLEAN : PumpWrites(t, aged)
             \/ PumpAdvances(t) \/ TakeAndKill(t) \/ DrainEnds(t)
             \/ ShutdownMarks(t) \/ ShutdownKills(t)
    BY <1>1, <1>2, SlotWorkIsCalm
  <1>3. CASE \/ Deliver(t) \/ StartLooks(t) \/ StartRenews(t) \/ StartStopped(t)
             \/ PumpSkips(t) \/ NoteStop(t) \/ TakeNothing(t) \/ Stopped(t)
             \/ Overspent(t) \/ StayDown(t) \/ ComeBack(t) \/ Recycle(t)
             \/ Adopt(t) \/ Parks(t) \/ Wedged(t) \/ Reopen(t) \/ LiftSwaps(t) \/ LiftOpens(t) \/ Boot(t)
    <2>1. slot' = slot /\ child' = child
      BY <1>3 DEF memory, harness, Deliver, StartLooks, StartRenews, StartStopped,
      PumpSkips, NoteStop, TakeNothing, Stopped, Overspent, StayDown, ComeBack,
      Recycle, Adopt, Parks, Wedged, Reopen, LiftSwaps, LiftOpens, Boot
    <2>2. pc[t] \notin Owning /\ pc'[t] \notin Holding
      BY <1>3 DEF TypeOK, ThreadsOK, At, Goto, Owning, Holding, Finish, AfterStart,
      Redeliver, Deliver, StartLooks, StartRenews, StartStopped, PumpSkips, NoteStop,
      TakeNothing, Stopped, Overspent, StayDown, ComeBack, Recycle, Adopt, Parks,
      Wedged, Reopen, LiftSwaps, LiftOpens, Boot
    <2> QED BY <1>1, <2>1, <2>2, QuietIsCalm DEF Live
  <1> QED BY <1>2, <1>3, Zenon DEF Works

LEMMA ReadsIsCalm ==
  ASSUME TypeOK, NEW r \in Runs, Reads(r) \/ ReaderFails(r)
  PROVE  Calm(r)
  <1>0. r \in Threads
    BY DEF Threads
  <1>1. OnlyMoves(r)
    BY <1>0 DEF TypeOK, ThreadsOK, threads, OnlyMoves, Goto, Keep, Finish, Redeliver,
    Reads, ReadInit, ReadResult, Settle, Recover, Limited, HaltTakes, HaltKills, Reap,
    ReapLooks, ReapSettles, ReaderFails, SettleOverBudget, LimitedOverBudget,
    RecoverRenews, ChildDies
  <1>2. CASE HaltTakes(r)
    <2>1. slot'.run = 0 /\ child' = child
      BY <1>2 DEF HaltTakes, EmptySlot, harness
    <2>2. pc[r] \notin Owning /\ pc'[r] = "halting"
      BY <1>0, <1>2 DEF HaltTakes, At, Goto, Owning, TypeOK, ThreadsOK
    <2>3. loc'[r].run = slot.run
      BY <1>0, <1>2, LocOK DEF HaltTakes, Keep, TypeOK, ThreadsOK, LocType
    <2> QED BY <1>1, <2>1, <2>2, <2>3
            DEF Calm, StartsNothing, EntersFreely, Answers, Live, Holding, Owning
  <1>3. CASE HaltKills(r)
    <2>1. slot' = slot /\ Kill({loc[r].run} \ {0})
      BY <1>3 DEF HaltKills
    <2>2. pc'[r] \notin Holding
      BY <1>0, <1>3 DEF HaltKills, Finish, Redeliver, Goto, Holding, TypeOK, ThreadsOK
    <2>3. \A q \in Runs : Live(q)' => Live(q) /\ q # loc[r].run
      BY <2>1, KillsOnly, SupervisorAssumption DEF TypeOK, Runs
    <2> QED BY <1>1, <2>1, <2>2, <2>3 DEF Calm, StartsNothing, EntersFreely,
    Answers, Live, Holding
  <1>4. CASE Reap(r)
    <2>1. /\ child' = child /\ ~Live(r)
          /\ slot'.run = slot.run \/ (slot'.run = 0 /\ slot.run = r)
      BY <1>4 DEF Reap, EmptySlot, harness, Live
    <2>2. pc[r] \notin Owning /\ pc'[r] \notin Holding
      BY <1>0, <1>4 DEF Reap, At, Goto, Owning, Holding, TypeOK, ThreadsOK
    <2> QED BY <1>1, <2>1, <2>2 DEF Calm, StartsNothing, EntersFreely, Answers,
    Live, Holding
  <1>5. CASE ReadInit(r) \/ ReadResult(r)
    <2>1. slot'.run = slot.run /\ child' = child
      BY <1>5 DEF ReadInit, ReadResult, TypeOK, MemoryOK, SlotType
    <2>2. pc[r] \notin Owning /\ pc'[r] \notin Holding
      BY <1>0, <1>5 DEF ReadInit, ReadResult, At, Goto, Owning, Holding, TypeOK,
      ThreadsOK
    <2> QED BY <1>0, <1>1, <2>1, <2>2, QuietIsCalm DEF Live
  <1>6. CASE ChildDies(r)
    <2>1. pc' = pc /\ loc' = loc /\ slot' = slot
      BY <1>6 DEF ChildDies, threads, memory
    <2>2. \A q \in Runs : Live(q)' => Live(q)
      BY <1>6 DEF ChildDies, Live, TypeOK, HarnessOK, ChildType
    <2> QED BY <2>1, <2>2 DEF Calm, OnlyMoves, StartsNothing, EntersFreely, Answers,
    Live
  <1>7. CASE \/ Settle(r) \/ SettleOverBudget(r) \/ LimitedOverBudget(r)
             \/ Recover(r) \/ RecoverRenews(r)
             \/ Limited(r) \/ ReapLooks(r) \/ \E v \in Statuses : ReapSettles(r, v)
    <2>1. slot' = slot /\ child' = child
      BY <1>7 DEF memory, harness, Settle, SettleOverBudget, LimitedOverBudget,
      Recover, RecoverRenews, Limited, ReapLooks, ReapSettles
    <2>2. pc[r] \notin Owning /\ pc'[r] \notin Holding
      BY <1>0, <1>7 DEF TypeOK, ThreadsOK, At, Goto, Owning, Holding, Settle,
      SettleOverBudget, LimitedOverBudget, Recover, RecoverRenews, Limited,
      ReapLooks, ReapSettles
    <2> QED BY <1>0, <1>1, <2>1, <2>2, QuietIsCalm DEF Live
  <1> QED
    BY <1>2, <1>3, <1>4, <1>5, <1>6, <1>7, Zenon DEF Reads, ReaderFails

-----------------------------------------------------------------------------
(* The two steps that are not calm. *)

Safe == LockOK /\ OneProcess

\* A spawn holds the mutex alone and fills a slot it found empty.
LEMMA SpawnIsSafe ==
  ASSUME TypeOK, Safe, NEW t \in Threads, NEW r \in Runs, Spawn(t, r)
  PROVE  Safe'
  <1>1. t # r /\ r \in Threads /\ pc[t] = "spawning" /\ slot.run = 0 /\ 0 \notin Runs
    BY SupervisorAssumption DEF Spawn, At, Threads, Safe, LockOK, Runs
  <1>2. /\ pc'[t] \in {"deliver", "pump"} /\ pc'[r] = "read"
        /\ \A u \in Threads \ {t, r} : pc'[u] = pc[u]
    BY <1>1 DEF Spawn, TypeOK, ThreadsOK
  <1>3. slot'.run = r /\ \A q \in Runs \ {r} : Live(q)' => Live(q)
    BY DEF Spawn, EmptySlot, Live, TypeOK, HarnessOK
  <1>4. \A u \in Threads : pc'[u] \notin Holding
    BY <1>1, <1>2 DEF Safe, LockOK, Holding
  <1>5. LockOK'
    BY <1>4 DEF LockOK, Holding
  <1>6. \A u \in Threads \ {t} : loc'[u] = loc[u]
    BY DEF Spawn, Keep, TypeOK, ThreadsOK
  <1>7. ASSUME NEW q \in Runs, Live(q)'
        PROVE  q = slot'.run \/ \E u \in Threads : pc'[u] \in Owning /\ loc'[u].run = q
    <2>1. CASE q # r
      <3>1. PICK u \in Threads : pc[u] \in Owning /\ loc[u].run = q
        BY <1>1, <1>3, <1>7, <2>1 DEF Safe, OneProcess, Owners, Owning, Live
      <3>2. u # t /\ u # r
        BY <1>1, <3>1 DEF Owning, Spawn
      <3> QED BY <1>2, <1>6, <3>1, <3>2
    <2>2. CASE q = r
      BY <1>3, <2>2
    <2> QED BY <2>1, <2>2
  <1>8. OneProcess'
    BY <1>7 DEF OneProcess, Owners, Owning
  <1> QED BY <1>5, <1>8 DEF Safe

\* Nothing is left of a process that ended.
LEMMA RebootIsSafe ==
  ASSUME TypeOK, NEW t \in Threads, Reboot(t)
  PROVE  Safe'
  <1>1. \A u \in Threads : pc'[u] \notin Holding
    BY DEF Reboot, Holding
  <1>2. \A r \in Runs : ~Live(r)'
    BY KillsOnly DEF Reboot, TypeOK
  <1> QED BY <1>1, <1>2 DEF Safe, LockOK, OneProcess, Holding, Live

-----------------------------------------------------------------------------

LEMMA SafeAtFirst == Init => Safe
  BY DEF Init, Safe, LockOK, OneProcess, Holding, EmptySlot, Live, NoChild

LEMMA SafeNext == TypeOK /\ Safe /\ [Next]_vars => Safe'
  <1> SUFFICES ASSUME TypeOK, Safe, [Next]_vars PROVE Safe'
    OBVIOUS
  <1>0. ASSUME NEW t \in Threads, Calm(t) PROVE Safe'
    BY <1>0, CalmKeepsLock, CalmKeepsOne DEF Safe
  <1>1. ASSUME NEW t \in Tasks, Asked(t) \/ WindowOpens(t) PROVE Safe'
    <2>1. t \in Threads
      BY DEF Threads
    <2>2. CASE Crash(t)
      BY <2>1, <2>2, RebootIsSafe DEF Crash
    <2>3. CASE ~Crash(t)
      BY <1>0, <1>1, <2>1, <2>3, AskedIsCalm
    <2> QED BY <2>2, <2>3
  <1>2. ASSUME NEW t \in Threads, Works(t) PROVE Safe'
    <2>1. CASE Exit(t)
      BY <2>1, RebootIsSafe DEF Exit
    <2>2. ASSUME NEW r \in Runs, Spawn(t, r) PROVE Safe'
      BY <2>2, SpawnIsSafe
    <2>3. CASE ~Exit(t) /\ \A r \in Runs : ~Spawn(t, r)
      BY <1>0, <1>2, <2>3, WorksIsCalm
    <2> QED BY <2>1, <2>2, <2>3
  <1>3. ASSUME NEW t \in Threads, Fails(t) PROVE Safe'
    BY <1>0, <1>3, FailsIsCalm
  <1>4. ASSUME NEW r \in Runs, Reads(r) \/ ReaderFails(r) PROVE Safe'
    BY <1>0, <1>4, ReadsIsCalm DEF Threads
  <1>5. ASSUME NEW r \in Runs, ChildInits(r) \/ \E e \in Ends : ChildEndsTurn(r, e)
        PROVE  Safe'
    BY <1>0, <1>5, ChildIsCalm DEF Threads
  <1>6. CASE UNCHANGED vars
    BY <1>6 DEF vars, memory, harness, threads, Safe, LockOK, OneProcess, Owners, Live
  <1> QED
    BY <1>1, <1>2, <1>3, <1>4, <1>5, <1>6 DEF Next, Rest

\* A live process is the one in the slot, or a thread has taken it out of the
\* slot and is about to kill it: no interleaving of starts, kills, parks,
\* recycles, limits, crashes and shutdowns leaves two processes for one agent
\* that nobody is ending.
THEOREM OneProcessAlways == Spec => []OneProcess
  <1>1. Init => Safe
    BY SafeAtFirst
  <1>2. TypeOK /\ Safe /\ [Next]_vars => Safe'
    BY SafeNext
  <1>3. Safe => OneProcess
    BY DEF Safe
  <1> QED
    BY <1>1, <1>2, <1>3, TypeCorrect, PTL DEF Spec

-----------------------------------------------------------------------------
(* A shutdown is final: while the gate is shut nothing enters the slot. *)

\* Nobody is lifting the gate: resume_turns is the only way to.
NoLift == \A t \in Threads : pc[t] \notin {"lift", "open"}

\* From the moment the shutdown has taken the slot until the engine ends.
OffPoints == {"took", "sweep", "off"}

\* A shutdown keeps the gate shut, and once it has taken the slot nobody fills it.
ShutOff ==
  /\ \A t \in Threads : pc[t] \in OffPoints \cup {"drain"} => closing
  /\ \A t \in Threads : pc[t] \in OffPoints =>
       slot.run = 0 /\ \A u \in Threads : pc[u] \notin {"spawning", "writing"}

Off == NoLift /\ ShutOff

\* What thread t may do to the gate and towards it.
MindsTheGate(t) ==
  /\ closing' = closing \/ closing'
  /\ pc'[t] \notin {"lift", "open"}
  /\ pc'[t] \in {"spawning", "writing"} => ~closing \/ pc'[t] = pc[t]
  /\ pc'[t] \in OffPoints \cup {"drain"} =>
       closing' \/ pc[t] \in OffPoints \cup {"drain"}
  /\ pc'[t] \in OffPoints =>
       pc[t] \in OffPoints \/ (slot'.run = 0 /\ LockFree /\ pc[t] = "drain")

LEMMA CalmKeepsOff ==
  ASSUME TypeOK, Off, NEW t \in Threads, OnlyMoves(t), StartsNothing, MindsTheGate(t)
  PROVE  Off'
  <1>1. NoLift'
    BY DEF Off, NoLift, MindsTheGate, OnlyMoves
  <1>2. \A u \in Threads : pc'[u] \in OffPoints \cup {"drain"} => closing'
    BY DEF Off, ShutOff, MindsTheGate, OnlyMoves
  <1>3. ASSUME NEW u \in Threads, pc'[u] \in OffPoints
        PROVE  slot'.run = 0 /\ \A v \in Threads : pc'[v] \notin {"spawning", "writing"}
    <2>1. CASE pc[u] \in OffPoints
      <3>1. closing /\ slot.run = 0 /\ \A v \in Threads : pc[v] \notin {"spawning", "writing"}
        BY <2>1 DEF Off, ShutOff
      <3> QED BY <3>1 DEF StartsNothing, OnlyMoves, MindsTheGate
    <2>2. CASE pc[u] \notin OffPoints
      <3>1. u = t /\ slot'.run = 0 /\ LockFree
        BY <1>3, <2>2 DEF OnlyMoves, MindsTheGate
      <3> QED BY <1>3, <3>1 DEF LockFree, Holding, OnlyMoves, OffPoints
    <2> QED BY <2>1, <2>2
  <1> QED BY <1>1, <1>2, <1>3 DEF Off, ShutOff

LEMMA AskedMindsTheGate ==
  ASSUME TypeOK, Off, "resume_turns" \notin Ops,
         NEW t \in Tasks, Asked(t) \/ WindowOpens(t), ~Crash(t)
  PROVE  MindsTheGate(t)
  <1>0. t \in Threads
    BY DEF Threads
  <1> QED
    BY <1>0 DEF MindsTheGate, OffPoints, TypeOK, ThreadsOK, threads, memory, At, Goto,
    Spend, Asked, Send, Start, Stop, Restart, Interrupt, ClearContext, KillIfOauthShaped,
    ResumeTurns, Request, PauseTurns, Shutdown, Renew, WedgeCheck, ParkTakes, WindowOpens,
    Off, NoLift

LEMMA WorksMindsTheGate ==
  ASSUME TypeOK, Off, NEW t \in Threads, Works(t) \/ Fails(t), ~Exit(t),
         \A r \in Runs : ~Spawn(t, r)
  PROVE  MindsTheGate(t)
  <1>1. CASE \/ Deliver(t) \/ StartLooks(t) \/ StartRenews(t) \/ StartRetakes(t)
             \/ StartStopped(t) \/ PumpSkips(t) \/ PumpAdvances(t) \/ TakeNothing(t)
             \/ \E aged \in BOOLEAN : PumpWrites(t, aged)
    BY <1>1 DEF MindsTheGate, OffPoints, TypeOK, ThreadsOK, threads, memory, At, Goto,
    Finish, AfterStart, Deliver, StartLooks, StartRenews, StartRetakes, StartStopped,
    PumpSkips, PumpAdvances, TakeNothing, PumpWrites, CanPump
  <1>2. CASE \/ NoteStop(t) \/ TakeAndKill(t) \/ Stopped(t) \/ Overspent(t) \/ StayDown(t)
             \/ ComeBack(t) \/ Recycle(t) \/ Adopt(t) \/ Fails(t)
    BY <1>2 DEF MindsTheGate, OffPoints, TypeOK, ThreadsOK, threads, memory, At, Goto,
    Finish, Redeliver, AfterStart, NoteStop, TakeAndKill, Stopped, Overspent, StayDown,
    ComeBack, Recycle, Adopt, Fails, StartRefused, SpawnFails, PumpQuarantines
  <1>3. CASE \/ Parks(t) \/ Wedged(t) \/ Reopen(t) \/ LiftSwaps(t) \/ LiftOpens(t)
             \/ DrainEnds(t) \/ ShutdownMarks(t) \/ ShutdownKills(t) \/ Boot(t)
    BY <1>3 DEF MindsTheGate, OffPoints, TypeOK, ThreadsOK, threads, memory, At, Goto,
    Finish, Parks, Wedged, Reopen, LiftSwaps, LiftOpens, DrainEnds, ShutdownMarks,
    ShutdownKills, Boot, EmptySlot, Off, NoLift
  <1> QED BY <1>1, <1>2, <1>3 DEF Works

LEMMA ReadsMindsTheGate ==
  ASSUME TypeOK, Off, NEW r \in Runs, Reads(r) \/ ReaderFails(r)
  PROVE  MindsTheGate(r)
  <1>0. r \in Threads
    BY DEF Threads
  <1> QED
    BY <1>0 DEF MindsTheGate, OffPoints, TypeOK, ThreadsOK, threads, memory, At, Goto,
    Finish, Redeliver, Reads, ReadInit, ReadResult, Settle, Recover, Limited, HaltTakes,
    HaltKills, Reap, ReapLooks, ReapSettles, ReaderFails, SettleOverBudget,
    LimitedOverBudget, RecoverRenews, ChildDies, Off, NoLift

LEMMA SpawnKeepsOff ==
  ASSUME TypeOK, Off, NEW t \in Threads, NEW r \in Runs, Spawn(t, r)
  PROVE  Off'
  <1>1. r \in Threads /\ pc[t] = "spawning" /\ closing' = closing
    BY DEF Spawn, At, Threads
  <1>2. \A u \in Threads : pc[u] \notin OffPoints
    BY <1>1 DEF Off, ShutOff
  <1>3. \A u \in Threads : pc'[u] = pc[u] \/ pc'[u] \in {"deliver", "pump", "read"}
    BY DEF Spawn, TypeOK, ThreadsOK
  <1> QED BY <1>1, <1>2, <1>3 DEF Off, ShutOff, NoLift, OffPoints

LEMMA RebootKeepsOff ==
  ASSUME TypeOK, NEW t \in Threads, Reboot(t)
  PROVE  Off'
  <1>1. \A u \in Threads : pc'[u] \in {"boot", "free", "unborn", "gone"}
    BY DEF Reboot
  <1> QED BY <1>1 DEF Off, ShutOff, NoLift, OffPoints

LEMMA OffNext ==
  ASSUME TypeOK, Safe, Off, "resume_turns" \notin Ops, [Next]_vars
  PROVE  Off'
  <1>0. ASSUME NEW t \in Threads, Calm(t), MindsTheGate(t) PROVE Off'
    BY <1>0, CalmKeepsOff DEF Calm
  <1>1. ASSUME NEW t \in Tasks, Asked(t) \/ WindowOpens(t) PROVE Off'
    <2>1. t \in Threads
      BY DEF Threads
    <2>2. CASE Crash(t)
      BY <2>1, <2>2, RebootKeepsOff DEF Crash
    <2>3. CASE ~Crash(t)
      BY <1>0, <1>1, <2>1, <2>3, AskedIsCalm, AskedMindsTheGate
    <2> QED BY <2>2, <2>3
  <1>2. ASSUME NEW t \in Threads, Works(t) \/ Fails(t) PROVE Off'
    <2>1. CASE Exit(t)
      BY <2>1, RebootKeepsOff DEF Exit
    <2>2. ASSUME NEW r \in Runs, Spawn(t, r) PROVE Off'
      BY <2>2, SpawnKeepsOff
    <2>3. CASE ~Exit(t) /\ \A r \in Runs : ~Spawn(t, r)
      BY <1>0, <1>2, <2>3, WorksIsCalm, FailsIsCalm, WorksMindsTheGate
    <2> QED BY <2>1, <2>2, <2>3
  <1>3. ASSUME NEW r \in Runs, Reads(r) \/ ReaderFails(r) PROVE Off'
    BY <1>0, <1>3, ReadsIsCalm, ReadsMindsTheGate DEF Threads
  <1>4. ASSUME NEW r \in Runs, ChildInits(r) \/ \E e \in Ends : ChildEndsTurn(r, e)
        PROVE  Off'
    BY <1>4 DEF ChildInits, ChildEndsTurn, threads, memory, Off, ShutOff, NoLift
  <1>5. CASE UNCHANGED vars
    BY <1>5 DEF vars, memory, threads, Off, ShutOff, NoLift
  <1> QED
    BY <1>1, <1>2, <1>3, <1>4, <1>5 DEF Next, Rest

\* While no update lifts the gate, the slot a shutdown emptied stays empty and no
\* thread is starting a process or writing to one: begin_close before the drain,
\* the second look of `start` and the mutex leave no way past it.  With an update
\* that resumes turns the run Shutdown finds the other outcome legal: the gate is open.
THEOREM ShutdownStaysDown ==
  ASSUME "resume_turns" \notin Ops
  PROVE  Spec => []NothingStartsOnceOff
  <1>1. Init => Off
    BY DEF Init, Off, ShutOff, NoLift, OffPoints
  <1>2. TypeOK /\ Safe /\ Off /\ [Next]_vars => Off'
    BY OffNext
  <1>3. Off => NothingStartsOnceOff
    BY DEF Off, ShutOff, NothingStartsOnceOff, OffPoints, Threads
  <1> QED
    BY <1>1, <1>2, <1>3, TypeCorrect, SafeAtFirst, SafeNext, PTL DEF Spec

-----------------------------------------------------------------------------
(* Custody: who answers for a message on its way through a turn. *)

\* While no process dies by itself, the one in the slot is alive, what a thread
\* owns is another one, and no reader reaps the slot.
SlotLives ==
  /\ slot.run # 0 => Live(slot.run) /\ pc[slot.run] # "unborn"
  /\ \A t \in Threads :
       /\ pc[t] \in Owning /\ loc[t].run # 0 =>
            loc[t].run # slot.run /\ pc[loc[t].run] # "unborn"
       /\ pc[t] \notin {"reap", "reaped"}

\* The messages whose next state thread t is about to write.
Hand(t) ==
  IF \/ pc[t] \in {"settle", "limited", "took", "writing"}
     \/ pc[t] = "taken" /\ loc[t].op \in {"interrupt", "recycle"}
  THEN loc[t].msgs ELSE {}

\* A message in flight or in the hands of a thread has left the queue, one being
\* written has not, and no message is in two places.
Custody ==
  /\ \A m \in slot.inFlight : row[m].state = "delivered"
  /\ \A t \in Threads : \A m \in Hand(t) :
       /\ m \notin slot.inFlight
       /\ row[m].state = IF pc[t] = "writing" THEN "queued" ELSE "delivered"
  /\ \A t, u \in Threads : t # u => Hand(t) \cap Hand(u) = {}
  /\ slot.run = 0 => slot.inFlight = {}
  /\ \A t \in Threads : pc[t] = "writing" => slot.run # 0 /\ slot.inFlight = {}

\* What thread t may do to the process in the slot.
KeepsSlotLive(t) ==
  /\ slot'.run # 0 => Live(slot.run)'
  /\ pc'[t] \in Owning /\ loc'[t].run # 0 =>
       \/ pc[t] \in Owning /\ loc'[t].run = loc[t].run
       \/ slot'.run = 0 /\ loc'[t].run = slot.run
  /\ pc'[t] \notin {"reap", "reaped"}
  /\ pc'[t] = "unborn" => pc[t] = "unborn"

LEMMA CalmKeepsSlotLives ==
  ASSUME TypeOK, SlotLives, NEW t \in Threads, Calm(t), KeepsSlotLive(t)
  PROVE  SlotLives'
  <1>1. slot'.run # 0 => slot'.run = slot.run
    BY DEF Calm, StartsNothing
  <1>2. \A u \in Threads : pc'[u] = "unborn" => pc[u] = "unborn"
    BY DEF Calm, OnlyMoves, KeepsSlotLive
  <1>3. slot.run \in Runs \cup {0} /\ Runs \subseteq Threads
    BY DEF TypeOK, MemoryOK, SlotType, Runs, Threads
  <1>4. \A u \in Threads : loc[u].run \in Runs \cup {0}
    BY LocOK DEF TypeOK, ThreadsOK, LocType, Runs
  <1>5. slot'.run # 0 => Live(slot.run)' /\ pc'[slot'.run] # "unborn"
    BY <1>1, <1>2, <1>3 DEF SlotLives, KeepsSlotLive, Live
  <1>6. ASSUME NEW u \in Threads, pc'[u] \in Owning, loc'[u].run # 0
        PROVE  loc'[u].run # slot'.run /\ pc'[loc'[u].run] # "unborn"
    <2>1. \/ pc[u] \in Owning /\ loc'[u].run = loc[u].run
          \/ slot'.run = 0 /\ loc'[u].run = slot.run
      BY <1>6 DEF Calm, OnlyMoves, KeepsSlotLive
    <2> QED BY <1>1, <1>2, <1>3, <1>4, <1>6, <2>1 DEF SlotLives
  <1>7. \A u \in Threads : pc'[u] \notin {"reap", "reaped"}
    BY DEF Calm, OnlyMoves, KeepsSlotLive, SlotLives
  <1> QED BY <1>5, <1>6, <1>7 DEF SlotLives

LEMMA AskedKeepsSlotLive ==
  ASSUME TypeOK, SlotLives, NEW t \in Tasks, Asked(t) \/ WindowOpens(t), ~Crash(t)
  PROVE  KeepsSlotLive(t)
  <1>0. t \in Threads
    BY DEF Threads
  <1> QED
    BY <1>0 DEF KeepsSlotLive, SlotLives, Owning, TypeOK, ThreadsOK, threads, memory,
    harness, At, Goto, Live, EmptySlot, Asked, Send, Start, Stop, Restart, Interrupt,
    ClearContext, KillIfOauthShaped, ResumeTurns, Request, PauseTurns, Shutdown, Renew,
    WedgeCheck, ParkTakes, WindowOpens

LEMMA FailsKeepsSlotLive ==
  ASSUME TypeOK, SlotLives, NEW t \in Threads, Fails(t)
  PROVE  KeepsSlotLive(t)
  BY DEF KeepsSlotLive, SlotLives, Owning, TypeOK, ThreadsOK, threads, memory,
  harness, At, Goto, Live, Fails, StartRefused, SpawnFails, PumpQuarantines, Finish,
  AfterStart

LEMMA WorksKeepsSlotLive ==
  ASSUME TypeOK, SlotLives, NEW t \in Threads, Works(t), ~Exit(t),
         \A r \in Runs : ~Spawn(t, r)
  PROVE  KeepsSlotLive(t)
  <1>1. CASE \/ Deliver(t) \/ StartLooks(t) \/ StartRenews(t) \/ StartRetakes(t)
             \/ StartStopped(t) \/ PumpSkips(t) \/ TakeNothing(t)
             \/ Stopped(t) \/ Overspent(t) \/ StayDown(t) \/ ComeBack(t)
    BY <1>1 DEF KeepsSlotLive, SlotLives, Owning, TypeOK, ThreadsOK, threads, memory,
    harness, At, Goto, Live, Finish, Redeliver, AfterStart, Deliver, StartLooks,
    StartRenews, StartRetakes, StartStopped, PumpSkips, TakeNothing, Stopped,
    Overspent, StayDown, ComeBack
  <1>1a. CASE \/ Recycle(t) \/ Adopt(t)
             \/ Parks(t) \/ Wedged(t) \/ Reopen(t) \/ LiftSwaps(t) \/ LiftOpens(t)
             \/ NoteStop(t) \/ Boot(t)
    BY <1>1a DEF KeepsSlotLive, SlotLives, Owning, TypeOK, ThreadsOK, threads, memory,
    harness, At, Goto, Live, Finish, Recycle, Adopt, Parks, Wedged, Reopen, LiftSwaps,
    LiftOpens, NoteStop, Boot
  <1>1b. CASE ShutdownMarks(t)
    BY <1>1b DEF KeepsSlotLive, SlotLives, Owning, TypeOK, ThreadsOK, memory, harness,
    At, Goto, Live, ShutdownMarks
  <1>2. CASE TakeAndKill(t)
    <2>1. slot'.run = 0 /\ pc'[t] \in {"stopping", "taken"}
      BY <1>2 DEF TakeAndKill, EmptySlot, Goto, TypeOK, ThreadsOK
    <2> QED BY <2>1 DEF KeepsSlotLive, Owning
  <1>2a. CASE DrainEnds(t)
    <2>1. slot'.run = 0 /\ pc'[t] \in {"off", "took"} /\ loc'[t].run = slot.run
      BY <1>2a, LocOK DEF DrainEnds, EmptySlot, Goto, Keep, TypeOK, ThreadsOK, LocType
    <2> QED BY <2>1 DEF KeepsSlotLive
  <1>3. CASE PumpAdvances(t)
    BY <1>3 DEF KeepsSlotLive, SlotLives, Owning, TypeOK, ThreadsOK, MemoryOK, SlotType,
    harness, At, Goto, Finish, Live, PumpAdvances
  <1>4. ASSUME NEW aged \in BOOLEAN, PumpWrites(t, aged) PROVE KeepsSlotLive(t)
    <2>1. slot' = slot /\ pc'[t] \in {"writing", "read", "free"}
      BY <1>4 DEF PumpWrites, memory, Finish, Goto, TypeOK, ThreadsOK
    <2>2. \A r \in Runs : Live(r) => Live(r)'
      BY <1>4 DEF PumpWrites, Live, TypeOK, HarnessOK, ChildType
    <2>3. slot.run # 0 => slot.run \in Runs
      BY DEF TypeOK, MemoryOK, SlotType, Runs
    <2> QED BY <2>1, <2>2, <2>3 DEF KeepsSlotLive, SlotLives, Owning
  <1>5. CASE ShutdownKills(t)
    <2>1. slot' = slot /\ pc[t] = "sweep" /\ pc'[t] = "off" /\ Kill({loc[t].run})
      BY <1>5 DEF ShutdownKills, memory, At, Goto, TypeOK, ThreadsOK
    <2>2. slot.run # 0 => slot.run \in Runs /\ slot.run # loc[t].run
      BY <2>1 DEF SlotLives, Owning, TypeOK, MemoryOK, SlotType, Runs
    <2> QED BY <2>1, <2>2, KillsOnly DEF KeepsSlotLive, SlotLives, Owning, TypeOK
  <1> QED BY <1>1, <1>1a, <1>1b, <1>2, <1>2a, <1>3, <1>4, <1>5, Zenon DEF Works

LEMMA ReadsKeepsSlotLive ==
  ASSUME TypeOK, SlotLives, "die" \notin Ops, NEW r \in Runs, Reads(r) \/ ReaderFails(r)
  PROVE  KeepsSlotLive(r)
  <1>0. r \in Threads
    BY DEF Threads
  <1>1. CASE \/ Settle(r) \/ SettleOverBudget(r) \/ Limited(r) \/ LimitedOverBudget(r)
             \/ Recover(r) \/ RecoverRenews(r) \/ ReapLooks(r)
             \/ \E v \in Statuses : ReapSettles(r, v)
    BY <1>0, <1>1 DEF KeepsSlotLive, SlotLives, Owning, TypeOK, ThreadsOK, threads,
    memory, harness, At, Goto, Live, Settle, SettleOverBudget, Limited,
    LimitedOverBudget, Recover, RecoverRenews, ReapLooks, ReapSettles
  <1>2. CASE ReadInit(r) \/ ReadResult(r)
    BY <1>0, <1>2 DEF KeepsSlotLive, SlotLives, Owning, TypeOK, ThreadsOK, MemoryOK,
    SlotType, At, Goto, Live, ReadInit, ReadResult
  <1>3. CASE HaltTakes(r)
    BY <1>0, <1>3, LocOK DEF KeepsSlotLive, SlotLives, Owning, TypeOK, ThreadsOK,
    LocType, At, Goto, Keep, Live, EmptySlot, HaltTakes
  <1>4. CASE HaltKills(r)
    <2>1. slot' = slot /\ pc[r] = "halting" /\ Kill({loc[r].run} \ {0})
      BY <1>4 DEF HaltKills, At
    <2>2. pc'[r] \in {"read", "deliver"}
      BY <1>0, <1>4 DEF HaltKills, Finish, Redeliver, Goto, TypeOK, ThreadsOK
    <2>3. slot.run # 0 => slot.run \in Runs /\ slot.run \notin {loc[r].run} \ {0}
      BY <1>0, <2>1 DEF SlotLives, Owning, TypeOK, MemoryOK, SlotType, Runs
    <2> QED BY <2>1, <2>2, <2>3, KillsOnly DEF KeepsSlotLive, SlotLives, Owning, TypeOK
  <1>5. CASE Reap(r)
    BY <1>0, <1>5, SupervisorAssumption DEF KeepsSlotLive, SlotLives, Owning, TypeOK,
    ThreadsOK, harness, At, Goto, Live, Reap, Runs
  <1>6. CASE ChildDies(r)
    BY <1>6 DEF ChildDies, Spend
  <1> QED
    BY <1>1, <1>2, <1>3, <1>4, <1>5, <1>6, Zenon DEF Reads, ReaderFails

LEMMA SpawnKeepsSlotLives ==
  ASSUME TypeOK, Safe, SlotLives, NEW t \in Threads, NEW r \in Runs, Spawn(t, r)
  PROVE  SlotLives'
  <1>1. t # r /\ r \in Threads /\ pc[t] = "spawning" /\ pc[r] = "unborn"
    BY DEF Spawn, At, Threads
  <1>2. /\ pc'[t] \in {"deliver", "pump"} /\ pc'[r] = "read"
        /\ \A u \in Threads \ {t, r} : pc'[u] = pc[u]
    BY <1>1 DEF Spawn, TypeOK, ThreadsOK
  <1>3. slot'.run = r /\ Live(r)'
    BY DEF Spawn, EmptySlot, Live, TypeOK, HarnessOK
  <1>4. \A u \in Threads \ {t} : loc'[u] = loc[u]
    BY DEF Spawn, Keep, TypeOK, ThreadsOK
  <1>5. \A u \in Threads : loc[u].run \in Runs \cup {0}
    BY LocOK DEF TypeOK, ThreadsOK, LocType, Runs
  <1>6. ASSUME NEW u \in Threads
        PROVE  /\ pc'[u] \in Owning /\ loc'[u].run # 0 =>
                    loc'[u].run # slot'.run /\ pc'[loc'[u].run] # "unborn"
               /\ pc'[u] \notin {"reap", "reaped"}
    BY <1>1, <1>2, <1>3, <1>4, <1>5 DEF SlotLives, Owning, Threads
  <1> QED BY <1>2, <1>3, <1>6 DEF SlotLives

LEMMA RebootKeepsSlotLives ==
  ASSUME NEW t \in Threads, Reboot(t)
  PROVE  SlotLives'
  BY DEF Reboot, SlotLives, EmptySlot, Owning

-----------------------------------------------------------------------------

\* What a statement leaves alone, and what becomes of the rows it names.
LEMMA StatesAfter ==
  ASSUME NEW rows, WellFormed(rows), NEW S, NEW m \in Msgs
  PROVE  /\ m \notin S => /\ MarkDelivered(rows, S)[m] = rows[m]
                          /\ Complete(rows, S)[m] = rows[m]
                          /\ MarkError(rows, S)[m] = rows[m]
                          /\ RequeueUndelivered(rows, S)[m] = rows[m]
                          /\ RequeueForLimit(rows, S)[m] = rows[m]
                          /\ ClaimNotification(rows, S)[m] = rows[m]
                          /\ Quarantine(rows, S)[m] = rows[m]
         /\ ClaimNotification(rows, S)[m].state = rows[m].state
         /\ m \in S /\ rows[m].state = "queued" =>
              /\ MarkDelivered(rows, S)[m].state = "delivered"
              /\ Quarantine(rows, S)[m].state = "undeliverable"
         /\ m \in S /\ rows[m].state = "delivered" =>
              /\ Complete(rows, S)[m].state = "consumed"
              /\ MarkError(rows, S)[m].state = "consumed"
              /\ RequeueUndelivered(rows, S)[m].state = "queued"
  <1>1. rows[m] \in Row
    BY DEF WellFormed, Bounded
  <1> QED
    BY <1>1 DEF Row, MarkDelivered, Complete, MarkError, RequeueUndelivered,
    RequeueForLimit, ClaimNotification, Quarantine, Update, Absent, InState, DeliverRow,
    CompleteRow, MarkErrorRow, RequeueRow, LimitRow, ClaimRow, QuarantineRow, Advance,
    CanAdvance

\* The requests that a statement answers are those of the rows it was given.
LEMMA ClaimsAfter ==
  ASSUME NEW rows, WellFormed(rows), NEW S, NEW m \in Msgs
  PROVE  /\ MarkDelivered(rows, S)[m].notify = rows[m].notify
         /\ Complete(rows, S)[m].notify = rows[m].notify
         /\ MarkError(rows, S)[m].notify = rows[m].notify
         /\ RequeueUndelivered(rows, S)[m].notify = rows[m].notify
         /\ RequeueForLimit(rows, S)[m].notify = rows[m].notify
         /\ Quarantine(rows, S)[m].notify = rows[m].notify
  <1>1. rows[m] \in Row
    BY DEF WellFormed, Bounded
  <1> QED
    BY <1>1 DEF Row, MarkDelivered, Complete, MarkError, RequeueUndelivered,
    RequeueForLimit, Quarantine, Update, Absent, InState, DeliverRow, CompleteRow,
    MarkErrorRow, RequeueRow, LimitRow, QuarantineRow, Advance, CanAdvance

Final == {"consumed", "undeliverable"}

LEMMA LimitedIsWellFormed ==
  ASSUME NEW rows, WellFormed(rows), NEW S
  PROVE  WellFormed(RequeueForLimit(rows, S))
  <1>1. \A m \in Msgs : rows[m] \in Row /\ Bounded(LimitRow(rows[m]))
    BY LimitStep DEF WellFormed, Bounded, RowStep
  <1> QED BY <1>1 DEF WellFormed, RequeueForLimit, Update, Bounded

\* settle_turn moves only the messages of its turn, and answers for those it ends.
LEMMA SettledAfter ==
  ASSUME WellFormed(row), NEW S \in SUBSET Msgs, NEW kind, NEW m \in Msgs
  PROVE  /\ m \notin S => SettledRows(kind, S)[m] = row[m]
         /\ m \in S /\ row[m].state = "delivered" =>
              SettledRows(kind, S)[m].state =
                IF kind \in {"ok", "error"} THEN "consumed" ELSE "queued"
         /\ kind \notin {"ok", "error"} =>
              SettledRows(kind, S)[m].notify = row[m].notify
  <1>1. CASE kind = "ok"
    <2> DEFINE done == Complete(row, S)
    <2>1. WellFormed(done)
      BY AdvancesLegally DEF LegalStep
    <2>2. SettledRows(kind, S) = ClaimNotification(done, S)
      BY <1>1 DEF SettledRows
    <2> HIDE DEF done
    <2>3. /\ m \notin S => ClaimNotification(done, S)[m] = done[m]
          /\ ClaimNotification(done, S)[m].state = done[m].state
      BY <2>1, StatesAfter
    <2> QED BY <1>1, <2>2, <2>3, StatesAfter DEF done
  <1>2. CASE kind = "error"
    <2> DEFINE done == MarkError(row, S)
    <2>1. WellFormed(done)
      BY AdvancesLegally DEF LegalStep
    <2>2. SettledRows(kind, S) = ClaimNotification(done, S)
      BY <1>2 DEF SettledRows
    <2> HIDE DEF done
    <2>3. /\ m \notin S => ClaimNotification(done, S)[m] = done[m]
          /\ ClaimNotification(done, S)[m].state = done[m].state
      BY <2>1, StatesAfter
    <2> QED BY <1>2, <2>2, <2>3, StatesAfter DEF done
  <1>3. CASE kind \notin {"ok", "error"}
    <2>1. SettledRows(kind, S) = RequeueUndelivered(row, S)
      BY <1>3 DEF SettledRows
    <2> QED BY <1>3, <2>1, StatesAfter, ClaimsAfter
  <1> QED BY <1>1, <1>2, <1>3

\* requeue_limited moves only the messages of its turn, and tells the senders of
\* those it gives up.
LEMMA LimitedAfter ==
  ASSUME WellFormed(row), NEW S \in SUBSET Msgs, NEW m \in Msgs
  PROVE  /\ m \notin S => LimitedRows(S)[m] = row[m]
         /\ LimitedRows(S)[m].notify = 2 =>
              row[m].notify = 2 \/ LimitedRows(S)[m].state = "consumed"
  <1> DEFINE capped == {n \in S : LimitCapReached(row[n])}
             back   == RequeueForLimit(row, S)
             failed == MarkError(back, capped)
  <1>1. LimitedRows(S) = ClaimNotification(failed, capped)
    BY DEF LimitedRows
  <1>2. WellFormed(back)
    BY LimitedIsWellFormed
  <1>3. WellFormed(failed)
    BY <1>2, AdvancesLegally DEF LegalStep
  <1>4. m \in capped => back[m] = row[m] /\ row[m].state = "delivered"
    <2>1. row[m] \in Row
      BY DEF WellFormed, Bounded
    <2> QED BY <2>1 DEF RequeueForLimit, Update, LimitRow, LimitCapReached
  <1>5. m \notin S => m \notin capped /\ back[m] = row[m]
    BY StatesAfter
  <1>6. m \in Msgs /\ back[m].notify = row[m].notify
    BY ClaimsAfter
  <1> HIDE DEF capped, back
  <1>7. /\ failed[m].notify = back[m].notify
        /\ m \notin capped => failed[m] = back[m]
        /\ m \in capped => failed[m].state = "consumed"
    BY <1>2, <1>4, StatesAfter, ClaimsAfter
  <1> HIDE DEF failed
  <1>8. /\ m \notin capped => ClaimNotification(failed, capped)[m] = failed[m]
        /\ ClaimNotification(failed, capped)[m].state = failed[m].state
    BY <1>3, StatesAfter
  <1> QED BY <1>1, <1>4, <1>5, <1>6, <1>7, <1>8

-----------------------------------------------------------------------------

\* What thread t may do to messages: it moves those in its hands or still in the
\* queue, and takes them from the queue or from the slot it has under the mutex.
Transfers(t) ==
  /\ \A m \in Msgs : \/ row'[m].state = row[m].state \/ m \in Hand(t)
                     \/ row[m].state = "absent" \/ (row[m].state = "queued" /\ LockFree)
  /\ \A m \in slot'.inFlight : \/ m \in slot.inFlight
                               \/ m \in Hand(t) /\ row'[m].state = "delivered"
  /\ \A m \in Hand(t)' :
       /\ m \notin slot'.inFlight
       /\ m \in slot.inFlight \/ m \in Hand(t) \/ (row[m].state = "queued" /\ LockFree)
       /\ row'[m].state = IF pc'[t] = "writing" THEN "queued" ELSE "delivered"
  /\ slot'.run = 0 => slot'.inFlight = {}
  /\ pc'[t] = "writing" => slot'.run # 0 /\ slot'.inFlight = {}
  /\ slot' = slot \/ LockFree \/ pc[t] = "writing"

LEMMA HandsAreMessages ==
  ASSUME TypeOK, NEW t \in Threads
  PROVE  loc[t].msgs \in SUBSET Msgs /\ Hand(t) \in SUBSET Msgs /\ slot.inFlight \in SUBSET Msgs
  BY LocOK DEF TypeOK, ThreadsOK, LocType, MemoryOK, SlotType, Hand

LEMMA CalmKeepsCustody ==
  ASSUME TypeOK, LockOK, Custody, NEW t \in Threads, OnlyMoves(t), Transfers(t)
  PROVE  Custody'
  <1>1. \A u \in Threads \ {t} : /\ Hand(u)' = Hand(u) /\ pc'[u] = pc[u]
                                 /\ pc[u] = "writing" => ~LockFree /\ pc[t] # "writing"
    BY DEF OnlyMoves, Hand, LockOK, LockFree, Holding
  <1>2. \A u \in Threads \ {t} : Hand(u) \cap Hand(t) = {} /\ Hand(u) \in SUBSET Msgs
    BY HandsAreMessages DEF Custody
  <1>3. ASSUME NEW u \in Threads \ {t}, NEW m \in Hand(u)
        PROVE  row'[m].state = row[m].state /\ m \notin slot'.inFlight /\ m \notin Hand(t)'
    <2>1. /\ m \in Msgs /\ m \notin Hand(t) /\ m \notin slot.inFlight
          /\ row[m].state = IF pc[u] = "writing" THEN "queued" ELSE "delivered"
      BY <1>2 DEF Custody
    <2>2. row[m].state = "queued" => ~LockFree
      BY <1>1, <2>1
    <2> QED BY <2>1, <2>2 DEF Transfers
  <1>4. \A m \in slot'.inFlight : row'[m].state = "delivered"
    <2> SUFFICES ASSUME NEW m \in slot'.inFlight, m \in slot.inFlight
                 PROVE  row'[m].state = "delivered"
      BY DEF Transfers
    <2>1. row[m].state = "delivered" /\ m \in Msgs /\ m \notin Hand(t)
      BY HandsAreMessages DEF Custody
    <2> QED BY <2>1 DEF Transfers
  <1>5. \A u \in Threads : \A m \in Hand(u)' :
          /\ m \notin slot'.inFlight
          /\ row'[m].state = IF pc'[u] = "writing" THEN "queued" ELSE "delivered"
    <2> TAKE u \in Threads
    <2>1. CASE u = t
      BY <2>1 DEF Transfers
    <2>2. CASE u # t
      BY <1>1, <1>3, <2>2 DEF Custody
    <2> QED BY <2>1, <2>2
  <1>6. \A u, v \in Threads : u # v => Hand(u)' \cap Hand(v)' = {}
    <2>1. \A u \in Threads \ {t} : Hand(u)' \cap Hand(t)' = {}
      BY <1>1, <1>3
    <2>2. \A u, v \in Threads \ {t} : u # v => Hand(u)' \cap Hand(v)' = {}
      BY <1>1 DEF Custody
    <2> QED BY <2>1, <2>2
  <1>7. \A u \in Threads : pc'[u] = "writing" => slot'.run # 0 /\ slot'.inFlight = {}
    BY <1>1 DEF Transfers, Custody
  <1> QED BY <1>4, <1>5, <1>6, <1>7 DEF Transfers, Custody

\* Most steps leave the table and the slot as they are, and take nothing in hand.
LEMMA IdleTransfers ==
  ASSUME Custody, NEW t \in Threads, row' = row, slot' = slot, Hand(t)' = {},
         pc'[t] # "writing"
  PROVE  Transfers(t)
  BY DEF Transfers, Custody

LEMMA AskedTransfers ==
  ASSUME TypeOK, Custody, NEW t \in Tasks, Asked(t) \/ WindowOpens(t), ~Crash(t)
  PROVE  Transfers(t)
  <1>0. t \in Threads
    BY DEF Threads
  <1>1. pc[t] = "free" /\ Hand(t)' = {} /\ pc'[t] # "writing"
    BY <1>0 DEF Hand, TypeOK, ThreadsOK, threads, At, Goto, Asked, Send, Start, Stop,
    Restart, Interrupt, ClearContext, KillIfOauthShaped, ResumeTurns, Request,
    PauseTurns, Shutdown, Renew, WedgeCheck, ParkTakes, WindowOpens
  <1>2. ASSUME NEW m \in Msgs, Send(t, m) PROVE Transfers(t)
    <2>1. slot' = slot /\ \A n \in Msgs : row'[n] = row[n] \/ row[n].state = "absent"
      BY <1>2 DEF Send, memory, Enqueue, Absent, InState, TypeOK, RowsOK
    <2> QED BY <1>1, <2>1 DEF Transfers, Custody
  <1>3. CASE ParkTakes(t)
    <2>1. row' = row /\ LockFree /\ slot'.run = 0 /\ slot'.inFlight = {}
      BY <1>3 DEF ParkTakes, db, EmptySlot
    <2> QED BY <1>1, <2>1 DEF Transfers
  <1>4. CASE ~ParkTakes(t) /\ \A m \in Msgs : ~Send(t, m)
    <2>1. row' = row /\ slot' = slot
      BY <1>4 DEF db, memory, Asked, Start, Stop, Restart, Interrupt, ClearContext,
      KillIfOauthShaped, ResumeTurns, Request, PauseTurns, Shutdown, Renew, WedgeCheck,
      WindowOpens
    <2> QED BY <1>0, <1>1, <2>1, IdleTransfers
  <1> QED BY <1>2, <1>3, <1>4

LEMMA FailsTransfers ==
  ASSUME TypeOK, Custody, NEW t \in Threads, Fails(t)
  PROVE  Transfers(t)
  <1>1. Hand(t)' = {} /\ pc'[t] # "writing" /\ slot' = slot
    BY DEF Hand, TypeOK, ThreadsOK, memory, At, Goto, Fails, StartRefused, SpawnFails,
    PumpQuarantines, Finish, AfterStart
  <1>2. ASSUME NEW aged \in BOOLEAN, PumpQuarantines(t, aged) PROVE Transfers(t)
    <2> DEFINE S == NextForDelivery(row, slot.consec, aged)
               gone == Quarantine(row, S)
    <2>1. LockFree /\ row' = ClaimNotification(gone, S) /\ S \subseteq Queued(row)
      BY <1>2, PicksFromTheQueue DEF PumpQuarantines
    <2>2. \A m \in Msgs : m \notin S => row'[m] = row[m]
      BY <2>1 DEF ClaimNotification, Quarantine, Update
    <2>3. \A m \in S : row[m].state = "queued"
      BY <2>1 DEF Queued, InState
    <2> QED BY <1>1, <2>1, <2>2, <2>3 DEF Transfers, Custody
  <1>3. CASE StartRefused(t) \/ SpawnFails(t)
    <2>1. row' = row
      BY <1>3 DEF StartRefused, SpawnFails
    <2> QED BY <1>1, <2>1, IdleTransfers
  <1> QED BY <1>2, <1>3 DEF Fails

LEMMA WorksTransfers ==
  ASSUME TypeOK, LockOK, SlotLives, Custody, NEW t \in Threads, Works(t), ~Exit(t),
         \A r \in Runs : ~Spawn(t, r)
  PROVE  Transfers(t)
  <1>0. WellFormed(row) /\ loc[t].msgs \in SUBSET Msgs
    BY RowsAreWellFormed, HandsAreMessages
  <1>1. CASE \/ Deliver(t) \/ StartLooks(t) \/ StartRenews(t) \/ StartRetakes(t)
             \/ StartStopped(t) \/ PumpSkips(t) \/ TakeNothing(t)
             \/ Stopped(t) \/ Overspent(t) \/ StayDown(t) \/ Recycle(t) \/ Adopt(t)
    <2>1. row' = row /\ slot' = slot
      BY <1>1 DEF db, memory, Deliver, StartLooks, StartRenews, StartRetakes,
      StartStopped, PumpSkips, TakeNothing, Stopped, Overspent, StayDown, Recycle, Adopt
    <2>2. Hand(t)' = {} /\ pc'[t] # "writing"
      BY <1>1 DEF Hand, TypeOK, ThreadsOK, threads, At, Goto, Finish, AfterStart,
      Deliver, StartLooks, StartRenews, StartRetakes, StartStopped, PumpSkips,
      TakeNothing, Stopped, Overspent, StayDown, Recycle, Adopt
    <2> QED BY <2>1, <2>2, IdleTransfers
  <1>2. CASE \/ Parks(t) \/ Wedged(t) \/ LiftSwaps(t) \/ LiftOpens(t)
             \/ NoteStop(t) \/ ShutdownKills(t) \/ Boot(t)
    <2>1. row' = row /\ slot' = slot
      BY <1>2 DEF db, memory, Parks, Wedged, LiftSwaps, LiftOpens, NoteStop,
      ShutdownKills, Boot
    <2>2. Hand(t)' = {} /\ pc'[t] # "writing"
      BY <1>2 DEF Hand, TypeOK, ThreadsOK, threads, At, Goto, Finish, Parks, Wedged,
      LiftSwaps, LiftOpens, NoteStop, ShutdownKills, Boot
    <2> QED BY <2>1, <2>2, IdleTransfers
  <1>3. CASE Reopen(t)
    <2>1. slot' = slot /\ Hand(t)' = {} /\ pc'[t] # "writing"
      BY <1>3 DEF Hand, TypeOK, ThreadsOK, memory, At, Goto, Reopen
    <2>2. \A n \in Msgs : row'[n] = row[n] \/ row[n].state = "absent"
      BY <1>3 DEF Reopen, Enqueue, Absent, InState, TypeOK, RowsOK
    <2> QED BY <2>1, <2>2 DEF Transfers, Custody
  <1>4. ASSUME NEW aged \in BOOLEAN, PumpWrites(t, aged) PROVE Transfers(t)
    <2>1. row' = row /\ slot' = slot /\ LockFree /\ slot.run # 0 /\ slot.inFlight = {}
      BY <1>4 DEF PumpWrites, CanPump, db, memory
    <2>2. PICK m \in NextForDelivery(row, slot.consec, aged) :
               \/ pc'[t] = "writing" /\ loc'[t].msgs = {m}
               \/ pc'[t] \in {"read", "free"}
      BY <1>4, LocOK DEF PumpWrites, Finish, Goto, Keep, TypeOK, ThreadsOK, LocType
    <2>3. row[m].state = "queued"
      BY PicksFromTheQueue DEF Queued, InState
    <2>4. \A n \in Hand(t)' : n = m /\ pc'[t] = "writing"
      BY <2>2 DEF Hand
    <2> QED BY <2>1, <2>3, <2>4 DEF Transfers
  <1>5. CASE PumpAdvances(t)
    <2>1. /\ pc[t] = "writing" /\ slot'.inFlight = loc[t].msgs /\ slot'.run = slot.run
          /\ row' = MarkDelivered(row, loc[t].msgs)
      BY <1>5 DEF PumpAdvances, At, TypeOK, MemoryOK, SlotType
    <2>2. Hand(t)' = {} /\ pc'[t] # "writing" /\ slot.run # 0
      BY <1>5, <2>1 DEF Hand, PumpAdvances, Finish, Goto, TypeOK, ThreadsOK, Custody
    <2>3. Hand(t) = loc[t].msgs /\ \A m \in loc[t].msgs : row[m].state = "queued"
      BY <2>1 DEF Hand, Custody
    <2>4. \A m \in Msgs : /\ m \notin loc[t].msgs => row'[m] = row[m]
                          /\ m \in loc[t].msgs => row'[m].state = "delivered"
      BY <1>0, <2>1, <2>3, StatesAfter
    <2> QED BY <1>0, <2>1, <2>2, <2>3, <2>4 DEF Transfers
  <1>6. CASE TakeAndKill(t)
    <2>1. /\ row' = row /\ LockFree /\ slot'.run = 0 /\ slot'.inFlight = {}
          /\ pc'[t] \in {"stopping", "taken"} /\ loc'[t].msgs = slot.inFlight
      BY <1>6, LocOK DEF TakeAndKill, EmptySlot, db, Goto, Keep, TypeOK, ThreadsOK, LocType
    <2>2. Hand(t)' \subseteq slot.inFlight
      BY <2>1 DEF Hand
    <2> QED BY <2>1, <2>2 DEF Transfers, Custody
  <1>7. CASE DrainEnds(t)
    <2>1. /\ row' = row /\ LockFree /\ slot'.run = 0 /\ slot'.inFlight = {}
          /\ pc'[t] \in {"off", "took"} /\ loc'[t].msgs = slot.inFlight
      BY <1>7, LocOK DEF DrainEnds, EmptySlot, db, Goto, Keep, TypeOK, ThreadsOK, LocType
    <2>2. Hand(t)' \subseteq slot.inFlight
      BY <2>1 DEF Hand
    <2> QED BY <2>1, <2>2 DEF Transfers, Custody
  <1>8. CASE ComeBack(t)
    <2>1. /\ pc[t] = "taken" /\ slot' = slot /\ pc'[t] = "deliver"
          /\ row' = CASE loc[t].op = "interrupt" -> MarkError(row, loc[t].msgs)
                      [] loc[t].op = "recycle" -> RequeueUndelivered(row, loc[t].msgs)
                      [] OTHER -> row
      BY <1>8 DEF ComeBack, At, Redeliver, Goto, memory, TypeOK, ThreadsOK
    <2>2. \A m \in Msgs : row'[m] = row[m] \/ m \in Hand(t)
      BY <1>0, <2>1, StatesAfter DEF Hand
    <2>3. Hand(t)' = {}
      BY <2>1 DEF Hand
    <2> QED BY <2>1, <2>2, <2>3 DEF Transfers, Custody
  <1>9. CASE ShutdownMarks(t)
    <2>1. /\ pc[t] = "took" /\ slot' = slot /\ pc'[t] = "sweep"
          /\ row' = MarkError(row, loc[t].msgs)
      BY <1>9 DEF ShutdownMarks, At, Goto, memory, TypeOK, ThreadsOK
    <2>2. \A m \in Msgs : row'[m] = row[m] \/ m \in Hand(t)
      BY <1>0, <2>1, StatesAfter DEF Hand
    <2>3. Hand(t)' = {}
      BY <2>1 DEF Hand
    <2> QED BY <2>1, <2>2, <2>3 DEF Transfers, Custody
  <1> QED
    BY <1>1, <1>2, <1>3, <1>4, <1>5, <1>6, <1>7, <1>8, <1>9, Zenon DEF Works

LEMMA ReadsTransfers ==
  ASSUME TypeOK, LockOK, SlotLives, Custody, NEW r \in Runs, Reads(r) \/ ReaderFails(r)
  PROVE  Transfers(r)
  <1>0. r \in Threads /\ WellFormed(row) /\ loc[r].msgs \in SUBSET Msgs
    BY RowsAreWellFormed, HandsAreMessages DEF Threads
  <1>1. CASE Recover(r) \/ RecoverRenews(r) \/ HaltKills(r) \/ ChildDies(r)
    <2>1. row' = row /\ slot' = slot
      BY <1>1 DEF db, memory, Recover, RecoverRenews, HaltKills, ChildDies
    <2>2. CASE ~ChildDies(r)
      <3>1. Hand(r)' = {} /\ pc'[r] # "writing"
        BY <1>0, <1>1, <2>2 DEF Hand, TypeOK, ThreadsOK, At, Goto, Finish, Redeliver,
        Recover, RecoverRenews, HaltKills
      <3> QED BY <1>0, <2>1, <3>1, IdleTransfers
    <2>3. CASE ChildDies(r)
      <3>1. Hand(r)' = Hand(r) /\ pc'[r] = pc[r]
        BY <2>3 DEF ChildDies, threads, Hand
      <3> QED BY <1>0, <2>1, <3>1 DEF Transfers, Custody
    <2> QED BY <2>2, <2>3
  <1>2. CASE ReapLooks(r) \/ \E v \in Statuses : ReapSettles(r, v)
    BY <1>0, <1>2 DEF ReapLooks, ReapSettles, At, SlotLives
  <1>3. CASE ReadInit(r)
    <2>1. /\ row' = row /\ LockFree /\ slot'.run = slot.run
          /\ slot'.inFlight = slot.inFlight
      BY <1>3 DEF ReadInit, TypeOK, MemoryOK, SlotType
    <2>2. Hand(r)' = {} /\ pc'[r] # "writing"
      BY <1>0, <1>3 DEF ReadInit, Hand, Goto, TypeOK, ThreadsOK
    <2> QED BY <2>1, <2>2 DEF Transfers, Custody
  <1>4. CASE ReadResult(r)
    <2>1. row' = row /\ LockFree /\ pc[r] = "read" /\ slot'.run = slot.run
      BY <1>4 DEF ReadResult, db, At, TypeOK, MemoryOK, SlotType
    <2>2. CASE Matches(Head(pipe[r]))
      <3>1. slot'.inFlight = {}
        BY <1>4, <2>2 DEF ReadResult, TypeOK, MemoryOK, SlotType
      <3>2. pc'[r] \in {"limited", "settle"} /\ loc'[r].msgs = slot.inFlight
        BY <1>0, <1>4, <2>2, LocOK DEF ReadResult, Goto, Keep, TypeOK, ThreadsOK, LocType
      <3>3. Hand(r)' = slot.inFlight
        BY <3>2 DEF Hand
      <3> QED BY <2>1, <3>1, <3>2, <3>3 DEF Transfers, Custody
    <2>3. CASE ~Matches(Head(pipe[r]))
      <3>1. slot' = slot /\ pc' = pc /\ loc' = loc
        BY <1>4, <2>3 DEF ReadResult
      <3>2. Hand(r)' = {} /\ pc'[r] # "writing"
        BY <2>1, <3>1 DEF Hand
      <3> QED BY <1>0, <2>1, <3>1, <3>2, IdleTransfers
    <2> QED BY <2>2, <2>3
  <1>5. CASE Settle(r) \/ SettleOverBudget(r)
    <2>1. /\ pc[r] = "settle" /\ slot' = slot
          /\ row' = SettledRows(loc[r].kind, loc[r].msgs)
          /\ pc'[r] \in {"recover", "take", "recycle", "pump", "note_stop"}
      BY <1>0, <1>5 DEF Settle, SettleOverBudget, At, Goto, memory, TypeOK, ThreadsOK
    <2>2. \A m \in Msgs : row'[m] = row[m] \/ m \in Hand(r)
      BY <1>0, <2>1, SettledAfter DEF Hand
    <2>3. Hand(r)' = {}
      BY <2>1 DEF Hand
    <2> QED BY <2>1, <2>2, <2>3 DEF Transfers, Custody
  <1>6. CASE Limited(r) \/ LimitedOverBudget(r)
    <2>1. /\ pc[r] = "limited" /\ slot' = slot /\ row' = LimitedRows(loc[r].msgs)
          /\ pc'[r] = "halt"
      BY <1>0, <1>6 DEF Limited, LimitedOverBudget, At, Goto, memory, TypeOK, ThreadsOK
    <2>2. \A m \in Msgs : row'[m] = row[m] \/ m \in Hand(r)
      BY <1>0, <2>1, LimitedAfter DEF Hand
    <2>3. Hand(r)' = {}
      BY <2>1 DEF Hand
    <2> QED BY <2>1, <2>2, <2>3 DEF Transfers, Custody
  <1>7. CASE HaltTakes(r)
    <2>1. /\ row' = row /\ LockFree /\ slot'.run = 0 /\ slot'.inFlight = {}
          /\ pc'[r] = "halting"
      BY <1>0, <1>7 DEF HaltTakes, EmptySlot, db, Goto, TypeOK, ThreadsOK
    <2>2. Hand(r)' = {}
      BY <2>1 DEF Hand
    <2> QED BY <2>1, <2>2 DEF Transfers
  <1>8. CASE Reap(r)
    <2>1. /\ row' = row /\ pc'[r] \in {"reap", "gone"}
          /\ slot' = slot \/ (LockFree /\ slot'.run = 0 /\ slot'.inFlight = {})
      BY <1>0, <1>8 DEF Reap, EmptySlot, db, Goto, TypeOK, ThreadsOK
    <2>2. Hand(r)' = {}
      BY <2>1 DEF Hand
    <2> QED BY <2>1, <2>2 DEF Transfers, Custody
  <1> QED
    BY <1>1, <1>2, <1>3, <1>4, <1>5, <1>6, <1>7, <1>8, Zenon DEF Reads, ReaderFails

LEMMA SpawnKeepsCustody ==
  ASSUME TypeOK, LockOK, Custody, NEW t \in Threads, NEW r \in Runs, Spawn(t, r)
  PROVE  Custody'
  <1>1. t # r /\ r \in Threads /\ pc[t] = "spawning" /\ pc[r] = "unborn" /\ row' = row
    BY DEF Spawn, At, Threads
  <1>2. /\ pc'[t] \in {"deliver", "pump"} /\ pc'[r] = "read"
        /\ \A u \in Threads \ {t, r} : pc'[u] = pc[u]
        /\ \A u \in Threads \ {t} : loc'[u] = loc[u]
    BY <1>1 DEF Spawn, Keep, TypeOK, ThreadsOK
  <1>3. slot'.run = r /\ slot'.inFlight = {} /\ 0 \notin Runs
    BY SupervisorAssumption DEF Spawn, EmptySlot, Runs
  <1>4. \A u \in Threads : \/ Hand(u)' = {} /\ pc'[u] # "writing"
                           \/ Hand(u)' = Hand(u) /\ pc'[u] = pc[u]
    BY <1>1, <1>2 DEF Hand
  <1> QED BY <1>1, <1>3, <1>4 DEF Custody

LEMMA RebootKeepsCustody ==
  ASSUME NEW t \in Threads, Reboot(t)
  PROVE  Custody'
  <1>1. \A u \in Threads : Hand(u)' = {} /\ pc'[u] # "writing"
    BY DEF Reboot, Hand
  <1>2. slot'.inFlight = {}
    BY DEF Reboot, EmptySlot
  <1> QED BY <1>1, <1>2 DEF Custody

\* What the runs without spontaneous deaths keep, step after step.
Kept == SlotLives /\ Custody

LEMMA KeptAtFirst == Init => Kept
  BY DEF Init, Kept, SlotLives, Custody, Hand, EmptySlot, Owning

LEMMA KeptNext ==
  ASSUME TypeOK, Safe, Kept, "die" \notin Ops, [Next]_vars
  PROVE  Kept'
  <1>0. ASSUME NEW t \in Threads, Calm(t), KeepsSlotLive(t), Transfers(t) PROVE Kept'
    BY <1>0, CalmKeepsSlotLives, CalmKeepsCustody DEF Calm, Kept, Safe
  <1>a. ASSUME NEW t \in Threads, Reboot(t) PROVE Kept'
    BY <1>a, RebootKeepsSlotLives, RebootKeepsCustody DEF Kept
  <1>1. ASSUME NEW t \in Tasks, Asked(t) \/ WindowOpens(t) PROVE Kept'
    <2>1. t \in Threads
      BY DEF Threads
    <2>2. CASE Crash(t)
      BY <1>a, <2>1, <2>2 DEF Crash
    <2>3. CASE ~Crash(t)
      BY <1>0, <1>1, <2>1, <2>3, AskedIsCalm, AskedKeepsSlotLive, AskedTransfers DEF Kept
    <2> QED BY <2>2, <2>3
  <1>2. ASSUME NEW t \in Threads, Works(t) PROVE Kept'
    <2>1. CASE Exit(t)
      BY <1>a, <2>1 DEF Exit
    <2>2. ASSUME NEW r \in Runs, Spawn(t, r) PROVE Kept'
      BY <2>2, SpawnKeepsSlotLives, SpawnKeepsCustody DEF Kept, Safe
    <2>3. CASE ~Exit(t) /\ \A r \in Runs : ~Spawn(t, r)
      BY <1>0, <1>2, <2>3, WorksIsCalm, WorksKeepsSlotLive, WorksTransfers DEF Kept, Safe
    <2> QED BY <2>1, <2>2, <2>3
  <1>3. ASSUME NEW t \in Threads, Fails(t) PROVE Kept'
    BY <1>0, <1>3, FailsIsCalm, FailsKeepsSlotLive, FailsTransfers DEF Kept
  <1>4. ASSUME NEW r \in Runs, Reads(r) \/ ReaderFails(r) PROVE Kept'
    BY <1>0, <1>4, ReadsIsCalm, ReadsKeepsSlotLive, ReadsTransfers DEF Kept, Safe, Threads
  <1>5. ASSUME NEW r \in Runs, ChildInits(r) \/ \E e \in Ends : ChildEndsTurn(r, e)
        PROVE  Kept'
    <2>1. row' = row /\ slot' = slot /\ pc' = pc /\ loc' = loc
      BY <1>5 DEF ChildInits, ChildEndsTurn, db, memory, threads
    <2>2. \A q \in Runs : Live(q) => Live(q)'
      BY <1>5 DEF ChildInits, ChildEndsTurn, Live, TypeOK, HarnessOK, ChildType
    <2>3. slot.run # 0 => slot.run \in Runs
      BY DEF TypeOK, MemoryOK, SlotType, Runs
    <2>4. SlotLives'
      BY <2>1, <2>2, <2>3 DEF Kept, SlotLives
    <2> QED BY <2>1, <2>4 DEF Kept, Custody, Hand
  <1>6. CASE UNCHANGED vars
    BY <1>6 DEF vars, db, memory, harness, threads, Kept, SlotLives, Custody, Hand, Live
  <1> QED
    BY <1>1, <1>2, <1>3, <1>4, <1>5, <1>6 DEF Next, Rest

\* Each message is in the hands of one thread at most, or in the slot and delivered.
THEOREM CustodyAlways ==
  ASSUME "die" \notin Ops
  PROVE  Spec => []Kept
  <1>1. TypeOK /\ Safe /\ Kept /\ [Next]_vars => Kept'
    BY KeptNext
  <1> QED
    BY <1>1, KeptAtFirst, TypeCorrect, SafeAtFirst, SafeNext, PTL DEF Spec

-----------------------------------------------------------------------------

\* A claim is made in the block that ended the message, and for no other message.
Tells(m) == row'[m].notify = 2 => row[m].notify = 2 \/ row'[m].state \in Final

LEMMA EnqueuedIsUntold ==
  ASSUME TypeOK, NEW n \in Absent(row), row' = Enqueue(row, n)
  PROVE  \A m \in Msgs : Tells(m)
  BY DEF TypeOK, RowsOK, Enqueue, Tells

LEMMA StepsTell ==
  ASSUME TypeOK, Kept, Next, NEW m \in Msgs
  PROVE  Tells(m)
  <1>0. WellFormed(row)
    BY RowsAreWellFormed
  <1>a. row' = row => Tells(m)
    BY DEF Tells
  <1>1. ASSUME NEW t \in Tasks, Asked(t) \/ WindowOpens(t) PROVE Tells(m)
    <2>1. (\E n \in Absent(row) : row' = Enqueue(row, n)) \/ row' = row
      BY <1>1 DEF db, Asked, Send, Start, Stop, Restart, Interrupt, ClearContext,
      KillIfOauthShaped, ResumeTurns, Request, PauseTurns, Shutdown, Renew, WedgeCheck,
      ParkTakes, Crash, Reboot, WindowOpens
    <2> QED BY <1>a, <2>1, EnqueuedIsUntold
  <1>2. ASSUME NEW t \in Threads, Works(t) PROVE Tells(m)
    <2>1. CASE PumpAdvances(t)
      BY <1>0, <2>1, ClaimsAfter DEF PumpAdvances, Tells
    <2>2. CASE ComeBack(t)
      BY <1>0, <2>2, ClaimsAfter DEF ComeBack, Tells
    <2>3. CASE Reopen(t)
      BY <1>a, <2>3, EnqueuedIsUntold DEF Reopen
    <2>4. CASE ShutdownMarks(t)
      BY <1>0, <2>4, ClaimsAfter DEF ShutdownMarks, Tells
    <2>5. CASE ~PumpAdvances(t) /\ ~ComeBack(t) /\ ~Reopen(t) /\ ~ShutdownMarks(t)
      BY <1>a, <1>2, <2>5 DEF db, Works, Deliver, StartLooks, StartRenews,
      StartRetakes, StartStopped, Spawn, PumpSkips, PumpWrites, NoteStop, TakeNothing,
      TakeAndKill, Stopped, Overspent, StayDown, Recycle, Adopt, Parks, Wedged,
      LiftSwaps, LiftOpens, DrainEnds, ShutdownKills, Exit, Reboot, Boot
    <2> QED BY <2>1, <2>2, <2>3, <2>4, <2>5
  <1>3. ASSUME NEW t \in Threads, Fails(t) PROVE Tells(m)
    <2>1. ASSUME NEW aged \in BOOLEAN, PumpQuarantines(t, aged) PROVE Tells(m)
      <3> DEFINE S == NextForDelivery(row, slot.consec, aged)
      <3>1. row' = ClaimNotification(Quarantine(row, S), S) /\ S \subseteq Queued(row)
        BY <2>1, PicksFromTheQueue DEF PumpQuarantines
      <3>2. m \notin S => row'[m] = row[m]
        BY <3>1 DEF ClaimNotification, Quarantine, Update
      <3>3. m \in S => row[m].state = "queued" /\ row[m] \in Row
        BY <1>0, <3>1 DEF Queued, InState, WellFormed, Bounded
      <3> HIDE DEF S
      <3>4. m \in S => row'[m].state = "undeliverable"
        BY <3>1, <3>3 DEF ClaimNotification, Quarantine, Update, Absent, InState,
        QuarantineRow, ClaimRow, Row
      <3> QED BY <3>2, <3>4 DEF Tells, Final
    <2>2. CASE StartRefused(t) \/ SpawnFails(t)
      BY <1>a, <2>2 DEF StartRefused, SpawnFails
    <2> QED BY <1>3, <2>1, <2>2 DEF Fails
  <1>4. ASSUME NEW r \in Runs, Reads(r) \/ ReaderFails(r) PROVE Tells(m)
    <2>0. r \in Threads /\ loc[r].msgs \in SUBSET Msgs
      BY HandsAreMessages DEF Threads
    <2>1. CASE Settle(r) \/ SettleOverBudget(r)
      <3>1. pc[r] = "settle" /\ row' = SettledRows(loc[r].kind, loc[r].msgs)
        BY <2>1 DEF Settle, SettleOverBudget, At
      <3>2. m \in loc[r].msgs => row[m].state = "delivered"
        BY <2>0, <3>1 DEF Kept, Custody, Hand
      <3> QED BY <1>0, <2>0, <3>1, <3>2, SettledAfter DEF Tells, Final
    <2>2. CASE Limited(r) \/ LimitedOverBudget(r)
      BY <1>0, <2>0, <2>2, LimitedAfter DEF Limited, LimitedOverBudget, Tells, Final
    <2>3. CASE \E v \in Statuses : ReapSettles(r, v)
      BY <2>0, <2>3 DEF ReapSettles, At, Kept, SlotLives
    <2>4. CASE /\ ~Settle(r) /\ ~SettleOverBudget(r) /\ ~Limited(r)
               /\ ~LimitedOverBudget(r) /\ \A v \in Statuses : ~ReapSettles(r, v)
      BY <1>a, <1>4, <2>4 DEF db, Reads, ReadInit, ReadResult, Recover, HaltTakes,
      HaltKills, Reap, ReapLooks, ReaderFails, RecoverRenews, ChildDies
    <2> QED BY <2>1, <2>2, <2>3, <2>4
  <1>5. ASSUME NEW r \in Runs, ChildInits(r) \/ \E e \in Ends : ChildEndsTurn(r, e)
        PROVE  Tells(m)
    BY <1>a, <1>5 DEF ChildInits, ChildEndsTurn, db
  <1>6. CASE Rest
    BY <1>a, <1>6 DEF Rest, vars, db
  <1> QED
    BY <1>1, <1>2, <1>3, <1>4, <1>5, <1>6 DEF Next

\* While no harness process dies by itself, a sender hears of a message only when the
\* message has settled for good: a stop, a limit, a shutdown, a crash or a recycle
\* that races the turn cannot put back what was already announced.  A process that
\* dies on its own can: reap requeues every delivered row of the agent.
THEOREM SendersHearOnlyOfSettled ==
  ASSUME "die" \notin Ops
  PROVE  Spec => []NotifiedOnlyWhenSettled
  <1>1. Init => NotifiedOnlyWhenSettled
    BY DEF Init, NotifiedOnlyWhenSettled, NoRow
  <1>2. ASSUME TypeOK, Kept, NotifiedOnlyWhenSettled, [Next]_vars
        PROVE  NotifiedOnlyWhenSettled'
    <2>1. CASE Next
      <3> SUFFICES ASSUME NEW m \in Msgs, row'[m].notify = 2
                   PROVE  row'[m].state \in Final
        BY DEF NotifiedOnlyWhenSettled, Final
      <3>1. row'[m].state \in Final \/ row[m].state \in Final
        BY <1>2, <2>1, StepsTell DEF Tells, NotifiedOnlyWhenSettled, Final
      <3>2. Legal(row[m], row'[m])
        BY <1>2, <2>1, RowsStep DEF LegalStep
      <3> QED BY <3>1, <3>2 DEF Legal, Moves, Final
    <2>2. CASE UNCHANGED vars
      BY <1>2, <2>2 DEF vars, db, NotifiedOnlyWhenSettled
    <2> QED BY <1>2, <2>1, <2>2
  <1> QED
    BY <1>1, <1>2, CustodyAlways, TypeCorrect, PTL
    DEF Spec

-----------------------------------------------------------------------------
(* Nothing is lost while nothing takes the slot and leaves its turn unsettled. *)

\* stop, clear_context, the operator's kill, a park, a limit, a budget, a refused
\* login, a shutdown and a crash each leave a delivered message to a later boot,
\* start or operator.
Leaving == {"stop", "restart", "clear", "oauth", "budget", "auth", "limit", "park",
            "crash", "shutdown"}

Undisturbed == Ops \cap Leaving = {} /\ ~Ephemeral

QuietPoints ==
  {"unborn", "free", "boot", "deliver", "start", "creds", "retake", "spawning", "pump",
   "writing", "take", "taken", "recycle", "adopt", "wedged", "reopen", "lift", "open",
   "read", "settle", "reap", "reaped", "gone"}

QuietEvent == [ev : {"init", "ok", "error"}, sess : Sessions]

\* The code such an engine can reach.
Quiet ==
  /\ parkTimer = FALSE
  /\ \A t \in Threads :
       /\ pc[t] \in QuietPoints
       /\ pc[t] \in {"take", "taken"} => loc[t].op \in {"interrupt", "recycle"}
       /\ pc[t] = "settle" => loc[t].kind \in {"ok", "error"}
  /\ \A r \in Runs : pipe[r] \in Seq(QuietEvent)

\* A slot without a process holds no turn, and no turn is written over another.
SlotInOrder ==
  /\ slot.run = 0 => slot.inFlight = {}
  /\ \A t \in Threads : pc[t] = "writing" => slot.run # 0 /\ slot.inFlight = {}

\* Where thread t may go next.
StaysQuiet(t) ==
  /\ parkTimer' = FALSE
  /\ pc'[t] \in QuietPoints
  /\ pc'[t] \in {"take", "taken"} => loc'[t].op \in {"interrupt", "recycle"}
  /\ pc'[t] = "settle" => loc'[t].kind \in {"ok", "error"}
  /\ \A r \in Runs : pipe'[r] \in Seq(QuietEvent)

LEMMA CalmKeepsQuiet ==
  ASSUME Quiet, NEW t \in Threads, OnlyMoves(t), StaysQuiet(t)
  PROVE  Quiet'
  BY DEF Quiet, OnlyMoves, StaysQuiet

LEMMA QuietPipes ==
  ASSUME Quiet, NEW r \in Runs
  PROVE  /\ pipe[r] \in Seq(QuietEvent) /\ <<>> \in Seq(QuietEvent)
         /\ pipe[r] # <<>> => /\ Head(pipe[r]) \in QuietEvent
                              /\ Tail(pipe[r]) \in Seq(QuietEvent)
  BY HeadTailProperties DEF Quiet

LEMMA KillsQuietly ==
  ASSUME Quiet, NEW S, Kill(S)
  PROVE  \A r \in Runs : pipe'[r] \in Seq(QuietEvent)
  BY QuietPipes DEF Kill

\* An engine left alone is not asked for what leaves a turn unsettled.
LEMMA AskedStaysQuiet ==
  ASSUME TypeOK, Undisturbed, Quiet, NEW t \in Tasks, Asked(t) \/ WindowOpens(t)
  PROVE  StaysQuiet(t) /\ ~Crash(t)
  <1>0. t \in Threads
    BY DEF Threads
  <1>1. /\ ~Stop(t) /\ ~Restart(t) /\ ~ClearContext(t) /\ ~KillIfOauthShaped(t)
        /\ ~Shutdown(t) /\ ~ParkTakes(t) /\ ~Crash(t)
    BY DEF Undisturbed, Leaving, Quiet, Stop, Restart, ClearContext, KillIfOauthShaped,
    Shutdown, ParkTakes, Crash, Request, Spend
  <1>2. pipe' = pipe /\ parkTimer' = parkTimer
    BY <1>1 DEF harness, memory, Asked, Send, Start, Interrupt, ResumeTurns, Request,
    PauseTurns, Renew, WedgeCheck, WindowOpens
  <1>3. /\ pc'[t] \in QuietPoints /\ pc'[t] # "settle" /\ pc'[t] # "taken"
        /\ pc'[t] = "take" => loc'[t].op = "interrupt"
    BY <1>0, <1>1, NoLocOK DEF QuietPoints, TypeOK, ThreadsOK, threads, At, Goto, Keep,
    LocType, Asked, Send, Start, Interrupt, ResumeTurns, Request, PauseTurns, Renew,
    WedgeCheck, WindowOpens
  <1> QED BY <1>1, <1>2, <1>3 DEF StaysQuiet, Quiet

LEMMA FailsStaysQuiet ==
  ASSUME TypeOK, Quiet, NEW t \in Threads, Fails(t)
  PROVE  StaysQuiet(t)
  <1>1. pipe' = pipe /\ parkTimer' = parkTimer
    BY DEF harness, memory, Fails, StartRefused, SpawnFails, PumpQuarantines
  <1>2. pc'[t] \in {"deliver", "pump", "read", "free"}
    BY DEF Fails, StartRefused, SpawnFails, PumpQuarantines, AfterStart, Finish, Goto,
    TypeOK, ThreadsOK
  <1> QED BY <1>1, <1>2 DEF StaysQuiet, Quiet, QuietPoints

LEMMA WorksStaysQuiet ==
  ASSUME TypeOK, Quiet, NEW t \in Threads, Works(t), \A r \in Runs : ~Spawn(t, r)
  PROVE  StaysQuiet(t) /\ ~Exit(t)
  <1>1. /\ ~NoteStop(t) /\ ~Stopped(t) /\ ~Overspent(t) /\ ~StayDown(t) /\ ~Parks(t)
        /\ ~DrainEnds(t) /\ ~ShutdownMarks(t) /\ ~ShutdownKills(t) /\ ~Exit(t)
    BY DEF Quiet, QuietPoints, At, NoteStop, Stopped, Overspent, StayDown, Parks,
    DrainEnds, ShutdownMarks, ShutdownKills, Exit
  <1>2. parkTimer' = FALSE /\ \A r \in Runs : pipe'[r] \in Seq(QuietEvent)
    <2>1. CASE TakeAndKill(t)
      BY <2>1, KillsQuietly DEF TakeAndKill, Quiet
    <2>2. CASE ~TakeAndKill(t)
      <3>1. pipe' = pipe /\ parkTimer' = parkTimer
        BY <1>1, <2>2 DEF harness, memory, Works, Deliver, StartLooks, StartRenews,
        StartRetakes, StartStopped, PumpSkips, PumpWrites, PumpAdvances, TakeNothing,
        ComeBack, Recycle, Adopt, Wedged, Reopen, LiftSwaps, LiftOpens, Boot
      <3> QED BY <3>1 DEF Quiet
    <2> QED BY <2>1, <2>2
  <1>3. CASE TakeAndKill(t)
    <2>1. pc[t] = "take" /\ loc'[t].op = loc[t].op
      BY <1>3, LocOK DEF TakeAndKill, At, Keep, TypeOK, ThreadsOK, LocType
    <2>2. pc'[t] = "taken" /\ loc[t].op \in {"interrupt", "recycle"}
      BY <1>3, <2>1 DEF TakeAndKill, Goto, Quiet, Stops, TypeOK, ThreadsOK
    <2> QED BY <1>1, <1>2, <2>1, <2>2 DEF StaysQuiet, QuietPoints
  <1>4. CASE Recycle(t)
    BY <1>1, <1>2, <1>4, LocOK DEF Recycle, Finish, Goto, Keep, StaysQuiet, QuietPoints,
    TypeOK, ThreadsOK, LocType
  <1>5. CASE \/ Deliver(t) \/ StartLooks(t) \/ StartRenews(t) \/ StartRetakes(t)
             \/ PumpSkips(t) \/ (\E aged \in BOOLEAN : PumpWrites(t, aged))
             \/ PumpAdvances(t) \/ TakeNothing(t) \/ StartStopped(t)
    <2>1. pc'[t] \in {"start", "pump", "read", "free", "creds", "retake", "spawning",
                      "deliver", "writing"}
      BY <1>5 DEF Deliver, StartLooks, StartRenews, StartRetakes, StartStopped, PumpSkips,
      PumpWrites, PumpAdvances, TakeNothing, AfterStart, Finish, Goto, TypeOK, ThreadsOK
    <2> QED BY <1>1, <1>2, <2>1 DEF StaysQuiet, QuietPoints
  <1>6. CASE \/ ComeBack(t) \/ Adopt(t) \/ Wedged(t) \/ Reopen(t) \/ LiftSwaps(t)
             \/ LiftOpens(t) \/ Boot(t)
    <2>1. pc'[t] \in {"deliver", "recycle", "read", "free", "open"}
      BY <1>6 DEF ComeBack, Adopt, Wedged, Reopen, LiftSwaps, LiftOpens, Boot, Redeliver,
      Finish, Goto, TypeOK, ThreadsOK
    <2> QED BY <1>1, <1>2, <2>1 DEF StaysQuiet, QuietPoints
  <1> QED BY <1>1, <1>3, <1>4, <1>5, <1>6, Zenon DEF Works

LEMMA ReadsStaysQuiet ==
  ASSUME TypeOK, Undisturbed, Quiet, NEW r \in Runs, Reads(r) \/ ReaderFails(r)
  PROVE  StaysQuiet(r)
  <1>0. r \in Threads
    BY DEF Threads
  <1>1. /\ ~Recover(r) /\ ~Limited(r) /\ ~HaltTakes(r) /\ ~HaltKills(r)
        /\ ~SettleOverBudget(r) /\ ~LimitedOverBudget(r) /\ ~RecoverRenews(r)
    BY <1>0 DEF Undisturbed, Leaving, Quiet, QuietPoints, At, Spend, Recover, Limited,
    HaltTakes, HaltKills, SettleOverBudget, LimitedOverBudget, RecoverRenews
  <1>2. CASE ReadInit(r)
    <2>1. parkTimer' = parkTimer /\ pc'[r] = "pump"
      BY <1>0, <1>2 DEF ReadInit, Goto, TypeOK, ThreadsOK
    <2>2. pipe[r] # <<>> /\ pipe' = [pipe EXCEPT ![r] = Tail(pipe[r])]
      BY <1>2 DEF ReadInit
    <2>3. \A q \in Runs : pipe'[q] \in Seq(QuietEvent)
      BY <2>2, QuietPipes DEF TypeOK, HarnessOK
    <2> QED BY <2>1, <2>3 DEF StaysQuiet, Quiet, QuietPoints
  <1>3. CASE ReadResult(r)
    <2>1. parkTimer' = parkTimer /\ pc[r] = "read"
      BY <1>3 DEF ReadResult, At
    <2>2. pipe[r] # <<>> /\ pipe' = [pipe EXCEPT ![r] = Tail(pipe[r])]
      BY <1>3 DEF ReadResult
    <2>3. \A q \in Runs : pipe'[q] \in Seq(QuietEvent)
      BY <2>2, QuietPipes DEF TypeOK, HarnessOK
    <2>4. Head(pipe[r]).ev \in {"ok", "error"}
      BY <1>3, <2>2, QuietPipes DEF ReadResult, QuietEvent
    <2>5. \/ pc'[r] = "settle" /\ loc'[r].kind \in {"ok", "error"}
          \/ pc'[r] = "read"
      <3>1. CASE Matches(Head(pipe[r]))
        <4>1. pc'[r] = "settle"
          BY <1>0, <1>3, <2>4, <3>1 DEF ReadResult, Goto, TypeOK, ThreadsOK
        <4>2. loc'[r].kind = Head(pipe[r]).ev
          <5>1. loc' = [loc EXCEPT ![r] = [loc[r] EXCEPT
                          !.msgs = slot.inFlight, !.kind = Head(pipe[r]).ev,
                          !.run = slot.run, !.gen = slot.gen,
                          !.onFallback = slot.onFallback]]
            BY <1>3, <3>1 DEF ReadResult, Keep
          <5>2. loc \in [Threads -> LocType]
            BY DEF TypeOK, ThreadsOK
          <5> QED BY <1>0, <5>1, <5>2 DEF LocType
        <4> QED BY <2>4, <4>1, <4>2
      <3>2. CASE ~Matches(Head(pipe[r]))
        BY <1>3, <2>1, <3>2 DEF ReadResult
      <3> QED BY <3>1, <3>2
    <2> QED BY <2>1, <2>3, <2>5 DEF StaysQuiet, Quiet, QuietPoints
  <1>4. CASE Settle(r)
    <2>1. pc[r] = "settle" /\ loc[r].kind \in {"ok", "error"} /\ pipe' = pipe
      BY <1>0, <1>4 DEF Settle, At, Quiet, harness
    <2>2. pc'[r] \in {"recycle", "pump"}
      BY <1>0, <1>4, <2>1 DEF Settle, Goto, Undisturbed, TypeOK, ThreadsOK
    <2>3. parkTimer' = parkTimer \/ parkTimer' = ("park" \in Ops)
      BY <1>4, <2>1 DEF Settle, Undisturbed
    <2>4. ("park" \in Ops) = FALSE
      BY DEF Undisturbed, Leaving
    <2>5. parkTimer' = FALSE
      <3>1. parkTimer = FALSE
        BY DEF Quiet
      <3> QED BY <2>3, <2>4, <3>1
    <2> QED BY <2>1, <2>2, <2>5 DEF StaysQuiet, Quiet, QuietPoints
  <1>5. CASE Reap(r) \/ ReapLooks(r) \/ \E v \in Statuses : ReapSettles(r, v)
    <2>1. pipe' = pipe /\ parkTimer' = parkTimer /\ pc'[r] \in {"reap", "reaped", "gone"}
      BY <1>0, <1>5 DEF Reap, ReapLooks, ReapSettles, harness, memory, Goto, TypeOK,
      ThreadsOK
    <2> QED BY <2>1 DEF StaysQuiet, Quiet, QuietPoints
  <1>6. CASE ChildDies(r)
    <2>1. pipe' = pipe /\ parkTimer' = parkTimer /\ pc' = pc /\ loc' = loc
      BY <1>6 DEF ChildDies, threads, memory
    <2> QED BY <1>0, <2>1 DEF StaysQuiet, Quiet
  <1> QED
    BY <1>1, <1>2, <1>3, <1>4, <1>5, <1>6, Zenon DEF Reads, ReaderFails

LEMMA ChildStaysQuiet ==
  ASSUME TypeOK, Undisturbed, Quiet, NEW r \in Runs,
         ChildInits(r) \/ \E e \in Ends : ChildEndsTurn(r, e)
  PROVE  Quiet'
  <1>1. Ends \subseteq {"ok", "error"}
    BY DEF Ends, Undisturbed, Leaving
  <1>2. parkTimer' = parkTimer /\ pc' = pc /\ loc' = loc
    BY DEF ChildInits, ChildEndsTurn, memory, threads
  <1>3. PICK e \in {"init", "ok", "error"} : Says(r, e)
    BY <1>1 DEF ChildInits, ChildEndsTurn
  <1>4. [ev |-> e, sess |-> child[r].sess] \in QuietEvent
    BY PipeOK DEF QuietEvent, ChildType, TypeOK
  <1>5. \A q \in Runs : pipe'[q] \in Seq(QuietEvent)
    BY <1>3, <1>4, QuietPipes DEF Says, TypeOK, HarnessOK
  <1> QED BY <1>2, <1>5 DEF Quiet

LEMMA SpawnKeepsQuiet ==
  ASSUME TypeOK, Quiet, NEW t \in Threads, NEW r \in Runs, Spawn(t, r)
  PROVE  Quiet'
  <1>1. t # r /\ r \in Threads /\ parkTimer' = parkTimer /\ pipe' = pipe
    BY DEF Spawn, At, Threads
  <1>2. /\ pc'[t] \in {"deliver", "pump"} /\ pc'[r] = "read"
        /\ \A u \in Threads \ {t, r} : pc'[u] = pc[u]
        /\ \A u \in Threads \ {t} : loc'[u] = loc[u]
    BY <1>1 DEF Spawn, Keep, TypeOK, ThreadsOK
  <1>3. \A u \in Threads : pc'[u] \in {"deliver", "pump", "read"}
                            \/ (pc'[u] = pc[u] /\ loc'[u] = loc[u])
    BY <1>2
  <1> QED BY <1>1, <1>3 DEF Quiet, QuietPoints

LEMMA QuietAtFirst == Init => Quiet
  <1>1. <<>> \in Seq(QuietEvent)
    OBVIOUS
  <1> QED BY <1>1 DEF Init, Quiet, QuietPoints

LEMMA QuietNext ==
  ASSUME TypeOK, Undisturbed, Quiet, [Next]_vars
  PROVE  Quiet'
  <1>1. ASSUME NEW t \in Tasks, Asked(t) \/ WindowOpens(t) PROVE Quiet'
    <2>1. t \in Threads
      BY DEF Threads
    <2> QED BY <1>1, <2>1, AskedStaysQuiet, AskedIsCalm, CalmKeepsQuiet DEF Calm
  <1>2. ASSUME NEW t \in Threads, Works(t) PROVE Quiet'
    <2>1. ASSUME NEW r \in Runs, Spawn(t, r) PROVE Quiet'
      BY <2>1, SpawnKeepsQuiet
    <2>2. CASE \A r \in Runs : ~Spawn(t, r)
      BY <1>2, <2>2, WorksStaysQuiet, WorksOnlyMoves, CalmKeepsQuiet
    <2> QED BY <2>1, <2>2
  <1>3. ASSUME NEW t \in Threads, Fails(t) PROVE Quiet'
    BY <1>3, FailsStaysQuiet, FailsIsCalm, CalmKeepsQuiet DEF Calm
  <1>4. ASSUME NEW r \in Runs, Reads(r) \/ ReaderFails(r) PROVE Quiet'
    BY <1>4, ReadsStaysQuiet, ReadsIsCalm, CalmKeepsQuiet DEF Calm, Threads
  <1>5. ASSUME NEW r \in Runs, ChildInits(r) \/ \E e \in Ends : ChildEndsTurn(r, e)
        PROVE  Quiet'
    BY <1>5, ChildStaysQuiet
  <1>6. CASE UNCHANGED vars
    BY <1>6 DEF vars, memory, harness, threads, Quiet
  <1> QED
    BY <1>1, <1>2, <1>3, <1>4, <1>5, <1>6 DEF Next, Rest

-----------------------------------------------------------------------------

\* What thread t may do to a delivered message: it delivers what it puts in the slot,
\* and what it takes out it settles, at once or with its next steps.
Accounts(t) ==
  /\ \A m \in Msgs : row'[m].state = "delivered" =>
       /\ row[m].state = "delivered" \/ m \in slot'.inFlight
       /\ m \in slot.inFlight \/ Settles(t, m) => m \in slot'.inFlight \/ Settles(t, m)'
  /\ slot'.run = 0 => slot'.inFlight = {}
  /\ pc'[t] = "writing" => slot'.run # 0 /\ slot'.inFlight = {}
  /\ slot' = slot \/ LockFree \/ pc[t] = "writing"

Accounted == SlotInOrder /\ NothingIsLost

LEMMA CalmKeepsAccounts ==
  ASSUME LockOK, Accounted, NEW t \in Threads, OnlyMoves(t), Accounts(t)
  PROVE  Accounted'
  <1>1. \A u \in Threads \ {t} : pc[u] = "writing" => ~LockFree /\ pc[t] # "writing"
    BY DEF LockOK, LockFree, Holding
  <1>2. SlotInOrder'
    BY <1>1 DEF Accounted, SlotInOrder, Accounts, OnlyMoves
  <1>3. ASSUME NEW m \in Msgs, row'[m].state = "delivered"
        PROVE  m \in slot'.inFlight \/ \E u \in Threads : Settles(u, m)'
    <2>1. CASE m \notin slot'.inFlight
      <3>1. m \in slot.inFlight \/ \E u \in Threads : Settles(u, m)
        BY <1>3, <2>1 DEF Accounts, Accounted, NothingIsLost
      <3>2. CASE m \in slot.inFlight \/ Settles(t, m)
        BY <1>3, <3>2 DEF Accounts
      <3>3. ASSUME NEW u \in Threads \ {t}, Settles(u, m) PROVE Settles(u, m)'
        BY <3>3 DEF Settles, OnlyMoves
      <3> QED BY <3>1, <3>2, <3>3
    <2> QED BY <2>1
  <1>4. NothingIsLost'
    BY <1>3 DEF NothingIsLost
  <1> QED BY <1>2, <1>4 DEF Accounted

LEMMA IdleAccounts ==
  ASSUME Accounted, NEW t \in Threads, slot' = slot, pc'[t] # "writing",
         \A m \in Msgs : row'[m] = row[m] \/ row'[m].state # "delivered",
         \A m \in Msgs : Settles(t, m) => row'[m].state # "delivered"
  PROVE  Accounts(t)
  BY DEF Accounts, Accounted, SlotInOrder

\* No statement but advance makes a row delivered, and none that settles leaves it so.
LEMMA NotDeliveredAfter ==
  ASSUME WellFormed(row), NEW S, NEW m \in Msgs
  PROVE  /\ \A new \in {MarkError(row, S), RequeueUndelivered(row, S)} :
              /\ new[m] = row[m] \/ new[m].state # "delivered"
              /\ m \in S => new[m].state # "delivered"
         /\ \A kind : /\ \/ SettledRows(kind, S)[m] = row[m]
                         \/ SettledRows(kind, S)[m].state # "delivered"
                      /\ m \in S => SettledRows(kind, S)[m].state # "delivered"
         /\ ConsumeAllDeliveredAsInterrupted(row)[m].state # "delivered"
         /\ RequeueAllUndelivered(row)[m].state # "delivered"
  <1>0. row[m] \in Row
    BY DEF WellFormed, Bounded
  <1>1. /\ \A new \in {Complete(row, S), MarkError(row, S), RequeueUndelivered(row, S)} :
             /\ m \notin S => new[m] = row[m]
             /\ m \in S => new[m].state # "delivered"
        /\ ConsumeAllDeliveredAsInterrupted(row)[m].state # "delivered"
        /\ RequeueAllUndelivered(row)[m].state # "delivered"
    BY <1>0 DEF Row, Complete, MarkError, RequeueUndelivered, RequeueAllUndelivered,
    ConsumeAllDeliveredAsInterrupted, Update, Absent, InState, CompleteRow, MarkErrorRow,
    RequeueRow, InterruptRow, Advance, CanAdvance
  <1>2. ASSUME NEW kind
        PROVE  /\ m \notin S => SettledRows(kind, S)[m] = row[m]
               /\ m \in S => SettledRows(kind, S)[m].state # "delivered"
    <2>1. PICK new \in {Complete(row, S), MarkError(row, S), RequeueUndelivered(row, S)} :
            SettledRows(kind, S) \in {new, ClaimNotification(new, S)}
      BY DEF SettledRows
    <2>2. WellFormed(new)
      BY AdvancesLegally, RequeuesLegally DEF LegalStep
    <2>3. /\ m \notin S => ClaimNotification(new, S)[m] = new[m]
          /\ ClaimNotification(new, S)[m].state = new[m].state
      BY <2>2, StatesAfter
    <2> QED BY <1>1, <2>1, <2>3
  <1> QED BY <1>1, <1>2

LEMMA EnqueuesQueued ==
  ASSUME TypeOK, NEW n \in Absent(row), row' = Enqueue(row, n), NEW m \in Msgs
  PROVE  row'[m] = row[m] \/ row'[m].state # "delivered"
  BY DEF TypeOK, RowsOK, Enqueue

LEMMA AskedAccounts ==
  ASSUME TypeOK, Undisturbed, Quiet, Accounted,
         NEW t \in Tasks, Asked(t) \/ WindowOpens(t)
  PROVE  Accounts(t)
  <1>0. t \in Threads
    BY DEF Threads
  <1>1. ~ParkTakes(t) /\ ~Crash(t) /\ ~Shutdown(t)
    BY DEF Undisturbed, Leaving, Quiet, ParkTakes, Crash, Shutdown, Spend
  <1>2. slot' = slot /\ pc[t] = "free" /\ pc'[t] # "writing"
    BY <1>0, <1>1 DEF TypeOK, ThreadsOK, threads, memory, At, Goto, Asked, Send, Start,
    Stop, Restart, Interrupt, ClearContext, KillIfOauthShaped, ResumeTurns, Request,
    PauseTurns, Renew, WedgeCheck, WindowOpens
  <1>3. \A m \in Msgs : row'[m] = row[m] \/ row'[m].state # "delivered"
    <2>1. (\E n \in Absent(row) : row' = Enqueue(row, n)) \/ row' = row
      BY <1>1 DEF db, Asked, Send, Start, Stop, Restart, Interrupt, ClearContext,
      KillIfOauthShaped, ResumeTurns, Request, PauseTurns, Renew, WedgeCheck, WindowOpens
    <2> QED BY <2>1, EnqueuesQueued
  <1> QED BY <1>0, <1>2, <1>3, IdleAccounts DEF Settles

LEMMA FailsAccounts ==
  ASSUME TypeOK, Accounted, NEW t \in Threads, Fails(t)
  PROVE  Accounts(t)
  <1>1. pc'[t] # "writing" /\ slot' = slot /\ \A m \in Msgs : ~Settles(t, m)
    BY DEF Settles, TypeOK, ThreadsOK, memory, At, Goto, Fails, StartRefused, SpawnFails,
    PumpQuarantines, Finish, AfterStart
  <1>2. \A m \in Msgs : row'[m] = row[m] \/ row'[m].state # "delivered"
    <2>1. ASSUME NEW aged \in BOOLEAN, PumpQuarantines(t, aged), NEW m \in Msgs
          PROVE  row'[m] = row[m] \/ row'[m].state # "delivered"
      <3> DEFINE S == NextForDelivery(row, slot.consec, aged)
      <3>1. row' = ClaimNotification(Quarantine(row, S), S) /\ S \subseteq Queued(row)
        BY <2>1, PicksFromTheQueue DEF PumpQuarantines
      <3>2. m \notin S => row'[m] = row[m]
        BY <3>1 DEF ClaimNotification, Quarantine, Update
      <3>3. m \in S => row[m].state = "queued" /\ row[m] \in Row
        BY <3>1 DEF Queued, InState, TypeOK, RowsOK
      <3> HIDE DEF S
      <3>4. m \in S => row'[m].state = "undeliverable"
        BY <3>1, <3>3 DEF ClaimNotification, Quarantine, Update, Absent, InState,
        QuarantineRow, ClaimRow, Row
      <3> QED BY <3>2, <3>4
    <2>2. CASE StartRefused(t) \/ SpawnFails(t)
      BY <2>2 DEF StartRefused, SpawnFails
    <2> QED BY <2>1, <2>2 DEF Fails
  <1> QED BY <1>1, <1>2, IdleAccounts

LEMMA WorksAccounts ==
  ASSUME TypeOK, Quiet, Accounted, NEW t \in Threads, Works(t),
         \A r \in Runs : ~Spawn(t, r)
  PROVE  Accounts(t)
  <1>0. WellFormed(row) /\ loc[t].msgs \in SUBSET Msgs
    BY RowsAreWellFormed, HandsAreMessages
  <1>1. /\ ~NoteStop(t) /\ ~Stopped(t) /\ ~Overspent(t) /\ ~StayDown(t) /\ ~Parks(t)
        /\ ~DrainEnds(t) /\ ~ShutdownMarks(t) /\ ~ShutdownKills(t) /\ ~Exit(t)
    BY DEF Quiet, QuietPoints, At, NoteStop, Stopped, Overspent, StayDown, Parks,
    DrainEnds, ShutdownMarks, ShutdownKills, Exit
  <1>2. CASE \/ Deliver(t) \/ StartLooks(t) \/ StartRenews(t) \/ StartRetakes(t)
             \/ StartStopped(t) \/ PumpSkips(t) \/ TakeNothing(t) \/ Recycle(t)
             \/ Adopt(t) \/ Wedged(t) \/ LiftSwaps(t) \/ LiftOpens(t) \/ Boot(t)
    <2>1. row' = row /\ slot' = slot
      BY <1>2 DEF db, memory, Deliver, StartLooks, StartRenews, StartRetakes,
      StartStopped, PumpSkips, TakeNothing, Recycle, Adopt, Wedged, LiftSwaps,
      LiftOpens, Boot
    <2>2. pc'[t] # "writing" /\ \A m \in Msgs : ~Settles(t, m)
      BY <1>2 DEF Settles, TypeOK, ThreadsOK, threads, At, Goto, Finish, AfterStart,
      Deliver, StartLooks, StartRenews, StartRetakes, StartStopped, PumpSkips,
      TakeNothing, Recycle, Adopt, Wedged, LiftSwaps, LiftOpens, Boot
    <2> QED BY <2>1, <2>2, IdleAccounts
  <1>3. CASE Reopen(t)
    <2>1. slot' = slot /\ pc'[t] # "writing" /\ \A m \in Msgs : ~Settles(t, m)
      BY <1>3 DEF Settles, TypeOK, ThreadsOK, memory, At, Goto, Reopen
    <2>2. \A m \in Msgs : row'[m] = row[m] \/ row'[m].state # "delivered"
      BY <1>3, EnqueuesQueued DEF Reopen
    <2> QED BY <2>1, <2>2, IdleAccounts
  <1>4. ASSUME NEW aged \in BOOLEAN, PumpWrites(t, aged) PROVE Accounts(t)
    BY <1>4 DEF PumpWrites, CanPump, db, memory, At, Settles, Accounts, Accounted,
    SlotInOrder
  <1>5. CASE PumpAdvances(t)
    <2>1. /\ pc[t] = "writing" /\ slot'.inFlight = loc[t].msgs /\ slot'.run = slot.run
          /\ row' = MarkDelivered(row, loc[t].msgs)
      BY <1>5 DEF PumpAdvances, At, TypeOK, MemoryOK, SlotType
    <2>2. pc'[t] # "writing" /\ slot.run # 0 /\ slot.inFlight = {}
      BY <1>5, <2>1 DEF PumpAdvances, Finish, Goto, TypeOK, ThreadsOK, Accounted,
      SlotInOrder
    <2>3. \A m \in Msgs : m \notin loc[t].msgs => row'[m] = row[m]
      BY <1>0, <2>1, StatesAfter
    <2> QED BY <1>0, <2>1, <2>2, <2>3 DEF Accounts, Settles
  <1>6. CASE TakeAndKill(t)
    <2>1. /\ row' = row /\ LockFree /\ slot'.run = 0 /\ slot'.inFlight = {}
          /\ pc[t] = "take" /\ loc'[t].msgs = slot.inFlight
      BY <1>6, LocOK DEF TakeAndKill, At, EmptySlot, db, Keep, TypeOK, ThreadsOK, LocType
    <2>2. pc'[t] = "taken"
      BY <1>6, <2>1 DEF TakeAndKill, Goto, Quiet, Stops, TypeOK, ThreadsOK
    <2> QED BY <2>1, <2>2 DEF Accounts, Settles
  <1>7. CASE ComeBack(t)
    <2>1. /\ pc[t] = "taken" /\ slot' = slot /\ pc'[t] = "deliver"
          /\ loc[t].op = "interrupt" => row' = MarkError(row, loc[t].msgs)
          /\ loc[t].op = "recycle" => row' = RequeueUndelivered(row, loc[t].msgs)
      BY <1>7 DEF ComeBack, At, Redeliver, Goto, memory, TypeOK, ThreadsOK
    <2>2. loc[t].op \in {"interrupt", "recycle"}
      BY <2>1 DEF Quiet
    <2>3. ASSUME NEW m \in Msgs
          PROVE  /\ row'[m] = row[m] \/ row'[m].state # "delivered"
                 /\ m \in loc[t].msgs => row'[m].state # "delivered"
      BY <1>0, <2>1, <2>2, NotDeliveredAfter
    <2> QED BY <2>1, <2>3, IdleAccounts DEF Settles
  <1> QED
    BY <1>1, <1>2, <1>3, <1>4, <1>5, <1>6, <1>7, Zenon DEF Works

LEMMA ReadsAccounts ==
  ASSUME TypeOK, Undisturbed, Quiet, Accounted, NEW r \in Runs, Reads(r) \/ ReaderFails(r)
  PROVE  Accounts(r)
  <1>0. r \in Threads /\ WellFormed(row) /\ loc[r].msgs \in SUBSET Msgs
    BY RowsAreWellFormed, HandsAreMessages DEF Threads
  <1>1. /\ ~Recover(r) /\ ~Limited(r) /\ ~HaltTakes(r) /\ ~HaltKills(r)
        /\ ~SettleOverBudget(r) /\ ~LimitedOverBudget(r) /\ ~RecoverRenews(r)
    BY <1>0 DEF Undisturbed, Leaving, Quiet, QuietPoints, At, Spend, Recover, Limited,
    HaltTakes, HaltKills, SettleOverBudget, LimitedOverBudget, RecoverRenews
  <1>2. CASE ReadInit(r)
    <2>1. /\ row' = row /\ LockFree /\ slot'.run = slot.run /\ pc[r] = "read"
          /\ slot'.inFlight = slot.inFlight
      BY <1>2 DEF ReadInit, At, TypeOK, MemoryOK, SlotType
    <2>2. pc'[r] # "writing"
      BY <1>0, <1>2 DEF ReadInit, Goto, TypeOK, ThreadsOK
    <2> QED BY <2>1, <2>2 DEF Accounts, Settles, Accounted, SlotInOrder
  <1>3. CASE ReadResult(r)
    <2>1. row' = row /\ LockFree /\ pc[r] = "read"
      BY <1>3 DEF ReadResult, db, At
    <2>2. CASE Matches(Head(pipe[r]))
      <3>1. slot'.inFlight = {}
        BY <1>3, <2>2 DEF ReadResult, TypeOK, MemoryOK, SlotType
      <3>2. pc'[r] \in {"limited", "settle"} /\ loc'[r].msgs = slot.inFlight
        BY <1>0, <1>3, <2>2, LocOK DEF ReadResult, Goto, Keep, TypeOK, ThreadsOK, LocType
      <3> QED BY <2>1, <3>1, <3>2 DEF Accounts, Settles
    <2>3. CASE ~Matches(Head(pipe[r]))
      <3>1. slot' = slot /\ pc' = pc
        BY <1>3, <2>3 DEF ReadResult
      <3> QED BY <1>0, <2>1, <3>1, IdleAccounts DEF Settles
    <2> QED BY <2>2, <2>3
  <1>4. CASE Settle(r)
    <2>1. /\ pc[r] = "settle" /\ slot' = slot
          /\ row' = SettledRows(loc[r].kind, loc[r].msgs)
          /\ pc'[r] \in {"recover", "take", "recycle", "pump"}
      BY <1>0, <1>4 DEF Settle, At, Goto, memory, TypeOK, ThreadsOK
    <2>2. \A m \in Msgs : /\ row'[m] = row[m] \/ row'[m].state # "delivered"
                          /\ m \in loc[r].msgs => row'[m].state # "delivered"
      BY <1>0, <2>1, NotDeliveredAfter
    <2> QED BY <1>0, <2>1, <2>2, IdleAccounts DEF Settles
  <1>5. CASE Reap(r)
    <2>1. /\ row' = row /\ pc[r] = "read" /\ pc'[r] \in {"reap", "gone"}
          /\ \/ slot' = slot
             \/ LockFree /\ slot'.run = 0 /\ slot'.inFlight = {} /\ pc'[r] = "reap"
      BY <1>0, <1>5 DEF Reap, EmptySlot, At, db, Goto, TypeOK, ThreadsOK
    <2> QED BY <2>1 DEF Accounts, Settles, Accounted, SlotInOrder
  <1>6. CASE ReapLooks(r)
    <2>1. row' = row /\ slot' = slot /\ pc'[r] = "reaped"
      BY <1>0, <1>6 DEF ReapLooks, db, memory, Goto, TypeOK, ThreadsOK
    <2> QED BY <2>1 DEF Accounts, Settles, Accounted, SlotInOrder
  <1>7. CASE \E v \in Statuses : ReapSettles(r, v)
    <2>1. /\ slot' = slot /\ pc'[r] = "gone"
          /\ \/ row' = ConsumeAllDeliveredAsInterrupted(row)
             \/ row' = RequeueAllUndelivered(row)
      BY <1>0, <1>7 DEF ReapSettles, memory, Goto, TypeOK, ThreadsOK
    <2>2. \A m \in Msgs : row'[m].state # "delivered"
      BY <1>0, <2>1, NotDeliveredAfter
    <2> QED BY <1>0, <2>1, <2>2, IdleAccounts
  <1>8. CASE ChildDies(r)
    <2>1. row' = row /\ slot' = slot /\ pc' = pc /\ loc' = loc
      BY <1>8 DEF ChildDies, db, memory, threads
    <2> QED BY <1>0, <2>1 DEF Accounts, Settles, Accounted, SlotInOrder
  <1> QED
    BY <1>1, <1>2, <1>3, <1>4, <1>5, <1>6, <1>7, <1>8, Zenon DEF Reads, ReaderFails

LEMMA SpawnKeepsAccounts ==
  ASSUME TypeOK, LockOK, Accounted, NEW t \in Threads, NEW r \in Runs, Spawn(t, r)
  PROVE  Accounted'
  <1>1. /\ t # r /\ r \in Threads /\ pc[t] = "spawning" /\ pc[r] = "unborn"
        /\ row' = row /\ slot.inFlight = {}
    BY DEF Spawn, At, Threads, LockOK, Accounted, SlotInOrder
  <1>2. /\ pc'[t] \in {"deliver", "pump"} /\ pc'[r] = "read"
        /\ \A u \in Threads \ {t, r} : pc'[u] = pc[u]
        /\ \A u \in Threads \ {t} : loc'[u] = loc[u]
    BY <1>1 DEF Spawn, Keep, TypeOK, ThreadsOK
  <1>3. slot'.run = r /\ slot'.inFlight = {} /\ 0 \notin Runs
    BY SupervisorAssumption DEF Spawn, EmptySlot, Runs
  <1>4. SlotInOrder'
    BY <1>1, <1>2, <1>3 DEF SlotInOrder, Accounted
  <1>5. \A u \in Threads, m \in Msgs : Settles(u, m) => Settles(u, m)'
    BY <1>1, <1>2 DEF Settles
  <1>6. NothingIsLost'
    BY <1>1, <1>5 DEF NothingIsLost, Accounted
  <1> QED BY <1>4, <1>6 DEF Accounted

LEMMA AccountedNext ==
  ASSUME TypeOK, Safe, Undisturbed, Quiet, Accounted, [Next]_vars
  PROVE  Accounted'
  <1>0. ASSUME NEW t \in Threads, OnlyMoves(t), Accounts(t) PROVE Accounted'
    BY <1>0, CalmKeepsAccounts DEF Safe
  <1>1. ASSUME NEW t \in Tasks, Asked(t) \/ WindowOpens(t) PROVE Accounted'
    <2>1. t \in Threads
      BY DEF Threads
    <2> QED BY <1>0, <1>1, <2>1, AskedStaysQuiet, AskedIsCalm, AskedAccounts DEF Calm
  <1>2. ASSUME NEW t \in Threads, Works(t) PROVE Accounted'
    <2>1. ASSUME NEW r \in Runs, Spawn(t, r) PROVE Accounted'
      BY <2>1, SpawnKeepsAccounts DEF Safe
    <2>2. CASE \A r \in Runs : ~Spawn(t, r)
      BY <1>0, <1>2, <2>2, WorksStaysQuiet, WorksOnlyMoves, WorksAccounts
    <2> QED BY <2>1, <2>2
  <1>3. ASSUME NEW t \in Threads, Fails(t) PROVE Accounted'
    BY <1>0, <1>3, FailsIsCalm, FailsAccounts DEF Calm
  <1>4. ASSUME NEW r \in Runs, Reads(r) \/ ReaderFails(r) PROVE Accounted'
    BY <1>0, <1>4, ReadsIsCalm, ReadsAccounts DEF Calm, Threads
  <1>5. ASSUME NEW r \in Runs, ChildInits(r) \/ \E e \in Ends : ChildEndsTurn(r, e)
        PROVE  Accounted'
    BY <1>5 DEF ChildInits, ChildEndsTurn, db, memory, threads, Accounted, SlotInOrder,
    NothingIsLost, Settles
  <1>6. CASE UNCHANGED vars
    BY <1>6 DEF vars, db, memory, threads, Accounted, SlotInOrder, NothingIsLost, Settles
  <1> QED
    BY <1>1, <1>2, <1>3, <1>4, <1>5, <1>6 DEF Next, Rest

\* While nobody takes the slot and leaves its turn open (Leaving), a delivered message
\* is always in flight or about to be settled, through interrupts, recycles, renewals,
\* update pauses, failed starts and processes that die on their own.
THEOREM NothingIsLostUndisturbed ==
  ASSUME Undisturbed
  PROVE  Spec => []NothingIsLost
  <1>1. Init => Accounted
    BY DEF Init, Accounted, SlotInOrder, NothingIsLost, NoRow, EmptySlot
  <1>2. TypeOK /\ Quiet /\ [Next]_vars => Quiet'
    BY QuietNext
  <1>3. TypeOK /\ Safe /\ Quiet /\ Accounted /\ [Next]_vars => Accounted'
    BY AccountedNext
  <1>4. Accounted => NothingIsLost
    BY DEF Accounted
  <1> QED
    BY <1>1, <1>2, <1>3, <1>4, QuietAtFirst, TypeCorrect, SafeAtFirst, SafeNext, PTL
    DEF Spec

-----------------------------------------------------------------------------
(* Each turn once, while no process outlives its place in the slot. *)

\* A process that dies on its own has every delivered row put back; a usage limit and
\* a renewed login take the slot, and with it a turn they were not asked about; output
\* read from a process already killed settles the turn of the next; and a crash, or a
\* shutdown whose gate an update lifts, may end the engine after a message is written
\* and before its row says so.
Orderly ==
  /\ Ops \cap {"die", "limit", "renew", "crash"} = {}
  /\ ~({"shutdown", "resume_turns"} \subseteq Ops)
  /\ ~StaleOutput

PlainEvent == [ev : {"init", "ok", "error", "auth"}, sess : Sessions]

\* One login for ever, so nothing is recycled; and no limit, so nothing is halted.
Plain ==
  /\ login = 1 /\ slot.gen \in {0, 1}
  /\ \A t \in Threads :
       /\ loc[t].gen \in {0, 1}
       /\ pc[t] \notin {"recycle", "adopt", "limited", "halt", "halting"}
       /\ pc[t] \in {"note_stop", "take", "taken"} => loc[t].op # "recycle"
  /\ \A r \in Runs : pipe[r] \in Seq(PlainEvent)

-----------------------------------------------------------------------------

\* What thread t may do without recycling or halting anything.
StaysPlain(t) ==
  /\ login' = login /\ slot'.gen \in {0, 1}
  /\ loc'[t].gen \in {0, 1}
  /\ pc'[t] \notin {"recycle", "adopt", "limited", "halt", "halting"}
  /\ pc'[t] \in {"note_stop", "take", "taken"} => loc'[t].op # "recycle"
  /\ \A r \in Runs : pipe'[r] \in Seq(PlainEvent)

LEMMA CalmKeepsPlain ==
  ASSUME Plain, NEW t \in Threads, OnlyMoves(t), StaysPlain(t)
  PROVE  Plain'
  BY DEF Plain, OnlyMoves, StaysPlain

LEMMA PlainPipes ==
  ASSUME Plain, NEW r \in Runs
  PROVE  /\ pipe[r] \in Seq(PlainEvent) /\ <<>> \in Seq(PlainEvent)
         /\ pipe[r] # <<>> => /\ Head(pipe[r]) \in PlainEvent
                              /\ Tail(pipe[r]) \in Seq(PlainEvent)
  BY HeadTailProperties DEF Plain

LEMMA KillsPlainly ==
  ASSUME Plain, NEW S, Kill(S)
  PROVE  \A r \in Runs : pipe'[r] \in Seq(PlainEvent)
  BY PlainPipes DEF Kill

LEMMA NoLocPlain ==
  ASSUME TypeOK
  PROVE  NoLoc.gen = 0 /\ \A t \in Threads : [NoLoc EXCEPT !.init = loc[t].init].gen = 0
  BY DEF NoLoc

LEMMA RebootKeepsPlain ==
  ASSUME Plain, NEW t \in Threads, Reboot(t)
  PROVE  Plain'
  <1>1. \A r \in Runs : pipe'[r] \in Seq(PlainEvent)
    BY KillsPlainly DEF Reboot
  <1>2. /\ login' = 1 /\ slot'.gen = 0
        /\ \A u \in Threads : loc'[u].gen = 0 /\ pc'[u] \in {"boot", "free", "unborn", "gone"}
    BY DEF Reboot, Plain, EmptySlot, NoLoc
  <1> QED BY <1>1, <1>2 DEF Plain

LEMMA AskedStaysPlain ==
  ASSUME TypeOK, Orderly, Plain, NEW t \in Tasks, Asked(t) \/ WindowOpens(t)
  PROVE  StaysPlain(t) /\ ~Crash(t)
  <1>0. t \in Threads
    BY DEF Threads
  <1>1. ~Renew(t) /\ ~Crash(t)
    BY DEF Orderly, Renew, Crash, Spend
  <1>2. login' = login /\ slot'.gen \in {0, 1}
    BY <1>1 DEF Plain, memory, EmptySlot, Asked, Send, Start, Stop, Restart, Interrupt,
    ClearContext, KillIfOauthShaped, ResumeTurns, Request, PauseTurns, Shutdown,
    WedgeCheck, ParkTakes, WindowOpens
  <1>3. \A r \in Runs : pipe'[r] \in Seq(PlainEvent)
    <2>1. CASE ParkTakes(t)
      BY <2>1, KillsPlainly DEF ParkTakes
    <2>2. CASE ~ParkTakes(t)
      BY <1>1, <2>2 DEF Plain, harness, Asked, Send, Start, Stop, Restart, Interrupt,
      ClearContext, KillIfOauthShaped, ResumeTurns, Request, PauseTurns, Shutdown,
      WedgeCheck, WindowOpens
    <2> QED BY <2>1, <2>2
  <1>4. /\ pc'[t] \in {"deliver", "start", "note_stop", "take", "lift", "drain", "free",
                      "parking", "wedged", "reopen"}
        /\ \/ pc'[t] \notin {"note_stop", "take"} /\ loc'[t] = loc[t]
           \/ \E op \in {"start", "stop", "restart", "interrupt", "clear", "oauth",
                        "resume_turns", "shutdown"} : loc'[t] = [NoLoc EXCEPT !.op = op]
    BY <1>0, <1>1 DEF TypeOK, ThreadsOK, threads, At, Goto, Keep, Asked, Send, Start,
    Stop, Restart, Interrupt, ClearContext, KillIfOauthShaped, ResumeTurns, Request,
    PauseTurns, Shutdown, WedgeCheck, ParkTakes, WindowOpens
  <1>5. loc'[t].gen \in {0, 1} /\ (pc'[t] \in {"note_stop", "take", "taken"} => loc'[t].op # "recycle")
    BY <1>0, <1>4 DEF Plain, NoLoc
  <1> QED BY <1>1, <1>2, <1>3, <1>4, <1>5 DEF StaysPlain

LEMMA FailsStaysPlain ==
  ASSUME TypeOK, Plain, NEW t \in Threads, Fails(t)
  PROVE  StaysPlain(t)
  <1>1. slot' = slot /\ login' = login /\ pipe' = pipe
    BY DEF harness, memory, Fails, StartRefused, SpawnFails, PumpQuarantines
  <1>2. /\ pc'[t] \in {"deliver", "pump", "read", "free"}
        /\ loc'[t] = [NoLoc EXCEPT !.init = loc[t].init]
    BY DEF Fails, StartRefused, SpawnFails, PumpQuarantines, AfterStart, Finish, Goto,
    Keep, TypeOK, ThreadsOK
  <1> QED BY <1>1, <1>2, NoLocPlain DEF StaysPlain, Plain

LEMMA WorksStaysPlain ==
  ASSUME TypeOK, Plain, NEW t \in Threads, Works(t), ~Exit(t),
         \A r \in Runs : ~Spawn(t, r)
  PROVE  StaysPlain(t)
  <1>0. loc \in [Threads -> LocType] /\ loc[t] \in LocType /\ ~Recycle(t) /\ ~Adopt(t)
    BY LocOK DEF TypeOK, ThreadsOK, Plain, Recycle, Adopt, At
  <1>1. login' = login /\ (slot' = EmptySlot \/ slot'.gen = slot.gen)
    BY <1>0 DEF Works, Plain, memory, Deliver, StartLooks, StartRenews,
    StartRetakes, StartStopped, PumpSkips, PumpWrites, PumpAdvances, NoteStop,
    TakeNothing, TakeAndKill, Stopped, Overspent, StayDown, ComeBack, Parks, Wedged,
    Reopen, LiftSwaps, LiftOpens, DrainEnds, ShutdownMarks, ShutdownKills, Boot, TypeOK,
    MemoryOK, SlotType
  <1>7. slot'.gen \in {0, 1}
    BY <1>1 DEF Plain, EmptySlot
  <1>2. \A r \in Runs : pipe'[r] \in Seq(PlainEvent)
    <2>1. CASE TakeAndKill(t) \/ ShutdownKills(t)
      BY <2>1, KillsPlainly DEF TakeAndKill, ShutdownKills
    <2>2. CASE ~TakeAndKill(t) /\ ~ShutdownKills(t)
      <3>1. pipe' = pipe
        BY <1>0, <2>2 DEF harness, Works, Deliver, StartLooks, StartRenews,
        StartRetakes, StartStopped, PumpSkips, PumpWrites, PumpAdvances, NoteStop,
        TakeNothing, Stopped, Overspent, StayDown, ComeBack, Parks, Wedged, Reopen,
        LiftSwaps, LiftOpens, DrainEnds, ShutdownMarks, Boot
      <3> QED BY <3>1 DEF Plain
    <2> QED BY <2>1, <2>2
  <1>3. CASE TakeAndKill(t)
    <2>1. /\ pc[t] = "take" /\ pc'[t] \in {"stopping", "taken"}
          /\ loc'[t] = [loc[t] EXCEPT !.msgs = slot.inFlight]
      BY <1>0, <1>3 DEF TakeAndKill, At, Goto, Keep, TypeOK, ThreadsOK
    <2>2. loc'[t].op = loc[t].op /\ loc'[t].gen = loc[t].gen
      BY <1>0, <2>1 DEF LocType
    <2> QED BY <1>1, <1>7, <1>2, <2>1, <2>2 DEF StaysPlain, Plain
  <1>4. CASE NoteStop(t)
    <2>1. pc[t] = "note_stop" /\ pc'[t] = "take" /\ loc'[t] = loc[t]
      BY <1>0, <1>4 DEF NoteStop, At, Goto, Starting, TypeOK, ThreadsOK
    <2>2. loc[t].op # "recycle"
      BY <2>1, <1>0 DEF Plain
    <2> QED BY <1>1, <1>7, <1>2, <2>1, <2>2 DEF StaysPlain, Plain
  <1>5. CASE \/ Deliver(t) \/ StartLooks(t) \/ StartRenews(t) \/ StartRetakes(t)
             \/ StartStopped(t) \/ PumpSkips(t) \/ PumpAdvances(t) \/ TakeNothing(t)
             \/ \E aged \in BOOLEAN : PumpWrites(t, aged)
    <2>1. pc'[t] \in {"start", "pump", "read", "free", "creds", "retake", "spawning",
                      "deliver", "writing"}
      BY <1>5 DEF Deliver, StartLooks, StartRenews, StartRetakes, StartStopped, PumpSkips,
      PumpWrites, PumpAdvances, TakeNothing, AfterStart, Finish, Goto, TypeOK, ThreadsOK
    <2>2. \/ loc'[t] = loc[t]
          \/ loc'[t] = [NoLoc EXCEPT !.init = loc[t].init]
          \/ loc'[t] = [loc[t] EXCEPT !.gen = login]
          \/ loc'[t] = [loc[t] EXCEPT !.resume = session, !.stopped = FALSE,
                                    !.onFallback = fallback]
          \/ \E m : loc'[t] = [loc[t] EXCEPT !.msgs = {m}]
      BY <1>0, <1>5 DEF Deliver, StartLooks, StartRenews, StartRetakes, StartStopped,
      PumpSkips, PumpWrites, PumpAdvances, TakeNothing, AfterStart, Finish, Keep
    <2>3. loc'[t].gen \in {0, 1}
      BY <1>0, <2>2, NoLocPlain DEF LocType, Plain
    <2> QED BY <1>1, <1>7, <1>2, <2>1, <2>3 DEF StaysPlain
  <1>6. CASE \/ Stopped(t) \/ Overspent(t) \/ StayDown(t) \/ ComeBack(t) \/ Parks(t)
             \/ Wedged(t) \/ Reopen(t) \/ LiftSwaps(t) \/ LiftOpens(t) \/ Boot(t)
             \/ DrainEnds(t) \/ ShutdownMarks(t) \/ ShutdownKills(t)
    <2>1. pc'[t] \in {"start", "overspent", "read", "free", "deliver", "open", "took",
                      "off", "sweep"}
      BY <1>6 DEF Stopped, Overspent, StayDown, ComeBack, Parks, Wedged, Reopen,
      LiftSwaps, LiftOpens, Boot, DrainEnds, ShutdownMarks, ShutdownKills, Redeliver,
      Finish, Goto, TypeOK, ThreadsOK
    <2>2. \/ loc'[t] = loc[t]
          \/ loc'[t] = [NoLoc EXCEPT !.init = loc[t].init]
          \/ loc'[t] = [loc[t] EXCEPT !.run = slot.run, !.msgs = slot.inFlight]
      BY <1>0, <1>6 DEF Stopped, Overspent, StayDown, ComeBack, Parks, Wedged, Reopen,
      LiftSwaps, LiftOpens, Boot, DrainEnds, ShutdownMarks, ShutdownKills, Redeliver,
      Finish, Keep
    <2>3. loc'[t].gen \in {0, 1}
      BY <1>0, <2>2, NoLocPlain DEF LocType, Plain
    <2> QED BY <1>1, <1>7, <1>2, <2>1, <2>3 DEF StaysPlain
  <1> QED BY <1>0, <1>3, <1>4, <1>5, <1>6, Zenon DEF Works

LEMMA ReadsStaysPlain ==
  ASSUME TypeOK, Orderly, Plain, NEW r \in Runs, Reads(r) \/ ReaderFails(r)
  PROVE  StaysPlain(r)
  <1>0. r \in Threads /\ loc \in [Threads -> LocType] /\ loc[r] \in LocType
    BY LocOK DEF Threads, TypeOK, ThreadsOK
  <1>1. /\ ~Limited(r) /\ ~HaltTakes(r) /\ ~HaltKills(r)
        /\ ~LimitedOverBudget(r) /\ ~RecoverRenews(r) /\ ~ChildDies(r)
    BY <1>0 DEF Orderly, Plain, At, Spend, Limited, HaltTakes, HaltKills,
    LimitedOverBudget, RecoverRenews, ChildDies
  <1>2. login' = login /\ (slot' = EmptySlot \/ slot'.gen = slot.gen)
    BY <1>0, <1>1 DEF Reads, ReaderFails, memory, ReadInit, ReadResult, Settle,
    SettleOverBudget, Recover, Reap, ReapLooks, ReapSettles, TypeOK, MemoryOK, SlotType
  <1>3. slot'.gen \in {0, 1}
    BY <1>2 DEF Plain, EmptySlot
  <1>4. \A q \in Runs : pipe'[q] \in Seq(PlainEvent)
    <2>1. \/ pipe' = pipe
          \/ pipe[r] # <<>> /\ pipe' = [pipe EXCEPT ![r] = Tail(pipe[r])]
      BY <1>1 DEF Reads, ReaderFails, harness, ReadInit, ReadResult, Settle,
      SettleOverBudget, Recover, Reap, ReapLooks, ReapSettles
    <2> QED BY <2>1, PlainPipes DEF Plain, TypeOK, HarnessOK
  <1>5. CASE ReadInit(r)
    <2>1. pc'[r] = "pump" /\ loc'[r] = [loc[r] EXCEPT !.init = TRUE]
      BY <1>0, <1>5 DEF ReadInit, Goto, Keep, TypeOK, ThreadsOK
    <2>2. loc'[r].gen = loc[r].gen
      BY <1>0, <2>1 DEF LocType
    <2> QED BY <1>0, <1>2, <1>3, <1>4, <2>1, <2>2 DEF StaysPlain, Plain
  <1>6. CASE ReadResult(r)
    <2>1. pipe[r] # <<>> /\ Head(pipe[r]).ev \in {"ok", "error", "auth"}
      BY <1>6, PlainPipes DEF ReadResult, PlainEvent
    <2>2. CASE Matches(Head(pipe[r]))
      <3>1. pc'[r] = "settle"
        BY <1>0, <1>6, <2>1, <2>2 DEF ReadResult, Goto, TypeOK, ThreadsOK
      <3>2. loc'[r] = [loc[r] EXCEPT !.msgs = slot.inFlight, !.kind = Head(pipe[r]).ev,
                         !.run = slot.run, !.gen = slot.gen,
                         !.onFallback = slot.onFallback]
        BY <1>0, <1>6, <2>2 DEF ReadResult, Keep, TypeOK, ThreadsOK
      <3>3. loc'[r].gen = slot.gen
        BY <1>0, <3>2 DEF LocType
      <3> QED BY <1>2, <1>3, <1>4, <3>1, <3>3 DEF StaysPlain, Plain
    <2>3. CASE ~Matches(Head(pipe[r]))
      <3>1. pc' = pc /\ loc' = loc
        BY <1>6, <2>3 DEF ReadResult
      <3> QED BY <1>0, <1>2, <1>3, <1>4, <3>1 DEF StaysPlain, Plain
    <2> QED BY <2>2, <2>3
  <1>7. CASE Settle(r)
    <2>1. ~Stale(loc[r].gen)
      BY <1>0 DEF Plain, Stale
    <2>2. \/ pc'[r] \in {"recover", "pump"} /\ loc'[r] = loc[r]
          \/ pc'[r] = "take" /\ loc'[r] = [loc[r] EXCEPT !.op = "clear"]
      BY <1>0, <1>7, <2>1 DEF Settle, Goto, Keep, TypeOK, ThreadsOK
    <2>3. loc'[r].gen = loc[r].gen /\ (pc'[r] = "take" => loc'[r].op = "clear")
      BY <1>0, <2>2 DEF LocType
    <2> QED BY <1>0, <1>2, <1>3, <1>4, <2>2, <2>3 DEF StaysPlain, Plain
  <1>8. CASE SettleOverBudget(r)
    <2>1. pc'[r] = "note_stop" /\ loc'[r] = [loc[r] EXCEPT !.op = "budget"]
      BY <1>0, <1>8 DEF SettleOverBudget, Goto, Keep, TypeOK, ThreadsOK
    <2>2. loc'[r].gen = loc[r].gen /\ loc'[r].op = "budget"
      BY <1>0, <2>1 DEF LocType
    <2> QED BY <1>0, <1>2, <1>3, <1>4, <2>1, <2>2 DEF StaysPlain, Plain
  <1>9. CASE Recover(r)
    <2>1. ~Stale(loc[r].gen)
      BY <1>0 DEF Plain, Stale
    <2>2. pc'[r] = "take" /\ loc'[r] = [loc[r] EXCEPT !.op = "auth"]
      BY <1>0, <1>9, <2>1 DEF Recover, Goto, Keep, TypeOK, ThreadsOK
    <2>3. loc'[r].gen = loc[r].gen /\ loc'[r].op = "auth"
      BY <1>0, <2>2 DEF LocType
    <2> QED BY <1>0, <1>2, <1>3, <1>4, <2>2, <2>3 DEF StaysPlain, Plain
  <1>10. CASE Reap(r) \/ ReapLooks(r) \/ \E v \in Statuses : ReapSettles(r, v)
    <2>1. /\ pc'[r] \in {"reap", "reaped", "gone"}
          /\ \/ loc'[r] = loc[r]
             \/ \E k : loc'[r] = [loc[r] EXCEPT !.kind = k]
      BY <1>0, <1>10 DEF Reap, ReapLooks, ReapSettles, Goto, Keep, TypeOK, ThreadsOK
    <2>2. loc'[r].gen = loc[r].gen
      BY <1>0, <2>1 DEF LocType
    <2> QED BY <1>0, <1>2, <1>3, <1>4, <2>1, <2>2 DEF StaysPlain, Plain
  <1> QED
    BY <1>1, <1>5, <1>6, <1>7, <1>8, <1>9, <1>10, Zenon DEF Reads, ReaderFails

LEMMA ChildStaysPlain ==
  ASSUME TypeOK, Orderly, Plain, NEW r \in Runs,
         ChildInits(r) \/ \E e \in Ends : ChildEndsTurn(r, e)
  PROVE  Plain'
  <1>1. Ends \subseteq {"ok", "error", "auth"}
    BY DEF Ends, Orderly
  <1>2. slot' = slot /\ login' = login /\ pc' = pc /\ loc' = loc
    BY DEF ChildInits, ChildEndsTurn, memory, threads
  <1>3. PICK e \in {"init", "ok", "error", "auth"} : Says(r, e)
    BY <1>1 DEF ChildInits, ChildEndsTurn
  <1>4. [ev |-> e, sess |-> child[r].sess] \in PlainEvent
    BY PipeOK DEF PlainEvent, ChildType, TypeOK
  <1>5. \A q \in Runs : pipe'[q] \in Seq(PlainEvent)
    BY <1>3, <1>4, PlainPipes DEF Says, TypeOK, HarnessOK
  <1> QED BY <1>2, <1>5 DEF Plain

LEMMA SpawnKeepsPlain ==
  ASSUME TypeOK, Plain, NEW t \in Threads, NEW r \in Runs, Spawn(t, r)
  PROVE  Plain'
  <1>1. t # r /\ r \in Threads /\ login' = login /\ pipe' = pipe
    BY DEF Spawn, At, Threads
  <1>2. /\ pc'[t] \in {"deliver", "pump"} /\ pc'[r] = "read"
        /\ \A u \in Threads \ {t, r} : pc'[u] = pc[u]
        /\ \A u \in Threads \ {t} : loc'[u] = loc[u]
        /\ loc'[t] = [NoLoc EXCEPT !.init = loc[t].init]
    BY <1>1 DEF Spawn, Keep, TypeOK, ThreadsOK
  <1>3. loc'[t].gen = 0 /\ loc[r].gen \in {0, 1} /\ loc[t].gen \in {0, 1}
    BY <1>1, <1>2, NoLocPlain DEF Plain
  <1>4. slot'.gen = loc[t].gen
    BY DEF Spawn, EmptySlot
  <1>5. ASSUME NEW u \in Threads
        PROVE  /\ loc'[u].gen \in {0, 1}
               /\ pc'[u] \notin {"recycle", "adopt", "limited", "halt", "halting"}
               /\ pc'[u] \in {"note_stop", "take", "taken"} => loc'[u].op # "recycle"
    BY <1>1, <1>2, <1>3 DEF Plain
  <1> QED BY <1>1, <1>3, <1>4, <1>5 DEF Plain

LEMMA PlainAtFirst == Init => Plain
  <1>1. <<>> \in Seq(PlainEvent)
    OBVIOUS
  <1> QED BY <1>1 DEF Init, Plain, EmptySlot, NoLoc

LEMMA PlainNext ==
  ASSUME TypeOK, Orderly, Plain, [Next]_vars
  PROVE  Plain'
  <1>1. ASSUME NEW t \in Tasks, Asked(t) \/ WindowOpens(t) PROVE Plain'
    <2>1. t \in Threads
      BY DEF Threads
    <2> QED BY <1>1, <2>1, AskedStaysPlain, AskedIsCalm, CalmKeepsPlain DEF Calm
  <1>2. ASSUME NEW t \in Threads, Works(t) PROVE Plain'
    <2>1. ASSUME NEW r \in Runs, Spawn(t, r) PROVE Plain'
      BY <2>1, SpawnKeepsPlain
    <2>2. CASE Exit(t)
      BY <2>2, RebootKeepsPlain DEF Exit
    <2>3. CASE ~Exit(t) /\ \A r \in Runs : ~Spawn(t, r)
      BY <1>2, <2>3, WorksStaysPlain, WorksOnlyMoves, CalmKeepsPlain
    <2> QED BY <2>1, <2>2, <2>3
  <1>3. ASSUME NEW t \in Threads, Fails(t) PROVE Plain'
    BY <1>3, FailsStaysPlain, FailsIsCalm, CalmKeepsPlain DEF Calm
  <1>4. ASSUME NEW r \in Runs, Reads(r) \/ ReaderFails(r) PROVE Plain'
    BY <1>4, ReadsStaysPlain, ReadsIsCalm, CalmKeepsPlain DEF Calm, Threads
  <1>5. ASSUME NEW r \in Runs, ChildInits(r) \/ \E e \in Ends : ChildEndsTurn(r, e)
        PROVE  Plain'
    BY <1>5, ChildStaysPlain
  <1>6. CASE UNCHANGED vars
    BY <1>6 DEF vars, memory, harness, threads, Plain
  <1> QED
    BY <1>1, <1>2, <1>3, <1>4, <1>5, <1>6 DEF Next, Rest

-----------------------------------------------------------------------------
(* The process a shutdown has yet to kill has no company. *)

NoShutdown == \A t \in Threads : pc[t] \notin OffPoints \cup {"drain"}

\* Whichever of the two the operations leave out, a shutdown that has the slot is final.
Gate == IF "resume_turns" \in Ops THEN NoShutdown ELSE Off

LEMMA GateShuts == Gate => ShutOff
  BY DEF Gate, NoShutdown, Off, ShutOff

LEMMA NoShutdownNext ==
  ASSUME TypeOK, Safe, NoShutdown, "shutdown" \notin Ops, [Next]_vars
  PROVE  NoShutdown'
  <1>0. ASSUME NEW t \in Threads, OnlyMoves(t), pc'[t] \notin OffPoints \cup {"drain"}
        PROVE  NoShutdown'
    BY <1>0 DEF OnlyMoves, NoShutdown
  <1>9. ASSUME NEW t \in Threads, Reboot(t) PROVE NoShutdown'
    BY <1>9 DEF Reboot, NoShutdown, OffPoints
  <1>1. ASSUME NEW t \in Tasks, Asked(t) \/ WindowOpens(t) PROVE NoShutdown'
    <2>1. t \in Threads
      BY DEF Threads
    <2>2. CASE Crash(t)
      BY <1>9, <2>1, <2>2 DEF Crash
    <2>3. CASE ~Crash(t)
      <3>1. pc'[t] \notin OffPoints \cup {"drain"}
        BY <1>1, <2>1, <2>3 DEF TypeOK, ThreadsOK, threads, At, Goto, Spend, OffPoints,
        Asked, Send, Start, Stop, Restart, Interrupt, ClearContext, KillIfOauthShaped,
        ResumeTurns, Request, PauseTurns, Shutdown, Renew, WedgeCheck, ParkTakes,
        WindowOpens
      <3> QED BY <1>0, <1>1, <2>1, <2>3, <3>1, AskedIsCalm DEF Calm
    <2> QED BY <2>2, <2>3
  <1>2. ASSUME NEW t \in Threads, Works(t) \/ Fails(t) PROVE NoShutdown'
    <2>1. CASE Exit(t)
      BY <1>9, <2>1 DEF Exit
    <2>2. ASSUME NEW r \in Runs, Spawn(t, r) PROVE NoShutdown'
      <3>1. \A u \in Threads : pc'[u] = pc[u] \/ pc'[u] \in {"deliver", "pump", "read"}
        BY <2>2 DEF Spawn, TypeOK, ThreadsOK
      <3> QED BY <3>1 DEF NoShutdown, OffPoints
    <2>3. CASE ~Exit(t) /\ \A r \in Runs : ~Spawn(t, r)
      <3>1. pc[t] \notin OffPoints \cup {"drain"} /\ pc \in [Threads -> Points]
        BY DEF NoShutdown, TypeOK, ThreadsOK
      <3>2. pc'[t] \notin OffPoints \cup {"drain"}
        BY <1>2, <2>3, <3>1 DEF OffPoints, At, Goto, Works, Fails, Finish, Redeliver,
        AfterStart, Deliver, StartLooks, StartRenews, StartRetakes, StartStopped,
        PumpSkips, PumpAdvances, TakeNothing, PumpWrites, NoteStop, TakeAndKill,
        Stopped, Overspent, StayDown, ComeBack, Recycle, Adopt, StartRefused,
        SpawnFails, PumpQuarantines, Parks, Wedged, Reopen, LiftSwaps, LiftOpens,
        DrainEnds, ShutdownMarks, ShutdownKills, Boot
      <3> QED BY <1>0, <1>2, <2>3, <3>2, WorksOnlyMoves, FailsIsCalm DEF Calm
    <2> QED BY <2>1, <2>2, <2>3
  <1>3. ASSUME NEW r \in Runs, Reads(r) \/ ReaderFails(r) PROVE NoShutdown'
    <2>1. r \in Threads /\ pc[r] \notin OffPoints \cup {"drain"}
          /\ pc \in [Threads -> Points]
      BY DEF NoShutdown, TypeOK, ThreadsOK, Threads
    <2>2. pc'[r] \notin OffPoints \cup {"drain"}
      BY <1>3, <2>1 DEF OffPoints, threads, At, Goto, Finish, Redeliver, Reads, ReadInit,
      ReadResult, Settle, Recover, Limited, HaltTakes, HaltKills, Reap, ReapLooks,
      ReapSettles, ReaderFails, SettleOverBudget, LimitedOverBudget, RecoverRenews,
      ChildDies
    <2> QED BY <1>0, <1>3, <2>1, <2>2, ReadsIsCalm DEF Calm
  <1>4. ASSUME NEW r \in Runs, ChildInits(r) \/ \E e \in Ends : ChildEndsTurn(r, e)
        PROVE  NoShutdown'
    BY <1>4 DEF ChildInits, ChildEndsTurn, threads, NoShutdown
  <1>5. CASE UNCHANGED vars
    BY <1>5 DEF vars, threads, NoShutdown
  <1> QED
    BY <1>1, <1>2, <1>3, <1>4, <1>5 DEF Next, Rest

LEMMA GateAtFirst == Init => Gate
  BY DEF Init, Gate, NoShutdown, Off, NoLift, ShutOff, OffPoints

LEMMA GateNext ==
  ASSUME TypeOK, Safe, Orderly, Gate, [Next]_vars
  PROVE  Gate'
  <1>1. CASE "resume_turns" \in Ops
    BY <1>1, NoShutdownNext DEF Gate, Orderly
  <1>2. CASE "resume_turns" \notin Ops
    BY <1>2, OffNext DEF Gate
  <1> QED BY <1>1, <1>2

-----------------------------------------------------------------------------
(* What a pipe holds: `init`s only, or `init`s and then the end of a turn. *)

Silent(p) == \A i \in 1 .. Len(p) : p[i].ev = "init"
Closes(p) ==
  /\ p # <<>> /\ p[Len(p)].ev # "init"
  /\ \A i \in 1 .. Len(p) - 1 : p[i].ev = "init"

\* All that p holds was said in session s.
Speaks(p, s) == \A i \in 1 .. Len(p) : p[i].sess = s

LEMMA PipesLose ==
  ASSUME NEW p \in Seq(EventType), p # <<>>, NEW s
  PROVE  /\ Speaks(p, s) => Head(p).sess = s /\ Speaks(Tail(p), s)
         /\ Silent(p) => Head(p).ev = "init" /\ Silent(Tail(p))
         /\ Closes(p) /\ Head(p).ev = "init" =>
              Closes(Tail(p)) /\ Tail(p)[Len(Tail(p))] = p[Len(p)]
         /\ Closes(p) /\ Head(p).ev # "init" => Tail(p) = <<>> /\ Head(p) = p[Len(p)]
  <1>1. /\ Tail(p) \in Seq(EventType) /\ Len(p) \in Nat \ {0}
        /\ Len(Tail(p)) = Len(p) - 1 /\ Head(p) = p[1]
        /\ \A i \in 1 .. Len(p) - 1 : Tail(p)[i] = p[i + 1]
    BY HeadTailProperties
  <1>2. Speaks(p, s) => Head(p).sess = s /\ Speaks(Tail(p), s)
    BY <1>1 DEF Speaks
  <1>3. Silent(p) => Head(p).ev = "init" /\ Silent(Tail(p))
    BY <1>1 DEF Silent
  <1>4. ASSUME Closes(p), Head(p).ev = "init"
        PROVE  Closes(Tail(p)) /\ Tail(p)[Len(Tail(p))] = p[Len(p)]
    <2>1. Len(p) # 1
      BY <1>1, <1>4 DEF Closes
    <2>2. Tail(p)[Len(Tail(p))] = p[Len(p)] /\ Tail(p) # <<>>
      <3>1. Len(p) - 1 \in 1 .. Len(p) - 1 /\ (Len(p) - 1) + 1 = Len(p)
        BY <1>1, <2>1
      <3>2. Tail(p) # <<>>
        <4>1. Len(Tail(p)) # 0
          BY <1>1, <3>1
        <4> QED BY <4>1, EmptySeq
      <3>3. Tail(p)[Len(p) - 1] = p[(Len(p) - 1) + 1]
        BY <1>1, <3>1
      <3> QED BY <1>1, <3>1, <3>2, <3>3
    <2>3. ASSUME NEW i \in 1 .. Len(Tail(p)) - 1 PROVE Tail(p)[i].ev = "init"
      BY <1>1, <1>4, <2>3 DEF Closes
    <2> QED BY <1>4, <2>2, <2>3 DEF Closes
  <1>5. ASSUME Closes(p), Head(p).ev # "init"
        PROVE  Tail(p) = <<>> /\ Head(p) = p[Len(p)]
    <2>1. Len(p) = 1
      BY <1>1, <1>5 DEF Closes
    <2>2. Len(Tail(p)) = 0
      BY <1>1, <2>1
    <2> QED BY <1>1, <2>1, <2>2, EmptySeq
  <1> QED BY <1>2, <1>3, <1>4, <1>5

LEMMA PipesGain ==
  ASSUME NEW p \in Seq(EventType), NEW e \in EventType
  PROVE  /\ Speaks(p, e.sess) => Speaks(Append(p, e), e.sess)
         /\ Silent(p) /\ e.ev = "init" => Silent(Append(p, e))
         /\ Silent(p) /\ e.ev # "init" =>
              Closes(Append(p, e)) /\ Append(p, e)[Len(Append(p, e))] = e
  <1>1. /\ Append(p, e) \in Seq(EventType) /\ Len(p) \in Nat
        /\ Len(Append(p, e)) = Len(p) + 1 /\ Append(p, e) # <<>>
        /\ Append(p, e)[Len(p) + 1] = e
        /\ \A i \in 1 .. Len(p) : Append(p, e)[i] = p[i]
    BY AppendProperties
  <1> QED BY <1>1 DEF Speaks, Silent, Closes

\* One process at a time; a dead one has nothing to do and nothing to say; what a
\* process says carries its own session, which the slot has learnt or not yet.
Alone ==
  /\ \A r, q \in Runs : Live(r) /\ Live(q) => r = q
  /\ \A r \in Runs :
       /\ ~Live(r) => child[r].todo = <<>> /\ pipe[r] = <<>>
       /\ child[r].phase = "booting" => pipe[r] = <<>>
       /\ Speaks(pipe[r], child[r].sess)
  /\ slot.run # 0 => slot.sess \in {0, child[slot.run].sess}

\* The message given to the process in the slot.
Given(m) == m \in slot.inFlight \/ \E t \in Threads : pc[t] = "writing" /\ m \in loc[t].msgs

\* The turn of m has yet to run, or the last thing in the pipe says how it ended.
Running(m, r) == child[r].todo = <<m>> /\ ran[m] = 0 /\ Silent(pipe[r])
Ended(m, r) ==
  /\ child[r].todo = <<>> /\ Closes(pipe[r])
  /\ ran[m] = IF pipe[r][Len(pipe[r])].ev = "ok" THEN 1 ELSE 0

\* A process with nothing to answer for.
Unasked(r) == child[r].todo = <<>> /\ Silent(pipe[r])

\* The process in the slot has at most one message to answer for, and one it has.
Serving ==
  /\ \A m, n \in Msgs : Given(m) /\ Given(n) => m = n
  /\ slot.run # 0 => IF \E m \in Msgs : Given(m)
                      THEN \E m \in Msgs : /\ Given(m)
                                           /\ Running(m, slot.run) \/ Ended(m, slot.run)
                      ELSE Unasked(slot.run)

\* What a process has still to do has not been done, and nobody will do it again.
Undone ==
  \A r \in Runs : child[r].todo # <<>> =>
    \E m \in Msgs :
      /\ child[r].todo = <<m>> /\ ran[m] = 0
      /\ \/ Given(m)
         \/ row[m].state = "consumed"
         \/ \E t \in Threads : pc[t] = "took" /\ m \in loc[t].msgs

\* The settling reader knows whether the turn ran, and a waiting message has not.
Told ==
  /\ \A t \in Threads : pc[t] = "settle" =>
       \A m \in loc[t].msgs : ran[m] = IF loc[t].kind = "ok" THEN 1 ELSE 0
  /\ \A m \in Msgs :
       row[m].state = "absent" \/ (row[m].state = "queued" /\ ~Given(m)) => ran[m] = 0

Served == Serving /\ Undone /\ Told /\ ConsumedExactlyOnce

-----------------------------------------------------------------------------
(* The steps by what they do to rows, pipes and processes. *)

\* The error flag after a statement.
LEMMA ErrorsAfter ==
  ASSUME NEW rows, WellFormed(rows), NEW S, NEW m \in Msgs
  PROVE  /\ MarkDelivered(rows, S)[m].isError = rows[m].isError
         /\ Complete(rows, S)[m].isError = rows[m].isError
         /\ RequeueUndelivered(rows, S)[m].isError = rows[m].isError
         /\ ClaimNotification(rows, S)[m].isError = rows[m].isError
         /\ Quarantine(rows, S)[m].isError = rows[m].isError
         /\ m \in S /\ rows[m].state = "delivered" => MarkError(rows, S)[m].isError
  <1>1. rows[m] \in Row
    BY DEF WellFormed, Bounded
  <1> QED
    BY <1>1 DEF Row, MarkDelivered, Complete, MarkError, RequeueUndelivered,
    ClaimNotification, Quarantine, Update, Absent, InState, DeliverRow, CompleteRow,
    MarkErrorRow, RequeueRow, ClaimRow, QuarantineRow, Advance, CanAdvance

LEMMA SettledErrors ==
  ASSUME WellFormed(row), NEW S \in SUBSET Msgs, NEW kind, NEW m \in Msgs
  PROVE  /\ kind # "error" => SettledRows(kind, S)[m].isError = row[m].isError
         /\ kind = "error" /\ m \in S /\ row[m].state = "delivered" =>
              SettledRows(kind, S)[m].isError
  <1>1. CASE kind = "ok"
    <2> DEFINE done == Complete(row, S)
    <2>1. WellFormed(done) /\ SettledRows(kind, S) = ClaimNotification(done, S)
      BY <1>1, AdvancesLegally DEF LegalStep, SettledRows
    <2>2. done[m].isError = row[m].isError
      BY ErrorsAfter
    <2> HIDE DEF done
    <2> QED BY <1>1, <2>1, <2>2, ErrorsAfter
  <1>2. CASE kind = "error"
    <2> DEFINE done == MarkError(row, S)
    <2>1. WellFormed(done) /\ SettledRows(kind, S) = ClaimNotification(done, S)
      BY <1>2, AdvancesLegally DEF LegalStep, SettledRows
    <2>2. m \in S /\ row[m].state = "delivered" => done[m].isError
      BY ErrorsAfter
    <2> HIDE DEF done
    <2>3. ClaimNotification(done, S)[m].isError = done[m].isError
      BY <2>1, ErrorsAfter
    <2> QED BY <1>2, <2>1, <2>2, <2>3
  <1>3. CASE kind \notin {"ok", "error"}
    BY <1>3, ErrorsAfter DEF SettledRows
  <1> QED BY <1>1, <1>2, <1>3

\* What thread t may do to a row between the start of one turn and the next.
RowFits(t, m) ==
  \/ row'[m] = row[m]
  \/ /\ row[m].state = "absent" /\ row'[m].state = "queued" /\ ~row'[m].isError
  \/ /\ row[m].state = "queued" /\ LockFree
     /\ row'[m].state = "undeliverable" /\ row'[m].isError = row[m].isError
  \/ /\ m \in Hand(t) /\ row[m].state = "delivered" /\ row'[m].state = "consumed"
     /\ row'[m].isError \/ (pc[t] = "settle" /\ loc[t].kind = "ok")
  \/ /\ m \in Hand(t) /\ row[m].state = "delivered" /\ row'[m].state = "queued"
     /\ row'[m].isError = row[m].isError
     /\ pc[t] = "settle" /\ loc[t].kind # "ok"

\* A step that concerns no process and no turn under way.
Steady(t) ==
  /\ OnlyMoves(t) /\ slot' = slot /\ child' = child /\ pipe' = pipe /\ ran' = ran
  /\ pc[t] \notin {"writing", "took"} /\ pc'[t] \notin {"writing", "took", "settle"}
  /\ \A m \in Msgs : RowFits(t, m)

\* A step that takes the slot and kills what was in it.
Empties(t) ==
  /\ OnlyMoves(t) /\ LockFree /\ slot' = EmptySlot /\ Kill(SlotRuns)
  /\ row' = row /\ ran' = ran
  /\ pc[t] # "took" /\ pc'[t] \notin {"writing", "took", "settle"}

LEMMA AskedIsSteady ==
  ASSUME TypeOK, Orderly, NEW t \in Tasks, Asked(t) \/ WindowOpens(t)
  PROVE  Steady(t) \/ Empties(t)
  <1>0. t \in Threads /\ ~Crash(t)
    BY DEF Threads, Orderly, Crash, Spend
  <1>1. OnlyMoves(t)
    BY <1>0, AskedIsCalm DEF Calm
  <1>2. CASE ParkTakes(t)
    <2>1. LockFree /\ slot' = EmptySlot /\ Kill(SlotRuns) /\ row' = row /\ ran' = ran
      BY <1>2 DEF ParkTakes, db, history
    <2>2. pc[t] = "free" /\ pc'[t] = "parking"
      BY <1>0, <1>2 DEF ParkTakes, At, Goto, TypeOK, ThreadsOK
    <2> QED BY <1>1, <2>1, <2>2 DEF Empties
  <1>3. CASE ~ParkTakes(t)
    <2>1. slot' = slot /\ child' = child /\ pipe' = pipe /\ ran' = ran
      BY <1>0, <1>3 DEF memory, harness, history, Asked, Send, Start, Stop, Restart,
      Interrupt, ClearContext, KillIfOauthShaped, ResumeTurns, Request, PauseTurns,
      Shutdown, Renew, WedgeCheck, WindowOpens
    <2>2. pc[t] = "free" /\ pc'[t] \notin {"writing", "took", "settle"}
      BY <1>0, <1>3 DEF TypeOK, ThreadsOK, threads, At, Goto, Asked, Send, Start, Stop,
      Restart, Interrupt, ClearContext, KillIfOauthShaped, ResumeTurns, Request,
      PauseTurns, Shutdown, Renew, WedgeCheck, WindowOpens
    <2>3. ASSUME NEW m \in Msgs PROVE RowFits(t, m)
      <3>1. CASE \E n \in Msgs : Send(t, n)
        <4>1. PICK n \in Msgs : Send(t, n)
          BY <3>1
        <4>2. /\ row[n].state = "absent"
              /\ row'[n].state = "queued" /\ row'[n].isError = FALSE
              /\ m # n => row'[m] = row[m]
          BY <4>1 DEF Send, Enqueue, Absent, InState, TypeOK, RowsOK
        <4> QED BY <4>2 DEF RowFits
      <3>2. CASE \A n \in Msgs : ~Send(t, n)
        <4>1. row' = row
          BY <1>0, <1>3, <3>2 DEF db, Asked, Start, Stop, Restart, Interrupt,
          ClearContext, KillIfOauthShaped, ResumeTurns, Request, PauseTurns, Shutdown,
          Renew, WedgeCheck, WindowOpens
        <4> QED BY <4>1 DEF RowFits
      <3> QED BY <3>1, <3>2
    <2> QED BY <1>1, <2>1, <2>2, <2>3 DEF Steady
  <1> QED BY <1>2, <1>3

LEMMA FailsIsSteady ==
  ASSUME TypeOK, NEW t \in Threads, Fails(t)
  PROVE  Steady(t)
  <1>1. OnlyMoves(t)
    BY FailsIsCalm DEF Calm
  <1>2. /\ slot' = slot /\ child' = child /\ pipe' = pipe /\ ran' = ran
        /\ pc[t] \in {"creds", "spawning", "pump"}
        /\ pc'[t] \notin {"writing", "took", "settle"}
    BY DEF Fails, StartRefused, SpawnFails, PumpQuarantines, memory, harness, history,
    At, Goto, Finish, AfterStart, TypeOK, ThreadsOK
  <1>3. ASSUME NEW m \in Msgs PROVE RowFits(t, m)
    <2>1. CASE \E aged \in BOOLEAN : PumpQuarantines(t, aged)
      <3>1. PICK aged \in BOOLEAN : PumpQuarantines(t, aged)
        BY <2>1
      <3> DEFINE S    == NextForDelivery(row, slot.consec, aged)
                 done == Quarantine(row, S)
      <3>2. /\ LockFree /\ row' = ClaimNotification(done, S)
            /\ S \in SUBSET Msgs /\ \A n \in S : row[n].state = "queued"
        BY <3>1, PicksFromTheQueue DEF PumpQuarantines, Queued, InState
      <3>3. WellFormed(row) /\ WellFormed(done)
        <4>1. WellFormed(row)
          BY RowsAreWellFormed
        <4>2. ASSUME NEW n \in Msgs PROVE Bounded(done[n])
          <5>1. Bounded(row[n]) /\ row[n] \in Row
            BY <4>1 DEF WellFormed, Bounded
          <5>2. done[n] = row[n] \/ done[n] = QuarantineRow(row[n])
            BY DEF Quarantine, Update
          <5>3. QuarantineRow(row[n]) \in Row
                /\ QuarantineRow(row[n]).requeues = row[n].requeues
            BY <5>1 DEF QuarantineRow, Row, States
          <5> QED BY <5>1, <5>2, <5>3 DEF Bounded
        <4>3. done \in [Msgs -> Row]
          BY <4>2 DEF Bounded, Quarantine, Update
        <4> HIDE DEF done
        <4> QED BY <4>1, <4>2, <4>3 DEF WellFormed
      <3>4. /\ m \notin S => done[m] = row[m]
            /\ m \in S => done[m].state = "undeliverable"
            /\ done[m].isError = row[m].isError
        BY <3>2, <3>3, StatesAfter, ErrorsAfter
      <3> HIDE DEF S, done
      <3>5. /\ m \notin S => row'[m] = done[m]
            /\ row'[m].state = done[m].state /\ row'[m].isError = done[m].isError
        BY <3>2, <3>3, StatesAfter, ErrorsAfter
      <3> QED BY <3>2, <3>4, <3>5 DEF RowFits
    <2>2. CASE \A aged \in BOOLEAN : ~PumpQuarantines(t, aged)
      BY <2>2 DEF Fails, StartRefused, SpawnFails, RowFits, db
    <2> QED BY <2>1, <2>2
  <1> QED BY <1>1, <1>2, <1>3 DEF Steady

\* The steps of a thread that neither feed nor end a process.
Chores(t) ==
  \/ Deliver(t) \/ StartLooks(t) \/ StartRenews(t) \/ StartRetakes(t)
  \/ StartStopped(t) \/ PumpSkips(t) \/ NoteStop(t) \/ TakeNothing(t) \/ Stopped(t)
  \/ Overspent(t) \/ StayDown(t) \/ ComeBack(t) \/ Recycle(t) \/ Adopt(t) \/ Parks(t)
  \/ Wedged(t) \/ Reopen(t) \/ LiftSwaps(t) \/ LiftOpens(t) \/ Boot(t)

LEMMA ChoresAreSteady ==
  ASSUME TypeOK, Plain, Kept, NEW t \in Threads, Chores(t)
  PROVE  Steady(t)
  <1>1. OnlyMoves(t)
    <2>1. Works(t) /\ ~Exit(t) /\ \A r \in Runs : ~Spawn(t, r)
      BY DEF Chores, Works, Exit, Spawn, At, Deliver, StartLooks, StartRenews,
      StartRetakes, StartStopped, PumpSkips, NoteStop, TakeNothing, Stopped, Overspent,
      StayDown, ComeBack, Recycle, Adopt, Parks, Wedged, Reopen, LiftSwaps, LiftOpens,
      Boot
    <2> QED BY <2>1, WorksOnlyMoves
  <1>2. slot' = slot /\ child' = child /\ pipe' = pipe /\ ran' = ran
    BY DEF Chores, memory, harness, history, Deliver, StartLooks, StartRenews,
    StartRetakes, StartStopped, PumpSkips, NoteStop, TakeNothing, Stopped, Overspent,
    StayDown, ComeBack, Recycle, Adopt, Parks, Wedged, Reopen, LiftSwaps, LiftOpens,
    Boot
  <1>3. pc[t] \notin {"writing", "took"} /\ pc'[t] \notin {"writing", "took", "settle"}
    BY DEF Chores, At, Goto, Finish, Redeliver, AfterStart, TypeOK, ThreadsOK, Deliver,
    StartLooks, StartRenews, StartRetakes, StartStopped, PumpSkips, NoteStop,
    TakeNothing, Stopped, Overspent, StayDown, ComeBack, Recycle, Adopt, Parks, Wedged,
    Reopen, LiftSwaps, LiftOpens, Boot
  <1>4. ASSUME NEW m \in Msgs PROVE RowFits(t, m)
    <2>1. CASE ComeBack(t)
      <3>1. pc[t] = "taken" /\ loc[t].op \in {"interrupt", "clear"}
        BY <2>1 DEF ComeBack, At, Plain
      <3>2. CASE loc[t].op = "clear"
        BY <2>1, <3>1, <3>2 DEF ComeBack, RowFits
      <3>3. CASE loc[t].op = "interrupt"
        <4>1. row' = MarkError(row, loc[t].msgs) /\ Hand(t) = loc[t].msgs
          BY <2>1, <3>1, <3>3 DEF ComeBack, Hand
        <4>2. m \in Hand(t) => row[m].state = "delivered"
          BY <3>1 DEF Kept, Custody
        <4> QED BY <4>1, <4>2, RowsAreWellFormed, StatesAfter, ErrorsAfter DEF RowFits
      <3> QED BY <3>1, <3>2, <3>3
    <2>2. CASE Reopen(t)
      <3>1. row' = row \/ \E n \in Absent(row) : row' = Enqueue(row, n)
        BY <2>2 DEF Reopen
      <3>2. CASE row' = row
        BY <3>2 DEF RowFits
      <3>3. CASE \E n \in Absent(row) : row' = Enqueue(row, n)
        <4>1. PICK n \in Absent(row) : row' = Enqueue(row, n)
          BY <3>3
        <4>2. /\ row[n].state = "absent"
              /\ row'[n].state = "queued" /\ row'[n].isError = FALSE
              /\ m # n => row'[m] = row[m]
          BY <4>1 DEF Enqueue, Absent, InState, TypeOK, RowsOK
        <4> QED BY <4>2 DEF RowFits
      <3> QED BY <3>1, <3>2, <3>3
    <2>3. CASE ~ComeBack(t) /\ ~Reopen(t)
      <3>1. row' = row
        BY <2>3 DEF Chores, db, Deliver, StartLooks, StartRenews, StartRetakes,
        StartStopped, PumpSkips, NoteStop, TakeNothing, Stopped, Overspent, StayDown,
        Recycle, Adopt, Parks, Wedged, LiftSwaps, LiftOpens, Boot
      <3> QED BY <3>1 DEF RowFits
    <2> QED BY <2>1, <2>2, <2>3
  <1> QED BY <1>1, <1>2, <1>3, <1>4 DEF Steady

LEMMA TakeEmpties ==
  ASSUME TypeOK, NEW t \in Threads, TakeAndKill(t)
  PROVE  Empties(t)
  <1>1. OnlyMoves(t)
    BY DEF TakeAndKill, Goto, Keep, OnlyMoves, TypeOK, ThreadsOK
  <1>2. LockFree /\ slot' = EmptySlot /\ Kill(SlotRuns) /\ row' = row /\ ran' = ran
    BY DEF TakeAndKill, db, history
  <1>3. pc[t] = "take" /\ pc'[t] \in {"stopping", "taken"}
    BY DEF TakeAndKill, At, Goto, TypeOK, ThreadsOK
  <1> QED BY <1>1, <1>2, <1>3 DEF Empties

\* What a reader does between two things it reads.
LEMMA ReadsAreSteady ==
  ASSUME TypeOK, Orderly, Plain, Kept, NEW r \in Runs, Reads(r) \/ ReaderFails(r),
         ~ReadInit(r), ~ReadResult(r)
  PROVE  Steady(r)
  <1>0. r \in Threads
    BY DEF Threads
  <1>1. OnlyMoves(r)
    BY ReadsIsCalm DEF Calm
  <1>2. /\ ~Limited(r) /\ ~HaltTakes(r) /\ ~HaltKills(r) /\ ~ReapLooks(r)
        /\ ~LimitedOverBudget(r) /\ ~RecoverRenews(r) /\ ~ChildDies(r)
        /\ \A v \in Statuses : ~ReapSettles(r, v)
    BY <1>0 DEF Orderly, Plain, Kept, SlotLives, At, Spend, Limited, HaltTakes,
    HaltKills, ReapLooks, ReapSettles, LimitedOverBudget, RecoverRenews, ChildDies
  <1>3. CASE Reap(r)
    <2>1. slot.run # r
      BY <1>3 DEF Reap, Kept, SlotLives, Live, Runs
    <2> QED
      BY <1>0, <1>1, <1>3, <2>1 DEF Reap, At, Goto, Steady, RowFits, db, harness, history,
      TypeOK, ThreadsOK
  <1>4. CASE Recover(r)
    BY <1>0, <1>1, <1>4 DEF Recover, At, Goto, Steady, RowFits, db, memory, harness,
    history, TypeOK, ThreadsOK
  <1>5. CASE Settle(r) \/ SettleOverBudget(r)
    <2>1. /\ pc[r] = "settle" /\ row' = SettledRows(loc[r].kind, loc[r].msgs)
          /\ pc'[r] \in {"recover", "take", "recycle", "pump", "note_stop"}
      BY <1>0, <1>5 DEF Settle, SettleOverBudget, At, Goto, TypeOK, ThreadsOK
    <2>2. slot' = slot /\ child' = child /\ pipe' = pipe /\ ran' = ran
      BY <1>5 DEF Settle, SettleOverBudget, memory, harness, history
    <2>3. ASSUME NEW m \in Msgs PROVE RowFits(r, m)
      <3>1. Hand(r) = loc[r].msgs /\ loc[r].msgs \in SUBSET Msgs
        BY <1>0, <2>1, HandsAreMessages DEF Hand
      <3>2. m \in Hand(r) => row[m].state = "delivered"
        BY <1>0, <2>1 DEF Kept, Custody
      <3>3. CASE m \notin Hand(r)
        BY <2>1, <3>1, <3>3, RowsAreWellFormed, SettledAfter DEF RowFits
      <3>4. CASE m \in Hand(r)
        <4>1. /\ row'[m].state = IF loc[r].kind \in {"ok", "error"}
                                 THEN "consumed" ELSE "queued"
              /\ loc[r].kind # "error" => row'[m].isError = row[m].isError
              /\ loc[r].kind = "error" => row'[m].isError
          BY <2>1, <3>1, <3>2, <3>4, RowsAreWellFormed, SettledAfter, SettledErrors
        <4> QED BY <2>1, <3>2, <3>4, <4>1 DEF RowFits
      <3> QED BY <3>3, <3>4
    <2> QED BY <1>1, <2>1, <2>2, <2>3 DEF Steady
  <1> QED
    BY <1>2, <1>3, <1>4, <1>5, Zenon DEF Reads, ReaderFails

-----------------------------------------------------------------------------
(* One process at a time. *)

\* Live, as Alone reads it.
LEMMA HarnessTyped ==
  ASSUME TypeOK, NEW r \in Runs
  PROVE  child[r] \in ChildType /\ pipe[r] \in Seq(EventType) /\ r \in Threads
  BY DEF TypeOK, HarnessOK, Threads

\* The process in the slot has no other beside it.
LEMMA SlotAlone ==
  ASSUME TypeOK, Kept, Alone, NEW r \in Runs, Live(r), slot.run # 0
  PROVE  r = slot.run
  BY DEF Kept, SlotLives, Alone, TypeOK, MemoryOK, SlotType, Runs

LEMMA SameHarnessAlone ==
  ASSUME Alone, child' = child, pipe' = pipe,
         slot'.run = 0 \/ (slot'.run = slot.run /\ slot'.sess = slot.sess)
  PROVE  Alone'
  BY DEF Alone, Live

LEMMA KillsAlone ==
  ASSUME TypeOK, Orderly, Alone, NEW S, Kill(S), slot'.run = 0
  PROVE  Alone'
  <1>1. \A r \in Runs :
          /\ Live(r)' => Live(r) /\ r \notin S
          /\ r \in S => child'[r].todo = <<>> /\ pipe'[r] = <<>>
                        /\ child'[r].phase = "dead"
          /\ r \notin S => child'[r] = child[r] /\ pipe'[r] = pipe[r]
    BY HarnessTyped DEF Kill, Live, ChildType, Orderly
  <1>2. \A s : Speaks(<<>>, s)
    BY EmptySeq DEF Speaks
  <1> QED BY <1>1, <1>2 DEF Alone, Live

LEMMA SpawnAlone ==
  ASSUME TypeOK, Safe, Plain, Gate, Alone, NEW t \in Threads, NEW r \in Runs, Spawn(t, r)
  PROVE  Alone'
  <1>1. pc[t] = "spawning" /\ slot.run = 0
    BY DEF Spawn, At, Safe, LockOK
  <1>2. \A q \in Runs : ~Live(q)
    <2> SUFFICES ASSUME NEW q \in Runs, Live(q) PROVE FALSE
      OBVIOUS
    <2>1. q # slot.run
      BY <1>1 DEF Runs
    <2>2. PICK u \in Threads : pc[u] \in {"halting", "took", "sweep"}
      BY <2>1 DEF Safe, OneProcess, Owners
    <2>3. pc[u] \in OffPoints
      BY <2>2 DEF Plain, OffPoints
    <2> QED BY <1>1, <2>3, GateShuts DEF ShutOff
  <1>3. /\ pipe' = pipe /\ slot'.sess = 0
        /\ child'[r].todo = <<>> /\ child'[r].phase = "booting"
        /\ \A q \in Runs \ {r} : child'[q] = child[q]
    BY HarnessTyped DEF Spawn, EmptySlot, TypeOK, HarnessOK
  <1>4. \A q \in Runs : pipe[q] = <<>> /\ child[q].todo = <<>>
    BY <1>2 DEF Alone
  <1>5. \A s : Speaks(<<>>, s)
    BY EmptySeq DEF Speaks
  <1>6. \A q \in Runs : Live(q)' => q = r
    BY <1>2, <1>3 DEF Live
  <1> QED BY <1>3, <1>4, <1>5, <1>6 DEF Alone

LEMMA FeedsAlone ==
  ASSUME TypeOK, Kept, Alone, NEW t \in Threads, NEW aged \in BOOLEAN, PumpWrites(t, aged)
  PROVE  Alone'
  <1>1. slot.run \in Runs /\ Live(slot.run)
    BY DEF PumpWrites, CanPump, Kept, SlotLives, TypeOK, MemoryOK, SlotType, Runs
  <1>2. PICK m : child' = [child EXCEPT ![slot.run].todo = Append(@, m)]
    BY <1>1 DEF PumpWrites
  <1>3. \A q \in Runs : child'[q].phase = child[q].phase /\ child'[q].sess = child[q].sess
                        /\ (q # slot.run => child'[q] = child[q])
    BY <1>1, <1>2, HarnessTyped DEF TypeOK, HarnessOK, ChildType
  <1>4. pipe' = pipe /\ slot' = slot
    BY DEF PumpWrites, memory
  <1> QED BY <1>1, <1>3, <1>4 DEF Alone, Live

LEMMA ReadAlone ==
  ASSUME TypeOK, Kept, Alone, NEW r \in Runs, ReadInit(r) \/ ReadResult(r)
  PROVE  Alone'
  <1>1. pipe[r] # <<>> /\ child' = child /\ pipe' = [pipe EXCEPT ![r] = Tail(pipe[r])]
    BY DEF ReadInit, ReadResult
  <1>2. Live(r)
    BY <1>1 DEF Alone
  <1>3. /\ pipe[r] \in Seq(EventType) /\ Head(pipe[r]).sess = child[r].sess
        /\ Speaks(Tail(pipe[r]), child[r].sess)
    BY <1>1, HarnessTyped, PipesLose DEF Alone
  <1>4. \A q \in Runs : pipe'[q] = IF q = r THEN Tail(pipe[r]) ELSE pipe[q]
    BY <1>1 DEF TypeOK, HarnessOK
  <1>5. slot'.run = slot.run
    BY DEF ReadInit, ReadResult, TypeOK, MemoryOK, SlotType
  <1>6. slot'.run # 0 => slot'.sess \in {0, child[slot.run].sess}
    <2>1. CASE ReadInit(r) /\ slot.run # 0
      <3>1. r = slot.run
        BY <1>2, <2>1, SlotAlone
      <3>2. slot'.sess = Head(pipe[r]).sess
        BY <2>1 DEF ReadInit, TypeOK, MemoryOK, SlotType
      <3> QED BY <1>3, <3>1, <3>2
    <2>2. CASE ReadResult(r) /\ slot.run # 0
      <3>1. slot'.sess = slot.sess
        BY <2>2 DEF ReadResult, TypeOK, MemoryOK, SlotType
      <3> QED BY <2>2, <3>1 DEF Alone
    <2> QED BY <1>5, <2>1, <2>2
  <1>7. child[r].phase # "booting"
    BY <1>1 DEF Alone
  <1> QED BY <1>1, <1>2, <1>3, <1>4, <1>5, <1>6, <1>7 DEF Alone, Live

LEMMA SaysAlone ==
  ASSUME TypeOK, Orderly, Alone, NEW r \in Runs,
         ChildInits(r) \/ \E e \in Ends : ChildEndsTurn(r, e)
  PROVE  Alone'
  <1>0. Ends \subseteq {"ok", "error", "auth"}
    BY DEF Ends, Orderly
  <1>1. PICK e \in {"init", "ok", "error", "auth"} : Says(r, e)
    BY <1>0 DEF ChildInits, ChildEndsTurn
  <1>2. slot' = slot /\ \A q \in Runs \ {r} : pipe'[q] = pipe[q]
    BY <1>1 DEF ChildInits, ChildEndsTurn, memory, Says, TypeOK, HarnessOK
  <1>4. /\ \A q \in Runs \ {r} : child'[q] = child[q]
        /\ child'[r].sess = child[r].sess /\ child'[r].phase = "ready" /\ Live(r)
    <2>1. child \in [Runs -> ChildType] /\ child[r] \in ChildType
      BY DEF TypeOK, HarnessOK
    <2>2. CASE ChildInits(r)
      BY <2>1, <2>2 DEF ChildInits, ChildType, Live
    <2>3. CASE \E x \in Ends : ChildEndsTurn(r, x)
      BY <2>1, <2>3 DEF ChildEndsTurn, ChildType, Live
    <2> QED BY <2>2, <2>3
  <1>3. Speaks(pipe'[r], child[r].sess)
    <2> DEFINE said == [ev |-> e, sess |-> child[r].sess]
    <2>1. said \in EventType /\ said.sess = child[r].sess
      <3>1. child[r].sess \in Sessions
        BY HarnessTyped DEF ChildType
      <3> QED BY <3>1 DEF EventType
    <2>2. pipe'[r] = Append(pipe[r], said)
      BY <1>1 DEF Says, TypeOK, HarnessOK
    <2>3. Speaks(pipe[r], child[r].sess)
      BY DEF Alone
    <2> HIDE DEF said
    <2> QED BY <2>1, <2>2, <2>3, HarnessTyped, PipesGain
  <1>5. \A q \in Runs : Live(q)' => Live(q)
    BY <1>4 DEF Live
  <1>6. ASSUME NEW q \in Runs
        PROVE  /\ ~Live(q)' => child'[q].todo = <<>> /\ pipe'[q] = <<>>
               /\ child'[q].phase = "booting" => pipe'[q] = <<>>
               /\ Speaks(pipe'[q], child'[q].sess)
    BY <1>2, <1>3, <1>4 DEF Alone, Live
  <1>7. slot'.run # 0 => slot'.sess \in {0, child'[slot'.run].sess}
    <2>1. slot.run \in Runs \cup {0}
      BY DEF TypeOK, MemoryOK, SlotType, Runs
    <2> QED BY <1>2, <1>4, <2>1 DEF Alone
  <1> QED BY <1>5, <1>6, <1>7 DEF Alone, Live

\* The steps that concern a process, or a turn under way.
Concerns(t) ==
  \/ PumpAdvances(t) \/ DrainEnds(t) \/ ShutdownMarks(t) \/ ShutdownKills(t) \/ Exit(t)
  \/ \E aged \in BOOLEAN : PumpWrites(t, aged)
  \/ \E r \in Runs : Spawn(t, r)

Speaking(r) ==
  ReadInit(r) \/ ReadResult(r) \/ ChildInits(r) \/ \E e \in Ends : ChildEndsTurn(r, e)

LEMMA NextByKind ==
  ASSUME TypeOK, Orderly, Plain, Kept, [Next]_vars
  PROVE  \/ \E t \in Threads : Steady(t) \/ Empties(t) \/ Concerns(t)
         \/ \E r \in Runs : Speaking(r)
         \/ UNCHANGED vars
  <1>1. ASSUME NEW t \in Tasks, Asked(t) \/ WindowOpens(t)
        PROVE  \E u \in Threads : Steady(u) \/ Empties(u)
    BY <1>1, AskedIsSteady DEF Threads
  <1>2. ASSUME NEW t \in Threads, Works(t)
        PROVE  Steady(t) \/ Empties(t) \/ Concerns(t)
    <2>1. Chores(t) \/ TakeAndKill(t) \/ Concerns(t)
      BY <1>2, Zenon DEF Works, Chores, Concerns
    <2> QED BY <2>1, ChoresAreSteady, TakeEmpties
  <1>3. ASSUME NEW t \in Threads, Fails(t) PROVE Steady(t)
    BY <1>3, FailsIsSteady
  <1>4. ASSUME NEW r \in Runs, Reads(r) \/ ReaderFails(r) PROVE Steady(r) \/ Speaking(r)
    BY <1>4, ReadsAreSteady DEF Speaking
  <1>5. Runs \subseteq Threads
    BY DEF Threads
  <1> QED
    BY <1>1, <1>2, <1>3, <1>4, <1>5 DEF Next, Rest, Speaking

LEMMA AloneAtFirst == Init => Alone
  <1>1. \A s : Speaks(<<>>, s)
    BY EmptySeq DEF Speaks
  <1> QED BY <1>1 DEF Init, Alone, Live, NoChild, EmptySlot

LEMMA AloneNext ==
  ASSUME TypeOK, Orderly, Safe, Plain, Kept, Gate, Alone, [Next]_vars
  PROVE  Alone'
  <1>1. ASSUME NEW t \in Threads, Steady(t) PROVE Alone'
    BY <1>1, SameHarnessAlone DEF Steady
  <1>2. ASSUME NEW t \in Threads, Empties(t) PROVE Alone'
    BY <1>2, KillsAlone DEF Empties, EmptySlot
  <1>3. ASSUME NEW t \in Threads, Concerns(t) PROVE Alone'
    <2>1. ASSUME NEW r \in Runs, Spawn(t, r) PROVE Alone'
      BY <2>1, SpawnAlone
    <2>2. ASSUME NEW aged \in BOOLEAN, PumpWrites(t, aged) PROVE Alone'
      BY <2>2, FeedsAlone
    <2>3. CASE PumpAdvances(t)
      <3>1. slot'.run = slot.run /\ slot'.sess = slot.sess
        BY <2>3 DEF PumpAdvances, TypeOK, MemoryOK, SlotType
      <3> QED BY <2>3, <3>1, SameHarnessAlone DEF PumpAdvances, harness
    <2>4. CASE DrainEnds(t)
      BY <2>4, SameHarnessAlone DEF DrainEnds, harness, EmptySlot
    <2>5. CASE ShutdownMarks(t)
      BY <2>5, SameHarnessAlone DEF ShutdownMarks, harness, memory
    <2>6. CASE ShutdownKills(t)
      <3>1. slot' = slot /\ slot.run = 0
        BY <2>6, GateShuts DEF ShutdownKills, memory, At, ShutOff, OffPoints
      <3> QED BY <2>6, <3>1, KillsAlone DEF ShutdownKills
    <2>7. CASE Exit(t)
      BY <2>7, KillsAlone DEF Exit, Reboot, EmptySlot
    <2> QED BY <1>3, <2>1, <2>2, <2>3, <2>4, <2>5, <2>6, <2>7 DEF Concerns
  <1>4. ASSUME NEW r \in Runs, Speaking(r) PROVE Alone'
    BY <1>4, ReadAlone, SaysAlone DEF Speaking
  <1>5. CASE UNCHANGED vars
    BY <1>5, SameHarnessAlone DEF vars, harness, memory
  <1> QED BY <1>1, <1>2, <1>3, <1>4, <1>5, NextByKind

-----------------------------------------------------------------------------
(* Each turn once. *)

LEMMA SteadyServes ==
  ASSUME TypeOK, Served, NEW t \in Threads, Steady(t)
  PROVE  Served'
  <1>0. /\ slot' = slot /\ child' = child /\ pipe' = pipe /\ ran' = ran
        /\ \A u \in Threads \ {t} : pc'[u] = pc[u] /\ loc'[u].msgs = loc[u].msgs
                                    /\ loc'[u].kind = loc[u].kind
        /\ pc[t] \notin {"writing", "took"}
        /\ pc'[t] \notin {"writing", "took", "settle"}
    BY DEF Steady, OnlyMoves
  <1>1. \A m : Given(m)' <=> Given(m)
    BY <1>0 DEF Given
  <1>2. Serving'
    BY <1>0, <1>1 DEF Served, Serving, Running, Ended, Unasked
  <1>3. \A m \in Msgs : row[m].state = "consumed" => row'[m] = row[m]
    BY DEF Steady, RowFits
  <1>4. Undone'
    <2> SUFFICES ASSUME NEW r \in Runs, child[r].todo # <<>>
                 PROVE  \E m \in Msgs :
                          /\ child[r].todo = <<m>> /\ ran[m] = 0
                          /\ \/ Given(m)
                             \/ row'[m].state = "consumed"
                             \/ \E u \in Threads : pc'[u] = "took" /\ m \in loc'[u].msgs
      BY <1>0, <1>1 DEF Undone
    <2>1. PICK m \in Msgs :
            /\ child[r].todo = <<m>> /\ ran[m] = 0
            /\ \/ Given(m)
               \/ row[m].state = "consumed"
               \/ \E u \in Threads : pc[u] = "took" /\ m \in loc[u].msgs
      BY DEF Served, Undone
    <2>2. \A u \in Threads : pc[u] = "took" => pc'[u] = "took" /\ loc'[u].msgs = loc[u].msgs
      BY <1>0
    <2> QED BY <1>3, <2>1, <2>2
  <1>5. \A u \in Threads : pc'[u] = "settle" =>
          \A m \in loc'[u].msgs : ran[m] = IF loc'[u].kind = "ok" THEN 1 ELSE 0
    BY <1>0 DEF Served, Told
  <1>6. ASSUME NEW m \in Msgs
        PROVE  /\ row'[m].state = "absent" \/ (row'[m].state = "queued" /\ ~Given(m))
                    => ran[m] = 0
               /\ row'[m].state = "consumed" /\ ~row'[m].isError => ran[m] = 1
               /\ row'[m].isError => row'[m].state = "consumed"
    <2>1. /\ row[m].state = "absent" \/ (row[m].state = "queued" /\ ~Given(m))
               => ran[m] = 0
          /\ row[m].state = "consumed" /\ ~row[m].isError => ran[m] = 1
          /\ row[m].isError => row[m].state = "consumed"
      BY DEF Served, Told, ConsumedExactlyOnce
    <2>2. m \in Hand(t) /\ pc[t] = "settle" =>
            ran[m] = IF loc[t].kind = "ok" THEN 1 ELSE 0
      BY DEF Served, Told, Hand
    <2>3. RowFits(t, m)
      BY DEF Steady
    <2> QED BY <2>1, <2>2, <2>3 DEF RowFits
  <1>7. Told'
    BY <1>0, <1>1, <1>5, <1>6 DEF Told
  <1>8. ConsumedExactlyOnce'
    BY <1>0, <1>6 DEF Served, ConsumedExactlyOnce
  <1> QED BY <1>2, <1>4, <1>7, <1>8 DEF Served

\* With the mutex free, what has been given is in flight, and so delivered.
LEMMA GivenWhenFree ==
  ASSUME Kept, LockFree
  PROVE  \A m : Given(m) <=> m \in slot.inFlight
  BY DEF Given, LockFree, Holding

\* Rows, counts and the slot's turn end where they were, and no turn is under way.
LEMMA NothingGiven ==
  ASSUME Kept, Served, row' = row, ran' = ran,
         \A m \in Msgs : Given(m) => row[m].state = "delivered",
         \A m : ~Given(m)',
         slot'.run = 0,
         \A u \in Threads : pc'[u] = "settle" =>
           pc[u] = "settle" /\ loc'[u].msgs = loc[u].msgs /\ loc'[u].kind = loc[u].kind
  PROVE  Serving' /\ Told' /\ ConsumedExactlyOnce'
  <1>1. Serving'
    BY DEF Serving
  <1>2. Told'
    BY DEF Served, Told
  <1>3. ConsumedExactlyOnce'
    BY DEF Served, ConsumedExactlyOnce
  <1> QED BY <1>1, <1>2, <1>3

LEMMA EmptiesServes ==
  ASSUME TypeOK, Kept, Alone, Served, NEW t \in Threads, Empties(t)
  PROVE  Served'
  <1>0. /\ LockFree /\ slot' = EmptySlot /\ Kill(SlotRuns) /\ row' = row /\ ran' = ran
        /\ \A u \in Threads \ {t} : pc'[u] = pc[u] /\ loc'[u].msgs = loc[u].msgs
                                    /\ loc'[u].kind = loc[u].kind
        /\ pc[t] # "took" /\ pc'[t] \notin {"writing", "took", "settle"}
    BY DEF Empties, OnlyMoves
  <1>1. \A m : ~Given(m)'
    BY <1>0 DEF Given, EmptySlot, LockFree, Holding
  <1>2. \A m \in Msgs : Given(m) => row[m].state = "delivered"
    BY <1>0, GivenWhenFree DEF Kept, Custody
  <1>3. Serving' /\ Told' /\ ConsumedExactlyOnce'
    BY <1>0, <1>1, <1>2, NothingGiven DEF EmptySlot
  <1>4. Undone'
    <2> SUFFICES ASSUME NEW r \in Runs, child'[r].todo # <<>>
                 PROVE  \E m \in Msgs :
                          /\ child'[r].todo = <<m>> /\ ran[m] = 0
                          /\ \/ row[m].state = "consumed"
                             \/ \E u \in Threads : pc'[u] = "took" /\ m \in loc'[u].msgs
      BY <1>0 DEF Undone
    <2>1. r \notin SlotRuns /\ child'[r] = child[r]
      BY <1>0, HarnessTyped DEF Kill, ChildType
    <2>2. Live(r) /\ slot.run = 0
      BY <2>1, SlotAlone DEF Alone, SlotRuns, Runs
    <2>3. \A m : ~Given(m)
      BY <1>0, <2>2, GivenWhenFree DEF Kept, Custody
    <2>4. PICK m \in Msgs :
            /\ child[r].todo = <<m>> /\ ran[m] = 0
            /\ \/ row[m].state = "consumed"
               \/ \E u \in Threads : pc[u] = "took" /\ m \in loc[u].msgs
      BY <2>1, <2>3 DEF Served, Undone
    <2>5. \A u \in Threads : pc[u] = "took" => pc'[u] = "took" /\ loc'[u].msgs = loc[u].msgs
      BY <1>0
    <2> QED BY <2>1, <2>4, <2>5
  <1> QED BY <1>3, <1>4 DEF Served

\* An empty slot has given nothing.
LEMMA NothingGivenByNobody ==
  ASSUME Kept, slot.run = 0
  PROVE  \A m : ~Given(m)
  BY DEF Kept, Custody, Given

LEMMA DrainServes ==
  ASSUME TypeOK, Kept, Served, NEW t \in Threads, DrainEnds(t)
  PROVE  Served'
  <1>0. /\ LockFree /\ slot' = EmptySlot /\ child' = child /\ row' = row /\ ran' = ran
        /\ pc[t] = "drain" /\ pc'[t] = IF slot.run = 0 THEN "off" ELSE "took"
        /\ \A u \in Threads \ {t} : pc'[u] = pc[u] /\ loc'[u] = loc[u]
    BY DEF DrainEnds, harness, db, history, At, Goto, Keep, TypeOK, ThreadsOK
  <1>a. loc'[t].msgs = slot.inFlight
    <2>1. loc'[t] = [loc[t] EXCEPT !.run = slot.run, !.msgs = slot.inFlight]
      BY DEF DrainEnds, Keep, TypeOK, ThreadsOK
    <2> QED BY <2>1, LocOK DEF TypeOK, LocType
  <1>1. \A m : ~Given(m)'
    BY <1>0 DEF Given, EmptySlot, LockFree, Holding
  <1>2. \A m : Given(m) <=> m \in slot.inFlight
    BY <1>0, GivenWhenFree
  <1>3. \A m \in Msgs : Given(m) => row[m].state = "delivered"
    BY <1>2 DEF Kept, Custody
  <1>4. Serving' /\ Told' /\ ConsumedExactlyOnce'
    BY <1>0, <1>1, <1>3, NothingGiven DEF EmptySlot
  <1>5. Undone'
    <2> SUFFICES ASSUME NEW r \in Runs, child[r].todo # <<>>
                 PROVE  \E m \in Msgs :
                          /\ child[r].todo = <<m>> /\ ran[m] = 0
                          /\ \/ row[m].state = "consumed"
                             \/ \E u \in Threads : pc'[u] = "took" /\ m \in loc'[u].msgs
      BY <1>0 DEF Undone
    <2>1. PICK m \in Msgs :
            /\ child[r].todo = <<m>> /\ ran[m] = 0
            /\ \/ Given(m)
               \/ row[m].state = "consumed"
               \/ \E u \in Threads : pc[u] = "took" /\ m \in loc[u].msgs
      BY DEF Served, Undone
    <2>2. CASE Given(m)
      <3>1. slot.run # 0 /\ m \in slot.inFlight
        BY <1>2, <2>2 DEF Kept, Custody
      <3> QED BY <1>0, <1>a, <2>1, <3>1
    <2>3. CASE ~Given(m)
      <3>1. \A u \in Threads : pc[u] = "took" => pc'[u] = "took" /\ loc'[u] = loc[u]
        BY <1>0
      <3> QED BY <2>1, <2>3, <3>1
    <2> QED BY <2>2, <2>3
  <1> QED BY <1>4, <1>5 DEF Served

LEMMA MarksServe ==
  ASSUME TypeOK, Kept, Served, NEW t \in Threads, ShutdownMarks(t)
  PROVE  Served'
  <1>0. /\ slot' = slot /\ child' = child /\ pipe' = pipe /\ ran' = ran /\ loc' = loc
        /\ row' = MarkError(row, loc[t].msgs)
        /\ pc[t] = "took" /\ pc'[t] = "sweep"
        /\ \A u \in Threads \ {t} : pc'[u] = pc[u]
    BY DEF ShutdownMarks, memory, harness, history, At, Goto, TypeOK, ThreadsOK
  <1>1. \A m : Given(m)' <=> Given(m)
    BY <1>0 DEF Given
  <1>2. Serving'
    BY <1>0, <1>1 DEF Served, Serving, Running, Ended, Unasked
  <1>3. ASSUME NEW m \in Msgs
        PROVE  /\ m \in loc[t].msgs => row'[m].state = "consumed" /\ row'[m].isError
               /\ m \notin loc[t].msgs => row'[m] = row[m]
    <2>1. m \in loc[t].msgs => row[m].state = "delivered"
      BY <1>0 DEF Kept, Custody, Hand
    <2> QED BY <1>0, <2>1, RowsAreWellFormed, StatesAfter, ErrorsAfter
  <1>4. Undone'
    <2> SUFFICES ASSUME NEW r \in Runs, child[r].todo # <<>>
                 PROVE  \E m \in Msgs :
                          /\ child[r].todo = <<m>> /\ ran[m] = 0
                          /\ \/ Given(m)
                             \/ row'[m].state = "consumed"
                             \/ \E u \in Threads : pc'[u] = "took" /\ m \in loc[u].msgs
      BY <1>0, <1>1 DEF Undone
    <2>1. PICK m \in Msgs :
            /\ child[r].todo = <<m>> /\ ran[m] = 0
            /\ \/ Given(m)
               \/ row[m].state = "consumed"
               \/ \E u \in Threads : pc[u] = "took" /\ m \in loc[u].msgs
      BY DEF Served, Undone
    <2> QED BY <1>0, <1>3, <2>1
  <1>5. Told'
    BY <1>0, <1>1, <1>3 DEF Served, Told
  <1>6. ConsumedExactlyOnce'
    BY <1>0, <1>3 DEF Served, ConsumedExactlyOnce
  <1> QED BY <1>2, <1>4, <1>5, <1>6 DEF Served

LEMMA SweepServes ==
  ASSUME TypeOK, Kept, Gate, Alone, Served, NEW t \in Threads, ShutdownKills(t)
  PROVE  Served'
  <1>0. /\ slot' = slot /\ Kill({loc[t].run}) /\ row' = row /\ ran' = ran /\ loc' = loc
        /\ pc[t] = "sweep" /\ pc'[t] = "off"
        /\ \A u \in Threads \ {t} : pc'[u] = pc[u]
    BY DEF ShutdownKills, memory, history, At, Goto, TypeOK, ThreadsOK
  <1>1. slot.run = 0
    BY <1>0, GateShuts DEF ShutOff, OffPoints
  <1>2. \A m : ~Given(m)
    BY <1>1, NothingGivenByNobody
  <1>3. \A m : ~Given(m)'
    BY <1>0, <1>2 DEF Given
  <1>4. Serving' /\ Told' /\ ConsumedExactlyOnce'
    BY <1>0, <1>1, <1>2, <1>3, NothingGiven
  <1>5. Undone'
    <2> SUFFICES ASSUME NEW r \in Runs, child'[r].todo # <<>>
                 PROVE  \E m \in Msgs :
                          /\ child'[r].todo = <<m>> /\ ran[m] = 0
                          /\ \/ row[m].state = "consumed"
                             \/ \E u \in Threads : pc'[u] = "took" /\ m \in loc[u].msgs
      BY <1>0 DEF Undone
    <2>1. child'[r] = child[r]
      BY <1>0, HarnessTyped DEF Kill, ChildType
    <2>2. PICK m \in Msgs :
            /\ child[r].todo = <<m>> /\ ran[m] = 0
            /\ \/ row[m].state = "consumed"
               \/ \E u \in Threads : pc[u] = "took" /\ m \in loc[u].msgs
      BY <1>2, <2>1 DEF Served, Undone
    <2>3. \A u \in Threads : pc[u] = "took" => pc'[u] = "took"
      BY <1>0
    <2> QED BY <2>1, <2>2, <2>3
  <1> QED BY <1>4, <1>5 DEF Served

LEMMA ExitServes ==
  ASSUME TypeOK, Kept, Gate, Alone, Served, NEW t \in Threads, Exit(t)
  PROVE  Served'
  <1>0. /\ slot' = EmptySlot /\ Kill({r \in Runs : Live(r)}) /\ row' = row /\ ran' = ran
        /\ pc[t] = "off"
        /\ \A u \in Threads : pc'[u] \in {"boot", "free", "unborn", "gone"}
    BY DEF Exit, Reboot, db, history, At
  <1>1. \A m : ~Given(m)
    BY <1>0, GateShuts, NothingGivenByNobody DEF ShutOff, OffPoints
  <1>2. \A m : ~Given(m)'
    BY <1>0 DEF Given, EmptySlot
  <1>3. Serving' /\ Told' /\ ConsumedExactlyOnce'
    BY <1>0, <1>1, <1>2, NothingGiven DEF EmptySlot
  <1>4. \A r \in Runs : child'[r].todo = <<>>
    BY <1>0, HarnessTyped DEF Kill, ChildType, Alone
  <1>5. Undone'
    BY <1>4 DEF Undone
  <1> QED BY <1>3, <1>5 DEF Served

LEMMA SpawnServes ==
  ASSUME TypeOK, Safe, Plain, Kept, Gate, Alone, Alone', Served,
         NEW t \in Threads, NEW r \in Runs, Spawn(t, r)
  PROVE  Served'
  <1>0. /\ pc[t] = "spawning" /\ pc[r] = "unborn" /\ t # r /\ r \in Threads
        /\ slot.run = 0 /\ row' = row /\ ran' = ran /\ pipe' = pipe
        /\ slot'.run = r /\ slot'.inFlight = {}
    BY DEF Spawn, At, Threads, Safe, LockOK, EmptySlot, history
  <1>1. /\ pc'[t] \in {"deliver", "pump"} /\ pc'[r] = "read"
        /\ \A u \in Threads \ {t, r} : pc'[u] = pc[u] /\ loc'[u] = loc[u]
    BY <1>0 DEF Spawn, Keep, TypeOK, ThreadsOK
  <1>2. \A m : ~Given(m)
    BY <1>0, NothingGivenByNobody
  <1>3. \A m : ~Given(m)'
    BY <1>0, <1>1, <1>2 DEF Given
  <1>4. /\ child'[r].phase = "booting" /\ child'[r].todo = <<>>
        /\ \A q \in Runs \ {r} : child'[q] = child[q]
    BY HarnessTyped DEF Spawn, TypeOK, HarnessOK
  <1>5. pipe'[r] = <<>>
    BY <1>4 DEF Alone
  <1>6. Serving'
    BY <1>0, <1>3, <1>4, <1>5, EmptySeq DEF Serving, Unasked, Silent
  <1>7. Undone'
    <2>1. \A q \in Runs \ {r} : ~Live(q)'
      BY <1>4 DEF Alone, Live
    <2> QED BY <1>4, <2>1 DEF Undone, Alone
  <1>8. Told'
    BY <1>0, <1>1, <1>2, <1>3 DEF Served, Told
  <1>9. ConsumedExactlyOnce'
    BY <1>0 DEF Served, ConsumedExactlyOnce
  <1> QED BY <1>6, <1>7, <1>8, <1>9 DEF Served

\* A message is given to a process that has nothing else to answer for.
LEMMA WritesServe ==
  ASSUME TypeOK, Kept, Alone, Served, NEW t \in Threads,
         NEW aged \in BOOLEAN, PumpWrites(t, aged)
  PROVE  Served'
  <1>0. /\ LockFree /\ CanPump /\ slot' = slot /\ row' = row /\ ran' = ran /\ pipe' = pipe
        /\ pc[t] = "pump" /\ slot.inFlight = {} /\ slot.run # 0
    BY DEF PumpWrites, CanPump, At, db, memory, history
  <1>1. slot.run \in Runs /\ Live(slot.run)
    BY <1>0 DEF Kept, SlotLives, TypeOK, MemoryOK, SlotType, Runs
  <1>2. \A n : ~Given(n)
    BY <1>0, GivenWhenFree
  <1>3. PICK m \in NextForDelivery(row, slot.consec, aged) :
          /\ child' = [child EXCEPT ![slot.run].todo = Append(@, m)]
          /\ Goto(t, "writing") /\ Keep(t, [loc[t] EXCEPT !.msgs = {m}])
    BY <1>1 DEF PumpWrites
  <1>4. m \in Msgs /\ row[m].state = "queued"
    BY <1>3, PicksFromTheQueue DEF Queued, InState
  <1>5. ran[m] = 0
    BY <1>2, <1>4 DEF Served, Told
  <1>6. /\ pc'[t] = "writing" /\ loc'[t].msgs = {m}
        /\ \A u \in Threads \ {t} : pc'[u] = pc[u] /\ loc'[u] = loc[u]
    BY <1>3, LocOK DEF Goto, Keep, TypeOK, ThreadsOK, LocType
  <1>7. \A n : Given(n)' <=> n = m
    BY <1>0, <1>6 DEF Given, LockFree, Holding
  <1>8. Unasked(slot.run)
    BY <1>0, <1>2 DEF Served, Serving
  <1>9. /\ child'[slot.run].todo = <<m>>
        /\ \A q \in Runs \ {slot.run} : child'[q] = child[q]
    <2>1. child[slot.run] \in ChildType /\ child \in [Runs -> ChildType]
      BY <1>1, HarnessTyped DEF TypeOK, HarnessOK
    <2>2. child'[slot.run].todo = Append(child[slot.run].todo, m)
          /\ \A q \in Runs \ {slot.run} : child'[q] = child[q]
      BY <1>1, <1>3, <2>1 DEF ChildType
    <2>3. child[slot.run].todo = <<>>
      BY <1>8 DEF Unasked
    <2> QED BY <2>2, <2>3
  <1>10. Running(m, slot.run)'
    BY <1>0, <1>5, <1>8, <1>9 DEF Running, Unasked
  <1>11. Serving'
    BY <1>0, <1>4, <1>7, <1>10 DEF Serving
  <1>12. \A q \in Runs \ {slot.run} : child[q].todo = <<>>
    BY <1>0, SlotAlone DEF Alone
  <1>13. Undone'
    BY <1>0, <1>4, <1>5, <1>7, <1>9, <1>12 DEF Undone
  <1>14. Told'
    BY <1>0, <1>2, <1>5, <1>6 DEF Served, Told
  <1>15. ConsumedExactlyOnce'
    BY <1>0 DEF Served, ConsumedExactlyOnce
  <1> QED BY <1>11, <1>13, <1>14, <1>15 DEF Served

\* What was given is in flight from now on, and its row says so.
LEMMA AdvancesServe ==
  ASSUME TypeOK, Safe, Kept, Served, NEW t \in Threads, PumpAdvances(t)
  PROVE  Served'
  <1>0. /\ pc[t] = "writing" /\ slot'.inFlight = loc[t].msgs /\ slot'.run = slot.run
        /\ row' = MarkDelivered(row, loc[t].msgs)
        /\ child' = child /\ pipe' = pipe /\ ran' = ran
        /\ pc'[t] \in {"read", "free"}
        /\ \A u \in Threads \ {t} : pc'[u] = pc[u] /\ loc'[u] = loc[u]
    BY DEF PumpAdvances, At, Goto, Keep, Finish, harness, history, TypeOK, ThreadsOK,
    MemoryOK, SlotType
  <1>1. slot.inFlight = {} /\ \A m \in loc[t].msgs : row[m].state = "queued"
    BY <1>0 DEF Kept, Custody, Hand
  <1>2. \A u \in Threads \ {t} : pc[u] # "writing"
    BY <1>0 DEF Safe, LockOK, Holding
  <1>3. \A m : Given(m)' <=> m \in loc[t].msgs
    BY <1>0, <1>2 DEF Given
  <1>4. \A m : Given(m) <=> m \in loc[t].msgs
    BY <1>0, <1>1, <1>2 DEF Given
  <1>5. Serving'
    BY <1>0, <1>3, <1>4 DEF Served, Serving, Running, Ended, Unasked
  <1>6. ASSUME NEW m \in Msgs
        PROVE  /\ m \in loc[t].msgs => row'[m].state = "delivered"
               /\ m \notin loc[t].msgs => row'[m] = row[m]
               /\ row'[m].isError = row[m].isError
    BY <1>0, <1>1, RowsAreWellFormed, StatesAfter, ErrorsAfter
  <1>7. Undone'
    <2> SUFFICES ASSUME NEW r \in Runs, child[r].todo # <<>>
                 PROVE  \E m \in Msgs :
                          /\ child[r].todo = <<m>> /\ ran[m] = 0
                          /\ \/ Given(m)'
                             \/ row'[m].state = "consumed"
                             \/ \E u \in Threads : pc'[u] = "took" /\ m \in loc'[u].msgs
      BY <1>0 DEF Undone
    <2>1. PICK m \in Msgs :
            /\ child[r].todo = <<m>> /\ ran[m] = 0
            /\ \/ Given(m)
               \/ row[m].state = "consumed"
               \/ \E u \in Threads : pc[u] = "took" /\ m \in loc[u].msgs
      BY DEF Served, Undone
    <2>2. \A u \in Threads : pc[u] = "took" => pc'[u] = "took" /\ loc'[u] = loc[u]
      BY <1>0
    <2> QED BY <1>3, <1>4, <1>6, <2>1, <2>2
  <1>8. Told'
    <2>1. \A u \in Threads : pc'[u] = "settle" => pc[u] = "settle" /\ loc'[u] = loc[u]
      BY <1>0
    <2> QED BY <1>0, <1>3, <1>4, <1>6, <2>1 DEF Served, Told
  <1>9. ConsumedExactlyOnce'
    <2> SUFFICES ASSUME NEW m \in Msgs
                 PROVE  /\ ran[m] <= 1
                        /\ row'[m].state = "consumed" /\ ~row'[m].isError => ran[m] = 1
                        /\ row'[m].isError => row'[m].state = "consumed"
      BY <1>0 DEF ConsumedExactlyOnce
    <2>1. m \in loc[t].msgs => ~row[m].isError
      BY <1>1 DEF Served, ConsumedExactlyOnce, Kept
    <2>2. row[m].isError \in BOOLEAN
      BY DEF TypeOK, RowsOK, Row
    <2> QED BY <1>6, <2>1 DEF Served, ConsumedExactlyOnce
  <1> QED BY <1>5, <1>7, <1>8, <1>9 DEF Served

LEMMA ConcernsServe ==
  ASSUME TypeOK, Safe, Plain, Kept, Gate, Alone, Alone', Served,
         NEW t \in Threads, Concerns(t)
  PROVE  Served'
  BY WritesServe, AdvancesServe, DrainServes, MarksServe, SweepServes, ExitServes,
  SpawnServes DEF Concerns

\* Reading an `init` leaves what the process has to answer for as it was.
LEMMA InitServes ==
  ASSUME TypeOK, Kept, Alone, Served, NEW r \in Runs, ReadInit(r)
  PROVE  Served'
  <1>0. /\ LockFree /\ child' = child /\ row' = row /\ ran' = ran
        /\ slot'.run = slot.run /\ slot'.inFlight = slot.inFlight
        /\ pipe[r] # <<>> /\ Head(pipe[r]).ev = "init"
        /\ pc[r] = "read" /\ r \in Threads
    BY HarnessTyped DEF ReadInit, At, history, TypeOK, MemoryOK, SlotType
  <1>1. /\ pipe'[r] = Tail(pipe[r]) /\ \A q \in Runs \ {r} : pipe'[q] = pipe[q]
        /\ pc'[r] = "pump" /\ \A u \in Threads \ {r} : pc'[u] = pc[u] /\ loc'[u] = loc[u]
    BY <1>0 DEF ReadInit, Goto, Keep, TypeOK, HarnessOK, ThreadsOK
  <1>2. \A m : Given(m)' <=> Given(m)
    BY <1>0, <1>1 DEF Given
  <1>3. slot.run # 0 => r = slot.run
    BY <1>0, SlotAlone DEF Alone
  <1>4. ASSUME NEW m
        PROVE  /\ Running(m, r) => Running(m, r)'
               /\ Ended(m, r) => Ended(m, r)'
               /\ Unasked(r) => Unasked(r)'
    <2>1. /\ Silent(pipe[r]) => Silent(pipe'[r])
          /\ Closes(pipe[r]) => /\ Closes(pipe'[r])
                                /\ pipe'[r][Len(pipe'[r])] = pipe[r][Len(pipe[r])]
      BY <1>0, <1>1, HarnessTyped, PipesLose
    <2> QED BY <1>0, <2>1 DEF Running, Ended, Unasked
  <1>5. Serving'
    BY <1>0, <1>2, <1>3, <1>4 DEF Served, Serving
  <1>6. Undone'
    <2>1. \A u \in Threads : pc[u] = "took" => pc'[u] = "took" /\ loc'[u] = loc[u]
      BY <1>0, <1>1
    <2> QED BY <1>0, <1>2, <2>1 DEF Served, Undone
  <1>7. Told'
    <2>1. \A u \in Threads : pc'[u] = "settle" => pc[u] = "settle" /\ loc'[u] = loc[u]
      BY <1>1
    <2> QED BY <1>0, <1>2, <2>1 DEF Served, Told
  <1>8. ConsumedExactlyOnce'
    BY <1>0 DEF Served, ConsumedExactlyOnce
  <1> QED BY <1>5, <1>6, <1>7, <1>8 DEF Served

\* Reading how a turn ended hands the message that was given to the reader.
LEMMA ResultServes ==
  ASSUME TypeOK, Plain, Kept, Alone, Served, NEW r \in Runs, ReadResult(r)
  PROVE  Served'
  <1>0. /\ LockFree /\ child' = child /\ row' = row /\ ran' = ran
        /\ slot'.run = slot.run
        /\ pipe[r] # <<>> /\ Head(pipe[r]).ev # "init"
        /\ pc[r] = "read" /\ r \in Threads
    BY HarnessTyped DEF ReadResult, At, db, history, TypeOK, MemoryOK, SlotType
  <1>1. /\ pipe'[r] = Tail(pipe[r])
        /\ \A u \in Threads \ {r} : pc'[u] = pc[u] /\ loc'[u] = loc[u]
    BY <1>0 DEF ReadResult, Goto, Keep, TypeOK, HarnessOK, ThreadsOK
  <1>2. Live(r) /\ (slot.run # 0 => r = slot.run)
    BY <1>0, SlotAlone DEF Alone
  <1>3. \A m : Given(m) <=> m \in slot.inFlight
    BY <1>0, GivenWhenFree
  <1>4. CASE Matches(Head(pipe[r]))
    <2>1. Head(pipe[r]).ev # "limit"
      BY <1>0, PlainPipes DEF PlainEvent
    <2>2. /\ slot'.inFlight = {} /\ pc'[r] = "settle"
          /\ loc'[r].msgs = slot.inFlight /\ loc'[r].kind = Head(pipe[r]).ev
      <3>1. /\ slot' = [slot EXCEPT !.inFlight = {}] /\ pc'[r] = "settle"
            /\ loc'[r] = [loc[r] EXCEPT !.msgs = slot.inFlight, !.kind = Head(pipe[r]).ev,
                            !.run = slot.run, !.gen = slot.gen,
                            !.onFallback = slot.onFallback]
        BY <1>0, <1>4, <2>1 DEF ReadResult, Goto, Keep, TypeOK, ThreadsOK
      <3> QED BY <1>0, <3>1, LocOK DEF TypeOK, MemoryOK, SlotType, LocType
    <2>3. \A m : ~Given(m)'
      BY <1>0, <1>1, <2>2 DEF Given, LockFree, Holding
    <2>4. /\ slot.run # 0 => Unasked(r)'
          /\ \A m \in slot.inFlight : ran[m] = IF Head(pipe[r]).ev = "ok" THEN 1 ELSE 0
          /\ slot.run # 0 => child[r].todo = <<>>
      <3>1. CASE slot.run = 0
        BY <3>1 DEF Kept, Custody
      <3>2. CASE slot.run # 0
        <4>1. ~Silent(pipe[r])
          BY <1>0, HarnessTyped, PipesLose
        <4>2. PICK m \in Msgs : Given(m) /\ Ended(m, r)
          BY <1>2, <3>2, <4>1 DEF Served, Serving, Running, Unasked
        <4>3. \A n \in slot.inFlight : n = m
          BY <1>3, <4>2, HandsAreMessages, <1>0 DEF Served, Serving
        <4>4. Tail(pipe[r]) = <<>> /\ Head(pipe[r]) = pipe[r][Len(pipe[r])]
          BY <1>0, <4>2, HarnessTyped, PipesLose DEF Ended
        <4>5. Silent(<<>>)
          BY EmptySeq DEF Silent
        <4>6. Unasked(r)'
          BY <1>0, <1>1, <4>2, <4>4, <4>5 DEF Ended, Unasked, Silent
        <4>7. child[r].todo = <<>>
          BY <4>2 DEF Ended
        <4>8. \A n \in slot.inFlight : ran[n] = IF Head(pipe[r]).ev = "ok" THEN 1 ELSE 0
          BY <4>2, <4>3, <4>4 DEF Ended
        <4> QED BY <4>6, <4>7, <4>8
      <3> QED BY <3>1, <3>2
    <2>5. Serving'
      BY <1>0, <1>2, <2>3, <2>4 DEF Serving
    <2>6. Undone'
      <3>1. CASE slot.run # 0
        <4>1. \A q \in Runs : child[q].todo = <<>>
          BY <1>2, <2>4, <3>1 DEF Alone
        <4> QED BY <1>0, <4>1 DEF Undone
      <3>2. CASE slot.run = 0
        <4>1. \A m : ~Given(m)
          BY <3>2, NothingGivenByNobody
        <4>2. \A u \in Threads : pc[u] = "took" => pc'[u] = "took" /\ loc'[u] = loc[u]
          BY <1>0, <1>1
        <4> QED BY <1>0, <4>1, <4>2 DEF Served, Undone
      <3> QED BY <3>1, <3>2
    <2>7. Told'
      <3>1. \A m \in Msgs : Given(m) => row[m].state = "delivered"
        BY <1>3 DEF Kept, Custody
      <3> QED BY <1>0, <1>1, <2>2, <2>4, <3>1 DEF Served, Told
    <2>8. ConsumedExactlyOnce'
      BY <1>0 DEF Served, ConsumedExactlyOnce
    <2> QED BY <2>5, <2>6, <2>7, <2>8 DEF Served
  <1>5. CASE ~Matches(Head(pipe[r]))
    <2>1. slot' = slot /\ pc' = pc /\ loc' = loc
      BY <1>5 DEF ReadResult
    <2>2. slot.run = 0
      <3>1. Head(pipe[r]).sess = child[r].sess
        BY <1>0, HarnessTyped, PipesLose DEF Alone
      <3> QED BY <1>2, <1>5, <3>1 DEF Alone, Matches
    <2>3. \A m : Given(m)' <=> Given(m)
      BY <2>1 DEF Given
    <2>4. \A m : ~Given(m)
      BY <2>2, NothingGivenByNobody
    <2>5. Serving'
      BY <2>1, <2>2, <2>3, <2>4 DEF Serving
    <2>6. Undone' /\ Told' /\ ConsumedExactlyOnce'
      BY <1>0, <2>1, <2>3 DEF Served, Undone, Told, ConsumedExactlyOnce
    <2> QED BY <2>5, <2>6 DEF Served
  <1> QED BY <1>4, <1>5

\* A process that comes up has said nothing, and still has its turn to run.
LEMMA ComingUpServes ==
  ASSUME TypeOK, Alone, Served, NEW r \in Runs, ChildInits(r)
  PROVE  Served'
  <1>0. /\ slot' = slot /\ row' = row /\ ran' = ran /\ pc' = pc /\ loc' = loc
        /\ child[r].phase = "booting"
    BY DEF ChildInits, db, memory, threads, history
  <1> DEFINE said == [ev |-> "init", sess |-> child[r].sess]
  <1>1. /\ child'[r].todo = child[r].todo
        /\ \A q \in Runs \ {r} : child'[q] = child[q] /\ pipe'[q] = pipe[q]
        /\ pipe'[r] = Append(pipe[r], said)
    BY HarnessTyped DEF ChildInits, Says, TypeOK, HarnessOK, ChildType
  <1>2. said \in EventType /\ said.ev = "init"
    BY HarnessTyped DEF EventType, ChildType
  <1> HIDE DEF said
  <1>3. \A m : Given(m)' <=> Given(m)
    BY <1>0 DEF Given
  <1>4. pipe[r] = <<>>
    BY <1>0 DEF Alone
  <1>5. Silent(pipe[r]) => Silent(pipe'[r])
    BY <1>1, <1>2, HarnessTyped, PipesGain
  <1>6. ASSUME NEW q \in Runs, NEW m
        PROVE  /\ Running(m, q) => Running(m, q)'
               /\ Ended(m, q) => Ended(m, q)'
               /\ Unasked(q) => Unasked(q)'
    BY <1>0, <1>1, <1>4, <1>5 DEF Running, Ended, Unasked, Closes
  <1>7. slot.run \in Runs \cup {0}
    BY DEF TypeOK, MemoryOK, SlotType, Runs
  <1>8. Serving'
    BY <1>0, <1>3, <1>6, <1>7 DEF Served, Serving
  <1>9. \A q \in Runs : child'[q].todo = child[q].todo
    BY <1>1
  <1>10. Undone' /\ Told' /\ ConsumedExactlyOnce'
    BY <1>0, <1>3, <1>9 DEF Served, Undone, Told, ConsumedExactlyOnce
  <1> QED BY <1>8, <1>10 DEF Served

\* A turn ends: its message has run if it ended well, and the pipe says so.
LEMMA EndingServes ==
  ASSUME TypeOK, Orderly, Kept, Alone, Served, NEW r \in Runs, NEW e \in Ends,
         ChildEndsTurn(r, e)
  PROVE  Served'
  <1>0. /\ slot' = slot /\ row' = row /\ pc' = pc /\ loc' = loc
        /\ child[r].todo # <<>> /\ Live(r) /\ e \in {"ok", "error", "auth"}
    BY DEF ChildEndsTurn, db, memory, threads, Live, Ends, Orderly
  <1> DEFINE said == [ev |-> e, sess |-> child[r].sess]
  <1>1. PICK m \in Msgs :
          /\ child[r].todo = <<m>> /\ ran[m] = 0
          /\ \/ Given(m)
             \/ row[m].state = "consumed"
             \/ \E t \in Threads : pc[t] = "took" /\ m \in loc[t].msgs
    BY <1>0 DEF Served, Undone
  <1>2. /\ child'[r].todo = <<>>
        /\ \A q \in Runs \ {r} : child'[q] = child[q] /\ pipe'[q] = pipe[q]
        /\ pipe'[r] = Append(pipe[r], said)
    <2>1. Tail(<<m>>) = <<>> /\ child \in [Runs -> ChildType]
      BY DEF TypeOK, HarnessOK
    <2> QED
      BY <1>1, <2>1, HarnessTyped DEF ChildEndsTurn, Says, TypeOK, HarnessOK, ChildType
  <1>3. /\ ran'[m] = IF e = "ok" THEN 1 ELSE 0
        /\ \A n \in Msgs \ {m} : ran'[n] = ran[n]
    BY <1>1 DEF ChildEndsTurn, TypeOK, BookOK
  <1>4. said \in EventType /\ said.ev = e /\ e # "init"
    BY <1>0, HarnessTyped DEF EventType, ChildType
  <1> HIDE DEF said
  <1>5. \A n : Given(n)' <=> Given(n)
    BY <1>0 DEF Given
  <1>6. \A q \in Runs : child'[q].todo = <<>>
    BY <1>0, <1>2 DEF Alone
  <1>7. Serving'
    <2> SUFFICES ASSUME slot.run # 0 PROVE \E n \in Msgs : Given(n) /\ Ended(n, slot.run)'
      BY <1>0, <1>5 DEF Served, Serving
    <2>1. r = slot.run
      BY <1>0, SlotAlone
    <2>2. PICK n \in Msgs : Given(n) /\ Running(n, r)
      BY <1>0, <2>1 DEF Served, Serving, Ended, Unasked
    <2>3. n = m /\ Silent(pipe[r])
      BY <1>1, <2>2 DEF Running
    <2>4. Closes(pipe'[r]) /\ pipe'[r][Len(pipe'[r])] = said
      BY <1>2, <1>4, <2>3, HarnessTyped, PipesGain
    <2>5. Ended(m, r)'
      BY <1>2, <1>3, <1>4, <2>4 DEF Ended
    <2> QED BY <1>0, <2>1, <2>2, <2>3, <2>5
  <1>8. Undone'
    BY <1>6 DEF Undone
  <1>9. ASSUME NEW t \in Threads, pc[t] = "settle" PROVE m \notin loc[t].msgs
    <2> SUFFICES ASSUME m \in Hand(t) PROVE FALSE
      BY <1>9 DEF Hand
    <2>1. m \notin slot.inFlight /\ row[m].state = "delivered"
      BY <1>9 DEF Kept, Custody
    <2>2. PICK u \in Threads : pc[u] \in {"writing", "took"} /\ m \in loc[u].msgs
      BY <1>1, <2>1 DEF Given
    <2> QED BY <1>9, <2>2 DEF Kept, Custody, Hand
  <1>10. ~(row[m].state = "absent" \/ (row[m].state = "queued" /\ ~Given(m)))
    <2> SUFFICES ASSUME ~Given(m), row[m].state # "consumed"
                 PROVE  row[m].state = "delivered"
      <3>1. Given(m) => row[m].state # "absent"
        BY DEF Given, Kept, Custody, Hand
      <3> QED BY <3>1
    <2>1. PICK t \in Threads : pc[t] = "took" /\ m \in loc[t].msgs
      BY <1>1
    <2> QED BY <2>1 DEF Kept, Custody, Hand
  <1>11. Told'
    <2> SUFFICES /\ \A t \in Threads : pc[t] = "settle" =>
                      \A n \in loc[t].msgs : ran'[n] = IF loc[t].kind = "ok" THEN 1 ELSE 0
                 /\ \A n \in Msgs :
                      row[n].state = "absent" \/ (row[n].state = "queued" /\ ~Given(n))
                        => ran'[n] = 0
      BY <1>0, <1>5 DEF Told
    <2>1. \A t \in Threads : loc[t].msgs \in SUBSET Msgs
      BY HandsAreMessages
    <2> QED BY <1>3, <1>9, <1>10, <2>1 DEF Served, Told
  <1>12. ConsumedExactlyOnce'
    <2>1. row[m].state = "consumed" => row[m].isError
      BY <1>1 DEF Served, ConsumedExactlyOnce
    <2> QED BY <1>0, <1>3, <2>1 DEF Served, ConsumedExactlyOnce
  <1> QED BY <1>7, <1>8, <1>11, <1>12 DEF Served

LEMMA ServedAtFirst == Init => Served
  BY DEF Init, Served, Serving, Undone, Told, ConsumedExactlyOnce, Given, EmptySlot,
  NoChild, NoRow

LEMMA ServedNext ==
  ASSUME TypeOK, Orderly, Safe, Plain, Kept, Gate, Alone, Alone', Served, [Next]_vars
  PROVE  Served'
  <1>1. ASSUME NEW t \in Threads, Steady(t) \/ Empties(t) \/ Concerns(t) PROVE Served'
    BY <1>1, SteadyServes, EmptiesServes, ConcernsServe
  <1>2. ASSUME NEW r \in Runs, Speaking(r) PROVE Served'
    BY <1>2, InitServes, ResultServes, ComingUpServes, EndingServes DEF Speaking
  <1>3. CASE UNCHANGED vars
    BY <1>3 DEF vars, db, memory, harness, threads, history, Served, Serving, Undone, Told,
    ConsumedExactlyOnce, Given, Running, Ended, Unasked
  <1> QED BY <1>1, <1>2, <1>3, NextByKind

\* Where nothing outlives its place in the slot and nothing is put back, no message is
\* run twice, none is completed without having run, and only a consumed one carries an
\* error: output, process and slot agree at every step on what became of the turn.
THEOREM EachTurnOnce ==
  ASSUME Orderly
  PROVE  Spec => []ConsumedExactlyOnce
  <1> DEFINE Held == Safe /\ Kept /\ Plain /\ Gate /\ Alone /\ Served
  <1>1. Init => Held
    BY SafeAtFirst, KeptAtFirst, PlainAtFirst, GateAtFirst, AloneAtFirst, ServedAtFirst
  <1>2. ASSUME TypeOK, Held, [Next]_vars PROVE Held'
    <2>1. "die" \notin Ops
      BY DEF Orderly
    <2>2. Safe' /\ Kept' /\ Plain' /\ Gate' /\ Alone'
      BY <1>2, <2>1, SafeNext, KeptNext, PlainNext, GateNext, AloneNext
    <2> QED BY <1>2, <2>2, ServedNext
  <1>3. Held => ConsumedExactlyOnce
    BY DEF Served
  <1> QED
    BY <1>1, <1>2, <1>3, TypeCorrect, PTL DEF Spec
====
