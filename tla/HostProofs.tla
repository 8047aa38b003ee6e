---- MODULE HostProofs ----
(***************************************************************************)
(* Theorems about HostLifecycle, for any projects, requests and uids: its  *)
(* types, that no uid is ever given twice, that a project a start called  *)
(* running is one that the next boot restores and one called stopped       *)
(* stays so, that every embedded engine is somebody's, that no project has *)
(* two engines, and that the path leads to the one in the map.             *)
(***************************************************************************)
EXTENDS HostLifecycle, FiniteSetTheorems, TLAPS

TaskType == [op : {"none", "put", "start", "stop", "restart", "delete", "restore"},
        p : Projects \cup {None}, e : Engines \cup {None}, uid : Uids \cup {None},
        at : {"end", "upsert", "lookup", "unwant", "check", "prepare", "reap",
              "reaping", "insert", "health", "asking", "take", "drain", "forget",
              "want"}]

\* What a task that is under way carries with it.
Carries(r) == r # Idle =>
  /\ r.p \in Projects /\ r.op # "none" /\ r.at # "end"
  /\ r.at \in {"insert", "drain"} => r.e \in Engines
  /\ r.at \in {"reap", "reaping"} => r.uid \in Uids

Shape == \A t \in Tasks : Carries(task[t])

Typed == TypeOK /\ Shape

TaskTyped == task \in [Tasks -> TaskType] /\ Shape
DiskTyped == rows \in [Projects -> Row] /\ watermark \in Uids /\ issued \subseteq Uids
EnginesTyped ==
  /\ phase \in [Engines -> LivePhases \cup {"gone"}]
  /\ owner \in [Engines -> Uids \cup {None}]
  /\ strays \subseteq Engines
MapTyped == handle \in [Projects -> Engines \cup {None}]
SocketTyped == socket \in [Projects -> Engines \cup {None}]
SaidTyped ==
  /\ told \in [Projects -> {"nothing", "running", "unrecorded", "stopped", "deleted"}]
  /\ muddled \in [Projects -> BOOLEAN]
HostTyped == backend \in {"process", "embedded"} /\ host \in {"down", "boot", "open"}

LEMMA TypedParts ==
  /\ Typed => /\ HostTyped /\ DiskTyped /\ MapTyped /\ EnginesTyped
              /\ SocketTyped /\ TaskTyped /\ SaidTyped
  /\ (/\ HostTyped /\ DiskTyped /\ MapTyped /\ EnginesTyped
      /\ SocketTyped /\ TaskTyped /\ SaidTyped)' => Typed'
BY DEF Typed, TypeOK, HostTyped, DiskTyped, MapTyped, EnginesTyped, SocketTyped,
       TaskTyped, SaidTyped, TaskType

LEMMA IdleTyped == Idle \in TaskType
BY DEF Idle, TaskType

LEMMA InitTyped == Init => Typed
BY HostAssumption DEF Init, Typed, TypeOK, Shape, Carries, Idle, NoRow, Row, Uids

-----------------------------------------------------------------------------
(* The operators the actions are made of. *)

LEMMA MovedTyped ==
  ASSUME TaskTyped, NEW t \in Tasks, NEW r \in TaskType, Carries(r),
         task' = [task EXCEPT ![t] = r]
  PROVE  TaskTyped'
<1>1. task' \in [Tasks -> TaskType]
  BY DEF TaskTyped
<1>2. \A s \in Tasks : task'[s] = IF s = t THEN r ELSE task[s]
  BY DEF TaskTyped
<1>3. \A s \in Tasks : Carries(task'[s])
  BY <1>2 DEF TaskTyped, Shape
<1>4. Shape'
  BY <1>3 DEF Shape, Carries, Idle
<1> QED BY <1>1, <1>4 DEF TaskTyped

LEMMA EngineTyped ==
  ASSUME EnginesTyped, NEW E, NEW M, NEW u \in Uids \cup {None}, Engined(E, M, u)
  PROVE  EnginesTyped'
BY DEF EnginesTyped, Engined, LivePhases

LEMMA AskedTyped ==
  ASSUME EnginesTyped, NEW E, Asked(E), UNCHANGED <<owner, strays>>
  PROVE  EnginesTyped'
BY DEF EnginesTyped, Asked, LivePhases

LEMMA EndsTyped ==
  ASSUME TaskTyped, NEW t \in Tasks, Ends(t)
  PROVE  TaskTyped'
BY IdleTyped, MovedTyped DEF Ends, Carries

LEMMA GotoTyped ==
  ASSUME TaskTyped, NEW t \in Tasks, task[t] # Idle,
         NEW step \in {"upsert", "lookup", "unwant", "check", "prepare",
                       "health", "asking", "take", "forget", "want"}, Goto(t, step)
  PROVE  TaskTyped'
<1> DEFINE r == [task[t] EXCEPT !.at = step]
<1>1. r \in TaskType /\ Carries(r)
  BY DEF TaskTyped, TaskType, Shape, Carries, Idle
<1>2. task' = [task EXCEPT ![t] = r]
  BY DEF Goto
<1> QED BY <1>1, <1>2, MovedTyped

LEMMA SpawnTyped ==
  ASSUME TaskTyped, EnginesTyped, SocketTyped,
         NEW t \in Tasks, task[t] # Idle, NEW u \in Uids \cup {None}, NEW K,
         Spawn(t, u, K)
  PROVE  TaskTyped' /\ EnginesTyped' /\ SocketTyped'
<1>1. SocketTyped'
  BY DEF SocketTyped, Spawn
<1>2. CASE Ends(t) /\ Engined(K, {}, u)
  BY <1>1, <1>2, EndsTyped, EngineTyped
<1>3. CASE \E e \in Engines :
            /\ Engined(K, {e}, u)
            /\ task' = [task EXCEPT ![t].e = e, ![t].at = "insert", ![t].uid = None]
  <2>1. PICK e \in Engines :
            /\ Engined(K, {e}, u)
            /\ task' = [task EXCEPT ![t].e = e, ![t].at = "insert", ![t].uid = None]
    BY <1>3
  <2> DEFINE r == [task[t] EXCEPT !.e = e, !.at = "insert", !.uid = None]
  <2>2. r \in TaskType /\ Carries(r)
    BY DEF TaskTyped, TaskType, Shape, Carries, Idle
  <2>3. task' = [task EXCEPT ![t] = r]
    BY <2>1
  <2>4. TaskTyped'
    BY <2>2, <2>3, MovedTyped
  <2> QED BY <1>1, <2>1, <2>4, EngineTyped
<1> QED BY <1>2, <1>3 DEF Spawn

LEMMA StandsTyped ==
  ASSUME TaskTyped, NEW t \in Tasks, NEW step, step # "end", Reached(t, step)
  PROVE  task[t] # Idle /\ Of(t) \in Projects /\ task[t] \in TaskType
BY DEF TaskTyped, Shape, Carries, Reached, Idle, Of

LEMMA AnswersTyped ==
  ASSUME TaskTyped, SaidTyped, NEW t \in Tasks,
         NEW word \in {"running", "unrecorded", "stopped", "deleted"}, Answers(t, word)
  PROVE  /\ TaskTyped'
         /\ told' \in [Projects -> {"nothing", "running", "unrecorded", "stopped", "deleted"}]
BY EndsTyped DEF Answers, SaidTyped

LEMMA StoppedTyped ==
  ASSUME TaskTyped, SaidTyped, NEW t \in Tasks, task[t] # Idle, Stopped(t)
  PROVE  /\ TaskTyped'
         /\ told' \in [Projects -> {"nothing", "running", "unrecorded", "stopped", "deleted"}]
<1>1. CASE task[t].op = "stop"
  BY <1>1, AnswersTyped DEF Stopped
<1>2. CASE task[t].op # "stop" /\ Ends(t)
  BY <1>2, EndsTyped DEF Stopped, SaidTyped
<1>3. CASE task[t].op # "stop" /\ ~Ends(t)
  <2>1. PICK step \in {"check", "forget"} :
          task' = [task EXCEPT ![t].e = None, ![t].at = step]
    BY <1>3 DEF Stopped
  <2> DEFINE r == [task[t] EXCEPT !.e = None, !.at = step]
  <2>2. r \in TaskType /\ Carries(r)
    BY DEF TaskTyped, TaskType, Shape, Carries, Idle
  <2>3. task' = [task EXCEPT ![t] = r]
    BY <2>1
  <2>4. TaskTyped'
    BY <2>2, <2>3, MovedTyped
  <2> QED BY <1>3, <2>4 DEF Stopped, SaidTyped
<1> QED BY <1>1, <1>2, <1>3

LEMMA DesiredTyped ==
  ASSUME DiskTyped, NEW p \in Projects, NEW b \in BOOLEAN, SetDesired(p, b),
         UNCHANGED <<watermark, issued>>
  PROVE  DiskTyped'
<1> DEFINE r == [rows[p] EXCEPT !.want = rows[p].there /\ b]
<1>1. (rows[p].there /\ b) \in BOOLEAN
  OBVIOUS
<1>2. r \in Row
  BY <1>1 DEF DiskTyped, Row
<1>3. rows' = [rows EXCEPT ![p] = r]
  BY DEF SetDesired
<1> QED BY <1>2, <1>3 DEF DiskTyped

LEMMA AllocatesTyped ==
  ASSUME DiskTyped, NEW p \in Projects, Allocates(p)
  PROVE  DiskTyped' /\ rows'[p].uid \in Uids
<1>1. watermark' \in Uids
  BY HostAssumption DEF DiskTyped, Allocates, Fits, NextBase, Uids
<1> DEFINE r == [rows[p] EXCEPT !.uid = NextBase]
<1>2. r \in Row /\ r.uid \in Uids
  BY DEF DiskTyped, Row, NextBase
<1>3. rows' = [rows EXCEPT ![p] = r]
  BY DEF Allocates
<1> QED BY <1>1, <1>2, <1>3 DEF DiskTyped, Allocates, NextBase

-----------------------------------------------------------------------------
(* Every step keeps the types. *)

LEMMA BeginTyped ==
  ASSUME Typed, NEW o \in Offers, NEW p \in Projects, Begin(o[1], o[2], p)
  PROVE  Typed'
<1>1. o[1] \in Tasks /\ o[2] \in Ops
  BY HostAssumption DEF Tasks
<1> DEFINE at == FirstStep[o[2]]
           op == o[2]
           r == [Idle EXCEPT !.op = op, !.p = p, !.at = at]
<1>2. at \in {"upsert", "lookup", "unwant", "take"} /\ op \in Ops
  BY <1>1 DEF FirstStep, Ops
<1>6. task' = [task EXCEPT ![o[1]] = r]
  BY DEF Begin
<1> HIDE DEF at, op
<1>3. r \in TaskType /\ Carries(r)
  BY <1>2 DEF TaskType, Carries, Idle, Ops
<1>4. TaskTyped'
  BY <1>1, <1>3, <1>6, MovedTyped, TypedParts
<1>5. SaidTyped'
  <2>1. told' \in [Projects -> {"nothing", "running", "unrecorded", "stopped", "deleted"}]
    BY TypedParts DEF Begin, SaidTyped
  <2> DEFINE b == OpenFor(p) # {} \/ (muddled[p] /\ Live(p) # {})
  <2>2. b \in BOOLEAN
    OBVIOUS
  <2>3. muddled' = [muddled EXCEPT ![p] = b]
    BY DEF Begin
  <2> HIDE DEF b
  <2> QED BY <2>1, <2>2, <2>3, TypedParts DEF SaidTyped
<1> QED BY <1>4, <1>5, TypedParts DEF Begin, disk, engines, HostTyped, DiskTyped,
     MapTyped, EnginesTyped, SocketTyped

LEMMA HangUpTyped ==
  ASSUME Typed, NEW t \in Requests, HangUp(t)
  PROVE  Typed'
<1>1. t \in Tasks /\ TaskTyped /\ SaidTyped /\ EnginesTyped
  BY TypedParts DEF Tasks
<1>2. TaskTyped'
  BY <1>1, EndsTyped DEF HangUp
<1>3. SaidTyped'
  <2> DEFINE e == task[t].e
             lost == task[t].at \in {"insert", "drain"} /\ phase[e] # "gone"
             b == muddled[Of(t)] \/ (lost /\ Embedded)
  <2>1. b \in BOOLEAN
    OBVIOUS
  <2>2. muddled' = [muddled EXCEPT ![Of(t)] = b]
    BY DEF HangUp
  <2>3. told' = told
    BY DEF HangUp
  <2> HIDE DEF b
  <2> QED BY <1>1, <2>1, <2>2, <2>3 DEF SaidTyped
<1>4. EnginesTyped'
  BY <1>1 DEF HangUp, EnginesTyped, TaskTyped, Shape, Carries, Reached, Idle, LivePhases
<1> QED BY <1>2, <1>3, <1>4, TypedParts DEF HangUp, disk, HostTyped, DiskTyped,
     MapTyped, SocketTyped

LEMMA UpsertTyped ==
  ASSUME Typed, NEW t \in Tasks, Upsert(t)
  PROVE  Typed'
<1>1. task[t] # Idle /\ Of(t) \in Projects /\ task[t] \in TaskType
  BY StandsTyped, TypedParts DEF Upsert
<1>2. TaskTyped'
  BY <1>1, GotoTyped, TypedParts DEF Upsert
<1>3. DiskTyped'
  BY <1>1, TypedParts DEF Upsert, DiskTyped, Row
<1> QED BY <1>2, <1>3, TypedParts DEF Upsert, disk, engines, answers,
       HostTyped, DiskTyped, MapTyped, EnginesTyped, SocketTyped, SaidTyped

LEMMA LookupTyped ==
  ASSUME Typed, NEW t \in Tasks, Lookup(t)
  PROVE  Typed'
<1>1. task[t] # Idle /\ Of(t) \in Projects /\ task[t] \in TaskType
  BY StandsTyped, TypedParts DEF Lookup
<1>2. TaskTyped'
  BY <1>1, GotoTyped, EndsTyped, TypedParts DEF Lookup
<1> QED BY <1>2, TypedParts DEF Lookup, disk, engines, answers,
       HostTyped, DiskTyped, MapTyped, EnginesTyped, SocketTyped, SaidTyped

LEMMA UnwantTyped ==
  ASSUME Typed, NEW t \in Tasks, Unwant(t)
  PROVE  Typed'
<1>1. task[t] # Idle /\ Of(t) \in Projects /\ task[t] \in TaskType
  BY StandsTyped, TypedParts DEF Unwant
<1>2. TaskTyped'
  BY <1>1, GotoTyped, TypedParts DEF Unwant
<1>3. DiskTyped'
  BY <1>1, DesiredTyped, TypedParts DEF Unwant
<1> QED BY <1>2, <1>3, TypedParts DEF Unwant, disk, engines, answers,
       HostTyped, DiskTyped, MapTyped, EnginesTyped, SocketTyped, SaidTyped

LEMMA SaysRunningTyped ==
  ASSUME TaskTyped, SaidTyped, NEW t \in Tasks, SaysRunning(t)
  PROVE  /\ TaskTyped'
         /\ told' \in [Projects -> {"nothing", "running", "unrecorded", "stopped", "deleted"}]
<1> DEFINE word == IF told[Of(t)] = "running" THEN "running" ELSE "unrecorded"
<1>1. word \in {"running", "unrecorded", "stopped", "deleted"}
  OBVIOUS
<1>2. Answers(t, word)
  BY DEF SaysRunning
<1> HIDE DEF word
<1> QED BY <1>1, <1>2, AnswersTyped

LEMMA WantTyped ==
  ASSUME Typed, NEW t \in Tasks, Want(t)
  PROVE  Typed'
<1>1. task[t] # Idle /\ Of(t) \in Projects /\ task[t] \in TaskType
  BY StandsTyped, TypedParts DEF Want
<1>2. TaskTyped' /\ SaidTyped'
  BY <1>1, AnswersTyped, SaysRunningTyped, TypedParts DEF Want, SaidTyped
<1>3. DiskTyped'
  BY <1>1, DesiredTyped, TypedParts DEF Want, DiskTyped
<1> QED BY <1>2, <1>3, TypedParts DEF Want, disk, engines, answers,
       HostTyped, DiskTyped, MapTyped, EnginesTyped, SocketTyped, SaidTyped

LEMMA StartedTyped ==
  ASSUME TaskTyped, SaidTyped, NEW t \in Tasks, task[t] # Idle, Started(t)
  PROVE  /\ TaskTyped'
         /\ told' \in [Projects -> {"nothing", "running", "unrecorded", "stopped", "deleted"}]
BY GotoTyped, EndsTyped, SaysRunningTyped DEF Started, SaidTyped

LEMMA CheckTyped ==
  ASSUME Typed, NEW t \in Tasks, Check(t)
  PROVE  Typed'
<1>1. task[t] # Idle /\ Of(t) \in Projects /\ task[t] \in TaskType
  BY StandsTyped, TypedParts DEF Check
<1>2. TaskTyped' /\ SaidTyped'
  BY <1>1, GotoTyped, StartedTyped, TypedParts DEF Check, SaidTyped
<1> QED BY <1>2, TypedParts DEF Check, disk, engines, answers,
       HostTyped, DiskTyped, MapTyped, EnginesTyped, SocketTyped, SaidTyped

LEMMA PrepareEmbeddedTyped ==
  ASSUME Typed, NEW t \in Tasks, PrepareEmbedded(t)
  PROVE  Typed'
<1>1. task[t] # Idle /\ Of(t) \in Projects /\ task[t] \in TaskType
  BY StandsTyped, TypedParts DEF PrepareEmbedded
<1>2. TaskTyped' /\ EnginesTyped' /\ SocketTyped'
  BY <1>1, SpawnTyped, EndsTyped, TypedParts DEF PrepareEmbedded, engines,
     EnginesTyped, SocketTyped
<1> QED BY <1>2, TypedParts DEF PrepareEmbedded, disk, engines, answers,
       HostTyped, DiskTyped, MapTyped, EnginesTyped, SocketTyped, SaidTyped

LEMMA PrepareProcessTyped ==
  ASSUME Typed, NEW t \in Tasks, PrepareProcess(t)
  PROVE  Typed'
<1>1. task[t] # Idle /\ Of(t) \in Projects /\ task[t] \in TaskType
  BY StandsTyped, TypedParts DEF PrepareProcess
<1>2. DiskTyped'
  BY <1>1, AllocatesTyped, TypedParts DEF PrepareProcess, disk, DiskTyped
<1>3. CASE Ends(t)
  BY <1>2, <1>3, EndsTyped, TypedParts DEF PrepareProcess, disk, engines, answers,
       HostTyped, DiskTyped, MapTyped, EnginesTyped, SocketTyped, SaidTyped
<1>4. CASE ~Ends(t)
  <2> DEFINE r == [task[t] EXCEPT !.at = "reap", !.uid = rows'[Of(t)].uid]
  <2>1. rows'[Of(t)].uid \in Uids
    BY <1>1, <1>4, AllocatesTyped, TypedParts DEF PrepareProcess, disk, DiskTyped, Row
  <2>2. task' = [task EXCEPT ![t] = r]
    BY <1>4 DEF PrepareProcess
  <2>3. r \in TaskType /\ Carries(r)
    BY <1>1, <2>1, TypedParts DEF TaskTyped, TaskType, Shape, Carries, Idle
  <2>4. TaskTyped'
    BY <2>2, <2>3, MovedTyped, TypedParts
  <2> QED BY <1>2, <2>4, TypedParts DEF PrepareProcess, disk, engines, answers,
       HostTyped, DiskTyped, MapTyped, EnginesTyped, SocketTyped, SaidTyped
<1> QED BY <1>3, <1>4

LEMMA ReapTyped ==
  ASSUME Typed, NEW t \in Tasks, Reap(t)
  PROVE  Typed'
<1>1. task[t] # Idle /\ Of(t) \in Projects /\ task[t] \in TaskType
  BY StandsTyped, TypedParts DEF Reap
<1>2. task[t].uid \in Uids
  BY <1>1, TypedParts DEF Reap, Reached, TaskTyped, Shape, Carries
<1>3. TaskTyped' /\ EnginesTyped' /\ SocketTyped'
  <2>1. CASE Leftovers(task[t].uid) = {}
    BY <1>1, <1>2, <2>1, SpawnTyped, TypedParts DEF Reap
  <2>2. CASE Leftovers(task[t].uid) # {}
    <3> DEFINE r == [task[t] EXCEPT !.at = "reaping"]
    <3>1. r \in TaskType /\ Carries(r)
      BY <1>1, <1>2, TypedParts DEF TaskTyped, Shape, TaskType, Carries, Idle
    <3>2. task' = [task EXCEPT ![t] = r]
      BY <2>2 DEF Reap, Goto
    <3>3. TaskTyped'
      BY <3>1, <3>2, MovedTyped, TypedParts
    <3> QED BY <2>2, <3>3, AskedTyped, TypedParts DEF Reap, SocketTyped
  <2> QED BY <2>1, <2>2
<1> QED BY <1>3, TypedParts DEF Reap, disk, engines, answers,
       HostTyped, DiskTyped, MapTyped, EnginesTyped, SocketTyped, SaidTyped

LEMMA GraceOverTyped ==
  ASSUME Typed, NEW t \in Tasks, GraceOver(t)
  PROVE  Typed'
<1>1. task[t] # Idle /\ Of(t) \in Projects /\ task[t] \in TaskType
  BY StandsTyped, TypedParts DEF GraceOver
<1>2. task[t].uid \in Uids
  BY <1>1, TypedParts DEF GraceOver, Reached, TaskTyped, Shape, Carries
<1>3. TaskTyped' /\ EnginesTyped' /\ SocketTyped'
  BY <1>1, <1>2, SpawnTyped, TypedParts DEF GraceOver
<1> QED BY <1>3, TypedParts DEF GraceOver, disk, engines, answers,
       HostTyped, DiskTyped, MapTyped, EnginesTyped, SocketTyped, SaidTyped

LEMMA InsertTyped ==
  ASSUME Typed, NEW t \in Tasks, Insert(t)
  PROVE  Typed'
<1>1. task[t] # Idle /\ Of(t) \in Projects /\ task[t] \in TaskType
  BY StandsTyped, TypedParts DEF Insert
<1> DEFINE r == [task[t] EXCEPT !.e = None, !.at = "health"]
<1>2. r \in TaskType /\ Carries(r)
  BY <1>1, TypedParts DEF TaskTyped, Shape, TaskType, Carries, Idle
<1>3. task' = [task EXCEPT ![t] = r]
  BY DEF Insert
<1>4. TaskTyped'
  BY <1>2, <1>3, MovedTyped, TypedParts
<1>5. EnginesTyped'
  BY AskedTyped, TypedParts DEF Insert
<1>6. MapTyped'
  BY <1>1, TypedParts DEF Insert, MapTyped, TaskType
<1> QED BY <1>4, <1>5, <1>6, TypedParts DEF Insert, disk, engines, answers,
       HostTyped, DiskTyped, MapTyped, EnginesTyped, SocketTyped, SaidTyped

LEMMA AskTyped ==
  ASSUME Typed, NEW t \in Tasks, Ask(t) \/ Unanswered(t)
  PROVE  Typed'
<1>1. task[t] # Idle /\ Of(t) \in Projects /\ task[t] \in TaskType
  BY StandsTyped, TypedParts DEF Ask, Unanswered
<1>2. TaskTyped'
  BY <1>1, GotoTyped, TypedParts DEF Ask, Unanswered
<1> QED BY <1>2, TypedParts DEF Ask, Unanswered, disk, engines, answers,
       HostTyped, DiskTyped, MapTyped, EnginesTyped, SocketTyped, SaidTyped

LEMMA AnsweredTyped ==
  ASSUME Typed, NEW t \in Tasks, Answered(t)
  PROVE  Typed'
<1>1. task[t] # Idle /\ Of(t) \in Projects /\ task[t] \in TaskType
  BY StandsTyped, TypedParts DEF Answered
<1>2. TaskTyped' /\ SaidTyped'
  BY <1>1, StartedTyped, TypedParts DEF Answered, SaidTyped
<1> QED BY <1>2, TypedParts DEF Answered, disk, engines, answers,
       HostTyped, DiskTyped, MapTyped, EnginesTyped, SocketTyped, SaidTyped

LEMMA ExitedTyped ==
  ASSUME Typed, NEW t \in Tasks, Exited(t)
  PROVE  Typed'
<1>1. task[t] # Idle /\ Of(t) \in Projects /\ task[t] \in TaskType
  BY StandsTyped, TypedParts DEF Exited
<1>2. TaskTyped'
  BY <1>1, StartedTyped, EndsTyped, TypedParts DEF Exited
<1> QED BY <1>2, TypedParts DEF Exited, disk, engines, answers,
       HostTyped, DiskTyped, MapTyped, EnginesTyped, SocketTyped, SaidTyped

LEMMA TimedOutTyped ==
  ASSUME Typed, NEW t \in Tasks, TimedOut(t)
  PROVE  Typed'
<1>1. task[t] # Idle /\ Of(t) \in Projects /\ task[t] \in TaskType
  BY StandsTyped, TypedParts DEF TimedOut
<1> DEFINE op == IF task[t].op = "restore" THEN "restore" ELSE "start"
           r == [task[t] EXCEPT !.at = "take", !.op = op]
<1>2. r \in TaskType /\ Carries(r)
  BY <1>1 DEF TaskType, Carries, Idle, Of
<1>3. task' = [task EXCEPT ![t] = r]
  BY DEF TimedOut
<1>4. TaskTyped'
  BY <1>2, <1>3, MovedTyped, TypedParts
<1> QED BY <1>4, TypedParts DEF TimedOut, disk, engines, answers,
       HostTyped, DiskTyped, MapTyped, EnginesTyped, SocketTyped, SaidTyped

LEMMA TakeTyped ==
  ASSUME Typed, NEW t \in Tasks, Take(t)
  PROVE  Typed'
<1>1. task[t] # Idle /\ Of(t) \in Projects /\ task[t] \in TaskType
  BY StandsTyped, TypedParts DEF Take
<1>2. MapTyped'
  BY TypedParts DEF Take, MapTyped
<1>3. CASE handle[Of(t)] = None
  <2>1. TaskTyped' /\ told' \in [Projects -> {"nothing", "running", "unrecorded", "stopped", "deleted"}]
    BY <1>1, <1>3, StoppedTyped, TypedParts DEF Take
  <2> QED BY <1>2, <1>3, <2>1, TypedParts DEF Take, Clear, disk, engines, answers,
       HostTyped, DiskTyped, MapTyped, EnginesTyped, SocketTyped, SaidTyped
<1>4. CASE handle[Of(t)] # None
  <2> DEFINE r == [task[t] EXCEPT !.e = handle[Of(t)], !.at = "drain"]
  <2>1. handle[Of(t)] \in Engines
    BY <1>1, <1>4, TypedParts DEF MapTyped
  <2>2. r \in TaskType /\ Carries(r)
    BY <1>1, <2>1, TypedParts DEF TaskTyped, Shape, TaskType, Carries, Idle
  <2>3. task' = [task EXCEPT ![t] = r]
    BY <1>4 DEF Take
  <2>4. TaskTyped'
    BY <2>2, <2>3, MovedTyped, TypedParts
  <2>5. EnginesTyped'
    BY <1>4, AskedTyped, TypedParts DEF Take
  <2> QED BY <1>2, <1>4, <2>4, <2>5, TypedParts DEF Take, disk, engines, answers,
       HostTyped, DiskTyped, MapTyped, EnginesTyped, SocketTyped, SaidTyped
<1> QED BY <1>3, <1>4

LEMMA DrainedTyped ==
  ASSUME Typed, NEW t \in Tasks, Drained(t)
  PROVE  Typed'
<1>1. task[t] # Idle /\ Of(t) \in Projects /\ task[t] \in TaskType
  BY StandsTyped, TypedParts DEF Drained
<1>2. TaskTyped' /\ SaidTyped'
  BY <1>1, StoppedTyped, TypedParts DEF Drained, SaidTyped
<1>3. EnginesTyped'
  BY EngineTyped, TypedParts DEF Drained
<1> QED BY <1>2, <1>3, TypedParts DEF Drained, Clear, disk, engines, answers,
       HostTyped, DiskTyped, MapTyped, EnginesTyped, SocketTyped, SaidTyped

LEMMA ForgetTyped ==
  ASSUME Typed, NEW t \in Tasks, Forget(t)
  PROVE  Typed'
<1>1. task[t] # Idle /\ Of(t) \in Projects /\ task[t] \in TaskType
  BY StandsTyped, TypedParts DEF Forget
<1>2. TaskTyped'
  BY <1>1, EndsTyped, AnswersTyped, TypedParts DEF Forget
<1>3. told' \in [Projects -> {"nothing", "running", "unrecorded", "stopped", "deleted"}]
  BY <1>1, AnswersTyped, TypedParts DEF Forget, answers, SaidTyped
<1>4. muddled' \in [Projects -> BOOLEAN]
  <2> DEFINE b == muddled[Of(t)] \/ Live(Of(t)) # {}
  <2>1. b \in BOOLEAN
    OBVIOUS
  <2>2. muddled' = muddled \/ muddled' = [muddled EXCEPT ![Of(t)] = b]
    BY DEF Forget, answers
  <2> HIDE DEF b
  <2> QED BY <2>1, <2>2, TypedParts DEF SaidTyped
<1>5. DiskTyped'
  <2>1. NoRow \in Row
    BY DEF NoRow, Row
  <2> QED BY <2>1, TypedParts DEF Forget, DiskTyped
<1> QED BY <1>2, <1>3, <1>4, <1>5, TypedParts DEF Forget, engines,
       HostTyped, MapTyped, EnginesTyped, SocketTyped, SaidTyped

LEMMA StepTyped ==
  ASSUME Typed, NEW t \in Tasks, Step(t)
  PROVE  Typed'
BY UpsertTyped, LookupTyped, UnwantTyped, WantTyped, CheckTyped,
   PrepareEmbeddedTyped, PrepareProcessTyped, ReapTyped, GraceOverTyped,
   InsertTyped, AskTyped, AnsweredTyped, ExitedTyped, TimedOutTyped, TakeTyped,
   DrainedTyped, ForgetTyped DEF Step, Proceeds, Returns

LEMMA ArrivalTyped ==
  ASSUME Typed, Arrival
  PROVE  Typed'
<1>1. ASSUME NEW p \in Projects, Probe(p)
      PROVE  Typed'
  BY <1>1, TypedParts DEF Probe, TaskTyped, Shape, Carries, Idle,
     disk, engines, answers,
       HostTyped, DiskTyped, MapTyped, EnginesTyped, SocketTyped, SaidTyped
<1> QED BY <1>1, BeginTyped, HangUpTyped DEF Arrival

LEMMA EngineStepTyped ==
  ASSUME Typed, NEW e \in Engines, Engine(e)
  PROVE  Typed'
<1>1. e[1] \in Projects
  BY DEF Engines
<1>2. EnginesTyped'
  <2>1. CASE Bind(e)
    BY <2>1, TypedParts DEF Bind, EnginesTyped, LivePhases
  <2>2. CASE Unlink(e)
    BY <2>2, TypedParts DEF Unlink, engines, EnginesTyped
  <2>3. CASE Exit(e)
    BY <2>3, EngineTyped, TypedParts DEF Exit
  <2> QED BY <2>1, <2>2, <2>3 DEF Engine
<1>3. SocketTyped'
  BY <1>1, TypedParts DEF Engine, Bind, Unlink, Exit, Clear, SocketTyped
<1>4. UNCHANGED <<backend, host, disk, handle, task, answers>>
  BY DEF Engine, Bind, Unlink, Exit
<1>5. HostTyped' /\ DiskTyped' /\ MapTyped' /\ SaidTyped'
  BY <1>4, TypedParts DEF disk, answers, HostTyped, DiskTyped, MapTyped, SaidTyped
<1>6. TaskTyped'
  BY <1>4, TypedParts DEF TaskTyped, Shape, Carries, Idle
<1> QED BY <1>2, <1>3, <1>5, <1>6, TypedParts

LEMMA CrashTyped == Typed /\ Crash => Typed'
<1> SUFFICES ASSUME Typed, Crash PROVE Typed'
  OBVIOUS
<1>1. TaskTyped'
  BY IdleTyped DEF Crash, TaskTyped, Shape, Carries, Idle
<1>2. EnginesTyped'
  <2>1. CASE Embedded
    BY <2>1, EngineTyped, TypedParts DEF Crash
  <2>2. CASE ~Embedded
    BY <2>2, TypedParts DEF Crash, EnginesTyped
  <2> QED BY <2>1, <2>2
<1> QED BY <1>1, <1>2, TypedParts DEF Crash, disk, answers, HostTyped, DiskTyped,
     MapTyped, SocketTyped, SaidTyped

LEMMA BootTyped == Typed /\ Boot => Typed'
<1> SUFFICES ASSUME Typed, Boot PROVE Typed'
  OBVIOUS
<1>1. ASSUME NEW t \in Tasks
      PROVE  task'[t] \in TaskType /\ Carries(task'[t])
  <2> DEFINE r == [Idle EXCEPT !.op = "restore", !.p = t, !.at = "check"]
  <2>1. CASE t \in Projects /\ rows[t].want
    <3>1. r \in TaskType /\ Carries(r)
      BY <2>1 DEF TaskType, Carries, Idle
    <3> QED BY <2>1, <3>1 DEF Boot
  <2>2. CASE ~(t \in Projects /\ rows[t].want)
    <3>1. task'[t] = Idle
      BY <2>2 DEF Boot
    <3> QED BY <3>1, IdleTyped DEF Carries
  <2> QED BY <2>1, <2>2
<1>2. TaskTyped'
  <2>1. task' \in [Tasks -> TaskType]
    BY <1>1 DEF Boot
  <2> QED BY <1>1, <2>1 DEF TaskTyped, Shape, Carries, Idle
<1> QED BY <1>2, TypedParts DEF Boot, disk, engines, answers,
       HostTyped, DiskTyped, MapTyped, EnginesTyped, SocketTyped, SaidTyped

LEMMA NextTyped == Typed /\ [Next]_vars => Typed'
<1> SUFFICES ASSUME Typed, [Next]_vars PROVE Typed'
  OBVIOUS
<1>1. ASSUME OpenRoutes \/ UNCHANGED vars
      PROVE  Typed'
  BY <1>1, TypedParts DEF OpenRoutes, vars, TaskTyped, Shape, Carries, Idle,
     disk, engines, answers,
       HostTyped, DiskTyped, MapTyped, EnginesTyped, SocketTyped, SaidTyped
<1> QED BY <1>1, StepTyped, ArrivalTyped, EngineStepTyped, CrashTyped, BootTyped
     DEF Next

\* Every variable keeps its type, for any number of projects and requests.
THEOREM HostTypes == Spec => []TypeOK
<1>1. Typed => TypeOK
  BY DEF Typed
<1> QED BY <1>1, InitTyped, NextTyped, PTL DEF Spec

-----------------------------------------------------------------------------
(* No uid is given twice: every base ever given lies a stride or more below *)
(* the watermark, deletions included.                                       *)

BelowTheMark == \A base \in issued : base + UidStride <= watermark

NewUidsAreNew ==
  \A p \in Projects : rows'[p].uid \notin {None, rows[p].uid} =>
    \A base \in issued : base + UidStride <= rows'[p].uid

\* What every step but an allocation does.
UidsKept ==
  /\ UNCHANGED <<watermark, issued>>
  /\ \A p \in Projects : rows'[p].uid \in {None, rows[p].uid}

LEMMA KeptUids ==
  ASSUME BelowTheMark, UidsKept
  PROVE  BelowTheMark' /\ NewUidsAreNew
BY DEF BelowTheMark, UidsKept, NewUidsAreNew

LEMMA AllocatedUids ==
  ASSUME Typed, BelowTheMark, NEW p \in Projects, Allocates(p)
  PROVE  BelowTheMark' /\ NewUidsAreNew
<1>1. watermark \in Nat /\ UidStride \in Nat \ {0} /\ issued \subseteq Nat
  BY HostAssumption, TypedParts DEF DiskTyped, Uids
<1>2. watermark' = watermark + UidStride /\ issued' = issued \cup {watermark}
  BY DEF Allocates, NextBase
<1>3. BelowTheMark'
  BY <1>1, <1>2 DEF BelowTheMark
<1>4. \A q \in Projects : rows'[q].uid \in {rows[q].uid, watermark}
  BY TypedParts DEF Allocates, NextBase, DiskTyped, Row
<1>5. NewUidsAreNew
  BY <1>1, <1>4 DEF BelowTheMark, NewUidsAreNew
<1> QED BY <1>3, <1>5

LEMMA NextUids ==
  ASSUME Typed, BelowTheMark, [Next]_vars
  PROVE  BelowTheMark' /\ NewUidsAreNew
<1>1. ASSUME UNCHANGED disk
      PROVE  UidsKept
  BY <1>1 DEF UidsKept, disk
<1>2. ASSUME NEW t \in Tasks, PrepareProcess(t)
      PROVE  BelowTheMark' /\ NewUidsAreNew
  <2>1. Of(t) \in Projects
    BY <1>2, StandsTyped, TypedParts DEF PrepareProcess
  <2> QED BY <1>1, <1>2, <2>1, AllocatedUids, KeptUids DEF PrepareProcess
<1>3. ASSUME NEW t \in Tasks, Upsert(t) \/ Unwant(t) \/ Want(t) \/ Forget(t)
      PROVE  UidsKept
  BY <1>3, TypedParts DEF Upsert, Unwant, Want, Forget, SetDesired, NoRow,
     UidsKept, DiskTyped, Row
<1>4. ASSUME NEW t \in Tasks, Step(t)
      PROVE  BelowTheMark' /\ NewUidsAreNew
  <2>1. CASE UNCHANGED disk
    BY <1>1, <2>1, KeptUids
  <2>2. CASE ~UNCHANGED disk
    <3>1. PrepareProcess(t) \/ Upsert(t) \/ Unwant(t) \/ Want(t) \/ Forget(t)
      BY <1>4, <2>2 DEF Step, Proceeds, Returns, Lookup, Check, PrepareEmbedded, Reap, GraceOver,
         Insert, Ask, Answered, Unanswered, Exited, TimedOut, Take, Drained
    <3> QED BY <1>2, <1>3, <3>1, KeptUids
  <2> QED BY <2>1, <2>2
<1>5. ASSUME Arrival \/ (\E e \in Engines : Engine(e)) \/ Crash \/ Boot
             \/ OpenRoutes \/ UNCHANGED vars
      PROVE  UNCHANGED disk
  BY <1>5 DEF Arrival, Begin, HangUp, Probe, Engine, Bind, Unlink, Exit, Crash,
     Boot, OpenRoutes, vars
<1> QED BY <1>1, <1>4, <1>5, KeptUids DEF Next

\* No range of uids overlaps one that was given before, to whatever project
\* and however many were deleted in between (store.rs, uid_watermark).
THEOREM UidsAreNeverGivenTwice == Spec => UidsNeverRecycled
<1>1. Init => BelowTheMark
  BY DEF Init, BelowTheMark
<1>2. Typed /\ BelowTheMark /\ [Next]_vars => BelowTheMark'
  BY NextUids
<1>3. Typed /\ BelowTheMark /\ [Next]_vars => [NewUidsAreNew]_vars
  BY NextUids
<1>4. UidsNeverRecycled <=> [][NewUidsAreNew]_vars
  BY DEF UidsNeverRecycled, NewUidsAreNew
<1> QED BY <1>1, <1>2, <1>3, <1>4, InitTyped, NextTyped, PTL DEF Spec

-----------------------------------------------------------------------------
(* What a start called running is restored.  A request that is alone on its  *)
(* project finds the record it read; one that is not is muddled, and says    *)
(* nothing.                                                                  *)

Alone ==
  \A p \in Projects : muddled[p] \/
    \A s, t \in Tasks : Of(s) = p /\ Of(t) = p => s = t

\* Between the lookup of a start and its answer the record is there.
OnTheWay == {"check", "prepare", "reap", "reaping", "insert", "health", "asking", "want"}

Sane(r) ==
  /\ r.at = "upsert" => r.op = "put"
  /\ r.at = "unwant" => r.op = "stop"
  /\ r.at = "forget" => r.op = "delete"
  /\ r.at = "want" => r.op = "start"

Undoes(r) == r.op \in {"stop", "delete"}

Proper(t) ==
  /\ Sane(task[t])
  /\ told[Of(t)] = "running" => ~Undoes(task[t])
  /\ task[t].op = "start" /\ task[t].at \in OnTheWay => muddled[Of(t)] \/ rows[Of(t)].there

Restorable ==
  /\ Alone
  /\ \A t \in Tasks : task[t] # Idle => Proper(t)
  /\ RunningIsRestored

\* Most steps move one task on, take nothing from the records and promise
\* nothing.
Follows(t, r) ==
  /\ r.p = task[t].p /\ Sane(r) /\ r.op \in {task[t].op, "start"}
  /\ r.op = "start" /\ r.at \in OnTheWay =>
       \/ rows[Of(t)].there
       \/ task[t].op = "start" /\ task[t].at \in OnTheWay

Moves(t) ==
  \E r : task' = [task EXCEPT ![t] = r] /\ (r = Idle \/ Follows(t, r))

Quiet(t) ==
  /\ Moves(t)
  /\ \A p \in Projects :
       /\ told'[p] = "running" => told[p] = "running"
       /\ muddled[p] => muddled'[p]
       /\ rows[p].there => rows'[p].there
       /\ rows[p].want => rows'[p].want

LEMMA IdleIsNobodys == Idle.p \notin Projects /\ Idle.at = "end" /\ Idle.op = "none"
BY HostAssumption DEF Idle

LEMMA QuietKeeps ==
  ASSUME Typed, Restorable, NEW t \in Tasks, task[t] # Idle, Quiet(t)
  PROVE  Restorable'
<1>1. PICK r : task' = [task EXCEPT ![t] = r] /\ (r = Idle \/ Follows(t, r))
  BY DEF Quiet, Moves
<1>2. \A s \in Tasks : task'[s] = IF s = t THEN r ELSE task[s]
  BY <1>1, TypedParts DEF TaskTyped
<1>3. \A s \in Tasks : task[s] # Idle => task[s].p \in Projects
  BY TypedParts DEF TaskTyped, Shape, Carries
<1>4. \A s \in Tasks : task'[s] # Idle => task'[s].p = task[s].p /\ task[s] # Idle
  BY <1>1, <1>2 DEF Follows
<1>5. Alone'
  <2> SUFFICES ASSUME NEW p \in Projects, ~muddled'[p], NEW s \in Tasks, NEW u \in Tasks,
                      task'[s].p = p, task'[u].p = p
               PROVE  s = u
    BY DEF Alone, Of
  <2>1. ~muddled[p]
    BY DEF Quiet
  <2>2. task[s].p = p /\ task[u].p = p
    BY <1>4, IdleIsNobodys
  <2> QED BY <2>1, <2>2 DEF Restorable, Alone, Of
<1>6. ASSUME NEW s \in Tasks, task'[s] # Idle
      PROVE  Proper(s)'
  <2> DEFINE p == task[s].p
  <2>1. task[s] # Idle /\ task'[s].p = p /\ p \in Projects /\ Proper(s)
    BY <1>3, <1>4, <1>6 DEF Restorable
  <2>2. s = t => Follows(t, task'[s])
    BY <1>1, <1>2, <1>6
  <2>3. Sane(task'[s])
    BY <1>2, <2>1, <2>2 DEF Follows, Proper
  <2>4. told'[p] = "running" => ~Undoes(task'[s])
    BY <1>2, <2>1, <2>2 DEF Follows, Proper, Undoes, Quiet, Of
  <2>5. task'[s].op = "start" /\ task'[s].at \in OnTheWay => muddled'[p] \/ rows'[p].there
    BY <1>2, <2>1, <2>2 DEF Follows, Proper, Quiet, Of
  <2> QED BY <2>1, <2>3, <2>4, <2>5 DEF Proper, Of, Sane, Undoes, OnTheWay
<1>7. RunningIsRestored'
  BY DEF Restorable, RunningIsRestored, Quiet
<1> QED BY <1>5, <1>6, <1>7 DEF Restorable

LEMMA EndsMoves ==
  ASSUME NEW t \in Tasks, Ends(t)
  PROVE  Moves(t)
BY DEF Ends, Moves

LEMMA GotoMoves ==
  ASSUME NEW t \in Tasks, task[t] \in TaskType, NEW step, Goto(t, step),
         step \in {"unwant", "upsert", "forget"} => FALSE,
         step = "want" => task[t].op = "start",
         task[t].op = "start" /\ step \in OnTheWay =>
           rows[Of(t)].there \/ task[t].at \in OnTheWay
  PROVE  Moves(t)
<1> DEFINE r == [task[t] EXCEPT !.at = step]
<1>1. task' = [task EXCEPT ![t] = r]
  BY DEF Goto
<1>2. r.p = task[t].p /\ r.op = task[t].op /\ r.at = step
  BY DEF TaskType
<1>3. Follows(t, r)
  BY <1>2 DEF Follows, Sane
<1> HIDE DEF r
<1> QED BY <1>1, <1>3 DEF Moves

LEMMA StartedMoves ==
  ASSUME NEW t \in Tasks, task[t] \in TaskType, task[t].at \in OnTheWay, Started(t)
  PROVE  Moves(t)
BY EndsMoves, GotoMoves DEF Started, SaysRunning, Answers

\* What a step may say of its project beside a plain "stopped" or "deleted".
LEMMA SaysRunningSays ==
  ASSUME Typed, NEW t \in Tasks, Of(t) \in Projects, SaysRunning(t)
  PROVE  /\ \A p \in Projects : p # Of(t) => told'[p] = told[p]
         /\ told'[Of(t)] \in {told[Of(t)], "unrecorded"}
<1> DEFINE word == IF told[Of(t)] = "running" THEN "running" ELSE "unrecorded"
           said == IF muddled[Of(t)] THEN told[Of(t)] ELSE word
<1>1. told' = [told EXCEPT ![Of(t)] = said]
  BY DEF SaysRunning, Answers
<1>2. said \in {told[Of(t)], "unrecorded"}
  OBVIOUS
<1> HIDE DEF said
<1> QED BY <1>1, <1>2, TypedParts DEF SaidTyped

LEMMA StartedSays ==
  ASSUME Typed, NEW t \in Tasks, Of(t) \in Projects,
         Started(t) \/ UNCHANGED told
  PROVE  /\ \A p \in Projects : p # Of(t) => told'[p] = told[p]
         /\ told'[Of(t)] \in {told[Of(t)], "unrecorded"}
BY SaysRunningSays DEF Started

LEMMA SpawnMoves ==
  ASSUME NEW t \in Tasks, task[t] \in TaskType, task[t].at \in OnTheWay,
         NEW u, NEW K, Spawn(t, u, K)
  PROVE  Moves(t)
<1>1. CASE Ends(t)
  BY <1>1, EndsMoves
<1>2. CASE ~Ends(t)
  <2>1. PICK e \in Engines :
          task' = [task EXCEPT ![t].e = e, ![t].at = "insert", ![t].uid = None]
    BY <1>2 DEF Spawn
  <2> DEFINE r == [task[t] EXCEPT !.e = e, !.at = "insert", !.uid = None]
  <2>2. task' = [task EXCEPT ![t] = r]
    BY <2>1
  <2>3. r.p = task[t].p /\ r.op = task[t].op /\ r.at = "insert"
    BY DEF TaskType
  <2>4. Follows(t, r)
    BY <2>3 DEF Follows, Sane
  <2> HIDE DEF r
  <2> QED BY <2>2, <2>4 DEF Moves
<1> QED BY <1>1, <1>2

LEMMA StoppedMoves ==
  ASSUME NEW t \in Tasks, task[t] \in TaskType, Stopped(t)
  PROVE  /\ Moves(t)
         /\ told' = told \/ told' = [told EXCEPT ![Of(t)] = IF muddled[Of(t)] THEN @ ELSE "stopped"]
<1>1. CASE Ends(t)
  BY <1>1, EndsMoves DEF Stopped, Answers
<1>2. CASE ~Ends(t)
  <2>1. PICK step \in {"check", "forget"} :
          /\ task' = [task EXCEPT ![t].e = None, ![t].at = step]
          /\ step = "check" => task[t].op = "restart"
          /\ step = "forget" => task[t].op = "delete"
    BY <1>2 DEF Stopped, Answers
  <2> DEFINE r == [task[t] EXCEPT !.e = None, !.at = step]
  <2>2. task' = [task EXCEPT ![t] = r]
    BY <2>1
  <2>3. r.p = task[t].p /\ r.op = task[t].op /\ r.at = step
    BY DEF TaskType
  <2>4. Follows(t, r)
    BY <2>1, <2>3 DEF Follows, Sane
  <2> HIDE DEF r
  <2>5. Moves(t)
    BY <2>2, <2>4 DEF Moves
  <2> QED BY <1>2, <2>5 DEF Stopped, Answers
<1> QED BY <1>1, <1>2

LEMMA QuietSteps ==
  ASSUME Typed, Restorable, NEW t \in Tasks, Step(t),
         ~Unwant(t), ~Want(t), ~Forget(t)
  PROVE  task[t] # Idle /\ Quiet(t)
<1>1. task[t] # Idle /\ Of(t) \in Projects /\ task[t] \in TaskType
  BY StandsTyped, TypedParts DEF Step, Proceeds, Returns, Upsert, Lookup, Unwant, Want, Check,
     PrepareEmbedded, PrepareProcess, Reap, GraceOver, Insert, Ask, Answered, Unanswered, Exited,
     TimedOut, Take, Drained, Forget
<1>2. Sane(task[t])
  BY <1>1 DEF Restorable, Proper
<1>3. ASSUME Moves(t), UNCHANGED <<rows, answers>>
      PROVE  Quiet(t)
  BY <1>3 DEF Quiet, answers
<1>4. CASE Upsert(t)
  <2>1. Moves(t)
    BY <1>1, <1>2, <1>4, GotoMoves DEF Upsert, Reached, Sane
  <2> QED BY <1>1, <1>4, <2>1, TypedParts DEF Upsert, answers, Quiet, DiskTyped, Row
<1>5. CASE Lookup(t)
  BY <1>1, <1>3, <1>5, EndsMoves, GotoMoves DEF Lookup, disk, OnTheWay
<1>6. CASE Check(t) \/ Ask(t) \/ Answered(t) \/ Unanswered(t) \/ Exited(t)
  <2>1. task[t].at \in OnTheWay
    BY <1>6 DEF Check, Ask, Answered, Unanswered, Exited, Reached, OnTheWay
  <2>2. Moves(t)
    BY <1>1, <1>6, <2>1, StartedMoves, EndsMoves, GotoMoves
       DEF Check, Ask, Answered, Unanswered, Exited
  <2>3. rows' = rows /\ muddled' = muddled /\ (Started(t) \/ UNCHANGED told)
    BY <1>6 DEF Check, Ask, Answered, Unanswered, Exited, disk, answers
  <2>4. \A p \in Projects : told'[p] = "running" => told[p] = "running"
    BY <1>1, <2>3, StartedSays
  <2> QED BY <1>1, <2>2, <2>3, <2>4 DEF Quiet
<1>7. CASE PrepareEmbedded(t) \/ Reap(t) \/ GraceOver(t)
  <2>1. task[t].at \in OnTheWay
    BY <1>7 DEF PrepareEmbedded, Reap, GraceOver, Reached, OnTheWay
  <2>2. Moves(t)
    BY <1>1, <1>7, <2>1, SpawnMoves, EndsMoves, GotoMoves
       DEF PrepareEmbedded, Reap, GraceOver
  <2> QED BY <1>1, <1>3, <1>7, <2>2 DEF PrepareEmbedded, Reap, GraceOver, disk
<1>8. CASE PrepareProcess(t)
  <2>1. Moves(t)
    <3>1. CASE Ends(t)
      BY <3>1, EndsMoves
    <3>2. CASE ~Ends(t)
      <4> DEFINE r == [task[t] EXCEPT !.at = "reap", !.uid = rows'[Of(t)].uid]
      <4>1. task' = [task EXCEPT ![t] = r]
        BY <1>8, <3>2 DEF PrepareProcess
      <4>2. r.p = task[t].p /\ r.op = task[t].op /\ r.at = "reap"
        BY <1>1 DEF TaskType
      <4>3. task[t].at \in OnTheWay
        BY <1>8 DEF PrepareProcess, Reached, OnTheWay
      <4>4. Follows(t, r)
        BY <4>2, <4>3 DEF Follows, Sane
      <4> HIDE DEF r
      <4> QED BY <4>1, <4>4 DEF Moves
    <3> QED BY <3>1, <3>2
  <2>2. \A p \in Projects : (rows[p].there => rows'[p].there)
                             /\ (rows[p].want => rows'[p].want)
    BY <1>1, <1>8, TypedParts DEF PrepareProcess, Allocates, disk, DiskTyped, Row
  <2> QED BY <1>1, <1>8, <2>1, <2>2 DEF PrepareProcess, answers, Quiet
<1>9. CASE Insert(t)
  <2> DEFINE r == [task[t] EXCEPT !.e = None, !.at = "health"]
  <2>1. task' = [task EXCEPT ![t] = r]
    BY <1>9 DEF Insert
  <2>2. r.p = task[t].p /\ r.op = task[t].op /\ r.at = "health"
    BY <1>1 DEF TaskType
  <2>3. Follows(t, r)
    BY <1>9, <2>2 DEF Insert, Reached, Follows, Sane, OnTheWay
  <2> HIDE DEF r
  <2>4. Moves(t)
    BY <2>1, <2>3 DEF Moves
  <2> QED BY <1>1, <1>3, <1>9, <2>4 DEF Insert, disk
<1>10. CASE TimedOut(t)
  <2> DEFINE op == IF task[t].op = "restore" THEN "restore" ELSE "start"
             r == [task[t] EXCEPT !.at = "take", !.op = op]
  <2>1. task' = [task EXCEPT ![t] = r]
    BY <1>10 DEF TimedOut
  <2>2. r.p = task[t].p /\ r.op \in {task[t].op, "start"} /\ r.at = "take"
    BY <1>1 DEF TaskType
  <2> HIDE DEF r
  <2>3. Follows(t, r)
    BY <2>2 DEF Follows, Sane, OnTheWay
  <2>4. Moves(t)
    BY <2>1, <2>3 DEF Moves
  <2> QED BY <1>1, <1>3, <1>10, <2>4 DEF TimedOut, disk
<1>11. CASE Take(t) /\ handle[Of(t)] # None
  <2> DEFINE r == [task[t] EXCEPT !.e = handle[Of(t)], !.at = "drain"]
  <2>1. task' = [task EXCEPT ![t] = r]
    BY <1>11 DEF Take
  <2>2. r.p = task[t].p /\ r.op = task[t].op /\ r.at = "drain"
    BY <1>1 DEF TaskType
  <2> HIDE DEF r
  <2>3. Follows(t, r)
    BY <2>2 DEF Follows, Sane, OnTheWay
  <2>4. Moves(t)
    BY <2>1, <2>3 DEF Moves
  <2> QED BY <1>1, <1>11, <1>3, <2>4 DEF Take, disk, answers
<1>12. CASE (Take(t) /\ handle[Of(t)] = None) \/ Drained(t)
  <2>1. Stopped(t) /\ UNCHANGED <<rows, muddled>>
    BY <1>12 DEF Take, Drained, disk
  <2>2. \A p \in Projects : told'[p] = "running" => told[p] = "running"
    BY <1>1, <2>1, StoppedMoves, TypedParts DEF SaidTyped
  <2> QED BY <1>1, <2>1, <2>2, StoppedMoves DEF Quiet
<1> QED BY <1>1, <1>4, <1>5, <1>6, <1>7, <1>8, <1>9, <1>10, <1>11, <1>12 DEF Step, Proceeds, Returns

LEMMA UnwantKeeps ==
  ASSUME Typed, Restorable, NEW t \in Tasks, Unwant(t)
  PROVE  Restorable'
<1>1. task[t] # Idle /\ Of(t) \in Projects /\ task[t] \in TaskType
  BY StandsTyped, TypedParts DEF Unwant
<1>2. task[t].op = "stop" /\ Proper(t)
  BY <1>1 DEF Restorable, Proper, Sane, Unwant, Reached
<1>3. told[Of(t)] # "running"
  BY <1>2 DEF Proper, Undoes
<1>4. \A p \in Projects : rows'[p].there = rows[p].there /\ (p # Of(t) => rows'[p] = rows[p])
  BY <1>1, TypedParts DEF Unwant, SetDesired, DiskTyped, Row
<1>5. UNCHANGED answers
  BY DEF Unwant
<1>6. Moves(t)
  BY <1>1, <1>2, GotoMoves DEF Unwant, OnTheWay
<1>7. RunningIsRestored'
  BY <1>3, <1>4, <1>5 DEF answers, Restorable, RunningIsRestored
<1>8. PICK r : task' = [task EXCEPT ![t] = r] /\ (r = Idle \/ Follows(t, r))
  BY <1>6 DEF Moves
<1>9. \A s \in Tasks : task'[s] = IF s = t THEN r ELSE task[s]
  BY <1>8, TypedParts DEF TaskTyped
<1>10. \A s \in Tasks : task'[s] # Idle => Of(s) \in Projects /\ task'[s].p = Of(s)
  BY <1>8, <1>9, <1>1, TypedParts DEF Follows, TaskTyped, Shape, Carries, Of
<1>11. Alone'
  BY <1>5, <1>9, <1>10, IdleIsNobodys DEF Restorable, Alone, Of, answers
<1>12. ASSUME NEW s \in Tasks, task'[s] # Idle
       PROVE  Proper(s)'
  <2>1. CASE s = t
    <3>1. Sane(task'[t])
      BY <2>1, <1>8, <1>9, <1>12 DEF Follows
    <3>2. task'[t].at = "take"
      BY TypedParts DEF Unwant, Goto, TaskTyped, TaskType
    <3> QED BY <2>1, <3>1, <3>2, <1>3, <1>5, <1>10, <1>12
            DEF Proper, Sane, OnTheWay, answers, Of
  <2>2. CASE s # t
    BY <2>2, <1>4, <1>5, <1>9, <1>10, <1>12
       DEF Restorable, Proper, Sane, Undoes, OnTheWay, answers, Of
  <2> QED BY <2>1, <2>2
<1> QED BY <1>7, <1>11, <1>12 DEF Restorable

\* A step that ends its task, and says or changes something of its project.
LEMMA LastStepKeeps ==
  ASSUME Typed, Restorable, NEW t \in Tasks, task[t] # Idle, Ends(t),
         \A p \in Projects : muddled[p] => muddled'[p],
         \A p \in Projects : p # Of(t) => rows'[p] = rows[p] /\ told'[p] = told[p],
         muddled[Of(t)] /\ told'[Of(t)] = "running" => told[Of(t)] = "running"
  PROVE  Alone' /\ \A s \in Tasks : task'[s] # Idle => Proper(s)'
<1>1. \A s \in Tasks : task'[s] = IF s = t THEN Idle ELSE task[s]
  BY TypedParts DEF TaskTyped, Ends
<1>2. \A s \in Tasks : task[s] # Idle => task[s].p \in Projects
  BY TypedParts DEF TaskTyped, Shape, Carries
<1>3. Alone'
  BY <1>1, IdleIsNobodys DEF Restorable, Alone, Of
<1>4. ASSUME NEW s \in Tasks, task'[s] # Idle
      PROVE  Proper(s)'
  <2>1. s # t /\ task'[s] = task[s] /\ task[s].p \in Projects /\ Proper(s)
    BY <1>1, <1>2, <1>4 DEF Restorable
  <2>2. CASE Of(s) # Of(t)
    BY <2>1, <2>2 DEF Proper, Of, Sane, Undoes, OnTheWay
  <2>3. CASE Of(s) = Of(t)
    <3>1. muddled[Of(t)]
      BY <2>1, <2>3 DEF Restorable, Alone, Of
    <3> QED BY <2>1, <2>3, <3>1 DEF Proper, Of, Sane, Undoes, OnTheWay
  <2> QED BY <2>2, <2>3
<1> QED BY <1>3, <1>4

LEMMA WantKeeps ==
  ASSUME Typed, Restorable, NEW t \in Tasks, Want(t)
  PROVE  Restorable'
<1>1. task[t] # Idle /\ Of(t) \in Projects
  BY StandsTyped, TypedParts DEF Want
<1>2. Ends(t) /\ UNCHANGED muddled
  BY DEF Want, SaysRunning, Answers
<1>3. CASE SetDesired(Of(t), TRUE) /\ Answers(t, "running")
  <2>1. \A p \in Projects : p # Of(t) => rows'[p] = rows[p] /\ told'[p] = told[p]
    BY <1>3, TypedParts DEF Answers, SetDesired, DiskTyped, SaidTyped
  <2>2. told'[Of(t)] = IF muddled[Of(t)] THEN told[Of(t)] ELSE "running"
    BY <1>1, <1>3, TypedParts DEF Answers, SaidTyped
  <2>3. rows'[Of(t)].there = rows[Of(t)].there /\ rows'[Of(t)].want = rows[Of(t)].there
    BY <1>1, <1>3, TypedParts DEF SetDesired, DiskTyped, Row
  <2>4. muddled[Of(t)] \/ rows[Of(t)].there
    BY <1>1 DEF Restorable, Proper, Sane, OnTheWay, Want, Reached
  <2>5. RunningIsRestored'
    BY <2>1, <2>2, <2>3, <2>4 DEF Restorable, RunningIsRestored
  <2>6. Alone' /\ \A s \in Tasks : task'[s] # Idle => Proper(s)'
    BY <1>1, <1>2, <2>1, <2>2, LastStepKeeps
  <2> QED BY <2>5, <2>6 DEF Restorable
<1>4. CASE SaysRunning(t) /\ UNCHANGED rows
  <2>1. /\ \A p \in Projects : p # Of(t) => told'[p] = told[p]
        /\ told'[Of(t)] = "running" => told[Of(t)] = "running"
    BY <1>1, <1>4, SaysRunningSays
  <2>2. RunningIsRestored'
    BY <1>4, <2>1 DEF Restorable, RunningIsRestored
  <2>3. Alone' /\ \A s \in Tasks : task'[s] # Idle => Proper(s)'
    BY <1>1, <1>2, <1>4, <2>1, LastStepKeeps
  <2> QED BY <2>2, <2>3 DEF Restorable
<1> QED BY <1>3, <1>4 DEF Want

LEMMA ForgetKeeps ==
  ASSUME Typed, Restorable, NEW t \in Tasks, Forget(t)
  PROVE  Restorable'
<1>1. task[t] # Idle /\ Of(t) \in Projects
  BY StandsTyped, TypedParts DEF Forget
<1>2. told[Of(t)] # "running"
  BY <1>1 DEF Restorable, Proper, Sane, Undoes, Forget, Reached
<1>3. \A p \in Projects : p # Of(t) => rows'[p] = rows[p] /\ told'[p] = told[p]
  BY TypedParts DEF Forget, Answers, answers, DiskTyped, SaidTyped
<1>4. told'[Of(t)] # "running"
  BY <1>1, <1>2, TypedParts DEF Forget, Answers, answers, SaidTyped
<1>5. Ends(t)
  BY DEF Forget, Answers
<1>6. \A p \in Projects : muddled[p] => muddled'[p]
  BY <1>1, TypedParts DEF Forget, answers, SaidTyped
<1>7. RunningIsRestored'
  BY <1>3, <1>4 DEF Restorable, RunningIsRestored
<1>8. Alone' /\ \A s \in Tasks : task'[s] # Idle => Proper(s)'
  BY <1>1, <1>3, <1>4, <1>5, <1>6, LastStepKeeps
<1> QED BY <1>7, <1>8 DEF Restorable

LEMMA HangUpKeeps ==
  ASSUME Typed, Restorable, NEW t \in Requests, HangUp(t)
  PROVE  Restorable'
<1>1. t \in Tasks /\ task[t] # Idle
  BY DEF Tasks, HangUp
<1>2. Moves(t)
  BY <1>1, EndsMoves DEF HangUp
<1>3. \A p \in Projects : muddled[p] => muddled'[p]
  BY TypedParts DEF HangUp, SaidTyped
<1>4. Quiet(t)
  BY <1>2, <1>3 DEF HangUp, disk, Quiet
<1> QED BY <1>1, <1>4, QuietKeeps

LEMMA BeginKeeps ==
  ASSUME Typed, Restorable, NEW o \in Offers, NEW p \in Projects, Begin(o[1], o[2], p)
  PROVE  Restorable'
<1> DEFINE t == o[1]
           op == o[2]
           at == FirstStep[op]
           r == [Idle EXCEPT !.op = op, !.p = p, !.at = at]
<1>1. t \in Tasks /\ op \in Ops
  BY HostAssumption DEF Tasks
<1>2. task' = [task EXCEPT ![t] = r]
  BY DEF Begin
<1>3. /\ at = "upsert" => op = "put"
      /\ at = "unwant" => op = "stop"
      /\ at \in {"upsert", "lookup", "unwant", "take"}
  BY <1>1 DEF FirstStep, Ops
<1>4. \A q \in Projects : q # p => told'[q] = told[q] /\ muddled'[q] = muddled[q]
  BY DEF Begin
<1>5. told'[p] = "running" => told[p] = "running" /\ op \notin {"stop", "delete"} /\ OpenFor(p) = {}
  BY TypedParts DEF Begin, SaidTyped, StillSaid
<1>6. OpenFor(p) # {} => muddled'[p]
  BY TypedParts DEF Begin, SaidTyped
<1>7. UNCHANGED rows
  BY DEF Begin, disk
<1> HIDE DEF t, op, at
<1>8. r.p = p /\ r.op = op /\ r.at = at
  BY DEF Idle
<1> HIDE DEF r
<1>9. \A s \in Tasks : task'[s] = IF s = t THEN r ELSE task[s]
  BY <1>2, TypedParts DEF TaskTyped
<1>10. \A s \in Tasks : task[s].p = p => s \in OpenFor(p)
  BY DEF OpenFor
<1>11. Alone'
  <2> SUFFICES ASSUME NEW q \in Projects, ~muddled'[q], NEW s \in Tasks, NEW u \in Tasks,
                      task'[s].p = q, task'[u].p = q
               PROVE  s = u
    BY DEF Alone, Of
  <2>1. CASE q = p
    BY <2>1, <1>6, <1>9, <1>10
  <2>2. CASE q # p
    BY <2>2, <1>4, <1>8, <1>9 DEF Restorable, Alone, Of
  <2> QED BY <2>1, <2>2
<1>12. ASSUME NEW s \in Tasks, task'[s] # Idle
       PROVE  Proper(s)'
  <2>1. CASE s = t
    BY <2>1, <1>1, <1>3, <1>5, <1>8, <1>9 DEF Proper, Sane, Undoes, OnTheWay, Of
  <2>2. CASE s # t
    <3>1. task'[s] = task[s] /\ Proper(s) /\ task[s].p \in Projects
      BY <2>2, <1>9, <1>12, TypedParts DEF Restorable, TaskTyped, Shape, Carries
    <3>2. CASE task[s].p = p
      BY <3>1, <3>2, <1>5, <1>6, <1>10 DEF Proper, Sane, Undoes, OnTheWay, Of
    <3>3. CASE task[s].p # p
      BY <3>1, <3>3, <1>4, <1>7 DEF Proper, Sane, Undoes, OnTheWay, Of
    <3> QED BY <3>2, <3>3
  <2> QED BY <2>1, <2>2
<1>13. RunningIsRestored'
  BY <1>4, <1>5, <1>7 DEF Restorable, RunningIsRestored
<1> QED BY <1>11, <1>12, <1>13 DEF Restorable

LEMMA BootKeeps ==
  ASSUME Typed, Restorable, Crash \/ Boot
  PROVE  Restorable'
<1>1. UNCHANGED <<rows, answers>>
  BY DEF Crash, Boot, disk
<1>2. ASSUME NEW t \in Tasks
      PROVE  \/ task'[t] = Idle
             \/ task'[t].p = t /\ task'[t].op = "restore" /\ task'[t].at = "check"
  BY DEF Crash, Boot, Idle
<1>3. Alone'
  BY <1>2, IdleIsNobodys DEF Alone, Of
<1>4. \A t \in Tasks : task'[t] # Idle => Proper(t)'
  BY <1>2 DEF Proper, Sane, Undoes
<1>5. RunningIsRestored'
  BY <1>1 DEF Restorable, RunningIsRestored, answers
<1> QED BY <1>3, <1>4, <1>5 DEF Restorable

LEMMA NextKeeps ==
  ASSUME Typed, Restorable, [Next]_vars
  PROVE  Restorable'
<1>1. ASSUME UNCHANGED <<rows, task, answers>>
      PROVE  Restorable'
  BY <1>1 DEF Restorable, Alone, Proper, Sane, Undoes, OnTheWay, Of, Idle,
     RunningIsRestored, answers
<1>2. ASSUME NEW t \in Tasks, Step(t)
      PROVE  Restorable'
  BY <1>2, QuietSteps, QuietKeeps, UnwantKeeps, WantKeeps, ForgetKeeps
<1>3. CASE Arrival
  <2>1. ASSUME NEW p \in Projects, Probe(p)
        PROVE  Restorable'
    BY <1>1, <2>1 DEF Probe, disk
  <2> QED BY <1>3, <2>1, BeginKeeps, HangUpKeeps DEF Arrival
<1>4. CASE (\E e \in Engines : Engine(e)) \/ OpenRoutes \/ UNCHANGED vars
  BY <1>1, <1>4 DEF Engine, Bind, Unlink, Exit, OpenRoutes, vars, disk
<1> QED BY <1>2, <1>3, <1>4, BootKeeps DEF Next

\* Whatever requests, crashes and dropped clients come between, a project a
\* start called running has a record that says so, and the next
\* reconcile_on_boot starts it (lib.rs, set_desired_running).  A restart that
\* calls a stopped project running, and a start whose write failed, are
\* answers of another kind, and leave no such record.
THEOREM RunningProjectsAreRestored == Spec => []RunningIsRestored
<1>1. Init => Restorable
  <2> SUFFICES ASSUME Init PROVE Restorable
    OBVIOUS
  <2>1. \A t \in Tasks : task[t] = Idle
    BY DEF Init
  <2>2. RunningIsRestored
    BY DEF Init, RunningIsRestored
  <2> QED BY <2>1, <2>2, IdleIsNobodys DEF Restorable, Alone, Of
<1>2. Restorable => RunningIsRestored
  BY DEF Restorable
<1> QED BY <1>1, <1>2, InitTyped, NextTyped, NextKeeps, PTL DEF Spec

-----------------------------------------------------------------------------
(* One engine per project, and none that is nobody's.  What follows is said  *)
(* of one project p at a time: a step of a task touches its own project, and *)
(* can only end engines of the others.                                       *)

\* A task holds an engine of its project while it puts it into the map or waits
\* for its end, and the map's engines are under their own projects.
Held ==
  /\ \A t \in Tasks : task[t].e # None =>
       task[t].at \in {"insert", "drain"} /\ task[t].e[1] = task[t].p
  /\ \A p \in Projects : handle[p] # None => handle[p][1] = p

\* An embedded engine whose end a task awaits has been asked to stop.
AskedFirst ==
  Embedded => \A t \in Tasks : task[t].e # None /\ task[t].at = "drain" =>
    phase[task[t].e] \notin {"starting", "serving"}

Owned == Held /\ AskedFirst /\ NoUnownedEngine

\* Where an engine that lives is accounted for: the map, a task, or, a process,
\* those the host lost.
Known(p, e) ==
  \/ handle[p] = e
  \/ \E t \in OpenFor(p) : task[t].e = e
  \/ ~Embedded /\ e \in strays

\* The one engine of p, where it is, and for a process, whose it is.
Single(p) ==
  \A e \in Live(p) :
    /\ \A f \in Live(p) : e = f
    /\ Known(p, e)
    /\ Embedded \/ (rows[p].uid # None /\ owner[e] = rows[p].uid)

\* What the task of p may count on at each of its steps.
Cleared(p, t) ==
  /\ task[t].at = "lookup" => task[t].op # "stop"
  /\ task[t].at = "insert" => Live(p) \subseteq {task[t].e} /\ handle[p] # task[t].e
  /\ task[t].at = "prepare" /\ task[t].op # "put" /\ Embedded => Live(p) = {}
  /\ task[t].at \in {"drain", "forget"} => handle[p] = None
  /\ task[t].at \in {"reap", "reaping"} => ~Embedded /\ task[t].uid = rows[p].uid
  /\ task[t].at \in {"take", "drain"} /\ task[t].op = "stop" => ~rows[p].want

\* An engine that serves from the map, or is about to, is bound at the path.
Bound(p) ==
  \A e \in Live(p) :
    /\ phase[e] = "serving"
    /\ handle[p] = e \/ \E t \in OpenFor(p) : task[t].at = "insert" /\ task[t].e = e
    => socket[p] = e

Orderly(p) ==
  ~muddled[p] => /\ Single(p) /\ Bound(p)
                 /\ \A t \in OpenFor(p) : Cleared(p, t)

\* What may be under way on a project that was said to be stopped or deleted.
Harmless(r, word) ==
  /\ word = "stopped"
  /\ \/ r.op = "put" /\ r.at \in {"upsert", "prepare"}
     \/ r.op = "stop" /\ r.at \in {"unwant", "take"}

Down(p) ==
  told[p] \in {"stopped", "deleted"} =>
    /\ ~rows[p].want /\ handle[p] = None /\ Live(p) \subseteq strays
    /\ \A t \in OpenFor(p) : Harmless(task[t], told[p])

WellKept == \A p \in Projects : Orderly(p) /\ Down(p)

-----------------------------------------------------------------------------
(* No embedded engine is nobody's. *)

Young(e) == phase[e] \in {"starting", "serving"}

\* A step that leaves the map and what the tasks hold, and starts no engine.
Leaves ==
  /\ backend' = backend /\ handle' = handle
  /\ \A s \in Tasks : task'[s].e = task[s].e /\ (task[s].e # None => task'[s] = task[s])
  /\ \A e \in Engines : Young(e)' => Young(e)

LEMMA LeavesOwned ==
  ASSUME Typed, Owned, Leaves
  PROVE  Owned'
<1>1. Held'
  BY DEF Owned, Held, Leaves
<1>2. \A t \in Tasks : task[t].e \in Engines \cup {None}
  BY TypedParts DEF TaskTyped, TaskType
<1>3. AskedFirst'
  BY <1>2 DEF Owned, AskedFirst, Leaves, Young, Embedded
<1>4. NoUnownedEngine'
  BY DEF Owned, NoUnownedEngine, Leaves, Young, Embedded
<1> QED BY <1>1, <1>3, <1>4 DEF Owned

LEMMA HoldsNothing ==
  ASSUME Typed, Owned, NEW t \in Tasks, task[t].at \notin {"insert", "drain"}
  PROVE  task[t].e = None
BY DEF Owned, Held

LEMMA IdleHoldsNothing == Idle.e = None
BY DEF Idle

\* Steps of a task that holds nothing and takes nothing up.
LEMMA EmptyHanded ==
  ASSUME Typed, Owned, NEW t \in Tasks, task[t].e = None,
         UNCHANGED <<backend, handle>>,
         \A e \in Engines : Young(e)' => Young(e),
         \/ Ends(t)
         \/ \E step : Goto(t, step)
         \/ \E step, u : task' = [task EXCEPT ![t].at = step, ![t].uid = u]
         \/ \E step, op : task' = [task EXCEPT ![t].at = step, ![t].op = op]
         \/ \E step : task' = [task EXCEPT ![t].e = None, ![t].at = step]
  PROVE  Owned'
<1>1. task \in [Tasks -> TaskType]
  BY TypedParts DEF TaskTyped
<1>2. \A s \in Tasks : s # t => task'[s] = task[s]
  BY <1>1 DEF Ends, Goto
<1>3. task'[t].e = None
  BY <1>1, IdleHoldsNothing DEF Ends, Goto, TaskType
<1> QED BY <1>2, <1>3, LeavesOwned DEF Leaves

LEMMA CalmOwned ==
  ASSUME Typed, Owned, NEW t \in Tasks,
         \/ Upsert(t) \/ Lookup(t) \/ Unwant(t) \/ Want(t) \/ Check(t)
         \/ PrepareProcess(t) \/ Ask(t) \/ Answered(t) \/ Unanswered(t) \/ Exited(t) \/ TimedOut(t) \/ Forget(t)
  PROVE  Owned'
<1>1. task[t].e = None
  BY HoldsNothing DEF Upsert, Lookup, Unwant, Want, Check, PrepareProcess, Ask, Answered, Unanswered,
     Exited, TimedOut, Forget, Reached
<1>2. UNCHANGED <<backend, handle, phase>>
  BY DEF Upsert, Lookup, Unwant, Want, Check, PrepareProcess, Ask, Answered, Unanswered, Exited,
     TimedOut, Forget, engines
<1>3. \A e \in Engines : Young(e)' => Young(e)
  BY <1>2 DEF Young
<1>4. CASE Upsert(t) \/ Lookup(t) \/ Unwant(t) \/ Want(t) \/ Check(t)
           \/ Ask(t) \/ Answered(t) \/ Unanswered(t) \/ Exited(t) \/ Forget(t)
  <2>1. Ends(t) \/ \E step : Goto(t, step)
    BY <1>4 DEF Upsert, Lookup, Unwant, Want, Check, Ask, Answered, Unanswered, Exited, Forget, Started,
       SaysRunning, Answers
  <2> QED BY <1>1, <1>2, <1>3, <2>1, EmptyHanded
<1>5. CASE PrepareProcess(t) \/ TimedOut(t)
  <2>1. \/ Ends(t)
        \/ \E step, u : task' = [task EXCEPT ![t].at = step, ![t].uid = u]
        \/ \E step, op : task' = [task EXCEPT ![t].at = step, ![t].op = op]
    BY <1>5 DEF PrepareProcess, TimedOut
  <2> QED BY <1>1, <1>2, <1>3, <2>1, EmptyHanded
<1> QED BY <1>4, <1>5

LEMMA SpawnOwned ==
  ASSUME Typed, Owned, NEW t \in Tasks, task[t] # Idle, task[t].e = None,
         NEW u \in Uids \cup {None}, NEW K, Spawn(t, u, K), UNCHANGED <<backend, handle>>
  PROVE  Owned'
<1>1. CASE Ends(t) /\ Engined(K, {}, u)
  <2>1. \A e \in Engines : Young(e)' => Young(e)
    BY <1>1, TypedParts DEF Engined, Young, EnginesTyped
  <2> QED BY <1>1, <2>1, EmptyHanded
<1>2. CASE ~(Ends(t) /\ Engined(K, {}, u))
  <2>1. PICK e \in Engines :
          /\ e[1] = Of(t) /\ e # handle[Of(t)] /\ \A s \in Tasks : task[s].e # e
          /\ Engined(K, {e}, u)
          /\ task' = [task EXCEPT ![t].e = e, ![t].at = "insert", ![t].uid = None]
    BY <1>2 DEF Spawn
  <2>2. /\ \A s \in Tasks : s # t => task'[s] = task[s]
        /\ task'[t].e = e /\ task'[t].at = "insert" /\ task'[t].p = Of(t)
    BY <2>1, TypedParts DEF TaskTyped, TaskType, Of
  <2>3. \A f \in Engines : f # e /\ Young(f)' => Young(f)
    BY <2>1 DEF Engined, Young
  <2>4. Held'
    BY <2>1, <2>2 DEF Owned, Held, Of
  <2>5. \A s \in Tasks : task[s].e \in Engines \cup {None}
    BY TypedParts DEF TaskTyped, TaskType
  <2>6. AskedFirst'
    BY <2>1, <2>2, <2>3, <2>5 DEF Owned, AskedFirst, Embedded, Young
  <2>7. NoUnownedEngine'
    <3> SUFFICES ASSUME Embedded', NEW f \in Engines, Young(f)'
                 PROVE  handle'[f[1]] = f \/ \E s \in Tasks : task'[s].e = f
      BY DEF NoUnownedEngine, Young
    <3>1. CASE f = e
      BY <2>2, <3>1
    <3>2. CASE f # e
      <4>1. handle[f[1]] = f \/ \E s \in Tasks : task[s].e = f
        BY <2>3, <3>2 DEF Owned, NoUnownedEngine, Embedded, Young
      <4>2. f # None
        BY HostAssumption
      <4> QED BY <2>2, <4>1, <4>2
    <3> QED BY <3>1, <3>2
  <2> QED BY <2>4, <2>6, <2>7 DEF Owned
<1> QED BY <1>1, <1>2

LEMMA AskedOwned ==
  ASSUME Typed, Owned, NEW t \in Tasks, Reap(t) \/ GraceOver(t) \/ PrepareEmbedded(t)
  PROVE  Owned'
<1>1. task[t] # Idle /\ task[t].e = None /\ UNCHANGED <<backend, handle>>
  BY HoldsNothing, StandsTyped, TypedParts DEF Reap, GraceOver, PrepareEmbedded, Reached
<1>2. task[t].at \in {"reap", "reaping"} => task[t].uid \in Uids
  BY <1>1, TypedParts DEF TaskTyped, Shape, Carries
<1>3. CASE \E u \in Uids \cup {None} : \E K : Spawn(t, u, K)
  BY <1>1, <1>3, SpawnOwned
<1>4. CASE ~\E u \in Uids \cup {None} : \E K : Spawn(t, u, K)
  <2>1. \/ Ends(t) /\ UNCHANGED engines
        \/ \E E, step : Asked(E) /\ Goto(t, step)
    BY <1>2, <1>4 DEF Reap, GraceOver, PrepareEmbedded, Reached
  <2>2. \A e \in Engines : Young(e)' => Young(e)
    BY <2>1 DEF Asked, Young, engines
  <2> QED BY <1>1, <2>1, <2>2, EmptyHanded
<1> QED BY <1>3, <1>4

LEMMA InsertOwned ==
  ASSUME Typed, Owned, NEW t \in Tasks, Insert(t)
  PROVE  Owned'
<1> DEFINE e == task[t].e
           p == Of(t)
<1>1. task[t] # Idle /\ p \in Projects /\ e \in Engines /\ e[1] = p /\ e # None
  BY HostAssumption, StandsTyped, TypedParts
  DEF Insert, Owned, Held, TaskTyped, Shape, Carries, Reached, Of
<1>2. /\ \A s \in Tasks : s # t => task'[s] = task[s]
      /\ task'[t].e = None /\ backend' = backend
  BY TypedParts DEF Insert, TaskTyped, TaskType
<1>3. \A q \in Projects : handle'[q] = IF q = p THEN e ELSE handle[q]
  BY TypedParts DEF Insert, MapTyped
<1>4. /\ \A f \in Engines : Young(f)' => Young(f)
      /\ Embedded => \A f \in Engines : f = handle[p] /\ f[1] = p => ~Young(f)'
  BY DEF Insert, Asked, Young, Live
<1>5. Held'
  BY <1>1, <1>2, <1>3 DEF Owned, Held
<1>6. \A s \in Tasks : task[s].e \in Engines \cup {None}
  BY TypedParts DEF TaskTyped, TaskType
<1>7. AskedFirst'
  BY <1>2, <1>4, <1>6 DEF Owned, AskedFirst, Embedded, Young
<1>8. NoUnownedEngine'
  <2> SUFFICES ASSUME Embedded', NEW f \in Engines, Young(f)'
               PROVE  handle'[f[1]] = f \/ \E s \in Tasks : task'[s].e = f
    BY DEF NoUnownedEngine, Young
  <2>1. Embedded /\ Young(f) /\ f[1] \in Projects /\ f # None
    BY <1>2, <1>4, HostAssumption DEF Embedded, Engines
  <2>2. handle[f[1]] = f \/ \E s \in Tasks : task[s].e = f
    BY <2>1 DEF Owned, NoUnownedEngine, Young
  <2>3. CASE f = e
    BY <1>1, <1>3, <2>3
  <2>4. CASE f # e /\ handle[f[1]] = f
    BY <1>3, <1>4, <2>1, <2>4
  <2>5. CASE f # e /\ \E s \in Tasks : task[s].e = f
    BY <1>2, <2>5
  <2> QED BY <2>2, <2>3, <2>4, <2>5
<1> QED BY <1>5, <1>7, <1>8 DEF Owned

LEMMA TakeOwned ==
  ASSUME Typed, Owned, NEW t \in Tasks, Take(t)
  PROVE  Owned'
<1> DEFINE p == Of(t)
<1>1. task[t] # Idle /\ p \in Projects /\ task[t].e = None
  BY HoldsNothing, StandsTyped, TypedParts DEF Take, Reached
<1>2. CASE handle[p] = None
  <2>1. UNCHANGED <<backend, handle, phase>>
    BY <1>2, TypedParts DEF Take, MapTyped
  <2>2. \A e \in Engines : Young(e)' => Young(e)
    BY <2>1 DEF Young
  <2>3. Stopped(t)
    BY <1>2 DEF Take
  <2>4. \/ Ends(t)
        \/ \E step : task' = [task EXCEPT ![t].e = None, ![t].at = step]
    BY <2>3 DEF Stopped, Answers
  <2> QED BY <1>1, <2>1, <2>2, <2>4, EmptyHanded
<1>3. CASE handle[p] # None
  <2>1. PICK h \in Engines : h = handle[p] /\ h[1] = p
    BY <1>1, <1>3, TypedParts DEF MapTyped, Owned, Held
  <2>2. /\ \A s \in Tasks : s # t => task'[s] = task[s]
        /\ task'[t].e = h /\ task'[t].at = "drain" /\ task'[t].p = p /\ backend' = backend
    BY <1>1, <1>3, <2>1, TypedParts DEF Take, TaskTyped, TaskType, Of
  <2>3. \A q \in Projects : handle'[q] = IF q = p THEN None ELSE handle[q]
    BY TypedParts DEF Take, MapTyped
  <2>4. phase' = [e \in Engines |-> IF e \in {h} \cap Live(p) THEN "draining" ELSE phase[e]]
    BY <1>3, <2>1 DEF Take, Asked
  <2>5. ~Young(h)' /\ \A f \in Engines : Young(f)' => Young(f)
    BY <2>1, <2>4 DEF Young, Live
  <2>6. Held'
    BY <1>1, <2>1, <2>2, <2>3 DEF Owned, Held
  <2>7. \A s \in Tasks : task[s].e \in Engines \cup {None}
    BY TypedParts DEF TaskTyped, TaskType
  <2>8. AskedFirst'
    BY <2>2, <2>5, <2>7 DEF Owned, AskedFirst, Embedded, Young
  <2>9. NoUnownedEngine'
    <3> SUFFICES ASSUME Embedded', NEW f \in Engines, Young(f)'
                 PROVE  handle'[f[1]] = f \/ \E s \in Tasks : task'[s].e = f
      BY DEF NoUnownedEngine, Young
    <3>1. Embedded /\ Young(f) /\ f[1] \in Projects /\ f # None
      BY <2>2, <2>5, HostAssumption DEF Embedded, Engines
    <3>2. handle[f[1]] = f \/ \E s \in Tasks : task[s].e = f
      BY <3>1 DEF Owned, NoUnownedEngine, Young
    <3>3. CASE handle[f[1]] = f
      BY <2>1, <2>2, <2>3, <3>1, <3>3
    <3>4. CASE \E s \in Tasks : task[s].e = f
      BY <1>1, <2>2, <3>1, <3>4
    <3> QED BY <3>2, <3>3, <3>4
  <2> QED BY <2>6, <2>8, <2>9 DEF Owned
<1> QED BY <1>2, <1>3

\* A task lets go of an engine that no longer runs, or was asked to stop.
LEMMA DroppedOwned ==
  ASSUME Typed, Owned, NEW t \in Tasks,
         UNCHANGED <<backend, handle>>,
         \A s \in Tasks : s # t => task'[s] = task[s],
         task'[t].e = None,
         \A f \in Engines : Young(f)' => Young(f),
         Embedded => \A f \in Engines : task[t].e = f => ~Young(f)'
  PROVE  Owned'
<1>1. Held'
  BY DEF Owned, Held
<1>2. \A s \in Tasks : task[s].e \in Engines \cup {None}
  BY TypedParts DEF TaskTyped, TaskType
<1>3. AskedFirst'
  BY <1>2 DEF Owned, AskedFirst, Embedded, Young
<1>4. NoUnownedEngine'
  BY DEF Owned, NoUnownedEngine, Embedded, Young
<1> QED BY <1>1, <1>3, <1>4 DEF Owned

LEMMA DrainedOwned ==
  ASSUME Typed, Owned, NEW t \in Tasks, Drained(t)
  PROVE  Owned'
<1>1. /\ \A s \in Tasks : s # t => task'[s] = task[s]
      /\ task'[t].e = None
  BY IdleHoldsNothing, TypedParts
  DEF Drained, Stopped, Answers, Ends, TaskTyped, TaskType
<1>2. /\ \A f \in Engines : Young(f)' => Young(f)
      /\ \A f \in Engines : task[t].e = f => ~Young(f)'
  BY DEF Drained, Engined, Young
<1>3. UNCHANGED <<backend, handle>>
  BY DEF Drained
<1> QED BY <1>1, <1>2, <1>3, DroppedOwned

LEMMA HangUpOwned ==
  ASSUME Typed, Owned, NEW t \in Tasks, HangUp(t)
  PROVE  Owned'
<1>1. /\ \A s \in Tasks : s # t => task'[s] = task[s]
      /\ task'[t].e = None /\ UNCHANGED <<backend, handle>>
  BY IdleHoldsNothing, TypedParts DEF HangUp, Ends, TaskTyped
<1>2. phase' = phase \/ phase' = [phase EXCEPT ![task[t].e] = "draining"]
  BY DEF HangUp
<1>3. \A f \in Engines : Young(f)' => Young(f)
  BY <1>2, TypedParts DEF Young, EnginesTyped
<1>4. ASSUME Embedded, NEW f \in Engines, task[t].e = f
      PROVE  ~Young(f)'
  <2>1. f # None /\ task[t].at \in {"insert", "drain"}
    BY <1>4, HostAssumption DEF Owned, Held
  <2>2. phase[f] # "gone" => phase'[f] = "draining"
    BY <1>4, <2>1, TypedParts DEF HangUp, EnginesTyped
  <2>3. phase[f] = "gone" => phase'[f] = phase[f]
    BY <1>4 DEF HangUp
  <2> QED BY <2>2, <2>3 DEF Young
<1> QED BY <1>1, <1>3, <1>4, DroppedOwned

\* Nothing is under way while the host is down.
AtRest == host = "down" => \A t \in Tasks : task[t] = Idle

LEMMA NextAtRest ==
  ASSUME Typed, AtRest, [Next]_vars
  PROVE  AtRest'
<1>1. ASSUME NEW t \in Tasks, Step(t)
      PROVE  AtRest'
  <2>1. task[t] # Idle
    BY <1>1, StandsTyped, TypedParts DEF Step, Proceeds, Returns, Upsert, Lookup, Unwant, Want, Check,
       PrepareEmbedded, PrepareProcess, Reap, GraceOver, Insert, Ask, Answered, Unanswered, Exited,
       TimedOut, Take, Drained, Forget
  <2>2. host' = host
    BY <1>1 DEF Step, Proceeds, Returns, Upsert, Lookup, Unwant, Want, Check, PrepareEmbedded,
       PrepareProcess, Reap, GraceOver, Insert, Ask, Answered, Unanswered, Exited, TimedOut, Take,
       Drained, Forget
  <2> QED BY <2>1, <2>2 DEF AtRest
<1>2. CASE Arrival
  BY <1>2, HostAssumption DEF Arrival, Begin, HangUp, Probe, AtRest, Tasks
<1>3. CASE (\E e \in Engines : Engine(e)) \/ UNCHANGED vars
  BY <1>3 DEF Engine, Bind, Unlink, Exit, vars, AtRest
<1>4. CASE Crash \/ Boot \/ OpenRoutes
  BY <1>4 DEF Crash, Boot, OpenRoutes, AtRest
<1> QED BY <1>1, <1>2, <1>3, <1>4 DEF Next

LEMMA NextOwned ==
  ASSUME Typed, AtRest, Owned, [Next]_vars
  PROVE  Owned'
<1>1. ASSUME NEW t \in Tasks, Step(t)
      PROVE  Owned'
  BY <1>1, CalmOwned, AskedOwned, InsertOwned, TakeOwned, DrainedOwned DEF Step, Proceeds, Returns
<1>2. ASSUME NEW o \in Offers, NEW p \in Projects, Begin(o[1], o[2], p)
      PROVE  Owned'
  <2>1. \A s \in Tasks : task'[s].e = task[s].e /\ (task[s].e # None => task'[s] = task[s])
    BY <1>2, IdleHoldsNothing, TypedParts DEF Begin, TaskTyped, Idle
  <2> QED BY <1>2, <2>1, LeavesOwned DEF Begin, Leaves, engines, Young
<1>3. ASSUME NEW t \in Requests, HangUp(t)
      PROVE  Owned'
  BY <1>3, HangUpOwned DEF Tasks
<1>4. ASSUME NEW p \in Projects, Probe(p)
      PROVE  Owned'
  BY <1>4, TypedParts DEF Probe, engines, Owned, Held, AskedFirst, NoUnownedEngine,
     Embedded, MapTyped
<1>5. ASSUME NEW e \in Engines, Engine(e)
      PROVE  Owned'
  <2>1. \A f \in Engines : Young(f)' => Young(f)
    BY <1>5, TypedParts DEF Engine, Bind, Unlink, Exit, Engined, Young, EnginesTyped, engines
  <2> QED BY <1>5, <2>1, LeavesOwned DEF Engine, Bind, Unlink, Exit, Leaves
<1>6. CASE Crash
  <2>1. \A s \in Tasks : task'[s].e = None
    BY <1>6, IdleHoldsNothing DEF Crash
  <2>2. \A p \in Projects : handle'[p] = None
    BY <1>6 DEF Crash
  <2>3. backend' = backend /\ (Embedded => \A e \in Engines : phase'[e] = "gone")
    BY <1>6 DEF Crash, Engined
  <2> QED BY <2>1, <2>2, <2>3 DEF Owned, Held, AskedFirst, NoUnownedEngine, Embedded
<1>7. CASE Boot
  <2>1. \A s \in Tasks : task'[s].e = None
    BY <1>7, IdleHoldsNothing DEF Boot, Idle
  <2>2. \A s \in Tasks : task[s].e = None
    BY <1>7, IdleHoldsNothing DEF Boot, AtRest
  <2> QED BY <1>7, <2>1, <2>2, LeavesOwned DEF Boot, engines, Leaves, Young
<1>8. CASE OpenRoutes \/ UNCHANGED vars
  BY <1>8, LeavesOwned DEF OpenRoutes, vars, engines, Leaves, Young
<1>9. CASE Arrival
  BY <1>2, <1>3, <1>4, <1>9 DEF Arrival
<1> QED BY <1>1, <1>5, <1>6, <1>7, <1>8, <1>9 DEF Next

\* The embedded backend's engines are tasks of wheeld: one that is not asked to
\* stop is in the map or in the hands of a request, whoever hangs up when
\* (wheeld/src/embedded.rs, the handles' map and their drop).
THEOREM EveryEngineIsOwned == Spec => []NoUnownedEngine
<1>1. Init => AtRest /\ Owned
  BY IdleHoldsNothing DEF Init, AtRest, Owned, Held, AskedFirst, NoUnownedEngine
<1>2. Owned => NoUnownedEngine
  BY DEF Owned
<1> QED BY <1>1, <1>2, InitTyped, NextTyped, NextAtRest, NextOwned, PTL DEF Spec

-----------------------------------------------------------------------------
(* A project none of whose tasks moves is kept as it was. *)

\* No engine of p starts, and those that go on are whose they were.
Fading(p) ==
  \A e \in Engines : e[1] = p /\ phase'[e] # "gone" =>
    phase[e] # "gone" /\ owner'[e] = owner[e] /\ (e \in strays => e \in strays')

Untouched(q) ==
  /\ backend' = backend
  /\ rows'[q] = rows[q] /\ handle'[q] = handle[q] /\ told'[q] = told[q]
  /\ muddled[q] => muddled'[q]
  /\ \A s \in Tasks : task[s].p = q \/ task'[s].p = q => task'[s] = task[s]
  /\ Fading(q)
  /\ ~muddled[q] => Bound(q)'

LEMMA UntouchedKeeps ==
  ASSUME NEW q \in Projects, Orderly(q), Down(q), Untouched(q)
  PROVE  Orderly(q)' /\ Down(q)'
<1>1. Live(q)' \subseteq Live(q)
  BY DEF Live, Untouched, Fading
<1>2. OpenFor(q)' = OpenFor(q) /\ \A s \in OpenFor(q) : task'[s] = task[s]
  BY DEF OpenFor, Untouched
<1>3. ASSUME ~muddled[q]
      PROVE  Single(q)'
  <2> SUFFICES ASSUME NEW e \in Live(q)'
               PROVE  /\ \A f \in Live(q)' : e = f
                      /\ Known(q, e)'
                      /\ Embedded' \/ (rows'[q].uid # None /\ owner'[e] = rows'[q].uid)
    BY DEF Single
  <2>1. /\ \A f \in Live(q) : e = f
        /\ Known(q, e)
        /\ Embedded \/ (rows[q].uid # None /\ owner[e] = rows[q].uid)
    BY <1>1, <1>3 DEF Orderly, Single
  <2>2. owner'[e] = owner[e] /\ (e \in strays => e \in strays')
    BY DEF Live, Untouched, Fading
  <2> QED BY <1>1, <1>2, <2>1, <2>2 DEF Untouched, Known, Embedded
<1>4. ASSUME ~muddled[q], NEW t \in OpenFor(q)
      PROVE  Cleared(q, t)'
  BY <1>1, <1>2, <1>4 DEF Untouched, Orderly, Cleared, Embedded
<1>5. Orderly(q)'
  BY <1>2, <1>3, <1>4 DEF Orderly, Untouched
<1>6. Live(q) \subseteq strays => Live(q)' \subseteq strays'
  BY DEF Live, Untouched, Fading
<1>7. Down(q)'
  BY <1>2, <1>6 DEF Down, Untouched
<1> QED BY <1>5, <1>7

\* The path keeps what serves at it.
LEMMA PathKept ==
  ASSUME NEW q \in Projects, ~muddled[q], Orderly(q), handle'[q] = handle[q],
         \A s \in Tasks : task[s].p = q \/ task'[s].p = q => task'[s] = task[s],
         \A e \in Engines : e[1] = q /\ phase'[e] = "serving" =>
           phase[e] = "serving" /\ (socket[q] = e => socket'[q] = e)
  PROVE  Bound(q)'
<1> SUFFICES ASSUME NEW e \in Live(q)', phase'[e] = "serving",
                    \/ handle'[q] = e
                    \/ \E t \in OpenFor(q)' : task'[t].at = "insert" /\ task'[t].e = e
             PROVE  socket'[q] = e
  BY DEF Bound
<1>1. e \in Live(q) /\ phase[e] = "serving"
  BY DEF Live
<1>2. \/ handle[q] = e
      \/ \E t \in OpenFor(q) : task[t].at = "insert" /\ task[t].e = e
  BY DEF OpenFor
<1>3. socket[q] = e
  BY <1>1, <1>2 DEF Orderly, Bound
<1> QED BY <1>3 DEF Live

\* What a task does beside its own project: it can only end engines.
LEMMA StepElsewhere ==
  ASSUME Typed, Restorable, Owned, WellKept, NEW t \in Tasks, Step(t),
         NEW q \in Projects, q # Of(t)
  PROVE  Untouched(q)
<1>1. task[t] # Idle /\ Of(t) \in Projects /\ task[t] \in TaskType
  BY StandsTyped, TypedParts DEF Step, Proceeds, Returns, Upsert, Lookup, Unwant, Want, Check,
     PrepareEmbedded, PrepareProcess, Reap, GraceOver, Insert, Ask, Answered, Unanswered, Exited,
     TimedOut, Take, Drained, Forget
<1>2. PICK r : task' = [task EXCEPT ![t] = r] /\ (r = Idle \/ r.p = Of(t))
  <2>1. Unwant(t) \/ Want(t) \/ Forget(t) \/ Moves(t)
    BY QuietSteps DEF Quiet
  <2>2. CASE Unwant(t)
    <3> DEFINE r == [task[t] EXCEPT !.at = "take"]
    <3>1. task' = [task EXCEPT ![t] = r]
      BY <2>2 DEF Unwant, Goto
    <3>2. r.p = Of(t)
      BY <1>1 DEF TaskType, Of
    <3> HIDE DEF r
    <3> QED BY <3>1, <3>2
  <2>3. CASE Want(t) \/ Forget(t)
    BY <2>3 DEF Want, Forget, SaysRunning, Answers, Ends
  <2> QED BY <2>1, <2>2, <2>3 DEF Moves, Follows, Of
<1>3. \A s \in Tasks : task[s].p = q \/ task'[s].p = q => task'[s] = task[s]
  BY <1>2, IdleIsNobodys, TypedParts DEF TaskTyped, Of
<1>4. rows'[q] = rows[q] /\ handle'[q] = handle[q] /\ told'[q] = told[q]
      /\ muddled'[q] = muddled[q] /\ backend' = backend
  BY <1>1, TypedParts
  DEF Step, Proceeds, Returns, Upsert, Lookup, Unwant, Want, Check, PrepareEmbedded, PrepareProcess, Reap,
      GraceOver, Insert, Ask, Answered, Unanswered, Exited, TimedOut, Take, Drained, Forget, answers, disk,
      engines, Answers, SaysRunning, Started, Stopped, SetDesired, Allocates, DiskTyped,
      MapTyped, SaidTyped
<1>5. \/ UNCHANGED <<engines, socket>>
      \/ \E E : Asked(E) /\ UNCHANGED <<owner, strays, socket>> /\ \A e \in E : phase[e] # "gone"
      \/ \E K, u : Spawn(t, u, K)
      \/ Take(t) /\ UNCHANGED <<phase, owner, strays>> /\ Clear(Of(t))
      \/ Drained(t)
  <2>1. CASE Insert(t) \/ (Take(t) /\ handle[Of(t)] # None)
    BY <2>1 DEF Insert, Take, Live
  <2>2. CASE Take(t) /\ handle[Of(t)] = None
    BY <2>2 DEF Take, engines
  <2>3. CASE Reap(t)
    BY <2>3 DEF Reap, Leftovers
  <2>4. CASE ~Insert(t) /\ ~Take(t) /\ ~Reap(t)
    BY <2>4 DEF Step, Proceeds, Returns, Upsert, Lookup, Unwant, Want, Check, PrepareEmbedded,
       PrepareProcess, GraceOver, Ask, Answered, Unanswered, Exited, TimedOut, Drained, Forget, engines
  <2> QED BY <2>1, <2>2, <2>3, <2>4
<1>6. Fading(q) /\ \A e \in Engines : e[1] = q /\ phase'[e] = "serving" =>
           phase[e] = "serving" /\ (socket[q] = e => socket'[q] = e)
  <2>1. CASE UNCHANGED <<engines, socket>>
    BY <2>1 DEF engines, Fading
  <2>2. CASE \E E : Asked(E) /\ UNCHANGED <<owner, strays, socket>> /\ \A e \in E : phase[e] # "gone"
    BY <2>2 DEF Asked, Fading
  <2>3. ASSUME NEW K, NEW u, Spawn(t, u, K)
        PROVE  Fading(q) /\ \A e \in Engines : e[1] = q /\ phase'[e] = "serving" =>
                 phase[e] = "serving" /\ (socket[q] = e => socket'[q] = e)
    <3>1. PICK M : Engined(K, M, u) /\ \A e \in M : e[1] = Of(t)
      <4>1. CASE Engined(K, {}, u)
        BY <4>1
      <4>2. CASE ~Engined(K, {}, u)
        <5>1. PICK e \in Engines : e[1] = Of(t) /\ Engined(K, {e}, u)
          BY <2>3, <4>2 DEF Spawn
        <5>2. \A f \in {e} : f[1] = Of(t)
          BY <5>1
        <5> QED BY <5>1, <5>2
      <4> QED BY <4>1, <4>2
    <3>2. socket' = [z \in Projects |-> IF z = Of(t) \/ socket[z] \in K THEN None ELSE socket[z]]
      BY <2>3 DEF Spawn
    <3>3. \A e \in Engines : e[1] = q => e \notin M
      BY <3>1
    <3> QED BY <3>1, <3>2, <3>3 DEF Engined, Fading
  <2>4. CASE Take(t) /\ UNCHANGED <<phase, owner, strays>> /\ Clear(Of(t))
    BY <2>4, TypedParts DEF Clear, Fading, SocketTyped
  <2>5. CASE Drained(t)
    BY <2>5, TypedParts DEF Drained, Engined, Clear, Fading, SocketTyped
  <2> QED BY <1>5, <2>1, <2>2, <2>3, <2>4, <2>5
<1>7. ~muddled[q] => Bound(q)'
  BY <1>3, <1>4, <1>6, PathKept DEF WellKept
<1> QED BY <1>3, <1>4, <1>6, <1>7 DEF Untouched

-----------------------------------------------------------------------------
(* What a task does to its own project, which it has to itself unless the    *)
(* project is muddled.                                                       *)

LEMMA OwnTask ==
  ASSUME Typed, Restorable, NEW t \in Tasks, task[t] # Idle,
         ~muddled[Of(t)], NEW s \in OpenFor(Of(t))
  PROVE  s = t
BY TypedParts DEF Restorable, Alone, Of, OpenFor, TaskTyped, Shape, Carries

LEMMA OwnOrderly ==
  ASSUME Typed, Restorable, NEW t \in Tasks, task[t] # Idle,
         \A s \in Tasks : s # t => task'[s] = task[s],
         NEW p \in Projects, p = Of(t), muddled[p] => muddled'[p],
         ~muddled[p] => /\ Single(p)' /\ Bound(p)'
                        /\ task'[t].p = p => Cleared(p, t)'
  PROVE  Orderly(p)'
<1> SUFFICES ASSUME ~muddled'[p]
             PROVE  Single(p)' /\ Bound(p)' /\ \A s \in OpenFor(p)' : Cleared(p, s)'
  BY DEF Orderly
<1>1. ASSUME NEW s \in OpenFor(p)'
      PROVE  s = t /\ task'[s].p = p
  <2>1. s \in Tasks /\ task'[s].p = p
    BY DEF OpenFor
  <2>2. s # t => s \in OpenFor(p)
    BY <2>1 DEF OpenFor
  <2> QED BY <2>1, <2>2, OwnTask
<1> QED BY <1>1

\* Engines, map and path as they were, the task empty-handed.
Calm(t) ==
  /\ UNCHANGED <<backend, handle, phase, owner, strays, socket>>
  /\ \A s \in Tasks : s # t => task'[s] = task[s]
  /\ task[t].e = None /\ task'[t].e = None
  /\ task[t].at \notin {"insert", "drain"}

LEMMA CalmSingle ==
  ASSUME NEW t \in Tasks, Calm(t), NEW p \in Projects, Single(p), Bound(p),
         rows'[p].uid = rows[p].uid \/ Live(p) = {}
  PROVE  Single(p)' /\ Bound(p)' /\ Live(p)' = Live(p)
<1>1. Live(p)' = Live(p) /\ Embedded' = Embedded
  BY DEF Calm, Live, Embedded
<1>2. None \notin Engines
  BY HostAssumption
<1>3. ASSUME NEW e \in Live(p), Known(p, e)
      PROVE  Known(p, e)'
  <2>1. \A s \in OpenFor(p) : task[s].e = e => s \in OpenFor(p)' /\ task'[s].e = e
    BY <1>2, <1>3 DEF Calm, OpenFor, Live
  <2> QED BY <1>1, <1>3, <2>1 DEF Known, Calm
<1>4. Single(p)'
  <2> SUFFICES ASSUME NEW e \in Live(p)
               PROVE  /\ \A f \in Live(p) : e = f
                      /\ Known(p, e)'
                      /\ Embedded' \/ (rows'[p].uid # None /\ owner'[e] = rows'[p].uid)
    BY <1>1 DEF Single
  <2>1. /\ \A f \in Live(p) : e = f
        /\ Known(p, e)
        /\ Embedded \/ (rows[p].uid # None /\ owner[e] = rows[p].uid)
    BY DEF Single
  <2>2. rows'[p].uid = rows[p].uid /\ owner' = owner
    BY DEF Calm
  <2> QED BY <1>1, <1>3, <2>1, <2>2
<1>5. Bound(p)'
  <2> SUFFICES ASSUME NEW e \in Live(p), phase[e] = "serving",
                      \/ handle[p] = e
                      \/ \E s \in OpenFor(p)' : task'[s].at = "insert" /\ task'[s].e = e
               PROVE  socket[p] = e
    BY <1>1 DEF Bound, Calm
  <2>1. \A s \in OpenFor(p)' : task'[s].e = e => s \in OpenFor(p) /\ task'[s] = task[s]
    BY <1>2 DEF Calm, OpenFor, Live
  <2> QED BY <2>1 DEF Bound
<1> QED BY <1>1, <1>4, <1>5

LEMMA LiveIsHeld ==
  ASSUME Typed, Restorable, Owned, WellKept, NEW t \in Tasks, task[t] # Idle,
         task[t].e = None, ~muddled[Of(t)], Of(t) \in Projects, NEW e \in Live(Of(t))
  PROVE  handle[Of(t)] = e \/ (~Embedded /\ e \in strays)
<1>1. Known(Of(t), e)
  BY DEF WellKept, Orderly, Single
<1>2. e # None
  BY HostAssumption DEF Live
<1> QED BY <1>1, <1>2, OwnTask DEF Known

\* Down is kept by a step that starts nothing and wants nothing.
LEMMA OwnDown ==
  ASSUME Typed, NEW t \in Tasks, NEW p \in Projects, Down(p), told'[p] = told[p],
         \A s \in Tasks : s # t => task'[s] = task[s],
         told[p] \in {"stopped", "deleted"} =>
           /\ Fading(p) /\ ~rows'[p].want /\ handle'[p] = None
           /\ task'[t].p = p => Harmless(task'[t], told[p])
  PROVE  Down(p)'
<1> SUFFICES ASSUME told[p] \in {"stopped", "deleted"}
             PROVE  /\ ~rows'[p].want /\ handle'[p] = None /\ Live(p)' \subseteq strays'
                    /\ \A s \in OpenFor(p)' : Harmless(task'[s], told[p])
  BY DEF Down, Harmless
<1>1. Live(p)' \subseteq strays'
  BY DEF Fading, Live, Down
<1>2. \A s \in OpenFor(p)' : Harmless(task'[s], told[p])
  BY DEF OpenFor, Down
<1> QED BY <1>1, <1>2

\* An answer that says so leaves the project down.
LEMMA AnsweredDown ==
  ASSUME Typed, Restorable, NEW t \in Tasks, task[t] # Idle, Ends(t), ~muddled[Of(t)],
         NEW p \in Projects, p = Of(t),
         ~rows'[p].want, handle'[p] = None, Live(p)' \subseteq strays'
  PROVE  Down(p)'
<1>1. \A s \in Tasks : task'[s] = IF s = t THEN Idle ELSE task[s]
  BY TypedParts DEF Ends, TaskTyped
<1>2. OpenFor(p)' = {}
  BY <1>1, OwnTask, IdleIsNobodys DEF OpenFor
<1> QED BY <1>2 DEF Down

\* The steps of a task that touch no engine, and say nothing that is recorded.
Tidies(t) ==
  \/ Upsert(t) \/ Lookup(t) \/ Unwant(t) \/ Check(t) \/ PrepareProcess(t)
  \/ Ask(t) \/ Answered(t) \/ Unanswered(t) \/ Exited(t) \/ TimedOut(t)

LEMMA TidiesCalm ==
  ASSUME Typed, Restorable, Owned, NEW t \in Tasks,
         Tidies(t) \/ Want(t) \/ Forget(t)
  PROVE  Calm(t) /\ task[t] # Idle /\ Of(t) \in Projects /\ Sane(task[t])
<1>1. task[t] # Idle /\ Of(t) \in Projects
  BY StandsTyped, TypedParts DEF Tidies, Upsert, Lookup, Unwant, Want, Check,
     PrepareProcess, Ask, Answered, Unanswered, Exited, TimedOut, Forget
<1>2. task[t].at \notin {"insert", "drain"} /\ task[t].e = None
  BY HoldsNothing DEF Tidies, Upsert, Lookup, Unwant, Want, Check, PrepareProcess,
     Ask, Answered, Unanswered, Exited, TimedOut, Forget, Reached
<1>3. UNCHANGED <<backend, handle, phase, owner, strays, socket>>
  BY DEF Tidies, Upsert, Lookup, Unwant, Want, Check, PrepareProcess, Ask, Answered, Unanswered, Exited,
     TimedOut, Forget, engines
<1>4. \/ Ends(t) \/ \E step : Goto(t, step)
      \/ \E step, u : task' = [task EXCEPT ![t].at = step, ![t].uid = u]
      \/ \E step, op : task' = [task EXCEPT ![t].at = step, ![t].op = op]
  <2>1. CASE Upsert(t) \/ Lookup(t) \/ Unwant(t) \/ Want(t) \/ Check(t)
             \/ Ask(t) \/ Answered(t) \/ Unanswered(t) \/ Exited(t) \/ Forget(t)
    BY <2>1 DEF Upsert, Lookup, Unwant, Want, Check, Ask, Answered, Unanswered, Exited, Forget, Started,
       SaysRunning, Answers
  <2>2. CASE PrepareProcess(t)
    BY <2>2 DEF PrepareProcess
  <2>3. CASE TimedOut(t)
    BY <2>3 DEF TimedOut
  <2> QED BY <2>1, <2>2, <2>3 DEF Tidies
<1>5. (\A s \in Tasks : s # t => task'[s] = task[s]) /\ task'[t].e = None
  BY <1>2, <1>4, IdleHoldsNothing, TypedParts DEF Ends, Goto, TaskTyped, TaskType
<1>6. Sane(task[t])
  BY <1>1 DEF Restorable, Proper
<1> QED BY <1>1, <1>2, <1>3, <1>5, <1>6 DEF Calm

LEMMA TidiesOwn ==
  ASSUME Typed, Restorable, Owned, WellKept, NEW t \in Tasks, Tidies(t),
         NEW p \in Projects, p = Of(t),
         rows'[p].uid = rows[p].uid \/ Live(p) = {},
         ~muddled[p] /\ task'[t].p = p => Cleared(p, t)',
         told[p] \in {"stopped", "deleted"} =>
           ~rows'[p].want /\ (task'[t].p = p => Harmless(task'[t], told[p]))
  PROVE  Orderly(p)' /\ Down(p)'
<1>1. Calm(t) /\ task[t] # Idle
  BY TidiesCalm
<1>2. UNCHANGED muddled /\ told'[p] \in {told[p], "unrecorded"}
  <2>1. UNCHANGED muddled /\ (Started(t) \/ UNCHANGED told)
    BY DEF Tidies, Upsert, Lookup, Unwant, Check, PrepareProcess, Ask, Answered,
       Unanswered, Exited, TimedOut, answers
  <2> QED BY <2>1, StartedSays
<1>3. \A s \in Tasks : s # t => task'[s] = task[s]
  BY <1>1 DEF Calm
<1>4. Orderly(p)'
  <2>1. ~muddled[p] => Single(p)' /\ Bound(p)'
    BY <1>1, CalmSingle DEF WellKept, Orderly
  <2> QED BY <1>1, <1>2, <1>3, <2>1, OwnOrderly
<1>5. Down(p)'
  <2>0. CASE told'[p] = "unrecorded"
    BY <2>0 DEF Down
  <2>1. Fading(p) /\ handle' = handle
    BY <1>1 DEF Calm, Fading
  <2>2. told[p] \in {"stopped", "deleted"} => handle[p] = None
    BY DEF WellKept, Down
  <2> QED BY <1>2, <1>3, <2>0, <2>1, <2>2, OwnDown DEF WellKept
<1> QED BY <1>4, <1>5

LEMMA HarmlessHere ==
  ASSUME WellKept, NEW t \in Tasks, NEW p \in Projects, p = Of(t),
         told[p] \in {"stopped", "deleted"}
  PROVE  Harmless(task[t], told[p]) /\ ~rows[p].want /\ handle[p] = None
BY DEF WellKept, Down, OpenFor, Of

LEMMA ClearedHere ==
  ASSUME WellKept, NEW t \in Tasks, NEW p \in Projects, p = Of(t), ~muddled[p]
  PROVE  Cleared(p, t) /\ Single(p) /\ Bound(p)
BY DEF WellKept, Orderly, OpenFor, Of

LEMMA UpsertKept ==
  ASSUME Typed, Restorable, Owned, WellKept, NEW t \in Tasks,
         Upsert(t) \/ Unwant(t), NEW p \in Projects, p = Of(t)
  PROVE  Orderly(p)' /\ Down(p)'
<1>1. Sane(task[t]) /\ task[t] # Idle /\ task[t] \in TaskType
  BY TidiesCalm, StandsTyped, TypedParts DEF Tidies, TaskTyped
<1>2. CASE Upsert(t)
  <2>1. /\ rows'[p].uid = rows[p].uid /\ rows'[p].want = rows[p].want
        /\ task'[t].at = "prepare" /\ task'[t].op = "put"
    BY <1>1, <1>2, TypedParts DEF Upsert, Goto, Reached, Sane, DiskTyped, Row,
       TaskTyped, TaskType
  <2>2. Cleared(p, t)'
    BY <2>1 DEF Cleared
  <2>3. told[p] \in {"stopped", "deleted"} => ~rows'[p].want /\ Harmless(task'[t], told[p])
    BY <2>1, HarmlessHere DEF Harmless
  <2> QED BY <1>2, <2>1, <2>2, <2>3, TidiesOwn DEF Tidies
<1>3. CASE Unwant(t)
  <2>1. /\ rows'[p].uid = rows[p].uid /\ ~rows'[p].want
        /\ task'[t].at = "take" /\ task'[t].op = "stop"
    <3>1. (rows[p].there /\ FALSE) = FALSE
      OBVIOUS
    <3>2. rows' = [rows EXCEPT ![p].want = FALSE]
      BY <1>3, <3>1 DEF Unwant, SetDesired
    <3>3. rows'[p].uid = rows[p].uid /\ ~rows'[p].want
      BY <3>2, TypedParts DEF DiskTyped, Row
    <3>4. task'[t].at = "take" /\ task'[t].op = task[t].op
      BY <1>3, TypedParts DEF Unwant, Goto, TaskTyped, TaskType
    <3> QED BY <1>1, <1>3, <3>3, <3>4 DEF Unwant, Reached, Sane
  <2>2. Cleared(p, t)'
    BY <2>1 DEF Cleared
  <2>3. told[p] \in {"stopped", "deleted"} => ~rows'[p].want /\ Harmless(task'[t], told[p])
    BY <2>1, HarmlessHere DEF Harmless
  <2> QED BY <1>3, <2>1, <2>2, <2>3, TidiesOwn DEF Tidies
<1> QED BY <1>2, <1>3

LEMMA GoesOnKept ==
  ASSUME Typed, Restorable, Owned, WellKept, NEW t \in Tasks,
         Lookup(t) \/ Check(t) \/ Ask(t) \/ Answered(t) \/ Unanswered(t) \/ Exited(t) \/ TimedOut(t),
         NEW p \in Projects, p = Of(t)
  PROVE  Orderly(p)' /\ Down(p)'
<1>1. Sane(task[t]) /\ task[t] # Idle /\ task[t] \in TaskType /\ task[t].e = None
  BY TidiesCalm, StandsTyped, TypedParts DEF Tidies, TaskTyped, Calm
<1>2. rows' = rows
  BY DEF Lookup, Check, Ask, Answered, Unanswered, Exited, TimedOut, disk
<1>3. told[p] \notin {"stopped", "deleted"}
  BY HarmlessHere DEF Harmless, Lookup, Check, Ask, Answered, Unanswered, Exited, TimedOut, Reached
<1>4. ASSUME ~muddled[p], task'[t].p = p
      PROVE  Cleared(p, t)'
  <2>0. task \in [Tasks -> TaskType] /\ task'[t] # Idle
    BY <1>4, IdleIsNobodys, TypedParts DEF TaskTyped
  <2>1. CASE Lookup(t) \/ Ask(t) \/ Answered(t) \/ Unanswered(t)
    <3>1. task'[t].at \in {"check", "take", "want", "health", "asking"} /\ task'[t].op = task[t].op
      BY <2>0, <2>1
         DEF Lookup, Ask, Answered, Unanswered, Started, SaysRunning, Answers, Goto, Ends, TaskType
    <3>2. task'[t].at = "take" => task[t].op # "stop"
      BY <1>4, <2>0, <2>1, ClearedHere
         DEF Lookup, Ask, Answered, Unanswered, Started, SaysRunning, Answers, Goto, Ends,
             TaskType, Cleared, Reached
    <3> QED BY <3>1, <3>2 DEF Cleared
  <2>2. CASE Exited(t)
    BY <2>0, <2>2 DEF Exited, Ends
  <2>3. CASE TimedOut(t)
    <3>1. task'[t].at = "take" /\ task'[t].op # "stop"
      BY <2>0, <2>3 DEF TimedOut, TaskType
    <3> QED BY <3>1 DEF Cleared
  <2>4. CASE Check(t) /\ Holds(p)
    <3>1. task'[t].at = "want"
      BY <2>0, <2>4 DEF Check, Started, SaysRunning, Answers, Goto, Ends, TaskType
    <3> QED BY <3>1 DEF Cleared
  <2>5. CASE Check(t) /\ ~Holds(p)
    <3>1. task'[t].at = "prepare" /\ UNCHANGED <<phase, backend>>
      BY <2>0, <2>5 DEF Check, Goto, TaskType, engines
    <3>2. Embedded => Live(p) = {}
      BY <1>1, <1>4, <2>5, LiveIsHeld, HostAssumption DEF Holds, Live
    <3>3. Embedded' => Live(p)' = {}
      BY <3>1, <3>2 DEF Embedded, Live
    <3> QED BY <3>1, <3>3 DEF Cleared
  <2> QED BY <2>1, <2>2, <2>3, <2>4, <2>5
<1> QED BY <1>2, <1>3, <1>4, TidiesOwn DEF Tidies

LEMMA PrepareProcessKept ==
  ASSUME Typed, Restorable, Owned, WellKept, NEW t \in Tasks, PrepareProcess(t),
         NEW p \in Projects, p = Of(t)
  PROVE  Orderly(p)' /\ Down(p)'
<1>1. Sane(task[t]) /\ task[t] # Idle /\ task[t] \in TaskType
  BY TidiesCalm, StandsTyped, TypedParts DEF Tidies, TaskTyped
<1>2. rows'[p].want = rows[p].want /\ (rows'[p].uid = rows[p].uid \/ rows[p].uid = None)
  BY TypedParts DEF PrepareProcess, Allocates, disk, DiskTyped, Row
<1>3. told[p] \in {"stopped", "deleted"} => ~rows'[p].want /\ task'[t] = Idle
  <2>1. told[p] \in {"stopped", "deleted"} => task[t].op = "put"
    BY HarmlessHere DEF Harmless, PrepareProcess, Reached
  <2>2. task[t].op = "put" => Ends(t)
    BY DEF PrepareProcess
  <2> QED BY <1>2, <2>1, <2>2, HarmlessHere, TypedParts DEF Ends, TaskTyped
<1>4. ASSUME task'[t] # Idle
      PROVE  Cleared(p, t)'
  <2>1. task' = [task EXCEPT ![t].at = "reap", ![t].uid = rows'[p].uid]
    BY <1>4, TypedParts DEF PrepareProcess, Ends, TaskTyped
  <2>2. task'[t].at = "reap" /\ task'[t].uid = rows'[p].uid
    BY <2>1, TypedParts DEF TaskTyped, TaskType
  <2> QED BY <2>2 DEF Cleared, PrepareProcess, Embedded
<1>5. CASE rows'[p].uid = rows[p].uid \/ Live(p) = {}
  BY <1>3, <1>4, <1>5, IdleIsNobodys, TidiesOwn DEF Tidies
<1>6. CASE rows'[p].uid # rows[p].uid /\ Live(p) # {}
  <2>1. muddled[p]
    BY <1>2, <1>6, ClearedHere DEF Single, PrepareProcess
  <2>2. Calm(t) /\ UNCHANGED answers
    BY TidiesCalm DEF Tidies, PrepareProcess
  <2>3. Orderly(p)'
    BY <2>1, <2>2 DEF Orderly, answers
  <2>4. Fading(p) /\ handle' = handle /\ \A s \in Tasks : s # t => task'[s] = task[s]
    BY <2>2 DEF Calm, Fading
  <2>5. Down(p)'
    BY <1>3, <2>2, <2>4, HarmlessHere, IdleIsNobodys, OwnDown DEF answers, WellKept
  <2> QED BY <2>3, <2>5
<1> QED BY <1>5, <1>6

LEMMA WantKept ==
  ASSUME Typed, Restorable, Owned, WellKept, NEW t \in Tasks, Want(t),
         NEW p \in Projects, p = Of(t)
  PROVE  Orderly(p)' /\ Down(p)'
<1>1. Calm(t) /\ task[t] # Idle /\ Ends(t) /\ muddled' = muddled
  BY TidiesCalm DEF Want, SaysRunning, Answers
<1>2. rows'[p].uid = rows[p].uid
  BY TypedParts DEF Want, SetDesired, DiskTyped, Row
<1>3. (\A s \in Tasks : s # t => task'[s] = task[s]) /\ task'[t] = Idle
  BY <1>1, TypedParts DEF Ends, TaskTyped
<1>4. ~muddled[p] => Single(p)' /\ Bound(p)'
  BY <1>1, <1>2, ClearedHere, CalmSingle
<1>5. Orderly(p)'
  BY <1>1, <1>3, <1>4, IdleIsNobodys, OwnOrderly
<1>6. told[p] \notin {"stopped", "deleted"}
  BY HarmlessHere DEF Harmless, Want, Reached
<1>7. told'[p] \notin {"stopped", "deleted"}
  <2>1. CASE Answers(t, "running")
    BY <1>6, <2>1, TypedParts DEF Answers, SaidTyped
  <2>2. CASE SaysRunning(t)
    BY <1>6, <2>2, SaysRunningSays
  <2> QED BY <2>1, <2>2 DEF Want
<1> QED BY <1>5, <1>7 DEF Down

LEMMA ForgetKept ==
  ASSUME Typed, Restorable, Owned, WellKept, NEW t \in Tasks, Forget(t),
         NEW p \in Projects, p = Of(t)
  PROVE  Orderly(p)' /\ Down(p)'
<1>1. Calm(t) /\ task[t] # Idle /\ Ends(t)
  BY TidiesCalm DEF Forget, Answers
<1>2. (\A s \in Tasks : s # t => task'[s] = task[s]) /\ task'[t] = Idle
  BY <1>1, TypedParts DEF Ends, TaskTyped
<1>3. told[p] \notin {"stopped", "deleted"}
  BY HarmlessHere DEF Harmless, Forget, Reached
<1>4. muddled[p] => muddled'[p]
  BY TypedParts DEF Forget, answers, SaidTyped
<1>5. CASE UNCHANGED <<rows, answers>>
  <2>1. ~muddled[p] => Single(p)' /\ Bound(p)'
    BY <1>1, <1>5, ClearedHere, CalmSingle
  <2>2. Orderly(p)'
    BY <1>1, <1>2, <1>4, <2>1, IdleIsNobodys, OwnOrderly
  <2> QED BY <1>3, <1>5, <2>2 DEF Down, answers
<1>6. CASE ~UNCHANGED <<rows, answers>>
  <2>1. /\ rows' = [rows EXCEPT ![p] = NoRow]
        /\ told' = [told EXCEPT ![p] = IF muddled[p] THEN @ ELSE "deleted"]
        /\ muddled' = [muddled EXCEPT ![p] = @ \/ Live(p) # {}]
    BY <1>6 DEF Forget, Answers
  <2>2. CASE muddled[p]
    <3>1. muddled'[p] /\ told'[p] = told[p]
      BY <1>4, <2>1, <2>2, TypedParts DEF SaidTyped
    <3> QED BY <1>3, <3>1 DEF Orderly, Down
  <2>3. CASE ~muddled[p]
    <3>1. handle[p] = None
      BY <2>3, ClearedHere DEF Cleared, Forget, Reached
    <3>2. Live(p) \subseteq strays
      BY <1>1, <2>3, <3>1, LiveIsHeld, HostAssumption DEF Live, Calm
    <3>3. Live(p)' = Live(p) /\ strays' = strays /\ handle'[p] = None
      BY <1>1, <3>1 DEF Live, Calm
    <3>4. ~rows'[p].want
      BY <2>1, TypedParts DEF DiskTyped, NoRow
    <3>5. Down(p)'
      BY <1>1, <2>3, <3>2, <3>3, <3>4, AnsweredDown
    <3>6. CASE Live(p) = {}
      BY <1>1, <1>2, <1>4, <2>3, <3>5, <3>6, ClearedHere, CalmSingle, IdleIsNobodys, OwnOrderly
    <3>7. CASE Live(p) # {}
      <4>1. (muddled[p] \/ Live(p) # {}) = TRUE
        BY <3>7
      <4>2. muddled'[p]
        BY <2>1, <4>1, TypedParts DEF SaidTyped
      <4> QED BY <3>5, <4>2 DEF Orderly
    <3> QED BY <3>6, <3>7
  <2> QED BY <2>2, <2>3
<1> QED BY <1>5, <1>6

\* A spawn that leaves no engine of the project before the new one.
LEMMA SpawnKept ==
  ASSUME Typed, Restorable, Owned, WellKept, NEW t \in Tasks, task[t] # Idle,
         NEW p \in Projects, p = Of(t), NEW u, NEW K, Spawn(t, u, K),
         UNCHANGED <<backend, rows, handle, answers>>,
         ~muddled[p] => Live(p) \subseteq K,
         ~muddled[p] => Embedded \/ (u = rows[p].uid /\ u # None),
         told[p] \notin {"stopped", "deleted"}
  PROVE  Orderly(p)' /\ Down(p)'
<1>1. Down(p)'
  BY DEF Down, answers
<1>2. CASE Ends(t) /\ Engined(K, {}, u)
  <2>1. (\A s \in Tasks : s # t => task'[s] = task[s]) /\ task'[t] = Idle
    BY <1>2, TypedParts DEF Ends, TaskTyped
  <2>2. ~muddled[p] => Live(p)' = {}
    BY <1>2 DEF Engined, Live
  <2>3. ~muddled[p] => Single(p)' /\ Bound(p)'
    BY <2>2 DEF Single, Bound
  <2> QED BY <1>1, <2>1, <2>3, IdleIsNobodys, OwnOrderly DEF answers
<1>3. CASE ~(Ends(t) /\ Engined(K, {}, u))
  <2>1. PICK e \in Engines :
          /\ e # handle[p] /\ Engined(K, {e}, u)
          /\ task' = [task EXCEPT ![t].e = e, ![t].at = "insert", ![t].uid = None]
    BY <1>3 DEF Spawn
  <2>2. (\A s \in Tasks : s # t => task'[s] = task[s])
        /\ task'[t].e = e /\ task'[t].at = "insert" /\ task'[t].p = p
    BY <2>1, TypedParts DEF TaskTyped, TaskType, Of
  <2>3. ~muddled[p] => Live(p)' \subseteq {e}
    BY <2>1 DEF Engined, Live
  <2>4. phase'[e] = "starting" /\ owner'[e] = u
    BY <2>1 DEF Engined
  <2>5. ~muddled[p] => Single(p)'
    <3>1. t \in OpenFor(p)' /\ Known(p, e)'
      BY <2>2 DEF OpenFor, Known
    <3> QED BY <2>3, <2>4, <3>1 DEF Single, Embedded
  <2>6. ~muddled[p] => Bound(p)'
    BY <2>3, <2>4 DEF Bound
  <2>7. ~muddled[p] => Cleared(p, t)'
    BY <2>1, <2>2, <2>3 DEF Cleared
  <2> QED BY <1>1, <2>2, <2>5, <2>6, <2>7, OwnOrderly DEF answers
<1> QED BY <1>2, <1>3

LEMMA PrepareEmbeddedKept ==
  ASSUME Typed, Restorable, Owned, WellKept, NEW t \in Tasks, PrepareEmbedded(t),
         NEW p \in Projects, p = Of(t)
  PROVE  Orderly(p)' /\ Down(p)'
<1>1. task[t] # Idle /\ task[t].e = None /\ task[t].at = "prepare" /\ Embedded
      /\ UNCHANGED <<backend, rows, handle, answers>>
  BY HoldsNothing, StandsTyped, TypedParts DEF PrepareEmbedded, Reached, disk
<1>2. CASE task[t].op # "put" /\ Spawn(t, None, {})
  <2>1. told[p] \notin {"stopped", "deleted"}
    BY <1>1, <1>2, HarmlessHere DEF Harmless
  <2>2. ~muddled[p] => Live(p) = {}
    BY <1>1, <1>2, ClearedHere DEF Cleared
  <2> QED BY <1>1, <1>2, <2>1, <2>2, SpawnKept
<1>3. CASE Ends(t) /\ UNCHANGED <<engines, socket>>
  <2>1. (\A s \in Tasks : s # t => task'[s] = task[s]) /\ task'[t] = Idle
    BY <1>3, TypedParts DEF Ends, TaskTyped
  <2>2. Calm(t)
    BY <1>1, <1>3, <2>1, IdleHoldsNothing DEF Calm, engines
  <2>3. ~muddled[p] => Single(p)' /\ Bound(p)'
    BY <1>1, <2>2, ClearedHere, CalmSingle
  <2>4. Orderly(p)'
    BY <1>1, <2>1, <2>3, IdleIsNobodys, OwnOrderly DEF answers
  <2>5. Down(p)'
    BY <1>1, <1>3, <2>1, HarmlessHere, IdleIsNobodys, OwnDown
       DEF answers, WellKept, Fading, engines
  <2> QED BY <2>4, <2>5
<1> QED BY <1>2, <1>3 DEF PrepareEmbedded

LEMMA ReapKept ==
  ASSUME Typed, Restorable, Owned, WellKept, NEW t \in Tasks, Reap(t) \/ GraceOver(t),
         NEW p \in Projects, p = Of(t)
  PROVE  Orderly(p)' /\ Down(p)'
<1> DEFINE left == Leftovers(task[t].uid)
<1>1. task[t] # Idle /\ task[t].e = None /\ task[t].at \in {"reap", "reaping"}
      /\ UNCHANGED <<backend, rows, handle, answers>>
  BY HoldsNothing, StandsTyped, TypedParts DEF Reap, GraceOver, Reached, disk
<1>2. told[p] \notin {"stopped", "deleted"}
  BY <1>1, HarmlessHere DEF Harmless
<1>3. task[t].uid \in Uids /\ task[t].uid # None
  BY <1>1, HostAssumption, TypedParts DEF TaskTyped, Shape, Carries
<1>4. ~muddled[p] => ~Embedded /\ task[t].uid = rows[p].uid
  BY <1>1, ClearedHere DEF Cleared
<1>5. ~muddled[p] => Live(p) \subseteq left
  BY <1>4, ClearedHere DEF Single, Live, Leftovers
<1>6. CASE GraceOver(t) \/ (Reap(t) /\ left = {})
  <2>1. Spawn(t, task[t].uid, left)
    BY <1>6 DEF GraceOver, Reap
  <2> QED BY <1>1, <1>2, <1>3, <1>4, <1>5, <2>1, SpawnKept
<1>7. CASE Reap(t) /\ left # {}
  <2>1. Asked(left) /\ Goto(t, "reaping") /\ UNCHANGED <<owner, strays, socket>>
    BY <1>7 DEF Reap
  <2>2. /\ \A s \in Tasks : s # t => task'[s] = task[s]
        /\ task'[t].e = None /\ task'[t].at = "reaping" /\ task'[t].p = p
        /\ task'[t].uid = task[t].uid
    BY <1>1, <2>1, TypedParts DEF Goto, TaskTyped, TaskType, Of
  <2>3. Live(p)' = Live(p) /\ \A e \in Engines : phase'[e] = "serving" => phase[e] = "serving"
    BY <2>1 DEF Asked, Live, Leftovers
  <2>4. OpenFor(p)' = OpenFor(p)
    BY <2>2 DEF OpenFor, Of
  <2>5. None \notin Engines
    BY HostAssumption
  <2>6. \A e \in Live(p) : Known(p, e)' <=> Known(p, e)
    BY <1>1, <2>1, <2>2, <2>4, <2>5 DEF Known, Embedded, Live, OpenFor
  <2>7. ~muddled[p] => Single(p)'
    BY <1>1, <2>1, <2>3, <2>6, ClearedHere DEF Single, Embedded
  <2>8. ~muddled[p] => Bound(p)'
    BY <1>1, <2>1, <2>2, <2>3, <2>4, <2>5, ClearedHere DEF Bound, OpenFor, Live
  <2>9. ~muddled[p] => Cleared(p, t)'
    BY <1>1, <1>4, <2>2 DEF Cleared, Embedded
  <2>10. Orderly(p)'
    BY <1>1, <2>2, <2>7, <2>8, <2>9, OwnOrderly DEF answers
  <2> QED BY <1>1, <1>2, <2>10 DEF Down, answers
<1> QED BY <1>6, <1>7

LEMMA InsertKept ==
  ASSUME Typed, Restorable, Owned, WellKept, NEW t \in Tasks, Insert(t),
         NEW p \in Projects, p = Of(t)
  PROVE  Orderly(p)' /\ Down(p)'
<1>1. task[t] # Idle /\ task[t].at = "insert" /\ UNCHANGED <<backend, rows, answers, owner, strays, socket>>
  BY StandsTyped, TypedParts DEF Insert, Reached, disk
<1>2. PICK e \in Engines : e = task[t].e
  BY <1>1, TypedParts DEF TaskTyped, Shape, Carries
<1>3. /\ \A s \in Tasks : s # t => task'[s] = task[s]
      /\ task'[t].at = "health"
  BY TypedParts DEF Insert, TaskTyped, TaskType
<1>4. handle'[p] = e
  BY <1>2, TypedParts DEF Insert, MapTyped
<1>5. told[p] \notin {"stopped", "deleted"}
  BY <1>1, HarmlessHere DEF Harmless
<1>6. ASSUME ~muddled[p]
      PROVE  Single(p)' /\ Bound(p)'
  <2>1. Live(p) \subseteq {e} /\ handle[p] # e
    BY <1>1, <1>2, <1>6, ClearedHere DEF Cleared
  <2>2. Live(p)' \subseteq Live(p) /\ \A f \in Engines : phase'[f] = "serving" => phase[f] = "serving"
    BY DEF Insert, Asked, Live
  <2>3. Single(p)'
    BY <1>1, <1>4, <1>6, <2>1, <2>2, ClearedHere DEF Single, Known, Embedded
  <2>4. t \in OpenFor(p)
    BY DEF OpenFor, Of
  <2>5. Bound(p)'
    BY <1>1, <1>2, <1>6, <2>1, <2>2, <2>4, ClearedHere DEF Bound
  <2> QED BY <2>3, <2>5
<1>7. Cleared(p, t)'
  BY <1>3 DEF Cleared
<1>8. Orderly(p)'
  BY <1>1, <1>3, <1>6, <1>7, OwnOrderly DEF answers
<1> QED BY <1>1, <1>5, <1>8 DEF Down, answers

\* Where a task that has stopped the engine goes from there.
LEMMA StoppedSteps ==
  ASSUME Typed, NEW t \in Tasks, task[t] # Idle, Stopped(t)
  PROVE  /\ \A s \in Tasks : s # t => task'[s] = task[s]
         /\ \/ Ends(t)
            \/ task'[t].e = None /\ task'[t].at \in {"check", "forget"} /\ told' = told
         /\ task[t].op = "stop" => Answers(t, "stopped")
         /\ task[t].op # "stop" => told' = told
<1>1. /\ task[t].op = "stop" => Answers(t, "stopped")
      /\ task[t].op # "stop" => told' = told
  BY DEF Stopped
<1>2. CASE Ends(t)
  <2>1. \A s \in Tasks : s # t => task'[s] = task[s]
    BY <1>2, TypedParts DEF Ends, TaskTyped
  <2> QED BY <1>1, <1>2, <2>1
<1>3. CASE ~Ends(t)
  <2>1. task[t].op # "stop"
    BY <1>1, <1>3 DEF Answers
  <2>2. PICK step \in {"check", "forget"} :
          task' = [task EXCEPT ![t].e = None, ![t].at = step]
    BY <1>3, <2>1 DEF Stopped
  <2>3. /\ \A s \in Tasks : s # t => task'[s] = task[s]
        /\ task'[t].e = None /\ task'[t].at = step
    BY <2>2, TypedParts DEF TaskTyped, TaskType
  <2> QED BY <1>1, <2>1, <2>3
<1> QED BY <1>2, <1>3

\* A project whose engine is stopped: nothing is in its map, nothing is bound.
LEMMA StoppedKept ==
  ASSUME Typed, Restorable, Owned, WellKept, NEW t \in Tasks, task[t] # Idle,
         NEW p \in Projects, p = Of(t), Stopped(t), task[t].at \in {"take", "drain"},
         UNCHANGED <<backend, rows, muddled>>, handle'[p] = None, Fading(p),
         ~muddled[p] => \A e \in Live(p)' : ~Embedded /\ e \in strays'
  PROVE  Orderly(p)' /\ Down(p)'
<1>1. /\ \A s \in Tasks : s # t => task'[s] = task[s]
      /\ Ends(t) \/ task'[t].at \in {"check", "forget"}
      /\ told' = told \/ (Answers(t, "stopped") /\ task[t].op = "stop")
  BY StoppedSteps
<1>2. task'[t].at \notin {"insert", "prepare", "reap", "reaping", "take", "drain", "lookup"}
  BY <1>1, IdleIsNobodys, TypedParts DEF Ends, TaskTyped
<1>3. ASSUME ~muddled[p]
      PROVE  Single(p)' /\ Bound(p)' /\ Cleared(p, t)'
  <2>1. Live(p)' \subseteq Live(p) /\ \A e \in Live(p)' : owner'[e] = owner[e]
    BY DEF Fading, Live
  <2>2. Single(p)'
    BY <1>3, <2>1, ClearedHere DEF Single, Known, Embedded
  <2>3. \A s \in OpenFor(p)' : s = t
    BY <1>1, <1>3, OwnTask DEF OpenFor
  <2>4. Bound(p)'
    BY <1>2, <2>3, HostAssumption DEF Bound, Live
  <2>5. Cleared(p, t)'
    BY <1>2 DEF Cleared
  <2> QED BY <2>2, <2>4, <2>5
<1>4. Orderly(p)'
  BY <1>1, <1>3, OwnOrderly
<1>5. CASE told'[p] = told[p] /\ told[p] \in {"stopped", "deleted"}
  <2>1. task[t].op = "stop" /\ ~rows[p].want
    BY <1>5, HarmlessHere DEF Harmless
  <2>2. task'[t] = Idle
    BY <2>1, StoppedSteps, TypedParts DEF Answers, Ends, TaskTyped
  <2> QED BY <1>1, <1>4, <1>5, <2>1, <2>2, OwnDown, IdleIsNobodys DEF WellKept
<1>6. CASE told'[p] = told[p] /\ told[p] \notin {"stopped", "deleted"}
  BY <1>4, <1>6 DEF Down
<1>7. CASE told'[p] # told[p]
  <2>1. Ends(t) /\ task[t].op = "stop" /\ ~muddled[p]
    BY <1>1, <1>7, TypedParts DEF Answers, SaidTyped
  <2>2. ~rows[p].want
    BY <2>1, ClearedHere DEF Cleared
  <2> QED BY <1>4, <2>1, <2>2, AnsweredDown
<1> QED BY <1>4, <1>5, <1>6, <1>7

LEMMA TakeKept ==
  ASSUME Typed, Restorable, Owned, WellKept, NEW t \in Tasks, Take(t),
         NEW p \in Projects, p = Of(t)
  PROVE  Orderly(p)' /\ Down(p)'
<1>1. /\ task[t] # Idle /\ task[t].e = None /\ task[t].at = "take"
      /\ UNCHANGED <<backend, rows, owner, strays, muddled>>
  BY HoldsNothing, StandsTyped, TypedParts DEF Take, Reached, disk
<1>2. handle'[p] = None
  BY TypedParts DEF Take, MapTyped
<1>3. CASE handle[p] = None
  <2>1. Stopped(t) /\ phase' = phase
    BY <1>3 DEF Take
  <2>2. Fading(p) /\ Live(p)' = Live(p)
    BY <1>1, <2>1 DEF Fading, Live
  <2>3. ~muddled[p] => \A e \in Live(p)' : ~Embedded /\ e \in strays'
    BY <1>1, <1>3, <2>2, LiveIsHeld, HostAssumption DEF Live
  <2> QED BY <1>1, <1>2, <2>1, <2>2, <2>3, StoppedKept
<1>4. CASE handle[p] # None
  <2>1. PICK h \in Engines : h = handle[p]
    BY <1>4, TypedParts DEF MapTyped
  <2>2. /\ \A s \in Tasks : s # t => task'[s] = task[s]
        /\ task'[t].e = h /\ task'[t].at = "drain" /\ task'[t].p = p
        /\ task'[t].op = task[t].op /\ told' = told
    BY <1>4, <2>1, TypedParts DEF Take, TaskTyped, TaskType, Of
  <2>3. told[p] \notin {"stopped", "deleted"}
    BY <1>4, HarmlessHere
  <2>4. Live(p)' = Live(p)
    BY <1>4 DEF Take, Asked, Live
  <2>5. ASSUME ~muddled[p]
        PROVE  Single(p)' /\ Bound(p)' /\ Cleared(p, t)'
    <3>1. \A e \in Live(p) : Known(p, e)'
      <4> SUFFICES ASSUME NEW e \in Live(p) PROVE Known(p, e)'
        OBVIOUS
      <4>1. h = e \/ (~Embedded /\ e \in strays)
        BY <1>1, <2>1, <2>5, LiveIsHeld
      <4>2. t \in OpenFor(p)'
        BY <2>2 DEF OpenFor
      <4> QED BY <1>1, <2>2, <4>1, <4>2 DEF Known, Embedded
    <3>2. Single(p)'
      BY <1>1, <2>4, <2>5, <3>1, ClearedHere DEF Single, Embedded
    <3>3. \A s \in OpenFor(p)' : s = t
      BY <1>1, <2>2, <2>5, OwnTask DEF OpenFor
    <3>4. Bound(p)'
      BY <1>2, <2>2, <3>3, HostAssumption DEF Bound, Live
    <3>5. Cleared(p, t)'
      BY <1>1, <1>2, <2>2, <2>5, ClearedHere DEF Cleared
    <3> QED BY <3>2, <3>4, <3>5
  <2>6. Orderly(p)'
    BY <1>1, <2>2, <2>5, OwnOrderly
  <2> QED BY <2>2, <2>3, <2>6 DEF Down
<1> QED BY <1>3, <1>4

LEMMA DrainedKept ==
  ASSUME Typed, Restorable, Owned, WellKept, NEW t \in Tasks, Drained(t),
         NEW p \in Projects, p = Of(t)
  PROVE  Orderly(p)' /\ Down(p)'
<1>1. /\ task[t] # Idle /\ task[t].at = "drain" /\ Stopped(t)
      /\ UNCHANGED <<backend, rows, handle, muddled>>
  BY StandsTyped, TypedParts DEF Drained, Reached, disk
<1>2. PICK e \in Engines : e = task[t].e
  BY <1>1, TypedParts DEF TaskTyped, Shape, Carries
<1>3. Engined({e}, {}, None)
  BY <1>2 DEF Drained
<1>4. Fading(p)
  BY <1>3 DEF Engined, Fading
<1>5. told[p] \notin {"stopped", "deleted"}
  BY <1>1, HarmlessHere DEF Harmless
<1>6. CASE ~muddled[p]
  <2>1. handle'[p] = None
    BY <1>1, <1>6, ClearedHere DEF Cleared
  <2>2. ASSUME NEW f \in Live(p)'
        PROVE  ~Embedded /\ f \in strays'
    <3>1. f # e /\ f \in Live(p)
      BY <1>3 DEF Engined, Live
    <3>2. Known(p, f)
      BY <1>6, <3>1, ClearedHere DEF Single
    <3>3. f # None
      BY <3>1, HostAssumption DEF Live
    <3>4. ~Embedded /\ f \in strays
      BY <1>1, <1>2, <1>6, <2>1, <3>1, <3>2, <3>3, OwnTask DEF Known
    <3> QED BY <1>3, <3>1, <3>4 DEF Engined
  <2> QED BY <1>1, <1>4, <2>1, <2>2, StoppedKept
<1>7. CASE muddled[p]
  <2>1. told'[p] = told[p]
    BY <1>1, <1>7, StoppedSteps, TypedParts DEF Answers, SaidTyped
  <2> QED BY <1>1, <1>5, <1>7, <2>1 DEF Orderly, Down
<1> QED BY <1>6, <1>7

LEMMA StepKept ==
  ASSUME Typed, Restorable, Owned, WellKept, NEW t \in Tasks, Step(t)
  PROVE  WellKept'
<1> SUFFICES ASSUME NEW q \in Projects
             PROVE  Orderly(q)' /\ Down(q)'
  BY DEF WellKept
<1>1. CASE q = Of(t)
  BY <1>1, UpsertKept, GoesOnKept, PrepareProcessKept, WantKept, ForgetKept,
     PrepareEmbeddedKept, ReapKept, InsertKept, TakeKept, DrainedKept DEF Step, Proceeds, Returns
<1>2. CASE q # Of(t)
  BY <1>2, StepElsewhere, UntouchedKeeps DEF WellKept
<1> QED BY <1>1, <1>2

LEMMA HangUpKept ==
  ASSUME Typed, Restorable, Owned, WellKept, NEW t \in Tasks, HangUp(t)
  PROVE  WellKept'
<1> DEFINE lost == task[t].at \in {"insert", "drain"} /\ phase[task[t].e] # "gone"
<1>1. /\ task[t] # Idle /\ Of(t) \in Projects
      /\ UNCHANGED <<backend, rows, handle, owner, socket, told>>
  BY TypedParts DEF HangUp, TaskTyped, Shape, Carries, Of, disk
<1>2. (\A s \in Tasks : s # t => task'[s] = task[s]) /\ task'[t] = Idle
  BY TypedParts DEF HangUp, Ends, TaskTyped
<1>3. \A q \in Projects : muddled'[q] = (muddled[q] \/ (q = Of(t) /\ lost /\ Embedded))
  BY TypedParts DEF HangUp, SaidTyped
<1>4. /\ strays \subseteq strays'
      /\ lost => task[t].e \in strays'
      /\ \A e \in Engines : phase'[e] # phase[e] => lost /\ Embedded /\ phase'[e] = "draining" /\ e = task[t].e
  BY TypedParts DEF HangUp, EnginesTyped
<1>5. \A q \in Projects : Fading(q)
  BY <1>1, <1>4 DEF Fading
<1>6. ASSUME NEW q \in Projects, q # Of(t)
      PROVE  Orderly(q)' /\ Down(q)'
  <2>1. \A s \in Tasks : task[s].p = q \/ task'[s].p = q => task'[s] = task[s]
    BY <1>2, <1>6, IdleIsNobodys DEF Of
  <2>2. ~muddled[q] => Bound(q)'
    BY <1>1, <1>4, <2>1, PathKept DEF WellKept
  <2>3. Untouched(q)
    BY <1>1, <1>3, <1>5, <2>1, <2>2 DEF Untouched
  <2> QED BY <2>3, UntouchedKeeps DEF WellKept
<1>7. ASSUME NEW p \in Projects, p = Of(t)
      PROVE  Orderly(p)' /\ Down(p)'
  <2>1. Down(p)'
    BY <1>1, <1>2, <1>5, <1>7, HarmlessHere, IdleIsNobodys, OwnDown DEF WellKept
  <2>2. CASE muddled'[p]
    BY <2>1, <2>2 DEF Orderly
  <2>3. CASE ~muddled'[p]
    <3>1. ~muddled[p] /\ ~(lost /\ Embedded) /\ \A e \in Engines : phase'[e] = phase[e]
      BY <1>3, <1>4, <1>7, <2>3
    <3>2. Live(p)' = Live(p) /\ OpenFor(p)' = {}
      BY <1>2, <1>7, <3>1, OwnTask, IdleIsNobodys, <1>1 DEF Live, OpenFor
    <3>3. ASSUME NEW e \in Live(p)
          PROVE  Known(p, e)'
      <4>1. Known(p, e) /\ e # None /\ phase[e] # "gone"
        BY <1>7, <3>1, ClearedHere, HostAssumption DEF Single, Live
      <4>2. ASSUME NEW s \in OpenFor(p), task[s].e = e
            PROVE  ~Embedded /\ e \in strays'
        <5>1. s = t
          BY <1>1, <1>7, <3>1, <4>2, OwnTask
        <5>2. lost
          BY <4>1, <4>2, <5>1 DEF Owned, Held
        <5> QED BY <1>4, <3>1, <4>2, <5>1, <5>2
      <4> QED BY <1>1, <1>4, <4>1, <4>2 DEF Known, Embedded
    <3>4. Single(p)'
      BY <1>1, <1>7, <3>1, <3>2, <3>3, ClearedHere DEF Single, Embedded
    <3>5. Bound(p)'
      BY <1>1, <1>7, <3>1, <3>2, ClearedHere DEF Bound, Live
    <3> QED BY <2>1, <3>2, <3>4, <3>5 DEF Orderly
  <2> QED BY <2>2, <2>3
<1> QED BY <1>6, <1>7 DEF WellKept

LEMMA BeginKept ==
  ASSUME Typed, Restorable, Owned, WellKept,
         NEW o \in Offers, NEW p \in Projects, Begin(o[1], o[2], p)
  PROVE  WellKept'
<1> DEFINE t == o[1]
           op == o[2]
<1>1. t \in Tasks /\ op \in Ops /\ task[t] = Idle
  BY HostAssumption DEF Tasks, Begin
<1>2. PICK at \in {"upsert", "lookup", "unwant", "take"} :
        /\ task' = [task EXCEPT ![t] = [Idle EXCEPT !.op = op, !.p = p, !.at = at]]
        /\ at = FirstStep[op]
  <2>1. FirstStep[op] \in {"upsert", "lookup", "unwant", "take"}
    BY <1>1 DEF FirstStep, Ops
  <2>2. task' = [task EXCEPT ![t] = [Idle EXCEPT !.op = op, !.p = p, !.at = FirstStep[op]]]
    BY DEF Begin
  <2> QED BY <2>1, <2>2
<1>3. op = "stop" => at = "unwant"
  BY <1>2 DEF FirstStep
<1>4. op = "put" => at = "upsert"
  BY <1>2 DEF FirstStep
<1>5. /\ UNCHANGED <<backend, rows, handle, phase, owner, strays, socket>>
      /\ \A q \in Projects : q # p => told'[q] = told[q] /\ muddled'[q] = muddled[q]
      /\ told'[p] # "nothing" => told'[p] = told[p] /\ OpenFor(p) = {} /\ StillSaid(op, told[p])
      /\ ~muddled'[p] => OpenFor(p) = {} /\ (muddled[p] => Live(p) = {})
  <2>1. muddled'[p] = (OpenFor(p) # {} \/ (muddled[p] /\ Live(p) # {}))
    BY TypedParts DEF Begin, SaidTyped
  <2>2. told'[p] = IF OpenFor(p) = {} /\ StillSaid(op, told[p]) THEN told[p] ELSE "nothing"
    BY TypedParts DEF Begin, SaidTyped
  <2>3. \A q \in Projects : q # p => told'[q] = told[q] /\ muddled'[q] = muddled[q]
    BY TypedParts DEF Begin, SaidTyped
  <2>4. UNCHANGED <<backend, rows, handle, phase, owner, strays, socket>>
    BY DEF Begin, disk, engines
  <2> QED BY <2>1, <2>2, <2>3, <2>4
<1> HIDE DEF t, op
<1>6. /\ \A s \in Tasks : s # t => task'[s] = task[s]
      /\ task'[t].p = p /\ task'[t].op = op /\ task'[t].at = at /\ task'[t].e = None
  BY <1>1, <1>2, TypedParts DEF TaskTyped, Idle
<1>7. task[t].p = None /\ task[t].e = None /\ None \notin Projects \cup Engines
  BY <1>1, HostAssumption DEF Idle
<1>8. ASSUME NEW q \in Projects, q # p
      PROVE  Orderly(q)' /\ Down(q)'
  <2>1. \A s \in Tasks : task[s].p = q \/ task'[s].p = q => task'[s] = task[s]
    BY <1>6, <1>7, <1>8
  <2>2. ~muddled[q] => Bound(q)'
    BY <1>5, <2>1, PathKept DEF WellKept
  <2>3. Untouched(q)
    BY <1>5, <1>8, <2>1, <2>2 DEF Untouched, Fading
  <2> QED BY <2>3, UntouchedKeeps DEF WellKept
<1>9. Down(p)'
  <2> SUFFICES ASSUME told'[p] \in {"stopped", "deleted"}
               PROVE  /\ ~rows'[p].want /\ handle'[p] = None /\ Live(p)' \subseteq strays'
                      /\ \A s \in OpenFor(p)' : Harmless(task'[s], told'[p])
    BY DEF Down
  <2>1. told[p] = told'[p] /\ OpenFor(p) = {} /\ StillSaid(op, told[p])
    BY <1>5
  <2>2. ~rows'[p].want /\ handle'[p] = None /\ Live(p)' \subseteq strays'
    BY <1>5, <2>1 DEF WellKept, Down, Live
  <2>3. \A s \in OpenFor(p)' : s = t
    BY <1>6, <2>1 DEF OpenFor
  <2>4. told[p] = "stopped" /\ op \in {"put", "stop"}
    BY <2>1 DEF StillSaid
  <2>5. Harmless(task'[t], told[p])
    BY <1>3, <1>4, <1>6, <2>4 DEF Harmless
  <2> QED BY <2>1, <2>2, <2>3, <2>5
<1>10. ASSUME ~muddled'[p]
       PROVE  Single(p)' /\ Bound(p)' /\ \A s \in OpenFor(p)' : Cleared(p, s)'
  <2>1. OpenFor(p)' = {t} /\ OpenFor(p) = {} /\ Live(p)' = Live(p)
    BY <1>1, <1>5, <1>6, <1>10 DEF OpenFor, Live
  <2>2. Live(p) = {} \/ (Single(p) /\ Bound(p))
    BY <1>5, <1>10 DEF WellKept, Orderly
  <2>3. \A e \in Live(p) : Known(p, e) => Known(p, e)'
    BY <1>5, <2>1 DEF Known, Embedded
  <2>4. Single(p)'
    BY <1>5, <2>1, <2>2, <2>3 DEF Single, Embedded
  <2>5. Bound(p)'
    BY <1>5, <1>6, <1>7, <2>1, <2>2 DEF Bound, Live
  <2>6. Cleared(p, t)'
    BY <1>3, <1>6 DEF Cleared
  <2> QED BY <2>1, <2>4, <2>5, <2>6
<1> QED BY <1>8, <1>9, <1>10 DEF WellKept, Orderly

LEMMA ProbeKept ==
  ASSUME Typed, Restorable, Owned, WellKept, NEW p \in Projects, Probe(p)
  PROVE  WellKept'
<1>1. /\ UNCHANGED <<backend, rows, phase, owner, strays, socket, task, told, muddled>>
      /\ \A q \in Projects : handle'[q] = IF q = p THEN None ELSE handle[q]
      /\ handle[p] # None /\ phase[handle[p]] = "gone"
  BY TypedParts DEF Probe, disk, engines, answers, MapTyped
<1>2. ASSUME NEW q \in Projects, q # p
      PROVE  Orderly(q)' /\ Down(q)'
  <2>1. ~muddled[q] => Bound(q)'
    BY <1>1, <1>2, PathKept DEF WellKept
  <2>2. Untouched(q)
    BY <1>1, <1>2, <2>1 DEF Untouched, Fading
  <2> QED BY <2>2, UntouchedKeeps DEF WellKept
<1>3. Down(p)'
  BY <1>1 DEF WellKept, Down, Live, OpenFor
<1>4. ASSUME ~muddled[p]
      PROVE  Single(p)' /\ Bound(p)' /\ \A s \in OpenFor(p) : Cleared(p, s)'
  <2>1. Live(p)' = Live(p) /\ OpenFor(p)' = OpenFor(p) /\ Embedded' = Embedded
    BY <1>1 DEF Live, OpenFor, Embedded
  <2>2. \A e \in Live(p) : Known(p, e) => Known(p, e)'
    BY <1>1, <2>1 DEF Known, Live
  <2>3. Single(p)'
    BY <1>1, <1>4, <2>1, <2>2 DEF WellKept, Orderly, Single
  <2>4. Bound(p)'
    BY <1>1, <1>4, <2>1, HostAssumption DEF WellKept, Orderly, Bound, Live
  <2>5. ASSUME NEW s \in OpenFor(p)
        PROVE  Cleared(p, s)'
    <3>1. Cleared(p, s)
      BY <1>4 DEF WellKept, Orderly
    <3>2. task[s].at = "insert" => task[s].e # None
      BY HostAssumption, TypedParts DEF OpenFor, TaskTyped, Shape, Carries, Idle
    <3> QED BY <1>1, <2>1, <3>1, <3>2 DEF Cleared
  <2> QED BY <2>3, <2>4, <2>5
<1>5. Orderly(p)'
  BY <1>1, <1>4 DEF Orderly, OpenFor
<1> QED BY <1>2, <1>3, <1>5 DEF WellKept

LEMMA EngineKept ==
  ASSUME Typed, Owned, WellKept, NEW e \in Engines, Engine(e)
  PROVE  WellKept'
<1> SUFFICES ASSUME NEW q \in Projects
             PROVE  Orderly(q)' /\ Down(q)'
  BY DEF WellKept
<1>1. UNCHANGED <<backend, rows, handle, task, told, muddled>>
  BY DEF Engine, Bind, Unlink, Exit, disk, answers
<1>2. Fading(q)
  BY TypedParts DEF Engine, Bind, Unlink, Exit, Engined, Fading, EnginesTyped, engines
<1>3. ASSUME ~muddled[q]
      PROVE  Bound(q)'
  <2>1. CASE Exit(e) \/ e[1] # q
    <3>1. \A f \in Engines : f[1] = q /\ phase'[f] = "serving" =>
            phase[f] = "serving" /\ (socket[q] = f => socket'[q] = f)
      BY <2>1, TypedParts DEF Engine, Bind, Unlink, Exit, Engined, Clear, EnginesTyped,
         SocketTyped, engines
    <3> QED BY <1>1, <1>3, <3>1, PathKept DEF WellKept
  <2>2. CASE ~Exit(e) /\ e[1] = q
    <3>1. \A f \in Live(q)' : f = e
      BY <1>3, <2>2, TypedParts DEF WellKept, Orderly, Single, Live, Engine, Bind, Unlink,
         EnginesTyped, engines
    <3>2. phase'[e] = "serving" => socket'[q] = e
      BY <2>2, TypedParts DEF Engine, Bind, Unlink, SocketTyped, EnginesTyped, engines
    <3> QED BY <3>1, <3>2 DEF Bound
  <2> QED BY <2>1, <2>2
<1> QED BY <1>1, <1>2, <1>3, UntouchedKeeps DEF WellKept, Untouched

LEMMA CrashKept ==
  ASSUME Typed, Owned, AtRest, WellKept, Crash \/ Boot
  PROVE  WellKept'
<1> SUFFICES ASSUME NEW p \in Projects
             PROVE  Orderly(p)' /\ Down(p)'
  BY DEF WellKept
<1>1. UNCHANGED <<backend, rows, told, muddled>>
  BY DEF Crash, Boot, disk, answers
<1>2. CASE Crash
  <2>1. handle'[p] = None /\ OpenFor(p)' = {}
    BY <1>2, IdleIsNobodys DEF Crash, OpenFor
  <2>2. /\ Live(p)' \subseteq Live(p)
        /\ \A e \in Live(p)' : ~Embedded /\ e \in strays' /\ owner'[e] = owner[e]
    BY <1>2 DEF Crash, Engined, Live
  <2>3. ~muddled[p] => Single(p)'
    BY <1>1, <2>2 DEF WellKept, Orderly, Single, Known, Embedded
  <2>4. Bound(p)'
    BY <2>1, HostAssumption DEF Bound, Live
  <2>5. Orderly(p)'
    BY <1>1, <2>1, <2>3, <2>4 DEF Orderly
  <2>6. Down(p)'
    BY <1>1, <2>1, <2>2 DEF WellKept, Down
  <2> QED BY <2>5, <2>6
<1>3. CASE Boot
  <2>1. \A s \in Tasks : task[s] = Idle
    BY <1>3 DEF Boot, AtRest
  <2>2. \A s \in OpenFor(p)' : s = p /\ rows[p].want /\ task'[s].at = "check" /\ task'[s].e = None
    BY <1>3, IdleIsNobodys DEF Boot, OpenFor, Idle
  <2>3. OpenFor(p) = {} /\ UNCHANGED <<handle, phase, owner, strays, socket>>
    BY <1>3, <2>1, IdleIsNobodys DEF Boot, OpenFor, engines
  <2>4. Live(p)' = Live(p) /\ \A e \in Live(p) : Known(p, e) => Known(p, e)'
    BY <1>1, <2>3 DEF Live, Known, Embedded
  <2>5. ~muddled[p] => Single(p)'
    BY <1>1, <2>3, <2>4 DEF WellKept, Orderly, Single, Embedded
  <2>6. ~muddled[p] => Bound(p)'
    BY <2>2, <2>3, <2>4 DEF WellKept, Orderly, Bound
  <2>7. \A s \in OpenFor(p)' : Cleared(p, s)'
    BY <2>2 DEF Cleared
  <2>8. Orderly(p)'
    BY <1>1, <2>5, <2>6, <2>7 DEF Orderly
  <2>9. Down(p)'
    BY <1>1, <2>2, <2>3, <2>4 DEF WellKept, Down
  <2> QED BY <2>8, <2>9
<1> QED BY <1>2, <1>3

LEMMA NextKept ==
  ASSUME Typed, Restorable, Owned, AtRest, WellKept, [Next]_vars
  PROVE  WellKept'
<1>1. CASE OpenRoutes \/ UNCHANGED vars
  <2>1. UNCHANGED <<backend, rows, handle, phase, owner, strays, socket, task, told, muddled>>
    BY <1>1 DEF OpenRoutes, vars, disk, engines, answers
  <2>2. \A q \in Projects : Untouched(q)
    BY <2>1, PathKept DEF Untouched, Fading, WellKept
  <2> QED BY <2>2, UntouchedKeeps DEF WellKept
<1>2. CASE Arrival
  <2>1. \A r \in Requests : HangUp(r) => WellKept'
    BY HangUpKept DEF Tasks
  <2> QED BY <1>2, <2>1, BeginKept, ProbeKept DEF Arrival
<1> QED BY <1>1, <1>2, StepKept, EngineKept, CrashKept DEF Next

LEMMA InitKept == Init => AtRest /\ Owned /\ WellKept /\ Restorable
<1> SUFFICES ASSUME Init PROVE AtRest /\ Owned /\ WellKept /\ Restorable
  OBVIOUS
<1>1. \A t \in Tasks : task[t] = Idle
  BY DEF Init
<1>2. AtRest /\ Owned
  BY <1>1, IdleHoldsNothing DEF Init, AtRest, Owned, Held, AskedFirst, NoUnownedEngine
<1>3. \A p \in Projects : Live(p) = {} /\ OpenFor(p) = {}
  BY <1>1, IdleIsNobodys DEF Init, Live, OpenFor
<1>4. WellKept
  BY <1>3 DEF Init, WellKept, Orderly, Down, Single, Bound
<1>5. RunningIsRestored
  BY DEF Init, RunningIsRestored
<1>6. Restorable
  BY <1>1, <1>5, IdleIsNobodys DEF Restorable, Alone, Of
<1> QED BY <1>2, <1>4, <1>6

LEMMA KeptAlways == Spec => [](Typed /\ Restorable /\ Owned /\ AtRest /\ WellKept)
BY InitTyped, InitKept, NextTyped, NextKeeps, NextOwned, NextAtRest, NextKept, PTL DEF Spec

\* However requests are dropped, the host crashes and boots, and engines come and
\* go, no project has two engines unless requests overlapped on it: start answers
\* with the engine there is, or reaps what an earlier host left (sandbox/process.rs,
\* reap_leftovers; wheeld/src/embedded.rs, start).
THEOREM NeverTwoEngines == Spec => []OneEnginePerProject
<1>1. Typed /\ WellKept => OneEnginePerProject
  <2> SUFFICES ASSUME Typed, WellKept, NEW p \in Projects, ~muddled[p]
               PROVE  Cardinality(Live(p)) <= 1
    BY DEF OneEnginePerProject
  <2>1. CASE Live(p) = {}
    BY <2>1, FS_EmptySet
  <2>2. CASE Live(p) # {}
    <3>1. PICK e : Live(p) = {e}
      BY <2>2 DEF WellKept, Orderly, Single
    <3> QED BY <3>1, FS_Singleton
  <2> QED BY <2>1, <2>2
<1> QED BY <1>1, KeptAlways, PTL

\* What stop or delete answered stays so: no boot, no later PUT and no dropped
\* request brings the project back (lib.rs, stop and
\* delete_project; store.rs, upsert).
THEOREM AStopIsFinal == Spec => []StoppedStaysStopped
<1>1. WellKept => StoppedStaysStopped
  BY DEF WellKept, Down, StoppedStaysStopped
<1> QED BY <1>1, KeptAlways, PTL

\* The engine in the map is the one at the project's path: no other unlinks it or
\* binds over it (proxy.rs asks the path, not the map).
THEOREM ThePathIsTheEngines == Spec => []SocketReachesTheEngine
<1>1. Typed /\ Owned /\ WellKept => SocketReachesTheEngine
  <2> SUFFICES ASSUME Typed, Owned, WellKept, NEW p \in Projects, ~muddled[p],
                      handle[p] # None, phase[handle[p]] = "serving"
               PROVE  socket[p] = handle[p]
    BY DEF SocketReachesTheEngine
  <2>1. handle[p] \in Live(p)
    BY TypedParts DEF MapTyped, Owned, Held, Live
  <2> QED BY <2>1 DEF WellKept, Orderly, Bound
<1> QED BY <1>1, KeptAlways, PTL
====
