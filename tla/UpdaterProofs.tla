---- MODULE UpdaterProofs ----
(***************************************************************************)
(* Theorems about Updater, for any history of commits, any engines and any *)
(* setting.  Kernel carries what is on disk: as long as no update has      *)
(* overtaken another, a rollback has the right build beside it, and the    *)
(* daemon that boots is one that proved itself (UpdatePromise).  Gates     *)
(* carries the drain: an install meets no turn, and no engine is left      *)
(* paused.  Verdicts and Remembered carry what is tried: only builds that  *)
(* passed their gate and were not rolled back.  ForWhom carries that the   *)
(* request a person made is answered before it is taken off.               *)
(***************************************************************************)
EXTENDS Updater, TLAPS

\* The types of what the promise is about.
BinsOK ==
  /\ live \in [Binaries -> Versions]
  /\ prev \in [Binaries -> Versions \cup {None}]
StOK ==
  st \in [bad : SUBSET Versions, pending : Marker \cup {None},
          request : {"none", "agent", "operator"}, strikes : 0 .. Breaker]
ProcType ==
       [running : Versions \cup {None},
        up : Serving \cup Installing \cup RollingBack \cup {"down"},
        bin : Binaries, by : Requester, att : Status,
        outcome : {"none", "refused", "waiting", "failed", "busy"},
        status : Status, checking : {"no", "loop", "poke"},
        seen : Versions \cup {None},
        conf : {"off", "asking", "proved", "closing", "done"},
        dog : {"off", "watching", "fired", "empty", "mark", "close"} \cup Binaries,
        suspect : Versions \cup {None}]
ProcOK == proc \in ProcType
BoardType ==
       [paused : BOOLEAN, eng : [Engines -> {"out", "asked", "in"}],
        mute : [Engines -> BOOLEAN], turn : [Engines -> BOOLEAN],
        missed : [Engines -> BOOLEAN]]
BoardOK == board \in BoardType
WorldOK ==
  /\ head \in Versions
  /\ ci \in [Versions -> {"pending", "green", "red"}]
  /\ proven \in SUBSET Versions /\ undone \in SUBSET Versions
  /\ overtaken \in BOOLEAN

\* The daemon binary that is installed, and what lies beside it.
Installed == live["wheeld"]
Kept == prev["wheeld"]
Running == proc.running
Trial == st.pending

\* A candidate is always newer than the build that looks at it.
IsNewer(s) == s \in Candidate => s.target > Running

Looks ==
  /\ Running = None => proc = Down
  /\ Running # None =>
       /\ proc.up # "down"
       /\ IsNewer(proc.status) /\ IsNewer(proc.att)
       /\ proc.up \in {"build", "pause", "pausing", "drain", "resuming", "ready", "mark",
                      "copy", "keep", "rename"} => proc.att \in Candidate
       /\ proc.checking # "no" => proc.seen \in Versions
       /\ proc.checking = "loop" => proc.up \in {"check", "recheck"}

\* Where the marker there may be is not one this process has planted.
Home == Serving \cup {"mark"}

\* Whom a rollback is about.
Suspects ==
  /\ proc.dog # "off" /\ proc.up \in Home /\ Trial # None => Trial.to = Running
  /\ proc.dog \in {"wheeld", "wheel", "empty", "mark", "close"} =>
       /\ proc.suspect \in Versions
       /\ proc.up \in Home => proc.suspect = Running
  /\ proc.up \in RollingBack =>
       /\ proc.conf = "off" /\ proc.dog = "off"
       /\ Trial # None /\ Trial.to = Running

\* What is kept beside a build on trial.
Backed == Trial # None /\ Installed = Trial.to => Kept = Trial.from

\* Outside a trial the installed build is proven; on trial it is the new one, or
\* a proven one that is not newer than the one the trial began with.
Disk ==
  /\ Trial = None => Installed \in proven
  /\ Trial # None =>
       /\ Trial.from \in proven /\ Trial.from < Trial.to
       /\ Installed = Trial.to \/ (Installed \in proven /\ Installed <= Trial.from)
  /\ Kept # None => Kept \in proven /\ Kept <= Installed
  /\ Backed

\* What the probation knows of the build it is about.
OnProbation ==
  /\ proc.conf \in {"asking", "proved", "closing"} => Trial # None /\ Trial.to = Running
  /\ proc.conf \in {"proved", "closing", "done"} => Running \in proven
  /\ Running # None /\ Trial = None => Running \in proven
  /\ proc.dog # "off" => proc.up \in Home
  /\ proc.dog \in {"wheel", "empty", "mark", "close"} => Installed \in proven

\* Where the loop stands, against the disk.
InPlace ==
  /\ proc.up \in Home /\ proc.dog \in {"off", "watching", "fired", "wheeld"} =>
       Installed = Running
  /\ proc.up \in Installing \ {"mark"} => proc.conf \in {"off", "done"} /\ Trial # None
  /\ proc.up \in {"copy", "keep", "rename"} =>
       /\ Trial.from = Running /\ Trial.to = proc.att.target
       /\ proc.bin = "wheeld" => Installed = Running
  /\ proc.up = "rename" /\ proc.bin = "wheeld" => Kept = Running
  /\ (proc.up = "undo" /\ proc.bin = "wheel") \/ proc.up = "unmark" => Installed \in proven
  /\ proc.up \in RollingBack =>
       IF proc.up = "restore" /\ proc.bin = "wheeld"
       THEN Installed = Running ELSE Installed \in proven

\* One update at a time keeps all of it; one over another only what the process
\* knows by itself.
Order == Disk /\ OnProbation /\ InPlace
Kernel == Looks /\ Suspects /\ (overtaken \/ Order)

-----------------------------------------------------------------------------
(* Every variable keeps its type. *)

USE DEF Installed, Kept, Running, Trial

LEMMA TypedParts == TypeOK <=> BinsOK /\ StOK /\ ProcOK /\ BoardOK /\ WorldOK
BY DEF TypeOK, BinsOK, StOK, ProcOK, ProcType, BoardOK, BoardType, WorldOK

LEMMA TypedNext ==
  ASSUME (BinsOK /\ StOK /\ ProcOK /\ BoardOK /\ WorldOK)'
  PROVE  TypeOK'
BY DEF TypeOK, BinsOK, StOK, ProcOK, ProcType, BoardOK, BoardType, WorldOK

LEMMA DownTyped == Down \in ProcType /\ NoEngine \in BoardType
BY DEF Down, NoEngine, Nobody, Status, Requester, Binaries, ProcType, BoardType

LEMMA GoneTyped == Gone => ProcOK' /\ BoardOK'
BY DownTyped DEF Gone, ProcOK, BoardOK

LEMMA InitTyped == Init => TypeOK
<1> SUFFICES ASSUME Init PROVE TypeOK
  OBVIOUS
<1>1. 1 \in Versions
  BY UpdaterAssumption DEF Versions
<1>2. BinsOK /\ WorldOK
  BY <1>1 DEF Init, BinsOK, WorldOK
<1>3. StOK
  BY UpdaterAssumption DEF Init, StOK
<1>4. ProcOK /\ BoardOK
  BY DownTyped DEF Init, ProcOK, ProcType, BoardOK, BoardType
<1> QED BY <1>2, <1>3, <1>4, TypedParts

LEMMA StruckTyped == StOK => Struck \in 0 .. Breaker
BY UpdaterAssumption DEF StOK, Struck

LEMMA RestoreTyped ==
  ASSUME BinsOK, NEW b \in Binaries, Restore(b)
  PROVE  BinsOK'
BY DEF BinsOK, Restore

LEMMA UpTyped ==
  ASSUME ProcOK, NEW u \in Serving \cup Installing \cup RollingBack, Up(u)
  PROVE  ProcOK'
BY DEF ProcOK, ProcType, Up

\* Whatever is not down runs a build.
LEMMA Alive ==
  ASSUME TypeOK, Looks,
         proc.up # "down" \/ proc.conf # "off" \/ proc.dog # "off"
  PROVE  Running \in Versions
BY TypedParts DEF Looks, ProcOK, ProcType, Down

LEMMA ProbationTyped ==
  ASSUME TypeOK, Looks, Answer \/ ConfirmRead \/ ConfirmClose
  PROVE  ProcOK' /\ StOK' /\ WorldOK'
<1>1. ProcOK'
  BY TypedParts DEF Answer, ConfirmRead, ConfirmClose, ProcOK, ProcType
<1>2. StOK'
  BY TypedParts DEF Answer, ConfirmRead, ConfirmClose, StOK
<1>3. WorldOK'
  <2>1. CASE Answer
    <3>1. proc.running \in Versions
      BY <2>1, Alive DEF Answer
    <3> QED BY <2>1, <3>1, TypedParts DEF Answer, WorldOK, world, history
  <2>2. CASE ConfirmRead \/ ConfirmClose
    BY <2>2, TypedParts DEF ConfirmRead, ConfirmClose, WorldOK, world, history
  <2> QED BY <2>1, <2>2
<1> QED BY <1>1, <1>2, <1>3

LEMMA DogTyped ==
  ASSUME TypeOK, Looks, Suspects, Dog
  PROVE  ProcOK' /\ StOK' /\ BoardOK' /\ BinsOK' /\ WorldOK'
<1>1. CASE DogWakes
  BY <1>1, TypedParts
     DEF DogWakes, ProcOK, ProcType, StOK, BoardOK, BoardType, BinsOK, WorldOK, bins, world,
        history
<1>2. CASE DogReads
  <2>1. CASE Trial = None
    BY <1>2, <2>1, GoneTyped, TypedParts DEF DogReads, StOK, BinsOK, WorldOK, bins, world, history
  <2>2. CASE Trial # None
    <3>1. Trial.to \in Versions
      BY <2>2, TypedParts DEF StOK, Marker
    <3>2. proc' = [proc EXCEPT !.dog = "wheeld", !.suspect = Trial.to] /\ board' = board
      BY <1>2, <2>2 DEF DogReads
    <3>3. ProcOK'
      BY <3>1, <3>2, TypedParts DEF ProcOK, ProcType, Binaries
    <3>4. BoardOK'
      BY <3>2, TypedParts DEF BoardOK
    <3> QED BY <1>2, <3>3, <3>4, TypedParts
       DEF DogReads, StOK, BinsOK, WorldOK, bins, world, history
  <2> QED BY <2>1, <2>2
<1>3. CASE DogRestores
  <2>1. ProcOK'
    BY <1>3, TypedParts DEF DogRestores, ProcOK, ProcType, Binaries
  <2>2. BinsOK'
    BY <1>3, RestoreTyped, TypedParts DEF DogRestores, Binaries
  <2>3. proc.suspect \in Versions
    BY <1>3 DEF DogRestores, Suspects
  <2>4. WorldOK'
    BY <1>3, <2>3, TypedParts DEF DogRestores, Undoes, WorldOK, world, history
  <2> QED BY <1>3, <2>1, <2>2, <2>4, TypedParts DEF DogRestores, StOK, BoardOK, BoardType
<1>6. CASE DogRestoresOther
  <2>1. ProcOK' /\ BoardOK'
    BY <1>6, GoneTyped, TypedParts
       DEF DogRestoresOther, ProcOK, ProcType, BoardOK, BoardType, Binaries
  <2>2. BinsOK'
    BY <1>6, RestoreTyped, TypedParts DEF DogRestoresOther, BinsOK, bins, Binaries
  <2>3. proc.suspect \in Versions
    BY <1>6 DEF DogRestoresOther, Suspects
  <2>4. WorldOK'
    BY <1>6, <2>3, TypedParts DEF DogRestoresOther, Undoes, WorldOK, world, history
  <2> QED BY <1>6, <2>1, <2>2, <2>4, TypedParts DEF DogRestoresOther, StOK
<1>4. CASE DogMarksBad
  <2>1. proc.suspect \in Versions
    BY <1>4 DEF DogMarksBad, Suspects
  <2> QED BY <1>4, <2>1, TypedParts
          DEF DogMarksBad, ProcOK, ProcType, StOK, BoardOK, BoardType, BinsOK, WorldOK, bins,
              world, history
<1>5. CASE DogCloses
  <2>1. StOK'
    BY <1>5, StruckTyped, TypedParts DEF DogCloses, CloseRolledBack, StOK
  <2> QED BY <1>5, <2>1, GoneTyped, TypedParts
     DEF DogCloses, CloseRolledBack, BinsOK, WorldOK, bins, world, history
<1> QED BY <1>1, <1>2, <1>3, <1>4, <1>5, <1>6 DEF Dog

LEMMA DecisionNeedsAMarker ==
  /\ Decision \in {"probation", "rollback"} =>
       Trial # None /\ Trial.to = Installed
  /\ Decision = "interrupted" => Trial # None /\ Trial.to # Installed
  /\ Decision = "normal" => Trial = None
  /\ Decision = "probation" => ~(Trial.attempts >= 1)
  /\ Decision \in {"normal", "interrupted", "rollback", "probation"}
BY DEF Decision

LEMMA BootTyped ==
  ASSUME TypeOK, Boot
  PROVE  TypeOK'
<1> DEFINE booted == [Down EXCEPT !.running = live["wheeld"], !.up = "idle"]
<1>1. live["wheeld"] \in Versions
  BY TypedParts DEF BinsOK, Binaries
<1>2. /\ proc' = booted \/ proc' = [booted EXCEPT !.up = "restore"]
         \/ proc' = [booted EXCEPT !.conf = "asking", !.dog = "watching"]
      /\ \/ UNCHANGED st
         \/ st' = [st EXCEPT !.pending = None]
         \/ Decision = "probation" /\ st' = [st EXCEPT !.pending.attempts = @ + 1]
  BY DEF Boot, BootsAs
<1>3. ProcOK'
  <2>1. booted \in ProcType
    BY <1>1, DownTyped DEF ProcType, Serving
  <2> HIDE DEF booted
  <2>2. [booted EXCEPT !.up = "restore"] \in ProcType
    BY <2>1 DEF ProcType, RollingBack
  <2>3. [booted EXCEPT !.conf = "asking", !.dog = "watching"] \in ProcType
    BY <2>1 DEF ProcType
  <2> QED BY <1>2, <2>1, <2>2, <2>3 DEF ProcOK
<1>4. StOK'
  <2>1. CASE st' = [st EXCEPT !.pending.attempts = @ + 1] /\ Decision = "probation"
    <3>1. Trial \in Marker /\ Trial.attempts = 0
      BY <2>1, DecisionNeedsAMarker, TypedParts DEF StOK, Marker
    <3> DEFINE m == [Trial EXCEPT !.attempts = @ + 1]
    <3>2. m \in Marker
      BY <3>1 DEF Marker
    <3>3. st' = [st EXCEPT !.pending = m]
      BY <2>1
    <3> QED BY <3>2, <3>3, TypedParts DEF StOK
  <2>2. CASE UNCHANGED st \/ st' = [st EXCEPT !.pending = None]
    BY <2>2, TypedParts DEF StOK
  <2> QED BY <1>2, <2>1, <2>2
<1>5. WorldOK'
  BY TypedParts DEF Boot, Recovers, WorldOK, world
<1> QED BY <1>3, <1>4, <1>5, TypedParts, TypedNext DEF Boot, BoardOK, BoardType, BinsOK, bins

LEMMA BootStepsTyped ==
  ASSUME TypeOK, Looks, BootRestore \/ BootMarkBad \/ BootClose, Trial # None
  PROVE  TypeOK'
<1>1. CASE BootRestore
  <2>1. CASE proc.bin = "wheeld" /\ NothingKept
    BY <1>1, <2>1, GoneTyped, TypedParts, TypedNext
       DEF BootRestore, StOK, BinsOK, WorldOK, bins, world, history
  <2>2. CASE ~(proc.bin = "wheeld" /\ NothingKept)
    <3>1. BinsOK'
      BY <1>1, <2>2, RestoreTyped, TypedParts DEF BootRestore, ProcOK, ProcType
    <3>2. ProcOK'
      BY <1>1, <2>2, TypedParts DEF BootRestore, ProcOK, ProcType, Binaries, RollingBack
    <3>3. st.pending.to \in Versions
      BY TypedParts DEF StOK, Marker
    <3>4. WorldOK'
      BY <1>1, <2>2, <3>3, TypedParts DEF BootRestore, Undoes, WorldOK, world
    <3> QED BY <1>1, <2>2, <3>1, <3>2, <3>4, TypedParts, TypedNext
            DEF BootRestore, StOK, BoardOK, BoardType
  <2> QED BY <2>1, <2>2
<1>2. CASE BootMarkBad
  <2>1. st.pending.to \in Versions
    BY TypedParts DEF StOK, Marker
  <2>2. StOK'
    BY <1>2, <2>1, TypedParts DEF BootMarkBad, StOK
  <2>3. ProcOK'
    BY <1>2, UpTyped, TypedParts DEF BootMarkBad, RollingBack
  <2> QED BY <1>2, <2>2, <2>3, TypedParts, TypedNext
          DEF BootMarkBad, BoardOK, BoardType, BinsOK, WorldOK, bins, world, history
<1>3. CASE BootClose
  <2>1. StOK'
    BY <1>3, StruckTyped, TypedParts DEF BootClose, CloseRolledBack, StOK
  <2> QED BY <1>3, <2>1, GoneTyped, TypedParts, TypedNext
          DEF BootClose, CloseRolledBack, BinsOK, WorldOK, bins, world, history
<1> QED BY <1>1, <1>2, <1>3

LEMMA LookTyped ==
  ASSUME WorldOK, NEW v \in Versions
  PROVE  Look(v) \in Status
BY DEF WorldOK, Look, Status, Candidate

LEMMA FetchTyped ==
  ASSUME ProcOK, WorldOK
  PROVE  Fetch(proc).running = Running /\ Fetch(proc) \in ProcType
BY DEF ProcOK, WorldOK, Fetch, ProcType

LEMMA AskingTyped ==
  ASSUME TypeOK, Asking
  PROVE  TypeOK'
BY UpdaterAssumption, TypedParts, TypedNext
   DEF Asking, AgentAsks, WindowPasses, ProcOK, ProcType, StOK, BoardOK, BoardType, BinsOK,
      WorldOK, bins, world, history

LEMMA LookingTyped ==
  ASSUME TypeOK, Looking
  PROVE  TypeOK'
<1>1. CASE Poke
  BY <1>1, TypedParts, TypedNext
     DEF Poke, ProcOK, ProcType, StOK, BoardOK, BoardType, BinsOK, WorldOK, bins, world, history
<1>2. CASE Tick
  <2>1. ProcOK'
    <3>1. [Fetch(proc) EXCEPT !.up = "check"] \in ProcType
      BY FetchTyped, TypedParts DEF ProcType, Serving
    <3>2. CASE Up("due")
      BY <3>2, UpTyped, TypedParts DEF Serving
    <3> QED BY <1>2, <3>1, <3>2 DEF Tick, ProcOK
  <2>2. StOK'
    <3>1. 0 \in 0 .. Breaker
      BY UpdaterAssumption
    <3> QED BY <1>2, <3>1, TypedParts DEF Tick, StOK
  <2> QED BY <1>2, <2>1, <2>2, TypedParts, TypedNext
     DEF Tick, BoardOK, BoardType, BinsOK, WorldOK, bins, world, history
<1>3. ASSUME NEW s \in Status, Answered(s)
      PROVE  TypeOK'
  <2>1. ProcOK'
    <3> DEFINE told == [proc EXCEPT !.status = s, !.checking = "no", !.seen = None]
    <3>1. told \in ProcType
      BY TypedParts DEF ProcOK, ProcType
    <3>2. \/ proc' = told \/ proc' = [told EXCEPT !.up = "due"]
          \/ proc' = [told EXCEPT !.up = "judge", !.att = s]
      BY <1>3 DEF Answered
    <3> HIDE DEF told
    <3>3. [told EXCEPT !.up = "due"] \in ProcType
      BY <3>1 DEF ProcType, Serving
    <3>4. [told EXCEPT !.up = "judge", !.att = s] \in ProcType
      BY <3>1 DEF ProcType, Serving
    <3> QED BY <3>1, <3>2, <3>3, <3>4 DEF ProcOK
  <2> QED BY <1>3, <2>1, TypedParts, TypedNext
     DEF Answered, StOK, BoardOK, BoardType, BinsOK, WorldOK, bins, world, history
<1> QED BY <1>1, <1>2, <1>3 DEF Looking

LEMMA EndsTyped ==
  ASSUME ProcOK, NEW o \in {"refused", "waiting", "failed", "busy"}, Ends(o)
  PROVE  ProcOK'
BY DEF ProcOK, ProcType, Ends, Serving

LEMMA BeginsTyped ==
  ASSUME ProcOK, WorldOK, NEW who \in Requester, Begins(who)
  PROVE  ProcOK'
<1>1. [Fetch(proc) EXCEPT !.up = "recheck", !.by = who] \in ProcType
  BY FetchTyped DEF ProcType, Serving
<1>2. [proc EXCEPT !.up = "judge", !.by = who, !.att = proc.status] \in ProcType
  BY DEF ProcOK, ProcType, Serving
<1> QED BY <1>1, <1>2 DEF Begins, ProcOK

LEMMA FlagTyped ==
  ASSUME BoardOK, NEW b \in BOOLEAN, SetFlag(b)
  PROVE  BoardOK'
<1> DEFINE late == [e \in Engines |-> board.missed[e] \/ board.eng[e] = "asked"]
<1>1. late \in [Engines -> BOOLEAN]
  OBVIOUS
<1>2. board' = [board EXCEPT !.paused = b, !.missed = late]
  BY DEF SetFlag
<1> HIDE DEF late
<1> QED BY <1>1, <1>2 DEF BoardOK, BoardType

LEMMA GatesTyped ==
  ASSUME BoardOK, NEW b \in BOOLEAN, SetGates(b)
  PROVE  BoardOK'
<1> DEFINE shut == [e \in Engines |-> IF In(e) THEN b ELSE board.mute[e]]
           late == [e \in Engines |-> ~In(e) /\ board.missed[e]]
<1>1. shut \in [Engines -> BOOLEAN]
  BY DEF BoardOK, BoardType
<1>2. late \in [Engines -> BOOLEAN]
  OBVIOUS
<1>3. board' = [board EXCEPT !.mute = shut, !.missed = late]
  BY DEF SetGates
<1> HIDE DEF shut, late
<1> QED BY <1>1, <1>2, <1>3 DEF BoardOK, BoardType

LEMMA AttemptTyped ==
  ASSUME TypeOK, Attempt
  PROVE  TypeOK'
<1>1. CASE Due
  <2>1. Who \in Requester
    BY TypedParts DEF Who, Requester, StOK
  <2>2. ProcOK'
    BY <1>1, <2>1, UpTyped, BeginsTyped, TypedParts DEF Due, Serving
  <2>3. StOK'
    BY <1>1, TypedParts DEF Due, StOK
  <2> QED BY <1>1, <2>2, <2>3, TypedParts, TypedNext
     DEF Due, BoardOK, BinsOK, WorldOK, bins, world, history
<1>2. CASE Judge
  <2>2. ProcOK'
    BY <1>2, UpTyped, EndsTyped, TypedParts DEF Judge, Serving
  <2>3. StOK'
    BY <1>2, TypedParts DEF Judge, StOK
  <2> QED BY <1>2, <2>2, <2>3, TypedParts, TypedNext
     DEF Judge, BoardOK, BinsOK, WorldOK, bins, world, history
<1>3. CASE Build
  <2>1. ProcOK'
    BY <1>3, UpTyped, EndsTyped, TypedParts DEF Build, Serving
  <2> QED BY <1>3, <2>1, TypedParts, TypedNext
     DEF Build, StOK, BoardOK, BinsOK, WorldOK, bins, world, history
<1>4. CASE Quiet
  <2>1. ProcOK'
    BY <1>4, UpTyped, TypedParts DEF Quiet, Serving
  <2> QED BY <1>4, <2>1, TypedParts, TypedNext
     DEF Quiet, StOK, BoardOK, BinsOK, WorldOK, bins, world, history
<1>5. CASE RaiseFlag \/ LowerFlag
  <2>1. ProcOK'
    BY <1>5, UpTyped, TypedParts DEF RaiseFlag, LowerFlag, Serving
  <2>2. BoardOK'
    BY <1>5, FlagTyped, TypedParts DEF RaiseFlag, LowerFlag
  <2> QED BY <1>5, <2>1, <2>2, TypedParts, TypedNext
     DEF RaiseFlag, LowerFlag, StOK, BinsOK, WorldOK, bins, world, history
<1>6. CASE ShutGates \/ OpenGates
  <2>1. ProcOK'
    BY <1>6, UpTyped, EndsTyped, TypedParts DEF ShutGates, OpenGates, Serving
  <2>2. BoardOK'
    BY <1>6, GatesTyped, TypedParts DEF ShutGates, OpenGates
  <2> QED BY <1>6, <2>1, <2>2, TypedParts, TypedNext
     DEF ShutGates, OpenGates, StOK, BinsOK, WorldOK, bins, world, history
<1>7. CASE Finish
  <2>1. ProcOK'
    BY <1>7, TypedParts DEF Finish, ProcOK, ProcType, Serving, Requester, Status
  <2>2. StOK'
    BY <1>7, StruckTyped, TypedParts DEF Finish, StOK
  <2> QED BY <1>7, <2>1, <2>2, TypedParts, TypedNext
     DEF Finish, BoardOK, BinsOK, WorldOK, bins, world, history
<1> QED BY <1>1, <1>2, <1>3, <1>4, <1>5, <1>6, <1>7 DEF Attempt

LEMMA EngineTyped ==
  ASSUME TypeOK, NEW e \in Engines, NEW place \in {"out", "asked", "in"},
         NEW shut \in BOOLEAN, NEW busy \in BOOLEAN, NEW late \in BOOLEAN,
         Engine(e, place, shut, busy, late)
  PROVE  TypeOK'
<1>1. BoardOK'
  BY TypedParts DEF Engine, BoardOK, BoardType
<1> QED BY <1>1, TypedParts, TypedNext
   DEF Engine, ProcOK, StOK, BinsOK, WorldOK, bins, world, history

LEMMA TurnsTyped ==
  ASSUME TypeOK, NEW e \in Engines, Turns(e)
  PROVE  TypeOK'
<1>1. /\ board.paused \in BOOLEAN
      /\ board.mute[e] \in BOOLEAN /\ board.missed[e] \in BOOLEAN
  BY TypedParts DEF BoardOK, BoardType
<1> QED BY <1>1, EngineTyped DEF Turns, Attach, Listed, StopEngine, StartTurn, EndTurn

LEMMA InstallTyped ==
  ASSUME TypeOK, Kernel, Install \/ Shutdown \/ SwapFails
  PROVE  TypeOK'
<1>1. CASE PlantMarker
  <2>1. Running \in Versions /\ proc.att.target \in Versions /\ proc.by \in Requester
    BY <1>1, Alive, TypedParts DEF PlantMarker, Kernel, Looks, Candidate, ProcOK, ProcType, Down
  <2> DEFINE m == [from |-> Running, to |-> proc.att.target, by |-> proc.by, attempts |-> 0]
  <2>2. m \in Marker
    BY <2>1 DEF Marker
  <2>3. st' = [st EXCEPT !.request = "none", !.pending = m]
    BY <1>1 DEF PlantMarker
  <2> HIDE DEF m
  <2>4. StOK'
    BY <2>2, <2>3, TypedParts DEF StOK
  <2>5. ProcOK'
    BY <1>1, TypedParts DEF PlantMarker, ProcOK, ProcType, Installing, Binaries
  <2>6. WorldOK'
    BY <1>1, TypedParts DEF PlantMarker, TrialIsOpen, WorldOK, world
  <2> QED BY <1>1, <2>4, <2>5, <2>6, TypedParts, TypedNext DEF PlantMarker, BoardOK, BinsOK, bins
<1>2. CASE CopyBeside \/ KeepPrevious
  <2>1. ProcOK'
    BY <1>2, UpTyped, TypedParts DEF CopyBeside, KeepPrevious, Installing
  <2>2. BinsOK'
    BY <1>2, TypedParts DEF CopyBeside, KeepPrevious, BinsOK, ProcOK, ProcType
  <2> QED BY <1>2, <2>1, <2>2, TypedParts, TypedNext
          DEF CopyBeside, KeepPrevious, StOK, BoardOK, WorldOK, world, history
<1>3. CASE RenameOver
  <2>1. proc.att.target \in Versions
    BY <1>3, Alive DEF RenameOver, Kernel, Looks, Candidate, Down
  <2>2. BinsOK'
    BY <1>3, <2>1, TypedParts DEF RenameOver, BinsOK
  <2>3. ProcOK' /\ BoardOK'
    <3>1. [proc EXCEPT !.bin = "wheel", !.up = "copy"] \in ProcType
      BY TypedParts DEF ProcOK, ProcType, Installing, Binaries
    <3> QED BY <1>3, <3>1, GoneTyped, TypedParts DEF RenameOver, ProcOK, BoardOK
  <2>4. WorldOK'
    BY <1>3, TypedParts DEF RenameOver, Forgets, WorldOK, world, history
  <2> QED BY <1>3, <2>2, <2>3, <2>4, TypedParts, TypedNext DEF RenameOver, StOK
<1>4. CASE Undo
  <2>1. ProcOK'
    BY <1>4, TypedParts DEF Undo, ProcOK, ProcType, Installing, Binaries
  <2>2. BinsOK'
    BY <1>4, RestoreTyped, TypedParts DEF Undo, ProcOK, ProcType
  <2> QED BY <1>4, <2>1, <2>2, TypedParts, TypedNext
     DEF Undo, StOK, BoardOK, WorldOK, world, history
<1>5. CASE Unmark
  <2>1. StOK'
    BY <1>5, StruckTyped, TypedParts DEF Unmark, CloseRolledBack, StOK
  <2> QED BY <1>5, <2>1, GoneTyped, TypedParts, TypedNext
          DEF Unmark, CloseRolledBack, Forgets, BinsOK, WorldOK, bins, world
<1>6. CASE Shutdown
  <2>1. ProcOK'
    BY <1>6, UpTyped, TypedParts DEF Shutdown, Installing
  <2> QED BY <1>6, <2>1, DownTyped, TypedParts, TypedNext
     DEF Shutdown, StOK, BoardOK, BinsOK, WorldOK, bins, world, history
<1>7. CASE SwapFails
  <2>1. ProcOK'
    <3>1. [proc EXCEPT !.up = "undo", !.bin = "wheeld"] \in ProcType
      BY TypedParts DEF ProcOK, ProcType, Installing, Binaries
    <3> QED BY <1>7, <3>1 DEF SwapFails, ProcOK
  <2> QED BY <1>7, <2>1, TypedParts, TypedNext
     DEF SwapFails, StOK, BoardOK, BinsOK, WorldOK, bins, world, history
<1> QED BY <1>1, <1>2, <1>3, <1>4, <1>5, <1>6, <1>7 DEF Install

LEMMA NextTyped ==
  ASSUME TypeOK, Kernel, [Next]_vars
  PROVE  TypeOK'
<1>1. CASE BootSteps
  <2>1. BootRestore \/ BootMarkBad \/ BootClose => Trial # None
    BY DEF BootRestore, BootMarkBad, BootClose, Kernel, Suspects, RollingBack
  <2> QED BY <1>1, <2>1, BootTyped, BootStepsTyped DEF BootSteps, Kernel
<1>2. CASE Probation
  <2>1. ProcOK' /\ StOK' /\ WorldOK'
    BY <1>2, ProbationTyped DEF Probation, Kernel
  <2> QED BY <1>2, <2>1, TypedParts, TypedNext
          DEF Probation, Answer, ConfirmRead, ConfirmClose, BoardOK, BinsOK, bins, history
<1>3. CASE Dog
  BY <1>3, DogTyped, TypedNext DEF Kernel
<1>4. CASE World
  <2>1. WorldOK'
    BY <1>4, UpdaterAssumption, TypedParts DEF World, Push, Checked, WorldOK, Versions, history
  <2> QED BY <1>4, <2>1, TypedParts, TypedNext
          DEF World, Push, Checked, ProcOK, StOK, BoardOK, BinsOK, bins, history
<1>5. CASE Crash
  BY <1>5, GoneTyped, TypedParts, TypedNext DEF Crash, Forgets, StOK, BinsOK, WorldOK, bins, world
<1>6. CASE UNCHANGED vars
  BY <1>6, TypedParts, TypedNext
     DEF vars, ProcOK, StOK, BoardOK, BinsOK, WorldOK, bins, world, history
<1> QED BY <1>1, <1>2, <1>3, <1>4, <1>5, <1>6, AskingTyped, LookingTyped,
           AttemptTyped, InstallTyped, TurnsTyped DEF Next

-----------------------------------------------------------------------------
(* Every step keeps the kernel. *)

\* What the loop and its checks leave alone.
SameTrial ==
  /\ UNCHANGED <<live, prev, proven, overtaken>>
  /\ st'.pending = st.pending
  /\ proc'.running = proc.running /\ proc'.conf = proc.conf /\ proc'.dog = proc.dog
  /\ proc'.suspect = proc.suspect

LEMMA LoopKeeps ==
  ASSUME TypeOK, Kernel, SameTrial, Looks',
         proc.up \in Serving, proc'.up \in Home
  PROVE  Kernel'
<1>1. Suspects'
  BY DEF Kernel, Suspects, SameTrial, Home, Serving, RollingBack
<1>2. ASSUME Order
      PROVE  Order'
  <2>1. Disk'
    BY <1>2 DEF Order, Disk, Backed, SameTrial
  <2>2. OnProbation'
    BY <1>2 DEF Order, OnProbation, SameTrial
  <2>3. InPlace'
    BY <1>2 DEF Order, InPlace, SameTrial, Home, Serving, Installing, RollingBack
  <2> QED BY <2>1, <2>2, <2>3 DEF Order
<1> QED BY <1>1, <1>2 DEF Kernel, SameTrial

LEMMA StandsKeeps ==
  ASSUME Kernel, UNCHANGED <<live, prev, proven, overtaken, proc>>, st'.pending = st.pending
  PROVE  Kernel'
<1>1. Looks'
  BY DEF Kernel, Looks, IsNewer, Down
<1>2. Suspects'
  BY DEF Kernel, Suspects
<1>3. ASSUME Order
      PROVE  Order'
  <2>1. Disk'
    BY <1>3 DEF Order, Disk, Backed
  <2>2. OnProbation'
    BY <1>3 DEF Order, OnProbation
  <2>3. InPlace'
    BY <1>3 DEF Order, InPlace
  <2> QED BY <2>1, <2>2, <2>3 DEF Order
<1> QED BY <1>1, <1>2, <1>3 DEF Kernel

\* When the process goes, only what is on disk counts.
LEMMA GoneKeeps ==
  ASSUME Gone, overtaken' \/ Disk'
  PROVE  Kernel'
<1>1. proc' = Down /\ Down.running = None /\ Down.up = "down" /\ Down.conf = "off"
      /\ Down.dog = "off"
  BY DEF Gone, Down
<1>2. Looks'
  BY <1>1 DEF Looks, Down
<1>3. Suspects'
  BY <1>1 DEF Suspects, RollingBack
<1>4. OnProbation'
  BY <1>1 DEF OnProbation
<1>5. InPlace'
  BY <1>1 DEF InPlace, Home, Serving, Installing, RollingBack
<1> QED BY <1>2, <1>3, <1>4, <1>5 DEF Kernel, Order

\* What a step leaves alone.
LEMMA TurnsLeave ==
  ASSUME NEW e \in Engines, Turns(e)
  PROVE  UNCHANGED <<bins, st, proc, world, history>>
BY DEF Turns, Attach, Listed, StopEngine, StartTurn, EndTurn, Engine

LEMMA LookingLeaves ==
  ASSUME StOK, Looking
  PROVE  UNCHANGED <<bins, world, history>> /\ st'.bad = st.bad /\ st'.pending = st.pending
<1>1. ASSUME NEW s \in Status, Answered(s)
      PROVE  UNCHANGED <<bins, st, world, history>>
  BY <1>1 DEF Answered
<1>2. CASE Poke
  BY <1>2 DEF Poke
<1>3. CASE Tick
  BY <1>3 DEF Tick, StOK
<1> QED BY <1>1, <1>2, <1>3 DEF Looking

LEMMA AttemptLeaves ==
  ASSUME StOK, Attempt
  PROVE  UNCHANGED <<bins, world, history>> /\ st'.bad = st.bad /\ st'.pending = st.pending
<1>1. CASE Due
  BY <1>1 DEF Due, StOK
<1>2. CASE Judge
  BY <1>2 DEF Judge, StOK
<1>3. CASE Finish
  BY <1>3 DEF Finish, StOK
<1>4. CASE Build \/ Quiet
  BY <1>4 DEF Build, Quiet
<1>5. CASE RaiseFlag \/ ShutGates \/ LowerFlag \/ OpenGates
  BY <1>5 DEF RaiseFlag, ShutGates, LowerFlag, OpenGates
<1> QED BY <1>1, <1>2, <1>3, <1>4, <1>5 DEF Attempt

LEMMA NoneIsNoVersion == \A v \in Versions : v # None
BY UpdaterAssumption

LEMMA LookIsNewer ==
  ASSUME TypeOK, Looks, Running \in Versions, NEW v \in Versions
  PROVE  IsNewer(Look(v))
<1>1. \A w \in Versions : w \in Int
  BY DEF Versions
<1>2. UpToDate \notin Candidate
  BY UpdaterAssumption
<1> QED BY <1>1, <1>2 DEF IsNewer, Look

LEMMA StaysKeeps ==
  ASSUME TypeOK, Kernel, SameTrial, Looks', proc'.up = proc.up, proc'.bin = proc.bin,
         proc'.att = proc.att
  PROVE  Kernel'
<1>1. Suspects'
  BY DEF Kernel, Suspects, SameTrial
<1>2. ASSUME Order
      PROVE  Order'
  <2>1. Disk'
    BY <1>2 DEF Order, Disk, Backed, SameTrial
  <2>2. OnProbation'
    BY <1>2 DEF Order, OnProbation, SameTrial
  <2>3. InPlace'
    BY <1>2 DEF Order, InPlace, SameTrial
  <2> QED BY <2>1, <2>2, <2>3 DEF Order
<1> QED BY <1>1, <1>2 DEF Kernel, SameTrial

LEMMA LookingKeeps ==
  ASSUME TypeOK, Kernel, Looking
  PROVE  Kernel'
<1>1. ASSUME NEW s \in Status, Answered(s)
      PROVE  Kernel'
  <2> DEFINE told == [proc EXCEPT !.status = s, !.checking = "no", !.seen = None]
  <2>1. proc.checking # "no" /\ proc.seen \in Versions /\ Running \in Versions
    BY <1>1, TypedParts DEF Answered, Kernel, Looks, Down, ProcOK, ProcType
  <2>2. IsNewer(s)
    BY <1>1, <2>1, LookIsNewer, NoneIsNoVersion DEF Answered, Kernel, Looks
  <2>3. SameTrial
    BY <1>1, TypedParts DEF Answered, SameTrial, ProcOK, ProcType, bins, history
  <2>4. proc'.status = s /\ proc'.checking = "no" /\ proc'.running = Running
    BY <1>1, TypedParts DEF Answered, ProcOK, ProcType
  <2>5. CASE proc.checking = "poke"
    <3>1. proc'.up = proc.up /\ proc'.bin = proc.bin /\ proc'.att = proc.att
      BY <1>1, <2>5, TypedParts DEF Answered, ProcOK, ProcType
    <3>2. Looks'
      BY <2>1, <2>2, <2>4, <3>1, NoneIsNoVersion DEF Kernel, Looks, IsNewer
    <3> QED BY <2>3, <3>1, <3>2, StaysKeeps
  <2>6. CASE proc.checking = "loop"
    <3>1. proc.up \in {"check", "recheck"}
      BY <2>1, <2>6, NoneIsNoVersion DEF Kernel, Looks
    <3>2. proc'.up \in {"due", "judge"} /\ proc'.att \in {proc.att, s}
      BY <1>1, <2>6, TypedParts DEF Answered, ProcOK, ProcType
    <3>3. Looks'
      BY <2>1, <2>2, <2>4, <3>2, NoneIsNoVersion DEF Kernel, Looks, IsNewer
    <3> QED BY <2>3, <3>1, <3>2, <3>3, LoopKeeps DEF Home, Serving
  <2> QED BY <2>1, <2>5, <2>6, TypedParts DEF ProcOK, ProcType
<1>2. CASE Poke
  <2>1. Running \in Versions
    BY <1>2, Alive DEF Poke, Kernel, Serving
  <2>2. /\ proc'.up = proc.up /\ proc'.bin = proc.bin /\ proc'.att = proc.att
        /\ proc'.status = proc.status /\ proc'.checking = "poke" /\ proc'.seen \in Versions
        /\ proc'.running = Running
    BY <1>2, TypedParts DEF Poke, ProcOK, ProcType, WorldOK
  <2>3. Looks'
    BY <2>1, <2>2, UpdaterAssumption DEF Kernel, Looks, IsNewer
  <2>4. SameTrial
    BY <1>2, TypedParts DEF Poke, SameTrial, ProcOK, ProcType, bins, history
  <2> QED BY <2>2, <2>3, <2>4, StaysKeeps
<1>3. CASE Tick
  <2>1. Running \in Versions
    BY <1>3, Alive DEF Tick, Kernel
  <2>2. /\ proc'.up \in {"due", "check"} /\ proc'.att = proc.att
        /\ proc'.status = proc.status /\ proc'.running = Running
        /\ proc'.up = "due" => proc'.checking = proc.checking /\ proc'.seen = proc.seen
        /\ proc'.up = "check" => proc'.checking = "loop" /\ proc'.seen \in Versions
    BY <1>3, TypedParts DEF Tick, Up, Fetch, ProcOK, ProcType, WorldOK
  <2>3. Looks'
    BY <1>3, <2>1, <2>2, NoneIsNoVersion DEF Tick, Kernel, Looks, IsNewer
  <2>4. SameTrial
    BY <1>3, TypedParts DEF Tick, Up, Fetch, SameTrial, ProcOK, ProcType, StOK, bins, history
  <2> QED BY <1>3, <2>2, <2>3, <2>4, LoopKeeps DEF Tick, Home, Serving
<1> QED BY <1>1, <1>2, <1>3 DEF Looking

LEMMA AttemptMoves ==
  ASSUME ProcOK, StOK, WorldOK, Attempt
  PROVE  /\ proc.up \in Serving \ {"ready"} /\ proc'.up \in Serving
         /\ SameTrial
         /\ proc'.status = proc.status /\ proc'.att \in {proc.att, proc.status, Unknown}
         /\ \/ proc'.checking = proc.checking /\ proc'.seen = proc.seen
            \/ proc'.checking = "loop" /\ proc'.up = "recheck" /\ proc'.seen \in Versions
<1>1. CASE Due
  <2>1. proc.up = "due" /\ UNCHANGED <<live, prev, proven, overtaken>> /\ st'.pending = st.pending
    BY <1>1 DEF Due, bins, history, StOK
  <2>2. CASE Up("idle")
    BY <2>1, <2>2 DEF Up, SameTrial, Serving, ProcOK, ProcType
  <2>3. CASE Begins(Who) /\ proc.checking = "no"
    BY <2>1, <2>3 DEF Begins, Fetch, SameTrial, Serving, ProcOK, ProcType, WorldOK
  <2>4. CASE Begins(Who) /\ proc.checking # "no"
    BY <2>1, <2>4 DEF Begins, SameTrial, Serving, ProcOK, ProcType
  <2> QED BY <1>1, <2>2, <2>3, <2>4 DEF Due
<1>2. CASE Finish
  <2>1. proc.up = "finish" /\ UNCHANGED <<live, prev, proven,
     overtaken>> /\ st'.pending = st.pending
    BY <1>2 DEF Finish, bins, history, StOK
  <2> QED BY <1>2, <2>1 DEF Finish, SameTrial, Serving, ProcOK, ProcType
<1>3. CASE Judge \/ Build \/ RaiseFlag \/ ShutGates \/ Quiet \/ LowerFlag \/ OpenGates
  <2>1. /\ proc.up \in Serving \ {"ready"} /\ UNCHANGED <<live, prev, proven, overtaken>>
        /\ st'.pending = st.pending
        /\ \/ \E u \in Serving : Up(u)
           \/ \E o \in {"refused", "waiting", "failed", "busy"} : Ends(o)
    BY <1>3
       DEF Judge, Build, RaiseFlag, ShutGates, Quiet, LowerFlag, OpenGates, bins, history, StOK,
          Serving
  <2>2. ASSUME NEW u \in Serving, proc' = [proc EXCEPT !.up = u]
        PROVE  /\ proc'.up = u /\ proc'.running = Running /\ proc'.conf = proc.conf
               /\ proc'.dog = proc.dog /\ proc'.suspect = proc.suspect
               /\ proc'.status = proc.status /\ proc'.att = proc.att
               /\ proc'.checking = proc.checking /\ proc'.seen = proc.seen
    BY <2>2 DEF ProcOK, ProcType
  <2>3. ASSUME NEW o, Ends(o)
        PROVE  /\ proc'.up = "finish" /\ proc'.running = Running /\ proc'.conf = proc.conf
               /\ proc'.dog = proc.dog /\ proc'.suspect = proc.suspect
               /\ proc'.status = proc.status /\ proc'.att = proc.att
               /\ proc'.checking = proc.checking /\ proc'.seen = proc.seen
    BY <2>3 DEF Ends, ProcOK, ProcType
  <2>4. CASE \E u \in Serving : Up(u)
    BY <2>1, <2>2, <2>4 DEF Up, SameTrial
  <2>5. CASE \E o \in {"refused", "waiting", "failed", "busy"} : Ends(o)
    BY <2>1, <2>3, <2>5 DEF SameTrial, Serving
  <2> QED BY <2>1, <2>4, <2>5
<1> QED BY <1>1, <1>2, <1>3 DEF Attempt

LEMMA AttemptKeeps ==
  ASSUME TypeOK, Kernel, Attempt
  PROVE  Kernel'
<1>1. proc.up \in Serving \ {"ready"} /\ proc'.up \in Serving
  BY AttemptMoves, TypedParts
<1>2. SameTrial
  BY AttemptMoves, TypedParts
<1>3. Running \in Versions
  BY <1>1, Alive DEF Kernel, Serving
<1>4. proc'.status = proc.status /\ proc'.att \in {proc.att, proc.status, Unknown}
  BY AttemptMoves, TypedParts
<1>5. \/ proc'.checking = proc.checking /\ proc'.seen = proc.seen
      \/ proc'.checking = "loop" /\ proc'.up = "recheck" /\ proc'.seen \in Versions
  BY AttemptMoves, TypedParts
<1>6. proc.checking = "loop" => FALSE
  BY <1>3, UpdaterAssumption DEF Kernel, Looks, Attempt, Due, Judge, Build, RaiseFlag,
     ShutGates, LowerFlag, OpenGates, Finish, Quiet
<1>7. proc'.up \in {"build", "pause", "pausing", "drain", "resuming", "ready", "mark",
                    "copy", "keep", "rename"} => proc'.att \in Candidate
  <2>1. CASE Judge
    BY <2>1, TypedParts DEF Judge, Up, Ends, ProcOK, ProcType, Status
  <2>2. CASE ~Judge
    <3>1. proc'.up \in {"idle", "recheck", "judge", "finish"} \/
          (proc'.att = proc.att /\ proc.up \in {"build", "pause", "pausing", "drain"})
      BY <2>2, TypedParts DEF Attempt, Due, Build, RaiseFlag, ShutGates, LowerFlag,
         OpenGates, Finish, Quiet, Up, Ends, Begins, Fetch, ProcOK, ProcType
    <3> QED BY <1>3, <3>1, NoneIsNoVersion DEF Kernel, Looks
  <2> QED BY <2>1, <2>2
<1>8. Looks'
  <2>1. Unknown \notin Candidate /\ None \notin Versions
    BY UpdaterAssumption
  <2>2. proc'.running = Running
    BY <1>2 DEF SameTrial
  <2> QED BY <1>1, <1>3, <1>4, <1>5, <1>6, <1>7, <2>1, <2>2 DEF Kernel, Looks, IsNewer, Serving
<1> QED BY <1>1, <1>2, <1>8, LoopKeeps DEF Home

\* The end of serving.
LEMMA ShutdownKeeps ==
  ASSUME TypeOK, Kernel, Shutdown
  PROVE  Kernel'
<1>1. Running \in Versions
  BY Alive DEF Shutdown, Kernel
<1>2. /\ SameTrial /\ proc.up = "ready" /\ proc'.up = "mark"
      /\ proc'.status = proc.status /\ proc'.att = proc.att
      /\ proc'.checking = proc.checking /\ proc'.seen = proc.seen
  BY TypedParts DEF Shutdown, SameTrial, Up, ProcOK, ProcType, bins, history
<1>3. Looks'
  BY <1>1, <1>2, NoneIsNoVersion DEF Kernel, Looks, IsNewer, SameTrial
<1> QED BY <1>2, <1>3, LoopKeeps DEF Home, Serving

LEMMA GoneSame ==
  ASSUME Kernel, Gone, UNCHANGED <<live, prev, st, proven, overtaken>>
  PROVE  Kernel'
<1>1. overtaken' \/ Disk'
  BY DEF Kernel, Order, Disk, Backed
<1> QED BY <1>1, GoneKeeps

LEMMA CloseKeeps ==
  ASSUME TypeOK, Kernel, CloseRolledBack, UNCHANGED <<proven, overtaken>>,
         Order => Installed \in proven
  PROVE  Kernel'
<1>1. Trial' = None
  BY TypedParts DEF CloseRolledBack, StOK
<1>2. overtaken' \/ Disk'
  BY <1>1 DEF CloseRolledBack, bins, Kernel, Order, Disk, Backed
<1> QED BY <1>2, GoneKeeps DEF CloseRolledBack

\* Putting the old daemon back leaves a proven one, and no trial of it.
LEMMA RestoreDaemon ==
  ASSUME TypeOK, Disk, Restore("wheeld"), UNCHANGED proven, st'.pending = st.pending
  PROVE  Disk' /\ Installed' \in proven'
<1>1. Installed \in Versions /\ Kept \in Versions \cup {None}
  BY TypedParts DEF BinsOK, Binaries
<1>2. Trial # None => Trial.from \in Versions /\ Trial.to \in Versions
  BY TypedParts DEF StOK, Marker
<1>3. \A v \in Versions : v \in Int
  BY DEF Versions
<1>4. Kept' = None /\ Installed' = IF Kept = None THEN Installed ELSE Kept
  BY TypedParts DEF Restore, BinsOK, Binaries
<1>5. Kept = None => Installed \in proven /\ (Trial # None => Installed <= Trial.from)
  BY <1>2, NoneIsNoVersion DEF Disk, Backed
<1>6. Kept # None => Kept \in proven /\ (Trial # None => Kept <= Trial.from)
  BY <1>1, <1>2, <1>3 DEF Disk, Backed
<1>7. Installed' \in proven' /\ (Trial # None => Installed' <= Trial.from)
  BY <1>4, <1>5, <1>6
<1>8. Backed'
  BY <1>1, <1>2, <1>3, <1>4, <1>7 DEF Disk, Backed
<1> QED BY <1>4, <1>7, <1>8 DEF Disk

LEMMA RestoreOther ==
  ASSUME TypeOK, Disk, Restore("wheel"), UNCHANGED proven, st'.pending = st.pending
  PROVE  Disk' /\ Installed' = Installed /\ Kept' = Kept
<1>1. Installed' = Installed /\ Kept' = Kept
  BY TypedParts DEF Restore, BinsOK, Binaries
<1> QED BY <1>1 DEF Disk, Backed

LEMMA ProbationKeeps ==
  ASSUME TypeOK, Kernel, Probation
  PROVE  Kernel'
<1>1. Running \in Versions
  BY Alive DEF Probation, Answer, ConfirmRead, ConfirmClose, Kernel
<1>2. /\ UNCHANGED <<live, prev, overtaken>> /\ proven \subseteq proven'
      /\ proc'.running = Running /\ proc'.up = proc.up /\ proc'.bin = proc.bin
      /\ proc'.dog = proc.dog /\ proc'.suspect = proc.suspect
      /\ proc'.status = proc.status /\ proc'.att = proc.att
      /\ proc'.checking = proc.checking /\ proc'.seen = proc.seen
  BY TypedParts DEF Probation, Answer, ConfirmRead, ConfirmClose, bins, history, ProcOK, ProcType
<1>3. Looks'
  BY <1>1, <1>2, NoneIsNoVersion DEF Kernel, Looks, IsNewer
<1>4. st'.pending \in {st.pending, None}
  BY TypedParts DEF Probation, Answer, ConfirmRead, ConfirmClose, StOK
<1>5. proc.up \notin RollingBack
  BY DEF Probation, Answer, ConfirmRead, ConfirmClose, Kernel, Suspects
<1>6. Suspects'
  BY <1>2, <1>4, <1>5 DEF Kernel, Suspects
<1>7. ASSUME Order, Answer
      PROVE  Order'
  <2>1. proc'.conf = "proved" /\ proven' = proven \cup {Running} /\ st' = st
    BY <1>7, TypedParts DEF Answer, ProcOK, ProcType
  <2>2. Disk'
    BY <1>2, <1>7, <2>1 DEF Order, Disk, Backed
  <2>3. OnProbation'
    BY <1>2, <1>7, <2>1 DEF Answer, Order, OnProbation
  <2>4. proc.up \notin Installing
    BY <1>7 DEF Answer, Serving, Installing
  <2>5. InPlace'
    BY <1>2, <1>5, <1>7, <2>1, <2>4 DEF Order, InPlace, Installing
  <2> QED BY <2>2, <2>3, <2>5 DEF Order
<1>8. ASSUME Order, ConfirmRead
      PROVE  Order'
  <2>1. /\ proc.conf = "proved" /\ proc'.conf \in {"closing", "done"}
        /\ Trial = None => proc'.conf = "done"
        /\ UNCHANGED <<st, proven>>
    BY <1>8, TypedParts DEF ConfirmRead, ProcOK, ProcType, history
  <2>2. Disk'
    BY <1>2, <1>8, <2>1 DEF Order, Disk, Backed
  <2>3. OnProbation'
    BY <1>2, <1>8, <2>1 DEF Order, OnProbation
  <2>4. proc.up \notin Installing \ {"mark"}
    BY <1>8, <2>1 DEF Order, InPlace
  <2>5. InPlace'
    BY <1>2, <1>5, <1>8, <2>1, <2>4 DEF Order, InPlace, Installing
  <2> QED BY <2>2, <2>3, <2>5 DEF Order
<1>9. ASSUME Order, ConfirmClose
      PROVE  Order'
  <2>1. /\ proc.conf = "closing" /\ proc'.conf = "done" /\ Trial' = None
        /\ UNCHANGED proven
    BY <1>9, TypedParts DEF ConfirmClose, ProcOK, ProcType, StOK, history
  <2>2. Trial # None /\ Trial.to = Running /\ Running \in proven
    BY <1>9, <2>1 DEF Order, OnProbation
  <2>3. Disk'
    BY <1>2, <1>9, <2>1, <2>2 DEF Order, Disk, Backed
  <2>4. OnProbation'
    BY <1>2, <1>9, <2>1, <2>2 DEF Order, OnProbation
  <2>5. proc.up \notin Installing \ {"mark"}
    BY <1>9, <2>1 DEF Order, InPlace
  <2>6. InPlace'
    BY <1>2, <1>5, <1>9, <2>1, <2>5 DEF Order, InPlace, Installing
  <2> QED BY <2>3, <2>4, <2>6 DEF Order
<1> QED BY <1>2, <1>3, <1>6, <1>7, <1>8, <1>9 DEF Probation, Kernel

LEMMA DogKeeps ==
  ASSUME TypeOK, Kernel, Dog
  PROVE  Kernel'
<1>1. Running \in Versions /\ proc.dog # "off"
  BY Alive DEF Dog, DogWakes, DogReads, DogRestores, DogRestoresOther, DogMarksBad, DogCloses,
     Kernel, Binaries
<1>2. proc.up \notin RollingBack
  BY <1>1 DEF Kernel, Suspects
<1>3. UNCHANGED <<proven, overtaken>>
  BY DEF Dog, DogWakes, DogReads, DogRestores, DogRestoresOther, DogMarksBad, DogCloses,
     Undoes, history
<1>4. CASE DogCloses
  <2>1. Order => Installed \in proven
    BY <1>4 DEF DogCloses, Order, OnProbation
  <2> QED BY <1>3, <1>4, <2>1, CloseKeeps DEF DogCloses
<1>5. CASE Gone /\ ~DogCloses
  <2>1. DogReads \/ DogRestoresOther
    BY <1>1, <1>5, NoneIsNoVersion, TypedParts DEF Gone, Down, Dog, DogWakes, DogRestores,
       DogMarksBad, ProcOK, ProcType
  <2>2. CASE DogReads
    BY <1>3, <1>5, <2>2, GoneSame DEF DogReads, bins
  <2>3. CASE DogRestoresOther
    <3>1. ~(proc.dog = "empty" /\ prev["wheel"] = None) => proc'.dog = "mark"
      BY <2>3, TypedParts DEF DogRestoresOther, ProcOK, ProcType
    <3>2. proc'.dog = "off"
      BY <1>5 DEF Gone, Down
    <3>3. UNCHANGED <<live, prev, st>>
      BY <2>3, <3>1, <3>2 DEF DogRestoresOther, bins
    <3> QED BY <1>3, <1>5, <3>3, GoneSame
  <2> QED BY <2>1, <2>2, <2>3
<1>6. CASE ~Gone /\ ~DogCloses
  <2>1. /\ st'.pending = st.pending
        /\ proc'.running = Running /\ proc'.up = proc.up /\ proc'.bin = proc.bin
        /\ proc'.conf = proc.conf /\ proc'.status = proc.status /\ proc'.att = proc.att
        /\ proc'.checking = proc.checking /\ proc'.seen = proc.seen
    BY <1>6, TypedParts DEF Dog, DogWakes, DogReads, DogRestores, DogRestoresOther, DogMarksBad,
       ProcOK, ProcType, StOK
  <2>2. Looks'
    BY <1>1, <2>1, NoneIsNoVersion DEF Kernel, Looks, IsNewer
  <2>3. \/ proc.dog \in {"watching"} /\ proc'.dog \in {"off", "fired"}
        \/ /\ proc.dog = "fired" /\ proc'.dog = "wheeld"
           /\ Trial # None /\ proc'.suspect = Trial.to
        \/ /\ proc'.dog \in {"wheel", "empty", "mark", "close"} /\ proc'.suspect = proc.suspect
           /\ proc.dog \in {"wheeld", "wheel", "empty", "mark"}
    BY <1>6, TypedParts DEF Dog, DogWakes, DogReads, DogRestores, DogRestoresOther, DogMarksBad,
       ProcOK, ProcType
  <2>4. Trial # None => Trial.to \in Versions
    BY TypedParts DEF StOK, Marker
  <2>5. Suspects'
    BY <1>1, <1>2, <2>1, <2>3, <2>4 DEF Kernel, Suspects
  <2>6. ASSUME Order
        PROVE  Order'
    <3>1. proc.up \in Home
      BY <1>1, <2>6 DEF Order, OnProbation
    <3>2. /\ Disk'
          /\ proc'.dog \in {"wheel", "empty", "mark", "close"} => Installed' \in proven
          /\ proc'.dog \in {"off", "watching", "fired", "wheeld"} =>
               Installed' = Installed /\ proc.dog \in {"off", "watching", "fired", "wheeld"}
      <4>1. CASE DogRestores
        <5>1. proc'.dog \in {"wheel", "empty"}
          BY <4>1, TypedParts DEF DogRestores, ProcOK, ProcType
        <5> QED BY <1>3, <2>1, <2>6, <4>1, <5>1, RestoreDaemon DEF DogRestores, Order
      <4>2. CASE DogRestoresOther
        <5>1. proc.dog \in {"wheel", "empty"} /\ Restore("wheel") /\ proc'.dog = "mark"
          BY <1>6, <4>2, TypedParts DEF DogRestoresOther, ProcOK, ProcType
        <5> QED BY <1>3, <2>1, <2>6, <5>1, RestoreOther DEF Order, OnProbation
      <4>3. CASE DogWakes \/ DogReads \/ DogMarksBad
        <5>1. UNCHANGED <<live, prev>>
          BY <4>3 DEF DogWakes, DogReads, DogMarksBad, bins
        <5>2. \/ proc'.dog \in {"off", "fired", "wheeld"} /\ proc.dog \in {"watching", "fired"}
              \/ proc'.dog = "close" /\ proc.dog = "mark"
          BY <1>6, <4>3, TypedParts DEF DogWakes, DogReads, DogMarksBad, ProcOK, ProcType
        <5> QED BY <1>3, <2>1, <2>6, <5>1, <5>2 DEF Order, Disk, Backed, OnProbation
      <4> QED BY <1>6, <4>1, <4>2, <4>3 DEF Dog
    <3>3. OnProbation'
      BY <1>3, <2>1, <2>6, <3>1, <3>2 DEF Order, OnProbation
    <3>4. InPlace'
      BY <1>2, <2>1, <2>6, <3>1, <3>2 DEF Order, InPlace, Home, Serving, Installing
    <3> QED BY <3>2, <3>3, <3>4 DEF Order
  <2> QED BY <1>3, <2>2, <2>5, <2>6 DEF Kernel
<1> QED BY <1>4, <1>5, <1>6

LEMMA BootKeepsKernel ==
  ASSUME TypeOK, Kernel, Boot
  PROVE  Kernel'
<1> DEFINE booted == [Down EXCEPT !.running = live["wheeld"], !.up = "idle"]
<1>1. Installed \in Versions /\ Installed # None
  BY NoneIsNoVersion, TypedParts DEF BinsOK, Binaries
<1>2. UNCHANGED <<live, prev, proven>>
  BY DEF Boot, Recovers, bins
<1>3. /\ proc'.running = Installed /\ proc'.up = IF Decision = "rollback" THEN "restore" ELSE "idle"
      /\ proc'.bin = "wheeld" /\ proc'.att = Unknown /\ proc'.status = Unknown
      /\ proc'.checking = "no"
      /\ proc'.conf = IF Decision = "probation" THEN "asking" ELSE "off"
      /\ proc'.dog = IF Decision = "probation" THEN "watching" ELSE "off"
  <2>1. CASE Decision = "rollback"
    <3>1. proc' = [booted EXCEPT !.up = "restore"]
      BY <2>1 DEF Boot, BootsAs
    <3> QED BY <2>1, <3>1 DEF Down
  <2>2. CASE Decision = "probation"
    <3>1. proc' = [booted EXCEPT !.conf = "asking", !.dog = "watching"]
      BY <2>2 DEF Boot, BootsAs
    <3> QED BY <2>2, <3>1 DEF Down
  <2>3. CASE Decision \in {"normal", "interrupted"}
    <3>1. proc' = booted
      BY <2>3 DEF Boot, BootsAs
    <3> QED BY <2>3, <3>1 DEF Down
  <2> QED BY <2>1, <2>2, <2>3, DecisionNeedsAMarker
<1>4. Unknown \notin Candidate
  BY UpdaterAssumption
<1>5. Looks'
  BY <1>1, <1>3, <1>4 DEF Looks, IsNewer
<1>6. overtaken' = (overtaken /\ ~(Trial' = None /\ Sound))
  BY DEF Boot, Recovers
<1>7. CASE Decision = "rollback"
  <2>1. Trial # None /\ Trial.to = Installed /\ st' = st
    BY <1>7, DecisionNeedsAMarker DEF Boot, BootsAs
  <2>2. Suspects'
    BY <1>3, <1>7, <2>1 DEF Suspects
  <2>3. ASSUME Order
        PROVE  Order'
    <3>1. Disk'
      BY <1>2, <2>1, <2>3 DEF Order, Disk, Backed
    <3>2. OnProbation'
      BY <1>1, <1>3, <1>7, <2>1 DEF OnProbation
    <3>3. InPlace'
      BY <1>2, <1>3, <1>7, <2>1 DEF InPlace, Home, Serving, Installing, RollingBack
    <3> QED BY <3>1, <3>2, <3>3 DEF Order
  <2> QED BY <1>5, <1>6, <2>1, <2>2, <2>3 DEF Kernel
<1>8. CASE Decision = "probation"
  <2>1. Trial # None /\ Trial.to = Installed
    BY <1>8, DecisionNeedsAMarker
  <2>2. Trial \in Marker /\ Trial' = [Trial EXCEPT !.attempts = @ + 1]
    BY <1>8, <2>1, TypedParts DEF Boot, BootsAs, StOK
  <2>3. Trial' # None /\ Trial'.to = Trial.to /\ Trial'.from = Trial.from
    <3>1. Trial.attempts = 0
      BY <1>8, <2>2, DecisionNeedsAMarker DEF Marker
    <3>2. Trial' \in Marker
      BY <2>2, <3>1 DEF Marker
    <3> QED BY <2>2, <3>2, UpdaterAssumption DEF Marker
  <2>4. Suspects'
    BY <1>3, <1>8, <2>1, <2>3 DEF Suspects, RollingBack
  <2>5. ASSUME Order
        PROVE  Order'
    <3>1. Disk'
      BY <1>2, <2>1, <2>3, <2>5 DEF Order, Disk, Backed
    <3>2. OnProbation'
      BY <1>3, <1>8, <2>1, <2>3, <1>2 DEF OnProbation, Home, Serving
    <3>3. InPlace'
      BY <1>2, <1>3, <1>8 DEF InPlace, Home, Serving, Installing, RollingBack
    <3> QED BY <3>1, <3>2, <3>3 DEF Order
  <2> QED BY <1>5, <1>6, <2>3, <2>4, <2>5 DEF Kernel
<1>9. CASE Decision \in {"normal", "interrupted"}
  <2>1. Trial' = None
    BY <1>9, TypedParts DEF Boot, BootsAs, StOK
  <2>2. Suspects'
    BY <1>3, <1>9, <2>1 DEF Suspects, RollingBack
  <2>3. ASSUME Order \/ Sound
        PROVE  Order'
    <3>1. Installed \in proven /\ (Kept # None => Kept \in proven /\ Kept <= Installed)
      BY <1>9, <2>3, DecisionNeedsAMarker DEF Order, Disk, Sound
    <3>2. Disk'
      BY <1>2, <2>1, <3>1 DEF Disk, Backed
    <3>3. OnProbation'
      BY <1>2, <1>3, <1>9, <2>1, <3>1 DEF OnProbation
    <3>4. InPlace'
      BY <1>2, <1>3, <1>9 DEF InPlace, Home, Serving, Installing, RollingBack
    <3> QED BY <3>2, <3>3, <3>4 DEF Order
  <2> QED BY <1>5, <1>6, <2>1, <2>2, <2>3 DEF Kernel
<1> QED BY <1>7, <1>8, <1>9, DecisionNeedsAMarker

LEMMA RollBackKeeps ==
  ASSUME TypeOK, Kernel, BootRestore \/ BootMarkBad \/ BootClose
  PROVE  Kernel'
<1>1. Running \in Versions
  BY Alive DEF BootRestore, BootMarkBad, BootClose, Kernel
<1>2. proc.conf = "off" /\ Trial # None /\ Trial.to = Running /\ proc.dog = "off"
  BY DEF BootRestore, BootMarkBad, BootClose, Kernel, Suspects, RollingBack
<1>3. UNCHANGED <<proven, overtaken>>
  BY DEF BootRestore, BootMarkBad, BootClose, Undoes, history
<1>4. CASE BootClose
  <2>1. Order => Installed \in proven
    BY <1>4 DEF BootClose, Order, InPlace, RollingBack
  <2> QED BY <1>3, <1>4, <2>1, CloseKeeps DEF BootClose
<1>5. CASE BootRestore /\ proc.bin = "wheeld" /\ NothingKept
  BY <1>3, <1>5, GoneSame DEF BootRestore, bins
<1>6. CASE BootMarkBad \/ (BootRestore /\ ~(proc.bin = "wheeld" /\ NothingKept))
  <2>1. /\ st'.pending = st.pending
        /\ proc'.running = Running /\ proc'.conf = proc.conf /\ proc'.dog = proc.dog
        /\ proc'.status = proc.status /\ proc'.att = proc.att
        /\ proc'.checking = proc.checking /\ proc'.seen = proc.seen
        /\ proc.up \in RollingBack /\ proc'.up \in RollingBack
        /\ proc'.up = "restore" => proc'.bin = "wheel"
    BY <1>6, TypedParts DEF BootRestore, BootMarkBad, Up, ProcOK, ProcType, StOK, RollingBack
  <2>2. Looks'
    BY <1>1, <2>1, NoneIsNoVersion DEF Kernel, Looks, IsNewer, RollingBack
  <2>3. Suspects'
    BY <1>2, <2>1 DEF Suspects
  <2>4. ASSUME Order
        PROVE  Order'
    <3>1. Disk' /\ Installed' \in proven
      <4>1. CASE BootRestore /\ proc.bin = "wheeld"
        BY <1>3, <1>6, <2>1, <2>4, <4>1, RestoreDaemon DEF BootRestore, BootMarkBad, Order
      <4>2. CASE BootRestore /\ proc.bin = "wheel"
        <5>1. Installed \in proven
          BY <2>4, <4>2 DEF BootRestore, Order, InPlace, RollingBack
        <5> QED BY <1>3, <1>6, <2>1, <2>4, <4>2, <5>1, RestoreOther
           DEF BootRestore, BootMarkBad, Order
      <4>3. CASE BootMarkBad
        BY <1>3, <2>1, <2>4, <4>3 DEF BootMarkBad, bins, Order, Disk, Backed, InPlace, RollingBack
      <4> QED BY <1>6, <4>1, <4>2, <4>3, TypedParts DEF ProcOK, ProcType, Binaries
    <3>2. OnProbation'
      BY <1>2, <2>1 DEF OnProbation
    <3>3. InPlace'
      BY <1>3, <2>1, <3>1 DEF InPlace, Home, Serving, Installing, RollingBack
    <3> QED BY <3>1, <3>2, <3>3 DEF Order
  <2> QED BY <1>3, <2>2, <2>3, <2>4 DEF Kernel
<1> QED BY <1>4, <1>5, <1>6

\* What a marker says when it has just been planted.
LEMMA Planted ==
  ASSUME TypeOK, Kernel, PlantMarker
  PROVE  /\ Running \in Versions /\ Running # None
         /\ proc.up = "mark" /\ proc.att \in Candidate
         /\ proc.att.target \in Versions /\ proc.att.target > Running
         /\ Trial' # None /\ Trial'.from = Running /\ Trial'.to = proc.att.target
<1>1. Running \in Versions /\ Running # None
  BY Alive, NoneIsNoVersion DEF PlantMarker, Kernel
<1>2. proc.up = "mark" /\ proc.att \in Candidate /\ proc.att.target > Running
  BY <1>1 DEF PlantMarker, Kernel, Looks, IsNewer
<1>3. proc.att.target \in Versions /\ proc.by \in Requester
  BY <1>2, TypedParts DEF Candidate, ProcOK, ProcType
<1> DEFINE m == [from |-> Running, to |-> proc.att.target, by |-> proc.by, attempts |-> 0]
<1>4. m \in Marker
  BY <1>1, <1>3 DEF Marker
<1>5. Trial' = m
  BY TypedParts DEF PlantMarker, StOK
<1> QED BY <1>1, <1>2, <1>3, <1>4, <1>5, UpdaterAssumption

LEMMA PlantKeeps ==
  ASSUME TypeOK, Kernel, PlantMarker
  PROVE  Kernel'
<1>1. /\ Running \in Versions /\ Running # None
      /\ proc.up = "mark" /\ proc.att \in Candidate
      /\ proc.att.target \in Versions /\ proc.att.target > Running
      /\ Trial' # None /\ Trial'.from = Running /\ Trial'.to = proc.att.target
  BY Planted
<1>2. /\ UNCHANGED <<live, prev, proven>>
      /\ proc'.running = Running /\ proc'.conf = proc.conf /\ proc'.dog = proc.dog
      /\ proc'.suspect = proc.suspect
      /\ proc'.status = proc.status /\ proc'.att = proc.att
      /\ proc'.checking = proc.checking /\ proc'.seen = proc.seen
      /\ proc'.up = "copy" /\ proc'.bin = "wheeld"
      /\ overtaken' = (overtaken \/ TrialIsOpen)
  BY TypedParts DEF PlantMarker, ProcOK, ProcType, bins
<1>3. Running < proc.att.target /\ Running <= Running /\ Running # proc.att.target
  BY <1>1 DEF Versions
<1>4. Looks'
  BY <1>1, <1>2 DEF Kernel, Looks, IsNewer
<1>5. Suspects'
  BY <1>2 DEF Kernel, Suspects, Home, Serving, RollingBack
<1>6. ASSUME ~overtaken'
      PROVE  Order'
  <2>1. Order /\ Trial = None /\ proc.dog = "off"
    BY <1>2, <1>6 DEF Kernel, TrialIsOpen
  <2>2. /\ proc.conf \in {"off", "done"}
        /\ Running \in proven /\ Installed = Running
    BY <1>1, <2>1, TypedParts DEF Order, InPlace, OnProbation, Home, ProcOK, ProcType
  <2>3. Disk'
    BY <1>1, <1>2, <1>3, <2>1, <2>2 DEF Order, Disk, Backed
  <2>4. OnProbation'
    BY <1>1, <1>2, <2>1, <2>2 DEF OnProbation
  <2>5. InPlace'
    BY <1>1, <1>2, <2>1, <2>2 DEF InPlace, Home, Serving, Installing, RollingBack
  <2> QED BY <2>3, <2>4, <2>5 DEF Order
<1> QED BY <1>4, <1>5, <1>6 DEF Kernel

LEMMA SwapKeeps ==
  ASSUME TypeOK, Kernel, CopyBeside \/ KeepPrevious \/ RenameOver \/ SwapFails \/ Undo
  PROVE  Kernel'
<1>1. Running \in Versions /\ Running # None
  BY Alive, NoneIsNoVersion DEF CopyBeside, KeepPrevious, RenameOver, SwapFails, Undo, Kernel
<1>2. proc.up \in {"copy", "keep", "rename", "undo"} /\ proc.checking # "loop"
  BY <1>1 DEF CopyBeside, KeepPrevious, RenameOver, SwapFails, Undo, Kernel, Looks
<1>3. UNCHANGED <<st, proven, overtaken>>
  BY DEF CopyBeside, KeepPrevious, RenameOver, SwapFails, Undo, Forgets, history
<1>4. proc.bin \in Binaries /\ \A b : b \in Binaries => b \in {"wheeld", "wheel"}
  BY TypedParts DEF ProcOK, ProcType, Binaries
<1>5. ASSUME Order
      PROVE  /\ Trial \in Marker /\ Trial # None
             /\ Trial.from \in Versions /\ Trial.to \in Versions
             /\ Installed \in Versions /\ Kept \in Versions \cup {None}
             /\ \A v \in Versions : v \in Int
             /\ proc.conf \in {"off", "done"} /\ proc.dog = "off"
  <2>1. Trial # None /\ proc.conf \in {"off", "done"} /\ proc.dog = "off"
    BY <1>2, <1>5 DEF Order, InPlace, OnProbation, Home, Serving, Installing
  <2>2. Trial \in Marker
    BY <2>1, TypedParts DEF StOK
  <2> QED BY <2>1, <2>2, TypedParts DEF Marker, BinsOK, Binaries, Versions
<1>6. CASE RenameOver /\ proc.bin = "wheel"
  <2>1. Installed' = Installed /\ Kept' = Kept
    BY <1>6, TypedParts DEF RenameOver, BinsOK, Binaries
  <2>2. overtaken' \/ Disk'
    BY <1>3, <2>1 DEF Kernel, Order, Disk, Backed
  <2> QED BY <1>6, <2>2, GoneKeeps DEF RenameOver
<1>7. CASE ~(RenameOver /\ proc.bin = "wheel")
  <2>1. /\ proc'.running = Running /\ proc'.conf = proc.conf /\ proc'.dog = proc.dog
        /\ proc'.suspect = proc.suspect
        /\ proc'.status = proc.status /\ proc'.att = proc.att
        /\ proc'.checking = proc.checking /\ proc'.seen = proc.seen
    BY <1>7, TypedParts DEF CopyBeside, KeepPrevious, RenameOver, SwapFails, Undo, Up,
       ProcOK, ProcType, bins
  <2>2. /\ proc'.up \in {"copy", "keep", "rename", "undo", "unmark"}
        /\ proc'.up \in {"copy", "keep", "rename"} => proc.up \in {"copy", "keep", "rename"}
    BY <1>7, TypedParts DEF CopyBeside, KeepPrevious, RenameOver, SwapFails, Undo, Up,
       ProcOK, ProcType
  <2>3. Looks'
    BY <1>1, <1>2, <2>1, <2>2 DEF Kernel, Looks, IsNewer
  <2>4. Suspects'
    BY <1>3, <2>1, <2>2 DEF Kernel, Suspects, Home, Serving, RollingBack
  <2>5. ASSUME Order
        PROVE  Order'
    <3>1. OnProbation'
      BY <1>3, <1>5, <2>1, <2>5 DEF Order, OnProbation
    <3>2. CASE CopyBeside
      <4>1. /\ proc.up = "copy" /\ proc'.up = "keep" /\ proc'.bin = proc.bin
            /\ Installed' = Installed
            /\ Kept' = IF proc.bin = "wheeld" THEN None ELSE Kept
        BY <3>2, <1>4, TypedParts DEF CopyBeside, Up, ProcOK, ProcType, BinsOK, Binaries
      <4>2. /\ Trial.from = Running /\ Trial.to = proc.att.target
            /\ proc.bin = "wheeld" => Installed = Running
        BY <2>5, <4>1 DEF Order, InPlace
      <4>3. Disk'
        BY <1>3, <1>5, <2>5, <4>1, <4>2 DEF Order, Disk, Backed
      <4>4. InPlace'
        BY <1>3, <1>5, <2>1, <2>5, <4>1, <4>2 DEF InPlace, Home, Serving, Installing, RollingBack
      <4> QED BY <3>1, <4>3, <4>4 DEF Order
    <3>3. CASE KeepPrevious
      <4>1. /\ proc.up = "keep" /\ proc'.up = "rename" /\ proc'.bin = proc.bin
            /\ Installed' = Installed
            /\ Kept' = IF proc.bin = "wheeld" THEN Installed ELSE Kept
        BY <3>3, <1>4, TypedParts DEF KeepPrevious, Up, ProcOK, ProcType, BinsOK, Binaries
      <4>2. /\ Trial.from = Running /\ Trial.to = proc.att.target
            /\ proc.bin = "wheeld" => Installed = Running
        BY <2>5, <4>1 DEF Order, InPlace
      <4>3. Disk'
        BY <1>3, <1>5, <2>5, <4>1, <4>2 DEF Order, Disk, Backed
      <4>4. InPlace'
        BY <1>3, <1>5, <2>1, <2>5, <4>1, <4>2 DEF InPlace, Home, Serving, Installing, RollingBack
      <4> QED BY <3>1, <4>3, <4>4 DEF Order
    <3>4. CASE RenameOver
      <4>1. /\ proc.up = "rename" /\ proc'.up = "copy" /\ proc.bin = "wheeld"
            /\ proc'.bin = "wheel" /\ Installed' = proc.att.target /\ Kept' = Kept
        BY <3>4, <1>4, <1>7, TypedParts DEF RenameOver, ProcOK, ProcType, BinsOK, Binaries
      <4>2. /\ Trial.from = Running /\ Trial.to = proc.att.target
            /\ Installed = Running /\ Kept = Running
        BY <2>5, <4>1 DEF Order, InPlace
      <4>3. Disk'
        BY <1>3, <1>5, <2>5, <4>1, <4>2 DEF Order, Disk, Backed
      <4>4. InPlace'
        BY <1>3, <1>5, <2>1, <2>5, <4>1, <4>2 DEF InPlace, Home, Serving, Installing, RollingBack
      <4> QED BY <3>1, <4>3, <4>4 DEF Order
    <3>5. CASE SwapFails
      <4>1. /\ proc'.up = "undo" /\ proc'.bin = "wheeld" /\ UNCHANGED <<live, prev>>
        BY <3>5, TypedParts DEF SwapFails, ProcOK, ProcType, bins
      <4>2. Disk'
        BY <1>3, <2>5, <4>1 DEF Order, Disk, Backed
      <4>3. InPlace'
        BY <1>3, <1>5, <2>1, <2>5, <4>1 DEF InPlace, Home, Serving, Installing, RollingBack
      <4> QED BY <3>1, <4>2, <4>3 DEF Order
    <3>6. CASE Undo
      <4>1. /\ proc.up = "undo" /\ Restore(proc.bin)
            /\ \/ proc.bin = "wheeld" /\ proc'.up = "undo" /\ proc'.bin = "wheel"
               \/ proc.bin = "wheel" /\ proc'.up = "unmark"
        BY <3>6, <1>4, TypedParts DEF Undo, ProcOK, ProcType
      <4>2. Disk' /\ Installed' \in proven
        <5>1. CASE proc.bin = "wheeld"
          BY <1>3, <2>5, <4>1, <5>1, RestoreDaemon DEF Order
        <5>2. CASE proc.bin = "wheel"
          BY <1>3, <2>5, <4>1, <5>2, RestoreOther DEF Order, InPlace
        <5> QED BY <4>1, <5>1, <5>2
      <4>3. InPlace'
        BY <1>3, <1>5, <2>1, <2>5, <4>1, <4>2 DEF InPlace, Home, Serving, Installing, RollingBack
      <4> QED BY <3>1, <4>2, <4>3 DEF Order
    <3> QED BY <3>2, <3>3, <3>4, <3>5, <3>6
  <2> QED BY <1>3, <2>3, <2>4, <2>5 DEF Kernel
<1> QED BY <1>6, <1>7

LEMMA UnmarkKeeps ==
  ASSUME TypeOK, Kernel, Unmark
  PROVE  Kernel'
<1>1. Order => Installed \in proven
  BY DEF Unmark, Order, InPlace
<1> QED BY <1>1, CloseKeeps DEF Unmark, Forgets

LEMMA NextKeeps ==
  ASSUME TypeOK, Kernel, [Next]_vars
  PROVE  Kernel'
<1>1. CASE BootSteps
  BY <1>1, BootKeepsKernel, RollBackKeeps DEF BootSteps
<1>2. CASE Shutdown \/ Install \/ SwapFails
  BY <1>2, ShutdownKeeps, PlantKeeps, SwapKeeps, UnmarkKeeps DEF Install
<1>3. CASE Asking
  <2>1. UNCHANGED <<live, prev, proven, overtaken, proc>> /\ st'.pending = st.pending
    BY <1>3, TypedParts DEF Asking, AgentAsks, WindowPasses, bins, history, StOK
  <2> QED BY <2>1, StandsKeeps
<1>4. CASE (\E e \in Engines : Turns(e)) \/ World \/ UNCHANGED vars
  <2>1. UNCHANGED <<bins, st, proc, history>>
    <3>1. ASSUME NEW e \in Engines, Turns(e)
          PROVE  UNCHANGED <<bins, st, proc, history>>
      BY <3>1, TurnsLeave
    <3>2. CASE World \/ UNCHANGED vars
      BY <3>2 DEF World, Push, Checked, vars
    <3> QED BY <1>4, <3>1, <3>2
  <2>2. UNCHANGED <<live, prev, proven, overtaken, proc>> /\ st'.pending = st.pending
    BY <2>1 DEF bins, history
  <2> QED BY <2>2, StandsKeeps
<1>5. CASE Crash
  BY <1>5, GoneSame DEF Crash, Forgets, bins
<1> QED BY <1>1, <1>2, <1>3, <1>4, <1>5, AttemptKeeps, ProbationKeeps, DogKeeps, LookingKeeps
        DEF Next

LEMMA InitKernel == Init => Kernel
<1> SUFFICES ASSUME Init PROVE Kernel
  OBVIOUS
<1>1. proc.running = None /\ proc.up = "down" /\ proc.conf = "off" /\ proc.dog = "off"
      /\ proc = Down
  BY DEF Init, Down
<1>2. Installed \in proven /\ Kept = None /\ Trial = None
  BY DEF Init, Binaries
<1>3. Looks
  BY <1>1 DEF Looks
<1>4. Suspects
  BY <1>1 DEF Suspects, RollingBack
<1>5. Disk
  BY <1>2 DEF Disk, Backed
<1>6. OnProbation
  BY <1>1, <1>2 DEF OnProbation
<1>7. InPlace
  BY <1>1 DEF InPlace, Home, Serving, Installing, RollingBack
<1> QED BY <1>3, <1>4, <1>5, <1>6, <1>7 DEF Kernel, Order

\* Every variable keeps its type.
THEOREM UpdaterTypes == Spec => []TypeOK
<1>1. TypeOK /\ Kernel /\ [Next]_vars => (TypeOK /\ Kernel)'
  BY NextTyped, NextKeeps
<1>2. Init => TypeOK /\ Kernel
  BY InitTyped, InitKernel
<1> QED BY <1>1, <1>2, PTL DEF Spec

\* While an update is installed and unproven, the daemon it replaced is the
\* one kept beside it: rollback (driver.rs) restores the right build, from a
\* boot or from the watchdog, whatever crashed or failed before, unless an
\* update was installed over one that was still on trial.
THEOREM ARollbackIsAlwaysPossible == Spec => []RollbackPossible
<1>1. TypeOK /\ Kernel /\ [Next]_vars => (TypeOK /\ Kernel)'
  BY NextTyped, NextKeeps
<1>2. Init => TypeOK /\ Kernel
  BY InitTyped, InitKernel
<1>3. Kernel => RollbackPossible
  BY DEF Kernel, Order, Disk, Backed, RollbackPossible
<1> QED BY <1>1, <1>2, <1>3, PTL DEF Spec

-----------------------------------------------------------------------------
(* The promise: each step begins a trial, proves its build, ends it with a  *)
(* proven build in place, or is none of its business; or it is part of an   *)
(* update that has overtaken a trial.                                       *)

\* Nothing the promise speaks of.
Aside == UNCHANGED <<current, candidate, proven>>

LEMMA NoTrialStep ==
  ASSUME UNCHANGED <<live, proven>>, st'.pending = st.pending
  PROVE  Aside
BY DEF Aside, current, candidate

LEMMA OnTrialStep ==
  ASSUME Trial # None, st'.pending = st.pending, UNCHANGED proven
  PROVE  Aside
BY DEF Aside, current, candidate

LEMMA EndStep ==
  ASSUME st'.pending = None, Installed' \in proven, UNCHANGED proven
  PROVE  Promise!End
BY DEF Promise!End, current, candidate

LEMMA ClosesEnd ==
  ASSUME TypeOK, CloseRolledBack, UNCHANGED proven, Installed \in proven
  PROVE  Promise!End
<1>1. st'.pending = None /\ Installed' = Installed
  BY TypedParts DEF CloseRolledBack, StOK, bins
<1> QED BY <1>1, EndStep

LEMMA BootImplements ==
  ASSUME TypeOK, Order, Boot
  PROVE  Aside \/ Promise!End
<1>1. UNCHANGED <<live, proven>>
  BY DEF Boot, Recovers, bins
<1>2. CASE Decision = "rollback"
  BY <1>1, <1>2, NoTrialStep DEF Boot, BootsAs
<1>3. CASE Decision = "probation"
  <2>1. Trial \in Marker /\ Trial.attempts = 0 /\ Trial # None
    BY <1>3, DecisionNeedsAMarker, TypedParts DEF StOK, Marker
  <2>2. Trial' = [Trial EXCEPT !.attempts = @ + 1]
    BY <1>3, TypedParts DEF Boot, BootsAs, StOK
  <2>3. Trial' \in Marker /\ Trial'.to = Trial.to /\ Trial'.from = Trial.from
    BY <2>1, <2>2 DEF Marker
  <2>4. Trial' # None
    BY <2>3, UpdaterAssumption
  <2> QED BY <1>1, <2>1, <2>3, <2>4 DEF Aside, current, candidate
<1>4. CASE Decision \in {"normal", "interrupted"}
  <2>1. st'.pending = None
    BY <1>4, TypedParts DEF Boot, BootsAs, StOK
  <2>2. Installed \in proven
    BY <1>4, DecisionNeedsAMarker DEF Order, Disk
  <2> QED BY <1>1, <2>1, <2>2, EndStep
<1> QED BY <1>2, <1>3, <1>4, DecisionNeedsAMarker

\* A boot on a sound disk, without a trial, brings the promise back.
LEMMA BootEnds ==
  ASSUME TypeOK, Boot, overtaken, ~overtaken'
  PROVE  Promise!End
<1>1. UNCHANGED <<live, proven>> /\ Trial' = None /\ Installed \in proven
  BY DEF Boot, Recovers, Sound, bins
<1> QED BY <1>1, EndStep

LEMMA ProbationImplements ==
  ASSUME TypeOK, Looks, Order, Probation
  PROVE  Aside \/ Promise!Prove \/ Promise!End
<1>1. CASE Answer
  <2>1. Trial # None /\ Trial.to = Running
    BY <1>1 DEF Answer, Order, OnProbation
  <2>2. proven' = proven \cup {Running} /\ UNCHANGED <<live, st>> /\ candidate = Running
    BY <1>1, <2>1 DEF Answer, bins, candidate
  <2>3. Running # None
    BY <1>1, Alive, NoneIsNoVersion DEF Answer
  <2> QED BY <2>1, <2>2, <2>3 DEF Promise!Prove, current, candidate
<1>2. CASE ConfirmRead
  BY <1>2, NoTrialStep DEF ConfirmRead, bins, history
<1>3. CASE ConfirmClose
  <2>1. Trial # None /\ Trial.to = Running /\ Running \in proven
    BY <1>3 DEF ConfirmClose, Order, OnProbation
  <2>2. Installed \in proven
    BY <2>1 DEF Order, Disk
  <2>3. st'.pending = None /\ UNCHANGED <<live, proven>>
    BY <1>3, TypedParts DEF ConfirmClose, StOK, bins, history
  <2> QED BY <2>2, <2>3, EndStep
<1> QED BY <1>1, <1>2, <1>3 DEF Probation

LEMMA DogImplements ==
  ASSUME TypeOK, Order, Dog
  PROVE  Aside \/ Promise!End
<1>1. CASE DogWakes \/ DogReads
  BY <1>1, NoTrialStep DEF DogWakes, DogReads, bins, history
<1>2. CASE DogMarksBad
  BY <1>2, NoTrialStep, TypedParts DEF DogMarksBad, bins, history, StOK
<1>3. CASE DogCloses
  BY <1>3, ClosesEnd DEF DogCloses, Order, OnProbation, history
<1>4. CASE DogRestoresOther
  <2>1. Installed' = Installed /\ UNCHANGED <<st, proven>>
    BY <1>4, RestoreOther DEF DogRestoresOther, Order, Undoes, bins, history
  <2> QED BY <2>1 DEF Aside, current, candidate
<1>5. CASE DogRestores
  <2>1. Installed' \in proven /\ UNCHANGED <<st, proven>>
    BY <1>5, RestoreDaemon DEF DogRestores, Order, Undoes, history
  <2> QED BY <2>1, EndStep, OnTrialStep
<1> QED BY <1>1, <1>2, <1>3, <1>4, <1>5 DEF Dog

LEMMA InstallImplements ==
  ASSUME TypeOK, Kernel, Order, Install \/ SwapFails, ~overtaken'
  PROVE  Aside \/ Promise!End \/ \E v \in Versions : Promise!Try(v)
<1>1. CASE PlantMarker
  <2>1. /\ Running \in Versions /\ Running # None
        /\ proc.up = "mark" /\ proc.att.target \in Versions
        /\ Trial' # None /\ Trial'.from = Running /\ Trial'.to = proc.att.target
    BY <1>1, Planted
  <2>2. Trial = None /\ proc.dog = "off" /\ UNCHANGED <<live, proven>>
    BY <1>1 DEF PlantMarker, TrialIsOpen, bins
  <2>3. Installed = Running
    BY <2>1, <2>2 DEF Order, InPlace, Home
  <2>4. Promise!Try(proc.att.target)
    BY <2>1, <2>2, <2>3 DEF Promise!Try, current, candidate
  <2> QED BY <2>1, <2>4
<1>2. CASE Unmark
  BY <1>2, ClosesEnd DEF Unmark, Forgets, Order, InPlace
<1>3. CASE CopyBeside \/ KeepPrevious \/ RenameOver \/ SwapFails \/ Undo
  <2>1. Trial # None
    BY <1>3 DEF CopyBeside, KeepPrevious, RenameOver, SwapFails, Undo, Order,
       InPlace, Installing
  <2>2. UNCHANGED <<st, proven>>
    BY <1>3 DEF CopyBeside, KeepPrevious, RenameOver, SwapFails, Undo, Forgets, history
  <2> QED BY <2>1, <2>2, OnTrialStep
<1> QED BY <1>1, <1>2, <1>3 DEF Install

\* While nothing has been overtaken.
LEMMA OrderImplements ==
  ASSUME TypeOK, Kernel, Order, [Next]_vars, ~overtaken'
  PROVE  Aside \/ Promise!Prove \/ Promise!End \/ \E v \in Versions : Promise!Try(v)
<1>1. CASE BootSteps
  <2>1. CASE BootRestore \/ BootMarkBad
    <3>1. Trial # None /\ st'.pending = st.pending /\ UNCHANGED proven
      BY <2>1, TypedParts DEF BootRestore, BootMarkBad, Kernel, Suspects, RollingBack, StOK,
         Undoes, history
    <3> QED BY <3>1, OnTrialStep
  <2>2. CASE BootClose
    BY <2>2, ClosesEnd DEF BootClose, Order, InPlace, RollingBack, history
  <2> QED BY <1>1, <2>1, <2>2, BootImplements DEF BootSteps
<1>2. CASE Looking \/ Attempt
  <2>1. UNCHANGED <<live, proven>> /\ st'.pending = st.pending
    BY <1>2, LookingLeaves, AttemptLeaves, TypedParts DEF bins, history
  <2> QED BY <2>1, NoTrialStep
<1>3. CASE Asking \/ Shutdown \/ World \/ Crash \/ UNCHANGED vars
             \/ \E e \in Engines : Turns(e)
  <2>1. UNCHANGED <<live, proven>> /\ st'.pending = st.pending
    <3>1. ASSUME NEW e \in Engines, Turns(e)
          PROVE  UNCHANGED <<live, proven>> /\ st'.pending = st.pending
      BY <3>1, TurnsLeave DEF bins, history
    <3>2. CASE Asking \/ Shutdown \/ World \/ Crash \/ UNCHANGED vars
      BY <3>2, TypedParts DEF Asking, AgentAsks, WindowPasses, Shutdown, World, Push, Checked,
         Crash, Forgets, vars, bins, history, StOK
    <3> QED BY <1>3, <3>1, <3>2
  <2> QED BY <2>1, NoTrialStep
<1>4. CASE Probation \/ Dog \/ Install \/ SwapFails
  BY <1>4, ProbationImplements, DogImplements, InstallImplements DEF Kernel
<1> QED BY <1>1, <1>2, <1>3, <1>4 DEF Next

\* Only an install overtakes a trial, and only a boot recovers from it.
LEMMA Overtaking ==
  ASSUME TypeOK, [Next]_vars
  PROVE  /\ proven \subseteq proven'
         /\ overtaken' = overtaken \/ PlantMarker \/ Boot
<1>1. CASE Boot \/ PlantMarker
  BY <1>1 DEF Boot, Recovers, PlantMarker
<1>2. CASE BootRestore \/ BootMarkBad \/ BootClose \/ Probation \/ Dog
  BY <1>2 DEF BootRestore, BootMarkBad, BootClose, Probation, Answer, ConfirmRead,
     ConfirmClose, Dog, DogWakes, DogReads, DogRestores, DogRestoresOther, DogMarksBad,
     DogCloses, Undoes, history
<1>3. CASE Looking \/ Attempt \/ Asking
  BY <1>3, LookingLeaves, AttemptLeaves, TypedParts DEF Asking, AgentAsks, WindowPasses, history
<1>4. CASE Shutdown \/ CopyBeside \/ KeepPrevious \/ RenameOver \/ SwapFails \/ Undo \/ Unmark
  BY <1>4 DEF Shutdown, CopyBeside, KeepPrevious, RenameOver, SwapFails, Undo, Unmark,
     Forgets, history
<1>5. ASSUME NEW e \in Engines, Turns(e)
      PROVE  UNCHANGED history
  BY <1>5, TurnsLeave
<1>6. CASE World \/ Crash \/ UNCHANGED vars
  BY <1>6 DEF World, Push, Checked, Crash, Forgets, vars, history
<1>7. CASE \E e \in Engines : Turns(e)
  BY <1>5, <1>7 DEF history
<1> QED BY <1>1, <1>2, <1>3, <1>4, <1>6, <1>7 DEF Next, BootSteps, Install

LEMMA NextImplements ==
  ASSUME TypeOK, TypeOK', Kernel, [Next]_vars
  PROVE  Promise!Next \/ UNCHANGED Promise!promiseVars
<1>1. overtaken \in BOOLEAN /\ overtaken' \in BOOLEAN
  BY DEF TypeOK
<1>2. CASE overtaken /\ overtaken'
  BY <1>2, Overtaking DEF Promise!Next, Promise!Unsettled
<1>3. CASE overtaken /\ ~overtaken'
  <2>1. Boot
    BY <1>3, Overtaking DEF PlantMarker
  <2> QED BY <1>3, <2>1, BootEnds DEF Promise!Next, Promise!Recover
<1>4. CASE ~overtaken /\ overtaken'
  <2>1. PlantMarker
    BY <1>4, Overtaking DEF Boot, Recovers
  <2>2. candidate' = proc.att.target /\ proc.att.target \in Versions /\ UNCHANGED proven
    BY <2>1, Planted DEF candidate, PlantMarker
  <2>3. Promise!Overtake(proc.att.target)
    BY <1>4, <2>2 DEF Promise!Overtake
  <2> QED BY <2>2, <2>3 DEF Promise!Next
<1>5. CASE ~overtaken /\ ~overtaken'
  <2>1. Order /\ overtaken' = overtaken
    BY <1>1, <1>5 DEF Kernel
  <2>2. Aside \/ Promise!Prove \/ Promise!End \/ \E v \in Versions : Promise!Try(v)
    BY <1>5, <2>1, OrderImplements
  <2> QED BY <1>5, <2>1, <2>2 DEF Aside, Promise!Next, Promise!InTurn, Promise!promiseVars
<1> QED BY <1>2, <1>3, <1>4, <1>5

\* The updater implements UpdatePromise: whatever crashes, fails or times out,
\* outside a trial the daemon that boots is one that answered /healthz, and
\* no update is tried over one that did not; except for an update that is
\* installed while another is on trial (driver.rs asks no one), and until a
\* boot without a trial finds a proven daemon in place again.
THEOREM TheUpdaterKeepsItsPromise == Spec => PromiseKept
<1>1. TypeOK /\ Kernel /\ [Next]_vars => (TypeOK /\ Kernel)'
  BY NextTyped, NextKeeps
<1>2. Init => TypeOK /\ Kernel
  BY InitTyped, InitKernel
<1>3. Init => Promise!Init
  BY DEF Init, Promise!Init, current, candidate, Binaries
<1>4. TypeOK /\ Kernel /\ [Next]_vars => [Promise!Next]_(Promise!promiseVars)
  BY NextTyped, NextImplements
<1> QED BY <1>1, <1>2, <1>3, <1>4, PTL DEF Spec, PromiseKept, Promise!Spec

\* Where a pause is in force.
Pausing == {"pausing", "drain", "ready"}

\* Every gate against the flag, except of an engine that missed a change of it.
GateOf(e) ==
  /\ board.turn[e] => In(e)
  /\ board.eng[e] = "asked" /\ ~board.missed[e] => (board.mute[e] <=> board.paused)
  /\ proc.up \in {"drain", "ready"} /\ In(e) /\ ~board.missed[e] => board.mute[e]
  /\ proc.up = "ready" /\ board.turn[e] => board.missed[e]
  /\ proc.up \notin Pausing \cup {"resuming"} /\ In(e) /\ board.mute[e] =>
       board.missed[e]

Gates ==
  /\ board.paused <=> proc.up \in Pausing
  /\ \A e \in Engines : GateOf(e)

\* What a check said of a build goes on being so, until a marker is planted.
Vetted(s) ==
  s \in Candidate =>
    /\ s.target \notin st.bad
    /\ s.block = "green" => ci[s.target] = "green"

\* An attempt, and the part of it after its verdict.
Trying == {"build", "pause", "pausing", "drain", "resuming", "ready", "mark"}
Attempting == Trying \cup {"recheck", "judge", "finish"}

Verdicts ==
  /\ proc.up \in Home => Vetted(proc.status) /\ Vetted(proc.att)
  /\ proc.up \in Trying =>
       /\ proc.att.block = "green"
       /\ TouchesCi(Running, proc.att.target) => proc.by = "operator"

\* An attempt is made for whoever asks, or for nobody.
ForWhom ==
  proc.up \in Attempting =>
    /\ st.request = "none" => proc.by = "auto"
    /\ st.request \in {proc.by, "none"} \/ (st.request = "agent" /\ proc.by = "auto")

\* A build that was rolled back is marked bad, or its rollback is under way.
Remembered ==
  \A v \in undone \ st.bad :
    \/ /\ (proc.up = "restore" /\ proc.bin = "wheel") \/ proc.up = "markbad"
       /\ v = Running
    \/ proc.dog \in {"wheel", "mark"} /\ v = proc.suspect
-----------------------------------------------------------------------------
(* The gates. *)

Elsewhere(u) == u \notin Pausing \cup {"resuming"}

LEMMA GatesStay ==
  ASSUME Gates, board' = board,
         proc'.up = proc.up \/ (Elsewhere(proc.up) /\ Elsewhere(proc'.up))
  PROVE  Gates'
BY DEF Gates, GateOf, Elsewhere, Pausing, In

LEMMA GatesGone == Gone \/ (board' = NoEngine /\ proc'.up = "mark") => Gates'
BY DEF Gone, Gates, GateOf, NoEngine, Nobody, Down, In, Pausing

LEMMA GatesClosed == CloseRolledBack => Gates'
BY GatesGone DEF CloseRolledBack

LEMMA GatesBoot ==
  ASSUME TypeOK, Kernel, Gates, BootSteps
  PROVE  Gates'
<1>1. CASE Boot
  <2>1. proc.up = "down" /\ proc'.up \in {"idle", "restore"} /\ board' = board
    <3>1. proc = Down
      BY <1>1 DEF Boot, Kernel, Looks
    <3>2. proc'.up \in {"idle", "restore"}
      BY <1>1 DEF Boot, BootsAs, Down
    <3> QED BY <1>1, <3>1, <3>2 DEF Boot, Down
  <2> QED BY <2>1, GatesStay DEF Elsewhere, Pausing
<1>2. CASE BootRestore
  <2>1. proc.up = "restore" /\ (Gone \/ (board' = board /\ proc'.up \in {"restore", "markbad"}))
    BY <1>2, TypedParts DEF BootRestore, ProcOK, ProcType
  <2> QED BY <2>1, GatesStay, GatesGone DEF Elsewhere, Pausing
<1>3. CASE BootMarkBad
  <2>1. proc.up = "markbad" /\ board' = board /\ proc'.up = "close"
    BY <1>3, TypedParts DEF BootMarkBad, Up, ProcOK, ProcType
  <2> QED BY <2>1, GatesStay DEF Elsewhere, Pausing
<1>4. CASE BootClose
  BY <1>4, GatesClosed DEF BootClose
<1> QED BY <1>1, <1>2, <1>3, <1>4 DEF BootSteps

LEMMA GatesAside ==
  ASSUME TypeOK, Gates, Probation \/ Dog \/ Asking \/ World \/ Crash \/ UNCHANGED vars
  PROVE  Gates'
<1>1. CASE Probation \/ DogWakes \/ DogRestores \/ DogMarksBad \/ Asking \/ World \/ UNCHANGED vars
  <2>1. board' = board /\ proc'.up = proc.up
    BY <1>1, TypedParts DEF Probation, Answer, ConfirmRead, ConfirmClose, DogWakes, DogRestores,
       DogMarksBad, Asking, AgentAsks, WindowPasses, World, Push, Checked, vars, ProcOK, ProcType
  <2> QED BY <2>1, GatesStay
<1>2. CASE DogReads \/ DogRestoresOther
  <2>1. Gone \/ (board' = board /\ proc'.up = proc.up)
    BY <1>2, TypedParts DEF DogReads, DogRestoresOther, ProcOK, ProcType
  <2> QED BY <2>1, GatesStay, GatesGone
<1>3. CASE DogCloses \/ Crash
  BY <1>3, GatesClosed, GatesGone DEF DogCloses, Crash
<1> QED BY <1>1, <1>2, <1>3 DEF Dog

LEMMA GatesLooking ==
  ASSUME TypeOK, Kernel, Gates, Looking
  PROVE  Gates'
<1>1. ASSUME NEW s \in Status, Answered(s)
      PROVE  Gates'
  <2>1. board' = board /\ proc.checking \in {"poke", "loop"}
    BY <1>1, TypedParts DEF Answered, ProcOK, ProcType
  <2>2. CASE proc.checking = "poke"
    <3>1. proc'.up = proc.up
      BY <1>1, <2>2, TypedParts DEF Answered, ProcOK, ProcType
    <3> QED BY <2>1, <3>1, GatesStay
  <2>3. CASE proc.checking = "loop"
    <3>1. proc.up \in {"check", "recheck"}
      BY <2>3, NoneIsNoVersion DEF Kernel, Looks, Down
    <3>2. proc'.up \in {"due", "judge"}
      BY <1>1, <2>3, TypedParts DEF Answered, ProcOK, ProcType
    <3> QED BY <2>1, <3>1, <3>2, GatesStay DEF Elsewhere, Pausing
  <2> QED BY <2>1, <2>2, <2>3
<1>2. CASE Poke
  <2>1. board' = board /\ proc'.up = proc.up
    BY <1>2, TypedParts DEF Poke, ProcOK, ProcType
  <2> QED BY <2>1, GatesStay
<1>3. CASE Tick
  <2>1. board' = board /\ proc.up = "idle" /\ proc'.up \in {"due", "check"}
    BY <1>3, TypedParts DEF Tick, Up, Fetch, ProcOK, ProcType
  <2> QED BY <2>1, GatesStay DEF Elsewhere, Pausing
<1> QED BY <1>1, <1>2, <1>3 DEF Looking

LEMMA FlagMoves ==
  ASSUME BoardOK, NEW value \in BOOLEAN, SetFlag(value)
  PROVE  /\ board'.paused = value /\ board'.eng = board.eng
         /\ board'.mute = board.mute /\ board'.turn = board.turn
         /\ \A e \in Engines :
              board'.missed[e] = (board.missed[e] \/ board.eng[e] = "asked")
BY DEF SetFlag, BoardOK, BoardType

LEMMA GatesMove ==
  ASSUME BoardOK, NEW shut \in BOOLEAN, SetGates(shut)
  PROVE  /\ board'.paused = board.paused /\ board'.eng = board.eng
         /\ board'.turn = board.turn
         /\ \A e \in Engines :
              /\ board'.mute[e] = IF In(e) THEN shut ELSE board.mute[e]
              /\ board'.missed[e] = (~In(e) /\ board.missed[e])
BY DEF SetGates, BoardOK, BoardType

LEMMA GatesAttempt ==
  ASSUME TypeOK, Gates, Attempt
  PROVE  Gates'
<1>0. BoardOK
  BY TypedParts
<1>1. CASE Due \/ Judge \/ Build \/ Finish
  <2>1. board' = board /\ proc.up \in {"due", "judge", "build", "finish"}
    BY <1>1 DEF Due, Judge, Build, Finish
  <2>2. proc'.up \in {"idle", "recheck", "judge", "build", "pause", "finish"}
    BY <1>1, TypedParts DEF Due, Judge, Build, Finish, Begins, Fetch, Ends, Up, ProcOK, ProcType
  <2> QED BY <2>1, <2>2, GatesStay DEF Elsewhere, Pausing
<1>2. CASE RaiseFlag
  <2>1. proc.up = "pause" /\ proc'.up = "pausing" /\ SetFlag(TRUE)
    BY <1>2, TypedParts DEF RaiseFlag, Up, ProcOK, ProcType
  <2> QED BY <1>0, <2>1, FlagMoves DEF Gates, GateOf, In, Pausing
<1>3. CASE LowerFlag
  <2>1. proc.up = "drain" /\ proc'.up = "resuming" /\ SetFlag(FALSE)
    BY <1>3, TypedParts DEF LowerFlag, Up, ProcOK, ProcType
  <2> QED BY <1>0, <2>1, FlagMoves DEF Gates, GateOf, In, Pausing
<1>4. CASE ShutGates
  <2>1. proc.up = "pausing" /\ proc'.up = "drain" /\ SetGates(TRUE)
    BY <1>4, TypedParts DEF ShutGates, Up, ProcOK, ProcType
  <2> QED BY <1>0, <2>1, GatesMove DEF Gates, GateOf, In, Pausing
<1>5. CASE OpenGates
  <2>1. proc.up = "resuming" /\ proc'.up = "finish" /\ SetGates(FALSE)
    BY <1>5, TypedParts DEF OpenGates, Ends, ProcOK, ProcType
  <2> QED BY <1>0, <2>1, GatesMove DEF Gates, GateOf, In, Pausing
<1>6. CASE Quiet
  <2>1. proc.up = "drain" /\ proc'.up = "ready" /\ board' = board /\ Busy = {}
    BY <1>6, TypedParts DEF Quiet, Up, ProcOK, ProcType
  <2> QED BY <2>1 DEF Gates, GateOf, In, Pausing, Busy
<1> QED BY <1>1, <1>2, <1>3, <1>4, <1>5, <1>6 DEF Attempt

LEMMA EngineMoves ==
  ASSUME BoardOK, NEW e \in Engines, NEW place, NEW shut \in BOOLEAN, NEW busy \in BOOLEAN,
             NEW late \in BOOLEAN,
         Engine(e, place, shut, busy, late)
  PROVE  /\ proc' = proc /\ board'.paused = board.paused
         /\ board'.eng[e] = place /\ (board'.mute[e] <=> shut)
         /\ (board'.turn[e] <=> busy) /\ (board'.missed[e] <=> late)
         /\ \A o \in Engines \ {e} :
              /\ board'.eng[o] = board.eng[o] /\ board'.mute[o] = board.mute[o]
              /\ board'.turn[o] = board.turn[o] /\ board'.missed[o] = board.missed[o]
BY DEF Engine, BoardOK, BoardType

LEMMA GatesTurns ==
  ASSUME TypeOK, Gates, NEW e \in Engines, Turns(e)
  PROVE  Gates'
<1>0. BoardOK
  BY TypedParts
<1>7. board.paused \in BOOLEAN /\ board.mute[e] \in BOOLEAN /\ board.missed[e] \in BOOLEAN
  BY <1>0 DEF BoardOK, BoardType
<1>1. ASSUME NEW place, NEW shut \in BOOLEAN, NEW busy \in BOOLEAN,
             NEW late \in BOOLEAN, Engine(e, place, shut, busy, late),
             GateOf(e)'
      PROVE  Gates'
  <2>1. ASSUME NEW o \in Engines \ {e}
        PROVE  GateOf(o)'
    BY <1>0, <1>1, EngineMoves DEF Gates, GateOf, In
  <2> QED BY <1>0, <1>1, <2>1, EngineMoves DEF Gates
<1>2. CASE Attach(e)
  <2>1. Engine(e, "asked", board.paused, FALSE, FALSE)
    BY <1>2 DEF Attach
  <2>2. GateOf(e)'
    BY <1>0, <2>1 DEF GateOf, In, Engine, BoardOK, BoardType
  <2> QED BY <1>1, <1>7, <2>1, <2>2
<1>3. CASE Listed(e)
  <2>1. board.eng[e] = "asked" /\ Engine(e, "in", board.mute[e], FALSE, board.missed[e])
    BY <1>3 DEF Listed
  <2>2. GateOf(e)'
    BY <1>0, <2>1 DEF Gates, GateOf, In, Pausing, Engine, BoardOK, BoardType
  <2> QED BY <1>1, <1>7, <2>1, <2>2
<1>4. CASE StopEngine(e)
  <2>1. Engine(e, "out", FALSE, FALSE, FALSE)
    BY <1>4 DEF StopEngine
  <2>2. GateOf(e)'
    BY <1>0, <2>1 DEF GateOf, In, Engine, BoardOK, BoardType
  <2> QED BY <1>1, <1>7, <2>1, <2>2
<1>5. CASE StartTurn(e)
  <2>1. In(e) /\ ~board.mute[e] /\ Engine(e, "in", FALSE, TRUE, board.missed[e])
    BY <1>5 DEF StartTurn
  <2>2. GateOf(e)'
    BY <1>0, <2>1 DEF Gates, GateOf, In, Engine, BoardOK, BoardType
  <2> QED BY <1>1, <1>7, <2>1, <2>2
<1>6. CASE EndTurn(e)
  <2>1. board.turn[e] /\ Engine(e, "in", board.mute[e], FALSE, board.missed[e])
    BY <1>6 DEF EndTurn
  <2>2. GateOf(e)'
    BY <1>0, <2>1 DEF Gates, GateOf, In, Engine, BoardOK, BoardType
  <2> QED BY <1>1, <1>7, <2>1, <2>2
<1> QED BY <1>2, <1>3, <1>4, <1>5, <1>6 DEF Turns

LEMMA GatesInstall ==
  ASSUME TypeOK, Kernel, Gates, Shutdown \/ Install \/ SwapFails
  PROVE  Gates'
<1>1. CASE Shutdown
  <2>1. board' = NoEngine /\ proc'.up = "mark"
    BY <1>1, TypedParts DEF Shutdown, Up, ProcOK, ProcType
  <2> QED BY <2>1, GatesGone
<1>2. CASE Unmark
  BY <1>2, GatesClosed DEF Unmark
<1>3. CASE PlantMarker \/ CopyBeside \/ KeepPrevious \/ RenameOver \/ SwapFails \/ Undo
  <2>1. proc.up \in Installing
    BY <1>3 DEF PlantMarker, CopyBeside, KeepPrevious, RenameOver, SwapFails, Undo, Installing
  <2>2. Gone \/ (board' = board /\ proc'.up \in Installing)
    BY <1>3, TypedParts DEF PlantMarker, CopyBeside, KeepPrevious, RenameOver, SwapFails, Undo,
       Installing, Up, ProcOK, ProcType
  <2> QED BY <2>1, <2>2, GatesStay, GatesGone DEF Elsewhere, Pausing, Installing
<1> QED BY <1>1, <1>2, <1>3 DEF Install

LEMMA GatesNext ==
  ASSUME TypeOK, Kernel, Gates, [Next]_vars
  PROVE  Gates'
BY GatesBoot, GatesAside, GatesLooking, GatesAttempt, GatesTurns, GatesInstall DEF Next

LEMMA GatesAtFirst == Init => Gates
BY DEF Init, Gates, GateOf, NoEngine, Nobody, Down, In, Pausing

\* What the drain waits for and what its end undoes, at every step of every update.
THEOREM GatesAlways == Spec => []Gates
<1>1. Init => TypeOK /\ Kernel /\ Gates
  BY InitTyped, InitKernel, GatesAtFirst
<1>2. TypeOK /\ Kernel /\ Gates /\ [Next]_vars => (TypeOK /\ Kernel /\ Gates)'
  BY NextTyped, NextKeeps, GatesNext
<1> QED BY <1>1, <1>2, PTL DEF Spec

\* The shutdown that installs an update meets no turn, except at an engine that missed
\* a change of the flag between the two steps of its attach.
THEOREM AnInstallMeetsNoTurn == Spec => []NoTurnIsKilled
<1>1. Gates => NoTurnIsKilled
  BY DEF Gates, GateOf, NoTurnIsKilled, Pausing
<1> QED BY <1>1, GatesAlways, PTL

\* A drain that gave up leaves every gate open: no engine goes on refusing turns once
\* the pause is lifted, except one that missed the change while it attached.
THEOREM NoGateStaysShut == Spec => []PauseIsLifted
<1>1. Gates => PauseIsLifted
  BY DEF Gates, GateOf, PauseIsLifted, Pausing
<1> QED BY <1>1, GatesAlways, PTL

-----------------------------------------------------------------------------
(* What an attempt goes by, and for whom it is made. *)

LEMMA BadGrows ==
  ASSUME TypeOK, Kernel, [Next]_vars
  PROVE  \/ st'.bad = st.bad
         \/ BootMarkBad /\ Running \in Versions /\ st'.bad = st.bad \cup {Running}
         \/ DogMarksBad /\ proc.suspect \in Versions /\ st'.bad = st.bad \cup {proc.suspect}
<1>1. CASE DogMarksBad
  BY <1>1, TypedParts DEF DogMarksBad, Kernel, Suspects, StOK
<1>2. CASE BootMarkBad
  <2>1. Running \in Versions
    BY <1>2, Alive DEF BootMarkBad, Kernel
  <2>2. st.pending.to = Running
    BY <1>2 DEF BootMarkBad, Kernel, Suspects, RollingBack
  <2> QED BY <1>2, <2>1, <2>2, TypedParts DEF BootMarkBad, StOK
<1>3. CASE Boot \/ BootRestore \/ BootClose
  BY <1>3, TypedParts DEF Boot, BootsAs, BootRestore, BootClose, CloseRolledBack, StOK
<1>4. CASE Probation \/ DogWakes \/ DogReads \/ DogRestores \/ DogRestoresOther \/ DogCloses
  BY <1>4, TypedParts DEF Probation, Answer, ConfirmRead, ConfirmClose, DogWakes, DogReads,
     DogRestores, DogRestoresOther, DogCloses, CloseRolledBack, StOK
<1>5. CASE Asking \/ Crash \/ World \/ UNCHANGED vars
  BY <1>5, TypedParts DEF Asking, AgentAsks, WindowPasses, Crash, World, Push, Checked, vars, StOK
<1>6. CASE Looking \/ Attempt \/ \E e \in Engines : Turns(e)
  BY <1>6, LookingLeaves, AttemptLeaves, TurnsLeave, TypedParts
<1>7. CASE Shutdown \/ Install \/ SwapFails
  BY <1>7, TypedParts DEF Shutdown, Install, PlantMarker, CopyBeside, KeepPrevious, RenameOver,
     Undo, Unmark, CloseRolledBack, SwapFails, StOK
<1> QED BY <1>1, <1>2, <1>3, <1>4, <1>5, <1>6, <1>7 DEF Next, BootSteps, Dog

LEMMA GreenStays ==
  ASSUME TypeOK, [Next]_vars, NEW v \in Versions, ci[v] = "green"
  PROVE  ci'[v] = "green"
<1>1. CASE World
  <2>1. ASSUME NEW u \in Versions, Checked(u)
        PROVE  ci'[v] = "green"
    BY <2>1, TypedParts DEF Checked, WorldOK
  <2> QED BY <1>1, <2>1 DEF World, Push
<1>2. CASE BootSteps \/ Probation \/ Dog \/ Asking \/ Crash \/ UNCHANGED vars
  BY <1>2 DEF BootSteps, Boot, BootRestore, BootMarkBad, BootClose, CloseRolledBack,
     Probation, Answer, ConfirmRead, ConfirmClose, Dog, DogWakes, DogReads, DogRestores,
     DogRestoresOther, DogMarksBad, DogCloses, Asking, AgentAsks, WindowPasses, Crash, vars, world
<1>3. CASE Looking \/ Attempt \/ \E e \in Engines : Turns(e)
  BY <1>3, LookingLeaves, AttemptLeaves, TurnsLeave, TypedParts DEF world
<1>4. CASE Shutdown \/ Install \/ SwapFails
  BY <1>4 DEF Shutdown, Install, PlantMarker, CopyBeside, KeepPrevious, RenameOver, Undo, Unmark,
     CloseRolledBack, SwapFails, world
<1> QED BY <1>1, <1>2, <1>3, <1>4 DEF Next

\* What is vetted is so after the step as well.
VettedThen(s) ==
  s \in Candidate =>
    /\ s.target \notin st'.bad
    /\ s.block = "green" => ci'[s.target] = "green"

LEMMA VettedHolds ==
  ASSUME TypeOK, Kernel, [Next]_vars, NEW s \in Status, Vetted(s),
         proc.up \in Home, IsNewer(s)
  PROVE  VettedThen(s)
<1> SUFFICES ASSUME s \in Candidate
             PROVE  s.target \notin st'.bad /\ (s.block = "green" => ci'[s.target] = "green")
  BY DEF VettedThen
<1>0. \A v \in Versions : v \in Int
  BY DEF Versions
<1>1. s.target \in Versions
  BY DEF Candidate
<1>2. s.target \notin st'.bad
  <2>1. Running \in Versions => Running # s.target
    BY <1>0, <1>1 DEF IsNewer
  <2>2. DogMarksBad => proc.suspect = Running
    BY DEF DogMarksBad, Kernel, Suspects
  <2>3. ~BootMarkBad
    BY DEF BootMarkBad, Home, Serving
  <2> QED BY <2>1, <2>2, <2>3, BadGrows DEF Vetted
<1> QED BY <1>1, <1>2, GreenStays DEF Vetted

LEMMA LookIsVetted ==
  ASSUME TypeOK, NEW v \in Versions
  PROVE  Look(v) \in Status /\ Vetted(Look(v))
<1>1. Look(v) \in Status
  BY LookTyped, TypedParts
<1>2. CASE Look(v) = UpToDate
  BY <1>1, <1>2, UpdaterAssumption DEF Vetted
<1>3. CASE Look(v) # UpToDate
  <2>1. v \notin st.bad /\ Look(v) = [target |-> v, block |-> ci[v]]
    BY <1>3 DEF Look
  <2>2. Look(v).target = v /\ Look(v).block = ci[v]
    BY <2>1
  <2> QED BY <1>1, <2>1, <2>2 DEF Vetted
<1> QED BY <1>1, <1>2, <1>3

\* What a step may do to the answers an attempt goes by.
Answers ==
  /\ proc'.status \in {proc.status, Unknown} \/
     (proc.checking # "no" /\ proc'.status = Look(proc.seen))
  /\ proc'.att \in {proc.att, proc.status, Unknown, proc'.status}
  /\ proc.up \in Home \/ (proc'.status = Unknown /\ proc'.att = Unknown)
     \/ proc'.up \notin Home

LEMMA VettedAnswers ==
  ASSUME TypeOK, Kernel, Verdicts, [Next]_vars, Answers, proc'.up \in Home
  PROVE  Vetted(proc.status)' /\ Vetted(proc.att)'
<1>1. proc.status \in Status /\ proc.att \in Status /\ Unknown \in Status
  BY TypedParts DEF ProcOK, ProcType, Status
<1>2. Vetted(Unknown) /\ IsNewer(Unknown) /\ VettedThen(Unknown)
  BY UpdaterAssumption DEF Vetted, IsNewer, VettedThen
<1>3. CASE proc.up \notin Home
  <2>1. proc'.status = Unknown /\ proc'.att = Unknown
    BY <1>3 DEF Answers
  <2> QED BY <2>1, UpdaterAssumption DEF Vetted
<1>4. CASE proc.up \in Home
  <2>1. Running \in Versions
    BY <1>4, Alive DEF Kernel, Home, Serving
  <2>2. IsNewer(proc.status) /\ IsNewer(proc.att)
    BY <2>1, NoneIsNoVersion DEF Kernel, Looks
  <2>3. VettedThen(proc.status) /\ VettedThen(proc.att)
    BY <1>1, <1>4, <2>2, VettedHolds DEF Verdicts
  <2>4. VettedThen(proc'.status)
    <3>1. CASE proc'.status \in {proc.status, Unknown}
      BY <1>2, <2>3, <3>1
    <3>2. CASE proc.checking # "no" /\ proc'.status = Look(proc.seen)
      <4>1. proc.seen \in Versions
        BY <2>1, <3>2, NoneIsNoVersion DEF Kernel, Looks
      <4>2. IsNewer(Look(proc.seen))
        BY <2>1, <4>1, LookIsNewer DEF Kernel
      <4>3. VettedThen(Look(proc.seen))
        BY <1>4, <4>1, <4>2, LookIsVetted, VettedHolds
      <4> QED BY <3>2, <4>3
    <3> QED BY <3>1, <3>2 DEF Answers
  <2>5. VettedThen(proc'.att)
    BY <1>2, <2>3, <2>4 DEF Answers
  <2> QED BY <2>4, <2>5 DEF Vetted, VettedThen
<1> QED BY <1>3, <1>4

LEMMA VerdictsStay ==
  ASSUME TypeOK, Kernel, Verdicts, [Next]_vars, Answers,
         proc'.up \in Trying =>
           /\ proc.up \in Trying /\ proc'.att = proc.att /\ proc'.by = proc.by
           /\ proc'.running = Running
  PROVE  Verdicts'
<1>1. proc'.up \in Home => Vetted(proc.status)' /\ Vetted(proc.att)'
  BY VettedAnswers
<1> QED BY <1>1 DEF Verdicts, TouchesCi

LEMMA ForWhomStays ==
  ASSUME ForWhom, st'.request = st.request,
         proc'.up \in Attempting => proc.up \in Attempting /\ proc'.by = proc.by
  PROVE  ForWhom'
BY DEF ForWhom

LEMMA BothGone == Gone => Verdicts' /\ ForWhom'
BY UpdaterAssumption DEF Gone, Down, Verdicts, ForWhom, Vetted, Home, Serving, Trying, Attempting

\* A step that leaves the loop and its answers alone.
LEMMA BothStay ==
  ASSUME TypeOK, Kernel, Verdicts, ForWhom, [Next]_vars,
         proc'.up = proc.up, proc'.by = proc.by, proc'.att = proc.att,
         proc'.status = proc.status, proc'.running = Running, st'.request = st.request
  PROVE  Verdicts' /\ ForWhom'
BY VerdictsStay, ForWhomStays DEF Answers

LEMMA BothBoot ==
  ASSUME TypeOK, Kernel, Verdicts, ForWhom, BootSteps
  PROVE  Verdicts' /\ ForWhom'
<1>0. [Next]_vars
  BY DEF Next
<1>1. CASE Boot
  <2>1. proc = Down
    BY <1>1 DEF Boot, Kernel, Looks
  <2>2. proc'.up \in {"idle", "restore"} /\ proc'.status = Unknown /\ proc'.att = Unknown
    BY <1>1 DEF Boot, BootsAs, Down
  <2>3. Verdicts'
    BY <1>0, <2>1, <2>2, VerdictsStay DEF Answers, Trying, Home, Serving
  <2> QED BY <2>2, <2>3 DEF ForWhom, Attempting, Trying
<1>2. CASE BootRestore
  <2>1. CASE Gone
    BY <2>1, BothGone
  <2>2. CASE ~Gone
    <3>1. /\ proc'.up \in {"restore", "markbad"} /\ proc'.by = proc.by /\ proc'.att = proc.att
          /\ proc'.status = proc.status /\ proc'.running = Running /\ st' = st
      BY <1>2, <2>2, TypedParts DEF BootRestore, ProcOK, ProcType
    <3>2. Answers
      BY <3>1 DEF Answers, Home, Serving
    <3> QED BY <1>0, <3>1, <3>2, VerdictsStay, ForWhomStays DEF Trying, Attempting
  <2> QED BY <2>1, <2>2
<1>3. CASE BootMarkBad
  <2>1. /\ proc'.up = "close" /\ proc'.by = proc.by /\ proc'.att = proc.att
        /\ proc'.status = proc.status /\ proc'.running = Running /\ st'.request = st.request
    BY <1>3, TypedParts DEF BootMarkBad, Up, ProcOK, ProcType, StOK
  <2>2. Answers
    BY <2>1 DEF Answers, Home, Serving
  <2> QED BY <1>0, <2>1, <2>2, VerdictsStay, ForWhomStays DEF Trying, Attempting
<1>4. CASE BootClose
  BY <1>4, BothGone DEF BootClose, CloseRolledBack
<1> QED BY <1>1, <1>2, <1>3, <1>4 DEF BootSteps

LEMMA BothAside ==
  ASSUME TypeOK, Kernel, Verdicts, ForWhom,
         Probation \/ Dog \/ Asking \/ World \/ Crash \/ UNCHANGED vars
         \/ (\E e \in Engines : Turns(e))
  PROVE  Verdicts' /\ ForWhom'
<1>0. [Next]_vars
  BY DEF Next
<1>1. CASE Probation \/ DogWakes \/ DogRestores \/ DogMarksBad \/ World \/ UNCHANGED vars
           \/ WindowPasses
  <2>1. /\ proc'.up = proc.up /\ proc'.by = proc.by /\ proc'.att = proc.att
        /\ proc'.status = proc.status /\ proc'.running = Running /\ st'.request = st.request
    BY <1>1, TypedParts DEF Probation, Answer, ConfirmRead, ConfirmClose, DogWakes, DogRestores,
       DogMarksBad, WindowPasses, World, Push, Checked, vars, ProcOK, ProcType, StOK
  <2> QED BY <1>0, <2>1, BothStay
<1>5. CASE \E e \in Engines : Turns(e)
  BY <1>0, <1>5, TurnsLeave, BothStay
<1>2. CASE AgentAsks
  <2>1. proc' = proc /\ st.request = "none" /\ st'.request = "agent"
    BY <1>2, TypedParts DEF AgentAsks, StOK
  <2>2. Verdicts'
    BY <1>0, <2>1, VerdictsStay DEF Answers
  <2> QED BY <2>1, <2>2 DEF ForWhom
<1>3. CASE DogReads \/ DogRestoresOther
  <2>1. CASE Gone
    BY <2>1, BothGone
  <2>2. CASE ~Gone
    <3>1. /\ proc'.up = proc.up /\ proc'.by = proc.by /\ proc'.att = proc.att
          /\ proc'.status = proc.status /\ proc'.running = Running /\ st' = st
      BY <1>3, <2>2, TypedParts DEF DogReads, DogRestoresOther, ProcOK, ProcType
    <3> QED BY <1>0, <3>1, BothStay
  <2> QED BY <2>1, <2>2
<1>4. CASE DogCloses \/ Crash
  BY <1>4, BothGone DEF DogCloses, CloseRolledBack, Crash
<1> QED BY <1>1, <1>2, <1>3, <1>4, <1>5 DEF Dog, Asking

LEMMA BothLooking ==
  ASSUME TypeOK, Kernel, Verdicts, ForWhom, Looking
  PROVE  Verdicts' /\ ForWhom'
<1>0. [Next]_vars
  BY DEF Next
<1>1. ASSUME NEW s \in Status, Answered(s)
      PROVE  Verdicts' /\ ForWhom'
  <2>1. /\ proc.checking \in {"poke", "loop"} /\ st' = st
        /\ proc'.running = Running /\ proc'.by = proc.by /\ proc'.status = s
    BY <1>1, TypedParts DEF Answered, ProcOK, ProcType
  <2>2. s = proc.status \/ (proc.checking # "no" /\ s = Look(proc.seen))
    BY <1>1, <2>1 DEF Answered
  <2>3. CASE proc.checking = "poke"
    <3>1. proc'.up = proc.up /\ proc'.att = proc.att
      BY <1>1, <2>3, TypedParts DEF Answered, ProcOK, ProcType
    <3>2. Answers
      BY <2>1, <2>2, <3>1 DEF Answers
    <3> QED BY <1>0, <2>1, <3>1, <3>2, VerdictsStay, ForWhomStays
  <2>4. CASE proc.checking = "loop"
    <3>1. proc.up \in {"check", "recheck"}
      BY <2>4, NoneIsNoVersion DEF Kernel, Looks, Down
    <3>2. /\ proc'.att \in {proc.att, s}
          /\ proc'.up = IF proc.up = "check" THEN "due" ELSE "judge"
      BY <1>1, <2>4, TypedParts DEF Answered, ProcOK, ProcType
    <3>3. Answers
      BY <2>1, <2>2, <3>1, <3>2 DEF Answers, Home, Serving
    <3> QED BY <1>0, <2>1, <3>1, <3>2, <3>3, VerdictsStay, ForWhomStays DEF Trying, Attempting
  <2> QED BY <2>1, <2>3, <2>4
<1>2. CASE Poke
  <2>1. /\ proc'.up = proc.up /\ proc'.by = proc.by /\ proc'.att = proc.att
        /\ proc'.status = proc.status /\ proc'.running = Running /\ st' = st
    BY <1>2, TypedParts DEF Poke, ProcOK, ProcType
  <2> QED BY <1>0, <2>1, BothStay
<1>3. CASE Tick
  <2>1. /\ proc.up = "idle" /\ proc'.up \in {"due", "check"} /\ proc'.att = proc.att
        /\ proc'.status = proc.status
    BY <1>3, TypedParts DEF Tick, Up, Fetch, ProcOK, ProcType
  <2>2. Verdicts'
    BY <1>0, <2>1, VerdictsStay DEF Answers, Trying, Home, Serving
  <2> QED BY <2>1, <2>2 DEF ForWhom, Attempting, Trying
<1> QED BY <1>1, <1>2, <1>3 DEF Looking

\* The verdict: what goes on from here is green, and keeps the CI definition or
\* is the operator's.
LEMMA BothJudge ==
  ASSUME TypeOK, Kernel, Verdicts, ForWhom, Judge
  PROVE  Verdicts' /\ ForWhom'
<1>0. [Next]_vars
  BY DEF Next, Attempt
<1>1. /\ proc.up = "judge" /\ proc'.by = proc.by /\ proc'.att = proc.att
      /\ proc'.status = proc.status /\ proc'.running = Running
  BY TypedParts DEF Judge, Up, Ends, ProcOK, ProcType
<1>2. proc'.up \in {"idle", "build", "finish"}
  BY TypedParts DEF Judge, Up, Ends, ProcOK, ProcType
<1>3. Vetted(proc.status)' /\ Vetted(proc.att)'
  BY <1>0, <1>1, <1>2, VettedAnswers DEF Answers, Home, Serving
<1>4. proc'.up # "idle" => st' = st
  BY <1>2, TypedParts DEF Judge, Up, ProcOK, ProcType
<1>5. proc'.up = "build" =>
        /\ proc.att \in Candidate /\ proc.att.block = "green"
        /\ TouchesCi(Running, proc.att.target) => proc.by = "operator"
  <2> SUFFICES ASSUME proc'.up = "build"
               PROVE  /\ proc.att \in Candidate /\ proc.att.block = "green"
                      /\ TouchesCi(Running, proc.att.target) => proc.by = "operator"
    OBVIOUS
  <2>1. proc.att \in Candidate
    BY TypedParts DEF Judge, Up, Status, ProcOK, ProcType
  <2>2. proc.att.block # "pending"
    BY <2>1, TypedParts DEF Judge, Up, Ends, ProcOK, ProcType
  <2>3. proc.att.block # "red" /\ ~(ChangesCi(proc.att) /\ proc.by # "operator")
    BY <2>1, <2>2, TypedParts DEF Judge, Up, Ends, ProcOK, ProcType
  <2>4. proc.att \notin {Unknown, UpToDate}
    BY <2>1, UpdaterAssumption
  <2>5. proc.att.block = "green"
    BY <2>1, <2>2, <2>3 DEF Candidate
  <2> QED BY <2>1, <2>3, <2>4, <2>5 DEF ChangesCi
<1>6. Verdicts'
  BY <1>1, <1>2, <1>3, <1>5 DEF Verdicts, Trying, TouchesCi
<1>7. ForWhom'
  BY <1>1, <1>2, <1>4, ForWhomStays DEF ForWhom, Attempting, Trying
<1> QED BY <1>6, <1>7

LEMMA BothAttempt ==
  ASSUME TypeOK, Kernel, Verdicts, ForWhom, Attempt
  PROVE  Verdicts' /\ ForWhom'
<1>0. [Next]_vars
  BY DEF Next
<1>1. CASE Due
  <2>1. proc.up = "due" /\ proc'.att \in {proc.att, proc.status} /\ proc'.status = proc.status
    BY <1>1, TypedParts DEF Due, Begins, Fetch, Up, ProcOK, ProcType
  <2>2. proc'.up \in {"idle", "recheck", "judge"}
    BY <1>1, TypedParts DEF Due, Begins, Fetch, Up, ProcOK, ProcType
  <2>3. Verdicts'
    BY <1>0, <2>1, <2>2, VerdictsStay DEF Answers, Trying, Home, Serving
  <2>4. proc'.up # "idle" => IsDue(Who) /\ proc'.by = Who /\ st' = st
    BY <1>1, TypedParts DEF Due, Begins, Fetch, Up, ProcOK, ProcType
  <2>5. ForWhom'
    BY <2>2, <2>4, TypedParts DEF ForWhom, Attempting, Trying, IsDue, Who, StOK
  <2> QED BY <2>3, <2>5
<1>2. CASE Judge
  BY <1>2, BothJudge
<1>3. CASE Finish
  <2>1. /\ proc.up = "finish" /\ proc'.up = "idle"
        /\ proc'.att = Unknown /\ proc'.status = proc.status
    BY <1>3, TypedParts DEF Finish, ProcOK, ProcType
  <2>2. Verdicts'
    BY <1>0, <2>1, VerdictsStay DEF Answers, Trying, Home, Serving
  <2> QED BY <2>1, <2>2 DEF ForWhom, Attempting, Trying
<1>4. CASE Build \/ RaiseFlag \/ ShutGates \/ Quiet \/ LowerFlag \/ OpenGates
  <2>1. /\ proc'.by = proc.by /\ proc'.att = proc.att /\ proc'.running = Running
        /\ proc'.status = proc.status /\ st'.request = st.request
    BY <1>4, TypedParts DEF Build, RaiseFlag, ShutGates, Quiet, LowerFlag, OpenGates, Up, Ends,
       ProcOK, ProcType
  <2>2. proc.up \in Trying
    BY <1>4 DEF Build, RaiseFlag, ShutGates, Quiet, LowerFlag, OpenGates, Trying
  <2> QED BY <1>0, <2>1, <2>2, VerdictsStay, ForWhomStays
     DEF Answers, Attempting, Trying, Home, Serving
<1> QED BY <1>1, <1>2, <1>3, <1>4 DEF Attempt

LEMMA BothInstall ==
  ASSUME TypeOK, Kernel, Verdicts, ForWhom, Shutdown \/ Install \/ SwapFails
  PROVE  Verdicts' /\ ForWhom'
<1>0. [Next]_vars
  BY DEF Next
<1>1. CASE Shutdown
  <2>1. /\ proc.up = "ready" /\ proc'.by = proc.by /\ proc'.att = proc.att
        /\ proc'.running = Running /\ proc'.status = proc.status /\ st' = st
    BY <1>1, TypedParts DEF Shutdown, Up, ProcOK, ProcType
  <2> QED BY <1>0, <2>1, VerdictsStay, ForWhomStays DEF Answers, Attempting, Trying, Home, Serving
<1>2. CASE Unmark
  BY <1>2, BothGone DEF Unmark, CloseRolledBack
<1>3. CASE PlantMarker \/ CopyBeside \/ KeepPrevious \/ RenameOver \/ SwapFails \/ Undo
  <2>1. CASE Gone
    BY <2>1, BothGone
  <2>2. CASE ~Gone
    <3>1. /\ proc'.up \in Installing \ {"mark"} /\ proc'.att = proc.att
          /\ proc'.status = proc.status
      BY <1>3, <2>2, TypedParts DEF PlantMarker, CopyBeside, KeepPrevious, RenameOver, SwapFails,
         Undo, Installing, Up, ProcOK, ProcType
    <3>2. Verdicts'
      BY <1>0, <3>1, VerdictsStay DEF Answers, Trying, Home, Serving, Installing
    <3> QED BY <3>1, <3>2 DEF ForWhom, Attempting, Trying, Installing
  <2> QED BY <2>1, <2>2
<1> QED BY <1>1, <1>2, <1>3 DEF Install

LEMMA BothNext ==
  ASSUME TypeOK, Kernel, Verdicts, ForWhom, [Next]_vars
  PROVE  Verdicts' /\ ForWhom'
BY BothBoot, BothAside, BothLooking, BothAttempt, BothInstall DEF Next

LEMMA BothAtFirst == Init => Verdicts /\ ForWhom
BY UpdaterAssumption DEF Init, Down, Verdicts, ForWhom, Vetted, Home, Serving, Trying, Attempting

LEMMA AttemptsAreJudged == Spec => [](TypeOK /\ Kernel /\ Verdicts /\ ForWhom)
<1>1. Init => TypeOK /\ Kernel /\ Verdicts /\ ForWhom
  BY InitTyped, InitKernel, BothAtFirst
<1>2. TypeOK /\ Kernel /\ Verdicts /\ ForWhom /\ [Next]_vars
        => (TypeOK /\ Kernel /\ Verdicts /\ ForWhom)'
  BY NextTyped, NextKeeps, BothNext
<1> QED BY <1>1, <1>2, PTL DEF Spec

\* A marker changes by being planted, by counting its one probation, or by
\* being closed.
LEMMA MarkersArePlanted ==
  ASSUME TypeOK, [Next]_vars, st'.pending # st.pending, st'.pending # None,
         st'.pending.attempts = 0
  PROVE  PlantMarker
<1>1. CASE Boot
  <2>1. Trial # None /\ st'.pending = [Trial EXCEPT !.attempts = @ + 1]
    BY <1>1, TypedParts, DecisionNeedsAMarker DEF Boot, BootsAs, StOK
  <2>2. Trial.attempts \in 0 .. 1 /\ st'.pending.attempts = Trial.attempts + 1
    BY <2>1, TypedParts DEF StOK, Marker
  <2> QED BY <2>2
<1>2. CASE BootRestore \/ BootMarkBad \/ BootClose \/ Probation \/ Dog \/ Asking \/ Crash
           \/ World \/ UNCHANGED vars
  BY <1>2, TypedParts DEF BootRestore, BootMarkBad, BootClose, CloseRolledBack, Probation,
     Answer, ConfirmRead, ConfirmClose, Dog, DogWakes, DogReads, DogRestores, DogRestoresOther,
        DogMarksBad,
     DogCloses, Asking, AgentAsks, WindowPasses, Crash, World, Push, Checked, vars, StOK
<1>3. CASE Looking \/ Attempt \/ \E e \in Engines : Turns(e)
  BY <1>3, LookingLeaves, AttemptLeaves, TurnsLeave, TypedParts
<1>4. CASE Shutdown \/ Install \/ SwapFails
  BY <1>4, TypedParts DEF Shutdown, Install, CopyBeside, KeepPrevious, RenameOver,
     Undo, Unmark, CloseRolledBack, SwapFails, StOK
<1> QED BY <1>1, <1>2, <1>3, <1>4 DEF Next, BootSteps

-----------------------------------------------------------------------------
(* What was rolled back. *)

\* No rollback is under way, and every one before is on the bad list.
LEMMA NothingUnderWay ==
  ASSUME Kernel, Remembered,
         ~((proc.up = "restore" /\ proc.bin = "wheel") \/ proc.up = "markbad"),
         proc.dog \notin {"wheel", "mark"}
  PROVE  undone \subseteq st.bad
BY DEF Remembered

LEMMA RememberedThen ==
  ASSUME undone' \subseteq st'.bad
  PROVE  Remembered'
BY DEF Remembered

\* A step that is no part of a rollback.
LEMMA RememberedStays ==
  ASSUME TypeOK, Remembered, undone' = undone, st'.bad = st.bad,
         proc'.dog = proc.dog, proc'.suspect = proc.suspect, proc'.running = Running,
         proc'.bin = proc.bin, proc'.up = proc.up \/ proc.up \notin RollingBack
  PROVE  Remembered'
BY DEF Remembered, RollingBack

LEMMA RememberedBoot ==
  ASSUME TypeOK, Kernel, Remembered, BootSteps
  PROVE  Remembered'
<1>1. CASE Boot
  <2>1. proc.up = "down" /\ proc.dog = "off"
    BY <1>1 DEF Boot, Kernel, Looks, Down
  <2>2. undone \subseteq st.bad
    BY <2>1, NothingUnderWay
  <2>3. undone' = undone /\ st'.bad = st.bad
    BY <1>1, TypedParts DEF Boot, BootsAs, Recovers, StOK
  <2> QED BY <2>2, <2>3, RememberedThen
<1>2. CASE BootRestore
  <2>1. proc.dog = "off" /\ Trial.to = Running /\ st' = st /\ proc.up = "restore"
    BY <1>2 DEF BootRestore, Kernel, Suspects, RollingBack
  <2>2. CASE proc.bin = "wheeld" /\ NothingKept
    <3>1. undone' = undone /\ undone \subseteq st.bad
      BY <1>2, <2>1, <2>2, NothingUnderWay DEF BootRestore, history
    <3> QED BY <2>1, <3>1, RememberedThen
  <2>3. CASE ~(proc.bin = "wheeld" /\ NothingKept)
    <3>1. undone' = undone \cup {Running} /\ proc'.running = Running
      BY <1>2, <2>1, <2>3, TypedParts DEF BootRestore, Undoes, ProcOK, ProcType
    <3>2. (proc'.up = "restore" /\ proc'.bin = "wheel") \/ proc'.up = "markbad"
      BY <1>2, <2>1, <2>3, TypedParts DEF BootRestore, ProcOK, ProcType
    <3>3. \A v \in undone \ st.bad : v = Running
      BY <2>1 DEF Remembered
    <3> QED BY <2>1, <3>1, <3>2, <3>3 DEF Remembered
  <2> QED BY <2>2, <2>3
<1>3. CASE BootMarkBad
  <2>1. proc.dog = "off" /\ Trial.to = Running /\ undone' = undone
    BY <1>3 DEF BootMarkBad, Kernel, Suspects, RollingBack, history
  <2>2. st'.bad = st.bad \cup {Running}
    BY <1>3, <2>1, TypedParts DEF BootMarkBad, StOK
  <2>3. \A v \in undone \ st.bad : v = Running
    BY <2>1 DEF Remembered
  <2> QED BY <2>1, <2>2, <2>3, RememberedThen
<1>4. CASE BootClose
  <2>1. proc.up = "close" /\ proc.dog = "off"
    BY <1>4 DEF BootClose, Kernel, Suspects, RollingBack
  <2>2. undone \subseteq st.bad
    BY <2>1, NothingUnderWay
  <2>3. undone' = undone /\ st'.bad = st.bad
    BY <1>4, TypedParts DEF BootClose, CloseRolledBack, StOK, history
  <2> QED BY <2>2, <2>3, RememberedThen
<1> QED BY <1>1, <1>2, <1>3, <1>4 DEF BootSteps

LEMMA RememberedDog ==
  ASSUME TypeOK, Kernel, Remembered, Dog
  PROVE  Remembered'
<1>1. proc.dog # "off" /\ proc.up \notin RollingBack
  BY DEF Dog, DogWakes, DogReads, DogRestores, DogRestoresOther, DogMarksBad, DogCloses,
     Kernel, Suspects
<1>2. proc.dog \notin {"wheel", "mark"} => undone \subseteq st.bad
  BY <1>1, NothingUnderWay DEF RollingBack
<1>3. \A v \in undone \ st.bad : v = proc.suspect
  BY <1>1 DEF Remembered, RollingBack
<1>4. CASE DogWakes \/ DogReads \/ DogCloses
  <2>1. undone' = undone /\ st'.bad = st.bad /\ proc.dog \notin {"wheel", "mark"}
    BY <1>4, TypedParts DEF DogWakes, DogReads, DogCloses, CloseRolledBack, StOK, history
  <2> QED BY <1>2, <2>1, RememberedThen
<1>5. CASE DogRestores
  <2>1. proc.dog = "wheeld" /\ st' = st
    BY <1>5 DEF DogRestores
  <2>2. CASE prev["wheeld"] = None
    <3>1. undone' = undone
      BY <1>5, <2>2 DEF DogRestores, history
    <3> QED BY <1>2, <2>1, <3>1, RememberedThen
  <2>3. CASE prev["wheeld"] # None
    <3>1. /\ undone' = undone \cup {proc.suspect}
          /\ proc'.dog = "wheel" /\ proc'.suspect = proc.suspect
      BY <1>5, <2>3, TypedParts DEF DogRestores, Undoes, ProcOK, ProcType
    <3> QED BY <1>2, <2>1, <3>1 DEF Remembered
  <2> QED BY <2>2, <2>3
<1>6. CASE DogRestoresOther
  <2>1. st' = st
    BY <1>6 DEF DogRestoresOther
  <2>2. CASE proc.dog = "empty" /\ prev["wheel"] = None
    <3>1. undone' = undone
      BY <1>6, <2>2 DEF DogRestoresOther, history
    <3> QED BY <1>2, <2>1, <2>2, <3>1, RememberedThen
  <2>3. CASE ~(proc.dog = "empty" /\ prev["wheel"] = None)
    <3>1. /\ undone' = undone \cup {proc.suspect}
          /\ proc'.dog = "mark" /\ proc'.suspect = proc.suspect
      BY <1>6, <2>3, TypedParts DEF DogRestoresOther, Undoes, ProcOK, ProcType
    <3> QED BY <1>3, <2>1, <3>1 DEF Remembered
  <2> QED BY <2>2, <2>3
<1>7. CASE DogMarksBad
  <2>1. undone' = undone /\ st'.bad = st.bad \cup {proc.suspect}
    BY <1>7, TypedParts DEF DogMarksBad, StOK, history
  <2> QED BY <1>3, <2>1, RememberedThen
<1> QED BY <1>4, <1>5, <1>6, <1>7 DEF Dog

\* When the process goes, what it had not yet marked is forgotten.
LEMMA RememberedGone ==
  ASSUME Forgets, st'.bad = st.bad
  PROVE  Remembered'
BY RememberedThen DEF Forgets

LEMMA RememberedInstall ==
  ASSUME TypeOK, Remembered, Install \/ SwapFails \/ Shutdown
  PROVE  Remembered'
<1>1. CASE Unmark
  <2>1. st'.bad = st.bad
    BY <1>1, TypedParts DEF Unmark, CloseRolledBack, StOK
  <2> QED BY <1>1, <2>1, RememberedGone DEF Unmark
<1>2. CASE RenameOver /\ proc.bin = "wheel"
  BY <1>2, RememberedGone DEF RenameOver
<1>3. CASE ~(Unmark \/ (RenameOver /\ proc.bin = "wheel"))
  <2>1. proc.up \in Installing \cup {"ready"}
    BY <1>3 DEF Install, PlantMarker, CopyBeside, KeepPrevious, RenameOver, Undo, SwapFails,
       Shutdown, Installing
  <2>2. undone' = undone /\ st'.bad = st.bad
    BY <1>3, TypedParts DEF Install, PlantMarker, CopyBeside, KeepPrevious, RenameOver, Undo,
       SwapFails, Shutdown, StOK, history
  <2>3. proc'.dog = proc.dog /\ proc'.suspect = proc.suspect /\ proc'.running = Running
    BY <1>3, TypedParts DEF Install, PlantMarker, CopyBeside, KeepPrevious, RenameOver, Undo,
       SwapFails, Shutdown, Up, ProcOK, ProcType
  <2>4. proc'.up \in Installing
    BY <1>3, TypedParts DEF Install, PlantMarker, CopyBeside, KeepPrevious, RenameOver, Undo,
       SwapFails, Shutdown, Up, ProcOK, ProcType, Installing
  <2> QED BY <2>1, <2>2, <2>3, <2>4 DEF Remembered, Installing
<1> QED BY <1>1, <1>2, <1>3

LEMMA RememberedNext ==
  ASSUME TypeOK, Kernel, Remembered, [Next]_vars
  PROVE  Remembered'
<1>1. CASE Crash
  BY <1>1, RememberedGone DEF Crash
<1>2. CASE Probation \/ Asking \/ World \/ UNCHANGED vars
  <2>1. /\ undone' = undone /\ st'.bad = st.bad /\ proc'.up = proc.up /\ proc'.bin = proc.bin
        /\ proc'.dog = proc.dog /\ proc'.suspect = proc.suspect /\ proc'.running = Running
    BY <1>2, TypedParts DEF Probation, Answer, ConfirmRead, ConfirmClose, Asking, AgentAsks,
       WindowPasses, World, Push, Checked, vars, history, StOK, ProcOK, ProcType
  <2> QED BY <2>1, RememberedStays
<1>3. CASE \E e \in Engines : Turns(e)
  BY <1>3, TurnsLeave, RememberedStays DEF history
<1>4. CASE Looking \/ Attempt
  <2>1. undone' = undone /\ st'.bad = st.bad
    BY <1>4, LookingLeaves, AttemptLeaves, TypedParts DEF history
  <2>2. /\ proc'.dog = proc.dog /\ proc'.suspect = proc.suspect /\ proc'.running = Running
        /\ (proc'.up = proc.up /\ proc'.bin = proc.bin) \/ proc.up \notin RollingBack
    <3>1. CASE Attempt
      BY <3>1, AttemptMoves, TypedParts DEF SameTrial, Serving, RollingBack
    <3>2. CASE Poke \/ Tick
      BY <3>2, TypedParts DEF Poke, Tick, Up, Fetch, ProcOK, ProcType, RollingBack
    <3>3. ASSUME NEW s \in Status, Answered(s)
          PROVE  /\ proc'.dog = proc.dog /\ proc'.suspect = proc.suspect
                 /\ proc'.running = Running
                 /\ (proc'.up = proc.up /\ proc'.bin = proc.bin) \/ proc.up \notin RollingBack
      <4>1. /\ proc'.dog = proc.dog /\ proc'.suspect = proc.suspect
            /\ proc'.running = Running /\ proc'.bin = proc.bin
            /\ proc.checking = "poke" => proc'.up = proc.up
        BY <3>3, TypedParts DEF Answered, ProcOK, ProcType
      <4>2. proc.checking = "loop" => proc.up \in {"check", "recheck"}
        BY NoneIsNoVersion DEF Kernel, Looks, Down
      <4> QED BY <3>3, <4>1, <4>2, TypedParts DEF Answered, ProcOK, ProcType, RollingBack
    <3> QED BY <1>4, <3>1, <3>2, <3>3 DEF Looking
  <2> QED BY <2>1, <2>2 DEF Remembered, RollingBack
<1> QED BY <1>1, <1>2, <1>3, <1>4, RememberedBoot, RememberedDog, RememberedInstall DEF Next

LEMMA RememberedAlways == Spec => [](TypeOK /\ Kernel /\ Remembered)
<1>1. Init => TypeOK /\ Kernel /\ Remembered
  BY InitTyped, InitKernel DEF Init, Remembered
<1>2. TypeOK /\ Kernel /\ Remembered /\ [Next]_vars => (TypeOK /\ Kernel /\ Remembered)'
  BY NextTyped, NextKeeps, RememberedNext
<1> QED BY <1>1, <1>2, PTL DEF Spec

\* A marker is planted only for a build that is green, is not marked bad and was
\* not rolled back, and one that changes the CI definition only for the
\* operator.  A rollback that a crash cut short before its mark does not count:
\* mark_bad (driver.rs) comes after the renames, and nothing else records it.
THEOREM OnlyGatedBuilds == Spec => OnlyGatedBuildsAreTried
<1> DEFINE p == st'.pending
<1>1. TypeOK /\ Kernel /\ Verdicts /\ Remembered /\ [Next]_vars =>
        [p # st.pending /\ p # None /\ p.attempts = 0 =>
           /\ p.to \notin st.bad \cup undone /\ ci[p.to] = "green"
           /\ TouchesCi(p.from, p.to) => p.by = "operator"]_vars
  <2> SUFFICES ASSUME TypeOK, Kernel, Verdicts, Remembered, [Next]_vars, p # st.pending,
                      p # None, p.attempts = 0
               PROVE  /\ p.to \notin st.bad \cup undone /\ ci[p.to] = "green"
                      /\ TouchesCi(p.from, p.to) => p.by = "operator"
    OBVIOUS
  <2>1. PlantMarker
    BY MarkersArePlanted
  <2>2. p = [from |-> Running, to |-> proc.att.target, by |-> proc.by, attempts |-> 0]
    BY <2>1, TypedParts DEF PlantMarker, StOK
  <2>3. p.from = Running /\ p.to = proc.att.target /\ p.by = proc.by
    BY <2>2
  <2>4. /\ proc.up = "mark" /\ proc.att \in Candidate /\ Running \in Versions
        /\ proc.att.target \in Versions /\ proc.att.target > Running
    BY <2>1, Planted
  <2>5. proc.att.target # Running
    BY <2>4 DEF Versions
  <2>6. proc.att.target \notin st.bad
    BY <2>4 DEF Verdicts, Vetted, Home
  <2>7. proc.dog \in {"wheel", "mark"} => proc.suspect = Running
    BY <2>4 DEF Kernel, Suspects, Home
  <2>8. proc.att.target \notin undone
    BY <2>4, <2>5, <2>6, <2>7 DEF Remembered
  <2> HIDE DEF p
  <2> QED BY <2>3, <2>4, <2>6, <2>8 DEF Verdicts, Vetted, Trying, Home
<1> QED BY <1>1, AttemptsAreJudged, RememberedAlways, PTL DEF Spec, OnlyGatedBuildsAreTried

\* A request goes only with an attempt made for its requester or when there is
\* nothing to update to; an agent's also with an automatic attempt under way.
THEOREM ARequestIsServed == Spec => RequestsAreServed
<1>1. TypeOK /\ ForWhom /\ [Next]_vars =>
        [st.request # "none" /\ st'.request = "none" =>
           \/ st.request = proc.by
           \/ st.request = "agent" /\ proc.by = "auto"
           \/ proc.up = "due" /\ proc.status = UpToDate
           \/ proc.up = "judge" /\ proc.att \in {Unknown, UpToDate}]_vars
  <2> SUFFICES ASSUME TypeOK, ForWhom, [Next]_vars, st.request # "none", st'.request = "none"
               PROVE  \/ st.request = proc.by
                      \/ st.request = "agent" /\ proc.by = "auto"
                      \/ proc.up = "due" /\ proc.status = UpToDate
                      \/ proc.up = "judge" /\ proc.att \in {Unknown, UpToDate}
    OBVIOUS
  <2>1. CASE Due \/ Judge
    BY <2>1, TypedParts DEF Due, Judge, StOK
  <2>2. CASE Finish \/ PlantMarker
    BY <2>2 DEF Finish, PlantMarker, ForWhom, Attempting, Trying
  <2>3. CASE BootSteps \/ Probation \/ Dog \/ Asking \/ Crash \/ UNCHANGED vars
    BY <2>3, TypedParts DEF BootSteps, Boot, BootsAs, BootRestore, BootMarkBad, BootClose,
       CloseRolledBack, Probation, Answer, ConfirmRead, ConfirmClose, Dog, DogWakes, DogReads,
       DogRestores, DogRestoresOther, DogMarksBad, DogCloses, Asking, AgentAsks, WindowPasses,
          Crash, vars, StOK
  <2>4. CASE Build \/ RaiseFlag \/ ShutGates \/ Quiet \/ LowerFlag \/ OpenGates
    BY <2>4 DEF Build, RaiseFlag, ShutGates, Quiet, LowerFlag, OpenGates
  <2>6. CASE Looking
    <3>1. ASSUME NEW s \in Status, Answered(s)
          PROVE  st' = st
      BY <3>1 DEF Answered
    <3> QED BY <2>6, <3>1, TypedParts DEF Looking, Poke, Tick, StOK
  <2>5. CASE Shutdown \/ SwapFails \/ World \/ CopyBeside \/ KeepPrevious \/ RenameOver
             \/ Undo \/ Unmark
    BY <2>5, TypedParts DEF Shutdown, CopyBeside, KeepPrevious, RenameOver, Undo, Unmark,
       CloseRolledBack, SwapFails, World, Push, Checked, StOK
  <2>7. CASE \E e \in Engines : Turns(e)
    BY <2>7, TurnsLeave
  <2> QED BY <2>1, <2>2, <2>3, <2>4, <2>5, <2>6, <2>7 DEF Next, Attempt, Install
<1> QED BY <1>1, AttemptsAreJudged, PTL DEF Spec, RequestsAreServed
====
