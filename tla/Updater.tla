---- MODULE Updater ----
(***************************************************************************)
(* The daemon that updates itself (wheeld/src/update/): its loop takes a   *)
(* request, looks for a build, gates and builds it, brings the board to a  *)
(* quiet point, plants a marker and swaps the binaries; the next boot      *)
(* decides from the marker.  Around the loop run the watchdog thread, the  *)
(* task that asks /healthz, the checks that CLI calls start, engines that  *)
(* start and stop with their turns, and crashes at any step.               *)
(*                                                                         *)
(* The history is kept as what is read of it: the failures the breaker     *)
(* counts.  The fetch interval and the cooldown only delay a tick, which   *)
(* may come at any time here.                                              *)
(***************************************************************************)
EXTENDS Integers, FiniteSets

CONSTANTS
  MaxVersion,               \* commits of origin/main, oldest first
  CiCommits,                \* those that change the CI definition
  Engines,                  \* the engines this daemon runs
  AutoUpdate,               \* WHEEL_AUTO_UPDATE=auto, else prompt
  Breaker,                  \* state.rs BREAKER_FAILURES
  None, Unknown, UpToDate   \* no version or marker; the two plain statuses

Versions == 1 .. MaxVersion
Binaries == {"wheeld", "wheel"}   \* policy.rs BINARIES, in this order
Candidate == [target : Versions, block : {"pending", "green", "red"}]
Status == Candidate \cup {Unknown, UpToDate}
Requester == {"none", "agent", "operator", "auto"}
Marker == [from : Versions, to : Versions, by : Requester, attempts : 0 .. 1]

ASSUME UpdaterAssumption ==
  /\ MaxVersion \in Nat \ {0}
  /\ CiCommits \subseteq Versions
  /\ AutoUpdate \in BOOLEAN
  /\ Breaker \in Nat \ {0}
  /\ None \notin Versions \cup Marker
  /\ None # Unknown /\ None # UpToDate /\ Unknown # UpToDate
  /\ {Unknown, UpToDate} \cap Candidate = {}

VARIABLES
  live, prev,  \* the bin dir: each binary, and the .prev kept beside it
  st,          \* state.json: bad, pending, request, strikes
  proc,        \* the process: its build, its loop, its checks, its probation
  board,       \* the registry's flag; each engine's place, gate and turn
  head, ci,    \* origin/main, and the checks of its commits
  proven,      \* history: the builds that answered their own health check
  undone,      \* history: those rolled back, unless that was cut short
  overtaken    \* history: an update was installed over an open trial

bins == <<live, prev>>
world == <<head, ci>>
history == <<proven, undone, overtaken>>
vars == <<bins, st, proc, board, world, history>>

\* Where the loop stands while the daemon serves, and when it does not.
Serving == {"idle", "check", "due", "recheck", "judge", "build", "pause",
            "pausing", "drain", "resuming", "finish", "ready"}
Installing == {"mark", "copy", "keep", "rename", "undo", "unmark"}
RollingBack == {"restore", "markbad", "close"}

TypeOK ==
  /\ live \in [Binaries -> Versions]
  /\ prev \in [Binaries -> Versions \cup {None}]
  /\ st \in [bad : SUBSET Versions, pending : Marker \cup {None},
             request : {"none", "agent", "operator"}, strikes : 0 .. Breaker]
  /\ proc \in
       [running : Versions \cup {None},
        up : Serving \cup Installing \cup RollingBack \cup {"down"},
        bin : Binaries, by : Requester, att : Status,
        outcome : {"none", "refused", "waiting", "failed", "busy"},
        status : Status, checking : {"no", "loop", "poke"},
        seen : Versions \cup {None},
        conf : {"off", "asking", "proved", "closing", "done"},
        dog : {"off", "watching", "fired", "empty", "mark", "close"} \cup Binaries,
        suspect : Versions \cup {None}]
  /\ board \in
       [paused : BOOLEAN, eng : [Engines -> {"out", "asked", "in"}],
        mute : [Engines -> BOOLEAN], turn : [Engines -> BOOLEAN],
        \* history: the attach overlapped a change of the flag
        missed : [Engines -> BOOLEAN]]
  /\ head \in Versions
  /\ ci \in [Versions -> {"pending", "green", "red"}]
  /\ proven \in SUBSET Versions /\ undone \in SUBSET Versions
  /\ overtaken \in BOOLEAN

Nobody == [e \in Engines |-> FALSE]
Down == [running |-> None, up |-> "down", bin |-> "wheeld", by |-> "none",
         att |-> Unknown, outcome |-> "none", status |-> Unknown,
         checking |-> "no", seen |-> None, conf |-> "off", dog |-> "off",
         suspect |-> None]
NoEngine == [paused |-> FALSE, eng |-> [e \in Engines |-> "out"],
             mute |-> Nobody, turn |-> Nobody, missed |-> Nobody]

Init ==
  /\ live = [b \in Binaries |-> 1] /\ prev = [b \in Binaries |-> None]
  /\ st = [bad |-> {}, pending |-> None, request |-> "none", strikes |-> 0]
  /\ proc = Down /\ board = NoEngine
  /\ head = 1 /\ ci = [v \in Versions |-> IF v = 1 THEN "green" ELSE "pending"]
  /\ proven = {1} /\ undone = {} /\ overtaken = FALSE

-----------------------------------------------------------------------------
TouchesCi(from, to) == \E v \in CiCommits : from < v /\ v <= to
Struck == IF st.strikes < Breaker THEN st.strikes + 1 ELSE st.strikes
In(e) == board.eng[e] = "in"
Busy == {e \in Engines : In(e) /\ board.turn[e]}
Up(p) == proc' = [proc EXCEPT !.up = p]

\* What dies with the process: everything that is not on disk.
Gone == proc' = Down /\ board' = NoEngine

\* A rollback that is cut short before its mark leaves no trace on disk.
Forgets == undone' = undone \cap st.bad /\ UNCHANGED <<proven, overtaken>>

Crash ==
  /\ proc.running # None
  /\ Gone /\ Forgets
  /\ UNCHANGED <<bins, st, world>>

\* rollback, for one binary: its .prev goes back, where there is one.
Restore(b) ==
  /\ live' = [live EXCEPT ![b] = IF prev[b] = None THEN @ ELSE prev[b]]
  /\ prev' = [prev EXCEPT ![b] = None]

Undoes(v) == undone' = undone \cup {v} /\ UNCHANGED <<proven, overtaken>>

NothingKept == \A b \in Binaries : prev[b] = None

\* close, after a rollback: the row counts for the breaker; then the restart.
CloseRolledBack ==
  /\ st' = [st EXCEPT !.pending = None, !.strikes = Struck]
  /\ Gone
  /\ UNCHANGED <<bins, world>>

-----------------------------------------------------------------------------
(* Boot: settle_boot, before anything serves. *)

DecidesLate == \* mutant: a second boot without proof is one more probation
  IF st.pending = None THEN "normal"
  ELSE IF st.pending.to # live["wheeld"] THEN "interrupted"
  ELSE IF st.pending.attempts > 1 THEN "rollback" ELSE "probation"

\* boot::decide: Normal, Interrupted, RollBack or Probation.
Decision ==
  IF st.pending = None THEN "normal"
  ELSE IF st.pending.to # live["wheeld"] THEN "interrupted"
  ELSE IF st.pending.attempts >= 1 THEN "rollback" ELSE "probation"

BootsAs(d) ==
  LET booted == [Down EXCEPT !.running = live["wheeld"], !.up = "idle"]
  IN  CASE d = "rollback" ->
             proc' = [booted EXCEPT !.up = "restore"] /\ UNCHANGED st
        [] d = "probation" ->
             /\ proc' = [booted EXCEPT !.conf = "asking", !.dog = "watching"]
             /\ st' = [st EXCEPT !.pending.attempts = @ + 1]
        [] OTHER -> proc' = booted /\ st' = [st EXCEPT !.pending = None]

\* The installed daemon is proven, and so is what may lie beside it.
Sound ==
  /\ live["wheeld"] \in proven
  /\ prev["wheeld"] # None => prev["wheeld"] \in proven /\ prev["wheeld"] <= live["wheeld"]

\* A boot with no trial and such a disk ends what an overtaken trial began.
Recovers ==
  /\ overtaken' = (overtaken /\ ~(st'.pending = None /\ Sound))
  /\ UNCHANGED <<proven, undone>>

BootKeeps == \* mutant: a build that failed its probation is kept
  /\ proc.running = None
  /\ BootsAs(IF Decision = "rollback" THEN "normal" ELSE Decision)
  /\ Recovers
  /\ UNCHANGED <<bins, board, world>>

Boot ==
  /\ proc.running = None
  /\ BootsAs(Decision)
  /\ Recovers
  /\ UNCHANGED <<bins, board, world>>

\* roll_back at boot: each binary, the bad mark, the close, the restart.  One
\* that finds nothing to restore fails, and the process with it.
BootRestore ==
  /\ proc.up = "restore"
  /\ IF proc.bin = "wheeld" /\ NothingKept
     THEN Gone /\ UNCHANGED <<bins, history>>
     ELSE /\ Restore(proc.bin) /\ Undoes(st.pending.to)
          /\ proc' = IF proc.bin = "wheeld" THEN [proc EXCEPT !.bin = "wheel"]
                     ELSE [proc EXCEPT !.up = "markbad"]
          /\ UNCHANGED board
  /\ UNCHANGED <<st, world>>

BootMarkBad ==
  /\ proc.up = "markbad"
  /\ st' = [st EXCEPT !.bad = @ \cup {st.pending.to}]
  /\ Up("close")
  /\ UNCHANGED <<bins, board, world, history>>

BootClose == proc.up = "close" /\ CloseRolledBack /\ UNCHANGED history

-----------------------------------------------------------------------------
(* Probation: the watchdog thread against the task that asks /healthz. *)

Healthy == proc.conf \in {"proved", "closing", "done"}

\* confirm_healthy: the flag, then confirm reads the marker and closes it.
Answer ==
  /\ proc.conf = "asking" /\ proc.up \in Serving
  /\ proc' = [proc EXCEPT !.conf = "proved"]
  /\ proven' = proven \cup {proc.running}
  /\ UNCHANGED <<bins, st, board, world, undone, overtaken>>

ConfirmRead ==
  /\ proc.conf = "proved"
  /\ proc' = [proc EXCEPT !.conf = IF st.pending = None THEN "done" ELSE "closing"]
  /\ UNCHANGED <<bins, st, board, world, history>>

ConfirmClose ==
  /\ proc.conf = "closing"
  /\ st' = [st EXCEPT !.pending = None]
  /\ proc' = [proc EXCEPT !.conf = "done"]
  /\ UNCHANGED <<bins, board, world, history>>

DogSleeps == FALSE \* mutant: the watchdog never fires

\* watchdog: the last look at the flag decides, whatever is set after it.
DogWakes ==
  /\ proc.dog = "watching"
  /\ proc' = [proc EXCEPT !.dog = IF Healthy THEN "off" ELSE "fired"]
  /\ UNCHANGED <<bins, st, board, world, history>>

\* Then the marker there is, which an install may have planted meanwhile.
DogReads ==
  /\ proc.dog = "fired"
  /\ IF st.pending = None THEN Gone
     ELSE proc' = [proc EXCEPT !.dog = "wheeld", !.suspect = st.pending.to]
          /\ UNCHANGED board
  /\ UNCHANGED <<bins, st, world, history>>

\* roll_back, beside whatever the loop does: one binary and then the other.  One
\* that finds neither kept fails, and the process restarts as it is.
DogRestores ==
  /\ proc.dog = "wheeld"
  /\ Restore("wheeld")
  /\ IF prev["wheeld"] = None
     THEN proc' = [proc EXCEPT !.dog = "empty"] /\ UNCHANGED history
     ELSE proc' = [proc EXCEPT !.dog = "wheel"] /\ Undoes(proc.suspect)
  /\ UNCHANGED <<st, board, world>>

DogRestoresOther ==
  /\ proc.dog \in {"wheel", "empty"}
  /\ IF proc.dog = "empty" /\ prev["wheel"] = None
     THEN Gone /\ UNCHANGED <<bins, history>>
     ELSE /\ Restore("wheel") /\ Undoes(proc.suspect)
          /\ proc' = [proc EXCEPT !.dog = "mark"] /\ UNCHANGED board
  /\ UNCHANGED <<st, world>>

DogMarksBad ==
  /\ proc.dog = "mark"
  /\ st' = [st EXCEPT !.bad = @ \cup {proc.suspect}]
  /\ proc' = [proc EXCEPT !.dog = "close"]
  /\ UNCHANGED <<bins, board, world, history>>

DogCloses == proc.dog = "close" /\ CloseRolledBack /\ UNCHANGED history

-----------------------------------------------------------------------------
(* Requests. *)

StruckOut == st.strikes >= Breaker
ChangesCi(s) == s \notin {Unknown, UpToDate} /\ TouchesCi(proc.running, s.target)

\* request: an agent in its turn asks, and is recorded unless someone was.
AgentAsks ==
  /\ proc.up \in Serving /\ Busy # {}
  /\ proc.status # UpToDate /\ ~StruckOut /\ ~ChangesCi(proc.status)
  /\ st.request = "none"
  /\ st' = [st EXCEPT !.request = "agent"]
  /\ UNCHANGED <<bins, proc, board, world, history>>

\* A day goes by: failures before it no longer count.
WindowPasses ==
  /\ st.strikes > 0
  /\ st' = [st EXCEPT !.strikes = 0]
  /\ UNCHANGED <<bins, proc, board, world, history>>

-----------------------------------------------------------------------------
(* check and look: one at a time, the build fetched first and judged later. *)

ForgetsBad(v) == \* mutant: a build that was rolled back is a candidate again
  IF v <= proc.running THEN UpToDate ELSE [target |-> v, block |-> ci[v]]

Look(v) ==
  IF v <= proc.running \/ v \in st.bad THEN UpToDate
  ELSE [target |-> v, block |-> ci[v]]

\* A CLI call starts a check in the background.
Poke ==
  /\ proc.up \in Serving /\ proc.checking = "no"
  /\ proc' = [proc EXCEPT !.checking = "poke", !.seen = head]
  /\ UNCHANGED <<bins, st, board, world, history>>

Fetch(p) == [p EXCEPT !.checking = "loop", !.seen = head]

\* A tick takes the file `wheeld update` may have left, records it over
\* whoever's request and resets the breaker; then it looks, when a fetch is due
\* and nobody else is at it.
Tick ==
  /\ proc.up = "idle"
  /\ \/ UNCHANGED st
     \/ st' = [st EXCEPT !.request = "operator", !.strikes = 0]
  /\ \/ Up("due")
     \/ proc.checking = "no" /\ proc' = [Fetch(proc) EXCEPT !.up = "check"]
  /\ UNCHANGED <<bins, board, world, history>>

\* The answer is published; a check that failed keeps the last one.
Answered(s) ==
  /\ proc.checking # "no"
  /\ s \in {Look(proc.seen), proc.status}
  /\ LET told == [proc EXCEPT !.status = s, !.checking = "no", !.seen = None]
     IN  proc' = IF proc.checking = "poke" THEN told
                 ELSE IF proc.up = "check" THEN [told EXCEPT !.up = "due"]
                 ELSE [told EXCEPT !.up = "judge", !.att = s]
  /\ UNCHANGED <<bins, st, board, world, history>>

-----------------------------------------------------------------------------
(* An attempt: due, judge, build, pause, drain. *)

AutoFirst == IF AutoUpdate THEN "auto" ELSE st.request \* mutant: requests come second

Who == IF st.request # "none" THEN st.request ELSE IF AutoUpdate THEN "auto" ELSE "none"

IsDue(who) ==
  /\ who # "none" /\ proc.status.block = "green"
  /\ who # "operator" => ~StruckOut /\ ~ChangesCi(proc.status)
  /\ who = "auto" => Busy = {}

\* An attempt checks again, and takes the last answer while another check runs.
Begins(who) ==
  proc' = IF proc.checking = "no"
          THEN [Fetch(proc) EXCEPT !.up = "recheck", !.by = who]
          ELSE [proc EXCEPT !.up = "judge", !.by = who, !.att = proc.status]

Due ==
  /\ proc.up = "due"
  /\ IF proc.status \in {Unknown, UpToDate}
     THEN Up("idle") /\ st' = IF proc.status = Unknown THEN st
                              ELSE [st EXCEPT !.request = "none"]
     ELSE IF IsDue(Who) THEN Begins(Who) /\ UNCHANGED st
     ELSE Up("idle") /\ UNCHANGED st
  /\ UNCHANGED <<bins, board, world, history>>

Ends(o) == proc' = [proc EXCEPT !.up = "finish", !.outcome = o]

Judge ==
  /\ proc.up = "judge"
  /\ IF proc.att \in {Unknown, UpToDate}
     THEN Up("idle") /\ st' = [st EXCEPT !.request = "none"]
     ELSE /\ IF proc.att.block = "pending" THEN Ends("waiting")
             ELSE IF \/ proc.att.block = "red"
                     \/ ChangesCi(proc.att) /\ proc.by # "operator"
             THEN Ends("refused") ELSE Up("build")
          /\ UNCHANGED st
  /\ UNCHANGED <<bins, board, world, history>>

\* build and smoke.
Build ==
  /\ proc.up = "build"
  /\ Up("pause") \/ Ends("failed")
  /\ UNCHANGED <<bins, st, board, world, history>>

\* An engine between its two steps of attach may have seen the other value.
SetFlag(value) ==
  board' = [board EXCEPT !.paused = value,
              !.missed = [e \in Engines |-> @[e] \/ board.eng[e] = "asked"]]

\* Registry::pause: the flag, then the gate of every engine it holds.
RaiseFlag ==
  /\ proc.up = "pause"
  /\ SetFlag(TRUE) /\ Up("pausing")
  /\ UNCHANGED <<bins, st, world, history>>

SetGates(shut) ==
  board' = [board EXCEPT !.mute = [e \in Engines |-> IF In(e) THEN shut ELSE @[e]],
                         !.missed = [e \in Engines |-> ~In(e) /\ @[e]]]

ShutGates ==
  /\ proc.up = "pausing"
  /\ SetGates(TRUE) /\ Up("drain")
  /\ UNCHANGED <<bins, st, world, history>>

Quiet ==
  /\ proc.up = "drain" /\ Busy = {}
  /\ Up("ready")
  /\ UNCHANGED <<bins, st, board, world, history>>

GivesUpMuted == \* mutant: a drain that gives up resumes nobody
  /\ proc.up = "drain" /\ Busy # {}
  /\ Ends("busy")
  /\ UNCHANGED <<bins, st, board, world, history>>

\* The drain window ran out: Registry::resume, the flag and then the gates.
LowerFlag ==
  /\ proc.up = "drain" /\ Busy # {}
  /\ SetFlag(FALSE) /\ Up("resuming")
  /\ UNCHANGED <<bins, st, world, history>>

OpenGates ==
  /\ proc.up = "resuming"
  /\ SetGates(FALSE) /\ Ends("busy")
  /\ UNCHANGED <<bins, st, world, history>>

\* finish: the notification is awaited, then the row and the request.
Finish ==
  /\ proc.up = "finish"
  /\ st' = [st EXCEPT !.strikes = IF proc.outcome = "failed" THEN Struck ELSE @,
                      !.request = IF proc.outcome \in {"busy", "waiting"} THEN @
                                  ELSE "none"]
  /\ proc' = [proc EXCEPT !.up = "idle", !.by = "none", !.att = Unknown,
                          !.outcome = "none"]
  /\ UNCHANGED <<bins, board, world, history>>

-----------------------------------------------------------------------------
(* Serving has ended: shutdown_all, then install, one binary at a time. *)

Shutdown ==
  /\ proc.up = "ready"
  /\ Up("mark") /\ board' = NoEngine
  /\ UNCHANGED <<bins, st, world, history>>

\* Nothing in an attempt asks whether the build that makes it is still on trial.
TrialIsOpen == st.pending # None \/ proc.dog # "off"

\* install: the marker, over one that may be there.
PlantMarker ==
  /\ proc.up = "mark"
  /\ st' = [st EXCEPT !.request = "none",
                      !.pending = [from |-> proc.running, to |-> proc.att.target,
                                   by |-> proc.by, attempts |-> 0]]
  /\ proc' = [proc EXCEPT !.up = "copy", !.bin = "wheeld"]
  /\ overtaken' = (overtaken \/ TrialIsOpen)
  /\ UNCHANGED <<bins, board, world, proven, undone>>

\* The new binary lies beside the old one, and the .prev of the last update
\* is removed.
CopyBeside ==
  /\ proc.up = "copy"
  /\ prev' = [prev EXCEPT ![proc.bin] = None]
  /\ Up("keep")
  /\ UNCHANGED <<live, st, board, world, history>>

KeepsTheNewOne == \* mutant: .prev is linked to what was just built
  /\ proc.up = "keep"
  /\ prev' = [prev EXCEPT ![proc.bin] = proc.att.target]
  /\ Up("rename")
  /\ UNCHANGED <<live, st, board, world, history>>

KeepPrevious ==
  /\ proc.up = "keep"
  /\ prev' = [prev EXCEPT ![proc.bin] = live[proc.bin]]
  /\ Up("rename")
  /\ UNCHANGED <<live, st, board, world, history>>

\* After the second the process becomes what was installed.
RenameOver ==
  /\ proc.up = "rename"
  /\ live' = [live EXCEPT ![proc.bin] = proc.att.target]
  /\ IF proc.bin = "wheel" THEN Gone /\ Forgets
     ELSE /\ proc' = [proc EXCEPT !.bin = "wheel", !.up = "copy"]
          /\ UNCHANGED <<board, history>>
  /\ UNCHANGED <<prev, st, world>>

\* Any of these may fail (a full disk); then whatever .prev there is goes back,
\* the marker is closed, and the process ends with the error.
SwapFails ==
  /\ proc.up \in {"copy", "keep", "rename"}
  /\ proc' = [proc EXCEPT !.up = "undo", !.bin = "wheeld"]
  /\ UNCHANGED <<bins, st, board, world, history>>

Undo ==
  /\ proc.up = "undo"
  /\ Restore(proc.bin)
  /\ proc' = IF proc.bin = "wheeld" THEN [proc EXCEPT !.bin = "wheel"]
             ELSE [proc EXCEPT !.up = "unmark"]
  /\ UNCHANGED <<st, board, world, history>>

Unmark == proc.up = "unmark" /\ CloseRolledBack /\ Forgets

-----------------------------------------------------------------------------
(* The engines: attach looks at the flag, then puts the engine on the list. *)

Engine(e, place, shut, busy, late) ==
  /\ proc.up \in Serving
  /\ board' = [board EXCEPT !.eng[e] = place, !.mute[e] = shut, !.turn[e] = busy,
                            !.missed[e] = late]
  /\ UNCHANGED <<bins, st, proc, world, history>>

AsksNothing(e) == \* mutant: an engine that starts mid-drain does not join it
  board.eng[e] = "out" /\ Engine(e, "asked", FALSE, FALSE, FALSE)

Attach(e) == board.eng[e] = "out" /\ Engine(e, "asked", board.paused, FALSE, FALSE)

\* What it saw may no longer hold when it gets onto the list.
Listed(e) ==
  /\ board.eng[e] = "asked"
  /\ Engine(e, "in", board.mute[e], FALSE, board.missed[e])

StopEngine(e) == In(e) /\ Engine(e, "out", FALSE, FALSE, FALSE)

StartTurn(e) ==
  /\ In(e) /\ ~board.mute[e] /\ ~board.turn[e]
  /\ Engine(e, "in", FALSE, TRUE, board.missed[e])

EndTurn(e) ==
  board.turn[e] /\ Engine(e, "in", board.mute[e], FALSE, board.missed[e])

-----------------------------------------------------------------------------
(* origin/main and its checks. *)

Push ==
  /\ head < MaxVersion
  /\ head' = head + 1
  /\ UNCHANGED <<bins, st, proc, board, ci, history>>

Checked(v) ==
  /\ v <= head /\ ci[v] = "pending"
  /\ \E verdict \in {"green", "red"} : ci' = [ci EXCEPT ![v] = verdict]
  /\ UNCHANGED <<bins, st, proc, board, head, history>>

-----------------------------------------------------------------------------
BootSteps == Boot \/ BootRestore \/ BootMarkBad \/ BootClose
Probation == Answer \/ ConfirmRead \/ ConfirmClose
Dog == DogWakes \/ DogReads \/ DogRestores \/ DogRestoresOther
       \/ DogMarksBad \/ DogCloses
Asking == AgentAsks \/ WindowPasses
Looking == Poke \/ Tick \/ \E s \in Status : Answered(s)
Attempt == Due \/ Judge \/ Build \/ RaiseFlag \/ ShutGates \/ Quiet \/ LowerFlag
           \/ OpenGates \/ Finish
Install == PlantMarker \/ CopyBeside \/ KeepPrevious \/ RenameOver \/ Undo
           \/ Unmark
Turns(e) == Attach(e) \/ Listed(e) \/ StopEngine(e) \/ StartTurn(e) \/ EndTurn(e)
World == Push \/ \E v \in Versions : Checked(v)

Next ==
  \/ BootSteps \/ Probation \/ Dog \/ Asking \/ Looking \/ Attempt
  \/ Shutdown \/ Install \/ SwapFails
  \/ (\E e \in Engines : Turns(e))
  \/ World \/ Crash

\* A supervisor starts the process again, an install or a rollback in progress
\* goes on, the watchdog is a thread of its own, a build that answered records
\* it, and a process that gets to its rollback again and again is not killed
\* before its first rename each time.  Nothing is assumed of the loop, of
\* /healthz or of the engines.
Fairness ==
  /\ WF_vars(BootSteps) /\ SF_vars(BootRestore)
  /\ WF_vars(Install) /\ WF_vars(Dog) /\ WF_vars(ConfirmRead \/ ConfirmClose)

Spec == Init /\ [][Next]_vars
FairSpec == Spec /\ Fairness

-----------------------------------------------------------------------------
(* What the updater promises of the daemon that boots. *)

current == IF st.pending = None THEN live["wheeld"] ELSE st.pending.from
candidate == IF st.pending = None THEN None ELSE st.pending.to

Promise == INSTANCE UpdatePromise
  WITH First <- 1, current <- current, candidate <- candidate, proven <- proven,
       overtaken <- overtaken

\* Whatever crashes, fails or times out: outside a trial the installed daemon
\* is one that answered /healthz.  An update that is installed while the build
\* that installs it is still on trial is tried over one that did not, and there
\* the promise ends (overtaken), until a boot finds a sound disk again.
PromiseKept == Promise!Spec

\* A marker is planted only for a build that is green, was not rolled back and
\* is not marked bad, and one that changes the CI definition only for the
\* operator, although the attempt may work with the answer of a check that
\* somebody else started.  A rollback that a crash cut short between its first
\* rename and its mark is not remembered: that build is tried again.
OnlyGatedBuildsAreTried ==
  [][LET p == st'.pending
     IN  p # st.pending /\ p # None /\ p.attempts = 0 =>
           /\ p.to \notin st.bad \cup undone /\ ci[p.to] = "green"
           /\ TouchesCi(p.from, p.to) => p.by = "operator"]_vars

\* While the new daemon is installed and not yet proven, the old one is kept
\* beside it: a rollback that comes from anywhere has the right build.  Two
\* updates at once break that (overtaken): the rollback of the first takes away
\* what the second has just kept.
RollbackPossible ==
  ~overtaken /\ st.pending # None /\ live["wheeld"] = st.pending.to =>
    prev["wheeld"] = st.pending.from

\* The shutdown that installs an update meets no turn, except in an engine
\* whose attach overlapped the pause (attach reads the flag before it lists
\* the engine).
NoTurnIsKilled ==
  proc.up = "ready" => \A e \in Engines : board.turn[e] => board.missed[e]

\* Outside a drain every engine takes turns, with the same exception: a drain
\* that gave up leaves the board as it found it.
PauseIsLifted ==
  proc.up \notin {"pausing", "drain", "resuming", "ready"} =>
    \A e \in Engines : In(e) /\ board.mute[e] => board.missed[e]

\* A request disappears only with an attempt made for its requester or when
\* there is nothing to update to; only an agent's may also go with an
\* automatic attempt that was under way when it was recorded.
RequestsAreServed ==
  [][st.request # "none" /\ st'.request = "none" =>
       \/ st.request = proc.by
       \/ st.request = "agent" /\ proc.by = "auto"
       \/ proc.up = "due" /\ proc.status = UpToDate
       \/ proc.up = "judge" /\ proc.att \in {Unknown, UpToDate}]_vars

\* A trial always ends: some boot, the watchdog or the confirmation closes it,
\* unless another update overtakes it; that one may find nothing to roll back
\* to, at every boot.
TrialEnds ==
  st.pending # None /\ ~overtaken ~> st.pending = None \/ overtaken
====
