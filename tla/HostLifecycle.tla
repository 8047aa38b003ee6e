---- MODULE HostLifecycle ----
(***************************************************************************)
(* The host that owns the projects' engines (wheel-host/src/lib.rs), over  *)
(* its store and over one of two sandbox backends: "process", an OS process *)
(* under the project's own uid, which survives the host, and "embedded", a  *)
(* task of wheeld, which does not.  Every request of a project route is a   *)
(* task that other requests interleave with at each await, and that is      *)
(* dropped where it stands when its client goes away.  Engines come up,     *)
(* drain and die around it; the host crashes, boots and restores.           *)
(***************************************************************************)
EXTENDS Integers, FiniteSets

CONSTANTS
  Projects,
  Requests,            \* the requests that may be open at once
  Offers,              \* <<request, operation>>: what each of them may be
  PerProject,          \* bound: engines of one project alive at once
  UidStart, UidStride, \* config: the first uid, the uids of one project
  UidMax,              \* the largest uid there is (u32::MAX)
  None

Tasks == Requests \cup Projects     \* a project's own task restores it
Engines == Projects \X (1 .. PerProject)
Uids == UidStart .. UidMax

Ops == {"put", "start", "stop", "restart", "delete"}

ASSUME HostAssumption ==
  /\ Offers \subseteq Requests \X Ops
  /\ Requests \cap Projects = {}
  /\ {PerProject, UidStart, UidStride, UidMax} \subseteq Nat \ {0}
  /\ UidStart <= UidMax
  /\ None \notin Engines \cup Uids \cup Projects

VARIABLES
  backend,     \* which sandbox this host was configured with
  host,        \* down, restoring at boot, or open for the project routes
  rows,        \* store.rs projects: the record, desired_running, uid_base
  watermark,   \* store.rs uid_watermark.next_uid
  handle,      \* the sandbox's map: the engine it holds for each project
  phase, owner,\* each engine's life, and the uid its process runs under
  socket,      \* the engine that is bound at each project's socket path
  task,        \* where each request and each restore stands
  told,        \* history: what the last plain answer said of the project
  muddled,     \* history: requests overlapped, or left an engine undone
  strays,      \* history: engines whose handle went with a crash or a client
  issued       \* history: every uid_base ever given

disk == <<rows, watermark, issued>>
engines == <<phase, owner, strays>>
answers == <<told, muddled>>
vars == <<backend, host, disk, handle, engines, socket, task, answers>>

Idle == [op |-> "none", p |-> None, at |-> "end", e |-> None, uid |-> None]
Row == [there : BOOLEAN, want : BOOLEAN, uid : Uids \cup {None}]
NoRow == [there |-> FALSE, want |-> FALSE, uid |-> None]
LivePhases == {"starting", "serving", "draining"}

TypeOK ==
  /\ backend \in {"process", "embedded"}
  /\ host \in {"down", "boot", "open"}
  /\ rows \in [Projects -> Row]
  /\ watermark \in Uids
  /\ handle \in [Projects -> Engines \cup {None}]
  /\ phase \in [Engines -> LivePhases \cup {"gone"}]
  /\ owner \in [Engines -> Uids \cup {None}]
  /\ socket \in [Projects -> Engines \cup {None}]
  /\ task \in [Tasks ->
       [op : {"none", "put", "start", "stop", "restart", "delete", "restore"},
        p : Projects \cup {None}, e : Engines \cup {None}, uid : Uids \cup {None},
        at : {"end", "upsert", "lookup", "unwant", "check", "prepare", "reap",
              "reaping", "insert", "health", "asking", "take", "drain", "forget",
              "want"}]]
  /\ told \in [Projects -> {"nothing", "running", "unrecorded", "stopped", "deleted"}]
  /\ muddled \in [Projects -> BOOLEAN]
  /\ strays \subseteq Engines
  /\ issued \subseteq Uids

Init ==
  /\ backend \in {"process", "embedded"} /\ host = "down"
  /\ rows = [p \in Projects |-> NoRow] /\ watermark = UidStart /\ issued = {}
  /\ handle = [p \in Projects |-> None] /\ socket = [p \in Projects |-> None]
  /\ phase = [e \in Engines |-> "gone"] /\ owner = [e \in Engines |-> None]
  /\ strays = {} /\ task = [t \in Tasks |-> Idle]
  /\ told = [p \in Projects |-> "nothing"]
  /\ muddled = [p \in Projects |-> FALSE]

-----------------------------------------------------------------------------
Embedded == backend = "embedded"
Live(p) == {e \in Engines : e[1] = p /\ phase[e] # "gone"}
OpenFor(p) == {t \in Tasks : task[t].p = p}
Of(t) == task[t].p
Reached(t, step) == task[t].at = step

Goto(t, step) == task' = [task EXCEPT ![t].at = step]
Ends(t) == task' = [task EXCEPT ![t] = Idle]

\* The answer counts for the properties when no other request confused it.
Answers(t, word) ==
  /\ Ends(t)
  /\ told' = [told EXCEPT ![Of(t)] = IF muddled[Of(t)] THEN @ ELSE word]

\* The engines of one step: those that end, and those that come up under a uid.
Engined(ended, made, uid) ==
  /\ phase' = [e \in Engines |-> IF e \in made THEN "starting"
                                 ELSE IF e \in ended THEN "gone" ELSE phase[e]]
  /\ owner' = [e \in Engines |-> IF e \in made THEN uid
                                 ELSE IF e \in ended THEN None ELSE owner[e]]
  /\ strays' = strays \ ended

Asked(E) == phase' = [e \in Engines |-> IF e \in E THEN "draining" ELSE phase[e]]

-----------------------------------------------------------------------------
(* A request arrives, and may be dropped at any of its awaits. *)

FirstStep == [put |-> "upsert", start |-> "lookup", restart |-> "lookup",
              stop |-> "unwant", delete |-> "take"]

\* What was said before still has to hold while this request is served.
StillSaid(op, word) ==
  \/ op = "put" /\ word # "deleted"
  \/ op \in {"start", "restart"} /\ word = "running"
  \/ op = "stop" /\ word = "stopped"

Begin(r, op, p) ==
  /\ host = "open" /\ task[r] = Idle
  /\ task' = [task EXCEPT ![r] = [Idle EXCEPT !.op = op, !.p = p,
                                              !.at = FirstStep[op]]]
  /\ told' = [told EXCEPT ![p] = IF OpenFor(p) = {} /\ StillSaid(op, @)
                                 THEN @ ELSE "nothing"]
  /\ muddled' = [muddled EXCEPT ![p] = OpenFor(p) # {} \/ (@ /\ Live(p) # {})]
  /\ UNCHANGED <<backend, host, disk, handle, engines, socket>>

\* The future is dropped with its client.  An engine it held is nobody's: the
\* embedded one stops when its sender goes, the process goes on.
HangUp(r) ==
  /\ task[r] # Idle
  /\ LET e == task[r].e
         lost == task[r].at \in {"insert", "drain"} /\ phase[e] # "gone"
     IN  /\ strays' = IF lost THEN strays \cup {e} ELSE strays
         /\ phase' = IF lost /\ Embedded THEN [phase EXCEPT ![e] = "draining"]
                     ELSE phase
         /\ muddled' = [muddled EXCEPT ![Of(r)] = @ \/ (lost /\ Embedded)]
  /\ Ends(r)
  /\ UNCHANGED <<backend, host, disk, handle, owner, socket, told>>

-----------------------------------------------------------------------------
(* The store. *)

\* upsert: a record that exists keeps its desired_running and its uid.
UpsertResets(t) == \* mutant: a second PUT forgets that the project was running
  /\ Reached(t, "upsert")
  /\ rows' = [rows EXCEPT ![Of(t)].there = TRUE, ![Of(t)].want = FALSE]
  /\ Goto(t, "prepare")
  /\ UNCHANGED <<backend, host, watermark, issued, handle, engines, socket, answers>>

Upsert(t) ==
  /\ Reached(t, "upsert")
  /\ rows' = [rows EXCEPT ![Of(t)].there = TRUE]
  /\ Goto(t, "prepare")
  /\ UNCHANGED <<backend, host, watermark, issued, handle, engines, socket, answers>>

\* start and restart read the record; start also refuses a full disk.
Lookup(t) ==
  /\ Reached(t, "lookup")
  /\ \/ rows[Of(t)].there /\ Goto(t, IF task[t].op = "start" THEN "check" ELSE "take")
     \/ (~rows[Of(t)].there \/ task[t].op = "start") /\ Ends(t)
  /\ UNCHANGED <<backend, host, disk, handle, engines, socket, answers>>

\* set_desired_running updates a record, and makes none.
SetDesired(p, running) ==
  rows' = [rows EXCEPT ![p].want = rows[p].there /\ running]

StopsOnly(t) == \* mutant: stop leaves desired_running as it was
  /\ Reached(t, "unwant")
  /\ Goto(t, "take")
  /\ UNCHANGED <<backend, host, disk, handle, engines, socket, answers>>

Unwant(t) ==
  /\ Reached(t, "unwant")
  /\ SetDesired(Of(t), FALSE)
  /\ Goto(t, "take")
  /\ UNCHANGED <<backend, host, watermark, issued, handle, engines, socket, answers>>

\* A running that left no record, unless one was made before and still stands.
SaysRunning(t) ==
  Answers(t, IF told[Of(t)] = "running" THEN "running" ELSE "unrecorded")

\* start answers running also when its write failed.
Want(t) ==
  /\ Reached(t, "want")
  /\ \/ SetDesired(Of(t), TRUE) /\ Answers(t, "running")
     \/ SaysRunning(t) /\ UNCHANGED rows
  /\ UNCHANGED <<backend, host, watermark, issued, handle, engines, socket, muddled>>

HighestInUse == \* mutant: the next base follows the largest one in the table
  LET used == {rows[p].uid : p \in Projects} \ {None}
  IN  IF used = {} THEN UidStart
      ELSE (CHOOSE u \in used : \A v \in used : v <= u) + UidStride

\* allocate_uid takes its bases from a watermark that only climbs.
NextBase == watermark

Unchecked(base) == base \in Nat \* mutant: the addition is not checked

Fits(base) == base + UidStride <= UidMax

\* allocate_uid, one transaction.
Allocates(p) ==
  /\ rows[p].there /\ rows[p].uid = None /\ Fits(NextBase)
  /\ rows' = [rows EXCEPT ![p].uid = NextBase]
  /\ watermark' = NextBase + UidStride
  /\ issued' = issued \cup {NextBase}

-----------------------------------------------------------------------------
(* Sandbox::start. *)

\* An engine that is there is the answer: for the process backend a handle,
\* alive or not; for the embedded one a task that has not finished.
Holds(p) == handle[p] # None /\ (Embedded => phase[handle[p]] # "gone")

\* start has yet to record it; restart answers at once and records nothing.
Started(t) ==
  \/ task[t].op = "start" /\ Goto(t, "want") /\ UNCHANGED told
  \/ task[t].op = "restart" /\ SaysRunning(t)
  \/ task[t].op = "restore" /\ Ends(t) /\ UNCHANGED told

Check(t) ==
  /\ Reached(t, "check")
  /\ IF Holds(Of(t)) THEN Started(t) ELSE Goto(t, "prepare") /\ UNCHANGED told
  /\ UNCHANGED <<backend, host, disk, handle, engines, socket, muddled>>

\* The socket path is cleared and an engine spawned, not yet in the map.  A
\* spawn may fail; where no engine is free (the bound), it does.
Spawn(t, uid, killed) ==
  LET p == Of(t)
      free == {e \in Engines : /\ e[1] = p /\ e # handle[p]
                               /\ phase[e] = "gone" \/ e \in killed
                               /\ \A s \in Tasks : task[s].e # e}
  IN  /\ socket' = [q \in Projects |-> IF q = p \/ socket[q] \in killed
                                       THEN None ELSE socket[q]]
      /\ \/ \E e \in free :
              /\ Engined(killed, {e}, uid)
              /\ task' = [task EXCEPT ![t].e = e, ![t].at = "insert", ![t].uid = None]
         \/ Ends(t) /\ Engined(killed, {}, uid)

\* provision.  Embedded: private directories, and an engine at once.
PrepareEmbedded(t) ==
  /\ Reached(t, "prepare") /\ Embedded
  /\ \/ task[t].op # "put" /\ Spawn(t, None, {})
     \/ Ends(t) /\ UNCHANGED <<engines, socket>>
  /\ UNCHANGED <<backend, host, disk, handle, answers>>

\* Process: the uid first, then directories that belong to it.
PrepareProcess(t) ==
  /\ Reached(t, "prepare") /\ ~Embedded
  /\ \/ /\ Allocates(Of(t)) \/ (rows[Of(t)].uid # None /\ UNCHANGED disk)
        /\ IF task[t].op = "put" THEN Ends(t)
           ELSE task' = [task EXCEPT ![t].at = "reap", ![t].uid = rows'[Of(t)].uid]
     \/ Ends(t) /\ (Allocates(Of(t)) \/ UNCHANGED disk)
  /\ UNCHANGED <<backend, host, handle, engines, socket, answers>>

\* reap_leftovers: what runs under the project's uids is asked to exit.
Leftovers(uid) == {e \in Engines : phase[e] # "gone" /\ owner[e] = uid}

ReapsNothing(t) == \* mutant: an engine of an earlier host is left alone
  /\ Reached(t, "reap")
  /\ Spawn(t, task[t].uid, {})
  /\ UNCHANGED <<backend, host, disk, handle, answers>>

Reap(t) ==
  /\ Reached(t, "reap")
  /\ LET left == Leftovers(task[t].uid)
     IN  IF left = {} THEN Spawn(t, task[t].uid, {})
         ELSE Asked(left) /\ Goto(t, "reaping") /\ UNCHANGED <<owner, strays, socket>>
  /\ UNCHANGED <<backend, host, disk, handle, answers>>

\* Within the grace some exit; the rest, by a second look, are killed.
GraceOver(t) ==
  /\ Reached(t, "reaping")
  /\ Spawn(t, task[t].uid, Leftovers(task[t].uid))
  /\ UNCHANGED <<backend, host, disk, handle, answers>>

DropsTheTask(t) == \* mutant: a handle that is replaced detaches its engine
  /\ Reached(t, "insert")
  /\ handle' = [handle EXCEPT ![Of(t)] = task[t].e]
  /\ task' = [task EXCEPT ![t].e = None, ![t].at = "health"]
  /\ UNCHANGED <<backend, host, disk, engines, socket, answers>>

\* Into the map.  A handle that is replaced there is dropped: it asks an
\* embedded engine to stop, and does nothing to a process.
Insert(t) ==
  /\ Reached(t, "insert")
  /\ handle' = [handle EXCEPT ![Of(t)] = task[t].e]
  /\ task' = [task EXCEPT ![t].e = None, ![t].at = "health"]
  /\ Asked(IF Embedded THEN Live(Of(t)) \cap {handle[Of(t)]} ELSE {})
  /\ UNCHANGED <<backend, host, disk, owner, strays, socket, answers>>

\* /healthz is asked at the path, of whoever is bound there, for as long as
\* that takes: the question has no timeout of its own.
Ask(t) ==
  /\ Reached(t, "health") /\ socket[Of(t)] # None
  /\ Goto(t, "asking")
  /\ UNCHANGED <<backend, host, disk, handle, engines, socket, answers>>

Answered(t) ==
  /\ Reached(t, "asking")
  /\ Started(t)
  /\ UNCHANGED <<backend, host, disk, handle, engines, socket, muddled>>

\* Another answer, or the end of the engine that was asked.
Unanswered(t) ==
  /\ Reached(t, "asking")
  /\ Goto(t, "health")
  /\ UNCHANGED <<backend, host, disk, handle, engines, socket, answers>>

\* The engine exited first.  The process backend keeps its handle.
Exited(t) ==
  /\ Reached(t, "health")
  /\ IF Embedded THEN ~Holds(Of(t))
     ELSE handle[Of(t)] # None /\ phase[handle[Of(t)]] = "gone"
  /\ Ends(t)
  /\ UNCHANGED <<backend, host, disk, handle, engines, socket, answers>>

WaitsForever(t) == FALSE \* mutant: a start has no deadline

\* start_timeout_secs, looked at between two questions: what was started is
\* stopped.
TimedOut(t) ==
  /\ Reached(t, "health")
  /\ task' = [task EXCEPT ![t].at = "take", ![t].op = IF @ = "restore" THEN @ ELSE "start"]
  /\ UNCHANGED <<backend, host, disk, handle, engines, socket, answers>>

-----------------------------------------------------------------------------
(* Sandbox::stop, of stop, restart, delete and a start that timed out. *)

\* What follows the stop; its handle, if it had one, is let go.
Stopped(t) ==
  LET step == CASE task[t].op = "restart" -> "check"
                [] task[t].op = "delete" -> "forget"
                [] OTHER -> "end"
  IN  IF task[t].op = "stop" THEN Answers(t, "stopped")
      ELSE /\ UNCHANGED told
           /\ IF step = "end" THEN Ends(t)
              ELSE task' = [task EXCEPT ![t].e = None, ![t].at = step]

Clear(p) == socket' = [socket EXCEPT ![p] = None]

AnswersEarly(t) == \* mutant: stop asks the engine to exit and does not wait
  /\ Reached(t, "take")
  /\ Asked({handle[Of(t)]} \cap Live(Of(t)))
  /\ handle' = [handle EXCEPT ![Of(t)] = None]
  /\ Stopped(t)
  /\ UNCHANGED <<backend, host, disk, owner, strays, socket, muddled>>

\* The handle leaves the map and its engine is asked to stop.  With none there
\* is nothing to wait for: embedded, and for a deletion, the path is cleared.
Take(t) ==
  /\ Reached(t, "take")
  /\ handle' = [handle EXCEPT ![Of(t)] = None]
  /\ IF handle[Of(t)] = None
     THEN /\ Stopped(t) /\ UNCHANGED phase
          /\ IF Embedded \/ task[t].op = "delete" THEN Clear(Of(t)) ELSE UNCHANGED socket
     ELSE /\ Asked({handle[Of(t)]} \cap Live(Of(t)))
          /\ task' = [task EXCEPT ![t].e = handle[Of(t)], ![t].at = "drain"]
          /\ UNCHANGED <<socket, told>>
  /\ UNCHANGED <<backend, host, disk, owner, strays, muddled>>

\* It has exited, or, a process, was killed at the end of its grace.
Drained(t) ==
  /\ Reached(t, "drain")
  /\ phase[task[t].e] = "gone" \/ ~Embedded
  /\ Engined({task[t].e}, {}, None)
  /\ Clear(Of(t)) /\ Stopped(t)
  /\ UNCHANGED <<backend, host, disk, handle, muddled>>

\* The record goes after the runtime, which may resist (embedded).  A process
\* nobody holds outlives both, under a uid no later start will look at.
Forget(t) ==
  /\ Reached(t, "forget")
  /\ \/ /\ rows' = [rows EXCEPT ![Of(t)] = NoRow]
        /\ Answers(t, "deleted")
        /\ muddled' = [muddled EXCEPT ![Of(t)] = @ \/ Live(Of(t)) # {}]
     \/ Embedded /\ Ends(t) /\ UNCHANGED <<rows, answers>>
  /\ UNCHANGED <<backend, host, watermark, issued, handle, engines, socket>>

\* A status request notices a process that exited.
Probe(p) ==
  /\ host = "open" /\ ~Embedded /\ rows[p].there
  /\ handle[p] # None /\ phase[handle[p]] = "gone"
  /\ handle' = [handle EXCEPT ![p] = None]
  /\ UNCHANGED <<backend, host, disk, engines, socket, task, answers>>

-----------------------------------------------------------------------------
(* The engines. *)

\* serve_on removes what is at its path and binds it.
Bind(e) ==
  /\ phase[e] = "starting"
  /\ phase' = [phase EXCEPT ![e] = "serving"]
  /\ socket' = [socket EXCEPT ![e[1]] = e]
  /\ UNCHANGED <<backend, host, disk, handle, owner, strays, task, answers>>

\* One that was asked to stop removes the path, whoever is bound there.
Unlink(e) ==
  /\ phase[e] = "draining" /\ socket[e[1]] # None
  /\ Clear(e[1])
  /\ UNCHANGED <<backend, host, disk, handle, engines, task, answers>>

Exit(e) ==
  /\ phase[e] # "gone"
  /\ Engined({e}, {}, None)
  /\ socket' = [socket EXCEPT ![e[1]] = IF @ = e THEN None ELSE @]
  /\ UNCHANGED <<backend, host, disk, handle, task, answers>>

-----------------------------------------------------------------------------
(* The host. *)

\* A crash, or the end of wheeld: embedded engines end with it, processes stay.
Crash ==
  /\ host # "down" /\ host' = "down"
  /\ task' = [t \in Tasks |-> Idle] /\ handle' = [p \in Projects |-> None]
  /\ IF Embedded
     THEN /\ Engined(Engines, {}, None)
          /\ socket' = [p \in Projects |-> None]
     ELSE /\ strays' = {e \in Engines : phase[e] # "gone"}
          /\ UNCHANGED <<phase, owner, socket>>
  /\ UNCHANGED <<backend, disk, answers>>

\* reconcile_on_boot: a start for every project that was running.
Boot ==
  /\ host = "down" /\ host' = "boot"
  /\ task' = [t \in Tasks |->
       IF t \in Projects /\ rows[t].want
       THEN [Idle EXCEPT !.op = "restore", !.p = t, !.at = "check"] ELSE Idle]
  /\ UNCHANGED <<backend, disk, handle, engines, socket, answers>>

\* Routes answer 503 until every restore has come back, well or not.
OpenRoutes ==
  /\ host = "boot" /\ host' = "open"
  /\ \A p \in Projects : task[p] = Idle
  /\ UNCHANGED <<backend, disk, handle, engines, socket, task, answers>>

-----------------------------------------------------------------------------
\* What a task does by itself, and what it only does when an engine lets it.
Proceeds(t) ==
  \/ Upsert(t) \/ Lookup(t) \/ Unwant(t) \/ Want(t) \/ Check(t)
  \/ PrepareEmbedded(t) \/ PrepareProcess(t) \/ Reap(t) \/ GraceOver(t)
  \/ Insert(t) \/ Ask(t) \/ Exited(t) \/ TimedOut(t)
  \/ Take(t) \/ Drained(t) \/ Forget(t)

Returns(t) == Answered(t) \/ Unanswered(t)

Step(t) == Proceeds(t) \/ Returns(t)

Arrival ==
  \/ \E o \in Offers, p \in Projects : Begin(o[1], o[2], p)
  \/ \E r \in Requests : HangUp(r)
  \/ \E p \in Projects : Probe(p)

Engine(e) == Bind(e) \/ Unlink(e) \/ Exit(e)

Next ==
  \/ \E t \in Tasks : Step(t)
  \/ Arrival
  \/ \E e \in Engines : Engine(e)
  \/ Crash \/ Boot \/ OpenRoutes

Spec == Init /\ [][Next]_vars

\* A restore is scheduled; one that looks at its deadline again and again finds
\* it passed; and an engine that was asked to stop bounds its own shutdown.
\* Nothing makes an engine answer a question.
Fairness ==
  /\ \A p \in Projects : WF_vars(Proceeds(p)) /\ SF_vars(TimedOut(p))
  /\ \A e \in Engines : WF_vars(phase[e] = "draining" /\ Exit(e))
  /\ WF_vars(OpenRoutes)

FairSpec == Spec /\ Fairness

-----------------------------------------------------------------------------
\* One engine per project at a time, across crashes, boots and dropped
\* requests: start answers with the one there is or reaps it first.  Requests
\* that overlap on one project are not kept apart (muddled).
OneEnginePerProject ==
  \A p \in Projects : muddled[p] \/ Cardinality(Live(p)) <= 1

\* After stop or delete answered, nothing brings the project back: no boot, no
\* PUT and no request that was dropped.  What may still run is a process whose
\* handle the host had lost.
StoppedStaysStopped ==
  \A p \in Projects : told[p] \in {"stopped", "deleted"} =>
    ~rows[p].want /\ handle[p] = None /\ Live(p) \subseteq strays

\* A project that start called running is one that every later boot restores,
\* whatever PUTs, restarts and starts fail or are dropped in between.  Two
\* answers of "running" leave no record and promise nothing ("unrecorded"): a
\* restart of a project that no start had called running, and a start whose
\* write failed.
RunningIsRestored ==
  \A p \in Projects : told[p] = "running" =>
    rows[p].there /\ rows[p].want

\* The embedded backend never lets go of an engine that goes on: each is in
\* the map, on its way there, or was asked to stop.
NoUnownedEngine ==
  Embedded => \A e \in Engines : phase[e] \in {"starting", "serving"} =>
    handle[e[1]] = e \/ \E t \in Tasks : task[t].e = e

\* The engine in the map is the one the proxy reaches at the project's path.
SocketReachesTheEngine ==
  \A p \in Projects : ~muddled[p] /\ handle[p] # None =>
    (phase[handle[p]] = "serving" => socket[p] = handle[p])

\* No uid of a new range was ever in another, a deleted project's included.
UidsNeverRecycled ==
  [][\A p \in Projects : rows'[p].uid \notin {None, rows[p].uid} =>
       \A base \in issued : base + UidStride <= rows'[p].uid]_vars

\* Every boot opens its routes, or the host ends: no restore waits for ever.
\* That is so as long as every question put to an engine comes back; one that
\* is bound and never answers holds its restore, and so the routes.
RoutesOpen ==
  (\A p \in Projects : []<>~Reached(p, "asking")) =>
    (host = "boot" ~> host # "boot")
====
