---- MODULE LoginRenewal ----
(***************************************************************************)
(* Renewing the login a vault holds (supervisor/refresh.rs), for one       *)
(* vault.  Agents that start, agents whose turn failed on authentication   *)
(* and the sleeping timer all call ensure_fresh, one at a time under the   *)
(* lineage lock; a person may sign in at any moment, without that lock.    *)
(* The authorization server spends a refresh token when it answers.        *)
(* External: the server and the harness CLI that talks to it.              *)
(***************************************************************************)
EXTENDS Integers, FiniteSets

CONSTANTS
  Agents,       \* the agents that read the vault
  Timers,       \* how many fired timers may wait at once: a bound of the model
  MaxLogins,    \* logins the server ever issues: a bound of the model
  MaxAttempts,  \* Broker.max_attempts
  Issues,       \* the life of the logins the server issues
  Faults,       \* what may go wrong around the renewal
  None

Callers == Agents \cup Timers
Lives == {"fresh", "near", "lapsed"}  \* more than the lead left, less, nothing
Gens == 1..MaxLogins

\* A stored login: its expiry stands for its generation; `by` is the sign-in it
\* descends from, `rt` the login whose refresh token it carries.
Login == [gen : Gens, by : Gens, rt : Gens, life : Lives]

ASSUME RenewalAssumption ==
  /\ MaxLogins \in Nat \ {0}
  /\ MaxAttempts \in Nat \ {0}
  /\ Issues \subseteq {"fresh", "near"}
  /\ Faults \subseteq {"hangup", "restart", "unclear", "refused", "outage", "delete", "pause"}
  /\ None \notin Login \cup [kind : {"permanent", "transient", "short"}, of : Gens]
  /\ Agents \cap Timers = {} /\ IsFiniteSet(Timers)

VARIABLES
  vault,     \* the login in the vault, or None
  issued,    \* how many logins the server has issued
  spent,     \* the refresh tokens it will not take again
  pc,        \* where each caller of ensure_fresh stands
  forced,    \* renew_if_still: the generation a child failed on, 0 for none
  sess,      \* the login a caller read under the lock, and is renewing
  got,       \* what the server gave for it
  failure,   \* Broker.failures; `of` remembers which sign-in had failed
  attempts,  \* Broker.attempts
  recent,    \* the last attempt is less than min_interval ago
  timer,     \* "armed": one that has not been superseded sleeps; "missed" (history):
             \* the last one woke while turns were paused, and came to nothing
  signin,    \* where the person who signs in stands
  todo,      \* the blocked readers that sign-in has still to resume
  agent,     \* each reader: its status and the login its child runs on
  booted,    \* the boot has armed the timers
  alone      \* ambiguous failures of timers in a row, with nobody asking

vars == <<vault, issued, spent, pc, forced, sess, got, failure, attempts, recent,
          timer, signin, todo, agent, booted, alone>>
server == <<issued, spent>>
people == <<signin, todo>>
record == <<failure, attempts>>

Exchanging == {"exchange", "answered"}
Critical == Exchanging \cup {"retrying", "giving_up", "forgiving", "arming"}
Held == \E c \in Callers : pc[c] \in Critical  \* the lineage lock is taken

TypeOK ==
  /\ vault \in Login \cup {None}
  /\ issued \in 0..MaxLogins
  /\ spent \subseteq Gens
  /\ pc \in [Callers -> {"idle", "wait", "granted", "refused"} \cup Critical]
  /\ forced \in [Callers -> 0..MaxLogins]
  /\ sess \in [Callers -> Login \cup {None}]
  /\ got \in [Callers -> Login \cup {None}]
  /\ failure \in [kind : {"permanent", "transient", "short"}, of : Gens] \cup {None}
  /\ attempts \in 0..MaxAttempts
  /\ recent \in BOOLEAN /\ timer \in {"none", "armed", "missed"}
  /\ signin \in {"idle", "stored", "forgotten", "resuming"}
  /\ todo \subseteq Agents
  /\ agent \in [Agents -> [st : {"parked", "up", "needs_auth"}, on : 0..MaxLogins]]
  /\ booted \in BOOLEAN
  /\ alone \in Nat

Parked == [st |-> "parked", on |-> 0]

\* The board before anybody has signed in.
Init ==
  /\ vault = None
  /\ issued = 0 /\ spent = {}
  /\ pc = [c \in Callers |-> "idle"]
  /\ forced = [c \in Callers |-> 0]
  /\ sess = [c \in Callers |-> None]
  /\ got = [c \in Callers |-> None]
  /\ failure = None /\ attempts = 0
  /\ recent = FALSE /\ timer = "none"
  /\ signin = "idle" /\ todo = {}
  /\ agent = [a \in Agents |-> Parked]
  /\ booted = TRUE
  /\ alone = 0

Goes(c, to) == pc' = [pc EXCEPT ![c] = to]

\* Signed in as: the sign-in the login in the vault descends from.
Lineage == IF vault = None THEN 0 ELSE vault.by

-----------------------------------------------------------------------------
(* Schedules *)

\* Supervisor.closing is set: turns are paused for an update (pause_turns) or the
\* engine is about to stop.  A pause may begin and be lifted (resume_turns)
\* between any two steps, and nothing here depends on how long one lasts: so
\* whether a step meets one is a choice, and not a variable.
Closing == "pause" \in Faults

ForgetsToArm(login) == \* mutant: a login with time left is not scheduled
  UNCHANGED <<timer, failure>>

\* arm_renewal: a life shorter than the lead cannot be scheduled; the readers
\* are told instead.
ArmRenewal(login) ==
  \/ /\ login.life = "fresh"
     /\ timer' = "armed"
     /\ UNCHANGED failure
  \/ /\ login.life # "fresh"
     /\ failure' = [kind |-> "short", of |-> login.by]
     /\ UNCHANGED timer

\* The timer wakes, finds itself the latest, and asks for a fresh login.  While
\* the engine is closing ensure_fresh refuses before it looks at the login: the
\* timer is spent, and nothing is armed in its place.
TimerFires(c) ==
  /\ timer = "armed" /\ booted /\ pc[c] = "idle"
  /\ \/ timer' = "none" /\ Goes(c, "wait")
     \/ Closing /\ timer' = "missed" /\ UNCHANGED pc
  /\ forced' = [forced EXCEPT ![c] = 0]
  /\ UNCHANGED <<vault, server, sess, got, record, recent, people, agent, booted, alone>>

FloorPasses ==
  /\ recent
  /\ recent' = FALSE
  /\ UNCHANGED <<vault, server, pc, forced, sess, got, record, timer, people, agent,
                 booted, alone>>

Ages(login) ==
  [login EXCEPT !.life = IF login.life = "fresh" THEN "near" ELSE "lapsed"]

TimePasses ==
  /\ vault # None /\ vault.life # "lapsed"
  /\ vault' = Ages(vault)
  /\ UNCHANGED <<server, pc, forced, sess, got, record, recent, timer, people, agent,
                 booted, alone>>

-----------------------------------------------------------------------------
(* The readers *)

Parks(a) == agent' = [agent EXCEPT ![a] = Parked]
NeedsAuth(a) == agent' = [agent EXCEPT ![a] = [st |-> "needs_auth", on |-> 0]]

\* Supervisor::start, up to the renewal it awaits without its slot.  If a pause
\* begins before it asks it is refused like any other caller, and says needs_auth.
StartAsks(a) ==
  /\ pc[a] = "idle" /\ agent[a].st # "up" /\ vault # None
  /\ \/ Goes(a, "wait") /\ UNCHANGED agent
     \/ Closing /\ NeedsAuth(a) /\ UNCHANGED pc
  /\ forced' = [forced EXCEPT ![a] = 0]
  /\ UNCHANGED <<vault, server, sess, got, record, recent, timer, people, booted, alone>>

\* recycle, which moves no child while the engine is closing.
Recycles(a) == Parks(a) \/ (Closing /\ UNCHANGED agent)

\* A turn failed on authentication (recover_from_auth_failure): a newer login is
\* moved to at once, one near its end is renewed, any other is not the problem.
TurnFails(a) ==
  /\ pc[a] = "idle" /\ agent[a].st = "up"
  /\ LET newest == vault # None /\ vault.gen = agent[a].on IN
     \/ ~newest /\ Recycles(a) /\ UNCHANGED <<pc, forced>>
     \/ /\ newest /\ vault.life # "fresh"
        /\ Goes(a, "wait")
        /\ forced' = [forced EXCEPT ![a] = vault.gen]
        /\ UNCHANGED agent
     \/ /\ newest /\ (vault.life = "fresh" \/ Closing)
        /\ NeedsAuth(a) /\ UNCHANGED <<pc, forced>>
  /\ UNCHANGED <<vault, server, sess, got, record, recent, timer, people, booted, alone>>

\* park and stop: the child ends between two turns.
ReaderParks(a) ==
  /\ pc[a] = "idle" /\ agent[a].st = "up"
  /\ Parks(a)
  /\ UNCHANGED <<vault, server, pc, forced, sess, got, record, recent, timer, people,
                 booted, alone>>

\* ensure_fresh said yes: start spawns on what the vault holds now, unless a pause
\* has begun meanwhile; a recovery recycles the child, which leaves it parked until
\* its queue starts it.
Granted(c) ==
  /\ pc[c] = "granted"
  /\ Goes(c, "idle")
  /\ \/ c \in Timers /\ UNCHANGED agent
     \/ c \in Agents /\ forced[c] # 0 /\ Recycles(c)
     \/ c \in Agents /\ forced[c] = 0 /\ Closing /\ UNCHANGED agent
     \/ /\ c \in Agents /\ forced[c] = 0
        /\ agent' = [agent EXCEPT ![c] =
                       [st |-> "up", on |-> IF vault = None THEN 0 ELSE vault.gen]]
  /\ forced' = [forced EXCEPT ![c] = 0]
  /\ UNCHANGED <<vault, server, sess, got, record, recent, timer, people, booted, alone>>

\* ensure_fresh said no: the agent needs a person, whatever happened meanwhile.
Refused(c) ==
  /\ pc[c] = "refused"
  /\ Goes(c, "idle")
  /\ \/ c \in Timers /\ UNCHANGED agent
     \/ c \in Agents /\ NeedsAuth(c)
  /\ forced' = [forced EXCEPT ![c] = 0]
  /\ UNCHANGED <<vault, server, sess, got, record, recent, timer, people, booted, alone>>

-----------------------------------------------------------------------------
(* ensure_fresh and renew *)

AlwaysForced(c) == forced[c] # 0 \* mutant: the generation is not looked at again

\* renew_if_still holds: the vault is still on the login the child failed on.
StillOnIt(c) == forced[c] # 0 /\ forced[c] = vault.gen

\* The lineage lock is taken: read the login and decide.
Enter(c) ==
  /\ pc[c] = "wait" /\ ~Held
  /\ \/ /\ vault = None
        /\ Goes(c, "refused")
        /\ UNCHANGED <<sess, recent, timer>>
     \/ /\ vault # None /\ ~StillOnIt(c) /\ vault.life = "fresh"
        /\ Goes(c, "arming")  \* nothing to renew: only its schedule
        /\ sess' = [sess EXCEPT ![c] = vault]
        /\ UNCHANGED <<recent, timer>>
     \/ /\ vault # None /\ (StillOnIt(c) \/ vault.life # "fresh") /\ recent
        /\ timer' = "armed"
        /\ Goes(c, IF vault.life = "lapsed" THEN "refused" ELSE "granted")
        /\ UNCHANGED <<sess, recent>>
     \/ /\ vault # None /\ (StillOnIt(c) \/ vault.life # "fresh") /\ ~recent
        /\ recent' = TRUE
        /\ Goes(c, "exchange")
        /\ sess' = [sess EXCEPT ![c] = vault]
        /\ UNCHANGED timer
  /\ alone' = IF c \in Agents THEN 0 ELSE alone
  /\ UNCHANGED <<vault, server, forced, got, record, people, agent, booted>>

\* The server takes the refresh token, which it may or may not rotate.
ServerRenews(c) ==
  /\ pc[c] = "exchange" /\ sess[c].rt \notin spent /\ issued < MaxLogins
  /\ issued' = issued + 1
  /\ \E life \in Issues, rotates \in BOOLEAN :
       /\ got' = [got EXCEPT ![c] =
                    [gen |-> issued + 1, by |-> sess[c].by, life |-> life,
                     rt |-> IF rotates THEN issued + 1 ELSE sess[c].rt]]
       /\ spent' = IF rotates THEN spent \cup {sess[c].rt} ELSE spent
  /\ Goes(c, "answered")
  /\ UNCHANGED <<vault, forced, sess, record, recent, timer, people, agent, booted, alone>>

StoresBlindly(c) == \* mutant: a login saved meanwhile is written over
  /\ pc[c] = "answered"
  /\ vault' = got[c]
  /\ sess' = [sess EXCEPT ![c] = got[c]]
  /\ Goes(c, "forgiving")
  /\ got' = [got EXCEPT ![c] = None]
  /\ UNCHANGED <<server, forced, record, recent, timer, people, agent, booted, alone>>

\* The gate let the answer through (check_refresh) and replace_session_if finds
\* the refresh token it renewed from; if it finds another login, that one counts.
Store(c) ==
  /\ pc[c] = "answered" /\ vault # None
  /\ vault' = IF vault.rt = sess[c].rt THEN got[c] ELSE vault
  /\ sess' = [sess EXCEPT ![c] = vault']
  /\ Goes(c, "forgiving")
  /\ got' = [got EXCEPT ![c] = None]
  /\ UNCHANGED <<server, forced, record, recent, timer, people, agent, booted, alone>>

NeverCounts == attempts \* mutant: a failure nobody can read is not counted
CountsOn == attempts + 1 \* mutant: the count runs past the point where it matters

\* A failure nobody could read is one more of a row; beyond MaxAttempts the
\* count makes no difference.
Tries == IF attempts < MaxAttempts THEN attempts + 1 ELSE attempts

\* The renewal failed.  It is final if the grant is dead, or if it could not be
\* read and was one too many.
Fails(c, permanent, ambiguous) ==
  LET final == permanent \/ (ambiguous /\ Tries >= MaxAttempts) IN
  /\ failure' = [kind |-> IF final THEN "permanent" ELSE "transient", of |-> sess[c].by]
  /\ attempts' = IF ambiguous THEN Tries ELSE attempts
  /\ alone' = IF c \in Timers /\ ambiguous THEN alone + 1 ELSE alone
  /\ got' = [got EXCEPT ![c] = None]
  /\ Goes(c, IF final THEN "giving_up" ELSE "retrying")
  /\ UNCHANGED <<vault, server, forced, sess, recent, timer, people, agent, booted>>

\* What refresh_via_cli, read_session and check_refresh make of an exchange.
GrantDead(c) == pc[c] = "exchange" /\ sess[c].rt \in spent /\ Fails(c, TRUE, FALSE)
Outage(c) == "outage" \in Faults /\ pc[c] = "exchange" /\ Fails(c, FALSE, FALSE)
Unclear(c) == "unclear" \in Faults /\ pc[c] \in Exchanging /\ Fails(c, FALSE, TRUE)
GateRefuses(c) == "refused" \in Faults /\ pc[c] = "answered" /\ Fails(c, TRUE, FALSE)
Unreadable(c) == "unclear" \in Faults /\ pc[c] = "answered" /\ Fails(c, FALSE, FALSE)
NothingToReplace(c) == pc[c] = "answered" /\ vault = None /\ Fails(c, FALSE, FALSE)

Usable(c) == sess[c].life # "lapsed"  \* as it was before the exchange

\* warn_readers, the retry if it is worth one, and the answer: a caller that was
\* not forced may run on what is there.
Warn(c) ==
  /\ pc[c] \in {"retrying", "giving_up"}
  /\ timer' = IF Usable(c) /\ pc[c] = "retrying" THEN "armed" ELSE timer
  /\ Goes(c, IF Usable(c) /\ forced[c] = 0 THEN "granted" ELSE "refused")
  /\ sess' = [sess EXCEPT ![c] = None]
  /\ UNCHANGED <<vault, server, forced, got, failure, attempts, recent, people, agent,
                 booted, alone>>

\* It worked: the failure, its count and its warning are forgotten.
Forgive(c) ==
  /\ pc[c] = "forgiving"
  /\ failure' = None /\ attempts' = 0 /\ alone' = 0
  /\ Goes(c, "arming")
  /\ UNCHANGED <<vault, server, forced, sess, got, recent, timer, people, agent, booted>>

AdoptsInline(c) == \* mutant: the readers are moved over before the lock is let go
  /\ pc[c] = "arming" /\ \A a \in Agents : pc[a] = "idle"
  /\ ArmRenewal(sess[c])
  /\ Goes(c, "granted")
  /\ sess' = [sess EXCEPT ![c] = None]
  /\ UNCHANGED <<vault, server, forced, got, attempts, recent, people, agent, booted, alone>>

\* arm_renewal; the readers adopt the login in a task of their own.
Arm(c) ==
  /\ pc[c] = "arming"
  /\ ArmRenewal(sess[c])
  /\ Goes(c, "granted")
  /\ sess' = [sess EXCEPT ![c] = None]
  /\ UNCHANGED <<vault, server, forced, got, attempts, recent, people, agent, booted, alone>>

-----------------------------------------------------------------------------
(* Signing in: finish_paste_code saves the login, then session_saved *)

SignInStores ==
  /\ signin = "idle" /\ booted /\ issued < MaxLogins
  /\ issued' = issued + 1
  /\ \E life \in Issues :
       vault' = [gen |-> issued + 1, by |-> issued + 1, rt |-> issued + 1, life |-> life]
  /\ signin' = "stored"
  /\ UNCHANGED <<spent, pc, forced, sess, got, record, recent, timer, todo, agent, booted, alone>>

SignInForgets ==
  /\ signin = "stored"
  /\ failure' = None /\ attempts' = 0 /\ alone' = 0
  /\ signin' = "forgotten"
  /\ UNCHANGED <<vault, server, pc, forced, sess, got, recent, timer, todo, agent, booted>>

\* The renewal is scheduled and the readers that are blocked are looked up.
SignInArms ==
  /\ signin = "forgotten"
  /\ IF vault = None THEN UNCHANGED <<timer, failure>> ELSE ArmRenewal(vault)
  /\ todo' = {a \in Agents : agent[a].st = "needs_auth"}
  /\ signin' = "resuming" /\ alone' = 0
  /\ UNCHANGED <<vault, server, pc, forced, sess, got, attempts, recent, agent, booted>>

\* resume_if_blocked: one reader, if it still is; its queue starts it.
Resume(a) ==
  /\ signin = "resuming" /\ a \in todo
  /\ todo' = todo \ {a}
  /\ IF agent[a].st = "needs_auth" THEN Parks(a) ELSE UNCHANGED agent
  /\ UNCHANGED <<vault, server, pc, forced, sess, got, record, recent, timer, signin, booted, alone>>

SignInAnswers ==
  /\ signin = "resuming" /\ todo = {}
  /\ signin' = "idle"
  /\ UNCHANGED <<vault, server, pc, forced, sess, got, record, recent, timer, todo, agent,
                 booted, alone>>

-----------------------------------------------------------------------------
(* Faults *)

\* The client of a start or of a sign-in hangs up: its handler is dropped at the
\* await it stands at, and an exchange's CLI is killed with it.
StartDropped(a) ==
  /\ "hangup" \in Faults
  /\ forced[a] = 0 /\ pc[a] \in {"wait", "granted"} \cup Exchanging
  /\ Goes(a, "idle")
  /\ sess' = [sess EXCEPT ![a] = None]
  /\ got' = [got EXCEPT ![a] = None]
  /\ UNCHANGED <<vault, server, forced, record, recent, timer, people, agent, booted, alone>>

SignInDropped ==
  /\ "hangup" \in Faults /\ signin = "resuming" /\ todo # {}
  /\ signin' = "idle" /\ todo' = {}
  /\ UNCHANGED <<vault, server, pc, forced, sess, got, record, recent, timer, agent, booted, alone>>

\* DELETE of the vault's key.
LoginDeleted ==
  /\ "delete" \in Faults /\ vault # None /\ booted
  /\ vault' = None
  /\ UNCHANGED <<server, pc, forced, sess, got, record, recent, timer, people, agent, booted, alone>>

\* The engine goes down; the vault and the readers' last_error are on disk.
Restart ==
  /\ "restart" \in Faults /\ booted
  /\ pc' = [c \in Callers |-> "idle"]
  /\ forced' = [c \in Callers |-> 0]
  /\ sess' = [c \in Callers |-> None]
  /\ got' = [c \in Callers |-> None]
  /\ failure' = None /\ attempts' = 0 /\ alone' = 0
  /\ recent' = FALSE /\ timer' = "none"
  /\ signin' = "idle" /\ todo' = {}
  /\ agent' = [a \in Agents |->
                 IF agent[a].st = "up" THEN Parked ELSE agent[a]]
  /\ booted' = FALSE
  /\ UNCHANGED <<vault, server>>

\* arm_all_refresh_timers, after the starts of start_configured_agents.
BootArms ==
  /\ ~booted /\ \A a \in Agents : pc[a] = "idle"
  /\ IF vault = None THEN UNCHANGED <<timer, failure>> ELSE ArmRenewal(vault)
  /\ booted' = TRUE
  /\ UNCHANGED <<vault, server, pc, forced, sess, got, attempts, recent, people, agent, alone>>

-----------------------------------------------------------------------------
Asks(a) == StartAsks(a) \/ TurnFails(a) \/ ReaderParks(a)
Exchanges(c) ==
  \/ ServerRenews(c) \/ Store(c) \/ GrantDead(c) \/ Outage(c) \/ Unclear(c)
  \/ GateRefuses(c) \/ Unreadable(c) \/ NothingToReplace(c)
Answers(c) == Warn(c) \/ Forgive(c) \/ Arm(c) \/ Granted(c) \/ Refused(c)
SignsIn ==
  \/ SignInStores \/ SignInForgets \/ SignInArms \/ SignInAnswers
  \/ \E a \in Agents : Resume(a)
Environment ==
  \/ TimePasses \/ FloorPasses \/ LoginDeleted \/ Restart \/ BootArms \/ SignInDropped
  \/ \E a \in Agents : StartDropped(a)

Next ==
  \/ \E a \in Agents : Asks(a)
  \/ \E c \in Timers : TimerFires(c)
  \/ \E c \in Callers : Enter(c) \/ Exchanges(c) \/ Answers(c)
  \/ SignsIn
  \/ Environment

Spec == Init /\ [][Next]_vars

\* tokio's mutex is fair and every exchange ends, at the latest by its timeout;
\* nobody is obliged to sign in, to start an agent or to fail.
Fairness == \A c \in Callers : SF_vars(Enter(c)) /\ WF_vars(Exchanges(c) \/ Answers(c))
FairSpec == Spec /\ Fairness

-----------------------------------------------------------------------------
Busy == signin # "idle" \/ \E c \in Callers : pc[c] # "idle"
Pending == timer = "armed" \/ Busy  \* a renewal will come, or somebody is deciding on it

\* A login gets into the vault by a sign-in or as the renewal of the login that
\* is there: whatever was saved or deleted during an exchange stays
\* (vault.rs replace_session_if).
LoginsFollowOn ==
  [][vault' # None => Lineage' = Lineage \/ (Lineage' = issued' /\ issued' = issued + 1)]_vars

\* A login with more than the lead left always has its renewal scheduled, through
\* hang-ups, failures, deletions and restarts; and so has one whose renewal failed
\* for a reason that may pass, for as long as it runs (ensure_fresh, arm_renewal).
\* The exception is the code's: a timer that wakes while turns are paused for an
\* update is spent, and until somebody else asks nothing is armed in its place.
RenewalIsScheduled ==
  booted /\ vault # None /\
    (\/ vault.life = "fresh"
     \/ vault.life = "near" /\ failure # None /\ failure.kind = "transient" /\ failure.of = vault.by)
  => Pending \/ timer = "missed"

\* Children that fail together cost one exchange: nobody spends the refresh token
\* of a login that has more than the lead left (renew_if_still).
FreshNotRenewed == \A c \in Callers : pc[c] \in Exchanging => sess[c].life # "fresh"

\* With nobody asking, the engine stops: it tries again until MaxAttempts failures
\* in a row could not be read, and after that only what was set before can fail,
\* once each (Broker.attempts).
EngineGivesUp == alone <= MaxAttempts + Cardinality(Timers)

\* Every call of ensure_fresh is answered: no dropped start, failed exchange or
\* sign-in keeps the lineage lock from the next caller.
CallersReturn == \A c \in Callers : pc[c] = "wait" ~> pc[c] = "idle"
====
