---- MODULE MessageStore ----
(***************************************************************************)
(* The `messages` table as one agent sees it: every query of               *)
(* crates/wheel-engine/src/db/messages.rs that the supervisor runs selects *)
(* by recipient or by id, so a model of one agent needs only the rows      *)
(* addressed to it.  Each operator is one function of that file: it maps   *)
(* the table before the statement to the table after it.  A statement runs *)
(* under the engine's single database mutex, so an operator is one atomic  *)
(* step.  `S` is the set of ids a call names: {} or {m} for a call on an   *)
(* optional id, Msgs for a call on every row of the agent.                 *)
(***************************************************************************)
EXTENDS Integers, FiniteSets

CONSTANTS
  Msgs,              \* message ids that may ever be addressed to this agent
  UserMsgs,          \* those the operator sends (from_kind = 'user')
  NotifyMsgs,        \* those whose sender asked for a completion notification
  MaxLimitRequeues,  \* quota.rs MAX_LIMIT_REQUEUES
  UserLaneBurst      \* messages.rs USER_LANE_BURST

ASSUME StoreAssumption ==
  /\ IsFiniteSet(Msgs)
  /\ UserMsgs \subseteq Msgs
  /\ NotifyMsgs \subseteq Msgs
  /\ MaxLimitRequeues \in Nat
  /\ UserLaneBurst \in Nat \ {0}

\* "absent" is a row not inserted yet; the other four are MessageState.
States == {"absent", "queued", "delivered", "consumed", "undeliverable"}

\* rowid is arrival order; notify is 0 (not asked), 1 (asked), 2 (claimed).
Row == [state : States, isError : BOOLEAN, notify : 0..2,
        requeues : Nat, rowid : Nat]

NoRow == [state |-> "absent", isError |-> FALSE, notify |-> 0,
          requeues |-> 0, rowid |-> 0]

InState(rows, s) == {m \in Msgs : rows[m].state = s}
Absent(rows) == InState(rows, "absent")
Queued(rows) == InState(rows, "queued")
HasQueued(rows) == Queued(rows) # {}

\* An UPDATE finds only the rows that exist.
Update(rows, S, F(_)) ==
  [m \in Msgs |-> IF m \in S \ Absent(rows) THEN F(rows[m]) ELSE rows[m]]

\* enqueue; request_notification runs under the same lock when it was asked for.
Enqueue(rows, m) ==
  [rows EXCEPT ![m] = [state |-> "queued", isError |-> FALSE,
                       notify |-> IF m \in NotifyMsgs THEN 1 ELSE 0,
                       requeues |-> 0,
                       rowid |-> Cardinality(Msgs \ Absent(rows)) + 1]]

\* MessageState::can_advance_to, the guard of `advance`.
CanAdvance(from, to) ==
  <<from, to>> \in {<<"queued", "delivered">>, <<"delivered", "consumed">>,
                    <<"queued", "undeliverable">>, <<"delivered", "undeliverable">>}

\* A refused transition leaves the row as it was.
Advance(r, to) == IF CanAdvance(r.state, to) THEN [r EXCEPT !.state = to] ELSE r
DeliverRow(r) == Advance(r, "delivered")
CompleteRow(r) == Advance(r, "consumed")

FlagsOnly(r) == [r EXCEPT !.isError = TRUE] \* mutant: the row stays delivered

\* The error flag is written whether or not the row could be consumed.
MarkErrorRow(r) == [CompleteRow(r) EXCEPT !.isError = TRUE]

RequeuesAny(r) == [r EXCEPT !.state = "queued"] \* mutant: no guard on the state

\* The only way back, for a message whose turn never ran.
RequeueRow(r) ==
  IF r.state = "delivered" THEN [r EXCEPT !.state = "queued"] ELSE r

InterruptRow(r) ==
  IF r.state = "delivered"
  THEN [r EXCEPT !.state = "consumed", !.isError = TRUE] ELSE r

MarkDelivered(rows, S) == Update(rows, S, DeliverRow)
Complete(rows, S) == Update(rows, S, CompleteRow)
MarkError(rows, S) == Update(rows, S, MarkErrorRow)
RequeueUndelivered(rows, S) == Update(rows, S, RequeueRow)
RequeueAllUndelivered(rows) == Update(rows, Msgs, RequeueRow)
ConsumeAllDeliveredAsInterrupted(rows) == Update(rows, Msgs, InterruptRow)

\* The cap is read before the row moves; a capped row stays delivered.
LimitCapReached(r) == r.state = "delivered" /\ r.requeues >= MaxLimitRequeues

Uncapped(r) == \* mutant: the cap is never asked
  IF r.state = "delivered"
  THEN [r EXCEPT !.state = "queued", !.requeues = @ + 1] ELSE r

LimitRow(r) ==
  IF r.state = "delivered" /\ ~LimitCapReached(r)
  THEN [r EXCEPT !.state = "queued", !.requeues = @ + 1] ELSE r

RequeueForLimit(rows, S) == Update(rows, S, LimitRow)

\* The UPDATE moves 1 to 2 for exactly one caller.
ClaimRow(r) == IF r.notify = 1 THEN [r EXCEPT !.notify = 2] ELSE r
ClaimNotification(rows, S) == Update(rows, S, ClaimRow)

\* The one UPDATE with no condition on the state it replaces.
QuarantineRow(r) == [r EXCEPT !.state = "undeliverable"]
Quarantine(rows, S) == Update(rows, S, QuarantineRow)

Oldest(rows, S) == {m \in S : \A n \in S : rows[m].rowid <= rows[n].rowid}

\* The message the delivery loop picks, if the queue has one; `aged` says that
\* the oldest normal-lane message has waited PROMOTE_AFTER_SECS.
NextForDelivery(rows, consecutiveUser, aged) ==
  LET normal == Queued(rows) \ UserMsgs
      user == Queued(rows) \cap UserMsgs
  IN IF normal # {} /\ (aged \/ consecutiveUser >= UserLaneBurst \/ user = {})
     THEN Oldest(rows, normal)
     ELSE Oldest(rows, user)

-----------------------------------------------------------------------------
\* What one statement may do to one row.
Moves == {<<"queued", "delivered">>, <<"delivered", "consumed">>,
          <<"delivered", "queued">>, <<"queued", "undeliverable">>}

Legal(old, new) ==
  \/ new = old
  \/ /\ old.state = "absent" /\ new.state = "queued"
     /\ ~new.isError /\ new.requeues = 0 /\ new.notify < 2
  \/ /\ old.state # "absent" /\ new.rowid = old.rowid
     /\ new.state = old.state \/ <<old.state, new.state>> \in Moves
     /\ old.isError => new.isError
     /\ \/ new.requeues = old.requeues
        \/ /\ old.state = "delivered" /\ new.state = "queued"
           /\ new.requeues = old.requeues + 1
           /\ new.requeues <= MaxLimitRequeues
     /\ \/ new.notify = old.notify
        \/ old.notify = 1 /\ new.notify = 2
====
