---- MODULE MessageStoreProofs ----
(***************************************************************************)
(* Every statement the supervisor runs on the messages table keeps the     *)
(* rows well formed and moves each of them legally, whatever the number of *)
(* messages, the requeue cap and the order of the calls.                   *)
(***************************************************************************)
EXTENDS MessageStore, FiniteSetTheorems, TLAPS

Bounded(r) == r \in Row /\ r.requeues <= MaxLimitRequeues

WellFormed(rows) == rows \in [Msgs -> Row] /\ \A m \in Msgs : Bounded(rows[m])

\* One statement, or a block of them that no other thread can look into.
LegalStep(old, new) ==
  WellFormed(new) /\ \A m \in Msgs : Legal(old[m], new[m])

RowStep(r, q) == Bounded(q) /\ Legal(r, q)

-----------------------------------------------------------------------------
(* One row. *)

\* advance and the flag of mark_error keep to can_advance_to, and never take an
\* error back.
LEMMA AdvanceStep ==
  ASSUME NEW r, Bounded(r)
  PROVE  /\ RowStep(r, r)
         /\ r.state # "absent" => /\ RowStep(r, DeliverRow(r))
                                  /\ RowStep(r, CompleteRow(r))
                                  /\ RowStep(r, MarkErrorRow(r))
  BY DEF Bounded, RowStep, Legal, Moves, Row, States, DeliverRow, CompleteRow,
         MarkErrorRow, Advance, CanAdvance

\* The backward transitions move a delivered row and nothing else.
LEMMA RequeueStep ==
  ASSUME NEW r, Bounded(r)
  PROVE  RowStep(r, RequeueRow(r)) /\ RowStep(r, InterruptRow(r))
  BY DEF Bounded, RowStep, Legal, Moves, Row, States, RequeueRow, InterruptRow

\* claim_notification after a statement that left the request as it was.
LEMMA ClaimStep ==
  ASSUME NEW r, Bounded(r), r.state # "absent",
         NEW q, RowStep(r, q), q.notify = r.notify
  PROVE  RowStep(r, ClaimRow(q))
  BY DEF Bounded, RowStep, Legal, Moves, Row, States, ClaimRow

\* requeue_for_limit, with the mark_error of a message at its cap.
LEMMA LimitStep ==
  ASSUME NEW r, Bounded(r)
  PROVE  /\ RowStep(r, LimitRow(r))
         /\ LimitCapReached(r) => /\ RowStep(r, MarkErrorRow(LimitRow(r)))
                                  /\ RowStep(r, ClaimRow(MarkErrorRow(LimitRow(r))))
  <1>0. MaxLimitRequeues \in Nat
    BY StoreAssumption
  <1>1. CASE LimitCapReached(r)
    <2>1. LimitRow(r) = r /\ r.state = "delivered"
      BY <1>1 DEF LimitRow, LimitCapReached
    <2>2. RowStep(r, LimitRow(r)) /\ RowStep(r, MarkErrorRow(LimitRow(r)))
      BY <2>1, AdvanceStep
    <2>3. MarkErrorRow(r).notify = r.notify
      BY DEF Bounded, Row, MarkErrorRow, CompleteRow, Advance
    <2> QED
      BY <2>1, <2>2, <2>3, ClaimStep
  <1>2. CASE ~LimitCapReached(r) /\ r.state = "delivered"
    <2> DEFINE q == [r EXCEPT !.state = "queued", !.requeues = r.requeues + 1]
    <2>1. LimitRow(r) = q
      BY <1>2 DEF LimitRow
    <2>2. r.requeues + 1 \in Nat /\ r.requeues + 1 <= MaxLimitRequeues
      BY <1>2, <1>0 DEF LimitCapReached, Bounded, Row
    <2>3. q \in Row
      <3>1. \A n \in Nat : [r EXCEPT !.state = "queued", !.requeues = n] \in Row
        BY DEF Bounded, Row, States
      <3> QED BY <2>2, <3>1
    <2>4. /\ q.state = "queued" /\ q.requeues = r.requeues + 1
          /\ q.notify = r.notify /\ q.rowid = r.rowid /\ q.isError = r.isError
      BY DEF Bounded, Row
    <2>5. Bounded(q) /\ Legal(r, q)
      <3> HIDE DEF q
      <3> QED BY <1>2, <2>2, <2>3, <2>4 DEF Bounded, Legal, Moves
    <2> HIDE DEF q
    <2> QED
      BY <1>2, <2>1, <2>5 DEF RowStep, LimitCapReached
  <1>3. CASE r.state # "delivered"
    BY <1>3, AdvanceStep DEF LimitRow, LimitCapReached
  <1> QED
    BY <1>1, <1>2, <1>3

-----------------------------------------------------------------------------
(* The whole table. *)

\* A row no statement touches stays as it is.
LEMMA Untouched ==
  ASSUME NEW rows, WellFormed(rows)
  PROVE  LegalStep(rows, rows)
  BY AdvanceStep DEF WellFormed, LegalStep, RowStep

\* A table assembled from legal rows is a legal table.
LEMMA Assembled ==
  ASSUME NEW rows, WellFormed(rows), NEW new, new = [m \in Msgs |-> new[m]],
         \A m \in Msgs : RowStep(rows[m], new[m])
  PROVE  LegalStep(rows, new)
  <1>1. \A m \in Msgs : new[m] \in Row
    BY DEF RowStep, Bounded
  <1> QED
    BY <1>1 DEF LegalStep, WellFormed, RowStep

\* No statement but enqueue makes a row appear, and none makes one disappear.
LEMMA AbsentKept ==
  ASSUME NEW rows, NEW new, LegalStep(rows, new),
         \A m \in Absent(rows) : new[m] = rows[m]
  PROVE  Absent(new) = Absent(rows)
  BY DEF LegalStep, Legal, Moves, Absent, InState

\* advance, complete and mark_error.
LEMMA AdvancesLegally ==
  ASSUME NEW rows, WellFormed(rows), NEW S
  PROVE  /\ LegalStep(rows, MarkDelivered(rows, S))
         /\ LegalStep(rows, Complete(rows, S))
         /\ LegalStep(rows, MarkError(rows, S))
  <1>1. \A m \in Msgs :
          /\ RowStep(rows[m], rows[m])
          /\ m \notin Absent(rows) => /\ RowStep(rows[m], DeliverRow(rows[m]))
                                      /\ RowStep(rows[m], CompleteRow(rows[m]))
                                      /\ RowStep(rows[m], MarkErrorRow(rows[m]))
    BY AdvanceStep DEF WellFormed, Absent, InState
  <1>2. LegalStep(rows, MarkDelivered(rows, S))
    BY <1>1, Assembled DEF MarkDelivered, Update
  <1>3. LegalStep(rows, Complete(rows, S))
    BY <1>1, Assembled DEF Complete, Update
  <1>4. LegalStep(rows, MarkError(rows, S))
    BY <1>1, Assembled DEF MarkError, Update
  <1> QED BY <1>2, <1>3, <1>4

\* requeue_undelivered, requeue_all_undelivered, consume_all_delivered_as_interrupted.
LEMMA RequeuesLegally ==
  ASSUME NEW rows, WellFormed(rows), NEW S
  PROVE  /\ LegalStep(rows, RequeueUndelivered(rows, S))
         /\ LegalStep(rows, RequeueAllUndelivered(rows))
         /\ LegalStep(rows, ConsumeAllDeliveredAsInterrupted(rows))
  <1>1. \A m \in Msgs : /\ RowStep(rows[m], rows[m])
                        /\ RowStep(rows[m], RequeueRow(rows[m]))
                        /\ RowStep(rows[m], InterruptRow(rows[m]))
    BY AdvanceStep, RequeueStep DEF WellFormed
  <1>2. LegalStep(rows, RequeueUndelivered(rows, S))
    BY <1>1, Assembled DEF RequeueUndelivered, Update
  <1>3. LegalStep(rows, RequeueAllUndelivered(rows))
    BY <1>1, Assembled DEF RequeueAllUndelivered, Update
  <1>4. LegalStep(rows, ConsumeAllDeliveredAsInterrupted(rows))
    BY <1>1, Assembled DEF ConsumeAllDeliveredAsInterrupted, Update
  <1> QED BY <1>2, <1>3, <1>4

\* settle_turn followed by notify_sender.
LEMMA SettlesLegally ==
  ASSUME NEW rows, WellFormed(rows), NEW S
  PROVE  /\ LegalStep(rows, ClaimNotification(Complete(rows, S), S))
         /\ LegalStep(rows, ClaimNotification(MarkError(rows, S), S))
  <1>1. \A m \in Msgs :
          /\ RowStep(rows[m], rows[m])
          /\ m \notin Absent(rows) => /\ RowStep(rows[m], ClaimRow(CompleteRow(rows[m])))
                                      /\ RowStep(rows[m], ClaimRow(MarkErrorRow(rows[m])))
    <2> TAKE m \in Msgs
    <2>1. Bounded(rows[m]) /\ (m \notin Absent(rows) => rows[m].state # "absent")
      BY DEF WellFormed, Absent, InState
    <2>2. /\ CompleteRow(rows[m]).notify = rows[m].notify
          /\ MarkErrorRow(rows[m]).notify = rows[m].notify
      BY <2>1 DEF Bounded, Row, MarkErrorRow, CompleteRow, Advance
    <2> QED BY <2>1, <2>2, AdvanceStep, ClaimStep
  <1>2. Absent(Complete(rows, S)) = Absent(rows)
    <2>1. \A m \in Absent(rows) : Complete(rows, S)[m] = rows[m]
      BY DEF Complete, Update, Absent, InState
    <2> QED BY <2>1, AdvancesLegally, AbsentKept
  <1>3. Absent(MarkError(rows, S)) = Absent(rows)
    <2>1. \A m \in Absent(rows) : MarkError(rows, S)[m] = rows[m]
      BY DEF MarkError, Update, Absent, InState
    <2> QED BY <2>1, AdvancesLegally, AbsentKept
  <1>4. LegalStep(rows, ClaimNotification(Complete(rows, S), S))
    <2> DEFINE one == Complete(rows, S)
               two == ClaimNotification(one, S)
    <2>1. \A m \in Msgs : one[m] = IF m \in S \ Absent(rows)
                                  THEN CompleteRow(rows[m]) ELSE rows[m]
      BY DEF Complete, Update
    <2>2. Absent(one) = Absent(rows)
      BY <1>2
    <2> HIDE DEF one
    <2>3. two = [m \in Msgs |-> IF m \in S \ Absent(rows)
                               THEN ClaimRow(CompleteRow(rows[m])) ELSE rows[m]]
      BY <2>1, <2>2 DEF ClaimNotification, Update
    <2> HIDE DEF two
    <2>4. LegalStep(rows, two)
      BY <1>1, <2>3, Assembled
    <2> QED BY <2>4 DEF two, one
  <1>5. LegalStep(rows, ClaimNotification(MarkError(rows, S), S))
    <2> DEFINE one == MarkError(rows, S)
               two == ClaimNotification(one, S)
    <2>1. \A m \in Msgs : one[m] = IF m \in S \ Absent(rows)
                                  THEN MarkErrorRow(rows[m]) ELSE rows[m]
      BY DEF MarkError, Update
    <2>2. Absent(one) = Absent(rows)
      BY <1>3
    <2> HIDE DEF one
    <2>3. two = [m \in Msgs |-> IF m \in S \ Absent(rows)
                               THEN ClaimRow(MarkErrorRow(rows[m])) ELSE rows[m]]
      BY <2>1, <2>2 DEF ClaimNotification, Update
    <2> HIDE DEF two
    <2>4. LegalStep(rows, two)
      BY <1>1, <2>3, Assembled
    <2> QED BY <2>4 DEF two, one
  <1> QED BY <1>4, <1>5

\* requeue_limited: the capped ones are consumed and claimed in the same block.
LEMMA LimitsLegally ==
  ASSUME NEW rows, WellFormed(rows), NEW S, NEW C,
         \A m \in C : LimitCapReached(rows[m])
  PROVE  LegalStep(rows, ClaimNotification(MarkError(RequeueForLimit(rows, S), C), C))
  <1>1. \A m \in Msgs : /\ RowStep(rows[m], rows[m])
                        /\ RowStep(rows[m], LimitRow(rows[m]))
                        /\ LimitCapReached(rows[m]) =>
                             /\ LimitRow(rows[m]) = rows[m]
                             /\ RowStep(rows[m], ClaimRow(MarkErrorRow(rows[m])))
    <2> TAKE m \in Msgs
    <2>1. Bounded(rows[m])
      BY DEF WellFormed
    <2>2. LimitCapReached(rows[m]) => LimitRow(rows[m]) = rows[m]
      BY DEF LimitRow
    <2> QED BY <2>1, <2>2, AdvanceStep, LimitStep
  <1>2. Absent(RequeueForLimit(rows, S)) = Absent(rows)
    <2>1. LegalStep(rows, RequeueForLimit(rows, S))
      BY <1>1, Assembled DEF RequeueForLimit, Update
    <2>2. \A m \in Absent(rows) : RequeueForLimit(rows, S)[m] = rows[m]
      BY DEF RequeueForLimit, Update, Absent, InState
    <2> QED BY <2>1, <2>2, AbsentKept
  <1> DEFINE mid == RequeueForLimit(rows, S)
             one == MarkError(mid, C)
             two == ClaimNotification(one, C)
  <1>3. \A m \in Msgs : m \in C => mid[m] = rows[m] /\ rows[m].state # "absent"
    BY <1>1 DEF RequeueForLimit, Update, LimitCapReached
  <1>4. one = [m \in Msgs |-> IF m \in C THEN MarkErrorRow(rows[m]) ELSE mid[m]]
    BY <1>2, <1>3 DEF MarkError, Update, Absent, InState
  <1>5. \A m \in Msgs : m \in C => one[m].state # "absent"
    <2> HIDE DEF one
    <2>1. \A m \in Msgs : m \in C => RowStep(rows[m], MarkErrorRow(rows[m]))
      BY <1>3, AdvanceStep DEF WellFormed
    <2> QED BY <1>3, <1>4, <2>1 DEF RowStep, Legal, Moves
  <1>6. two = [m \in Msgs |-> IF m \in C THEN ClaimRow(MarkErrorRow(rows[m])) ELSE mid[m]]
    <2> HIDE DEF one, mid
    <2> QED BY <1>4, <1>5 DEF ClaimNotification, Update, Absent, InState
  <1>7. \A m \in Msgs : RowStep(rows[m], mid[m])
    BY <1>1 DEF RequeueForLimit, Update
  <1> HIDE DEF mid, two
  <1>8. \A m \in Msgs : RowStep(rows[m], two[m])
    BY <1>1, <1>6, <1>7
  <1>9. LegalStep(rows, two)
    BY <1>6, <1>8, Assembled
  <1> QED BY <1>9 DEF two, mid

\* quarantine, of messages that wait in the queue, and the claim that follows.
LEMMA QuarantinesLegally ==
  ASSUME NEW rows, WellFormed(rows), NEW S, S \subseteq Queued(rows)
  PROVE  LegalStep(rows, ClaimNotification(Quarantine(rows, S), S))
  <1>1. \A m \in Msgs : /\ RowStep(rows[m], rows[m])
                        /\ m \in S => RowStep(rows[m], ClaimRow(QuarantineRow(rows[m])))
    <2> TAKE m \in Msgs
    <2>1. Bounded(rows[m])
      BY DEF WellFormed
    <2>2. rows[m].state = "queued" => RowStep(rows[m], QuarantineRow(rows[m]))
      BY <2>1 DEF RowStep, Bounded, Legal, Moves, Row, States, QuarantineRow
    <2>3. QuarantineRow(rows[m]).notify = rows[m].notify
      BY <2>1 DEF Bounded, Row, QuarantineRow
    <2> QED BY <2>1, <2>2, <2>3, AdvanceStep, ClaimStep DEF Queued, InState
  <1>2. \A m \in S : m \notin Absent(rows)
    BY DEF Queued, Absent, InState
  <1>3. \A m \in Msgs : Quarantine(rows, S)[m] =
                         IF m \in S THEN QuarantineRow(rows[m]) ELSE rows[m]
    BY <1>2 DEF Quarantine, Update
  <1>4. \A m \in S \cap Msgs : Quarantine(rows, S)[m].state # "absent"
    BY <1>3 DEF WellFormed, Bounded, Row, QuarantineRow
  <1> DEFINE q == ClaimNotification(Quarantine(rows, S), S)
  <1>5. q = [m \in Msgs |-> IF m \in S THEN ClaimRow(QuarantineRow(rows[m])) ELSE rows[m]]
    BY <1>3, <1>4 DEF ClaimNotification, Update, Absent, InState
  <1> HIDE DEF q
  <1>6. LegalStep(rows, q)
    BY <1>1, <1>5, Assembled
  <1> QED BY <1>6 DEF q

\* The queue hands out only what waits in it.
LEMMA PicksFromTheQueue ==
  ASSUME NEW rows, NEW n, NEW aged
  PROVE  NextForDelivery(rows, n, aged) \subseteq Queued(rows)
  BY DEF NextForDelivery, Oldest

\* enqueue of a message that was not there.
LEMMA EnqueuesLegally ==
  ASSUME NEW rows, WellFormed(rows), NEW m \in Absent(rows)
  PROVE  LegalStep(rows, Enqueue(rows, m))
  <1> DEFINE k == Cardinality(Msgs \ Absent(rows)) + 1
             q == [state |-> "queued", isError |-> FALSE,
                   notify |-> IF m \in NotifyMsgs THEN 1 ELSE 0,
                   requeues |-> 0, rowid |-> k]
  <1>1. k \in Nat
    <2>1. IsFiniteSet(Msgs \ Absent(rows))
      BY StoreAssumption, FS_Difference
    <2> QED BY <2>1, FS_CardinalityType
  <1>2. m \in Msgs /\ rows[m].state = "absent" /\ Bounded(rows[m])
    BY DEF Absent, InState, WellFormed
  <1>3. Bounded(q)
    <2> HIDE DEF k
    <2>1. q \in Row
      BY <1>1 DEF Row, States
    <2> QED BY <2>1, StoreAssumption DEF Bounded
  <1>4. Legal(rows[m], q)
    <2> HIDE DEF k
    <2> QED BY <1>2 DEF Legal
  <1>5. Enqueue(rows, m) = [n \in Msgs |-> IF n = m THEN q ELSE rows[n]]
    <2> HIDE DEF q
    <2>1. rows = [n \in Msgs |-> rows[n]]
      BY DEF WellFormed
    <2>2. Enqueue(rows, m) = [rows EXCEPT ![m] = q]
      BY DEF Enqueue, q
    <2> QED BY <2>1, <2>2
  <1>6. \A n \in Msgs : RowStep(rows[n], rows[n])
    BY AdvanceStep DEF WellFormed
  <1> HIDE DEF q
  <1> QED
    BY <1>3, <1>4, <1>5, <1>6, Assembled DEF RowStep
====
