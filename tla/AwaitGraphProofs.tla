---- MODULE AwaitGraphProofs ----
(***************************************************************************)
(* For every project, every number of handlers and every cap: the waits    *)
(* that `begin` admits never close on themselves, and the graph holds the  *)
(* waits that are still open and no others.                                *)
(***************************************************************************)
EXTENDS AwaitGraph, TLAPS

\* What makes the invariants inductive: a handler that got past `begin` knows
\* its two ends, and so does every message that exists or that a turn is on;
\* the two differ.
CallsKnown ==
  /\ \A a \in Agents : turn[a] \in Calls => call[turn[a]] # None
  /\ \A h \in Calls : pc[h] \in Open => call[h] # None
  /\ \A m \in Calls : rows[m] # "absent" => call[m] # None
  /\ \A h \in Calls : call[h] # None => call[h].waiter # call[h].target

Inv == TypeOK /\ EdgesAreOpenWaits /\ CallsKnown /\ NoWaitCycle

-----------------------------------------------------------------------------
(* The graph: what an edge more or less does to it. *)

\* Dropping waits closes nothing.
LEMMA FewerWaits ==
  ASSUME NEW E, NEW F \in SUBSET E, Acyclic(E)
  PROVE  Acyclic(F)
  BY DEF Acyclic

\* The wait from a to b closes nothing when no chain leads from b to a: the
\* nodes that b waits for, directly or through others, do without a.
LEMMA OneMoreWait ==
  ASSUME NEW E, NEW a \in Nodes, NEW b \in Nodes, a # b,
         Acyclic(E), ~Chain(E, b, a)
  PROVE  Acyclic(E \cup {<<a, b>>})
  <1>1. PICK R \in SUBSET Nodes :
          /\ \A e \in E : e[1] \in R \cup {b} => e[2] \in R
          /\ a \notin R
    BY DEF Chain
  <1> SUFFICES ASSUME NEW S \in SUBSET Nodes, S # {}
               PROVE  \E n \in S : \A e \in E \cup {<<a, b>>} :
                                     e[1] = n => e[2] \notin S
    BY DEF Acyclic
  <1>2. CASE S \cap (R \cup {b}) = {}
    <2>1. PICK n \in S : \A e \in E : e[1] = n => e[2] \notin S
      BY DEF Acyclic
    <2> QED BY <1>2, <2>1
  <1>3. CASE S \cap (R \cup {b}) # {}
    <2> DEFINE T == S \cap (R \cup {b})
    <2>1. PICK n \in T : \A e \in E : e[1] = n => e[2] \notin T
      BY <1>3 DEF Acyclic
    <2>2. \A e \in E : e[1] = n => e[2] \notin S
      BY <1>1, <2>1
    <2>3. n \in S /\ n # a
      BY <1>1, <2>1
    <2> QED BY <2>2, <2>3
  <1> QED BY <1>2, <1>3

-----------------------------------------------------------------------------
(* What the steps of a handler do to the graph. *)

\* A handler that gives up its edge, or one that keeps its two ends, adds none.
LEMMA ReturnDropsAWait ==
  ASSUME TypeOK, NEW h \in Calls, Return(h)
  PROVE  Waits' \in SUBSET Waits
  <1>1. \A g \in Calls : edge'[g] = IF g = h THEN None ELSE edge[g]
    BY DEF Return, TypeOK
  <1> QED BY <1>1 DEF Waits

LEMMA AdmittedWait ==
  ASSUME TypeOK, NEW h \in Calls, NEW a \in Nodes, NEW b \in Agents,
         edge' = [edge EXCEPT ![h] = [waiter |-> a, target |-> b, message |-> None]]
  PROVE  Waits' \in SUBSET (Waits \cup {<<a, b>>})
  <1>1. \A g \in Calls :
          edge'[g] = IF g = h THEN [waiter |-> a, target |-> b, message |-> None]
                     ELSE edge[g]
    BY DEF TypeOK
  <1> QED BY <1>1 DEF Waits

\* `begin`, whoever calls it, keeps the invariant, whatever becomes of the row.
LEMMA BeginKeepsInv ==
  ASSUME Inv, NEW h \in Calls, NEW a \in Nodes, NEW b \in Agents, NEW m \in Calls,
         a # b, Begin(h, a, b, m), UNCHANGED <<turn, rx>>,
         rows' = rows \/ (pc'[h] = "begun" /\ rows' = [rows EXCEPT ![h] = "queued"])
  PROVE  Inv'
  <1> DEFINE new == [waiter |-> a, target |-> b, message |-> None]
             asked == [waiter |-> a, target |-> b, message |-> m]
  <1>1. CASE TooMany(a) \/ Chain(Waits, b, a)
    <2>1. /\ pc[h] = "new" /\ pc' = [pc EXCEPT ![h] = "refused"]
          /\ UNCHANGED <<edge, call>>
      BY <1>1 DEF Begin
    <2>2. rows' = rows
      BY <2>1 DEF Inv, TypeOK
    <2>3. TypeOK'
      BY <2>1, <2>2 DEF Inv, TypeOK, Closed
    <2>4. EdgesAreOpenWaits' /\ CallsKnown'
      BY <2>1, <2>2 DEF Inv, TypeOK, EdgesAreOpenWaits, CallsKnown, Open
    <2>5. NoWaitCycle'
      BY <2>1 DEF Inv, NoWaitCycle, Waits
    <2> QED BY <2>3, <2>4, <2>5 DEF Inv
  <1>2. CASE ~(TooMany(a) \/ Chain(Waits, b, a))
    <2>1. /\ pc[h] = "new" /\ pc' = [pc EXCEPT ![h] = "begun"]
          /\ call' = [call EXCEPT ![h] = asked]
          /\ edge' = [edge EXCEPT ![h] = new]
      BY <1>2 DEF Begin
    <2>2. new \in Edge /\ new # None /\ asked \in [waiter : Nodes, target : Agents, message : Calls]
      BY AwaitAssumption DEF Edge
    <2>3. asked # None
      BY AwaitAssumption DEF Edge
    <2>4. TypeOK'
      BY <2>1, <2>2 DEF Inv, TypeOK, Open
    <2>5. \A g \in Calls : g # h => edge'[g] = edge[g] /\ pc'[g] = pc[g] /\ call'[g] = call[g]
      BY <2>1 DEF Inv, TypeOK
    <2>6. edge'[h] = new /\ pc'[h] = "begun" /\ call'[h] = asked
      BY <2>1 DEF Inv, TypeOK
    <2>7. EdgesAreOpenWaits'
      BY <2>2, <2>5, <2>6 DEF Inv, EdgesAreOpenWaits, Open
    <2>8. CallsKnown'
      BY <2>3, <2>5, <2>6 DEF Inv, TypeOK, CallsKnown
    <2>9. NoWaitCycle'
      <3>1. Acyclic(Waits \cup {<<a, b>>})
        BY <1>2, OneMoreWait DEF Inv, NoWaitCycle, Nodes
      <3>2. Waits' \in SUBSET (Waits \cup {<<a, b>>})
        BY <2>1, AdmittedWait DEF Inv
      <3> QED BY <3>1, <3>2, FewerWaits DEF NoWaitCycle, Acyclic
    <2> QED BY <2>4, <2>7, <2>8, <2>9 DEF Inv
  <1> QED BY <1>1, <1>2

\* A wait that comes back, however it does.
LEMMA ReturnKeepsInv ==
  ASSUME Inv, NEW h \in Calls, Return(h), UNCHANGED <<call, rows, turn>>
  PROVE  Inv'
  <1>1. TypeOK'
    BY DEF Inv, TypeOK, Return, Closed
  <1>2. EdgesAreOpenWaits'
    BY DEF Inv, TypeOK, EdgesAreOpenWaits, Return, Open
  <1>3. CallsKnown'
    BY DEF Inv, TypeOK, CallsKnown, Return, Open
  <1>4. NoWaitCycle'
    BY ReturnDropsAWait, FewerWaits DEF Inv, NoWaitCycle, Acyclic
  <1> QED BY <1>1, <1>2, <1>3, <1>4 DEF Inv

\* A handler that only moves on, its edge and its row as they were.
LEMMA MoveKeepsInv ==
  ASSUME Inv, NEW h \in Calls, pc[h] \in Open, NEW p \in Open,
         pc' = [pc EXCEPT ![h] = p],
         NEW x \in {"off", "empty", "mine", "lagged"},
         rx' = [rx EXCEPT ![h] = x] \/ rx' = rx,
         UNCHANGED <<edge, call, rows, turn>>
  PROVE  Inv'
  <1>1. TypeOK'
    BY DEF Inv, TypeOK
  <1>2. EdgesAreOpenWaits' /\ CallsKnown'
    BY DEF Inv, TypeOK, EdgesAreOpenWaits, CallsKnown
  <1>3. NoWaitCycle'
    BY DEF Inv, NoWaitCycle, Waits
  <1> QED BY <1>1, <1>2, <1>3 DEF Inv

LEMMA SubscribeKeepsInv ==
  ASSUME Inv, NEW h \in Calls, Subscribe(h)
  PROVE  Inv'
  <1>1. edge[h] \in Edge /\ call[h] \in [waiter : Nodes, target : Agents, message : Calls]
    BY DEF Inv, TypeOK, EdgesAreOpenWaits, CallsKnown, Subscribe, Open
  <1>2. [edge[h] EXCEPT !.message = call[h].message] \in Edge
    BY <1>1 DEF Edge
  <1>3. /\ edge'[h] = [edge[h] EXCEPT !.message = call[h].message]
        /\ \A g \in Calls : g # h => edge'[g] = edge[g]
    BY DEF Subscribe, Inv, TypeOK
  <1>4. /\ edge'[h].waiter = edge[h].waiter
        /\ edge'[h].target = edge[h].target
        /\ edge'[h].message = call[h].message
        /\ edge'[h] # None
    BY <1>1, <1>2, <1>3, AwaitAssumption DEF Edge
  <1>5. TypeOK'
    BY <1>2 DEF Subscribe, Inv, TypeOK, Open
  <1>6. EdgesAreOpenWaits'
    BY <1>3, <1>4 DEF Subscribe, Inv, TypeOK, EdgesAreOpenWaits, Open
  <1>7. CallsKnown'
    BY DEF Subscribe, Inv, TypeOK, CallsKnown, Open
  <1>8. NoWaitCycle'
    <2>1. edge[h] # None
      BY DEF Subscribe, Inv, EdgesAreOpenWaits, Open
    <2>2. \A g \in Calls : /\ edge'[g] # None <=> edge[g] # None
                          /\ edge'[g].waiter = edge[g].waiter
                          /\ edge'[g].target = edge[g].target
      BY <1>3, <1>4, <2>1
    <2>3. Waits' \in SUBSET Waits
      BY <2>2 DEF Waits
    <2> QED BY <2>3, FewerWaits DEF Inv, NoWaitCycle, Acyclic
  <1> QED BY <1>5, <1>6, <1>7, <1>8 DEF Inv

-----------------------------------------------------------------------------
(* What the turns do: rows and subscriptions change, the waits do not. *)

LEMMA TurnKeepsInv ==
  ASSUME Inv, UNCHANGED <<edge, pc, call>>,
         turn' \in [Agents -> Calls \cup {None, Other}],
         rows' \in [Calls -> {"absent", "queued", "delivered", "settled"}],
         rx' \in [Calls -> {"off", "empty", "mine", "lagged"}],
         \A m \in Calls : rows'[m] # rows[m] => call[m] # None,
         \A a \in Agents : turn'[a] # turn[a] /\ turn'[a] \in Calls => call[turn'[a]] # None
  PROVE  Inv'
  <1>1. TypeOK'
    BY DEF Inv, TypeOK
  <1>2. EdgesAreOpenWaits'
    BY DEF Inv, EdgesAreOpenWaits
  <1>3. CallsKnown'
    BY DEF Inv, CallsKnown
  <1>4. NoWaitCycle'
    BY DEF Inv, NoWaitCycle, Waits
  <1> QED BY <1>1, <1>2, <1>3, <1>4 DEF Inv

LEMMA PublishOK ==
  ASSUME TypeOK, NEW m, Publish(m)
  PROVE  rx' \in [Calls -> {"off", "empty", "mine", "lagged"}]
  BY DEF TypeOK, Publish

LEMMA TakeTurnKeepsInv ==
  ASSUME Inv, NEW m \in Calls, TakeTurn(m)
  PROVE  Inv'
  <1>1. call[m] # None
    BY DEF Inv, CallsKnown, TakeTurn
  <1>2. rx' \in [Calls -> {"off", "empty", "mine", "lagged"}]
    BY PublishOK DEF Inv, TakeTurn
  <1>3. /\ turn' \in [Agents -> Calls \cup {None, Other}]
        /\ rows' \in [Calls -> {"absent", "queued", "delivered", "settled"}]
        /\ \A n \in Calls : rows'[n] # rows[n] => call[n] # None
        /\ \A a \in Agents : turn'[a] # turn[a] => turn'[a] = m
    BY <1>1 DEF Inv, TypeOK, TakeTurn
  <1> QED BY <1>1, <1>2, <1>3, TurnKeepsInv DEF TakeTurn

LEMMA EndTurnKeepsInv ==
  ASSUME Inv, NEW a \in Agents, EndTurn(a) \/ Requeue(a)
  PROVE  Inv'
  <1>1. turn' = [turn EXCEPT ![a] = None] /\ UNCHANGED <<edge, pc, call>>
    BY DEF EndTurn, Requeue
  <1>2. CASE turn[a] = Other /\ UNCHANGED <<rows, rx>>
    BY <1>1, <1>2, TurnKeepsInv, AwaitAssumption DEF Inv, TypeOK
  <1>3. CASE turn[a] # Other \/ ~UNCHANGED <<rows, rx>>
    <2>1. turn[a] \in Calls
      BY <1>3, AwaitAssumption DEF EndTurn, Requeue, Inv, TypeOK
    <2>2. call[turn[a]] # None
      BY <2>1 DEF Inv, CallsKnown
    <2>3. /\ Publish(turn[a])
          /\ \E s \in {"queued", "settled"} : rows' = [rows EXCEPT ![turn[a]] = s]
      BY <2>1, AwaitAssumption DEF EndTurn, Requeue, Settle
    <2>4. /\ rows' \in [Calls -> {"absent", "queued", "delivered", "settled"}]
          /\ \A n \in Calls : rows'[n] # rows[n] => call[n] # None
      BY <2>2, <2>3 DEF Inv, TypeOK
    <2>5. /\ turn' \in [Agents -> Calls \cup {None, Other}]
          /\ \A b \in Agents : turn'[b] # turn[b] => turn'[b] \notin Calls
      BY <1>1, AwaitAssumption DEF Inv, TypeOK
    <2> QED BY <1>1, <2>3, <2>4, <2>5, PublishOK, TurnKeepsInv DEF Inv
  <1> QED BY <1>2, <1>3

LEMMA OtherTurnKeepsInv ==
  ASSUME Inv, NEW a \in Agents, OtherTurn(a)
  PROVE  Inv'
  <1>1. /\ turn' \in [Agents -> Calls \cup {None, Other}]
        /\ \A b \in Agents : turn'[b] # turn[b] => turn'[b] \notin Calls
    BY AwaitAssumption DEF Inv, TypeOK, OtherTurn
  <1> QED BY <1>1, TurnKeepsInv DEF OtherTurn, Inv, TypeOK

LEMMA LagKeepsInv ==
  ASSUME Inv, NEW h \in Calls, Lag(h)
  PROVE  Inv'
  BY TurnKeepsInv DEF Lag, Inv, TypeOK

-----------------------------------------------------------------------------
LEMMA AskKeepsInv ==
  ASSUME Inv, NEW r \in Asks, Ask(r[1], r[2], r[3])
  PROVE  Inv'
  <1>1. r[1] \in Calls /\ r[2] \in Nodes /\ r[3] \in Agents /\ r[2] # r[3]
    BY AwaitAssumption
  <1>2. /\ Begin(r[1], r[2], r[3], r[1]) /\ UNCHANGED <<turn, rx>>
        /\ \/ rows' = rows
           \/ pc'[r[1]] = "begun" /\ rows' = [rows EXCEPT ![r[1]] = "queued"]
    BY DEF Ask
  <1> QED BY ONLY Inv, <1>1, <1>2, BeginKeepsInv

LEMMA LookKeepsInv ==
  ASSUME Inv, NEW h \in Calls, NEW m \in Calls, Look(h, m)
  PROVE  Inv'
  <1>1. call[m] # None
    BY DEF Look, Inv, CallsKnown
  <1>2. call[m].waiter \in Nodes /\ call[m].target \in Agents
    BY <1>1 DEF Inv, TypeOK
  <1>3. call[m].waiter # call[m].target
    BY <1>1 DEF Inv, CallsKnown
  <1>4. /\ Begin(h, call[m].waiter, call[m].target, m)
        /\ UNCHANGED <<turn, rx>> /\ rows' = rows
    BY DEF Look
  <1> QED BY <1>2, <1>3, <1>4, BeginKeepsInv

LEMMA HandlerKeepsInv ==
  ASSUME Inv, NEW h \in Calls, Handler(h) \/ Deadline(h) \/ ClientGone(h)
  PROVE  Inv'
  <1>1. CASE Subscribe(h)
    BY <1>1, SubscribeKeepsInv
  <1>2. CASE Read(h)
    <2>1. CASE rows[call[h].message] = "settled"
      BY <1>2, <2>1, ReturnKeepsInv DEF Read
    <2>2. CASE rows[call[h].message] # "settled"
      BY <1>2, <2>2, MoveKeepsInv DEF Read, Open
    <2> QED BY <2>1, <2>2
  <1>3. CASE Receive(h)
    BY <1>3, MoveKeepsInv DEF Receive, Open
  <1>4. CASE Deadline(h)
    BY <1>4, ReturnKeepsInv DEF Deadline
  <1>5. CASE ClientGone(h)
    BY <1>5, ReturnKeepsInv DEF ClientGone
  <1> QED BY <1>1, <1>2, <1>3, <1>4, <1>5 DEF Handler

LEMMA InitInv == Init => Inv
  <1> SUFFICES ASSUME Init
               PROVE  Inv
    OBVIOUS
  <1>1. TypeOK /\ EdgesAreOpenWaits
    BY DEF Init, TypeOK, EdgesAreOpenWaits, Open
  <1>2. CallsKnown
    BY AwaitAssumption DEF Init, CallsKnown, Open
  <1>3. Waits = {}
    BY DEF Init, Waits
  <1>4. NoWaitCycle
    BY <1>3 DEF NoWaitCycle, Acyclic
  <1> QED BY <1>1, <1>2, <1>4 DEF Inv

LEMMA NextInv == Inv /\ [Next]_vars => Inv'
  <1> SUFFICES ASSUME Inv, [Next]_vars
               PROVE  Inv'
    OBVIOUS
  <1>1. ASSUME NEW r \in Asks, Ask(r[1], r[2], r[3]) PROVE Inv'
    BY <1>1, AskKeepsInv
  <1>2. ASSUME NEW h \in Looks, NEW m \in Calls, Look(h, m) PROVE Inv'
    BY <1>2, LookKeepsInv, AwaitAssumption
  <1>3. ASSUME NEW h \in Calls, Handler(h) \/ Deadline(h) \/ ClientGone(h)
        PROVE  Inv'
    BY <1>3, HandlerKeepsInv
  <1>4. ASSUME NEW h \in Calls, Lag(h) PROVE Inv'
    BY <1>4, LagKeepsInv
  <1>5. ASSUME NEW m \in Calls, TakeTurn(m) PROVE Inv'
    BY <1>5, TakeTurnKeepsInv
  <1>6. ASSUME NEW a \in Agents, OtherTurn(a) \/ EndTurn(a) \/ Requeue(a)
        PROVE  Inv'
    BY <1>6, OtherTurnKeepsInv, EndTurnKeepsInv
  <1>7. ASSUME UNCHANGED vars PROVE Inv'
    BY <1>7 DEF vars, Inv, TypeOK, EdgesAreOpenWaits, CallsKnown, NoWaitCycle, Waits
  <1> QED BY <1>1, <1>2, <1>3, <1>4, <1>5, <1>6, <1>7 DEF Next

LEMMA SpecInv == Spec => []Inv
  BY InitInv, NextInv, PTL DEF Spec

-----------------------------------------------------------------------------
\* Every variable of the wait-for graph and of its handlers keeps its type.
THEOREM AwaitTypes == Spec => []TypeOK
  BY SpecInv, PTL DEF Inv

\* However handlers begin, return, run out and lose their clients, no set of
\* nodes ever waits only for itself: `begin` refuses the wait that would close
\* a ring of any length, and no later step closes one.
THEOREM WaitsNeverCloseOnThemselves == Spec => []NoWaitCycle
  BY SpecInv, PTL DEF Inv

\* The graph holds an edge for each handler still waiting, with the ends it
\* was admitted for, and for no other.
THEOREM GraphIsTheOpenWaits == Spec => []EdgesAreOpenWaits
  BY SpecInv, PTL DEF Inv
====
