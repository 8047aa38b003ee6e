---- MODULE AwaitGraph ----
(***************************************************************************)
(* Asking another agent and waiting for the answer.  A handler of          *)
(* POST /v1/cli/msg with await_secs, of GET /v1/cli/sent with wait, or of  *)
(* POST /v1/agents/:id/send with await_secs takes an edge of the wait-for  *)
(* graph (supervisor/awaits.rs), posts or names the message, subscribes to *)
(* the event bus and reads the row until it is settled or its deadline     *)
(* passes.  The turns of the agents run around it: an agent answers one    *)
(* message at a time and may ask while its own turn runs.                  *)
(***************************************************************************)
EXTENDS Integers, FiniteSets

CONSTANTS
  Agents,               \* the agent nodes of one project
  Operator,             \* agent_routes.rs OPERATOR, the nil id
  Calls,                \* the handlers; a message bears the name of its own
  Asks,                 \* <<handler, from, to>>: who may ask whom with which
  Looks,                \* handlers that may look at an earlier message instead
  MaxConcurrentAwaits,  \* awaits.rs MAX_CONCURRENT_AWAITS
  None, Other           \* no edge, no turn; a turn on a message nobody awaits

Nodes == Agents \cup {Operator}
Edge == [waiter : Nodes, target : Agents, message : Calls \cup {None}]

ASSUME AwaitAssumption ==
  /\ Operator \notin Agents
  /\ MaxConcurrentAwaits \in Nat \ {0}
  /\ None \notin Calls \cup Nodes \cup Edge
  /\ Other \notin Calls \cup {None}
  \* a send wire joins two nodes: wire.rs:217 refuses one from a node to itself
  /\ Asks \in SUBSET {r \in Calls \X Nodes \X Agents : r[2] # r[3]}
  /\ Looks \subseteq Calls

VARIABLES
  edge,   \* the graph: each open wait's [waiter, target, message], or None
  pc,     \* where each handler stands
  call,   \* whom each handler asks, for whom, about which message
  rows,   \* the state of the message each ask posts
  turn,   \* what each agent is working on
  rx      \* what a handler's subscription holds for it

vars == <<edge, pc, call, rows, turn, rx>>

Open == {"begun", "subscribed", "waiting"}
Closed == {"refused", "returned"}

TypeOK ==
  /\ edge \in [Calls -> Edge \cup {None}]
  /\ pc \in [Calls -> {"new"} \cup Open \cup Closed]
  /\ call \in [Calls -> [waiter : Nodes, target : Agents, message : Calls] \cup {None}]
  /\ rows \in [Calls -> {"absent", "queued", "delivered", "settled"}]
  /\ turn \in [Agents -> Calls \cup {None, Other}]
  /\ rx \in [Calls -> {"off", "empty", "mine", "lagged"}]

Init ==
  /\ edge = [h \in Calls |-> None]
  /\ pc = [h \in Calls |-> "new"]
  /\ call = [h \in Calls |-> None]
  /\ rows = [m \in Calls |-> "absent"]
  /\ turn = [a \in Agents |-> None]
  /\ rx = [h \in Calls |-> "off"]

-----------------------------------------------------------------------------
EdgesOf(node) == {h \in Calls : edge[h] # None /\ edge[h].waiter = node}
Waits == {<<edge[h].waiter, edge[h].target>> : h \in {g \in Calls : edge[g] # None}}

DirectOnly(E, from, to) == <<from, to>> \in E \* mutant: only the next wait is seen

\* AwaitGraph::chain: a chain of one wait or more leads from `from` to `to`.
\* Said without recursion: every set of nodes that the waits of `from`, and of
\* its own members, do not leave holds `to`.
Chain(E, from, to) ==
  \A S \in SUBSET Nodes :
    (\A e \in E : e[1] \in S \cup {from} => e[2] \in S) => to \in S

TooMany(a) == Cardinality(EdgesOf(a)) >= MaxConcurrentAwaits

SwapsTheEnds(h, a, b, m) == \* mutant: the edge is recorded the wrong way round
  /\ pc[h] = "new"
  /\ IF TooMany(a) \/ Chain(Waits, b, a)
     THEN pc' = [pc EXCEPT ![h] = "refused"] /\ UNCHANGED <<edge, call>>
     ELSE /\ pc' = [pc EXCEPT ![h] = "begun"]
          /\ call' = [call EXCEPT ![h] = [waiter |-> a, target |-> b, message |-> m]]
          /\ edge' = [edge EXCEPT ![h] = [waiter |-> b, target |-> a, message |-> None]]

\* awaits::begin, under the graph's lock: the cap, the cycle, the edge.
Begin(h, a, b, m) ==
  /\ pc[h] = "new"
  /\ IF TooMany(a) \/ Chain(Waits, b, a)
     THEN pc' = [pc EXCEPT ![h] = "refused"] /\ UNCHANGED <<edge, call>>
     ELSE /\ pc' = [pc EXCEPT ![h] = "begun"]
          /\ call' = [call EXCEPT ![h] = [waiter |-> a, target |-> b, message |-> m]]
          /\ edge' = [edge EXCEPT ![h] = [waiter |-> a, target |-> b, message |-> None]]

\* A caller of the node realm is an agent inside its turn.
CallerRuns(a) == a \in Agents => turn[a] # None

\* msg and send: begin, and enqueue unless refused.
Ask(h, a, b) ==
  /\ CallerRuns(a)
  /\ Begin(h, a, b, h)
  /\ rows' = IF pc'[h] = "begun" THEN [rows EXCEPT ![h] = "queued"] ELSE rows
  /\ UNCHANGED <<turn, rx>>

\* sent: wait for a message posted before, by the same node.
Look(h, m) ==
  /\ rows[m] # "absent"
  /\ call[m].waiter # Operator
  /\ CallerRuns(call[m].waiter)
  /\ Begin(h, call[m].waiter, call[m].target, m)
  /\ UNCHANGED <<rows, turn, rx>>

-----------------------------------------------------------------------------
\* AwaitGuard::set_message, and await_settlement subscribes before it reads.
Subscribe(h) ==
  /\ pc[h] = "begun"
  /\ pc' = [pc EXCEPT ![h] = "subscribed"]
  /\ edge' = [edge EXCEPT ![h].message = call[h].message]
  /\ rx' = [rx EXCEPT ![h] = "empty"]
  /\ UNCHANGED <<call, rows, turn>>

\* Dropping the guard takes the edge out; the receiver goes with the future.
Return(h) ==
  /\ pc' = [pc EXCEPT ![h] = "returned"]
  /\ edge' = [edge EXCEPT ![h] = None]
  /\ rx' = [rx EXCEPT ![h] = "off"]

\* The top of the loop reads the row; a settled one is the answer.
Read(h) ==
  /\ pc[h] = "subscribed"
  /\ IF rows[call[h].message] = "settled"
     THEN Return(h)
     ELSE pc' = [pc EXCEPT ![h] = "waiting"] /\ UNCHANGED <<edge, rx>>
  /\ UNCHANGED <<call, rows, turn>>

LagForgets(h) == \* mutant: a lagged subscriber trusts that it saw every event
  /\ pc[h] = "waiting"
  /\ rx[h] \in {"mine", "lagged"}
  /\ pc' = IF rx[h] = "mine" THEN [pc EXCEPT ![h] = "subscribed"] ELSE pc
  /\ rx' = [rx EXCEPT ![h] = "empty"]
  /\ UNCHANGED <<edge, call, rows, turn>>

\* An event for this message, or news that some were missed: read again.
Receive(h) ==
  /\ pc[h] = "waiting"
  /\ rx[h] \in {"mine", "lagged"}
  /\ pc' = [pc EXCEPT ![h] = "subscribed"]
  /\ rx' = [rx EXCEPT ![h] = "empty"]
  /\ UNCHANGED <<edge, call, rows, turn>>

KeepsEdge(h) == \* mutant: a wait that runs out leaves its edge behind
  /\ pc[h] = "waiting"
  /\ pc' = [pc EXCEPT ![h] = "returned"]
  /\ UNCHANGED <<edge, call, rows, turn, rx>>

\* The deadline passes in recv: the row as it stands now is the answer.
Deadline(h) ==
  /\ pc[h] = "waiting"
  /\ Return(h)
  /\ UNCHANGED <<call, rows, turn>>

\* The client went away: the handler's future is dropped, the guard with it.
ClientGone(h) ==
  /\ pc[h] \in Open
  /\ Return(h)
  /\ UNCHANGED <<call, rows, turn>>

-----------------------------------------------------------------------------
\* Bus::publish of an event about m: every subscriber to m holds it.
Publish(m) ==
  rx' = [h \in Calls |->
           IF rx[h] = "empty" /\ call[h].message = m THEN "mine" ELSE rx[h]]

\* More than CAPACITY events arrived unread, and the one for this message is
\* gone; without one, a lag only makes the handler read once more.
Lag(h) ==
  /\ rx[h] = "mine"
  /\ rx' = [rx EXCEPT ![h] = "lagged"]
  /\ UNCHANGED <<edge, pc, call, rows, turn>>

\* The pump hands an idle agent a message; that is an event too.
TakeTurn(m) ==
  /\ rows[m] = "queued"
  /\ turn[call[m].target] = None
  /\ turn' = [turn EXCEPT ![call[m].target] = m]
  /\ rows' = [rows EXCEPT ![m] = "delivered"]
  /\ Publish(m)
  /\ UNCHANGED <<edge, pc, call>>

\* A turn on a message that no handler waits for.
OtherTurn(a) ==
  /\ turn[a] = None
  /\ turn' = [turn EXCEPT ![a] = Other]
  /\ UNCHANGED <<edge, pc, call, rows, rx>>

\* settle_turn: the row first, then the event, under one lock.
Settle(m) ==
  /\ rows' = [rows EXCEPT ![m] = "settled"]
  /\ Publish(m)

\* The turn ends, whatever its agent still has open in the background.
EndTurn(a) ==
  /\ turn[a] # None
  /\ turn' = [turn EXCEPT ![a] = None]
  /\ IF turn[a] = Other THEN UNCHANGED <<rows, rx>> ELSE Settle(turn[a])
  /\ UNCHANGED <<edge, pc, call>>

\* A turn that never ran its message puts it back: limits, a lost login.
Requeue(a) ==
  /\ turn[a] \in Calls
  /\ rows' = [rows EXCEPT ![turn[a]] = "queued"]
  /\ Publish(turn[a])
  /\ turn' = [turn EXCEPT ![a] = None]
  /\ UNCHANGED <<edge, pc, call>>

-----------------------------------------------------------------------------
Handler(h) == Subscribe(h) \/ Read(h) \/ Receive(h)

Next ==
  \/ \E r \in Asks : Ask(r[1], r[2], r[3])
  \/ \E h \in Looks, m \in Calls : Look(h, m)
  \/ \E h \in Calls : Handler(h) \/ Deadline(h) \/ ClientGone(h) \/ Lag(h)
  \/ \E m \in Calls : TakeTurn(m)
  \/ \E a \in Agents : OtherTurn(a) \/ EndTurn(a) \/ Requeue(a)

\* An agent whose every wait has returned finishes the turn it is in.
FinishTurn(a) == EdgesOf(a) = {} /\ EndTurn(a)
Answer(m) == \E a \in Agents : turn[a] = m /\ FinishTurn(a)
FinishOther(a) == turn[a] = Other /\ FinishTurn(a)

\* The runtime polls a handler that can run; the queue serves every message
\* it holds in the end (PROMOTE_AFTER_SECS, USER_LANE_BURST); a message is put
\* back only so often (MAX_LIMIT_REQUEUES), so that a turn on it ends for good
\* if it is started again and again.  No timer is assumed to fire.
Fairness ==
  /\ \A h \in Calls : WF_vars(Handler(h))
  /\ \A m \in Calls : SF_vars(TakeTurn(m)) /\ SF_vars(Answer(m))
  /\ \A a \in Agents : WF_vars(FinishOther(a))

Spec == Init /\ [][Next]_vars
FairSpec == Spec /\ Fairness

-----------------------------------------------------------------------------
\* Waits never close on themselves: in every set of nodes one waits for nobody
\* of the set, so the turns blocked on each other can always unwind.  What
\* `begin` is for; it has to survive handlers that begin at once, edges
\* dropped in any order and turns that end over an open wait.
Acyclic(E) ==
  \A S \in SUBSET Nodes :
    S # {} => \E n \in S : \A e \in E : e[1] = n => e[2] \notin S

NoWaitCycle == Acyclic(Waits)

\* The graph is exactly the handlers still waiting, each with its own caller
\* and target: a wait that was answered, ran out, was refused or lost its
\* client blocks nobody, so a refusal is never for a wait that is over.
EdgesAreOpenWaits ==
  \A h \in Calls :
    /\ edge[h] # None <=> pc[h] \in Open
    /\ edge[h] # None => /\ edge[h].waiter = call[h].waiter
                         /\ edge[h].target = call[h].target
                         /\ edge[h].message \in {None, call[h].message}

\* Every admitted wait comes back although no deadline ever passes: no two
\* turns wait for each other, no event is lost between the subscription and
\* the first read, and a subscriber that lagged looks at the row itself.
\* (A handler begins once, so it is enough that nobody waits again and again.)
EveryAskReturns == []<>(\A h \in Calls : pc[h] \notin Open)
====
