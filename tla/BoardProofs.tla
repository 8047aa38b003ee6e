---- MODULE BoardProofs ----
(***************************************************************************)
(* Theorems about BoardStore, for any nodes, names, rows and keys: its     *)
(* types, that a table stays with its node, that no node serves the rows   *)
(* of another, and that no two values for one variable come together by a   *)
(* door that looked.                                                       *)
(***************************************************************************)
EXTENDS BoardStore, TLAPS

\* The types, part by part.
NodesTyped ==
  /\ Live \subseteq spent /\ spent \subseteq Ids
  /\ nodes \in [Live -> [name : Names, keys : SUBSET Keys]]
WiresTyped == wires \subseteq (Live \cap Agents) \X (Live \cap Vaults)
StorageTyped ==
  /\ DOMAIN storage \subseteq Names
  /\ storage \in [DOMAIN storage -> SUBSET (Tables \X RowKeys)]
ValuesTyped ==
  values \subseteq (Live \cap Vaults) \X Keys /\ unchecked \subseteq Vaults \X Keys
JobTyped == job \in {Idle} \cup [op : TableJobs, id : Tables, arg : Names]
                           \cup [op : VaultJobs, id : Vaults, arg : Keys]
HistoryTyped == put \subseteq Tables \X RowKeys /\ torn \subseteq Tables
ReaderTyped == reader \in Names \cup {None}

\* The node of a request that is under way is on the board.
JobLive == ~Free => job.id \in Live

Typed == TypeOK /\ JobLive

LEMMA TypedParts ==
  /\ Typed => /\ NodesTyped /\ WiresTyped /\ StorageTyped /\ ValuesTyped
              /\ JobTyped /\ HistoryTyped /\ ReaderTyped /\ JobLive
  /\ (/\ NodesTyped /\ WiresTyped /\ StorageTyped /\ ValuesTyped
      /\ JobTyped /\ HistoryTyped /\ ReaderTyped /\ JobLive)' => Typed'
BY DEF Typed, TypeOK, NodesTyped, WiresTyped, StorageTyped, ValuesTyped, JobTyped,
       HistoryTyped, ReaderTyped

-----------------------------------------------------------------------------
(* The operators the actions are made of. *)

LEMMA JobKinds ==
  ASSUME JobTyped
  PROVE  /\ ~Free => job.op \in TableJobs \cup VaultJobs
         /\ job.op \in TableJobs => job.id \in Tables /\ job.arg \in Names
         /\ job.op \in VaultJobs => job.id \in Vaults /\ job.arg \in Keys
BY DEF JobTyped, TableJobs, VaultJobs, Idle, Free

LEMMA DoneTyped ==
  ASSUME Done PROVE JobTyped' /\ JobLive' /\ Free'
BY DEF Done, JobTyped, JobLive, Free, Idle

LEMMA TableJobTyped ==
  ASSUME NEW op \in TableJobs, NEW n \in Tables, NEW x \in Names, Then(op, n, x), n \in Live'
  PROVE  JobTyped' /\ JobLive'
BY DEF Then, JobTyped, JobLive, Free, TableJobs

LEMMA VaultJobTyped ==
  ASSUME NEW op \in VaultJobs, NEW v \in Vaults, NEW k \in Keys, Then(op, v, k), v \in Live'
  PROVE  JobTyped' /\ JobLive'
BY DEF Then, JobTyped, JobLive, Free, VaultJobs

LEMMA SameJobTyped ==
  ASSUME JobTyped, JobLive, UNCHANGED job, Live \subseteq Live'
  PROVE  JobTyped' /\ JobLive'
BY DEF JobTyped, JobLive, Free

LEMMA WithoutTyped ==
  ASSUME StorageTyped, NEW x
  PROVE  /\ DOMAIN Without(x) = DOMAIN storage \ {x}
         /\ \A y \in DOMAIN storage \ {x} : Without(x)[y] = storage[y]
         /\ storage' = Without(x) => StorageTyped'
BY DEF StorageTyped, Without, Restrict

LEMMA WithTyped ==
  ASSUME StorageTyped, NEW x \in Names, NEW R \in SUBSET (Tables \X RowKeys)
  PROVE  /\ DOMAIN With(x, R) = DOMAIN storage \cup {x}
         /\ With(x, R)[x] = R
         /\ \A y \in DOMAIN storage \ {x} : With(x, R)[y] = storage[y]
         /\ storage' = With(x, R) => StorageTyped'
BY DEF StorageTyped, With

LEMMA RowsAtTyped ==
  ASSUME StorageTyped, NEW x
  PROVE  RowsAt(x) \subseteq Tables \X RowKeys
BY DEF StorageTyped, RowsAt

LEMMA EnsuredTyped ==
  ASSUME StorageTyped, NEW X \in SUBSET Names
  PROVE  /\ DOMAIN Ensured(X) = DOMAIN storage \cup X
         /\ \A y \in DOMAIN storage : Ensured(X)[y] = storage[y]
         /\ \A y \in X \ DOMAIN storage : Ensured(X)[y] = {}
         /\ storage' = Ensured(X) => StorageTyped'
BY DEF StorageTyped, Ensured, RowsAt

LEMMA UpdatedTyped ==
  ASSUME NodesTyped, NEW n \in Live, NEW x \in Names, NEW K \in SUBSET Keys,
         nodes' = Updated(n, x, K), UNCHANGED spent
  PROVE  /\ NodesTyped' /\ Live' = Live
         /\ NameOf(n)' = x
         /\ \A m \in Live \ {n} : NameOf(m)' = NameOf(m)
BY DEF NodesTyped, Live, Updated, NameOf

LEMMA NamesTyped ==
  ASSUME NodesTyped
  PROVE  \A n \in Live : NameOf(n) \in Names /\ nodes[n].keys \in SUBSET Keys
BY DEF NodesTyped, NameOf

LEMMA GoneTyped ==
  ASSUME NodesTyped, WiresTyped, ValuesTyped, NEW n \in Live, Gone(n), UNCHANGED spent
  PROVE  /\ NodesTyped' /\ WiresTyped' /\ ValuesTyped'
         /\ Live' = Live \ {n}
         /\ \A m \in Live \ {n} : NameOf(m)' = NameOf(m)
<1>1. Live' = Live \ {n} /\ \A m \in Live \ {n} : nodes'[m] = nodes[m]
  BY DEF Gone, Restrict, Live
<1>2. nodes' \in [Live' -> [name : Names, keys : SUBSET Keys]]
  BY <1>1 DEF Gone, Restrict, NodesTyped, Live
<1>3. NodesTyped'
  BY <1>1, <1>2 DEF NodesTyped
<1>4. WiresTyped'
  BY <1>1 DEF WiresTyped, Gone
<1>5. ValuesTyped'
  BY <1>1 DEF ValuesTyped, Gone
<1> QED BY <1>1, <1>3, <1>4, <1>5 DEF NameOf

LEMMA SameBoardTyped ==
  ASSUME NodesTyped, WiresTyped, UNCHANGED board
  PROVE  NodesTyped' /\ WiresTyped' /\ Live' = Live /\ \A n : NameOf(n)' = NameOf(n)
BY DEF NodesTyped, WiresTyped, board, Live, NameOf

LEMMA SameLiveTyped ==
  ASSUME Live' = Live
  PROVE  /\ WiresTyped /\ UNCHANGED wires => WiresTyped'
         /\ ValuesTyped /\ UNCHANGED secrets => ValuesTyped'
BY DEF WiresTyped, ValuesTyped, secrets

LEMMA CreatedTyped ==
  ASSUME NodesTyped, NEW n \in Ids, NEW x \in Names, Create(n, x)
  PROVE  /\ NodesTyped' /\ Live' = Live \cup {n} /\ n \notin Live
         /\ NameOf(n)' = x
         /\ \A m \in Live : NameOf(m)' = NameOf(m)
<1>1. n \notin Live
  BY DEF NodesTyped, Create
<1>2. Live' = Live \cup {n}
  BY DEF Create, Live
<1>3. nodes' \in [Live' -> [name : Names, keys : SUBSET Keys]]
  BY <1>2 DEF Create, NodesTyped, Live
<1>4. NodesTyped'
  BY <1>2, <1>3 DEF NodesTyped, Create
<1> QED BY <1>1, <1>2, <1>4 DEF Create, NameOf, Live

-----------------------------------------------------------------------------
(* Types. *)

LEMMA InitTyped == Init => Typed
<1> SUFFICES ASSUME Init PROVE Typed
  OBVIOUS
<1>1. Live = {} /\ DOMAIN storage = {}
  BY DEF Init, Live
<1> QED BY <1>1, BoardAssumption DEF Init, Typed, TypeOK, JobLive, Free, Idle, Ids

LEMMA TypedRequests ==
  ASSUME Typed, Requests
  PROVE  Typed'
<1> USE TypedParts, SameBoardTyped, SameLiveTyped DEF Typed
<1>n. \A n \in Ids : NamesOf[n] \subseteq Names
  BY BoardAssumption
<1>i. Tables \subseteq Ids /\ Agents \subseteq Ids /\ Vaults \subseteq Ids
  BY DEF Ids
<1>1. ASSUME NEW n \in Ids, NEW x \in NamesOf[n], Create(n, x) PROVE Typed'
  <2>1. x \in Names
    BY <1>n
  <2>2. NodesTyped' /\ Live' = Live \cup {n}
    BY <1>1, <2>1, CreatedTyped
  <2>3. JobTyped' /\ JobLive'
    BY <1>1, <2>1, <2>2, DoneTyped, TableJobTyped DEF Create, TableJobs
  <2>4. WiresTyped' /\ ValuesTyped'
    BY <1>1, <2>2 DEF Create, WiresTyped, ValuesTyped, secrets
  <2> QED BY <1>1, <2>2, <2>3, <2>4 DEF Create, data, StorageTyped, HistoryTyped, ReaderTyped
<1>2. ASSUME NEW n \in Ids, NEW x \in NamesOf[n], Rename(n, x) PROVE Typed'
  <2>1. x \in Names /\ n \in Live
    BY <1>2, <1>n DEF Rename
  <2>2. CASE n \in Tables
    <3>1. StorageTyped'
      <4>1. storage' = [y \in (DOMAIN storage \ {NameOf(n)}) \cup {x} |->
                          IF y = x THEN storage[NameOf(n)] ELSE storage[y]]
        BY <1>2, <2>2 DEF Rename
      <4>2. NameOf(n) \in DOMAIN storage
        BY <1>2, <2>2 DEF Rename, Alters
      <4> QED BY <2>1, <4>1, <4>2 DEF StorageTyped
    <3>2. NodesTyped' /\ WiresTyped' /\ ValuesTyped' /\ Live' = Live
      BY <1>2, <2>2 DEF Rename, board
    <3>3. JobTyped' /\ JobLive'
      BY <1>2, <2>1, <2>2, <3>2, TableJobTyped DEF Rename, TableJobs
    <3> QED BY <1>2, <2>2, <3>1, <3>2, <3>3 DEF Rename, HistoryTyped, ReaderTyped
  <2>3. CASE n \notin Tables
    <3>1. NodesTyped' /\ Live' = Live
      BY <1>2, <2>1, <2>3, UpdatedTyped, NamesTyped DEF Rename
    <3> QED BY <1>2, <2>3, <3>1, SameJobTyped
            DEF Rename, HistoryTyped, ReaderTyped, StorageTyped
  <2> QED BY <2>2, <2>3
<1>3. ASSUME NEW n \in Ids, Delete(n) PROVE Typed'
  <2>1. n \in Live
    BY <1>3 DEF Delete
  <2>2. CASE n \in Tables
    <3>1. StorageTyped'
      BY <1>3, <2>2, WithoutTyped DEF Delete
    <3>2. NodesTyped' /\ WiresTyped' /\ ValuesTyped' /\ Live' = Live
      BY <1>3, <2>2 DEF Delete, board
    <3>3. JobTyped' /\ JobLive'
      BY <1>3, <2>1, <2>2, <3>2, TableJobTyped, NamesTyped DEF Delete, TableJobs
    <3> QED BY <1>3, <2>2, <3>1, <3>2, <3>3 DEF Delete, HistoryTyped, ReaderTyped
  <2>3. CASE n \notin Tables
    <3>1. NodesTyped' /\ WiresTyped' /\ ValuesTyped'
      BY <1>3, <2>1, <2>3, GoneTyped DEF Delete
    <3>2. JobTyped' /\ JobLive'
      BY <1>3, <2>3 DEF Delete, JobTyped, JobLive, Free
    <3> QED BY <1>3, <2>3, <3>1, <3>2
            DEF Delete, HistoryTyped, ReaderTyped, StorageTyped
  <2> QED BY <2>2, <2>3
<1>4. ASSUME NEW n \in Ids, ReadRows(n) PROVE Typed'
  <2>1. {NameOf(n)} \in SUBSET Names
    BY <1>4, NamesTyped DEF ReadRows, TableNodes
  <2> QED BY <1>4, <2>1, EnsuredTyped, SameJobTyped
          DEF ReadRows, HistoryTyped, ReaderTyped
<1>5. ASSUME NEW n \in Ids, RouteLooksUp(n) PROVE Typed'
  BY <1>5, NamesTyped, SameJobTyped
  DEF RouteLooksUp, TableNodes, ReaderTyped, data, StorageTyped, HistoryTyped
<1>6. ASSUME NEW n \in Tables, NEW r \in RowKeys, PutRow(n, r) PROVE Typed'
  <2> DEFINE R == {p \in RowsAt(NameOf(n)) : p[2] # r} \cup {<<n, r>>}
  <2>1. NameOf(n) \in Names
    BY <1>6, NamesTyped DEF PutRow, TableNodes
  <2>2. R \in SUBSET (Tables \X RowKeys)
    BY RowsAtTyped
  <2>3. storage' = With(NameOf(n), R)
    BY <1>6 DEF PutRow
  <2>s. StorageTyped
    OBVIOUS
  <2>4. StorageTyped'
    <3> HIDE DEF R
    <3> QED BY <2>s, <2>1, <2>2, <2>3, WithTyped
  <2>5. HistoryTyped'
    BY <1>6 DEF PutRow, HistoryTyped
  <2> QED BY <1>6, <2>4, <2>5, SameJobTyped DEF PutRow, ReaderTyped
<1>7. ASSUME NEW n \in Tables, NEW r \in RowKeys, RemoveRow(n, r) PROVE Typed'
  <2> DEFINE R == {p \in storage[NameOf(n)] : p[2] # r}
  <2>1. NameOf(n) \in Names /\ R \in SUBSET (Tables \X RowKeys)
    BY <1>7, NamesTyped DEF RemoveRow, TableNodes, StorageTyped
  <2>2. StorageTyped'
    BY <1>7, <2>1, WithTyped DEF RemoveRow
  <2> QED BY <1>7, <2>2, SameJobTyped DEF RemoveRow, ReaderTyped, HistoryTyped
<1>8. ASSUME NEW a \in Agents, NEW v \in Vaults, AddWire(a, v) \/ RemoveWire(a, v)
      PROVE Typed'
  <2>1. NodesTyped' /\ Live' = Live
    BY <1>8 DEF AddWire, RemoveWire, NodesTyped, Live
  <2>2. WiresTyped'
    BY <1>8, <2>1 DEF AddWire, RemoveWire, WiresTyped
  <2> QED BY <1>8, <2>1, <2>2, SameJobTyped
          DEF AddWire, RemoveWire, data, StorageTyped, HistoryTyped, ReaderTyped
<1>9. ASSUME NEW a \in Agents, NEW v \in Vaults, SaveSession(a, v) PROVE Typed'
  <2>1. v \in Live /\ "session" \in Keys
    BY <1>9 DEF SaveSession, WiresTyped
  <2>2. ValuesTyped'
    BY <1>9, <2>1 DEF SaveSession, Store, ValuesTyped, board, Live
  <2>3. <<v, "token">> \in values' => "token" \in Keys
    BY <2>2 DEF ValuesTyped
  <2>4. JobTyped' /\ JobLive'
    <3>1. v \in Live'
      BY <1>9, <2>1 DEF SaveSession
    <3>2. Supersedes(v) => JobTyped' /\ JobLive'
      BY <3>1, DoneTyped, VaultJobTyped DEF Supersedes, VaultJobs, ValuesTyped
    <3> QED BY <1>9, <2>1, <3>1, <3>2, VaultJobTyped DEF SaveSession, VaultJobs
  <2> QED BY <1>9, <2>2, <2>4 DEF SaveSession, data, StorageTyped, HistoryTyped, ReaderTyped
<1>10. ASSUME NEW v \in Vaults, NEW k \in Keys, PutValue(v, k) PROVE Typed'
  <2>1. ValuesTyped'
    BY <1>10 DEF PutValue, Store, ValuesTyped, board, Live
  <2>2. JobTyped' /\ JobLive'
    BY <1>10, DoneTyped, VaultJobTyped DEF PutValue, VaultJobs
  <2> QED BY <1>10, <2>1, <2>2 DEF PutValue, data, StorageTyped, HistoryTyped, ReaderTyped
<1>11. ASSUME NEW v \in Vaults, NEW k \in Keys, DeleteValue(v, k) PROVE Typed'
  <2>1. ValuesTyped'
    BY <1>11 DEF DeleteValue, Forget, ValuesTyped, board, Live
  <2>2. JobTyped' /\ JobLive'
    BY <1>11, VaultJobTyped DEF DeleteValue, Forget, VaultJobs
  <2> QED BY <1>11, <2>1, <2>2
          DEF DeleteValue, Forget, data, StorageTyped, HistoryTyped, ReaderTyped
<1>12. ASSUME NEW v \in Vaults, NEW K \in SUBSET Keys, PatchKeys(v, K) PROVE Typed'
  <2>1. NodesTyped' /\ Live' = Live
    BY <1>12, UpdatedTyped, NamesTyped DEF PatchKeys
  <2> QED BY <1>12, <2>1, SameJobTyped
          DEF PatchKeys, data, StorageTyped, HistoryTyped, ReaderTyped
<1> QED BY <1>1, <1>2, <1>3, <1>4, <1>5, <1>6, <1>7, <1>8, <1>9, <1>10, <1>11, <1>12
        DEF Requests

LEMMA TypedStatements ==
  ASSUME Typed, Statements \/ Crash
  PROVE  Typed'
<1> USE TypedParts, SameBoardTyped, SameLiveTyped, JobKinds DEF Typed
<1>1. ASSUME CreateDrops PROVE Typed'
  <2>1. job.id \in Tables /\ job.arg \in Names /\ job.id \in Live
    BY <1>1 DEF CreateDrops, TableJobs, JobLive, Free
  <2>2. StorageTyped'
    BY <1>1, WithoutTyped DEF CreateDrops
  <2>3. JobTyped' /\ JobLive'
    BY <1>1, <2>1, TableJobTyped DEF CreateDrops, TableJobs
  <2> QED BY <1>1, <2>2, <2>3 DEF CreateDrops, HistoryTyped, ReaderTyped
<1>2. ASSUME CreateMakes PROVE Typed'
  <2>1. job.arg \in Names
    BY <1>2 DEF CreateMakes, TableJobs
  <2>2. StorageTyped'
    BY <1>2, <2>1, WithTyped DEF CreateMakes
  <2> QED BY <1>2, <2>2, DoneTyped DEF CreateMakes, HistoryTyped, ReaderTyped
<1>3. ASSUME RenameUpdates PROVE Typed'
  <2>1. job.id \in Tables /\ job.arg \in Names /\ job.id \in Live
    BY <1>3 DEF RenameUpdates, TableJobs, JobLive, Free
  <2>2. NodesTyped' /\ Live' = Live
    BY <1>3, <2>1, UpdatedTyped DEF RenameUpdates, NodesTyped, Live
  <2>3. HistoryTyped'
    BY <1>3, <2>1 DEF RenameUpdates, HistoryTyped
  <2> QED BY <1>3, <2>2, <2>3, DoneTyped DEF RenameUpdates, StorageTyped, ReaderTyped
<1>4. ASSUME DeleteRemoves PROVE Typed'
  <2>1. job.id \in Live
    BY <1>4 DEF DeleteRemoves, JobLive, Free
  <2>2. NodesTyped' /\ WiresTyped' /\ ValuesTyped'
    BY <1>4, <2>1, GoneTyped DEF DeleteRemoves
  <2> QED BY <1>4, <2>2, DoneTyped
          DEF DeleteRemoves, data, StorageTyped, HistoryTyped, ReaderTyped
<1>5. ASSUME Declares \/ Undeclares PROVE Typed'
  <2>1. job.id \in Vaults /\ job.id \in Live /\ job.arg \in Keys
    BY <1>5 DEF Declares, Undeclares, VaultJobs, JobLive, Free
  <2>2. NodesTyped' /\ Live' = Live
    BY <1>5, <2>1, UpdatedTyped, NamesTyped DEF Declares, Undeclares
  <2>3. JobTyped' /\ JobLive'
    <3>1. Supersedes(job.id) => JobTyped' /\ JobLive'
      BY <2>1, <2>2, DoneTyped, VaultJobTyped DEF Supersedes, VaultJobs, ValuesTyped
    <3> QED BY <1>5, <3>1, DoneTyped DEF Declares, Undeclares
  <2> QED BY <1>5, <2>2, <2>3
          DEF Declares, Undeclares, data, StorageTyped, HistoryTyped, ReaderTyped
<1>6. ASSUME Superseded PROVE Typed'
  <2>1. job.id \in Vaults /\ job.id \in Live /\ job.arg \in Keys
    BY <1>6 DEF Superseded, VaultJobs, JobLive, Free
  <2>2. ValuesTyped'
    BY <1>6 DEF Superseded, Forget, ValuesTyped, board, Live
  <2>3. JobTyped' /\ JobLive'
    BY <1>6, <2>1, VaultJobTyped DEF Superseded, Forget, VaultJobs
  <2> QED BY <1>6, <2>2, <2>3
          DEF Superseded, Forget, data, StorageTyped, HistoryTyped, ReaderTyped
<1>7. ASSUME RouteLists PROVE Typed'
  <2>1. {reader} \in SUBSET Names
    BY <1>7 DEF RouteLists, ReaderTyped
  <2>2. StorageTyped'
    BY <1>7, <2>1, EnsuredTyped DEF RouteLists
  <2> QED BY <1>7, <2>2, SameJobTyped DEF RouteLists, HistoryTyped, ReaderTyped
<1>8. ASSUME Crash PROVE Typed'
  <2> DEFINE X == {NameOf(n) : n \in TableNodes}
  <2>1. X \in SUBSET Names
    BY NamesTyped DEF TableNodes
  <2>2. storage' = Ensured(X)
    BY <1>8 DEF Crash
  <2>3. StorageTyped'
    BY <2>1, <2>2, EnsuredTyped
  <2>4. HistoryTyped'
    BY <1>8 DEF Crash, HistoryTyped, TableJobs
  <2>5. JobTyped' /\ JobLive'
    BY <1>8, DoneTyped DEF Crash, Done
  <2> QED BY <1>8, <2>3, <2>4, <2>5 DEF Crash, ReaderTyped
<1> QED BY <1>1, <1>2, <1>3, <1>4, <1>5, <1>6, <1>7, <1>8 DEF Statements

LEMMA StutterTyped ==
  ASSUME Typed, UNCHANGED vars PROVE Typed'
BY DEF Typed, TypeOK, JobLive, Free, Live, vars, board, data, secrets

(* Every reachable state is well typed: wires and values belong to nodes that are
   there, whatever was deleted and wherever the engine died. *)
THEOREM TypeCorrect == Spec => []TypeOK
<1>1. Typed /\ [Next]_vars => Typed'
  BY TypedRequests, TypedStatements, StutterTyped DEF Next
<1>2. Spec => []Typed
  BY InitTyped, <1>1, PTL DEF Spec
<1> QED BY <1>2, PTL DEF Typed

-----------------------------------------------------------------------------
(* Two values for one variable. *)

LEMMA NothingNewClashes ==
  ASSUME ClashesAreUnchecked, wires' \subseteq wires, values' \subseteq values,
         unchecked \cap values' \subseteq unchecked'
  PROVE  ClashesAreUnchecked'
<1> SUFFICES ASSUME NEW a \in Agents, NEW p \in values', NEW q \in values',
                    ({p[1], q[1]} \subseteq VaultsOf(a))', Clash(p, q)
             PROVE  {p, q} \cap unchecked' # {}
  BY DEF ClashesAreUnchecked, Clash
<1>1. {p[1], q[1]} \subseteq VaultsOf(a)
  BY DEF VaultsOf
<1>2. {p, q} \cap unchecked # {}
  BY <1>1 DEF ClashesAreUnchecked
<1> QED BY <1>2

LEMMA AdmittedWireClashes ==
  ASSUME ClashesAreUnchecked, NEW a \in Agents, NEW v \in Vaults, AddWire(a, v)
  PROVE  ClashesAreUnchecked'
<1> SUFFICES ASSUME NEW b \in Agents, NEW p \in values, NEW q \in values,
                    ({p[1], q[1]} \subseteq VaultsOf(b))', Clash(p, q)
             PROVE  {p, q} \cap unchecked # {}
  BY DEF ClashesAreUnchecked, AddWire, secrets, Clash
<1>1. CASE b = a
  <2>1. VaultsOf(a)' = VaultsOf(a) \cup {v}
    BY DEF VaultsOf, AddWire
  <2> QED BY <1>1, <2>1 DEF AddWire, Admits, Ambiguous
<1>2. CASE b # a
  <2>1. VaultsOf(b)' = VaultsOf(b)
    BY <1>2 DEF VaultsOf, AddWire
  <2> QED BY <2>1 DEF ClashesAreUnchecked
<1> QED BY <1>1, <1>2

\* The new value clashes with no other that its readers have, unless it was not
\* looked at.
LEMMA StoredApart ==
  ASSUME Typed, NEW v \in Vaults, NEW k \in Keys, Unrivalled(v, k), ~Skips(v, k),
         <<v, k>> \notin values, NEW a \in Agents, <<a, v>> \in wires,
         NEW q \in values, q[1] \in VaultsOf(a)
  PROVE  Slot(q[2]) # Slot(k)
<1>1. q = <<q[1], q[2]>> /\ q[1] \in Vaults /\ q[2] \in Keys
  BY TypedParts DEF ValuesTyped
<1>2. q[2] \in {"session", "token", "api_key"} /\ k \in {"session", "token", "api_key"}
  BY <1>1, BoardAssumption
<1>3. CASE q[1] # v
  BY <1>1, <1>3 DEF Unrivalled, Readers, Holds, VaultsOf
<1>4. CASE q[1] = v
  <2>1. q[2] # k
    BY <1>1, <1>4
  <2>2. CASE k # "session"
    BY <1>1, <1>4, <2>1, <2>2 DEF Unrivalled
  <2>3. CASE k = "session"
    <3>1. q[2] # "token"
      BY <1>1, <1>4, <2>3 DEF Skips
    <3> QED BY <1>2, <2>1, <2>3, <3>1 DEF Slot
  <2> QED BY <2>2, <2>3
<1> QED BY <1>3, <1>4

LEMMA StoredClashes ==
  ASSUME Typed, ClashesAreUnchecked, NEW v \in Vaults, NEW k \in Keys, Store(v, k),
         UNCHANGED wires
  PROVE  ClashesAreUnchecked'
<1> DEFINE r == <<v, k>>
<1>1. \A a \in Agents : VaultsOf(a)' = VaultsOf(a)
  BY DEF VaultsOf
<1>2. unchecked \subseteq unchecked' /\ values' = values \cup {r}
  BY DEF Store
<1>3. CASE r \in values
  BY <1>1, <1>2, <1>3 DEF ClashesAreUnchecked, Clash
<1>4. CASE r \notin values /\ Skips(v, k)
  <2>1. r \in unchecked'
    BY <1>4 DEF Store
  <2> QED BY <1>1, <1>2, <2>1 DEF ClashesAreUnchecked, Clash
<1>5. CASE r \notin values /\ ~Skips(v, k)
  <2>1. Unrivalled(v, k)
    BY <1>5 DEF Store, Skips
  <2>2. \A a \in Agents, q \in values :
          {v, q[1]} \subseteq VaultsOf(a) => Slot(q[2]) # Slot(k)
    BY <1>5, <2>1, StoredApart DEF VaultsOf
  <2>3. ASSUME NEW a \in Agents, NEW p \in values', NEW q \in values',
               {p[1], q[1]} \subseteq VaultsOf(a), Clash(p, q)
        PROVE  {p, q} \cap unchecked # {}
    <3>1. r[1] = v /\ r[2] = k
      OBVIOUS
    <3>2. CASE p \in values /\ q \in values
      BY <2>3, <3>2 DEF ClashesAreUnchecked
    <3>3. CASE p = r
      <4>1. q \in values
        BY <2>3, <3>3, <1>2 DEF Clash
      <4> QED BY <2>2, <2>3, <3>1, <3>3, <4>1 DEF Clash
    <3>4. CASE q = r
      <4>1. p \in values
        BY <2>3, <3>4, <1>2 DEF Clash
      <4> QED BY <2>2, <2>3, <3>1, <3>4, <4>1 DEF Clash
    <3> QED BY <1>2, <3>2, <3>3, <3>4
  <2> QED BY <1>1, <1>2, <2>3 DEF ClashesAreUnchecked, Clash
<1> QED BY <1>3, <1>4, <1>5

LEMMA ClashesStep ==
  ASSUME Typed, ClashesAreUnchecked, [Next]_vars
  PROVE  ClashesAreUnchecked'
<1>1. ASSUME UNCHANGED <<wires, secrets>> PROVE ClashesAreUnchecked'
  BY <1>1, NothingNewClashes DEF secrets
<1>2. ASSUME NEW n, Gone(n) PROVE ClashesAreUnchecked'
  BY <1>2, NothingNewClashes DEF Gone
<1>3. ASSUME NEW v \in Vaults, NEW k \in Keys, Forget(v, k) PROVE ClashesAreUnchecked'
  BY <1>3, NothingNewClashes DEF Forget, board
<1>4. ASSUME NEW n \in Ids, Delete(n) PROVE ClashesAreUnchecked'
  BY <1>1, <1>2, <1>4 DEF Delete
<1>5. ASSUME NEW a \in Agents, NEW v \in Vaults,
             AddWire(a, v) \/ RemoveWire(a, v) \/ SaveSession(a, v)
      PROVE  ClashesAreUnchecked'
  <2>1. CASE AddWire(a, v)
    BY <2>1, AdmittedWireClashes
  <2>2. CASE RemoveWire(a, v)
    BY <2>2, NothingNewClashes DEF RemoveWire, secrets
  <2>3. CASE SaveSession(a, v)
    BY <2>3, StoredClashes DEF SaveSession, board
  <2> QED BY <1>5, <2>1, <2>2, <2>3
<1>6. ASSUME NEW v \in Vaults, NEW k \in Keys, PutValue(v, k) \/ DeleteValue(v, k)
      PROVE  ClashesAreUnchecked'
  BY <1>3, <1>6, StoredClashes DEF PutValue, DeleteValue, board
<1>7. ASSUME Superseded PROVE ClashesAreUnchecked'
  <2>1. job.id \in Vaults /\ job.arg \in Keys
    BY <1>7, TypedParts, JobKinds DEF Superseded, VaultJobs
  <2> QED BY <1>3, <1>7, <2>1 DEF Superseded
<1>8. ASSUME DeleteRemoves PROVE ClashesAreUnchecked'
  BY <1>2, <1>8 DEF DeleteRemoves
<1>9. CASE Requests
  <2>1. ASSUME NEW n \in Ids, NEW x \in NamesOf[n], Create(n, x) \/ Rename(n, x)
        PROVE  ClashesAreUnchecked'
    BY <1>1, <2>1 DEF Create, Rename
  <2>2. ASSUME NEW n \in Ids, ReadRows(n) \/ RouteLooksUp(n) PROVE ClashesAreUnchecked'
    BY <1>1, <2>2 DEF ReadRows, RouteLooksUp, board
  <2>3. ASSUME NEW n \in Tables, NEW r \in RowKeys, PutRow(n, r) \/ RemoveRow(n, r)
        PROVE  ClashesAreUnchecked'
    BY <1>1, <2>3 DEF PutRow, RemoveRow, board
  <2>4. ASSUME NEW v \in Vaults, NEW K \in SUBSET Keys, PatchKeys(v, K)
        PROVE  ClashesAreUnchecked'
    BY <1>1, <2>4 DEF PatchKeys
  <2> QED BY <1>4, <1>5, <1>6, <1>9, <2>1, <2>2, <2>3, <2>4 DEF Requests
<1>10. CASE Statements
  <2>1. ASSUME CreateDrops \/ CreateMakes \/ RenameUpdates \/ Declares \/ Undeclares \/ RouteLists
        PROVE  ClashesAreUnchecked'
    BY <1>1, <2>1 DEF CreateDrops, CreateMakes, RenameUpdates, Declares, Undeclares,
                      RouteLists, board
  <2> QED BY <1>7, <1>8, <1>10, <2>1 DEF Statements
<1>11. CASE Crash \/ UNCHANGED vars
  BY <1>1, <1>11 DEF Crash, vars, board
<1> QED BY <1>9, <1>10, <1>11 DEF Next

(* Whatever the requests and wherever the engine dies, an agent that reads two
   values for one variable got one of them by a door that did not look. *)
THEOREM ClashesUnchecked == Spec => []ClashesAreUnchecked
<1>1. Init => ClashesAreUnchecked
  BY DEF Init, ClashesAreUnchecked
<1>2. Typed /\ ClashesAreUnchecked /\ [Next]_vars => (Typed /\ ClashesAreUnchecked)'
  BY TypedRequests, TypedStatements, StutterTyped, ClashesStep DEF Next
<1>3. Spec => [](Typed /\ ClashesAreUnchecked)
  BY InitTyped, <1>1, <1>2, PTL DEF Spec
<1> QED BY <1>3, PTL

-----------------------------------------------------------------------------
(* A table and its node.  Between two requests the table of a node is at its   *)
(* name; in the middle of one it is at Place(n), or is being made or removed,  *)
(* and then the node has no rows at all.                                       *)

Place(n) == IF job.op = "rename" /\ job.id = n THEN job.arg ELSE NameOf(n)
Building(n) == job.op \in {"drop", "make", "delete"} /\ job.id = n

NamesDistinct == \A m, n \in Live : NameOf(m) = NameOf(n) => m = n
RowsLive == \A p \in put : p[1] \in Live
BuildsAtName ==
  \A n \in Live : Building(n) => NameOf(n) = job.arg /\ RowsOf(n) = {}
Placed ==
  \A n \in TableNodes \ torn :
    ~Building(n) => Place(n) \in DOMAIN storage /\ RowsOf(n) \subseteq storage[Place(n)]
Owned ==
  torn = {} => \A x \in DOMAIN storage : \A p \in storage[x] : p \in put /\ Place(p[1]) = x

Housed == NamesDistinct /\ RowsLive /\ BuildsAtName /\ Placed /\ Owned

\* What leaves every table where it is, and may make empty ones.
Extended ==
  /\ DOMAIN storage \subseteq DOMAIN storage'
  /\ \A x \in DOMAIN storage : storage'[x] = storage[x]
  /\ \A x \in DOMAIN storage' \ DOMAIN storage : storage'[x] = {}

LEMMA EnsuredExtends ==
  ASSUME StorageTyped, NEW X \in SUBSET Names, storage' = Ensured(X)
  PROVE  Extended /\ X \subseteq DOMAIN storage'
<1>1. /\ DOMAIN storage' = DOMAIN storage \cup X
      /\ \A y \in DOMAIN storage : storage'[y] = storage[y]
      /\ \A y \in X \ DOMAIN storage : storage'[y] = {}
  BY EnsuredTyped
<1> QED BY <1>1 DEF Extended

LEMMA StayedHoused ==
  ASSUME Typed, Housed, Extended, UNCHANGED put, torn \subseteq torn',
         Live' = Live, \A n \in Live : NameOf(n)' = NameOf(n),
         job.op \notin TableJobs, job'.op \notin TableJobs
  PROVE  Housed'
<1>1. \A n : Place(n) = NameOf(n) /\ Place(n)' = NameOf(n)' /\ ~Building(n) /\ ~Building(n)'
  BY DEF Place, Building, TableJobs
<1>2. NamesDistinct' /\ RowsLive'
  BY DEF Housed, NamesDistinct, RowsLive
<1>3. BuildsAtName'
  BY <1>1 DEF BuildsAtName
<1>4. Placed'
  BY <1>1 DEF Housed, Placed, Extended, TableNodes, RowsOf
<1>5. Owned'
  <2>1. \A x \in DOMAIN storage' : \A p \in storage'[x] :
          x \in DOMAIN storage /\ p \in storage[x]
    BY DEF Extended
  <2> QED BY <1>1, <2>1 DEF Housed, Owned, RowsLive
<1> QED BY <1>2, <1>3, <1>4, <1>5 DEF Housed

LEMMA CreatedHoused ==
  ASSUME Typed, Housed, NEW n \in Ids, NEW x \in Names, Create(n, x)
  PROVE  Housed'
<1>1. /\ Live' = Live \cup {n} /\ n \notin Live /\ NameOf(n)' = x
      /\ \A m \in Live : NameOf(m)' = NameOf(m)
  BY CreatedTyped, TypedParts
<1>2. UNCHANGED <<storage, put, torn>> /\ \A m \in Live : NameOf(m) # x
  BY <1>1 DEF Create, data, NameTaken
<1>3. job.op = "idle" /\ job'.op # "rename"
  BY DEF Create, Free, Then, Done, Idle
<1>4. /\ \A m : Place(m) = NameOf(m) /\ Place(m)' = NameOf(m)' /\ ~Building(m)
      /\ \A m \in Live : ~Building(m)'
  BY <1>1, <1>3 DEF Place, Building, Create, Then, Done, Idle
<1>5. NamesDistinct' /\ RowsLive'
  BY <1>1, <1>2 DEF Housed, NamesDistinct, RowsLive
<1>6. BuildsAtName'
  <2>1. RowsOf(n)' = {}
    BY <1>1, <1>2 DEF Housed, RowsLive, RowsOf
  <2>2. Building(n)' => job'.arg = x
    BY DEF Create, Building, Then, Done, Idle
  <2> QED BY <1>1, <1>4, <2>1, <2>2 DEF BuildsAtName
<1>7. Placed'
  <2>1. n \in Tables => Building(n)'
    BY DEF Create, Then, Building
  <2> QED BY <1>1, <1>2, <1>4, <2>1 DEF Housed, Placed, TableNodes, RowsOf
<1>8. Owned'
  BY <1>1, <1>2, <1>4 DEF Housed, Owned, RowsLive
<1> QED BY <1>5, <1>6, <1>7, <1>8 DEF Housed

\* CREATE's drop and make, and delete's drop: one name, that of the node at work.
LEMMA BuiltHoused ==
  ASSUME Typed, Housed, NEW n \in TableNodes, NEW x \in Names, x = NameOf(n),
         Building(n) \/ Free, job'.op # "rename", ~Free' => Building(n)' /\ job'.arg = x,
         UNCHANGED <<nodes, torn>>, put' = put \ RowsOf(n),
         \/ storage' = Without(x) /\ Building(n)'
         \/ storage' = With(x, {})
  PROVE  Housed'
<1>1. Live' = Live /\ \A m : NameOf(m)' = NameOf(m)
  BY DEF Live, NameOf
<1>2. \A m \in Live \ {n} : NameOf(m) # x
  BY DEF Housed, NamesDistinct, TableNodes
<1>3. \A m : Place(m) = NameOf(m) /\ Place(m)' = NameOf(m)'
  BY DEF Place, Building, Free
<1>4. \A m : m # n => ~Building(m) /\ ~Building(m)'
  BY DEF Building, Free
<1>5. /\ \A y \in DOMAIN storage \ {x} : y \in DOMAIN storage' /\ storage'[y] = storage[y]
      /\ \A y \in DOMAIN storage' \ {x} : y \in DOMAIN storage
      /\ x \in DOMAIN storage' => storage'[x] = {}
      /\ ~Building(n)' => x \in DOMAIN storage'
  <2>1. StorageTyped /\ {} \in SUBSET (Tables \X RowKeys)
    BY TypedParts
  <2>2. CASE storage' = Without(x) /\ Building(n)'
    BY <2>1, <2>2, WithoutTyped
  <2>3. CASE storage' = With(x, {})
    <3>1. /\ DOMAIN With(x, {}) = DOMAIN storage \cup {x}
          /\ With(x, {})[x] = {}
          /\ \A y \in DOMAIN storage \ {x} : With(x, {})[y] = storage[y]
      BY <2>1, WithTyped
    <3> HIDE DEF With
    <3> QED BY <2>3, <3>1
  <2> QED BY <2>2, <2>3
<1>6. RowsOf(n)' = {} /\ \A m : m # n => RowsOf(m)' = RowsOf(m)
  BY DEF RowsOf
<1>7. NamesDistinct' /\ RowsLive'
  BY <1>1 DEF Housed, NamesDistinct, RowsLive
<1>8. BuildsAtName'
  <2>1. Building(n)' => job'.arg = x
    BY DEF Building, Free
  <2> QED BY <1>1, <1>4, <1>6, <2>1 DEF BuildsAtName
<1>9. Placed'
  <2> SUFFICES ASSUME NEW m \in TableNodes \ torn, ~Building(m)'
               PROVE  (Place(m) \in DOMAIN storage /\ RowsOf(m) \subseteq storage[Place(m)])'
    BY <1>1 DEF Placed, TableNodes
  <2>1. CASE m = n
    BY <1>1, <1>3, <1>5, <1>6, <2>1
  <2>2. CASE m # n
    <3>1. NameOf(m) # x
      BY <1>2, <2>2 DEF TableNodes
    <3> QED BY <1>1, <1>3, <1>4, <1>5, <1>6, <2>2, <3>1 DEF Housed, Placed
  <2> QED BY <2>1, <2>2
<1>10. Owned'
  <2> SUFFICES ASSUME torn = {}, NEW y \in DOMAIN storage', NEW p \in storage'[y]
               PROVE  p \in put' /\ Place(p[1])' = y
    BY DEF Owned
  <2>1. y # x /\ p \in put /\ NameOf(p[1]) = y
    BY <1>3, <1>5 DEF Housed, Owned
  <2>2. p \in put'
    BY <2>1 DEF RowsOf
  <2> QED BY <1>1, <1>3, <2>1, <2>2
<1> QED BY <1>7, <1>8, <1>9, <1>10 DEF Housed

\* The ALTER: the table is at the name its node is to have.
LEMMA AlteredHoused ==
  ASSUME Typed, Housed, NEW n \in Tables, NEW x \in Names, Rename(n, x)
  PROVE  Housed'
<1> DEFINE o == NameOf(n)
<1>1. /\ n \in Live /\ Live' = Live /\ \A m : NameOf(m)' = NameOf(m)
      /\ UNCHANGED <<put, torn>>
  BY DEF Rename, Live, NameOf
<1>2. o \in DOMAIN storage /\ x \notin DOMAIN storage
  BY DEF Rename, Alters
<1>3. /\ DOMAIN storage' = (DOMAIN storage \ {o}) \cup {x}
      /\ storage'[x] = storage[o]
      /\ \A y \in DOMAIN storage \ {o} : storage'[y] = storage[y]
  BY <1>2 DEF Rename
<1>4. /\ \A m : Place(m) = NameOf(m) /\ ~Building(m) /\ ~Building(m)'
      /\ Place(n)' = x
      /\ \A m : m # n => Place(m)' = NameOf(m)
  BY <1>1 DEF Rename, Free, Then, Place, Building
<1>5. \A m \in Live \ {n} : NameOf(m) # o
  BY <1>1 DEF Housed, NamesDistinct
<1>6. NamesDistinct' /\ RowsLive'
  BY <1>1 DEF Housed, NamesDistinct, RowsLive
<1>7. BuildsAtName'
  BY <1>4 DEF BuildsAtName
<1>8. Placed'
  <2> SUFFICES ASSUME NEW m \in TableNodes \ torn
               PROVE  (Place(m) \in DOMAIN storage /\ RowsOf(m) \subseteq storage[Place(m)])'
    BY <1>1 DEF Placed, TableNodes
  <2>1. NameOf(m) \in DOMAIN storage /\ RowsOf(m) \subseteq storage[NameOf(m)]
    BY <1>4 DEF Housed, Placed
  <2>2. RowsOf(m)' = RowsOf(m)
    BY <1>1 DEF RowsOf
  <2>3. CASE m = n
    BY <1>3, <1>4, <2>1, <2>2, <2>3
  <2>4. CASE m # n
    BY <1>3, <1>4, <1>5, <2>1, <2>2, <2>4 DEF TableNodes
  <2> QED BY <2>3, <2>4
<1>9. Owned'
  <2> SUFFICES ASSUME torn = {}, NEW y \in DOMAIN storage', NEW p \in storage'[y]
               PROVE  p \in put /\ Place(p[1])' = y
    BY <1>1 DEF Owned
  <2>1. \A z \in DOMAIN storage : \A q \in storage[z] :
          q \in put /\ NameOf(q[1]) = z /\ q[1] \in Live
    BY <1>4 DEF Housed, Owned, RowsLive
  <2>2. CASE y = x
    BY <1>2, <1>3, <1>4, <1>5, <2>1, <2>2
  <2>3. CASE y # x
    BY <1>3, <1>4, <2>1, <2>3
  <2> QED BY <2>2, <2>3
<1> QED BY <1>6, <1>7, <1>8, <1>9 DEF Housed

\* The UPDATE: the node takes the name its table has, or is torn from it.
LEMMA UpdatedHoused ==
  ASSUME Typed, Housed, RenameUpdates
  PROVE  Housed'
<1> PICK n : n = job.id
  OBVIOUS
<1>1. n \in Tables /\ n \in Live /\ job.arg \in Names
  BY TypedParts, JobKinds DEF RenameUpdates, TableJobs, JobLive, Free
<1>2. UNCHANGED <<storage, put>> /\ job'.op = "idle"
  BY DEF RenameUpdates, Done, Idle
<1>3. /\ Place(n) = job.arg /\ \A m : m # n => Place(m) = NameOf(m)
      /\ \A m : Place(m)' = NameOf(m)' /\ ~Building(m) /\ ~Building(m)'
      /\ \A m : RowsOf(m)' = RowsOf(m)
  BY <1>2 DEF RenameUpdates, Place, Building, RowsOf
<1>4. BuildsAtName'
  BY <1>3 DEF BuildsAtName
<1>5. CASE NameTaken(job.arg, n)
  <2>1. UNCHANGED nodes /\ torn' = torn \cup {n}
    BY <1>5 DEF RenameUpdates
  <2>2. Live' = Live /\ \A m : NameOf(m)' = NameOf(m)
    BY <2>1 DEF Live, NameOf
  <2>3. NamesDistinct' /\ RowsLive'
    BY <1>2, <2>2 DEF Housed, NamesDistinct, RowsLive
  <2>4. Placed'
    BY <1>2, <1>3, <2>1, <2>2 DEF Housed, Placed, TableNodes
  <2>5. Owned'
    BY <2>1 DEF Owned
  <2> QED BY <1>4, <2>3, <2>4, <2>5 DEF Housed
<1>6. CASE ~NameTaken(job.arg, n)
  <2>1. nodes' = Updated(n, job.arg, {}) /\ UNCHANGED <<torn, spent>>
    BY <1>6 DEF RenameUpdates
  <2>2. /\ Live' = Live /\ NameOf(n)' = job.arg
        /\ \A m \in Live \ {n} : NameOf(m)' = NameOf(m)
    BY <1>1, <2>1, UpdatedTyped, TypedParts
  <2>3. \A m \in Live : Place(m)' = Place(m)
    BY <1>3, <2>2
  <2>4. NamesDistinct' /\ RowsLive'
    BY <1>2, <1>6, <2>2 DEF Housed, NamesDistinct, RowsLive, NameTaken
  <2>5. Placed'
    BY <1>2, <1>3, <2>1, <2>2, <2>3 DEF Housed, Placed, TableNodes
  <2>6. Owned'
    BY <1>2, <2>1, <2>3 DEF Housed, Owned, RowsLive
  <2> QED BY <1>4, <2>4, <2>5, <2>6 DEF Housed
<1> QED BY <1>5, <1>6

\* The DELETE of a node that has no rows.
LEMMA GoneHoused ==
  ASSUME Typed, Housed, NEW n \in Live, Gone(n), RowsOf(n) = {},
         UNCHANGED <<storage, put, torn, spent>>,
         job.op # "rename", job'.op \notin TableJobs,
         \A m \in Live \ {n} : ~Building(m)
  PROVE  Housed'
<1>1. Live' = Live \ {n} /\ \A m \in Live \ {n} : NameOf(m)' = NameOf(m)
  BY GoneTyped, TypedParts
<1>2. \A m : Place(m) = NameOf(m) /\ Place(m)' = NameOf(m)' /\ ~Building(m)'
             /\ RowsOf(m)' = RowsOf(m)
  BY DEF Place, Building, TableJobs, RowsOf
<1>3. NamesDistinct'
  BY <1>1 DEF Housed, NamesDistinct
<1>4. \A p \in put : p[1] \in Live \ {n}
  BY DEF Housed, RowsLive, RowsOf
<1>5. RowsLive' /\ BuildsAtName'
  <2>1. RowsLive'
    BY <1>1, <1>4 DEF RowsLive
  <2>2. BuildsAtName'
    BY <1>2 DEF BuildsAtName
  <2> QED BY <2>1, <2>2
<1>6. Placed'
  <2> SUFFICES ASSUME NEW m \in TableNodes' \ torn, ~Building(m)'
               PROVE  (Place(m) \in DOMAIN storage /\ RowsOf(m) \subseteq storage[Place(m)])'
    BY DEF Placed
  <2>1. m \in TableNodes \ torn /\ m \in Live \ {n}
    BY <1>1 DEF TableNodes
  <2>2. Place(m) \in DOMAIN storage /\ RowsOf(m) \subseteq storage[Place(m)]
    BY <2>1 DEF Housed, Placed
  <2>3. Place(m)' = Place(m)
    BY <1>1, <1>2, <2>1
  <2> QED BY <1>2, <2>2, <2>3
<1>7. Owned'
  <2> SUFFICES ASSUME torn = {}, NEW y \in DOMAIN storage, NEW p \in storage[y]
               PROVE  p \in put /\ Place(p[1])' = y
    BY DEF Owned
  <2>1. p \in put /\ Place(p[1]) = y
    BY DEF Housed, Owned
  <2> QED BY <1>1, <1>2, <1>4, <2>1
<1> QED BY <1>3, <1>5, <1>6, <1>7 DEF Housed

\* A row goes into, or out of, the table of the node it is put through.
LEMMA RowHoused ==
  ASSUME Typed, Housed, Free, NEW n \in TableNodes, NEW r \in RowKeys,
         NEW R \in SUBSET (Tables \X RowKeys), storage' = With(NameOf(n), R),
         UNCHANGED <<nodes, torn, job>>,
         put' = put \cup {<<n, r>>} \/ put' = put \ {<<n, r>>},
         NameOf(n) \in DOMAIN storage =>
           \A p \in Tables \X RowKeys :
             p # <<n, r>> => /\ p[1] = n /\ p \in storage[NameOf(n)] => p \in R
                             /\ p \in R => p \in storage[NameOf(n)],
         NameOf(n) \notin DOMAIN storage => R \subseteq {<<n, r>>},
         <<n, r>> \in put' <=> <<n, r>> \in R
  PROVE  Housed'
<1> DEFINE o == NameOf(n)
<1>1. Live' = Live /\ \A m : NameOf(m)' = NameOf(m)
  BY DEF Live, NameOf
<1>2. \A m : Place(m) = NameOf(m) /\ Place(m)' = NameOf(m) /\ ~Building(m) /\ ~Building(m)'
  BY <1>1 DEF Place, Building, Free
<1>3. /\ DOMAIN storage' = DOMAIN storage \cup {o}
      /\ storage'[o] = R
      /\ \A y \in DOMAIN storage \ {o} : storage'[y] = storage[y]
  <2>1. o \in Names /\ StorageTyped
    BY TypedParts, NamesTyped DEF TableNodes
  <2> HIDE DEF o
  <2>2. storage' = With(o, R)
    BY DEF o
  <2> QED BY <2>1, <2>2, WithTyped
<1>4. put \subseteq Tables \X RowKeys /\ <<n, r>> \in Tables \X RowKeys
  BY TypedParts DEF HistoryTyped, TableNodes
<1>5. \A m \in Live \ {n} : NameOf(m) # o
  BY DEF Housed, NamesDistinct, TableNodes
<1>6. NamesDistinct' /\ RowsLive' /\ BuildsAtName'
  <2>1. NamesDistinct'
    BY <1>1 DEF Housed, NamesDistinct
  <2>2. RowsLive'
    BY <1>1 DEF Housed, RowsLive, TableNodes
  <2>3. BuildsAtName'
    BY <1>2 DEF BuildsAtName
  <2> QED BY <2>1, <2>2, <2>3
<1>7. Placed'
  <2> SUFFICES ASSUME NEW m \in TableNodes \ torn
               PROVE  NameOf(m) \in DOMAIN storage' /\ RowsOf(m)' \subseteq storage'[NameOf(m)]
    BY <1>1, <1>2 DEF Placed, TableNodes
  <2>1. NameOf(m) \in DOMAIN storage /\ RowsOf(m) \subseteq storage[NameOf(m)]
    BY <1>2 DEF Housed, Placed
  <2>2. CASE m # n
    <3>1. RowsOf(m)' = RowsOf(m)
      BY <2>2 DEF RowsOf
    <3> QED BY <1>3, <1>5, <2>1, <2>2, <3>1 DEF TableNodes
  <2>3. CASE m = n
    <3>1. ASSUME NEW p \in put', p[1] = n PROVE p \in R
      <4>1. CASE p = <<n, r>>
        BY <3>1, <4>1
      <4>2. CASE p # <<n, r>>
        BY <1>4, <2>1, <2>3, <3>1, <4>2 DEF RowsOf
      <4> QED BY <4>1, <4>2
    <3> QED BY <1>3, <2>3, <3>1 DEF RowsOf
  <2> QED BY <2>2, <2>3
<1>8. Owned'
  <2> SUFFICES ASSUME torn = {}, NEW y \in DOMAIN storage', NEW p \in storage'[y]
               PROVE  p \in put' /\ NameOf(p[1]) = y
    BY <1>2 DEF Owned
  <2>1. \A z \in DOMAIN storage : \A q \in storage[z] : q \in put /\ NameOf(q[1]) = z
    BY <1>2 DEF Housed, Owned
  <2>2. CASE y # o
    <3>1. p \in put /\ NameOf(p[1]) = y
      BY <1>3, <2>1, <2>2
    <3> QED BY <2>2, <3>1
  <2>3. CASE y = o /\ p = <<n, r>>
    BY <1>3, <2>3
  <2>4. CASE y = o /\ p # <<n, r>>
    <3>1. p \in R /\ p \in Tables \X RowKeys
      BY <1>3, <2>4
    <3>2. o \in DOMAIN storage /\ p \in storage[o]
      BY <2>4, <3>1
    <3> QED BY <2>1, <2>4, <3>2
  <2> QED BY <2>2, <2>3, <2>4
<1> QED BY <1>6, <1>7, <1>8 DEF Housed

LEMMA PutHoused ==
  ASSUME Typed, Housed, NEW n \in Tables, NEW r \in RowKeys, PutRow(n, r)
  PROVE  Housed'
<1> DEFINE o == NameOf(n)
           R == {p \in RowsAt(o) : p[2] # r} \cup {<<n, r>>}
<1>1. n \in TableNodes
  BY DEF PutRow
<1>2. RowsAt(o) = IF o \in DOMAIN storage THEN storage[o] ELSE {}
  BY DEF RowsAt
<1>3. R \in SUBSET (Tables \X RowKeys)
  BY RowsAtTyped, TypedParts DEF TableNodes
<1>4. storage' = With(o, R)
  BY DEF PutRow
<1>5. UNCHANGED <<nodes, torn, job>> /\ Free /\ put' = put \cup {<<n, r>>}
  BY DEF PutRow, board
<1>6. ASSUME o \in DOMAIN storage, NEW p \in Tables \X RowKeys, p # <<n, r>>
      PROVE  /\ p[1] = n /\ p \in storage[o] => p \in R
             /\ p \in R => p \in storage[o]
  BY <1>2, <1>6
<1>7. o \notin DOMAIN storage => R \subseteq {<<n, r>>}
  BY <1>2
<1>8. <<n, r>> \in put' /\ <<n, r>> \in R
  BY <1>5
<1> HIDE DEF R, o
<1> QED BY <1>1, <1>3, <1>4, <1>5, <1>6, <1>7, <1>8, RowHoused DEF o

LEMMA RemovedHoused ==
  ASSUME Typed, Housed, NEW n \in Tables, NEW r \in RowKeys, RemoveRow(n, r)
  PROVE  Housed'
<1> DEFINE o == NameOf(n)
           R == {p \in storage[o] : p[2] # r}
<1>1. n \in TableNodes /\ o \in DOMAIN storage /\ storage' = With(o, R)
  BY DEF RemoveRow
<1>2. R \in SUBSET (Tables \X RowKeys)
  BY <1>1, TypedParts DEF StorageTyped
<1>3. UNCHANGED <<nodes, torn, job>> /\ Free /\ put' = put \ {<<n, r>>}
  BY DEF RemoveRow, board
<1>4. ASSUME NEW p \in Tables \X RowKeys, p # <<n, r>>
      PROVE  /\ p[1] = n /\ p \in storage[o] => p \in R
             /\ p \in R => p \in storage[o]
  BY <1>4
<1>5. <<n, r>> \notin put' /\ <<n, r>> \notin R
  BY <1>3
<1> HIDE DEF R, o
<1> QED BY <1>1, <1>2, <1>3, <1>4, <1>5, RowHoused DEF o

LEMMA RemovesHoused ==
  ASSUME Typed, Housed, NEW n \in Ids, Delete(n)
  PROVE  Housed'
<1>1. n \in Live /\ NameOf(n) \in Names
  BY NamesTyped, TypedParts DEF Delete
<1>2. job.op = "idle"
  BY DEF Delete, Free
<1>3. CASE n \in Tables
  <2>1. /\ storage' = Without(NameOf(n)) /\ put' = put \ RowsOf(n)
        /\ UNCHANGED <<nodes, torn>> /\ job'.op = "delete"
        /\ job'.id = n /\ job'.arg = NameOf(n)
    BY <1>3 DEF Delete, Then
  <2>2. Building(n)' /\ n \in TableNodes
    BY <1>1, <1>3, <2>1 DEF Building, TableNodes
  <2> QED BY <1>1, <1>2, <2>1, <2>2, BuiltHoused DEF Free
<1>4. CASE n \notin Tables
  <2>1. Gone(n) /\ UNCHANGED <<storage, put, torn, spent, job>>
    BY <1>4 DEF Delete
  <2>2. RowsOf(n) = {}
    BY <1>4, TypedParts DEF RowsOf, HistoryTyped
  <2>3. \A m : ~Building(m)
    BY <1>2 DEF Building
  <2> QED BY <1>1, <1>2, <2>1, <2>2, <2>3, GoneHoused DEF TableJobs
<1> QED BY <1>3, <1>4

LEMMA HousedRequests ==
  ASSUME Typed, Housed, Requests
  PROVE  Housed'
<1>i. \A n \in Ids : NamesOf[n] \subseteq Names
  BY BoardAssumption
<1>0. \A op \in VaultJobs \cup {"idle"} : op \notin TableJobs
  BY DEF VaultJobs, TableJobs
<1>1. ASSUME NEW n \in Ids, NEW x \in NamesOf[n], Rename(n, x) PROVE Housed'
  <2>1. CASE n \in Tables
    BY <1>i, <1>1, <2>1, AlteredHoused
  <2>2. CASE n \notin Tables
    <3>1. n \in Live /\ ~NameTaken(x, n) /\ nodes' = Updated(n, x, nodes[n].keys)
          /\ UNCHANGED <<storage, put, torn, job, spent>> /\ x \in Names /\ job.op = "idle"
      BY <1>i, <1>1, <2>2 DEF Rename, Free
    <3>2. /\ Live' = Live /\ NameOf(n)' = x
          /\ \A m \in Live \ {n} : NameOf(m)' = NameOf(m)
      BY <3>1, UpdatedTyped, NamesTyped, TypedParts
    <3>3. \A m : Place(m) = NameOf(m) /\ Place(m)' = NameOf(m)' /\ ~Building(m)' /\ ~Building(m)
      BY <3>1 DEF Place, Building
    <3>4. \A m \in Tables \cap Live : NameOf(m)' = NameOf(m)
      BY <2>2, <3>2
    <3>5. NamesDistinct'
      BY <3>1, <3>2 DEF Housed, NamesDistinct, NameTaken
    <3>6. RowsLive' /\ BuildsAtName'
      BY <3>1, <3>2, <3>3 DEF Housed, RowsLive, BuildsAtName
    <3>7. Placed'
      BY <3>1, <3>2, <3>3, <3>4 DEF Housed, Placed, TableNodes, RowsOf
    <3>8. \A p \in put : p[1] \in Tables \cap Live
      BY TypedParts DEF HistoryTyped, Housed, RowsLive
    <3>9. Owned'
      BY <3>1, <3>3, <3>4, <3>8 DEF Housed, Owned
    <3> QED BY <3>5, <3>6, <3>7, <3>9 DEF Housed
  <2> QED BY <2>1, <2>2
<1>2. ASSUME Live' = Live, \A n \in Live : NameOf(n)' = NameOf(n), UNCHANGED data,
             Free, job'.op \in VaultJobs \cup {"idle"}
      PROVE  Housed'
  BY <1>0, <1>2, StayedHoused DEF Extended, data, Free
<1>3. ASSUME NEW n \in Ids, ReadRows(n) PROVE Housed'
  <2>1. {NameOf(n)} \in SUBSET Names
    BY <1>3, NamesTyped, TypedParts DEF ReadRows, TableNodes
  <2>2. Extended
    BY <1>3, <2>1, EnsuredExtends, TypedParts DEF ReadRows
  <2> QED BY <1>0, <1>3, <2>2, StayedHoused DEF ReadRows, Free, board, Live, NameOf
<1>4. ASSUME NEW n \in Ids, RouteLooksUp(n) PROVE Housed'
  BY <1>2, <1>4 DEF RouteLooksUp, Free, board, Live, NameOf
<1>5. ASSUME NEW a \in Agents, NEW v \in Vaults, AddWire(a, v) \/ RemoveWire(a, v)
      PROVE  Housed'
  BY <1>2, <1>5 DEF AddWire, RemoveWire, Free, Live, NameOf
<1>6. ASSUME NEW a \in Agents, NEW v \in Vaults, SaveSession(a, v) PROVE Housed'
  <2>1. job'.op \in VaultJobs \cup {"idle"}
    BY <1>6 DEF SaveSession, Supersedes, Then, Done, Idle, VaultJobs
  <2> QED BY <1>2, <1>6, <2>1 DEF SaveSession, board, Live, NameOf
<1>7. ASSUME NEW v \in Vaults, NEW k \in Keys, PutValue(v, k) \/ DeleteValue(v, k)
      PROVE  Housed'
  <2>1. job'.op \in VaultJobs \cup {"idle"}
    BY <1>7 DEF PutValue, DeleteValue, Forget, Then, Done, Idle, VaultJobs
  <2> QED BY <1>2, <1>7, <2>1 DEF PutValue, DeleteValue, Forget, board, Live, NameOf
<1>8. ASSUME NEW v \in Vaults, NEW K \in SUBSET Keys, PatchKeys(v, K) PROVE Housed'
  <2>1. NameOf(v) \in Names /\ v \in Live
    BY <1>8, NamesTyped, TypedParts DEF PatchKeys
  <2>2. Live' = Live /\ \A m \in Live : NameOf(m)' = NameOf(m)
    BY <1>8, <2>1, UpdatedTyped, TypedParts DEF PatchKeys
  <2> QED BY <1>2, <1>8, <2>2 DEF PatchKeys, Free
<1> QED BY <1>i, <1>1, <1>3, <1>4, <1>5, <1>6, <1>7, <1>8,
           CreatedHoused, RemovesHoused, PutHoused, RemovedHoused DEF Requests

LEMMA HousedStatements ==
  ASSUME Typed, Housed, Statements \/ Crash \/ UNCHANGED vars
  PROVE  Housed'
<1>0. \A op \in VaultJobs \cup {"idle"} : op \notin TableJobs
  BY DEF VaultJobs, TableJobs
<1>1. ASSUME CreateDrops \/ CreateMakes PROVE Housed'
  <2> PICK n, x : n = job.id /\ x = job.arg
    OBVIOUS
  <2>1. n \in TableNodes /\ x \in Names /\ Building(n)
    BY <1>1, TypedParts, JobKinds
    DEF CreateDrops, CreateMakes, TableJobs, JobLive, Free, Building, TableNodes
  <2>2. x = NameOf(n) /\ RowsOf(n) = {}
    BY <2>1 DEF Housed, BuildsAtName, TableNodes
  <2>3. UNCHANGED <<nodes, torn>> /\ put' = put \ RowsOf(n)
    BY <1>1, <2>2 DEF CreateDrops, CreateMakes, board
  <2>4. /\ job'.op # "rename"
        /\ ~Free' => Building(n)' /\ job'.arg = x
        /\ \/ storage' = Without(x) /\ Building(n)'
           \/ storage' = With(x, {})
    BY <1>1 DEF CreateDrops, CreateMakes, Then, Done, Idle, Building, Free
  <2> QED BY <2>1, <2>2, <2>3, <2>4, BuiltHoused
<1>2. ASSUME DeleteRemoves PROVE Housed'
  <2> PICK n : n = job.id
    OBVIOUS
  <2>1. n \in Live /\ Building(n) /\ \A m \in Live \ {n} : ~Building(m)
    BY <1>2, TypedParts DEF DeleteRemoves, JobLive, Free, Building
  <2>2. RowsOf(n) = {}
    BY <2>1 DEF Housed, BuildsAtName
  <2>3. job'.op = "idle"
    BY <1>2 DEF DeleteRemoves, Done, Idle
  <2> QED BY <1>0, <1>2, <2>1, <2>2, <2>3, GoneHoused DEF DeleteRemoves, data
<1>3. ASSUME Declares \/ Undeclares PROVE Housed'
  <2> PICK v : v = job.id
    OBVIOUS
  <2>1. v \in Live /\ job.arg \in Keys /\ NameOf(v) \in Names /\ nodes[v].keys \in SUBSET Keys
    BY <1>3, TypedParts, JobKinds, NamesTyped DEF Declares, Undeclares, JobLive, Free, VaultJobs
  <2>2. \E K \in SUBSET Keys : nodes' = Updated(v, NameOf(v), K)
    BY <1>3, <2>1 DEF Declares, Undeclares
  <2>3. Live' = Live /\ \A m \in Live : NameOf(m)' = NameOf(m)
    BY <1>3, <2>1, <2>2, UpdatedTyped, TypedParts DEF Declares, Undeclares
  <2>4. job.op \in VaultJobs /\ job'.op \in VaultJobs \cup {"idle"} /\ UNCHANGED data
    BY <1>3 DEF Declares, Undeclares, Supersedes, Then, Done, Idle, VaultJobs
  <2> QED BY <1>0, <2>3, <2>4, StayedHoused DEF Extended, data
<1>4. ASSUME Superseded PROVE Housed'
  <2>1. job.op \in VaultJobs /\ job'.op \in VaultJobs /\ UNCHANGED <<board, data>>
    BY <1>4 DEF Superseded, Forget, Then, VaultJobs
  <2> QED BY <1>0, <2>1, StayedHoused DEF Extended, data, board, Live, NameOf
<1>5. ASSUME RouteLists PROVE Housed'
  <2>1. {reader} \in SUBSET Names
    BY <1>5, TypedParts DEF RouteLists, ReaderTyped
  <2>2. Extended
    BY <1>5, <2>1, EnsuredExtends, TypedParts DEF RouteLists
  <2> QED BY <1>0, <1>5, <2>2, StayedHoused DEF RouteLists, Free, board, Live, NameOf
<1>6. ASSUME Crash PROVE Housed'
  <2> DEFINE X == {NameOf(n) : n \in TableNodes}
  <2>1. X \in SUBSET Names /\ storage' = Ensured(X)
    BY <1>6, NamesTyped, TypedParts DEF Crash, TableNodes
  <2>2. Extended /\ X \subseteq DOMAIN storage'
    BY <2>1, EnsuredExtends, TypedParts
  <2>3. UNCHANGED <<nodes, put>> /\ torn \subseteq torn' /\ job'.op = "idle"
        /\ (job.op = "rename" => job.id \in torn')
    BY <1>6 DEF Crash, Idle, board
  <2>4. Live' = Live /\ \A m : NameOf(m)' = NameOf(m) /\ RowsOf(m)' = RowsOf(m)
    BY <2>3 DEF Live, NameOf, RowsOf
  <2>5. \A m : Place(m)' = NameOf(m) /\ ~Building(m)'
    BY <2>3, <2>4 DEF Place, Building
  <2>6. NamesDistinct' /\ RowsLive' /\ BuildsAtName'
    BY <2>3, <2>4, <2>5 DEF Housed, NamesDistinct, RowsLive, BuildsAtName
  <2>7. Placed'
    <3> SUFFICES ASSUME NEW m \in TableNodes \ torn'
                 PROVE  NameOf(m) \in DOMAIN storage' /\ RowsOf(m) \subseteq storage'[NameOf(m)]
      BY <2>4, <2>5 DEF Placed, TableNodes
    <3>1. NameOf(m) \in DOMAIN storage'
      BY <2>2
    <3>2. CASE Building(m)
      BY <3>1, <3>2 DEF Housed, BuildsAtName, TableNodes
    <3>3. CASE ~Building(m)
      <4>1. Place(m) = NameOf(m) /\ m \in TableNodes \ torn
        BY <2>3 DEF Place
      <4>2. NameOf(m) \in DOMAIN storage /\ RowsOf(m) \subseteq storage[NameOf(m)]
        BY <3>3, <4>1 DEF Housed, Placed
      <4> QED BY <2>2, <4>2 DEF Extended
    <3> QED BY <3>2, <3>3
  <2>8. Owned'
    <3> SUFFICES ASSUME torn' = {}, NEW y \in DOMAIN storage', NEW p \in storage'[y]
                 PROVE  p \in put /\ NameOf(p[1]) = y
      BY <2>3, <2>5 DEF Owned
    <3>1. y \in DOMAIN storage /\ p \in storage[y]
      BY <2>2 DEF Extended
    <3>2. torn = {} /\ job.op # "rename"
      BY <2>3
    <3> QED BY <3>1, <3>2 DEF Housed, Owned, Place
  <2> QED BY <2>6, <2>7, <2>8 DEF Housed
<1>7. ASSUME UNCHANGED vars PROVE Housed'
  <2>1. UNCHANGED <<nodes, storage, put, torn, job>>
    BY <1>7 DEF vars, board, data
  <2> QED BY <2>1 DEF Housed, NamesDistinct, RowsLive, BuildsAtName, Placed, Owned,
                      Place, Building, TableNodes, RowsOf, NameOf, Live
<1> QED BY <1>1, <1>2, <1>3, <1>4, <1>5, <1>6, <1>7, UpdatedHoused DEF Statements

LEMMA HousedAlways == Spec => [](Typed /\ Housed)
<1>1. Init => Housed
  <2> SUFFICES ASSUME Init PROVE Housed
    OBVIOUS
  <2>1. Live = {} /\ DOMAIN storage = {} /\ put = {}
    BY DEF Init, Live
  <2> QED BY <2>1 DEF Housed, NamesDistinct, RowsLive, BuildsAtName, Placed, Owned, TableNodes
<1>2. Typed /\ Housed /\ [Next]_vars => (Typed /\ Housed)'
  BY TypedRequests, TypedStatements, StutterTyped, HousedRequests, HousedStatements DEF Next
<1> QED BY InitTyped, <1>1, <1>2, PTL DEF Spec

(* The rows of a table node stay at its address through every rename, refusal,
   deletion and re-use of a name by other nodes, and through every crash; only a
   rename of its own that is torn between its two statements can lose them. *)
THEOREM RowsReachable == Spec => []RowsStayReachable
<1>1. Housed => RowsStayReachable
  BY DEF Housed, Placed, RowsStayReachable, Building, Place, Free
<1> QED BY HousedAlways, <1>1, PTL

(* While no rename was torn, no table node serves the rows of another node, nor
   rows that were removed or whose node was deleted. *)
THEOREM RowsOwned == Spec => []OnlyOwnRows
<1>1. Housed => OnlyOwnRows
  <2> SUFFICES ASSUME Housed, Free, torn = {}, NEW n \in TableNodes, NEW p \in storage[NameOf(n)]
               PROVE  p \in RowsOf(n)
    BY DEF OnlyOwnRows
  <2>1. \A m : ~Building(m) /\ Place(m) = NameOf(m)
    BY DEF Building, Place, Free
  <2>2. NameOf(n) \in DOMAIN storage
    BY <2>1 DEF Housed, Placed
  <2>3. p \in put /\ NameOf(p[1]) = NameOf(n)
    BY <2>1, <2>2 DEF Housed, Owned
  <2>4. p[1] = n
    BY <2>3 DEF Housed, RowsLive, NamesDistinct, TableNodes
  <2> QED BY <2>3, <2>4 DEF RowsOf
<1> QED BY HousedAlways, <1>1, PTL
====
