---- MODULE BoardStore ----
(***************************************************************************)
(* The board as the engine stores it (wheel-engine/src/db/board.rs), with   *)
(* the two stores that hang off its nodes: the SQLite table of each table   *)
(* node (db/tables.rs), found by the node's NAME, and the values of each    *)
(* vault (vault.rs, api/vault_routes.rs), found by its id.  A request holds *)
(* the one connection from its first statement to its last, so requests do  *)
(* not interleave; but each statement commits by itself, and the engine may *)
(* die between any two.  One read lets go of the connection half way.       *)
(***************************************************************************)
EXTENDS FiniteSets, Functions

CONSTANTS
  Tables, Agents, Vaults, Plain, \* the ids nodes may have, by their type
  Names,
  NamesOf,      \* bound: the names a node may be given
  RowKeys,      \* the keys of the rows of a table
  Keys,         \* the keys of a vault
  Histories,    \* the ids that may be spent before the behaviour begins
  Crashes,      \* whether the engine may die
  None

Ids == Tables \cup Agents \cup Vaults \cup Plain

ASSUME BoardAssumption ==
  /\ \A k, l \in {Tables, Agents, Vaults, Plain} : k # l => k \cap l = {}
  /\ NamesOf \in [Ids -> SUBSET Names]
  /\ Histories \subseteq SUBSET Ids
  /\ Keys \subseteq {"session", "token", "api_key"}
  /\ Keys \cap Names = {}
  /\ Crashes \in BOOLEAN
  /\ None \notin Names

VARIABLES
  nodes,     \* table `nodes`: id -> its name and the keys it declares
  wires,     \* table `wires`: the agents' read wires to vaults
  storage,   \* the t_<name> tables: name -> the rows in it, each with the id
             \* of the node it was put through
  values,    \* table `vault_values`: <<vault, key>>
  job,       \* the request that has the connection, between two statements
  reader,    \* the name a GET of rows has read and not used yet
  spent,     \* the ids in use or used: an id is never given twice
  put,       \* history: the rows put through each node and not removed
  torn,      \* history: table nodes that were renamed by half
  unchecked  \* history: values stored without a look at the other vaults

board == <<nodes, wires, spent>>
data == <<storage, put, torn>>
secrets == <<values, unchecked>>
vars == <<board, data, secrets, job, reader>>

TableJobs == {"drop", "make", "rename", "delete"}
VaultJobs == {"declare", "supersede", "undeclare"}
Idle == [op |-> "idle", id |-> None, arg |-> None]
Free == job.op = "idle"

Live == DOMAIN nodes

TypeOK ==
  /\ Live \subseteq spent /\ spent \subseteq Ids
  /\ nodes \in [Live -> [name : Names, keys : SUBSET Keys]]
  /\ wires \subseteq (Live \cap Agents) \X (Live \cap Vaults)
  /\ DOMAIN storage \subseteq Names
  /\ storage \in [DOMAIN storage -> SUBSET (Tables \X RowKeys)]
  /\ values \subseteq (Live \cap Vaults) \X Keys
  /\ job \in {Idle} \cup [op : TableJobs, id : Tables, arg : Names]
                    \cup [op : VaultJobs, id : Vaults, arg : Keys]
  /\ reader \in Names \cup {None}
  /\ put \subseteq Tables \X RowKeys
  /\ torn \subseteq Tables
  /\ unchecked \subseteq Vaults \X Keys

Init ==
  /\ nodes = [n \in {} |-> None] /\ storage = [x \in {} |-> {}]
  /\ wires = {} /\ values = {}
  /\ job = Idle /\ reader = None /\ spent \in Histories
  /\ put = {} /\ torn = {} /\ unchecked = {}

-----------------------------------------------------------------------------
\* What the statements of a request see and do.
TableNodes == Live \cap Tables
NameOf(n) == nodes[n].name
NameTaken(x, n) == \E m \in Live \ {n} : NameOf(m) = x
RowsOf(n) == {p \in put : p[1] = n}

Then(op, n, arg) == job' = [op |-> op, id |-> n, arg |-> arg]
Done == job' = Idle

\* tables::drop, and the two ways of making a table: CREATE and ensure.
DropIgnored(x) == storage
Without(x) == Restrict(storage, DOMAIN storage \ {x})
With(x, rows) == [y \in DOMAIN storage \cup {x} |->
                    IF y = x THEN rows ELSE storage[y]]
RowsAt(x) == IF x \in DOMAIN storage THEN storage[x] ELSE {}
Ensured(X) == [y \in DOMAIN storage \cup X |-> RowsAt(y)]

\* UPDATE nodes: the new name and keys of a node that keeps its id.
Updated(n, x, K) == [nodes EXCEPT ![n] = [name |-> x, keys |-> K]]

\* vault.rs: the variable a key reaches a child as, who reads a vault, and
\* whether a vault holds a value for the same variable.
Slot(k) == IF k = "session" THEN "token" ELSE k
Readers(v) == {a \in Agents : <<a, v>> \in wires}
VaultsOf(a) == {v \in Vaults : <<a, v>> \in wires}
Holds(v, k) == \E l \in Keys : <<v, l>> \in values /\ Slot(l) = Slot(k)
Clash(p, q) == p # q /\ Slot(p[2]) = Slot(q[2])
Ambiguous(V) == \E p, q \in values : {p[1], q[1]} \subseteq V /\ Clash(p, q)

-----------------------------------------------------------------------------
\* Nodes and their tables.

\* create_with: INSERT the node; a table node then gets its table, and whatever
\* is at that name goes first.
Create(n, x) ==
  /\ Free /\ n \notin spent /\ ~NameTaken(x, n)
  /\ nodes' = [m \in Live \cup {n} |->
                 IF m = n THEN [name |-> x, keys |-> {}] ELSE nodes[m]]
  /\ spent' = spent \cup {n}
  /\ IF n \in Tables THEN Then("drop", n, x) ELSE Done
  /\ UNCHANGED <<wires, data, secrets, reader>>

CreateDrops ==
  /\ job.op = "drop"
  /\ storage' = Without(job.arg)
  /\ Then("make", job.id, job.arg)
  /\ UNCHANGED <<board, put, torn, secrets, reader>>

CreateMakes ==
  /\ job.op = "make"
  /\ storage' = With(job.arg, {})
  /\ Done
  /\ UNCHANGED <<board, put, torn, secrets, reader>>

\* tables::rename: ALTER TABLE fails on a table that is not there, and on a name
\* another table has.
AltersAny(n, x) == NameOf(n) \in DOMAIN storage
Alters(n, x) == NameOf(n) \in DOMAIN storage /\ x \notin DOMAIN storage

\* patch_node with a name: update_with moves the table of a table node to the
\* new name, and then writes the name.
Rename(n, x) ==
  /\ Free /\ n \in Live /\ x # NameOf(n)
  /\ IF n \in Tables
     THEN /\ Alters(n, x)
          /\ storage' = [y \in (DOMAIN storage \ {NameOf(n)}) \cup {x} |->
                           IF y = x THEN storage[NameOf(n)] ELSE storage[y]]
          /\ Then("rename", n, x)
          /\ UNCHANGED nodes
     ELSE /\ ~NameTaken(x, n)
          /\ nodes' = Updated(n, x, nodes[n].keys)
          /\ UNCHANGED <<storage, job>>
  /\ UNCHANGED <<wires, spent, put, torn, secrets, reader>>

\* The UPDATE: refused when another node has the name, and the table has moved.
RenameUpdates ==
  /\ job.op = "rename"
  /\ IF NameTaken(job.arg, job.id)
     THEN torn' = torn \cup {job.id} /\ UNCHANGED nodes
     ELSE nodes' = Updated(job.id, job.arg, {}) /\ UNCHANGED torn
  /\ Done
  /\ UNCHANGED <<wires, spent, storage, put, secrets, reader>>

\* DELETE FROM nodes, with the schema's cascades.
GoneAlone(n) ==
  /\ nodes' = Restrict(nodes, Live \ {n})
  /\ UNCHANGED <<wires, values, unchecked>>

Gone(n) ==
  /\ nodes' = Restrict(nodes, Live \ {n})
  /\ wires' = {w \in wires : n \notin {w[1], w[2]}}
  /\ values' = {p \in values : p[1] # n}
  /\ unchecked' = {p \in unchecked : p[1] # n}

\* delete: the table of a table node first, then the node.
Delete(n) ==
  /\ Free /\ n \in Live
  /\ IF n \in Tables
     THEN /\ storage' = Without(NameOf(n)) /\ put' = put \ RowsOf(n)
          /\ Then("delete", n, NameOf(n))
          /\ UNCHANGED <<nodes, wires, secrets>>
     ELSE Gone(n) /\ UNCHANGED <<storage, put, job>>
  /\ UNCHANGED <<spent, torn, reader>>

DeleteRemoves ==
  /\ job.op = "delete"
  /\ Gone(job.id) /\ Done
  /\ UNCHANGED <<spent, data, reader>>

\* put_row: the table is ensured, the row of that key replaced.
PutRow(n, r) ==
  /\ Free /\ n \in TableNodes
  /\ storage' = With(NameOf(n), {p \in RowsAt(NameOf(n)) : p[2] # r} \cup {<<n, r>>})
  /\ put' = put \cup {<<n, r>>}
  /\ UNCHANGED <<board, torn, secrets, job, reader>>

\* delete_row: an error where there is no table.
RemoveRow(n, r) ==
  /\ Free /\ n \in TableNodes /\ NameOf(n) \in DOMAIN storage
  /\ storage' = With(NameOf(n), {p \in storage[NameOf(n)] : p[2] # r})
  /\ put' = put \ {<<n, r>>}
  /\ UNCHANGED <<board, torn, secrets, job, reader>>

\* Any read of a table node's rows on an agent's behalf ensures the table.
ReadRows(n) ==
  /\ Free /\ n \in TableNodes
  /\ storage' = Ensured({NameOf(n)})
  /\ UNCHANGED <<board, put, torn, secrets, job, reader>>

\* GET /v1/tables/:id/rows: table_node finds the name and lets the connection
\* go; list_rows takes it again and ensures a table of that name.
RouteLooksUp(n) ==
  /\ Free /\ reader = None /\ n \in TableNodes
  /\ reader' = NameOf(n)
  /\ UNCHANGED <<board, data, secrets, job>>

RouteLists ==
  /\ Free /\ reader # None
  /\ storage' = Ensured({reader}) /\ reader' = None
  /\ UNCHANGED <<board, put, torn, secrets, job>>

-----------------------------------------------------------------------------
\* Vaults and who reads them.

\* find_ambiguity among the vaults an agent reads and the one it is to read.
AdmitsAny(a, v) == ~Ambiguous(VaultsOf(a))
Admits(a, v) == ~Ambiguous(VaultsOf(a) \cup {v})

\* add_wire: refused when the agent would have two values for one variable.
AddWire(a, v) ==
  /\ Free /\ {a, v} \subseteq Live
  /\ Admits(a, v)
  /\ wires' = wires \cup {<<a, v>>}
  /\ UNCHANGED <<nodes, spent, data, secrets, job, reader>>

RemoveWire(a, v) ==
  /\ Free /\ <<a, v>> \in wires
  /\ wires' = wires \ {<<a, v>>}
  /\ UNCHANGED <<nodes, spent, data, secrets, job, reader>>

\* patch_node with a config: a vault declares what the operator says it does.
PatchKeys(v, K) ==
  /\ Free /\ v \in Live
  /\ nodes' = Updated(v, NameOf(v), K)
  /\ UNCHANGED <<wires, spent, data, secrets, job, reader>>

\* store_in_vault: a key the vault declares is stored as it is; one it does not
\* declare is looked for in the vault itself and in the others its readers read.
Unrivalled(v, k) ==
  /\ k # "session" => ~\E l \in Keys \ {k} : <<v, l>> \in values /\ Slot(l) = Slot(k)
  /\ \A a \in Readers(v) : \A w \in VaultsOf(a) \ {v} : ~Holds(w, k)

\* Of a value that was not there before: whether that look was taken at all.
Skips(v, k) ==
  /\ <<v, k>> \notin values
  /\ k \in nodes[v].keys \/ (k = "session" /\ <<v, "token">> \in values)

Store(v, k) ==
  /\ k \in nodes[v].keys \/ Unrivalled(v, k)
  /\ values' = values \cup {<<v, k>>}
  /\ unchecked' = IF Skips(v, k) THEN unchecked \cup {<<v, k>>} ELSE unchecked

Supersedes(v) == IF <<v, "token">> \in values THEN Then("supersede", v, "token") ELSE Done

\* PUT /v1/vault/:id/:key; a login is refused here.
PutValue(v, k) ==
  /\ Free /\ v \in Live /\ k # "session"
  /\ Store(v, k)
  /\ IF k \in nodes[v].keys THEN Done ELSE Then("declare", v, k)
  /\ UNCHANGED <<board, data, reader>>

\* save_session_to_vault: the agent must read the vault; the login takes the
\* place of a bare token in the same vault, once it is stored and declared.
SaveSession(a, v) ==
  /\ Free /\ <<a, v>> \in wires /\ "session" \in Keys
  /\ Store(v, "session")
  /\ IF "session" \in nodes[v].keys THEN Supersedes(v) ELSE Then("declare", v, "session")
  /\ UNCHANGED <<board, data, reader>>

Declares ==
  /\ job.op = "declare"
  /\ nodes' = Updated(job.id, NameOf(job.id), nodes[job.id].keys \cup {job.arg})
  /\ IF job.arg = "session" THEN Supersedes(job.id) ELSE Done
  /\ UNCHANGED <<wires, spent, data, secrets, reader>>

\* remove_from_vault: the value, then its declaration.
Forget(v, k) ==
  /\ values' = values \ {<<v, k>>}
  /\ unchecked' = unchecked \ {<<v, k>>}
  /\ Then("undeclare", v, k)
  /\ UNCHANGED <<board, data, reader>>

DeleteValue(v, k) == Free /\ v \in Live /\ Forget(v, k)
Superseded == job.op = "supersede" /\ Forget(job.id, job.arg)

Undeclares ==
  /\ job.op = "undeclare"
  /\ nodes' = Updated(job.id, NameOf(job.id), nodes[job.id].keys \ {job.arg})
  /\ Done
  /\ UNCHANGED <<wires, spent, data, secrets, reader>>

-----------------------------------------------------------------------------
\* The engine dies, between two requests or between two statements of one, and
\* boots again: ensure_tables makes the table of every table node exist.
Crash ==
  /\ Crashes
  /\ torn' = IF job.op = "rename" THEN torn \cup {job.id} ELSE torn
  /\ storage' = Ensured({NameOf(n) : n \in TableNodes})
  /\ job' = Idle /\ reader' = None
  /\ UNCHANGED <<board, put, secrets>>

Requests ==
  \/ \E n \in Ids : \E x \in NamesOf[n] : Create(n, x) \/ Rename(n, x)
  \/ \E n \in Ids : Delete(n) \/ ReadRows(n) \/ RouteLooksUp(n)
  \/ \E n \in Tables, r \in RowKeys : PutRow(n, r) \/ RemoveRow(n, r)
  \/ \E a \in Agents, v \in Vaults :
       AddWire(a, v) \/ RemoveWire(a, v) \/ SaveSession(a, v)
  \/ \E v \in Vaults, k \in Keys : PutValue(v, k) \/ DeleteValue(v, k)
  \/ \E v \in Vaults, K \in SUBSET Keys : PatchKeys(v, K)

Statements ==
  \/ CreateDrops \/ CreateMakes \/ RenameUpdates \/ DeleteRemoves
  \/ Declares \/ Superseded \/ Undeclares \/ RouteLists

Next == Requests \/ Statements \/ Crash

Spec == Init /\ [][Next]_vars

-----------------------------------------------------------------------------
(* Rows put through a table node are found at its address, whatever becomes of
   other nodes, wherever the engine died and whoever had the name before: a
   table follows its node (update_with) and is never dropped for another's sake
   (create, delete).  A node whose own rename was torn in half is excepted. *)
RowsStayReachable ==
  Free => \A n \in TableNodes \ torn :
            NameOf(n) \in DOMAIN storage /\ RowsOf(n) \subseteq storage[NameOf(n)]

(* The same with no exception, as update_with's comment has it: the table has to
   follow the node through every shape the node can change into. *)
RowsFollowTheNode ==
  Free => \A n \in TableNodes :
            \A p \in RowsOf(n) : NameOf(n) \in DOMAIN storage /\ p \in storage[NameOf(n)]

(* No node serves rows that were put through another, or rows that were removed:
   a new table node never inherits what an earlier one of its name left
   (tables::create), be it deleted by half.  Only a torn rename leaves a table
   that a crash can put in the hands of a later node. *)
OnlyOwnRows ==
  Free /\ torn = {} => \A n \in TableNodes : storage[NameOf(n)] \subseteq RowsOf(n)

(* An agent with two values for one variable cannot start (env_for_spawn), so the
   doors refuse to make one: add_wire, PUT, a sign-in.  Whenever there is one all
   the same, one of the two values was stored unchecked, under a key its vault
   already declared or by a sign-in that died before it removed the bare token. *)
ClashesAreUnchecked ==
  \A a \in Agents : \A p, q \in values :
    {p[1], q[1]} \subseteq VaultsOf(a) /\ Clash(p, q) => {p, q} \cap unchecked # {}
====
