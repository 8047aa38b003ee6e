# Wheel: formal models of the engine, its host and its updater

TLA+ models, TLC runs and TLAPS proofs for the engine that runs a board of
agents (`src/crates/wheel-engine`), for the host that owns the projects' engines
(`src/crates/wheel-host`, `src/crates/wheeld/src/embedded.rs`) and for the daemon that
updates itself (`src/crates/wheeld/src/update`). Paths are relative to `src/`; `mod.rs`
alone means `crates/wheel-engine/src/supervisor/mod.rs`, and `refresh.rs`,
`quota.rs`, `awaits.rs` are its siblings. `messages.rs` is
`crates/wheel-engine/src/db/messages.rs`.

    AgentSupervisor.tla          one agent: its threads, its slot, its process
      EXTENDS MessageStore.tla   the messages table, one operator per statement
      INSTANCE MessageLedger.tla what the table promises, as a specification
    MCSupervisor.tla, *.cfg      instances for TLC
    MessageStoreProofs.tla       every statement moves rows legally
    AgentSupervisorProofs.tla    type invariant; the supervisor implements the ledger
    SupervisorSafetyProofs.tla   one process per agent

    AwaitGraph.tla               agents that ask each other and wait
    MCAwaits.tla, Awaits.cfg     its instance for TLC
    AwaitGraphProofs.tla         types; no cycle; the edges are the open waits

    LoginRenewal.tla             one vault's login: renewals, timers, sign-ins
    MCRenewal.tla, Renewal.cfg   its instance for TLC
    LoginRenewalProofs.tla       types; no line put back, no double renewal, a renewal is due

    BoardStore.tla               nodes, the tables of table nodes, the values of vaults
    MCBoard.tla, Board.cfg, RenamedRows.cfg   its instances for TLC
    BoardProofs.tla              types; rows stay with their node; who checked a clash

    Updater.tla                  the updater, from request to rollback
      INSTANCE UpdatePromise.tla what it promises of the daemon that boots
    MCUpdater.tla, Updates.cfg   its instance for TLC
    UpdaterProofs.tla            types; a rollback is possible; the promise

    HostLifecycle.tla            the host, its store, two sandboxes, the engines
    MCHost.tla, Host.cfg         its instance for TLC
    HostProofs.tla               types; uids; what runs is restored

Checking: `tlc -config Delivery.cfg MCSupervisor.tla` for a run,
`tlapm AgentSupervisorProofs.tla` for a proof.

The six groups meet at named points and are checked apart. `AgentSupervisor` has
the gate that `Updater` closes (`PauseTurns`, `LiftSwaps`, `LiftOpens` there; `mute`
here), the shutdown that ends a process for an install or a stop (`Shutdown`,
`Exit`; `Exit` of an engine in `HostLifecycle`), and the delivery that `AwaitGraph` sees
as `TakeTurn`, `EndTurn` and `Requeue`. `AgentSupervisor` sees of a vault its generation, and of a renewal
its outcome (`Renew`, `StartRenews`, `RecoverRenews`, `Adopt`); how that outcome comes about is
`LoginRenewal`, which sees of an agent three statuses. `BoardStore` has of a sign-in what it does to the
other values of the vault (`SaveSession`), and nothing of what runs. What each group assumes of its neighbour is what
the neighbour's model does: a turn that ends settles or requeues its row, a closed gate
starts no turn, an engine that was asked to stop ends.

## 1. Inventory

What each part keeps, does, and must get right. "Modelled" says where.

### Message store: `db/messages.rs`, `wheel-core/src/message.rs`

* State: one SQLite row per message: `state` (queued, delivered, consumed,
  undeliverable), `is_error`, `notify` (0 not asked, 1 asked, 2 told),
  `limit_requeues`, `rowid`.
* Operations: `enqueue`, `next_for_delivery` (two lanes, a burst cap and an age
  promotion so that the operator's lane cannot starve the other), `advance`,
  `complete`, `mark_error`, `requeue_undelivered`, `requeue_all_undelivered`,
  `consume_all_delivered_as_interrupted`, `requeue_for_limit`,
  `claim_notification`, `quarantine`.
* Correct when: a message is consumed exactly once, a final state is final, a
  closed usage window sends it back a bounded number of times, the sender is
  told at most once and never early, nothing stays `delivered` with nobody
  working on it.
* Modelled: `MessageStore`, and `MessageLedger` as its promise.

### Agent supervisor: `supervisor/mod.rs`

* State: per agent an async mutex (the slot) over `Option<Running>`; the
  database's `agent_state` and node token; `closing`, `paused_for_update`, a stop
  epoch; the timers it has armed; one reader task per child process.
* Operations: `start`, `pump_queue`, `deliver`, `stop`, `interrupt`,
  `clear_context`, `park`, `pump_stdout` and `reap` (the reader), `on_limit`,
  `resume_after_limit`, `watch_for_a_wedged_start`, `kill_if_oauth_shaped`,
  `pause_turns`, `resume_turns`, `shutdown`, `start_configured_agents`.
* Interactions: HTTP routes and timers call it, each on a task of its own; it
  reads and writes the database under a second mutex which it never holds across
  an await; the broker recycles its processes.
* Hard: the slot lock is released and taken again around a login renewal; most
  operations kill under the lock and write the row and the status after it; a
  reader settles a turn after letting the slot go; a killed process may have
  output that is still to be read.
* Correct when: one process per agent (§3c#13), liveness decided by the slot's
  owner (§3c#15), no message lost (§3c#11) or run twice, a queue that drains by
  itself, nothing started behind a closing gate.
* Modelled: `AgentSupervisor`, the whole list above for one agent.

### Credential broker: `supervisor/refresh.rs`, `vault.rs`

* State: the session vault's login, one renewal lock per vault (`broker.locks`, taken through `lineage_lock`), and in memory per vault
  the last attempt, the count of unreadable failures, the last verdict and the latest timer.
* Operations: `ensure_fresh`, `renew`, `renew_if_still`, `arm_renewal`, `arm_refresh_timer`, `session_saved`,
  `arm_all_refresh_timers`, `record_failure`; for the readers `spawn_adopt`, `recycle`,
  `recover_from_auth_failure`, `park_needs_auth`, `resume_readers_if_blocked`.
* Interactions: `start` and the reader of a failed turn call it and wait; a timer calls it alone; a
  sign-in and a deletion write the vault beside it; the harness CLI talks to the authorization server.
* Hard: a refresh token is spent by use, so two renewals of one login lose it; a sign-in comes while the
  old login is being renewed; the caller is dropped in the middle; an answer that nobody can read.
* Correct when: a login is renewed once, never written over a newer one, has a renewal coming for as long as
  one can work, is not asked for for ever, and every caller is answered.
* Modelled: `LoginRenewal`, for one vault; what the readers do with a new login (adopt,
  recycle, park) is `AgentSupervisor`.

### Usage limits: `supervisor/quota.rs`

Pure classification of a turn's end, the requeue cap and the backoff. The cap, the
fallback credential and the timer are in `AgentSupervisor`; texts and times are
abstracted to the four ends of a turn.

### Awaits: `supervisor/awaits.rs`

* State: the edges of the wait-for graph, under a mutex; per handler a subscription
  to the event bus, which drops the oldest event of a subscriber that falls behind.
* Operations: `begin` (refuses a wait that closes a cycle, and more than
  `MAX_CONCURRENT_AWAITS`), `set_message`, the guard's drop, `await_settlement`;
  the routes `msg`, `sent` and `send` that use them.
* Hard: handlers begin at once; a client goes away at any await and the guard goes
  with the future; the event may come before the first read, or be dropped; a turn
  ends over a wait it left open.
* Correct when: no set of nodes waits only on itself, an edge lives exactly as long as
  its handler, every wait comes back without its deadline.
* Modelled: `AwaitGraph`.

### Board, tables, vault storage: `db/board.rs`, `db/tables.rs`, `vault.rs`, `api/{board,table,vault}_routes.rs`

* State: the SQLite tables `nodes` (a name is unique), `wires`, `vault_values`, and one table
  `t_<name>` for each table node, which nothing but the name ties to it.
* Operations: `create_node`, `patch_node`, `delete_node`, `add_wire`, `remove_wire`; `put_row`,
  `delete_row` and the reads, each of which makes the table if it is not there; `put_value`,
  `delete_value`, `save_session_to_vault`; `ensure_tables` at boot.
* Interactions: all under the one connection's mutex, held for a whole request (but for
  one read); a start asks `env_for_spawn` for what the vaults hold.
* Hard: a request is several statements that commit one by one, and any of them may be the last; a
  name is given again; a declared key is not a stored one.
* Correct when: rows are found through their node and no other, and no agent is left with two values for
  one variable, which would keep it from starting.
* Modelled: `BoardStore`. `agent_state` and the validity of one node token are variables of
  `AgentSupervisor`.

### Engine routes and boot: `api/*.rs`, `lib.rs`

The agent routes (`start`, `stop`, `interrupt`, `restart`, `clear`, `send`) enter
the model as the calls they make; `serve_until_with` as `Boot`, `Exit` and
`Crash`; `write`, `rm`, `read` of a table and the board, table and vault routes as the requests of
`BoardStore`. The other routes are validation and CRUD.

### Harness driver: `harness/claude.rs`, `harness/driver.rs`

Parses the child's stdout. The child is external: it may print `init`, end a turn
(ok, error, auth, limit) and die.

### Updater: `wheeld/src/update/*.rs`

* State: `state.json` (bad builds, the pending marker, the recorded request, the
  history the breaker counts), the bin dir with a `.prev` beside each binary, the
  last status, the flags `checking` and `applying`, the registry of engines with its pause flag.
* Operations: `tick`, `due`, `apply`/`attempt`, `check`/`look`, `poke`, `request`,
  `install`/`swap`/`rollback`, `settle_boot`/`decide`, `watchdog`, `confirm`,
  `attach`, `pause`, `resume`.
* Interactions: agents ask through their CLI calls; engines attach when they start
  and are paused for a drain; the supervisor of the process starts it again.
* Hard: a crash between any two steps of an install or a rollback; the watchdog is a thread
  beside the task that confirms; the attempt works with the answer of a check that another
  caller started; engines attach while the flag changes.
* Correct when: the daemon that boots has proven itself or is on trial with its predecessor
  beside it; nothing ungated is tried; no turn is killed; a request is not dropped.
* Modelled: `Updater`, and `UpdatePromise` as its promise.

### Host and embedded engines: `wheel-host/src`, `wheeld/src/{embedded,supervise,guard}.rs`

* State: the store (`desired_running`, `uid_base`, a watermark), the sandbox's map of
  engines, the processes and tasks themselves, the socket path of each project.
* Operations: the routes `put`, `get`, `start`, `stop`, `restart`, `delete`;
  `reconcile_on_boot`; of each sandbox `provision`, `start`, `stop`, `destroy`, `status`.
* Hard: nothing serialises two requests on one project; every handler is dropped where it
  stands when its client goes away; a process sandbox's engines survive the host, an
  embedded one's do not; an engine unlinks a path another may have bound.
* Correct when: one engine per project, what was stopped stays so and what runs comes
  back after a boot, no engine is out of everybody's hands, a uid range is given once.
* Modelled: `HostLifecycle`, for the process and the embedded sandbox. `docker` and
  `external` hand the same calls to another program.

### Cloud API, CLI, tools, validation, SQLite adapter, front ends

Stateless handlers over SQL, argument parsing, code generation, pure functions, a
driver shim and user interfaces. Not modelled (section 11).

## 2. The supervisor model

`AgentSupervisor` is one agent. The slot, the rows selected by recipient, the
status and the token of two agents do not interact except through the broker's
shared login and the notification a settled message puts in its sender's queue, so
one agent with any number of threads around it has every interleaving of its own
locks. The two exceptions enter as `Renew` (some other reader renewed the login)
and `ClaimNotification` (that the sender was told; the sender's queue is outside).

### State

| Variable | Code |
|---|---|
| `row` | the rows of `messages` addressed to the agent |
| `status`, `session`, `fallback` | `agent_state.status`, `.session_id` (0 is NULL), `.fallback_until` lies ahead |
| `token` | the node token the last start minted has not been revoked |
| `slot` | `Option<Running>`: run id (0 is None), session, `in_flight`, `consecutive_user`, credential generation, `on_fallback` |
| `closing`, `paused` | `Supervisor.closing`, `.paused_for_update` |
| `login` | generation of the session vault's login |
| `parkTimer`, `resumeTimer` | a timer task of `arm_park_timer`, `arm_resume_timer` is asleep |
| `child`, `pipe` | each process: phase, session, turns written to its stdin; its unread stdout |
| `pc`, `loc` | each thread: where it is, and the values it carries from one step to the next |
| `left` | how many of `Ops` may still happen (a bound) |
| `ran`, `discarded` | history: completed turns per message, sessions thrown away |

A thread is a task (a request handler, a timer, a spawned pass) or the reader of
one run. The database and the history survive a restart, the rest does not.

### Steps

A step is one critical section of the slot mutex, or one database block outside it.
Where the code holds the slot mutex across an await or across several blocks whose
intermediate states others can see (a spawn, a write to stdin, a park, a stop), the
model holds it too: `pc` is in `Holding` and every action that needs the lock asks
`LockFree`. What the code reads before it has the lock and uses after it is carried in
`loc`: the session to resume, `fallback_until`, the stop epoch, the credential generation.

| Actions | Code |
|---|---|
| `Send`, `Start`, `Stop`, `Restart`, `Interrupt`, `ClearContext` | `api/agent_routes.rs` |
| `Deliver`, `AfterStart`, `Redeliver` | `deliver` |
| `StartLooks`, `StartRenews`, `StartRefused`, `StartRetakes`, `StartStopped`, `Spawn`, `SpawnFails` | `start`: first look, credential, second look, the epoch asked again, spawn |
| `PumpSkips`, `PumpWrites`, `PumpAdvances`, `PumpQuarantines` | `pump_queue`: the early returns, the write, what follows the write, the set-aside body |
| `NoteStop`, `TakeNothing`, `TakeAndKill`, `Stopped`, `Overspent`, `StayDown`, `ComeBack` | `stop`, `interrupt`, `clear_context`, `recycle`, `park_needs_auth`, `kill_if_oauth_shaped` |
| `Recycle`, `Adopt`, `Recover`, `RecoverRenews`, `Renew` | `refresh.rs` |
| `ParkTakes`, `Parks`, `WedgeCheck`, `Wedged`, `WindowOpens`, `Reopen` | the three timers |
| `ReadInit`, `ReadResult`, `Settle`, `SettleOverBudget`, `Limited`, `LimitedOverBudget`, `HaltTakes`, `HaltKills` | `pump_stdout`, `settle_turn`, `on_limit`, `halt_child` |
| `Reap`, `ReapLooks`, `ReapSettles` | `reap` |
| `PauseTurns`, `LiftSwaps`, `LiftOpens`, `Shutdown`, `DrainEnds`, `ShutdownMarks`, `ShutdownKills` | the update gate and `shutdown` |
| `Exit`, `Crash`, `Boot` | `lib.rs`, `start_configured_agents` |
| `ChildInits`, `ChildEndsTurn`, `ChildDies` | the harness process (external) |

### Abstracted

Message bodies, error texts, spend figures (crossing the budget is an
operation), clock values (a timer that is armed may fire), workspaces, prompts,
git credentials and log lines. The checks of a start that refuse it
(unsupported harness, lapsed credential, api-key-only, failed renewal) are one
action, which writes either of the two statuses they write. A write to stdin that fails leaves the message queued, which is
what `PumpWrites` does when the process is dead. Rate-limit events inside a turn
only decide which of the four ends the turn has. `turns_in_flight` decides how long
`shutdown` waits, up to a deadline; here it may stop waiting at any moment.

### Bounds

| Constant | Meaning | Why the value is enough |
|---|---|---|
| `Msgs` | 1 or 2, one per lane | order and starvation need two lanes; a lost or doubled message needs one message and the turn of another |
| `Tasks` | 2 | every race found is between two tasks, or a task and a reader; with the readers there are up to five threads |
| `MaxRuns` | 1 to 3 | two runs give a stale reader against a live one; a start with none left waits, which `OutOfRuns` keeps apart from a deadlock |
| `Ops`, `MaxOps` | the operations and faults an instance may meet, and how many of them happen | sends, boot, parks, ends of windows and good turns are not counted |
| `MaxLimitRequeues` | 1 | the code's cap is larger, but nothing depends on the distance |
| `UserLaneBurst` | 1 | as above |
| `StaleOutput` | what a killed process has printed may still be read | set in Everything; elsewhere a reader stops where its process was killed |

The cap and the burst are parameters, so the theorems hold for the code's values.

## 3. The wait-for graph

`AwaitGraph` is one project's agents, the handlers that wait on their behalf, and the turns
that answer them. A step is one critical section of the graph's mutex or of the database,
or one poll of the handler's future.

| Variable | Code |
|---|---|
| `edge` | `AwaitGraph.edges`, by the handler whose guard holds the key |
| `pc`, `call` | each handler: new, refused, begun, subscribed, waiting, returned; whom it asks, for whom, about what |
| `rows` | the state of the message it posts |
| `turn` | the message each agent works on |
| `rx` | the handler's subscription: empty, an event for its message, lagged |

| Actions | Code |
|---|---|
| `Ask`, `Look` | `msg` and `send`; `sent`, which may wait for a message posted earlier |
| `Subscribe`, `Read`, `Receive`, `Deadline` | `set_message`, `await_settlement` |
| `ClientGone` | the handler's future is dropped, and the guard with it |
| `Lag` | the broadcast channel drops what a slow subscriber has not read |
| `TakeTurn`, `EndTurn`, `Requeue`, `OtherTurn` | the target's turns; each publishes what it wrote |

`Chain` is `AwaitGraph::chain` without its stack: `to` lies in every set of nodes that is
closed under the waits of `from`. The row and the event of a settlement are one step, because
they are written under one lock. Left out: excerpts, the second `require` after the wait (it decides
what is disclosed, not who waits), the notification.

`NoWaitCycle` says that every set of nodes has a member that waits for nobody in it;
`EdgesAreOpenWaits` that the graph is the handlers still waiting, each under its own caller and
target, so that nobody is refused for a wait that is over; `EveryAskReturns` that all waits come
back although no deadline is assumed to pass.

*Bounds*: three agents that can close rings of two and three, the operator, three handlers (one
of them may look at an earlier message), two open waits per caller. A cycle of three is the first
a test for direct waits misses; the cap is reached. 201 thousand states.

*Fairness*: a handler that can run is polled; a queued message is taken in the end and its turn
ends, if it is started again and again (strong fairness: the delivery order starves no lane, and a message is
put back a bounded number of times, which the supervisor's `TypeOK` checks); a turn with no wait open ends. No timer and no
client is assumed to do anything.

## 4. The updater

`Updater` is one daemon: its binaries, its state file, its process, the engines it runs, and the
branch it follows.

| Variable | Code |
|---|---|
| `live`, `prev` | the bin dir: each binary and its `.prev` |
| `st` | `state.json`: `bad`, `pending`, `request`, and of the history the failures the breaker counts |
| `proc` | the process: its build; where the loop stands; `status`; a check under way; the confirmation; the watchdog |
| `board` | the registry's flag; each engine: attached or about to be, muted, in a turn |
| `head`, `ci` | `origin/main` and the checks of its commits |
| `proven` | history: builds that answered their own `/healthz` |
| `undone` | history: builds that were rolled back; a crash forgets those that were not yet marked bad |
| `overtaken` | history: an update was installed over an open trial, and no boot has found a sound disk since |

| Actions | Code |
|---|---|
| `Boot`, `BootRestore`, `BootMarkBad`, `BootClose` | `settle_boot`, `decide`, `roll_back`, one rename or write each |
| `Answer`, `ConfirmRead`, `ConfirmClose` | `confirm_health_when_serving`, `confirm_healthy`, `confirm` |
| `DogWakes` ... `DogCloses` | the watchdog's thread |
| `AgentAsks`, `Poke`, `Tick`, `Answered` | `request`, `poke`, `tick`, `check` and `look` |
| `Due`, `Judge`, `Build`, `RaiseFlag`, `ShutGates`, `Quiet`, `LowerFlag`, `OpenGates`, `Finish` | `due`, `attempt`, `pause`, `resume`, `finish` |
| `Shutdown`, `PlantMarker`, `CopyBeside`, `KeepPrevious`, `RenameOver`, `SwapFails`, `Undo`, `Unmark` | `run_with_updates`, `install`, `swap`, `rollback` |
| `Attach`, `Listed`, `StopEngine`, `StartTurn`, `EndTurn` | `attach`, and an engine's life |
| `Push`, `Checked`, `Crash`, `WindowPasses` | the world |

*Abstracted*: a version is a commit of the branch, in order; a checkout that is dirty or has diverged
is `red`, like a red check; the fetch interval and the cooldown only delay a tick, which may come at any
time; the operator's file is read inside `Tick`; notices, notifications and `settle` of the checkout are
left out. Renames in the bin dir and writes of `state.json` do not fail by themselves (a swap may, as
`SwapFails`).

*Overtaking.* Neither `due` nor the drain of an attempt (update/mod.rs:411-440, 497-517) looks at the pending
marker or at the watchdog. `health_for` is a setting, a build may be warm, and the operator bypasses the
cooldown: so the build on trial may install the next one while its own watchdog still runs, and
`PlantMarker` overwrites the marker. `overtaken` is set at that step (`TrialIsOpen`: a marker is there or the
watchdog has not given up) and cleared by a boot that opens no trial on a `Sound` disk, where the
installed daemon is proven and so is what lies beside it. The watchdog therefore works on the build it
read of the marker (`suspect`), and restores one binary and then the other beside whatever the install does
(`DogRestores`, `DogRestoresOther`). Nothing in the steps depends on the history variables.

*Properties*. `PromiseKept` is a refinement of `UpdatePromise`: `current` is the build that boots
when no trial is open, `candidate` the one on trial. `RollbackPossible` says that beside a daemon on
trial lies the build the marker came from. `OnlyGatedBuildsAreTried`: each new marker names a
build that is green, is not marked bad and was not rolled back (unless that rollback was cut short before its
mark), and one that changes the CI definition came from the operator.
`RequestsAreServed`: a request goes with an attempt for its requester, or when there is nothing
to install. `NoTurnIsKilled` and `PauseIsLifted`: a drain meets no turn and leaves no mute
engine. `TrialEnds`: every trial is closed. `PromiseKept`, `RollbackPossible` and `TrialEnds` end where a trial is
overtaken, and TLC breaks each of them without that exception; `UpdatePromise` has it as `Overtake`,
`Unsettled` and `Recover`.

*Bounds*: three commits, so that two updates follow each other and the second finds the `.prev` of the
first; one of them changes the CI; one engine; a breaker of one failure; mode `auto`, in which all three
requesters exist. 1.25 million states.

*Fairness*: the process is started again and its boot goes on, an install or a rollback in progress goes on,
the watchdog is a thread of its own, a build that answered records it. Strong fairness of
`BootRestore`: a process that comes to its rollback again and again is not killed before its first
rename each time. Nothing is assumed of the loop, of `/healthz` or of the engines.

*Weak points the model shows*, each listed as a hazard:

* A swap that fails before it has linked the running binary restores the `.prev` of an
  earlier update: a silent downgrade, or two binaries of different builds. A crash between the two
  renames leaves a new `wheeld` beside an old `wheel` until the trial ends.
* An update over an open trial is a hazard of its own. The failed build's watchdog may take away the `.prev` that the install has
  just kept, so that the new build boots with nothing beside it and, if it fails, finds nothing to roll back to at every boot;
  or mark the newer build bad for the older one's failure. A confirmation that comes late closes the newer marker, and a build that
  answered nothing boots as if it had.
* A crash between the renames of a rollback and `mark_bad` (update/mod.rs:626-627) lets the failed build be offered and tried again,
  although `docs/proposals/auto-update.md:188-189` says that a bad build is never retried.
* The watchdog and the confirmation may both close one trial, as rolled back and as updated.
* An agent's request recorded while an automatic attempt is under way goes with that attempt
  (the exception in `RequestsAreServed`).
* `attach` reads the flag before it lists the engine: a pause or resume in between passes it by (the
  exception `missed` of `NoTurnIsKilled` and `PauseIsLifted`).

## 5. The host

`HostLifecycle` is the host's store, one of its two sandboxes (chosen in `Init`), the requests and
restores under way, and the engines.

| Variable | Code |
|---|---|
| `rows`, `watermark` | `store.rs`: the record, `desired_running`, `uid_base`; `uid_watermark` |
| `handle` | the sandbox's map (`children`, `engines`) |
| `phase`, `owner` | each engine: starting, serving, draining, gone; the uid it runs under |
| `socket` | which engine is bound at a project's path |
| `task` | each request, and each restore at boot: where it stands and what it holds |
| `told`, `muddled`, `strays`, `issued` | history: the last plain answer (`unrecorded` is a `running` that left no record), requests that overlapped, engines whose handle was lost, uids given |

| Actions | Code |
|---|---|
| `Begin`, `HangUp` | a request comes; its client goes away and the handler is dropped where it stands |
| `Upsert`, `Lookup`, `Unwant`, `Want`, `Forget` | the routes' reads and writes of the store |
| `Check`, `PrepareProcess`, `PrepareEmbedded`, `Reap`, `GraceOver`, `Insert`, `Ask`, `Answered`, `Unanswered`, `Exited`, `TimedOut` | `start` of a sandbox; its spawn is the last part of `Prepare...`, `Reap` or `GraceOver` |
| `Take`, `Drained`, `Probe` | `stop` and `status` of a sandbox |
| `Bind`, `Unlink`, `Exit` | `serve_on` of an engine, and its end |
| `Crash`, `Boot`, `OpenRoutes` | the host process, `reconcile_on_boot`, `require_ready` |

Every await of a handler separates two steps, so any other request, any engine and a crash come in
between. *Abstracted*: database errors (but for the write of `desired_running` after a start, which the code survives), the rewriting of a vault key at a restore, rlimits and directories
(they may fail, as the last disjunct of `Prepare...`); the limit on concurrent restores, which only
orders them. `Backend::Docker` and `External` are not modelled. An embedded engine ends within its
stop bound.

*Properties*. `OneEnginePerProject`, `SocketReachesTheEngine`: for requests that do not overlap on a
project, across failures, dropped requests, crashes and boots. `StoppedStaysStopped`: after `stop`
or `delete` answered, the record is down, the map is empty and what still runs is an engine whose handle
the host had lost. `RunningIsRestored`: a project that a start called running is wanted at
every later boot. Two answers of `running` leave no record and are kept apart as `unrecorded`: that of a restart
(lib.rs:450-451), unless a start had called the project running before, and that of a start whose write failed (lib.rs:416-418).
`NoUnownedEngine` has no exception: an embedded engine that goes on is in the map or in the hands of a
task. `UidsNeverRecycled`: a new range lies behind every range ever given. `RoutesOpen`: a boot
ends, if every question put to an engine comes back.

*Bounds*: one project (two share nothing but the watermark, which the theorem covers), two
requests, one of which may be anything and the other a start or a stop, two engines alive, two uid ranges
before the end of the uids. 580 thousand states. With two requests that may both be anything TLC
finds no error either, in 1.4 million states.

*Fairness*: a restore runs (`Proceeds`), an engine that was asked to stop ends, routes
open when the restores are done. A start asks `/healthz` in a loop and looks at its deadline between two questions only; a
question has no timeout. So `TimedOut` is enabled between questions, with strong fairness (one that looks at the deadline
again and again finds it passed), and nothing makes an engine answer: that every question comes back is a hypothesis of
`RoutesOpen`. No request is fair: its client may go away.

*Weak points the model shows*, each listed as a hazard, and excluded from the properties by
`muddled` or `strays`:

* Nothing keeps two requests on one project apart: two starts give rivals, a start over a stop leaves
  `desired_running` set on a stopped project, a start over a delete an engine without a record.
* An embedded stop whose client hangs up during the drain leaves the next start to race the engine
  that still drains; and an engine that ends late unlinks the socket of its successor.
* A restart of a stopped project answers `running` and leaves `desired_running` unset: the project runs until the next
  boot and is not restored.
* An engine that is bound and never answers its first question holds its restore, and with it every project's routes.
  `redteam/findings/032-host-boot-availability-poison-project-and-crashloop.md:19-21` says that a hang cannot block the
  reconciliation for ever; that is so of an engine that cannot be reached, not of one that accepts and is silent.
* The process sandbox answers a start with any handle it has, a dead one too, until a status request
  notices.
* A process that outlived a crash of the host, and whose project is not wanted, is in no map: stop and delete
  answer and it runs on; delete also forgets the uid by which a later start would have found it.

## 6. Renewing a login

`LoginRenewal` is one vault, the agents that read it, its timers, a person who signs in, and the server.

### State

| Variable | Code |
|---|---|
| `vault` | the session entry: `gen` is its expiry, `rt` its refresh token, `by` the sign-in it descends from |
| `issued`, `spent` | the server: logins issued, refresh tokens it will not take again |
| `pc`, `forced`, `sess`, `got` | each call of `ensure_fresh`: where it stands, `renew_if_still`, the login it read under the lock, the answer |
| `failure`, `attempts`, `recent` | `Broker.failures`, `attempts`, and whether `last_attempt` is within `min_interval` |
| `timer` | `armed`: a timer with the latest number sleeps (`Broker.timers`); `missed` (history): the last one woke in a pause and was spent |
| `signin`, `todo` | `finish_paste_code` and `session_saved`; the blocked readers still to resume |
| `agent` | each reader: parked, up on a login, or `needs_auth` |
| `booted` | `arm_all_refresh_timers` has run |
| `alone` | history: unreadable failures of timers in a row with nobody asking |

A time is one of three lives: more than the lead left (`fresh`), less (`near`), nothing (`lapsed`); it
passes at any moment. `pc` goes `wait` (for the lock), `exchange` (the CLI runs), `answered` (it has written a new
login), then `forgiving` and `arming`, or `retrying` or `giving_up`, then `granted` or `refused` (the answer).

### Steps

| Action | Code |
|---|---|
| `StartAsks`, `Granted`, `Refused` | `Supervisor::start` around the renewal it awaits without its slot |
| `TurnFails`, `Recycles`, `ReaderParks` | `recover_from_auth_failure`, `recycle`; a child that ends |
| `Closing` | the look at `closing` that `ensure_fresh`, `recycle` and a spawn take first |
| `Enter` | `ensure_fresh` under the lock: absent, fresh, within the floor, or an exchange |
| `ServerRenews` | the server: it may rotate the refresh token, and has spent the old one if so |
| `Store`, `NothingToReplace` | `check_refresh` lets it through; `replace_session_if` |
| `GrantDead`, `Outage`, `Unclear`, `GateRefuses`, `Unreadable` | what `refresh_via_cli`, `read_session` and `check_refresh` make of a failed exchange |
| `Warn`, `Forgive`, `Arm` | the tail of `ensure_fresh`: failure, success, schedule |
| `TimerFires`, `FloorPasses`, `TimePasses` | the clock |
| `SignInStores` ... `SignInAnswers`, `Resume` | `finish_paste_code`, `session_saved`, `resume_readers_if_blocked` |
| `StartDropped`, `SignInDropped` | the client hangs up: the handler is dropped where it stands |
| `LoginDeleted`, `Restart`, `BootArms` | the vault's key is deleted; the engine goes down and boots |

`closing` is also set while turns are paused for an update (`pause_turns`, mod.rs:1148-1151) and lifted by `resume_turns`
(1171). A pause may begin and end between any two steps and nothing here depends on its length, so it is no variable: with the
fault `pause`, whoever looks at the flag may find it set. A timer that does is refused before it reads the
login, and a start that does says `needs_auth`.

Left out: the api-key-only policy, logins that have no refresh
token, the warning in the readers' `last_error`, what is logged, and the adoption of a new login.

### Bounds and fairness

Two logins (`MaxLogins`), so that a renewal and a sign-in can race; a count of two unreadable failures
(`MaxAttempts`; the code has twelve), which is the least that tells the first from the last; one reader and one
timer, which is enough for a caller that waits for the lock behind another. Every fault is on, and logins
are issued with a long or a short life: 0.87 million states. `LoginRenewalProofs` has no bound.

Fairness: a caller that waits for the lock gets it if it is free again and again (`SF` on `Enter`, tokio's mutex
serves in order), and a caller that holds it moves on (`WF`: the exchange has a timeout, the rest is
bookkeeping). Nobody is obliged to sign in, start, fail, hang up or restart, and time need not pass.

### What holds, and how far

* `LoginsFollowOn`: the vault moves to a login of its own line, or to one a sign-in has just been given. A renewal
  that comes back after a sign-in is dropped.
* `FreshNotRenewed`: nobody spends the refresh token of a login with more than the lead left. Callers that fail together
  on one login cost one exchange: the second looks again under the lock.
* `RenewalIsScheduled`: after the boot, a fresh login, or a near one whose renewal failed for a reason that may pass,
  has a timer asleep or somebody deciding about it. Excepted is a login whose last timer woke in a pause (`missed`), until
  somebody else asks.
* `EngineGivesUp`: with nobody asking, at most `MaxAttempts` unreadable exchanges, and one more for each timer that was set
  before the count was full. Arming only supersedes a timer that still sleeps (refresh.rs:586), so several that have fired may
  wait for the lock together; the run has one, the theorem any number.
* `CallersReturn`: every call comes back.

TLC also shows what does not hold, against a comment of the code in each case; none of it is stated as a
property here:

* A renewal that fails after a sign-in has replaced its login records its verdict over the clean slate
  (refresh.rs:302 does not look whether the login is still there; refresh.rs:128 says a sign-in forgets any earlier failure).
* A start that is refused writes `needs_auth` (mod.rs:731) after the sign-in has looked for blocked readers, and
  stays blocked (agent_routes.rs:647 says that a sign-in un-sticks every agent).
* The floor answers a forced caller with yes while the vault is on the login its child failed on (refresh.rs:254); the
  child is recycled onto it (against refresh.rs:705).
* A timer that wakes in an update pause that is then lifted is spent (refresh.rs:215). The comments at refresh.rs:213-214 (the next boot
  re-arms) and 234-236 (every vault holding a login has a renewal pending) do not reckon with a pause that no boot follows.
* A restart within the lead arms no timer (refresh.rs:512; lib.rs:157 says every refreshable login gets one), and a
  lapsed login whose renewal fails on an outage is not retried (refresh.rs:303), while its readers
  are told that the engine will retry (449).
* A login whose grant is dead is still reported `refreshable` (agent_routes.rs:1159, against refresh.rs:117).

## 7. The board

`BoardStore` is the database of one project as the board's requests see it. A request has the connection
from its first statement to its last, so two requests do not interleave; but nothing opens a transaction, and the
model has a step per statement that writes. `job` is the request that is between two of them, and says
what is left for it to do.

| Variable | Code |
|---|---|
| `nodes`, `wires`, `values` | the tables of those names (`values` is `vault_values`): names and declared keys; read wires from agents to vaults; which keys have a value |
| `storage` | the `t_<name>` tables; a row is its key and the node it was put through |
| `job` | the request that has the connection, and its next statement |
| `reader` | the name that `GET /v1/tables/:id/rows` has read before it let the connection go |
| `spent` | ids are uuids and never come back; some are spent from the start (a bound) |
| `put`, `torn`, `unchecked` | history: rows put and not removed; table nodes whose rename was torn; values stored without a look |

| Actions | Code |
|---|---|
| `Create`, `CreateDrops`, `CreateMakes` | `create_with`: INSERT; DROP TABLE IF EXISTS; CREATE TABLE |
| `Rename`, `RenameUpdates` | `update_with`: ALTER TABLE, which fails on a name that has a table; UPDATE, which fails on a name that has a node |
| `Delete`, `DeleteRemoves` | `delete`: DROP TABLE; DELETE with the schema's cascades |
| `PutRow`, `RemoveRow`, `ReadRows` | `put_row` and the reads make the table first; `delete_row` does not |
| `RouteLooksUp`, `RouteLists` | the one read that takes the connection twice |
| `AddWire`, `RemoveWire`, `PatchKeys` | the board's routes |
| `PutValue`, `SaveSession`, `Declares`, `Superseded`, `DeleteValue`, `Undeclares` | the value, its declaration, the bare token a login supersedes |
| `Crash` | the engine dies, and `ensure_tables` runs at the next open |

Left out: columns and queries, endpoint paths, the fallback vault, capabilities, positions, encryption. A value's
expiry and what a login does next are `LoginRenewal`. A patch of name and config at once is two requests here. A
type never changes, because `patch_node` re-applies it; the branches of `update_with` for that are not reached.

### Bounds

Three tables, a node of another type and three names, so that a name can be taken, freed, given again and swapped; one
row key (two rows of one table do not meet); or two agents, two vaults and the two keys that reach a child as one variable. The two
halves share no statement, so `Histories` spends the ids of one or of the other before
the behaviour begins. Ids are not bounded otherwise: a deleted node does not come back. Tables and names are
symmetric. 133 thousand states, a crash anywhere.

### What holds, and how far

* `RowsStayReachable`: between two requests, the rows of a table node are in the table at its name, whatever happened to
  other nodes, to its name before it, or to the engine. Excepted is a node whose own rename was torn.
* `OnlyOwnRows`: no table node has a row of another node, or a removed one, as long as no rename was torn.
* `ClashesAreUnchecked`: an agent has two values for one variable only if one of them was stored unchecked.

TLC shows what the exceptions are for. The first is a run of its own, the others are described here.

* `renamed_rows`: a rename to the name of a node without a table moves the table, is refused by the UPDATE, and leaves it moved.
  The next read finds no table, and makes an empty one.
* A table left so at a free name goes to the next table node of that name if the engine dies between its INSERT and
  its DROP: `ensure_tables` adopts it, rows and all, which `create` exists to rule out (tables.rs:79-86).
* A stored clash comes about by the plain use of declared keys: wire an agent to two vaults that declare one key, or
  declare the key later by a patch; both values are then stored without a look (`known`, vault_routes.rs:130). The comment at vault_routes.rs:124-128 has
  every reader re-checked before the write. So it does when a
  deletion dies between the value and its declaration, and when a sign-in dies before it removes the bare token.
* The route that lists rows may answer with the rows of a node that took the name in between, and makes an empty table at a
  name nobody has; until a table node is created there, every rename to that name is refused.

## 8. Runs

The runs of the supervisor use `MCSupervisor`; symmetry is over `Tasks`, which no definition tells
apart (and is not used under fairness). Deadlock is checked everywhere: the engine may wait
only in `AtRest`, which says that no thread is under way, no process has work and no
timer for a window is armed. (The host, the updater, the board and the awaits never stop: a crash, a request or a
turn is always possible. `renewal` does not check it: with both logins issued and lapsed, and nobody there, nothing is
left to do.)

| Run | Asks | Instance |
|---|---|---|
| `everything` | `TypeOK`, `OneProcess`, `LedgerSpec` | every operation and fault, any two of them, one message, two processes, stale output |
| `delivery` | `NothingIsLost`, `ConsumedExactlyOnce`, `NotifiedOnlyWhenSettled` | two messages in two lanes, three processes; two of interrupt, start, wedge, pause, resume, an errored turn, a refused and a failed start |
| `progress` | `EveryMessageSettles` | the same two messages with fairness; one interruption, error, start, wedge or resume |
| `shutdown` | `NothingStartsOnceOff`, `ConsumedExactlyOnce` | a shutdown with a restart, an interrupt or an errored turn around it, and the boot that follows |
| `awaits` | `NoWaitCycle`, `EdgesAreOpenWaits`, `EveryAskReturns` | section 3 |
| `updates` | `PromiseKept`, `RollbackPossible`, `OnlyGatedBuildsAreTried`, `RequestsAreServed`, `NoTurnIsKilled`, `PauseIsLifted`, `TrialEnds` | section 4 |
| `host` | `OneEnginePerProject`, `StoppedStaysStopped`, `RunningIsRestored`, `NoUnownedEngine`, `SocketReachesTheEngine`, `UidsNeverRecycled`, `RoutesOpen` | section 5 |
| `board` | `RowsStayReachable`, `OnlyOwnRows`, `ClashesAreUnchecked` | section 7 |
| `renewal` | `LoginsFollowOn`, `FreshNotRenewed`, `RenewalIsScheduled`, `EngineGivesUp`, `CallersReturn` | section 6 |

What the first four say:

* `TypeOK`: types, and `requeues <= MaxLimitRequeues` for every row.
* `OneProcess`: a live process is the one in the slot, or a thread has just taken
  it out and kills it next (`halt_child`, `shutdown`). Never two in service, never one that
  nobody ends, though a start gives the lock up in the middle.
* `LedgerSpec`: a refinement. Whatever the threads do, in whatever order, each row
  moves as `MessageLedger` allows.
* `NothingIsLost`: a `delivered` row is in flight in the slot, or a thread is
  between taking it from the slot and writing what became of it.
* `ConsumedExactlyOnce`: no turn completes twice, a message consumed without
  an error is one whose turn completed, only a consumed message carries an error.
* `NotifiedOnlyWhenSettled`: `notify = 2` implies a final state.
* `NothingStartsOnceOff`: once `shutdown` is done and until someone lifts the
  gate the slot is empty and no thread is spawning or writing.
* `EveryMessageSettles`: a queued message is eventually consumed or set aside, by
  itself.

`delivery` leaves out the operations for which the code makes no such promise, or breaks
it. `stop`, `clear`, `oauth` and an authentication failure kill a busy process and leave its
row `delivered` until a later reaper moves it (a "headstone", in the words of
`start_configured_agents`), so `NothingIsLost` does not hold with them. `die` is left
out of `ConsumedExactlyOnce`: `reap` empties the slot (mod.rs:2070) before it
requeues every delivered row of the agent (2138), so a start that was waiting for the slot can
spawn and deliver in between, and its live turn is queued again. `park` is left out because it can kill a
turn it does not know of (under Disagreements), and `progress` leaves `garble` out for the queue that waits after
a body is set aside. They are all in `everything`.

### Fairness of the supervisor

`FairSpec` adds weak fairness of each thread's next step (tokio runs every task
that is ready, and its mutex is a fair queue), of the reader of each pipe, of the timer of
the usage window, and of a harness that has been given a turn: it prints `init` and ends
the turn, well or badly. The last is an assumption about the external process; the engine has no
turn timeout, and without it nothing settles. No fairness is assumed of the operator, of
other agents, of the park timer or of any fault.

### Disagreements between the code and what it says

Three are runs that TLC must find violated, and findings in `PROJECT.json` with the
lines they quote.

* `parked_queue`: `deliver` reads `idle` while `park` holds the lock and has already
  looked at the queue; it then finds an empty slot. The agent is parked with a message waiting,
  which the comment in `park` rules out.
* `cleared_context`: a start that read the session before `clear_context` dropped it
  resumes the context that was thrown away.
* `renamed_rows`: a rename that the UPDATE refuses has moved the table already (section 7).

Each needs an order of events, or of names, that no test arranges. Sections 4 to 7 name what their
models show beside the properties. Of the supervisor there are three more, described and without a run:

* A body that cannot be encoded is set aside and `pump_queue` returns, where the comment above it says the agent
  goes on to the next message (mod.rs:1639). Nothing does until another event.
* The settling of a turn writes `idle` after it has let the slot go (mod.rs:1892), over the `running` of the next
  turn. The park timer believes it and kills that turn.
* `resume_turns` swaps its flag (mod.rs:1168), `shutdown` closes the gate, `resume_turns` opens it (1171); the run
  `shutdown` leaves `resume_turns` out.

## 9. Proofs

The assumptions are those of the modules: `StoreAssumption` (finite `Msgs`; the cap is
a natural number, the burst a positive one), `SupervisorAssumption` (`MaxRuns` and `MaxOps` are
natural, tasks and runs are disjoint, the switches are Booleans), `AwaitAssumption` (the
operator is not an agent, nobody asks itself), `UpdaterAssumption`, `HostAssumption` and
`RenewalAssumption` (positive bounds; the placeholders are none of the values; agents are not timers, and the timers are finitely many) and
`BoardAssumption` (the kinds of node are disjoint, a declared key is no node's name; `Histories` is any set of sets of ids). Nothing bounds the number of
messages, agents, handlers, tasks, processes, versions, projects, nodes, names, rows, operations or faults.

* `AgentSupervisorProofs!TypeCorrect`: `Spec => []TypeOK`. `TypeOK` is
  inductive as it stands. One lemma per group of variables (`PcStep`, `LocStep`,
  `SlotStep`, ...), each by cases on the disjuncts of `Next`; the cap on requeues comes
  from `LimitsLegally`.
* `AgentSupervisorProofs!ImplementsLedger`: `Spec => LedgerSpec`.
  `MessageStoreProofs` proves that each statement of the table moves each row
  legally, from a well-formed table; `RowsStep` applies that to every action.
  The delicate statements are `quarantine`, which has no condition on the state it replaces and
  is legal only because the message comes from the queue under the slot lock
  (`PicksFromTheQueue`), and `mark_error` after the cap, where the row must still be `delivered`.
* `SupervisorSafetyProofs!OneProcessAlways`: `Spec => []OneProcess`.
  `OneProcess` is not inductive: a spawn overwrites the slot, so it must have found it empty,
  and nobody may have filled it since. The invariant is `Safe == LockOK /\ OneProcess`,
  where `LockOK` says that one thread at a time holds the mutex and that the slot is empty
  while a thread is spawning. Every step but a spawn and a restart of the engine is `Calm`: it
  moves no other thread, starts no process, enters the mutex only when it is free, and what
  it takes out of the slot it kills or goes on owning. Calm steps preserve both parts
  (`CalmKeepsLock`, `CalmKeepsOne`), so the proof has one argument and a list of actions.
* The same module proves the promises that stand only without some of the operations. Each hypothesis is one TLC
  shows to be needed: with any operation it excludes, the property fails.
  * `ShutdownStaysDown`: `[]NothingStartsOnceOff` if nobody calls `resume_turns`, which lifts the gate over a
    shutdown (section 8). The invariant `Off` has the gate shut from the drain on; who enters the slot looks
    at the gate under the mutex.
  * `CustodyAlways`, `SendersHearOnlyOfSettled`: `[]Kept` and `[]NotifiedOnlyWhenSettled` if no process dies by itself, for then
    `reap` requeues every delivered row, announced or not. `Kept` says that a message is in the slot and delivered, or in the
    hands of one thread (still queued if that thread is writing it to a process), and that the process in the slot lives. A step of
    one thread `Transfers` messages: what it settles it had in its hands. That covers every stop, limit, park, recycle, crash and
    shutdown that races a turn.
  * `NothingIsLostUndisturbed`: `[]NothingIsLost` if nobody takes the slot and leaves its turn open (the operations of `Leaving`,
    and an ephemeral agent, whose end of turn parks it). Interrupts, recycles, renewals, update pauses, refused and failed starts and
    processes that die are all covered. The invariant is `Quiet` (the code such an engine reaches) and
    `Accounted` (a slot without a process holds no turn, no turn is written over another, nothing is lost).
  * `EachTurnOnce`: `[]ConsumedExactlyOnce` for an engine that is `Orderly`. Outside are a process that dies by itself (`reap` puts its turns
    back), a usage limit and a renewed login (they take from the slot a turn they were not asked about), unread output of a process already killed
    (it settles the turn of the next), and a crash, or a shutdown whose gate `resume_turns` lifts (the engine may end after a message is
    written and before its row says so). Stops, restarts, interrupts, cleared contexts, budgets, authentication failures, parks, update pauses and
    shutdowns, in any order, are covered. The invariant follows a turn from the queue through the slot and
    the pipe to its reader. `Alone`: one process lives, a dead one has nothing left to do or say, what a pipe holds is of its own
    process. `Served`: the process in the slot has at most one message to answer for, and the turn of that message has yet to run or the last
    event in the pipe says how it ended (`Serving`); what a process has still to do has not been done, and is not in the queue
    (`Undone`); the reader that settles knows whether the turn ran (`Told`). `Plain` and `Gate` say what such an engine never reaches. Most steps are
    `Steady` or `Empties` the slot, and one argument serves each kind; a write, an end of turn and a read have one of their own.

* `AwaitGraphProofs`: `AwaitTypes`, `WaitsNeverCloseOnThemselves`, `GraphIsTheOpenWaits`. The
  invariant is `TypeOK`, the two properties and `CallsKnown` (a handler past `begin`
  knows its two ends, and they differ). The core is `OneMoreWait`: adding an edge to an acyclic
  graph keeps it acyclic unless a chain leads back. In a set that the new graph closes on itself, take
  what the target reaches; it does not hold the waiter, so the old graph closes on it already.
  Fewer edges never close a cycle (`FewerWaits`).
* `UpdaterProofs`: `UpdaterTypes`, `ARollbackIsAlwaysPossible`, `TheUpdaterKeepsItsPromise`.
  The invariant is `Kernel == Looks /\ Suspects /\ (overtaken \/ Order)`. `Looks` (what the loop has seen is newer than what runs) and
  `Suspects` (which build a rollback is about) hold always. `Order == Disk /\ OnProbation /\ InPlace` holds until a
  trial is overtaken and again from the boot that finds a sound disk: `Disk`
  (without a marker the installed daemon is proven; with one, it is the build on trial, or one that was
  proven; what is kept was proven), `OnProbation` (the confirmation and the watchdog are about the build
  that runs) and `InPlace` (each step of an install finds the disk as the step before left it). That it may be had again rests on what
  `Sound` asks of that boot, and on nothing else being under way then.
  `SwapFails` is the delicate step: it restores whatever `.prev` there is, so `Disk` has to say that
  even an old one was proven. The refinement maps every step to a step of `UpdatePromise` or a stutter.
* `UpdaterProofs`, the drain: `AnInstallMeetsNoTurn`, `NoGateStaysShut`. The invariant is `Gates`: the flag is up exactly while an
  update pauses, and an engine that did not miss a change of it has its gate as the flag says at each step of the drain.
  What an attempt goes by: `OnlyGatedBuilds`, `ARequestIsServed`. `Verdicts` says that the last check and the attempt's own are still true of
  the build, though builds turn bad and commits arrive meanwhile (a check is `Vetted`; green stays green, and a build only turns bad when it runs);
  `Remembered` says that a build that was rolled back is marked bad, or is the one whose rollback is going on; that one is
  the build that runs, and an attempt only looks for a newer one.
  `ForWhom` says that the request an attempt is made for is still there, or gave way only as the code lets it.
* `HostProofs`: `HostTypes`, `UidsAreNeverGivenTwice`, `RunningProjectsAreRestored`. Uids come from
  `BelowTheMark` (all ranges given lie below the watermark), which every step but an allocation keeps for
  free. The last needs `Restorable`: requests that did not overlap are alone on their project
  (`Alone`), and each open task is `Proper`: a project called running has no task open that undoes it,
  and a start past its lookup still has its record.
* `HostProofs`, the engines: `EveryEngineIsOwned`, `NeverTwoEngines`, `AStopIsFinal`, `ThePathIsTheEngines`. The first needs only `Owned`: a
  task that inserts or drains holds its engine, and nobody drains an engine that was not asked to stop.
  The others rest on `WellKept`, which speaks of each project by itself. `Orderly`: a project without overlapping requests has one live engine at
  most, in the map, in its task's hands or among the strays; a process runs under the uid of its record, which is how a start finds and reaps
  it; the path is bound to it (`Bound`); and its task may count on what it found (`Cleared`: nobody is in the map while one inserts or drains).
  `Down`: of a project said to be stopped or deleted, only strays run and only harmless requests are open. A step works on one project and can only
  end engines of the others (`Untouched`, `UntouchedKeeps`), so each action is argued for its own project.
* `LoginRenewalProofs`: `RenewalTypes`, `LoginsAreNeverPutBack`, `FreshLoginsAreNotRenewed`,
  `RenewalsAreScheduled`. The invariant is `Kernel`: a caller carries the login it is about
  (`Carries`), every login anywhere was issued (`Known`), two logins that share a refresh token are of one
  line (`OneLine`), the lock has one holder (`OneAtATime`), an answer is of the line it
  renews (`Renewed`), a generation just issued is one nobody has met (`Distinct`), and a login that a caller is forced to
  renew, and that is still in the vault, has less than the lead left (`Worn`). `OneLine` is why `replace_session_if` may
  compare refresh tokens alone; `Worn` is why a second look under the lock suffices. For the schedule `Older`, `Unforced` and
  `OwnVerdict` follow the caller that took the timer, and `Scheduled` says that whatever is due is seen to by
  a timer, a holder of the lock that will arm one, or the sign-in.
* `LoginRenewalProofs!TheEngineGivesUp`: `[]EngineGivesUp`. The invariant `Limits` counts what may still come (`Coming`: the fired timers that
  have not failed yet, and the one asleep). `Budget`: until the broker's count is full it bounds the failures; once it is full, failures and what
  may still come stay within the cap and the number of timers. Stating it showed that the cap alone does not bound them.
* `BoardProofs`: `TypeCorrect`, `ClashesUnchecked`, `RowsReachable`, `RowsOwned`. The first two stand almost by
  themselves: types need that the node of a request under way is on the board (`JobLive`), because no other request
  has the connection. For the rows the invariant is `Housed`. Its core is `Placed`: the table of a node is at its name, or
  at the name its own rename is moving it to. With names that are never shared (`NamesDistinct`) this makes a table
  belong to one node, so that what another request drops, moves or fills is not it. `BuildsAtName` says the same of a node
  whose INSERT is done and whose table is not made yet. The delicate steps are the ALTER, after which the name on the board is for
  one statement not the name of the table, and a crash there, which is what `torn` records.

Only model-checked:

* Liveness under fairness, which is out of the prover's reach: `EveryMessageSettles`,
  `EveryAskReturns`, `TrialEnds`, `RoutesOpen`, `CallersReturn`.

## 10. Hazards

`PROJECT.json` lists each hazard at its line with the properties that watch it. A note beside the
properties says how far they go; a hazard without a property has no promise in the docs it
could be held against (a start that fails and leaves `starting`, an adoption that recycles a child at work), or
is a disagreement the sections above describe.

## 11. Not modelled, and why

* The ways to a first login (`oauth.rs`, `harness_auth.rs`, `auth.rs`: login sessions, pasted codes, device codes, credential
  files): exchanges between a person, a CLI and an identity provider. `LoginRenewal` has their end, `SignInStores`.
* The cloud API and its board apply: one client's sequence of engine requests. `BoardStore` allows the requests in any order,
  so also in that one; what the client does between them is computed from its answers.
* Chest contents, endpoint ingress, migrations and most other engine routes: validation and CRUD over SQLite, one connection at
  a time. They keep no state between two requests but the database's.
* Tools, builder, MCP, harness drivers, capabilities, validation, names: parsing, encoding and script
  generation. What they compute depends on strings character by character, which these models
  abstract; their unit tests enumerate it better.
* The docker and external sandboxes, the proxies, `supervise.rs`, `guard.rs`, the SQLite adapter and the
  command line: calls to another program, files and sockets, without a protocol of their own.
* Clock arithmetic (backoff, cooldown, fetch interval): timers may fire whenever they are armed, so
  the models allow more than the clock does.
* The composition of the six groups in one state space: each is checked against the behaviour of its
  neighbour described at the top.
