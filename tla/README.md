# session-tap in TLA+

This directory specifies session-tap, model-checks it with TLC and proves its
main invariants with TLAPS. `PROJECT.json` lists the components, the runs, the
mutants that show each property can fail, the source lines of every definition,
the main hazards, the findings and the theorems.

## The system

`sessiontap <provider>` (the *wrapper*) launches a coding agent. It registers
the launch with `sessiontapd` over a Unix socket, spawns the process, binds its
pid, waits, and reports the exit. The provider's hooks, a side channel and the
usage coordinator send *events*. The daemon reduces every event to one row per
launch (an `InvocationSnapshot` plus a status reason) in SQLite. A transition
that changes a public field also writes a record to an *outbox*; a worker sends
snapshots and updates to its *sinks*, among them a `sessiontap-hub`. The hub
stores the views of many sources, routes updates to commands, streams them to
listeners, and relays terminals (tmux panes) to paired devices such as the
Android app.

### Inventory

| Part | Source | Modules |
|---|---|---|
| Session reducer | core `reducer.rs`, `domain.rs` | `Reducer` |
| Public projection | core `domain.rs`, `reducer.rs`; hub `ingest.rs` | `Projection` |
| Storage, daemon startup, requests | storage `lib.rs`; daemon `main.rs`, `app.rs`, `server.rs` | `Broker` |
| Launch wrapper | `sessiontap/src/main.rs` | `Broker`, `Launch`, `JobControl`, `SideChannel` |
| Service endpoints and `nuke` | infra `socket.rs`, `fs.rs`; `sessiontap/src/main.rs` | `Endpoint` |
| Configuration | core `config.rs`, daemon `main.rs`, adapters `lib.rs` | `Configuration` |
| Provider adapters | adapters `*.rs` | `Dialects`, `ProviderTurns`, `HookConfig`, `ManagedFiles`, `Collectors` |
| Usage coordinator | daemon `usage_coordinator.rs` | `UsageCoordinator` |
| Sinks and their worker | daemon `sinks/`, `workers.rs`; storage | `Delivery`, `Sinks` |
| Hub store, ingestion | hub `store.rs`, `ingest.rs`, `config.rs`; infra `http.rs`, `token.rs` | `Delivery`, `Ingestion`, `HttpReader` |
| Listener streams | daemon `server.rs`, hub `listen.rs`, `main.rs` | `DaemonStream`, `HubStream`, `Broadcast` |
| Routing | hub `routing.rs`, `main.rs` | `Routing` |
| tmux | infra `multiplexer/` | `PaneStream`, `TmuxStream`, `ControlProtocol`, `TmuxInput` |
| Terminals | daemon `terminal.rs`, `app.rs` | `Terminals` |
| Control channel, relay | daemon `control.rs`, hub `relay.rs` | `ControlChannel`, `Relay` |
| Remote access, pairing | hub `remote.rs`, `service.rs`, `scope.rs` | `RemoteAccess`, `Pairing`, `RateLimiter` |
| Discovery | hub `discovery.rs`, `remote.rs`, `endpoints.rs` | `Discovery` |

For TLC, `MCBroker` instantiates Broker under a *theme* (the events its hooks
send and the bounds it stays within, chosen in the first state), and five
bundles instantiate the other components: `MCTerminals`, `MCDevices`, `MCHub`,
`MCLaunch` and `MCProviders`. In a bundle the variable `part`, chosen in the
first state, says which component, with which bounds, a behaviour is about; the
others stay as they start. So one run asks its questions of several components
without multiplying their state spaces. Delivery is checked as it is.
`BrokerProofs` (of the reducer too), `TableProofs`, `HistoryProofs`,
`DeliveryProofs`, `PendingProofs`, `HttpReaderProofs` and `EndpointProofs` hold
the theorems; RateLimiter's follow its specification.

## Modules

Operators and actions keep the names of the functions they translate; an action
without a counterpart in the code (a fault, the network, a user) has a
capitalised name. One action is one transaction, one locked block, one stretch
of a task between two awaits, or one system call where processes race.

### State of a launch

`Reducer` defines, without variables, what an event or a local mutation makes of
a row and its reason: channel authority, the stale-turn and stale-session
guards, the terminal-turn guard, side-channel ordering, tool activity, turn
generations, child agents, exit, loss and expiry.

`Broker` runs it. Its variables are the tables (`rows`, `reasons`, `dedup`), the
daemon's phase and what its loops have in hand (`todo`, `sweep`, `enriching`),
and the wrappers and their processes (`wrapper`, `sent`, `process`):

| Code | Actions |
|---|---|
| wrapper | `Launch`, `Connect`, `Spawn`, `ProcessExit`, `WrapperKilled` |
| requests | `ServeRegister`, `bind_child`, `mark_exit`, `ingest_hook` |
| enrichment | `EnrichmentChecked`, then `apply_enrichment` in its own transaction |
| sweep | `stale_working_worker` (read), `expire_stale_working_at` (one row) |
| startup | `Start`, `reconcile` (one row), `ReconcileExpire`, `Accept` |
| faults | `Crash`, `CrashAfterRegister` |

`Projection` adds what observers see: `project_public`, the changed fields of an
update, `finalize`, and the hub's check of a reason, over every reducer step.

`Dialects` (without variables) is how each provider's hook payload becomes an
event; `ProviderTurns` composes an agent, its provider's dialect and the reducer,
so that the property is about what the agent does and what the row then shows.
`UsageCoordinator` schedules, debounces, collects and applies usage, with
`Collectors` as the scan of one artifact beside a provider that writes it.
`HookConfig` and `ManagedFiles` are setup, doctor and remove over files the user
shares.

`Launch` is how a launch decides whether it is tracked, and what its hooks and
the inspector do; `JobControl` its terminal, process groups and signals;
`SideChannel` the tail of Qwen's dual output; `Endpoint` the lock, socket and
directories of every service beside `nuke`; `Configuration` the file and the
processes that read it, each at its own time.

### From the daemon to the hub

`Delivery` follows one source's views to one hub: commits and
`enqueue_transition`, the worker's loop (`deliver_snapshots`,
`hub_snapshot_delivered`, `process_outbox_once`, one record at a time, `retry`,
`acknowledge`), the hub's `ingest_snapshot` and `ingest_update` with `forget` and
`prune_retained`, and the faults (`RequestFails`, `RequestTimesOut`,
`HubReceiveLate`, `Restart`, `HubWiped`). Broker and Delivery meet at a commit:
Broker says what a row becomes, Delivery what happens to a revision. `Sinks` has
every kind of sink on the one worker; there a delivery is one step.

`HttpReader` is one connection to the ingestion port, byte by byte; `Ingestion`
who may write: configuration, tokens and what a sink makes of an answer.
`DaemonStream` and `HubStream` commit and broadcast in two steps to listeners
that lag (`Broadcast` is the tokio channel). `Routing` runs the subscription
commands.

### Terminals

`PaneStream` is the abstract specification: the events of one pane, in order.
`TmuxStream` is the control client behind it and implements it
(`ImplementsPaneStream`, with the refinement mapping in `TmuxStream`; run
`terminals`). `ControlProtocol` is the parser below it. `Terminals` shares a
session among watchers above it, and takes PaneStream's events as its input.
`ControlChannel` carries watchers' frames to the hub, `Relay` from there to a
device. `TmuxInput` is the way back: keys and pastes, one tmux command at a time.
`RemoteAccess` is who may ask, `Pairing` how a device becomes known,
`RateLimiter` how often it may try, `Discovery` how it finds the hub.

### Abstractions

State of a launch:

- A clock tick is coarse: the time stamped on a hook and the time of its
  transaction fall in one tick. `received_at` is taken before the storage lock,
  by less than a tick of the stale window.
- Labels, titles, model and effort metadata, child types and summaries,
  `state_started_at` and `updated_at` are copied by the code and never decided
  on; they are dropped. A usage figure is the session it belongs to. In
  Projection the fields that never change are one field.
- `source_ordering` keeps the code's sequence of cursors and its cap; children
  keep identity, session, activity and their cap.
- A process is "running" while its pid is in the process table, so a process
  its wrapper has not waited for counts as alive, as `process_alive` finds it.
- A wrapper killed with a request outstanding behaves as one killed after the
  answer: the request is served or lost either way.
- A request to a daemon that reconciles waits: the socket is bound first and
  the accept loop runs last. That includes the health request of a launch.
- Retention picks any set of ended rows: it takes days and the clock does not.
- Event ids are chosen freely, so repeated delivery and id reuse are included.
- `EventAssumption` in Broker states the shape of the events adapters build: a
  tool starts only with working or waiting-for-input activity, usage carries
  its session, a sequence number its source. The proofs rest on it.
- ProviderTurns: the agent is external and takes the steps the adapters' event
  names and tests document, one tool at a time. Command hooks are awaited; pi's
  are detached where `Detached` says so.
- Collectors: a reused inode is not taken for the old file; `Regrows` allows a
  file truncated in place and grown again. SideChannel: a poll is one step;
  `Refills` allows a refill between two polls.
- HookConfig: the user edits between runs. ManagedFiles: `Races` lets the user
  write between the ownership check and the lock.
- Endpoint: `Patient` says no service starts while `nuke` waits for its answer;
  owners and modes are left out. JobControl: the three termination signals are
  one, `bg` and a foreign SIGCONT are left out, `Early` lets a signal come before
  the handlers. Launch: `Hangs`, `PrepareFails` and `EventArg` are faults.
- Configuration: one alias and one sink, which validation looks at alone;
  `EditsLive` lets the operator edit while the daemon runs.

From the daemon to the hub:

- A view is the revision it was committed at and a status that stands for every
  public field. An update that changes nothing is rejected, as ingestion does.
- In the hub, nothing is pruned while a request is in flight, since a request
  lives for seconds. A backoff in Delivery ends at any later time.
- Sinks: time is in ticks the timers count down; attempts count up to the drop;
  records of equal time are taken in any order. `Healthy` and `Silent` say which
  receivers always or never answer.
- HttpReader: a request is the lengths of its parts; a request whose headers end
  exactly at the limit is excepted from `PiecesDoNotMatter`, since there the
  answer depends on how it was cut. Ingestion: what is stored is a baseline and a set; snapshots fit.
- HubStream and DaemonStream: an envelope is one that was accepted. Routing: what
  a command receives is a conversion no property is about.

Terminals and devices:

- The pane's output is a count of bytes, a frame carries the position it ends at.
- tmux is external. It runs commands in order and answers on the queue that also
  carries output; a pause discards what the pane prints until it is continued.
  A captured screen never holds a guard with its own block's number.
- Terminals: a wrapper reports an exit before it returns to the shell.
- Relay: one source and one device connection; chunking of output is left out.
- RemoteAccess: a request from the re-read of its device to its effect is one
  step, under the device gate. Certificates are the key they prove.
- TmuxInput: `AtOnce` bounds requests under way, `Abrupt` lets the world change
  between two commands. The guard before input is best effort by design. A failed
  paste may leave its buffer.

## Where the code and its documents part

Three disagreements are runs of their own, each with the property the document
states and TLC's counterexample:

- `lost_while_running`: a daemon that crashes between register and bind marks a
  running process lost (`LostMeansGone`).
- `delayed_turn`: the late announcement of an older turn replaces the current one
  (`TurnNeverRegresses`).
- `update_gap`: a retried update is overtaken by another agent's and then
  acknowledged as stale, so one change is lost until the next one of that agent
  (`EveryChangeIsPending`; `NewestChangeIsPending` is what does hold).

Other windows are steps of the models that a constant or a guard of the passing
runs leaves out, so that the runs show what holds without them:

| Switch | The window it leaves out |
|---|---|
| `Patient = TRUE` (Endpoint) | a service starts while `nuke` waits for its answer, and its directories are deleted |
| `Early = FALSE` (JobControl) | a signal before the wrapper's handlers are installed |
| `Hangs`, `PrepareFails = FALSE` (Launch, for liveness) | a daemon that accepts and does not answer; a private directory that cannot be made |
| `Refills = FALSE` (SideChannel) | a file truncated and refilled between two polls |
| `Regrows = FALSE` (Collectors) | a transcript truncated and regrown during the scan |
| `Races = FALSE` (ManagedFiles) | a user's file that appears between the ownership check and the lock |
| `Detached = FALSE` (ProviderTurns) | pi's deliveries overtaking each other |
| `EditsLive = FALSE` (Configuration, for aliases) | an alias added while the daemon runs |
| one task (`hub_serial`) | two ingestion tasks that publish in the other order than they commit |
| `Resume`, one session (`usage_one`) | collection ids that repeat after a restart or across sessions |
| `Capacity = 8`, `DEVICE_QUEUE = 9` (for liveness) | a queue that is full when an answer or the end of a stream is sent |
| one paste at a time (TmuxInput) | two pastes on one tmux server, which share a buffer's name |

## Runs

| Run | Module | States (about) | What it settles |
|---|---|---|---|
| `rows` | MCBroker | 308 k | `RowsAgree`, `NoZombie`, `HistoryStands` under the themes turns, tools, children and lifecycle |
| `silence` | MCBroker | 14 k | `SilentWorkExpires` |
| `delivery` | Delivery | 1.8 M | `NewestChangeIsPending`, `ForgottenStaysAway`, `HubNeverRegresses`, `PublishedOnce`, `BaselineIsExact` |
| `drain` | Delivery | 98 k | `OutboxDrains` |
| `terminals` | MCTerminals | 667 k | the parser, the refinement of PaneStream, watchers, their liveness, input |
| `devices` | MCDevices | 304 k | limiter, control channel, relay, remote access, pairing, discovery and their liveness |
| `hub` | MCHub | 374 k | request reader, ingestion, sinks, listeners, routing and their liveness |
| `launch` | MCLaunch | 211 k | endpoint and nuke, wrapper, job control, configuration, side channel, usage and their liveness |
| `providers` | MCProviders | 469 k | five dialects, the public view, four collectors, hook configuration, managed files |
| `lost_while_running`, `delayed_turn`, `update_gap` | MCBroker, Delivery | | the three disagreements above |

A property of a bundle is a conjunction of a component's properties, each under
the part it is meant for; the component's module defines and explains them. Every
property of a passing run has a mutant in `PROJECT.json`: a changed definition,
defined beside the original, under which TLC finds the property violated.

### Bounds

Sets and counters are as small as lets the case happen:

- two of whatever may be stale or overtake (sessions, turns, handlers, watchers,
  channels, connections, processes), one more than every cap (children, table of
  the limiter, batch, broadcast buffer), one event more than a turn
  needs, to arrive late;
- two crashes so that reconcile itself is interrupted; an outbox shorter than the
  revisions, so that one is skipped; two faults, so that a timed-out request and a
  restart or a wipe combine; revision 2 in Delivery is one the hub refuses;
- the parts checked for liveness have bounds that the faults they allow cannot use
  up, so no property holds or fails because a bound is hit;
- all constants called `Max...`, with `EventIds`, `Depth` and `Broken`, are bounds
  of the model. All others stand for constants of the code, scaled down.

`CHECK_DEADLOCK FALSE` is set where behaviours end at these bounds. Symmetry (of
invocations) is used only in `rows`, which checks no liveness.

### Fairness

Delivery and Broker state their fairness (`FairSpec`); in a bundle
`FairnessOfParts` lists it action by action, under the part it belongs to.

- Tasks of the tokio runtime and threads that can go on do so (weak fairness on
  each), timers fire, and external programs answer what they have read. Nothing is
  assumed of hooks, users, wrappers, restarts or faults.
- Strong fairness is used where a step is disabled again and again by a step that
  leaves it possible: a permit that others take meanwhile (`Acquire` of the
  coordinator, a fair queue in the code), the branches of a select (`JobControl`), a
  watcher's receive beside a lag (`Terminals`), and `deliver_snapshots`, which the
  loop passes by while its backoff runs.
- `OperatorIsTold` assumes that an operator who was asked answers or times out.
  `HooksEnd` assumes nothing of the inspector's thread. `SilentWorkExpires` is
  conditional on the daemon staying up; nobody has to type `fg` in `FgResumes`.

## Proofs

The theorems hold for every value of the constants, under the named assumptions
of the modules: bounds are naturals, `None` is none of the values it stands
beside, and events have the shape `EventAssumption` states. Each inductive
invariant was checked by TLC before it was proved.

**Reducer** (BrokerProofs, first half). `ApplyEventRow`: from a row whose parts agree (`RowInv`), any
well-formed event gives a row whose parts agree. `RowInv` relates reason and
activity, turn and activity, tool and lifecycle, usage and session. The four
parts are proved together because the guards of `apply_event` protect one by
reading another. `LocalRows` does the same for bind, exit, loss and expiry.

**Broker.** `TypeOK` and `NoZombie` are not inductive. `IInv` adds:
- `PendingRows`: rows that reconcile or the sweep selected still exist when they
  are written;
- `WrapperFacts`: a wrapper before registration has no row, one that gave up
  tracking never bound a pid, one past its process has reaped it;
- `VisitedRows`: rows reconcile has visited, and all rows after it, are not
  running once their wrapper is through.

The last is what makes binding the socket before reconcile matter: an exit that
happens during reconcile waits instead of being lost. From `IInv` follow
`TypeCorrect` and `NoZombieProved`. `TableInv` (TableProofs) adds the children's
session and cap, and the turns counted against `event_dedup`; from it and `RowInv`
of every row follows `RowsAlwaysAgree`, all of what `RowsAgree` states.

`HistoryAlwaysStands` (HistoryProofs) is about steps: all six conjuncts of
`HistoryStands`. `Rewrites` says of one row what a write may make of it, and
`EventRewrites` and `LocalRewrites` show it of every operator that writes rows,
from `RowInv`. What has to be known of a state besides is `HistoryInv`:
- a row is exited only once its wrapper is done, so no bind can follow an exit;
- ended rows have no children;
- a sweep looks at a time that has passed, so what it expires is stale by the
  clock although it was selected earlier;
- the row an enrichment was checked against is still there, and has a session if
  the enrichment names one. Other commits may come between the check and the
  write; this is why the write still changes nothing but figures.

**Delivery.** `TypeInv` adds to `TypeOK` what the worker's position says of its
batch and request. `OrderInv` is the argument for the order at the hub:
- `CopiesOrdered`: take every copy of an agent's view, at the source, at the hub,
  queued or in flight. None is newer than the source's, and a snapshot in flight
  that is not older than a copy does not show an older view;
- `EnvelopesExact`: updates carry the view of their own revision, snapshots none
  newer than theirs;
- `HubBound`: `source_revision` bounds every view the hub holds;
- `PublishedBound`: a published revision is covered by `source_revision` or, while
  the hub has no row of the source, by every snapshot that could create one.

From it follow `NeverRegresses` and `NeverPublishedTwice`, the second also when
delivery identities were pruned or the hub wiped. `ForgottenAgentsStayAway` needs
only `TypeInv`. `PendInv` (PendingProofs) adds that acknowledgements are
truthful, that a snapshot the worker owes covers what is not queued, and that no
old snapshot can make the hub's row; `NewestIsPending` follows.

`RecordedBaselineIsExact` is about the step that records a baseline: the hub then
shows what the snapshot showed, but for forgotten agents and stopped ones the
source has expired. `BaseInv` is why:
- `AwaitedIsNewest`: while the worker awaits a snapshot nothing newer is in flight
  or at the hub, and once it is acknowledged the hub shows it, whichever copy of
  that revision it stored;
- `SnapshotsCurrent`: a snapshot in flight of the current revision shows the
  current views, but for stopped agents that the source's retention, which takes
  no revision, has deleted since;
- `HubIsBehind`: the hub's `source_revision` is not ahead of the source.

From `PendInv` it takes that the awaited snapshot's request is there, from `OrderInv`
that no request is newer than the source. All of Delivery's theorems rest on two modelling
assumptions: nothing is pruned while a request is in flight, and a wiped hub loses
the requests it held.

**HttpReader.** `ReaderAlwaysExact` proves all of `ReaderIsExact` for any requests,
limits, size of a read and way of splitting the bytes, from `HttpAssumption` (sizes
are naturals, a read is at least a byte, `None` is no length and no outcome). It is
not inductive: the verdict it compares with changes while a refused connection
drains. `ReaderInv` adds
- `Judged`: a verdict is that of the whole request, or the client is gone, every
  byte it sent is read, and the verdict is that of those bytes;
- `Progress`: where the reader is bounds what it has buffered, and in the body the
  head was within its limit and declared a length within the body's;
- `DrainedFirst`: a refused connection closes with its input exhausted, or after
  the timer or the bound.

**RateLimiter.** `LimiterInvariant`: a bucket holds what its address would have
without eviction, because only a full bucket, refilled by the clock, is evicted;
`LimiterIsExact` follows for any capacity and any addresses: the table keeps its
bound, eviction gives no address attempts it would not have had, and a newcomer is
refused only when every bucket is limited.

**Endpoint.** `EndpointInvariant` relates who holds the lock, whose socket is in
the path and who serves, for any set of processes; `ServiceStaysExclusive` is the
safety of starts and nukes, under `Patient`.

**Only model-checked.** Liveness under fairness is out of the prover's reach
(`SilentWorkExpires`, `OutboxDrains` and the liveness of the bundles). So is what
a recursive definition computes: the parser (`ControlProtocol`), the dialects'
tables and the collectors' scans stay with TLC, and so does the refinement of
PaneStream, whose mapping filters sequences. The safety of the
other components (terminals and their watchers, remote access and discovery,
routing, sinks, launches, configuration, the side channel, usage) is stated over
several components of a bundle at once and checked on the bundles' instances.

## Not modelled

The Android companion (its own application, in Kotlin, behind the hub's device
protocol) and the example receiver (a sample program); the command line's
printing, desktop notifications and the service managers' unit files; SQLite,
tokio, tmux and the operating system, which appear as external steps. The
`components` of `PROJECT.json` give the reason for each part left out.
