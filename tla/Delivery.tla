------------------------------ MODULE Delivery ------------------------------
(***************************************************************************)
(* How one source's public views reach a hub: the daemon's transactional   *)
(* outbox and baseline mark, the SinkWorker loop that drains them over     *)
(* HTTP, and the hub's store that accepts snapshots and updates.           *)
(*                                                                         *)
(* Requests fail, time out while the hub still holds them, or lose their   *)
(* response; the daemon restarts at any point; the hub prunes, forgets and *)
(* may lose its storage. What a committed transition does to a view is the *)
(* subject of Broker: here a view is a status, for everything it shows,    *)
(* tagged with the revision it was committed at.                           *)
(***************************************************************************)
EXTENDS Integers, FiniteSets

CONSTANTS
  None,
  Agents,                      \* invocations of the source
  MAX_OUTBOX_RECORDS_PER_SINK, \* 1024 in the code
  BATCH,                       \* daemon.outbox_batch
  MAX_REJECTED_ATTEMPTS,       \* max_rejected_attempts
  Oversized,                   \* revisions whose payload exceeds the sink's max_payload_bytes
  Unacceptable,                \* revisions whose update the hub answers with a 4xx
  MaxRevision,                 \* bound on committed transitions
  MaxFailures                  \* bound on failed requests, restarts and hub wipes

ASSUME DeliveryAssumption ==
  /\ MAX_OUTBOX_RECORDS_PER_SINK \in Nat \ {0}
  /\ BATCH \in Nat \ {0}
  /\ MAX_REJECTED_ATTEMPTS \in Nat \ {0}
  /\ MaxRevision \in Nat /\ MaxFailures \in Nat
  /\ Oversized \subseteq Nat /\ Unacceptable \subseteq Nat
  /\ None \notin Nat /\ None \notin Agents

VARIABLES
  revision,   \* the broker revision
  views,      \* the source's public views
  registered, \* invocations that ever had one: ids are not used again
  outbox,     \* sink_outbox rows of the hub sink
  skipped,    \* newest revision that was not enqueued (history)
  baseline,   \* hub_sink_state.snapshot_revision; None when a snapshot is due
  snapshot_backoff, \* the last snapshot attempt failed
  worker,     \* where the SinkWorker loop is
  batch,      \* due records it has loaded and not yet handled
  request,    \* the HTTP request it awaits
  answer,     \* the outcome of that request, once there is one
  late,       \* requests it gave up on that the hub may still read
  source_revision, \* the hub's revision of the source; None without a row
  agents,     \* the hub's public_agents
  accepted,   \* the hub's accepted_deliveries
  forgotten,  \* the hub's forgotten_agents
  published,  \* revisions of the updates the hub has published to routing
  failures

daemonVars == <<revision, views, registered, outbox, skipped, baseline>>
workerVars == <<worker, batch, request, answer, snapshot_backoff>>
hubVars == <<source_revision, agents, accepted, forgotten, published>>
vars == <<daemonVars, workerVars, late, hubVars, failures>>

Statuses == {"working", "idle", "stopped"}
View == [version : Nat, status : Statuses]
ViewTable == [Agents -> View \cup {None}]
OutboxRecord ==
  [revision : Nat, agent : Agents, view : View, attempts : Nat, due : BOOLEAN]
UpdateEnvelope == [kind : {"update"}, revision : Nat, agent : Agents, view : View]
SnapshotEnvelope == [kind : {"snapshot"}, revision : Nat, views : ViewTable]
SourceEnvelope == UpdateEnvelope \cup SnapshotEnvelope
DeliveryOutcome == {"Ack", "Retry", "SnapshotRequired", "Reject"}

ASSUME NoneAssumption ==
  /\ None \notin UpdateEnvelope \cup SnapshotEnvelope \cup OutboxRecord
  /\ None \notin View \cup DeliveryOutcome

NoViews == [a \in Agents |-> None]

Init ==
  /\ revision = 0 /\ views = NoViews /\ registered = {} /\ outbox = {} /\ skipped = 0 /\ baseline = None
  /\ worker = "snapshots" /\ batch = {} /\ request = None /\ answer = None
  /\ snapshot_backoff = FALSE /\ late = {}
  /\ source_revision = None /\ agents = NoViews
  /\ accepted = {} /\ forgotten = {} /\ published = {}
  /\ failures = 0

-----------------------------------------------------------------------------
(* The daemon commits transitions. *)

(* The row is skipped, for good, when the outbox is full or its payload is    *)
(* larger than the sink allows.                                               *)
enqueue_transition(a, view) ==
  \/ /\ Cardinality(outbox) < MAX_OUTBOX_RECORDS_PER_SINK
     /\ view.version \notin Oversized
     /\ outbox' = outbox \cup {[revision |-> view.version, agent |-> a, view |-> view,
                               attempts |-> 0, due |-> TRUE]}
     /\ UNCHANGED skipped
  \/ /\ \/ Cardinality(outbox) >= MAX_OUTBOX_RECORDS_PER_SINK
        \/ view.version \in Oversized
     /\ skipped' = view.version
     /\ UNCHANGED outbox

next_revision ==
  /\ revision < MaxRevision
  /\ revision' = revision + 1

(* register makes the first view, which is not stopped; a later transition is *)
(* enqueued when it changes the view.                                         *)
PublicChange(a, status) ==
  IF views[a] = None
    THEN a \notin registered /\ status # "stopped"
    ELSE status # views[a].status

Commit(a) ==
  /\ next_revision
  /\ \E status \in Statuses :
       LET view == [version |-> revision + 1, status |-> status]
       IN  /\ PublicChange(a, status)
           /\ views' = [views EXCEPT ![a] = view]
           /\ enqueue_transition(a, view)
  /\ registered' = registered \cup {a}
  /\ UNCHANGED <<baseline, workerVars, late, hubVars, failures>>

(* A transition that changes no public field takes a revision only. *)
CommitPrivate ==
  /\ next_revision
  /\ UNCHANGED <<views, registered, outbox, skipped, baseline, workerVars, late, hubVars, failures>>

-----------------------------------------------------------------------------
(* SinkWorker::run: deliver_snapshots, then one batch of the outbox, for ever. *)

Send(envelope) == request' = envelope /\ answer' = None

Answered == request # None /\ answer # None

deliver_snapshots ==
  /\ worker = "snapshots" /\ baseline = None
  /\ Send([kind |-> "snapshot", revision |-> revision, views |-> views])
  /\ worker' = "awaiting_snapshot"
  /\ UNCHANGED <<daemonVars, batch, snapshot_backoff, late, hubVars, failures>>

(* No snapshot is due, or the backoff of the last attempt has not run out. *)
SnapshotNotSent ==
  /\ worker = "snapshots"
  /\ baseline # None \/ snapshot_backoff
  /\ worker' = "outbox"
  /\ snapshot_backoff' = (baseline = None)
  /\ UNCHANGED <<daemonVars, batch, request, answer, late, hubVars, failures>>

(* An acknowledged snapshot subsumes every queued update up to its revision. *)
hub_snapshot_delivered ==
  /\ worker = "awaiting_snapshot" /\ Answered
  /\ IF answer = "Ack"
       THEN /\ baseline' = request.revision
            /\ outbox' = {r \in outbox : r.revision > request.revision}
       ELSE UNCHANGED <<baseline, outbox>>
  /\ snapshot_backoff' = (answer # "Ack")
  /\ request' = None /\ answer' = None
  /\ worker' = "outbox"
  /\ UNCHANGED <<revision, views, registered, skipped, batch, late, hubVars, failures>>

due_outbox ==
  LET due == {r \in outbox : r.due}
  IN  {r \in due : Cardinality({q \in due : q.revision < r.revision}) < BATCH}

process_outbox_once ==
  /\ worker = "outbox"
  /\ batch' = due_outbox
  /\ worker' = IF due_outbox = {} THEN "snapshots" ELSE "records"
  /\ UNCHANGED <<daemonVars, request, answer, snapshot_backoff, late, hubVars, failures>>

First(r) == r \in batch /\ \A q \in batch : r.revision <= q.revision

Handled(r) ==
  /\ batch' = batch \ {r}
  /\ worker' = IF batch' = {} THEN "snapshots" ELSE "records"

(* Updates are held while a baseline snapshot is due. *)
HoldRecord(r) ==
  /\ worker = "records" /\ request = None /\ First(r)
  /\ baseline = None
  /\ Handled(r)
  /\ UNCHANGED <<daemonVars, request, answer, snapshot_backoff, late, hubVars, failures>>

DeliverRecord(r) ==
  /\ worker = "records" /\ request = None /\ First(r)
  /\ baseline # None
  /\ Send([kind |-> "update", revision |-> r.revision, agent |-> r.agent, view |-> r.view])
  /\ UNCHANGED <<daemonVars, worker, batch, snapshot_backoff, late, hubVars, failures>>

acknowledge(r) == outbox' = outbox \ {r}

(* Mutants: a failed record is dropped; attempts are not counted. *)
retry_Dropped(r) == outbox' = outbox \ {r}

retry_Uncounted(r) == outbox' = (outbox \ {r}) \cup {[r EXCEPT !.due = FALSE]}

(* The delay doubles with every attempt; here it ends at any later time. *)
retry(r) ==
  outbox' = (outbox \ {r}) \cup {[r EXCEPT !.attempts = @ + 1, !.due = FALSE]}

RecordAnswered(r) ==
  /\ worker = "records" /\ Answered /\ First(r)
  /\ \/ answer = "Ack" /\ acknowledge(r) /\ UNCHANGED baseline
     \/ answer = "Retry" /\ retry(r) /\ UNCHANGED baseline
     \/ answer = "SnapshotRequired" /\ retry(r) /\ baseline' = None
     \/ /\ answer = "Reject" /\ r.attempts + 1 >= MAX_REJECTED_ATTEMPTS
        /\ acknowledge(r) /\ baseline' = None
     \/ /\ answer = "Reject" /\ r.attempts + 1 < MAX_REJECTED_ATTEMPTS
        /\ retry(r) /\ UNCHANGED baseline
  /\ request' = None /\ answer' = None
  /\ Handled(r)
  /\ UNCHANGED <<revision, views, registered, skipped, snapshot_backoff, late, hubVars, failures>>

BackoffEnds(r) ==
  /\ r \in outbox /\ ~ r.due
  /\ outbox' = (outbox \ {r}) \cup {[r EXCEPT !.due = TRUE]}
  /\ UNCHANGED <<revision, views, registered, skipped, baseline, workerVars, late, hubVars, failures>>

-----------------------------------------------------------------------------
(* The hub's store and HTTP ingestion. *)

(* Mutant: every snapshot replaces the source's views. *)
StaleSnapshot_Never(m) == FALSE

StaleSnapshot(m) == source_revision # None /\ m.revision < source_revision

(* Mutant: tombstones do not apply to snapshots. *)
ingest_snapshot_Revives(m) ==
  IF StaleSnapshot(m)
    THEN UNCHANGED hubVars
    ELSE /\ source_revision' = m.revision
         /\ agents' = m.views
         /\ UNCHANGED <<accepted, forgotten, published>>

ingest_snapshot(m) ==
  IF StaleSnapshot(m)
    THEN UNCHANGED hubVars
    ELSE /\ source_revision' = m.revision
         /\ agents' = [a \in Agents |-> IF a \in forgotten THEN None ELSE m.views[a]]
         /\ UNCHANGED <<accepted, forgotten, published>>

(* Mutants: neither identity nor revision decides; only identity does. *)
NewUpdate_Always(m) == source_revision # None

NewUpdate_Unordered(m) == source_revision # None /\ m.revision \notin accepted

NewUpdate(m) ==
  /\ source_revision # None
  /\ m.revision \notin accepted
  /\ m.revision > source_revision

record_delivery(m) ==
  /\ source_revision' = m.revision
  /\ accepted' = accepted \cup {m.revision}

ingest_update(m) ==
  IF ~ NewUpdate(m)
    THEN UNCHANGED hubVars
    ELSE /\ record_delivery(m)
         /\ IF m.agent \in forgotten
              THEN UNCHANGED <<agents, published>>
              ELSE /\ agents' = [agents EXCEPT ![m.agent] = m.view]
                   /\ published' = published \cup {m.revision}
         /\ UNCHANGED forgotten

(* "update does not change the public view": the hub missed the change that   *)
(* this update undoes.                                                        *)
Unchanging(m) ==
  /\ NewUpdate(m) /\ m.agent \notin forgotten
  /\ agents[m.agent] # None /\ agents[m.agent].status = m.view.status

Rejected(m) == m.kind = "update" /\ (m.revision \in Unacceptable \/ Unchanging(m))

(* The response as HubSink::post reads it. *)
Outcome(m) ==
  CASE Rejected(m) -> "Reject"
    [] ~ Rejected(m) /\ m.kind = "update" /\ source_revision = None -> "SnapshotRequired"
    [] OTHER -> "Ack"

handle_ingest(m) ==
  IF Rejected(m) THEN UNCHANGED hubVars
  ELSE IF m.kind = "snapshot" THEN ingest_snapshot(m) ELSE ingest_update(m)

HubReceive ==
  /\ request # None /\ answer = None
  /\ handle_ingest(request)
  /\ answer' = Outcome(request)
  /\ UNCHANGED <<daemonVars, worker, batch, request, snapshot_backoff, late, failures>>

(* Deletes a stopped agent and keeps a tombstone. *)
forget(a) ==
  /\ agents[a] # None /\ agents[a].status = "stopped"
  /\ agents' = [agents EXCEPT ![a] = None]
  /\ forgotten' = forgotten \cup {a}
  /\ UNCHANGED <<daemonVars, workerVars, late, source_revision, accepted, published, failures>>

-----------------------------------------------------------------------------
(* Faults. *)

Fault == failures < MaxFailures /\ failures' = failures + 1

(* No connection, a server error, or a credential the hub refuses. *)
RequestFails ==
  /\ Fault
  /\ request # None /\ answer = None
  /\ answer' = "Retry"
  /\ UNCHANGED <<daemonVars, worker, batch, request, snapshot_backoff, late, hubVars>>

(* timeout_ms runs out: the hub still holds the request, or has handled it    *)
(* and its response is lost.                                                  *)
RequestTimesOut ==
  /\ Fault
  /\ request # None /\ answer # "Retry"
  /\ late' = IF answer = None THEN late \cup {request} ELSE late
  /\ answer' = "Retry"
  /\ UNCHANGED <<daemonVars, worker, batch, request, snapshot_backoff, hubVars>>

HubReceiveLate(m) ==
  /\ m \in late
  /\ handle_ingest(m)
  /\ late' = late \ {m}
  /\ UNCHANGED <<daemonVars, workerVars, failures>>

(* The daemon dies and starts again: reconcile deletes ended rows past their  *)
(* retention, reset_baselines makes a snapshot due, and the worker starts at  *)
(* the top. A request under way may still reach the hub.                      *)
Restart ==
  /\ Fault
  /\ \E expired \in SUBSET {a \in Agents : views[a] # None /\ views[a].status = "stopped"} :
       views' = [a \in Agents |-> IF a \in expired THEN None ELSE views[a]]
  /\ baseline' = None
  /\ worker' = "snapshots" /\ batch' = {} /\ request' = None /\ answer' = None
  /\ snapshot_backoff' = FALSE
  /\ late' = IF request # None /\ answer = None THEN late \cup {request} ELSE late
  /\ UNCHANGED <<revision, registered, outbox, skipped, hubVars>>

(* Retention is days, a request lives for seconds: none is under way that     *)
(* was sent before what is pruned now expired.                                *)
prune_retained ==
  /\ Fault
  /\ late = {} /\ request = None
  /\ \E expired \in SUBSET {a \in Agents : agents[a] # None /\ agents[a].status = "stopped"},
        deliveries \in SUBSET accepted, tombstones \in SUBSET forgotten :
       /\ agents' = [a \in Agents |-> IF a \in expired THEN None ELSE agents[a]]
       /\ accepted' = accepted \ deliveries
       /\ forgotten' = forgotten \ tombstones
  /\ source_revision' = IF agents' = NoViews THEN None ELSE source_revision
  /\ UNCHANGED <<daemonVars, workerVars, late, published>>

(* The hub is stopped, its storage deleted, and started again. *)
HubWiped ==
  /\ Fault
  /\ source_revision' = None /\ agents' = NoViews
  /\ accepted' = {} /\ forgotten' = {}
  /\ answer' = IF request # None THEN "Retry" ELSE None
  /\ late' = {}
  /\ UNCHANGED <<daemonVars, worker, batch, request, snapshot_backoff, published>>

-----------------------------------------------------------------------------

WorkerNext ==
  \/ deliver_snapshots \/ SnapshotNotSent \/ hub_snapshot_delivered \/ process_outbox_once
  \/ \E r \in batch : HoldRecord(r) \/ DeliverRecord(r) \/ RecordAnswered(r)

Next ==
  \/ \E a \in Agents : Commit(a) \/ forget(a)
  \/ CommitPrivate
  \/ WorkerNext
  \/ \E r \in outbox : BackoffEnds(r)
  \/ HubReceive
  \/ RequestFails \/ RequestTimesOut
  \/ \E m \in late : HubReceiveLate(m)
  \/ Restart \/ prune_retained \/ HubWiped

Spec == Init /\ [][Next]_vars

(* The worker's loop does not stop, backoffs end, and a hub that is reachable *)
(* answers: requests fail only MaxFailures times.                             *)
Fairness ==
  /\ WF_vars(WorkerNext)
  /\ SF_vars(deliver_snapshots)
  /\ WF_vars(HubReceive)
  /\ WF_vars(\E r \in outbox : BackoffEnds(r))

FairSpec == Spec /\ Fairness

-----------------------------------------------------------------------------
(* Properties. *)

(* Every variable has its type, and the batch is part of the outbox. *)
TypeOK ==
  /\ revision \in Nat /\ views \in ViewTable /\ registered \subseteq Agents
  /\ outbox \subseteq OutboxRecord /\ skipped \in Nat
  /\ baseline \in Nat \cup {None}
  /\ worker \in {"snapshots", "awaiting_snapshot", "outbox", "records"}
  /\ batch \subseteq outbox
  /\ request \in SourceEnvelope \cup {None}
  /\ answer \in DeliveryOutcome \cup {None}
  /\ snapshot_backoff \in BOOLEAN
  /\ late \subseteq SourceEnvelope
  /\ source_revision \in Nat \cup {None} /\ agents \in ViewTable
  /\ accepted \subseteq Nat /\ forgotten \subseteq Agents /\ published \subseteq Nat
  /\ failures \in Nat

HubHas(r) == source_revision # None /\ source_revision >= r

RepairDue == baseline = None \/ source_revision = None

(* The newest public change is never lost: the hub has reached its revision,  *)
(* or it is still queued, or a snapshot is due, or the hub will ask for one,  *)
(* or it never was enqueued (what acknowledge, hub_snapshot_delivered and the *)
(* drop policy of process_outbox_once delete has been subsumed).              *)
NewestChangeIsPending ==
  \A a \in Agents :
    LET newest == /\ views[a] # None
                  /\ \A b \in Agents : views[b] # None => views[b].version <= views[a].version
    IN  newest => \/ RepairDue
                  \/ HubHas(views[a].version)
                  \/ skipped >= views[a].version
                  \/ \E r \in outbox : r.revision = views[a].version

(* event-sinks/spec.md: on a transient failure "the outbox retains it and     *)
(* retries"; workers.rs: "so the receiver never sees an update gap". While    *)
(* the hub shows an older view of an agent than the source, an update of that *)
(* agent is queued or a snapshot is due.                                      *)
EveryChangeIsPending ==
  \A a \in Agents \ forgotten :
    views[a] # None /\ agents[a] # None /\ agents[a] # views[a] =>
      \/ RepairDue
      \/ skipped > 0
      \/ \E r \in outbox : r.agent = a /\ r.revision = views[a].version

(* A tombstone holds against every delivery path: no update, snapshot, retry  *)
(* or late request brings a forgotten agent back.                             *)
ForgottenStaysAway == \A a \in forgotten : agents[a] = None

(* The hub never replaces a view by an older one, whatever order retried,     *)
(* late and repeated requests arrive in.                                      *)
HubNeverRegresses ==
  [][\A a \in Agents :
       agents[a] # None /\ agents'[a] # None => agents'[a].version >= agents[a].version]_vars

(* hub.md: "lost acknowledgements never double-apply or double-trigger        *)
(* scripts". An update is accepted for publication at most once.              *)
PublishedOnce ==
  [][\A r \in accepted' \ accepted : r \notin published]_vars

(* When the daemon records a baseline, the hub is at that revision and shows  *)
(* the snapshot's views, less the forgotten agents. It may also still show a  *)
(* stopped agent the source no longer has: the source's retention takes no    *)
(* revision, so a late snapshot sent before it counts as current.             *)
BaselineIsExact ==
  [][baseline = None /\ baseline' # None =>
       /\ source_revision = baseline'
       /\ \A a \in Agents \ forgotten :
            \/ agents[a] = request.views[a]
            \/ request.views[a] = None /\ agents[a].status = "stopped"]_vars

(* Every update leaves the outbox, delivered, subsumed or dropped, and a      *)
(* baseline that is due is delivered, once requests stop failing.             *)
OutboxDrains == <>[](outbox = {} /\ baseline # None)

=============================================================================
