--------------------------- MODULE DeliveryProofs ---------------------------
(***************************************************************************)
(* Invariants of Delivery for every set of agents, outbox size, batch,     *)
(* retry limit and bound on failures: the types, and the order in which    *)
(* the hub takes what the source sends.                                    *)
(***************************************************************************)
EXTENDS Delivery, TLAPS

(* What TypeOK needs to be inductive: a batch exists only while the worker    *)
(* handles records, its records are due (so no backoff ends for them), and    *)
(* the worker awaits a snapshot's answer only for a snapshot.                 *)
WorkerFacts ==
  /\ worker # "records" => batch = {}
  /\ \A r \in batch : r.due
  /\ worker = "awaiting_snapshot" /\ request # None => request \in SnapshotEnvelope

TypeInv == TypeOK /\ WorkerFacts

(* None is no envelope, view or outcome. *)
LEMMA NoneFacts ==
  None \notin SourceEnvelope /\ None \notin View /\ None \notin DeliveryOutcome
BY NoneAssumption DEF SourceEnvelope

(* An update of a committed view is an envelope. *)
LEMMA UpdateType ==
  ASSUME NEW r \in OutboxRecord
  PROVE  [kind |-> "update", revision |-> r.revision, agent |-> r.agent, view |-> r.view]
           \in SourceEnvelope
BY DEF OutboxRecord, SourceEnvelope, UpdateEnvelope

(* A retried record is a record. *)
LEMMA RetryType ==
  ASSUME NEW r \in OutboxRecord
  PROVE  /\ [r EXCEPT !.attempts = @ + 1, !.due = FALSE] \in OutboxRecord
         /\ [r EXCEPT !.due = TRUE] \in OutboxRecord
<1>1. r.attempts + 1 \in Nat
  BY DEF OutboxRecord
<1>2. [r EXCEPT !.attempts = r.attempts + 1, !.due = FALSE] \in OutboxRecord
  BY <1>1, Zenon DEF OutboxRecord
<1>3. [r EXCEPT !.due = TRUE] \in OutboxRecord
  BY Zenon DEF OutboxRecord
<1> QED
  BY <1>2, <1>3

(* The hub stores typed views whatever envelope it handles. *)
LEMMA IngestType ==
  ASSUME TypeOK, NEW m \in SourceEnvelope, handle_ingest(m)
  PROVE  /\ source_revision' \in Nat \cup {None} /\ agents' \in ViewTable
         /\ accepted' \subseteq Nat /\ forgotten' \subseteq Agents /\ published' \subseteq Nat
<1>0. /\ source_revision \in Nat \cup {None} /\ agents \in ViewTable
      /\ accepted \subseteq Nat /\ forgotten \subseteq Agents /\ published \subseteq Nat
  BY DEF TypeOK
<1>1. CASE UNCHANGED hubVars
  BY <1>0, <1>1 DEF hubVars
<1>2. CASE m.kind = "snapshot" /\ ~ StaleSnapshot(m) /\ ~ Rejected(m)
  <2>1. m \in SnapshotEnvelope
    BY <1>2 DEF SourceEnvelope, UpdateEnvelope
  <2>2. m.revision \in Nat /\ m.views \in ViewTable
    BY <2>1 DEF SnapshotEnvelope
  <2> QED
    BY <1>0, <1>2, <2>2, Zenon DEF handle_ingest, ingest_snapshot, ViewTable
<1>3. CASE m.kind # "snapshot" /\ NewUpdate(m) /\ ~ Rejected(m)
  <2>1. m \in UpdateEnvelope
    BY <1>3 DEF SourceEnvelope, SnapshotEnvelope
  <2>2. m.revision \in Nat /\ m.view \in View /\ m.agent \in Agents
    BY <2>1 DEF UpdateEnvelope
  <2> QED
    BY <1>0, <1>3, <2>2, Zenon DEF handle_ingest, ingest_update, record_delivery, ViewTable
<1> QED
  BY <1>1, <1>2, <1>3 DEF handle_ingest, ingest_snapshot, ingest_update

(* The outcome the daemon reads is one of the four. *)
LEMMA OutcomeType ==
  ASSUME NEW m
  PROVE  Outcome(m) \in DeliveryOutcome
BY DEF Outcome, DeliveryOutcome

-----------------------------------------------------------------------------

(* A committed transition is type correct. *)
LEMMA CommitTypes ==
  ASSUME TypeInv, (\E a \in Agents : Commit(a)) \/ CommitPrivate
  PROVE  TypeInv'
<1> USE DEF daemonVars, workerVars, hubVars
<1>1. ASSUME NEW a \in Agents, Commit(a) PROVE TypeInv'
  <2>1. PICK status \in Statuses :
          LET view == [version |-> revision + 1, status |-> status]
          IN  /\ views' = [views EXCEPT ![a] = view]
              /\ enqueue_transition(a, view)
    BY <1>1, Zenon DEF Commit
  <2> DEFINE view == [version |-> revision + 1, status |-> status]
  <2>2. revision \in Nat /\ revision' \in Nat /\ view \in View
    BY <1>1 DEF TypeInv, TypeOK, Commit, next_revision, View
  <2>3. views' \in ViewTable
    BY <2>1, <2>2 DEF TypeInv, TypeOK, ViewTable
  <2>4. view.version \in Nat
    BY <2>2 DEF View
  <2> HIDE DEF view
  <2>5. [revision |-> view.version, agent |-> a, view |-> view, attempts |-> 0, due |-> TRUE]
          \in OutboxRecord
    BY <2>2, <2>4 DEF OutboxRecord
  <2>6. enqueue_transition(a, view)
    BY <2>1 DEF view
  <2>7. outbox' \subseteq OutboxRecord /\ outbox \subseteq outbox' /\ skipped' \in Nat
    BY <2>4, <2>5, <2>6, Zenon DEF enqueue_transition, TypeInv, TypeOK
  <2>8. UNCHANGED <<baseline, workerVars, late, hubVars, failures>>
          /\ registered' \subseteq Agents
    BY <1>1 DEF Commit, TypeInv, TypeOK
  <2> QED
    BY <2>2, <2>3, <2>7, <2>8 DEF TypeInv, TypeOK, WorkerFacts
<1>2. CASE CommitPrivate
  BY <1>2 DEF CommitPrivate, next_revision, TypeInv, TypeOK, WorkerFacts
<1> QED
  BY <1>1, <1>2

(* The worker's own steps. *)
LEMMA WorkerTypes ==
  ASSUME TypeInv, WorkerNext
  PROVE  TypeInv'
<1> USE DEF daemonVars, workerVars, hubVars
<1>0. /\ revision \in Nat /\ views \in ViewTable /\ outbox \subseteq OutboxRecord
      /\ batch \subseteq outbox
  BY DEF TypeInv, TypeOK
<1>1. CASE deliver_snapshots
  <2>1. [kind |-> "snapshot", revision |-> revision, views |-> views] \in SnapshotEnvelope
    BY <1>0 DEF SnapshotEnvelope
  <2> QED
    BY <1>1, <2>1 DEF deliver_snapshots, Send, TypeInv, TypeOK, WorkerFacts, SourceEnvelope
<1>2. CASE SnapshotNotSent
  BY <1>2 DEF SnapshotNotSent, TypeInv, TypeOK, WorkerFacts
<1>3. CASE hub_snapshot_delivered
  <2>1. request \in SnapshotEnvelope
    BY <1>3 DEF hub_snapshot_delivered, Answered, TypeInv, WorkerFacts
  <2>2. request.revision \in Nat
    BY <2>1 DEF SnapshotEnvelope
  <2>3. batch = {}
    BY <1>3 DEF hub_snapshot_delivered, TypeInv, WorkerFacts
  <2> QED
    BY <1>3, <2>2, <2>3 DEF hub_snapshot_delivered, TypeInv, TypeOK, WorkerFacts
<1>4. CASE process_outbox_once
  <2>1. due_outbox \subseteq outbox /\ \A r \in due_outbox : r.due
    BY DEF due_outbox
  <2> QED
    BY <1>4, <2>1 DEF process_outbox_once, TypeInv, TypeOK, WorkerFacts
<1>5. ASSUME NEW r \in batch, HoldRecord(r) PROVE TypeInv'
  BY <1>5 DEF HoldRecord, Handled, TypeInv, TypeOK, WorkerFacts
<1>6. ASSUME NEW r \in batch, DeliverRecord(r) PROVE TypeInv'
  <2>1. [kind |-> "update", revision |-> r.revision, agent |-> r.agent, view |-> r.view]
          \in SourceEnvelope
    BY <1>0, UpdateType
  <2> QED
    BY <1>6, <2>1 DEF DeliverRecord, Send, TypeInv, TypeOK, WorkerFacts
<1>7. ASSUME NEW r \in batch, RecordAnswered(r) PROVE TypeInv'
  <2>1. /\ outbox' \subseteq OutboxRecord /\ batch \ {r} \subseteq outbox'
        /\ baseline' \in {baseline, None}
    <3>1. [r EXCEPT !.attempts = @ + 1, !.due = FALSE] \in OutboxRecord
      BY <1>0, RetryType, Zenon
    <3>2. acknowledge(r) \/ retry(r)
      BY <1>7 DEF RecordAnswered
    <3>3. baseline' \in {baseline, None}
      BY <1>7 DEF RecordAnswered
    <3> QED
      BY <1>0, <3>1, <3>2, <3>3, Zenon DEF acknowledge, retry
  <2>2. /\ batch' = batch \ {r}
        /\ worker' = IF batch' = {} THEN "snapshots" ELSE "records"
        /\ request' = None /\ answer' = None
        /\ UNCHANGED <<revision, views, registered, skipped, snapshot_backoff, late, hubVars,
                       failures>>
    BY <1>7 DEF RecordAnswered, Handled
  <2> QED
    BY <2>1, <2>2 DEF TypeInv, TypeOK, WorkerFacts
<1> QED
  BY <1>1, <1>2, <1>3, <1>4, <1>5, <1>6, <1>7 DEF WorkerNext

(* Steps of the hub, of time, and faults. *)
LEMMA OtherTypes ==
  ASSUME TypeInv,
         \/ \E a \in Agents : forget(a)
         \/ \E r \in outbox : BackoffEnds(r)
         \/ HubReceive \/ RequestFails \/ RequestTimesOut
         \/ \E m \in late : HubReceiveLate(m)
         \/ Restart \/ prune_retained \/ HubWiped
  PROVE  TypeInv'
<1> USE DEF daemonVars, workerVars, hubVars
<1>0. failures \in Nat /\ (Fault => failures' \in Nat)
  BY DEF TypeInv, TypeOK, Fault
<1>1. ASSUME NEW a \in Agents, forget(a) PROVE TypeInv'
  BY <1>1 DEF forget, TypeInv, TypeOK, WorkerFacts, ViewTable
<1>2. ASSUME NEW r \in outbox, BackoffEnds(r) PROVE TypeInv'
  <2>1. [r EXCEPT !.due = TRUE] \in OutboxRecord
    BY RetryType, Zenon DEF TypeInv, TypeOK
  <2>2. r \notin batch
    BY <1>2 DEF BackoffEnds, TypeInv, WorkerFacts
  <2> QED
    BY <1>2, <2>1, <2>2, Zenon DEF BackoffEnds, TypeInv, TypeOK, WorkerFacts
<1>3. CASE HubReceive
  <2>1. request \in SourceEnvelope
    BY <1>3 DEF HubReceive, TypeInv, TypeOK
  <2>2. /\ source_revision' \in Nat \cup {None} /\ agents' \in ViewTable
        /\ accepted' \subseteq Nat /\ forgotten' \subseteq Agents /\ published' \subseteq Nat
    BY <1>3, <2>1, IngestType DEF HubReceive, TypeInv
  <2> QED
    BY <1>3, <2>2, OutcomeType DEF HubReceive, TypeInv, TypeOK, WorkerFacts
<1>4. CASE RequestFails
  BY <1>0, <1>4 DEF RequestFails, TypeInv, TypeOK, WorkerFacts, DeliveryOutcome
<1>5. CASE RequestTimesOut
  <2>1. late' \subseteq SourceEnvelope
    BY <1>5 DEF RequestTimesOut, TypeInv, TypeOK
  <2> QED
    BY <1>0, <1>5, <2>1 DEF RequestTimesOut, TypeInv, TypeOK, WorkerFacts, DeliveryOutcome
<1>6. ASSUME NEW m \in late, HubReceiveLate(m) PROVE TypeInv'
  <2>1. m \in SourceEnvelope
    BY DEF TypeInv, TypeOK
  <2>2. /\ source_revision' \in Nat \cup {None} /\ agents' \in ViewTable
        /\ accepted' \subseteq Nat /\ forgotten' \subseteq Agents /\ published' \subseteq Nat
    BY <1>6, <2>1, IngestType DEF HubReceiveLate, TypeInv
  <2> QED
    BY <1>6, <2>2 DEF HubReceiveLate, TypeInv, TypeOK, WorkerFacts
<1>7. CASE Restart
  <2>1. views' \in ViewTable
    BY <1>7 DEF Restart, TypeInv, TypeOK, ViewTable
  <2>2. late' \subseteq SourceEnvelope
    BY <1>7 DEF Restart, TypeInv, TypeOK
  <2> QED
    BY <1>0, <1>7, <2>1, <2>2, Zenon DEF Restart, TypeInv, TypeOK, WorkerFacts
<1>8. CASE prune_retained
  <2>1. agents' \in ViewTable /\ accepted' \subseteq Nat /\ forgotten' \subseteq Agents
    BY <1>8 DEF prune_retained, TypeInv, TypeOK, ViewTable
  <2> QED
    BY <1>0, <1>8, <2>1 DEF prune_retained, TypeInv, TypeOK, WorkerFacts
<1>9. CASE HubWiped
  BY <1>0, <1>9 DEF HubWiped, TypeInv, TypeOK, WorkerFacts, NoViews, ViewTable, DeliveryOutcome
<1> QED
  BY <1>1, <1>2, <1>3, <1>4, <1>5, <1>6, <1>7, <1>8, <1>9

(* TypeInv is inductive. *)
LEMMA NextTypes == TypeInv /\ [Next]_vars => TypeInv'
<1>1. ASSUME TypeInv, UNCHANGED vars PROVE TypeInv'
  BY <1>1 DEF vars, daemonVars, workerVars, hubVars, TypeInv, TypeOK, WorkerFacts
<1> QED
  BY <1>1, CommitTypes, WorkerTypes, OtherTypes DEF Next

(* The hub and the outbox start empty. *)
LEMMA InitTypes == Init => TypeInv
<1> SUFFICES ASSUME Init PROVE TypeInv
  OBVIOUS
<1>1. NoViews \in ViewTable
  BY DEF NoViews, ViewTable
<1>2. TypeOK
  BY <1>1, Zenon DEF Init, TypeOK
<1>3. WorkerFacts
  BY DEF Init, WorkerFacts
<1> QED
  BY <1>2, <1>3 DEF TypeInv

(* Every behaviour is type correct (TypeOK), and the batch the worker handles *)
(* is part of the outbox whatever is committed, acknowledged or retried       *)
(* meanwhile.                                                                 *)
THEOREM TypeCorrect == Spec => []TypeOK
<1>1. TypeInv => TypeOK
  BY DEF TypeInv
<1> QED
  BY <1>1, InitTypes, NextTypes, PTL DEF Spec

-----------------------------------------------------------------------------
(* Order at the hub. Every copy of an agent's view, wherever it is, is        *)
(* related to every snapshot in flight.                                       *)

InFlight == late \cup {m \in {request} : m # None /\ answer = None}
Snapshots == {m \in InFlight : m.kind = "snapshot"}
Updates == {m \in InFlight : m.kind = "update"}

(* The copies of a's view: at the source, at the hub, queued, in flight. *)
Copies(a) ==
  (  {views[a], agents[a]}
  \cup {r.view : r \in {q \in outbox : q.agent = a}}
  \cup {m.view : m \in {u \in Updates : u.agent = a}}
  \cup {m.views[a] : m \in Snapshots}) \ {None}

(* A copy is no newer than the source, and a snapshot that is not older than  *)
(* a copy does not show an older view.                                        *)
CopiesOrdered ==
  \A a \in Agents : \A c \in Copies(a) :
    /\ c.version <= revision
    /\ views[a] # None => c.version <= views[a].version
    /\ \A m \in Snapshots :
         m.views[a] # None /\ c.version <= m.revision => c.version <= m.views[a].version

(* A queued or sent update carries the view of its own revision, a snapshot   *)
(* views no newer than its revision.                                          *)
EnvelopesExact ==
  /\ \A r \in outbox : r.view.version = r.revision
  /\ \A m \in Updates : m.view.version = m.revision
  /\ \A m \in Snapshots :
       /\ m.revision <= revision
       /\ \A a \in Agents : m.views[a] # None => m.views[a].version <= m.revision

(* source_revision bounds every view the hub holds. *)
HubBound ==
  \A a \in Agents :
    agents[a] # None => source_revision # None /\ agents[a].version <= source_revision

(* A revision that was published is covered by source_revision or, while the  *)
(* hub has no row of the source, by every snapshot that could make one.       *)
PublishedBound ==
  \A p \in published :
    /\ p <= revision
    /\ source_revision # None => p <= source_revision
    /\ source_revision = None => \A m \in Snapshots : p <= m.revision

OrderInv == CopiesOrdered /\ EnvelopesExact /\ HubBound /\ PublishedBound

(* What is in flight is an envelope of its kind, and every copy is a view. *)
LEMMA FlightTypes ==
  ASSUME TypeInv
  PROVE  /\ InFlight \subseteq SourceEnvelope
         /\ Snapshots \subseteq SnapshotEnvelope
         /\ Updates \subseteq UpdateEnvelope
         /\ \A a \in Agents : Copies(a) \subseteq View
<1>1. InFlight \subseteq SourceEnvelope
  BY DEF InFlight, TypeInv, TypeOK
<1>2. Snapshots \subseteq SnapshotEnvelope
  BY <1>1 DEF Snapshots, SourceEnvelope, UpdateEnvelope
<1>3. Updates \subseteq UpdateEnvelope
  BY <1>1 DEF Updates, SourceEnvelope, SnapshotEnvelope
<1>4. ASSUME NEW a \in Agents, NEW c \in Copies(a) PROVE c \in View
  <2>1. views[a] \in View \cup {None} /\ agents[a] \in View \cup {None}
    BY DEF TypeInv, TypeOK, ViewTable
  <2>2. \A r \in outbox : r.view \in View
    BY DEF TypeInv, TypeOK, OutboxRecord
  <2>3. \A m \in Updates : m.view \in View
    BY <1>3 DEF UpdateEnvelope
  <2>4. \A m \in Snapshots : m.views[a] \in View \cup {None}
    BY <1>2 DEF SnapshotEnvelope, ViewTable
  <2> QED
    BY <1>4, <2>1, <2>2, <2>3, <2>4 DEF Copies
<1> QED
  BY <1>1, <1>2, <1>3, <1>4

(* A step after which there are no copies and no requests that were not there *)
(* before keeps the order.                                                    *)
LEMMA QuietOrder ==
  ASSUME TypeInv, TypeInv', OrderInv,
         InFlight' \subseteq InFlight,
         revision <= revision',
         \A a \in Agents : views'[a] \in {views[a], None},
         \A a \in Agents : agents'[a] \in Copies(a) \cup {None},
         \A r \in outbox' : \E q \in outbox :
           r.agent = q.agent /\ r.view = q.view /\ r.revision = q.revision
  PROVE  CopiesOrdered' /\ EnvelopesExact'
<1>1. Snapshots' \subseteq Snapshots /\ Updates' \subseteq Updates
  BY DEF Snapshots, Updates
<1>2. revision \in Nat /\ revision' \in Nat
  BY DEF TypeInv, TypeOK
<1>3. ASSUME NEW a \in Agents PROVE Copies(a)' \subseteq Copies(a)
  <2>1. views'[a] \in Copies(a) \cup {None}
    BY DEF Copies
  <2>2. \A r \in outbox' : r.agent = a => r.view \in Copies(a) \cup {None}
    BY DEF Copies
  <2>3. \A m \in Updates' : m.agent = a => m.view \in Copies(a) \cup {None}
    BY <1>1 DEF Copies
  <2>4. \A m \in Snapshots' : m.views[a] \in Copies(a) \cup {None}
    BY <1>1 DEF Copies
  <2>5. Copies(a)' =
          (  {views'[a], agents'[a]}
          \cup {r.view : r \in {q \in outbox' : q.agent = a}}
          \cup {m.view : m \in {u \in Updates' : u.agent = a}}
          \cup {m.views[a] : m \in Snapshots'}) \ {None}
    BY DEF Copies
  <2> QED
    BY <2>1, <2>2, <2>3, <2>4, <2>5
<1>4. CopiesOrdered'
  <2> SUFFICES ASSUME NEW a \in Agents, NEW c \in Copies(a)'
               PROVE  /\ c.version <= revision'
                      /\ views'[a] # None => c.version <= views'[a].version
                      /\ \A m \in Snapshots' :
                           m.views[a] # None /\ c.version <= m.revision
                             => c.version <= m.views[a].version
    BY DEF CopiesOrdered
  <2>1. c \in Copies(a) /\ c.version \in Nat
    BY <1>3, FlightTypes DEF View
  <2> QED
    BY <1>1, <1>2, <2>1 DEF OrderInv, CopiesOrdered
<1>5. EnvelopesExact'
  <2>1. \A m \in Snapshots' : m.revision \in Nat /\ m.revision <= revision
    BY <1>1, FlightTypes DEF SnapshotEnvelope, OrderInv, EnvelopesExact
  <2> QED
    BY <1>1, <1>2, <2>1 DEF OrderInv, EnvelopesExact
<1> QED
  BY <1>4, <1>5

(* A step that leaves the hub alone keeps its bounds. *)
LEMMA HubUnmoved ==
  ASSUME TypeInv, TypeInv', OrderInv, UNCHANGED hubVars,
         \A m \in Snapshots' : m \in Snapshots \/ m.revision = revision,
         revision <= revision'
  PROVE  HubBound' /\ PublishedBound'
<1>1. revision \in Nat /\ revision' \in Nat /\ published \subseteq Nat
  BY DEF TypeInv, TypeOK
<1> QED
  BY <1>1 DEF hubVars, OrderInv, HubBound, PublishedBound

(* What the hub's ingestion of a request in flight does: it stores copies     *)
(* that exist, never an older one than it holds, keeps its bounds, and        *)
(* accepts no revision that was published.                                    *)
LEMMA IngestOrder ==
  ASSUME TypeInv, OrderInv, NEW m \in InFlight, handle_ingest(m),
         InFlight' \subseteq InFlight, UNCHANGED revision
  PROVE  /\ \A a \in Agents : agents'[a] \in Copies(a) \cup {None}
         /\ HubBound' /\ PublishedBound'
         /\ \A a \in Agents : agents[a] # None /\ agents'[a] # None
              => agents'[a].version >= agents[a].version
         /\ \A r \in accepted' \ accepted : r \notin published
<1>0. Snapshots' \subseteq Snapshots
  BY DEF Snapshots
<1>1. /\ revision \in Nat /\ published \subseteq Nat /\ source_revision \in Nat \cup {None}
      /\ \A a \in Agents : agents[a] # None => agents[a].version \in Nat
      /\ agents \in ViewTable /\ None \notin Nat
  BY DeliveryAssumption DEF TypeInv, TypeOK, ViewTable, View
<1>2. CASE UNCHANGED hubVars
  <2>1. HubBound' /\ PublishedBound'
    BY <1>0, <1>2 DEF hubVars, OrderInv, HubBound, PublishedBound
  <2>2. \A a \in Agents : agents'[a] \in Copies(a) \cup {None}
    BY <1>2 DEF hubVars, Copies
  <2> QED
    BY <1>1, <1>2, <2>1, <2>2 DEF hubVars
<1>3. CASE m.kind = "snapshot" /\ ingest_snapshot(m) /\ ~ StaleSnapshot(m)
  <2>1. m \in Snapshots /\ m \in SnapshotEnvelope
    BY <1>3, FlightTypes DEF Snapshots
  <2>2. /\ source_revision' = m.revision
        /\ agents' = [a \in Agents |-> IF a \in forgotten THEN None ELSE m.views[a]]
        /\ UNCHANGED <<accepted, forgotten, published>>
    BY <1>3 DEF ingest_snapshot
  <2>3. /\ m.revision \in Nat
        /\ \A a \in Agents : m.views[a] # None => m.views[a].version \in Nat
    BY <2>1 DEF SnapshotEnvelope, ViewTable, View
  <2>4. source_revision # None => source_revision <= m.revision
    BY <1>1, <1>3, <2>3 DEF StaleSnapshot
  <2>5. \A a \in Agents : m.views[a] \in Copies(a) \cup {None}
    BY <2>1 DEF Copies
  <2>6. ASSUME NEW a \in Agents, agents[a] # None, m.views[a] # None
        PROVE  m.views[a].version >= agents[a].version
    <3>1. agents[a] \in Copies(a)
      BY <2>6 DEF Copies
    <3>2. agents[a].version <= m.revision
      BY <1>1, <2>3, <2>4, <2>6 DEF OrderInv, HubBound
    <3> QED
      BY <1>1, <2>1, <2>3, <2>6, <3>1, <3>2 DEF OrderInv, CopiesOrdered
  <2>7. HubBound'
    BY <1>1, <2>1, <2>2, <2>3 DEF HubBound, OrderInv, EnvelopesExact
  <2>8. PublishedBound'
    BY <1>1, <2>1, <2>2, <2>3, <2>4 DEF PublishedBound, OrderInv
  <2> QED
    BY <2>2, <2>5, <2>6, <2>7, <2>8
<1>4. CASE m.kind = "update" /\ ingest_update(m) /\ NewUpdate(m)
  <2>1. m \in Updates /\ m \in UpdateEnvelope
    BY <1>4, FlightTypes DEF Updates
  <2>2. /\ m.revision \in Nat /\ m.agent \in Agents /\ m.view \in View
        /\ m.view # None /\ m.view.version = m.revision
    BY <2>1, NoneAssumption DEF UpdateEnvelope, OrderInv, EnvelopesExact
  <2>3. source_revision \in Nat /\ m.revision > source_revision
    BY <1>1, <1>4 DEF NewUpdate
  <2>4. /\ source_revision' = m.revision
        /\ accepted' = accepted \cup {m.revision}
        /\ \/ UNCHANGED <<agents, published>>
           \/ /\ agents' = [agents EXCEPT ![m.agent] = m.view]
              /\ published' = published \cup {m.revision}
    BY <1>4 DEF ingest_update, record_delivery
  <2>5. m.view \in Copies(m.agent)
    BY <2>1, <2>2 DEF Copies
  <2>6. m.revision <= revision
    BY <2>2, <2>5 DEF OrderInv, CopiesOrdered
  <2>7. \A a \in Agents : agents'[a] = agents[a] \/ (a = m.agent /\ agents'[a] = m.view)
    BY <1>1, <2>2, <2>4 DEF ViewTable
  <2>8. \A a \in Agents : agents[a] \in Copies(a) \cup {None}
    BY DEF Copies
  <2>9. \A a \in Agents : agents[a] # None => agents[a].version <= source_revision
    BY DEF OrderInv, HubBound
  <2>10. HubBound'
    BY <1>1, <2>2, <2>3, <2>4, <2>7, <2>9 DEF HubBound
  <2>11. \A p \in published : p <= source_revision
    BY <1>1, <2>3 DEF OrderInv, PublishedBound
  <2>12. PublishedBound'
    <3>1. \A p \in published' : p \in published \/ p = m.revision
      BY <2>4
    <3>2. \A p \in published : p <= revision /\ p <= m.revision
      BY <1>1, <2>2, <2>3, <2>11 DEF OrderInv, PublishedBound
    <3>3. \A p \in published' : p <= revision /\ p <= m.revision
      BY <2>2, <2>6, <3>1, <3>2
    <3>4. source_revision' = m.revision /\ m.revision # None /\ revision' = revision
      BY <1>1, <2>2, <2>4
    <3> QED
      BY <3>3, <3>4 DEF PublishedBound
  <2>13. \A r \in accepted' \ accepted : r \notin published
    BY <1>1, <2>2, <2>3, <2>4, <2>11
  <2>14. \A a \in Agents : agents[a] # None /\ agents'[a] # None
           => agents'[a].version >= agents[a].version
    BY <1>1, <2>2, <2>3, <2>7, <2>9
  <2> QED
    BY <2>5, <2>7, <2>8, <2>10, <2>12, <2>13, <2>14
<1> QED
  <2>1. m.kind \in {"update", "snapshot"}
    BY FlightTypes DEF SourceEnvelope, UpdateEnvelope, SnapshotEnvelope
  <2> QED
    BY <1>2, <1>3, <1>4, <2>1 DEF handle_ingest, ingest_snapshot, ingest_update

(* A committed view is newer than every copy and every snapshot in flight. *)
LEMMA CommitOrder ==
  ASSUME TypeInv, TypeInv', OrderInv, NEW a \in Agents, Commit(a)
  PROVE  OrderInv'
<1> DEFINE new == views'[a]
<1>1. PICK status \in Statuses :
        /\ views' = [views EXCEPT ![a] = [version |-> revision + 1, status |-> status]]
        /\ enqueue_transition(a, [version |-> revision + 1, status |-> status])
  BY Zenon DEF Commit
<1>2. /\ revision \in Nat /\ revision' = revision + 1 /\ views \in ViewTable
      /\ UNCHANGED <<workerVars, late, hubVars>>
  BY DEF Commit, next_revision, TypeInv, TypeOK
<1>3. new.version = revision + 1 /\ \A b \in Agents \ {a} : views'[b] = views[b]
  BY <1>1, <1>2 DEF ViewTable
<1>4. \A r \in outbox' : r \in outbox \/ (r.agent = a /\ r.view = new /\ r.revision = revision + 1)
  BY <1>1, <1>2 DEF enqueue_transition, ViewTable
<1>5. InFlight' = InFlight /\ Snapshots' = Snapshots /\ Updates' = Updates
  BY <1>2 DEF workerVars, InFlight, Snapshots, Updates
<1>6. agents' = agents
  BY <1>2 DEF hubVars
<1> HIDE DEF new
<1>7. ASSUME NEW b \in Agents, NEW c \in Copies(b)'
      PROVE  c \in Copies(b) \/ (b = a /\ c = new)
  <2>1. Copies(b)' =
          (  {views'[b], agents'[b]}
          \cup {r.view : r \in {q \in outbox' : q.agent = b}}
          \cup {m.view : m \in {u \in Updates' : u.agent = b}}
          \cup {m.views[b] : m \in Snapshots'}) \ {None}
    BY DEF Copies
  <2>2. c = views'[b] => c \in Copies(b) \/ (b = a /\ c = new)
    BY <1>3, <1>7, <2>1 DEF Copies, new
  <2>3. \A r \in outbox' : r.agent = b /\ c = r.view => c \in Copies(b) \/ (b = a /\ c = new)
    BY <1>4, <1>7, <2>1 DEF Copies
  <2>4. c = agents'[b] => c \in Copies(b)
    BY <1>6, <1>7, <2>1 DEF Copies
  <2>5. \A m \in Updates' : m.agent = b /\ c = m.view => c \in Copies(b)
    BY <1>5, <1>7, <2>1 DEF Copies
  <2>6. \A m \in Snapshots' : c = m.views[b] => c \in Copies(b)
    BY <1>5, <1>7, <2>1 DEF Copies
  <2> QED
    BY <1>7, <2>1, <2>2, <2>3, <2>4, <2>5, <2>6
<1>8. \A m \in Snapshots : m.revision \in Nat /\ m.revision <= revision
  BY FlightTypes DEF SnapshotEnvelope, OrderInv, EnvelopesExact
<1>9. CopiesOrdered'
  <2> SUFFICES ASSUME NEW b \in Agents, NEW c \in Copies(b)'
               PROVE  /\ c.version <= revision'
                      /\ views'[b] # None => c.version <= views'[b].version
                      /\ \A m \in Snapshots' :
                           m.views[b] # None /\ c.version <= m.revision
                             => c.version <= m.views[b].version
    BY DEF CopiesOrdered
  <2>1. CASE b = a /\ c = new
    BY <1>2, <1>3, <1>5, <1>8, <2>1 DEF new
  <2>2. CASE c \in Copies(b)
    <3>1. /\ c.version \in Nat /\ c.version <= revision
          /\ views[b] # None => c.version <= views[b].version
          /\ \A m \in Snapshots : m.views[b] # None /\ c.version <= m.revision
               => c.version <= m.views[b].version
      BY <2>2, FlightTypes DEF View, OrderInv, CopiesOrdered
    <3> QED
      BY <1>2, <1>3, <1>5, <3>1 DEF new
  <2> QED
    BY <1>7, <2>1, <2>2
<1>10. EnvelopesExact'
  <2>1. \A r \in outbox' : r.view.version = r.revision
    BY <1>3, <1>4 DEF OrderInv, EnvelopesExact
  <2>2. \A m \in Snapshots : m.revision <= revision'
    BY <1>2, <1>8
  <2> QED
    BY <1>5, <2>1, <2>2 DEF OrderInv, EnvelopesExact
<1>11. HubBound' /\ PublishedBound'
  BY <1>2, <1>5, HubUnmoved
<1> QED
  BY <1>9, <1>10, <1>11 DEF OrderInv

(* A snapshot is taken of the source's own views, which no copy is newer than. *)
LEMMA SnapshotOrder ==
  ASSUME TypeInv, TypeInv', OrderInv, deliver_snapshots
  PROVE  OrderInv'
<1> DEFINE snap == [kind |-> "snapshot", revision |-> revision, views |-> views]
<1>1. /\ InFlight' \subseteq late \cup {snap}
      /\ UNCHANGED <<daemonVars, hubVars>>
  BY DEF deliver_snapshots, Send, InFlight
<1>2. snap.revision = revision /\ snap.views = views /\ snap.kind = "snapshot"
  OBVIOUS
<1> HIDE DEF snap
<1>3. /\ Snapshots' \subseteq Snapshots \cup {snap} /\ Updates' \subseteq Updates
  BY <1>1, <1>2 DEF Snapshots, Updates, InFlight
<1>4. revision \in Nat /\ UNCHANGED <<revision, views, outbox, agents>>
  BY <1>1 DEF daemonVars, hubVars, TypeInv, TypeOK
<1>5. ASSUME NEW b \in Agents PROVE Copies(b)' \subseteq Copies(b)
  <2>1. Copies(b)' =
          (  {views'[b], agents'[b]}
          \cup {r.view : r \in {q \in outbox' : q.agent = b}}
          \cup {m.view : m \in {u \in Updates' : u.agent = b}}
          \cup {m.views[b] : m \in Snapshots'}) \ {None}
    BY DEF Copies
  <2>2. \A m \in Snapshots' : m.views[b] \in Copies(b) \cup {None}
    BY <1>2, <1>3 DEF Copies
  <2>3. \A m \in Updates' : m.agent = b => m.view \in Copies(b) \cup {None}
    BY <1>3 DEF Copies
  <2>4. \A r \in outbox : r.agent = b => r.view \in Copies(b) \cup {None}
    BY DEF Copies
  <2>5. views[b] \in Copies(b) \cup {None} /\ agents[b] \in Copies(b) \cup {None}
    BY DEF Copies
  <2> QED
    BY <1>4, <2>1, <2>2, <2>3, <2>4, <2>5
<1>6. CopiesOrdered'
  BY <1>2, <1>3, <1>4, <1>5 DEF OrderInv, CopiesOrdered
<1>7. \A b \in Agents : views[b] # None => views[b].version <= revision
  BY DEF OrderInv, CopiesOrdered, Copies
<1>8. EnvelopesExact'
  BY <1>2, <1>3, <1>4, <1>7 DEF OrderInv, EnvelopesExact
<1>9. HubBound' /\ PublishedBound'
  BY <1>1, <1>2, <1>3, <1>4, HubUnmoved
<1> QED
  BY <1>6, <1>8, <1>9 DEF OrderInv

(* An update is sent with the view its record holds. *)
LEMMA DeliverOrder ==
  ASSUME TypeInv, TypeInv', OrderInv, NEW r \in batch, DeliverRecord(r)
  PROVE  OrderInv'
<1> DEFINE upd == [kind |-> "update", revision |-> r.revision, agent |-> r.agent, view |-> r.view]
<1>1. /\ InFlight' \subseteq late \cup {upd}
      /\ UNCHANGED <<daemonVars, hubVars>>
  BY DEF DeliverRecord, Send, InFlight
<1>2. /\ upd.revision = r.revision /\ upd.view = r.view /\ upd.agent = r.agent
      /\ upd.kind = "update"
  OBVIOUS
<1> HIDE DEF upd
<1>3. Snapshots' \subseteq Snapshots /\ Updates' \subseteq Updates \cup {upd}
  BY <1>1, <1>2 DEF Snapshots, Updates, InFlight
<1>4. revision \in Nat /\ UNCHANGED <<revision, views, outbox, agents>> /\ r \in outbox
  BY <1>1 DEF daemonVars, hubVars, TypeInv, TypeOK
<1>5. ASSUME NEW b \in Agents PROVE Copies(b)' \subseteq Copies(b)
  <2>1. Copies(b)' =
          (  {views'[b], agents'[b]}
          \cup {q.view : q \in {q \in outbox' : q.agent = b}}
          \cup {m.view : m \in {u \in Updates' : u.agent = b}}
          \cup {m.views[b] : m \in Snapshots'}) \ {None}
    BY DEF Copies
  <2>2. \A q \in outbox : q.agent = b => q.view \in Copies(b) \cup {None}
    BY DEF Copies
  <2>3. \A m \in Updates : m.agent = b => m.view \in Copies(b) \cup {None}
    BY DEF Copies
  <2>4. \A m \in Updates' : m.agent = b => m.view \in Copies(b) \cup {None}
    BY <1>2, <1>3, <1>4, <2>2, <2>3
  <2>5. \A m \in Snapshots' : m.views[b] \in Copies(b) \cup {None}
    BY <1>3 DEF Copies
  <2>6. views[b] \in Copies(b) \cup {None} /\ agents[b] \in Copies(b) \cup {None}
    BY DEF Copies
  <2> QED
    BY <1>4, <2>1, <2>2, <2>4, <2>5, <2>6
<1>6. CopiesOrdered'
  BY <1>3, <1>4, <1>5 DEF OrderInv, CopiesOrdered
<1>7. EnvelopesExact'
  BY <1>2, <1>3, <1>4 DEF OrderInv, EnvelopesExact
<1>8. HubBound' /\ PublishedBound'
  BY <1>1, <1>3, <1>4, HubUnmoved
<1> QED
  BY <1>6, <1>7, <1>8 DEF OrderInv

(* The same records, whatever their attempts. *)
SameRecords ==
  \A r \in outbox' : \E q \in outbox :
    r.agent = q.agent /\ r.view = q.view /\ r.revision = q.revision

(* Steps that leave the hub alone and neither commit nor send. *)
LEMMA QuietSteps ==
  ASSUME TypeInv, TypeInv', OrderInv, UNCHANGED hubVars, InFlight' \subseteq InFlight,
         revision <= revision', SameRecords,
         \A a \in Agents : views'[a] \in {views[a], None}
  PROVE  OrderInv'
<1>1. \A a \in Agents : agents'[a] \in Copies(a) \cup {None}
  BY DEF hubVars, Copies
<1>2. Snapshots' \subseteq Snapshots
  BY DEF Snapshots
<1> QED
  BY <1>1, <1>2, QuietOrder, HubUnmoved DEF OrderInv, SameRecords

(* Every other step of the daemon and of the network. *)
LEMMA DaemonOrder ==
  ASSUME TypeInv, TypeInv', OrderInv,
         \/ CommitPrivate \/ SnapshotNotSent \/ hub_snapshot_delivered \/ process_outbox_once
         \/ \E r \in batch : HoldRecord(r) \/ RecordAnswered(r)
         \/ \E r \in outbox : BackoffEnds(r)
         \/ RequestFails \/ RequestTimesOut \/ Restart
  PROVE  OrderInv'
<1> USE DEF daemonVars, workerVars
<1>0. /\ revision \in Nat /\ outbox \subseteq OutboxRecord /\ batch \subseteq outbox
      /\ None \notin DeliveryOutcome
  BY NoneAssumption DEF TypeInv, TypeOK
<1>1. UNCHANGED hubVars
  BY DEF CommitPrivate, SnapshotNotSent, hub_snapshot_delivered, process_outbox_once, HoldRecord,
     RecordAnswered, BackoffEnds, RequestFails, RequestTimesOut, Restart
<1>2. InFlight' \subseteq InFlight
  <2>1. CASE CommitPrivate \/ SnapshotNotSent \/ process_outbox_once
             \/ (\E r \in batch : HoldRecord(r)) \/ \E r \in outbox : BackoffEnds(r)
    BY <2>1 DEF CommitPrivate, SnapshotNotSent, process_outbox_once, HoldRecord, BackoffEnds,
       InFlight
  <2>2. CASE hub_snapshot_delivered \/ \E r \in batch : RecordAnswered(r)
    BY <2>2 DEF hub_snapshot_delivered, RecordAnswered, InFlight
  <2>3. CASE RequestFails \/ RequestTimesOut \/ Restart
    BY <1>0, <2>3 DEF RequestFails, RequestTimesOut, Restart, InFlight, DeliveryOutcome
  <2> QED
    BY <2>1, <2>2, <2>3
<1>3. revision <= revision'
  BY <1>0 DEF CommitPrivate, SnapshotNotSent, hub_snapshot_delivered, process_outbox_once,
     HoldRecord, RecordAnswered, BackoffEnds, RequestFails, RequestTimesOut, Restart, next_revision
<1>4. \A a \in Agents : views'[a] \in {views[a], None}
  BY DEF CommitPrivate, SnapshotNotSent, hub_snapshot_delivered, process_outbox_once, HoldRecord,
     RecordAnswered, BackoffEnds, RequestFails, RequestTimesOut, Restart
<1>5. SameRecords
  <2>1. ASSUME outbox' \subseteq outbox PROVE SameRecords
    BY <2>1 DEF SameRecords
  <2>2. ASSUME NEW r \in outbox, retry(r) \/ outbox' = (outbox \ {r}) \cup {[r EXCEPT !.due = TRUE]}
        PROVE  SameRecords
    <3> DEFINE again == [r EXCEPT !.due = TRUE]
               later == [r EXCEPT !.attempts = @ + 1, !.due = FALSE]
    <3>1. again.agent = r.agent /\ again.view = r.view /\ again.revision = r.revision
      BY <1>0 DEF OutboxRecord
    <3>2. later.agent = r.agent /\ later.view = r.view /\ later.revision = r.revision
      BY <1>0 DEF OutboxRecord
    <3>3. outbox' \subseteq outbox \cup {again, later}
      BY <2>2 DEF retry
    <3> HIDE DEF again, later
    <3> QED
      BY <3>1, <3>2, <3>3 DEF SameRecords
  <2>3. CASE \E r \in batch : RecordAnswered(r)
    BY <1>0, <2>1, <2>2, <2>3 DEF RecordAnswered, acknowledge
  <2>4. CASE \E r \in outbox : BackoffEnds(r)
    BY <2>2, <2>4, SMTT(20) DEF BackoffEnds
  <2>5. CASE \/ CommitPrivate \/ SnapshotNotSent \/ hub_snapshot_delivered \/ process_outbox_once
             \/ \E r \in batch : HoldRecord(r)
             \/ RequestFails \/ RequestTimesOut \/ Restart
    BY <2>1, <2>5, Zenon DEF CommitPrivate, SnapshotNotSent, hub_snapshot_delivered,
       process_outbox_once, HoldRecord, RequestFails, RequestTimesOut, Restart
  <2> QED
    BY <2>3, <2>4, <2>5
<1> QED
  BY <1>1, <1>2, <1>3, <1>4, <1>5, QuietSteps

(* The hub reads a request, or deletes views, tombstones or all it has. *)
LEMMA HubOrder ==
  ASSUME TypeInv, TypeInv', OrderInv,
         \/ HubReceive \/ \E m \in late : HubReceiveLate(m)
         \/ \E a \in Agents : forget(a)
         \/ prune_retained \/ HubWiped
  PROVE  OrderInv'
<1> USE DEF daemonVars, workerVars
<1>0. /\ revision \in Nat /\ agents \in ViewTable /\ published \subseteq Nat
      /\ None \notin DeliveryOutcome
  BY NoneAssumption, Zenon DEF TypeInv, TypeOK
<1>1. UNCHANGED <<revision, views, outbox>> /\ SameRecords
  BY Zenon DEF HubReceive, HubReceiveLate, forget, prune_retained, HubWiped, SameRecords
<1>2. InFlight' \subseteq InFlight
  <2>1. CASE HubReceive
    BY <1>0, <2>1, OutcomeType, Zenon DEF HubReceive, InFlight
  <2>2. CASE (\E m \in late : HubReceiveLate(m)) \/ (\E a \in Agents : forget(a)) \/ prune_retained
    BY <2>2, Zenon DEF HubReceiveLate, forget, prune_retained, InFlight
  <2>3. CASE HubWiped
    BY <1>0, <2>3 DEF HubWiped, InFlight, DeliveryOutcome
  <2> QED
    BY <2>1, <2>2, <2>3
<1>3. ASSUME NEW m \in InFlight, handle_ingest(m) PROVE OrderInv'
  <2>1. HubBound' /\ PublishedBound' /\ \A a \in Agents : agents'[a] \in Copies(a) \cup {None}
    BY <1>1, <1>2, <1>3, IngestOrder
  <2>2. revision <= revision' /\ \A a \in Agents : views'[a] \in {views[a], None}
    BY <1>0, <1>1
  <2>3. CopiesOrdered' /\ EnvelopesExact'
    BY <1>1, <1>2, <2>1, <2>2, QuietOrder DEF SameRecords
  <2> QED
    BY <2>1, <2>3 DEF OrderInv
<1>4. CASE HubReceive \/ \E m \in late : HubReceiveLate(m)
  BY <1>3, <1>4 DEF HubReceive, HubReceiveLate, InFlight
<1>5. ASSUME \A a \in Agents : agents'[a] \in {agents[a], None}, HubBound', PublishedBound'
      PROVE  OrderInv'
  <2>1. \A a \in Agents : agents'[a] \in Copies(a) \cup {None}
    BY <1>5 DEF Copies
  <2>2. revision <= revision' /\ \A a \in Agents : views'[a] \in {views[a], None}
    BY <1>0, <1>1
  <2>3. CopiesOrdered' /\ EnvelopesExact'
    BY <1>1, <1>2, <2>1, <2>2, QuietOrder DEF SameRecords
  <2> QED
    BY <1>5, <2>3 DEF OrderInv
<1>6. Snapshots' \subseteq Snapshots
  BY <1>2 DEF Snapshots
<1>7. ASSUME NEW a \in Agents, forget(a) PROVE OrderInv'
  <2>1. \A b \in Agents : agents'[b] \in {agents[b], None}
    BY <1>0, <1>7 DEF forget, ViewTable
  <2>2. UNCHANGED <<source_revision, published>>
    BY <1>7 DEF forget
  <2>3. HubBound' /\ PublishedBound'
    BY <1>1, <1>6, <2>1, <2>2 DEF OrderInv, HubBound, PublishedBound
  <2> QED
    BY <1>5, <2>1, <2>3
<1>8. CASE prune_retained
  <2>1. \A b \in Agents : agents'[b] \in {agents[b], None}
    BY <1>0, <1>8 DEF prune_retained, ViewTable
  <2>2. /\ source_revision' = IF agents' = NoViews THEN None ELSE source_revision
        /\ UNCHANGED published
    BY <1>8, Zenon DEF prune_retained
  <2>3. Snapshots' = {}
    BY <1>6, <1>8 DEF prune_retained, Snapshots, InFlight
  <2>4. HubBound'
    BY <2>1, <2>2 DEF OrderInv, HubBound, NoViews
  <2>5. PublishedBound'
    BY <1>1, <2>2, <2>3 DEF OrderInv, PublishedBound
  <2> QED
    BY <1>5, <2>1, <2>4, <2>5
<1>9. CASE HubWiped
  <2>1. /\ \A b \in Agents : agents'[b] = None
        /\ source_revision' = None /\ UNCHANGED published
    BY <1>9 DEF HubWiped, NoViews
  <2>2. InFlight' = {}
    BY <1>0, <1>9 DEF HubWiped, InFlight, DeliveryOutcome
  <2>3. HubBound' /\ PublishedBound'
    BY <1>1, <2>1, <2>2 DEF OrderInv, HubBound, PublishedBound, Snapshots
  <2> QED
    BY <1>5, <2>1, <2>3
<1> QED
  BY <1>4, <1>7, <1>8, <1>9

(* OrderInv is inductive. *)
LEMMA NextOrder == TypeInv /\ TypeInv' /\ OrderInv /\ [Next]_vars => OrderInv'
<1> SUFFICES ASSUME TypeInv, TypeInv', OrderInv, [Next]_vars PROVE OrderInv'
  OBVIOUS
<1>1. CASE UNCHANGED vars
  <2>1. UNCHANGED hubVars /\ InFlight' = InFlight /\ SameRecords /\ UNCHANGED <<revision, views>>
    BY <1>1 DEF vars, daemonVars, workerVars, InFlight, SameRecords
  <2>2. revision \in Nat
    BY DEF TypeInv, TypeOK
  <2> QED
    BY <2>1, <2>2, QuietSteps
<1>2. CASE Next
  BY <1>2, CommitOrder, SnapshotOrder, DeliverOrder, DaemonOrder, HubOrder DEF Next, WorkerNext
<1> QED
  BY <1>1, <1>2

(* Nothing is in flight and there are no views. *)
LEMMA InitOrder == Init => OrderInv
<1> SUFFICES ASSUME Init PROVE OrderInv
  OBVIOUS
<1>1. InFlight = {} /\ Snapshots = {} /\ Updates = {}
  BY DEF Init, InFlight, Snapshots, Updates
<1>2. \A a \in Agents : Copies(a) = {}
  BY <1>1 DEF Init, NoViews, Copies
<1> QED
  BY <1>1, <1>2 DEF Init, NoViews, OrderInv, CopiesOrdered, EnvelopesExact, HubBound, PublishedBound

(* The order between the source, what is queued or in flight, and the hub     *)
(* holds in every state.                                                      *)
THEOREM OrderInvariant == Spec => [](TypeInv /\ OrderInv)
BY InitTypes, NextTypes, InitOrder, NextOrder, PTL DEF Spec

(* What a step does to the views the hub holds and the revisions it accepts. *)
LEMMA HubStep ==
  ASSUME TypeInv, OrderInv, [Next]_vars
  PROVE  /\ \A a \in Agents : agents[a] # None /\ agents'[a] # None
              => agents'[a].version >= agents[a].version
         /\ \A r \in accepted' \ accepted : r \notin published
<1> USE DEF daemonVars, workerVars, hubVars
<1>0. agents \in ViewTable /\ \A a \in Agents : agents[a] # None => agents[a].version \in Nat
  BY DEF TypeInv, TypeOK, ViewTable, View
<1>1. CASE HubReceive \/ \E m \in late : HubReceiveLate(m)
  <2>1. PICK m \in InFlight : handle_ingest(m)
    BY <1>1 DEF HubReceive, HubReceiveLate, InFlight
  <2>2. InFlight' \subseteq InFlight /\ UNCHANGED revision
    <3>1. None \notin DeliveryOutcome
      BY NoneAssumption
    <3> QED
      BY <1>1, <3>1, OutcomeType DEF HubReceive, HubReceiveLate, InFlight, TypeInv, TypeOK
  <2> QED
    BY <2>1, <2>2, IngestOrder
<1>2. CASE UNCHANGED <<agents, accepted>>
  BY <1>0, <1>2
<1>3. ASSUME NEW a \in Agents, forget(a)
      PROVE  accepted' = accepted /\ \A b \in Agents : agents'[b] \in {agents[b], None}
  BY <1>0, <1>3 DEF forget, ViewTable
<1>4. CASE prune_retained
  BY <1>0, <1>4 DEF prune_retained, ViewTable
<1>5. CASE HubWiped
  BY <1>5 DEF HubWiped, NoViews
<1>6. CASE (\E a \in Agents : Commit(a)) \/ CommitPrivate \/ WorkerNext
           \/ (\E r \in outbox : BackoffEnds(r)) \/ RequestFails \/ RequestTimesOut \/ Restart
  <2>1. UNCHANGED hubVars
    BY <1>6, Zenon DEF Commit, CommitPrivate, WorkerNext, BackoffEnds, RequestFails,
       RequestTimesOut, Restart, deliver_snapshots, SnapshotNotSent, hub_snapshot_delivered, process_outbox_once,
       HoldRecord, DeliverRecord, RecordAnswered
  <2> QED
    BY <1>2, <2>1
<1>7. CASE UNCHANGED vars
  BY <1>2, <1>7 DEF vars
<1>8. CASE \E a \in Agents : forget(a)
  BY <1>0, <1>3, <1>8
<1> QED
  BY <1>1, <1>4, <1>5, <1>6, <1>7, <1>8 DEF Next

(* The hub never replaces a view by an older one (HubNeverRegresses), however *)
(* many agents, retries, late requests, restarts and hub wipes there are.     *)
THEOREM NeverRegresses == Spec => HubNeverRegresses
<1>1. TypeInv /\ OrderInv /\ [Next]_vars =>
        [\A a \in Agents :
           agents[a] # None /\ agents'[a] # None => agents'[a].version >= agents[a].version]_vars
  BY HubStep
<1> QED
  BY <1>1, OrderInvariant, PTL DEF Spec, HubNeverRegresses

(* No update is accepted for publication twice (PublishedOnce), even across a *)
(* pruned delivery identity or a wiped hub.                                   *)
THEOREM NeverPublishedTwice == Spec => PublishedOnce
<1>1. TypeInv /\ OrderInv /\ [Next]_vars =>
        [\A r \in accepted' \ accepted : r \notin published]_vars
  BY HubStep
<1> QED
  BY <1>1, OrderInvariant, PTL DEF Spec, PublishedOnce

(* Ingestion leaves a forgotten agent out, by update or by snapshot. *)
LEMMA IngestForgotten ==
  ASSUME TypeInv, ForgottenStaysAway, NEW m \in SourceEnvelope, handle_ingest(m)
  PROVE  ForgottenStaysAway'
<1>0. forgotten \subseteq Agents /\ agents \in ViewTable
  BY DEF TypeInv, TypeOK
<1>1. CASE UNCHANGED hubVars
  BY <1>1 DEF hubVars, ForgottenStaysAway
<1>2. CASE ingest_snapshot(m) /\ ~ StaleSnapshot(m)
  BY <1>0, <1>2 DEF ingest_snapshot, ForgottenStaysAway
<1>3. CASE ingest_update(m) /\ NewUpdate(m)
  <2>1. /\ UNCHANGED forgotten
        /\ UNCHANGED agents \/ (m.agent \notin forgotten
                               /\ agents' = [agents EXCEPT ![m.agent] = m.view])
    BY <1>3 DEF ingest_update
  <2> QED
    BY <1>0, <2>1 DEF ForgottenStaysAway, ViewTable
<1> QED
  BY <1>1, <1>2, <1>3 DEF handle_ingest, ingest_snapshot, ingest_update

(* A tombstone holds against every delivery path (ForgottenStaysAway). *)
THEOREM ForgottenAgentsStayAway == Spec => []ForgottenStaysAway
<1>1. Init => ForgottenStaysAway
  BY DEF Init, ForgottenStaysAway
<1>2. TypeInv /\ ForgottenStaysAway /\ [Next]_vars => ForgottenStaysAway'
  <2> SUFFICES ASSUME TypeInv, ForgottenStaysAway, [Next]_vars PROVE ForgottenStaysAway'
    OBVIOUS
  <2> USE DEF daemonVars, workerVars, hubVars
  <2>0. forgotten \subseteq Agents /\ agents \in ViewTable
    BY DEF TypeInv, TypeOK
  <2>1. CASE HubReceive
    BY <2>1, IngestForgotten DEF HubReceive, TypeInv, TypeOK
  <2>2. CASE \E m \in late : HubReceiveLate(m)
    BY <2>2, IngestForgotten DEF HubReceiveLate, TypeInv, TypeOK
  <2>3. ASSUME NEW a \in Agents, forget(a) PROVE ForgottenStaysAway'
    BY <2>0, <2>3 DEF forget, ForgottenStaysAway, ViewTable
  <2>4. CASE prune_retained
    BY <2>0, <2>4 DEF prune_retained, ForgottenStaysAway
  <2>5. CASE HubWiped
    BY <2>5 DEF HubWiped, ForgottenStaysAway
  <2>6. ASSUME UNCHANGED hubVars PROVE ForgottenStaysAway'
    BY <2>6 DEF ForgottenStaysAway
  <2>7. CASE (\E a \in Agents : Commit(a)) \/ CommitPrivate \/ WorkerNext
             \/ (\E r \in outbox : BackoffEnds(r)) \/ RequestFails \/ RequestTimesOut \/ Restart
    BY <2>6, <2>7, Zenon DEF Commit, CommitPrivate, WorkerNext, BackoffEnds, RequestFails,
       RequestTimesOut, Restart, deliver_snapshots, SnapshotNotSent, hub_snapshot_delivered,
       process_outbox_once, HoldRecord, DeliverRecord, RecordAnswered
  <2>8. CASE UNCHANGED vars
    BY <2>6, <2>8 DEF vars
  <2> QED
    BY <2>1, <2>2, <2>3, <2>4, <2>5, <2>7, <2>8 DEF Next
<1> QED
  BY <1>1, <1>2, OrderInvariant, PTL DEF Spec
=============================================================================
