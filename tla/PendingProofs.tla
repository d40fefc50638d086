---------------------------- MODULE PendingProofs ----------------------------
(***************************************************************************)
(* No public change is lost between the source and the hub, and a recorded *)
(* baseline is exact, for every set of agents, outbox size, batch, retry   *)
(* limit and bound on failures.                                            *)
(*                                                                         *)
(* That the newest change is pending is not inductive: it takes what an    *)
(* acknowledgement says of the hub, that a snapshot awaited covers every   *)
(* change that is not queued, and that no old snapshot is under way once   *)
(* the hub has lost its row of the source and none is due.                 *)
(***************************************************************************)
EXTENDS DeliveryProofs

(* Without a snapshot due and without a row at the hub, none is under way. *)
NoOldSnapshot == baseline # None /\ source_revision = None => Snapshots = {}

(* What the worker reads as acknowledged the hub has. *)
AckIsStored == request # None /\ answer = "Ack" => HubHas(request.revision)

(* An accepted delivery is covered by source_revision or, while the hub has   *)
(* no row of the source, by every snapshot that could make one.               *)
AcceptedBound ==
  \A p \in accepted :
    /\ p <= revision
    /\ source_revision # None => p <= source_revision
    /\ source_revision = None => \A m \in Snapshots : p <= m.revision

(* The worker awaits nothing between its loops, and in the record loop the    *)
(* request of the first record of its batch.                                  *)
RequestIsFirst ==
  /\ worker \in {"snapshots", "outbox"} => request = None
  /\ worker = "records" /\ request # None =>
       \A r \in batch : First(r) => r.revision = request.revision

Queued(v) == skipped >= v \/ \E r \in outbox : r.revision = v

(* What the awaited snapshot does not cover is queued. *)
AwaitedCovers ==
  worker = "awaiting_snapshot" =>
    /\ request # None
    /\ \A a \in Agents :
         views[a] # None /\ views[a].version > request.revision => Queued(views[a].version)

(* Every view, not the newest alone, has reached the hub or will. *)
ViewsPending ==
  \A a \in Agents :
    views[a] # None =>
      RepairDue \/ HubHas(views[a].version) \/ Queued(views[a].version)

HubInv == NoOldSnapshot /\ AckIsStored /\ AcceptedBound
QueueInv == RequestIsFirst /\ AwaitedCovers /\ ViewsPending /\ skipped <= revision

PendInv == HubInv /\ QueueInv

-----------------------------------------------------------------------------
(* Facts used by several actions. *)

(* The types the arithmetic needs. *)
LEMMA Counters ==
  ASSUME TypeInv
  PROVE  revision \in Nat /\ skipped \in Nat
BY DEF TypeInv, TypeOK

LEMMA Numbers ==
  ASSUME TypeInv
  PROVE  /\ revision \in Nat /\ skipped \in Nat /\ source_revision \in Nat \cup {None}
         /\ baseline \in Nat \cup {None} /\ accepted \subseteq Nat
         /\ None \notin Nat
         /\ \A a \in Agents : views[a] # None => views[a].version \in Nat
         /\ \A r \in outbox : r.revision \in Nat
         /\ request # None => request \in SourceEnvelope /\ request.revision \in Nat
<1>1. request # None => request \in SourceEnvelope
  BY DEF TypeInv, TypeOK
<1>2. request # None => request.revision \in Nat
  BY <1>1 DEF SourceEnvelope, UpdateEnvelope, SnapshotEnvelope
<1> QED
  BY <1>1, <1>2, DeliveryAssumption DEF TypeInv, TypeOK, ViewTable, View, OutboxRecord

(* A step that leaves the hub alone and puts no older snapshot under way. *)
LEMMA HubUntouched ==
  ASSUME TypeInv, TypeInv', HubInv, UNCHANGED <<source_revision, accepted>>,
         \A m \in Snapshots' : m \in Snapshots \/ (m.revision = revision /\ baseline' = None),
         revision <= revision',
         baseline' \in {baseline, None} \/ source_revision # None,
         answer' = "Ack" => request' = request /\ answer = "Ack"
  PROVE  HubInv'
<1>1. NoOldSnapshot'
  BY DEF HubInv, NoOldSnapshot
<1>2. AckIsStored'
  BY DEF HubInv, AckIsStored, HubHas
<1>3. AcceptedBound'
  BY Numbers DEF HubInv, AcceptedBound, TypeInv, TypeOK
<1> QED
  BY <1>1, <1>2, <1>3 DEF HubInv

(* A step that only moves the queue on: rows keep their revision, the hub     *)
(* keeps what it has or loses its row, and no view appears.                   *)
LEMMA QueueUntouched ==
  ASSUME TypeInv, QueueInv, revision' = revision, skipped' = skipped,
         \A a \in Agents : views'[a] \in {views[a], None},
         \A r \in outbox : \E q \in outbox' : q.revision = r.revision,
         source_revision' # None => \/ baseline' = None
                                    \/ /\ baseline # None /\ source_revision # None
                                       /\ source_revision' >= source_revision,
         source_revision' \in Nat \cup {None}
  PROVE  ViewsPending' /\ skipped' <= revision'
<1>1. ASSUME NEW a \in Agents, views'[a] # None
      PROVE  RepairDue' \/ HubHas(views[a].version)' \/ Queued(views[a].version)'
  <2>1. views'[a] = views[a] /\ views[a] # None
    BY <1>1
  <2>2. CASE source_revision' = None \/ baseline' = None
    BY <2>2 DEF RepairDue
  <2>3. CASE source_revision' # None /\ baseline' # None
    <3>1. /\ baseline # None /\ source_revision # None /\ source_revision' >= source_revision
          /\ source_revision' \in Nat /\ source_revision \in Nat /\ views[a].version \in Nat
      BY <2>1, <2>3, Numbers
    <3>2. HubHas(views[a].version) \/ Queued(views[a].version)
      BY <2>1, <3>1 DEF QueueInv, ViewsPending, RepairDue
    <3> QED
      BY <2>1, <2>3, <3>1, <3>2 DEF HubHas, Queued
  <2> QED
    BY <2>2, <2>3
<1> QED
  BY <1>1 DEF ViewsPending, QueueInv

-----------------------------------------------------------------------------
(* The daemon commits. *)

(* A committed view is queued or skipped, and nothing that was leaves. *)
LEMMA CommitPending ==
  ASSUME TypeInv, TypeInv', PendInv, (\E a \in Agents : Commit(a)) \/ CommitPrivate
  PROVE  PendInv'
<1> USE DEF workerVars, hubVars
<1>1. /\ revision' = revision + 1
      /\ UNCHANGED <<baseline, worker, batch, request, answer, late, source_revision, accepted>>
  BY DEF Commit, CommitPrivate, next_revision
<1>2. Snapshots' = Snapshots
  BY <1>1 DEF Snapshots, InFlight
<1>3. HubInv'
  BY <1>1, <1>2, HubUntouched, Counters DEF PendInv
<1>4. /\ outbox \subseteq outbox' /\ skipped' >= skipped /\ skipped' <= revision'
      /\ \A a \in Agents : \/ views'[a] = views[a]
                           \/ views'[a] # None /\ Queued(views[a].version)'
  <2>1. CASE CommitPrivate
    BY <1>1, <2>1, Counters DEF CommitPrivate, PendInv, QueueInv
  <2>2. ASSUME NEW b \in Agents, Commit(b)
        PROVE  /\ outbox \subseteq outbox' /\ skipped' >= skipped /\ skipped' <= revision'
               /\ \A a \in Agents : \/ views'[a] = views[a]
                                    \/ views'[a] # None /\ Queued(views[a].version)'
    <3>1. PICK status \in Statuses :
            /\ views' = [views EXCEPT ![b] = [version |-> revision + 1, status |-> status]]
            /\ enqueue_transition(b, [version |-> revision + 1, status |-> status])
      BY <2>2, Zenon DEF Commit
    <3> DEFINE view == [version |-> revision + 1, status |-> status]
    <3>2. view.version = revision + 1 /\ view \in View
      BY Counters DEF View
    <3>3. views' = [views EXCEPT ![b] = view] /\ enqueue_transition(b, view)
      BY <3>1
    <3> HIDE DEF view
    <3> DEFINE row == [revision |-> view.version, agent |-> b, view |-> view,
                       attempts |-> 0, due |-> TRUE]
    <3>4. row.revision = view.version
      OBVIOUS
    <3>5. \/ outbox' = outbox \cup {row} /\ skipped' = skipped
          \/ outbox' = outbox /\ skipped' = revision + 1
      BY <3>2, <3>3 DEF enqueue_transition
    <3> HIDE DEF row
    <3>6. skipped' >= view.version \/ \E r \in outbox' : r.revision = view.version
      BY <3>2, <3>5, <3>4, Numbers
    <3>7. views \in ViewTable /\ view # None
      BY <3>2, NoneFacts DEF TypeInv, TypeOK
    <3>8. views'[b] = view /\ \A a \in Agents \ {b} : views'[a] = views[a]
      BY <3>3, <3>7 DEF ViewTable
    <3>9. \A a \in Agents : \/ views'[a] = views[a]
                            \/ views'[a] # None /\ Queued(views[a].version)'
      BY <3>6, <3>7, <3>8 DEF Queued
    <3> QED
      BY <1>1, <3>5, <3>9, Counters DEF PendInv, QueueInv
  <2> QED
    BY <2>1, <2>2
<1>5. ASSUME NEW v \in Nat, Queued(v) PROVE Queued(v)'
  BY <1>4, <1>5, Numbers DEF Queued, TypeInv, TypeOK
<1>6. RequestIsFirst'
  BY <1>1 DEF PendInv, QueueInv, RequestIsFirst, First
<1>7. AwaitedCovers'
  BY <1>1, <1>4, <1>5, Numbers DEF PendInv, QueueInv, AwaitedCovers
<1>8. ViewsPending'
  BY <1>1, <1>4, <1>5, Numbers DEF PendInv, QueueInv, ViewsPending, RepairDue, HubHas
<1> QED
  BY <1>3, <1>4, <1>6, <1>7, <1>8 DEF PendInv, QueueInv

-----------------------------------------------------------------------------
(* The worker. *)

(* A snapshot is sent with the current revision, which covers every view. *)
LEMMA SnapshotPending ==
  ASSUME TypeInv, TypeInv', OrderInv, PendInv, deliver_snapshots
  PROVE  PendInv'
<1> USE DEF daemonVars, hubVars
<1> DEFINE m == [kind |-> "snapshot", revision |-> revision, views |-> views]
<1>1. /\ request' = m /\ answer' = None /\ worker' = "awaiting_snapshot" /\ baseline = None
      /\ UNCHANGED <<daemonVars, batch, late, hubVars>>
  BY DEF deliver_snapshots, Send
<1>2. m.revision = revision
  OBVIOUS
<1> HIDE DEF m
<1>3. \A s \in Snapshots' : s \in Snapshots \/ s.revision = revision
  BY <1>1, <1>2 DEF Snapshots, InFlight
<1>4. HubInv'
  BY <1>1, <1>3, HubUntouched, Counters, NoneFacts DEF PendInv, DeliveryOutcome
<1>5. \A a \in Agents : views[a] # None => views[a].version <= revision
  BY DEF OrderInv, CopiesOrdered, Copies
<1>6. request' # None
  BY <1>1, Numbers, NoneAssumption DEF m, SnapshotEnvelope, TypeInv, TypeOK
<1>7. AwaitedCovers'
  BY <1>1, <1>2, <1>5, <1>6, Numbers DEF AwaitedCovers
<1>8. RequestIsFirst'
  BY <1>1 DEF RequestIsFirst
<1>9. ViewsPending' /\ skipped' <= revision'
  BY <1>1 DEF ViewsPending, RepairDue, PendInv, QueueInv
<1> QED
  BY <1>4, <1>7, <1>8, <1>9 DEF PendInv, QueueInv

(* An acknowledged snapshot is at the hub, and what it drops it covers. *)
LEMMA DeliveredPending ==
  ASSUME TypeInv, TypeInv', PendInv, hub_snapshot_delivered
  PROVE  PendInv'
<1> USE DEF hubVars
<1>1. /\ worker = "awaiting_snapshot" /\ request # None
      /\ request' = None /\ answer' = None /\ worker' = "outbox"
      /\ UNCHANGED <<revision, views, skipped, batch, late, source_revision, accepted>>
  BY DEF hub_snapshot_delivered, Answered
<1>2. Snapshots' \subseteq Snapshots
  BY <1>1 DEF Snapshots, InFlight
<1>3. answer = "Ack" => HubHas(request.revision)
  BY <1>1 DEF PendInv, HubInv, AckIsStored
<1>4. baseline' \in {baseline, None} \/ source_revision # None
  BY <1>3 DEF hub_snapshot_delivered, HubHas
<1>5. HubInv'
  BY <1>1, <1>2, <1>4, HubUntouched, Counters, NoneFacts DEF PendInv, DeliveryOutcome
<1>6. RequestIsFirst' /\ AwaitedCovers' /\ skipped' <= revision'
  BY <1>1 DEF RequestIsFirst, AwaitedCovers, PendInv, QueueInv
<1>7. ViewsPending'
  <2>1. CASE answer # "Ack"
    BY <1>1, <2>1 DEF hub_snapshot_delivered, PendInv, QueueInv, ViewsPending, RepairDue, HubHas,
       Queued
  <2>2. CASE answer = "Ack"
    <3>1. outbox' = {r \in outbox : r.revision > request.revision}
      BY <2>2 DEF hub_snapshot_delivered
    <3>2. ASSUME NEW a \in Agents, views[a] # None
          PROVE  HubHas(views[a].version) \/ Queued(views[a].version)'
      <4>1. views[a].version \in Nat /\ request.revision \in Nat
        BY <1>1, <3>2, Numbers
      <4>2. CASE views[a].version <= request.revision
        BY <1>3, <2>2, <4>1, <4>2, Numbers DEF HubHas
      <4>3. CASE views[a].version > request.revision
        <5>1. Queued(views[a].version)
          BY <1>1, <3>2, <4>3 DEF PendInv, QueueInv, AwaitedCovers
        <5> QED
          BY <1>1, <3>1, <4>3, <5>1 DEF Queued
      <4> QED
        BY <4>1, <4>2, <4>3
    <3> QED
      BY <1>1, <3>2 DEF ViewsPending, HubHas
  <2> QED
    BY <2>1, <2>2
<1> QED
  BY <1>5, <1>6, <1>7 DEF PendInv, QueueInv

(* Loading a batch, holding a record and sending one. *)
LEMMA LoopPending ==
  ASSUME TypeInv, TypeInv', PendInv,
         \/ SnapshotNotSent \/ process_outbox_once
         \/ \E r \in batch : HoldRecord(r) \/ DeliverRecord(r)
  PROVE  PendInv'
<1> USE DEF daemonVars, hubVars
<1>1. /\ UNCHANGED <<revision, views, outbox, skipped, baseline, late, source_revision, accepted>>
      /\ worker' # "awaiting_snapshot"
  BY Zenon DEF SnapshotNotSent, process_outbox_once, HoldRecord, DeliverRecord, Handled
<1>2. AwaitedCovers' /\ ViewsPending' /\ skipped' <= revision'
  BY <1>1 DEF AwaitedCovers, ViewsPending, RepairDue, HubHas, Queued, PendInv, QueueInv
<1>3. CASE SnapshotNotSent \/ process_outbox_once \/ \E r \in batch : HoldRecord(r)
  <2>1. UNCHANGED <<request, answer>>
    BY <1>3 DEF SnapshotNotSent, process_outbox_once, HoldRecord
  <2>2. HubInv'
    BY <1>1, <2>1, HubUntouched, Counters DEF PendInv, Snapshots, InFlight
  <2>3. request' = None
    <3>1. worker \in {"snapshots", "outbox"} => request = None
      BY DEF PendInv, QueueInv, RequestIsFirst
    <3> QED
      BY <1>3, <2>1, <3>1 DEF SnapshotNotSent, process_outbox_once, HoldRecord
  <2> QED
    BY <1>2, <2>2, <2>3 DEF PendInv, QueueInv, RequestIsFirst
<1>4. ASSUME NEW r \in batch, DeliverRecord(r) PROVE PendInv'
  <2> DEFINE m == [kind |-> "update", revision |-> r.revision, agent |-> r.agent, view |-> r.view]
  <2>1. request' = m /\ answer' = None /\ First(r) /\ UNCHANGED batch
    BY <1>4 DEF DeliverRecord, Send
  <2>2. m.revision = r.revision /\ m.kind = "update"
    OBVIOUS
  <2> HIDE DEF m
  <2>3. Snapshots' \subseteq Snapshots
    BY <1>1, <2>1, <2>2 DEF Snapshots, InFlight
  <2>4. HubInv'
    BY <1>1, <2>1, <2>3, HubUntouched, Counters, NoneFacts DEF PendInv, DeliveryOutcome
  <2>5. \A q \in batch : q.revision \in Nat
    BY Numbers DEF TypeInv, TypeOK
  <2>6. \A q \in batch : First(q) => q.revision = r.revision
    BY <2>1, <2>5 DEF First
  <2>7. RequestIsFirst'
    BY <1>4, <2>1, <2>2, <2>6 DEF RequestIsFirst, First, DeliverRecord
  <2> QED
    BY <1>2, <2>4, <2>7 DEF PendInv, QueueInv
<1> QED
  BY <1>3, <1>4

(* A record leaves the outbox when the hub has its revision, or a snapshot is *)
(* due from then on.                                                          *)
LEMMA AnsweredPending ==
  ASSUME TypeInv, TypeInv', PendInv, NEW r \in batch, RecordAnswered(r)
  PROVE  PendInv'
<1> USE DEF hubVars
<1>1. /\ worker = "records" /\ request # None /\ First(r)
      /\ request' = None /\ answer' = None /\ worker' \in {"snapshots", "records"}
      /\ UNCHANGED <<revision, views, skipped, late, source_revision, accepted>>
      /\ baseline' \in {baseline, None}
  BY DEF RecordAnswered, Answered, Handled
<1>2. Snapshots' \subseteq Snapshots
  BY <1>1 DEF Snapshots, InFlight
<1>3. HubInv'
  BY <1>1, <1>2, HubUntouched, Counters, NoneFacts DEF PendInv, DeliveryOutcome
<1>4. RequestIsFirst' /\ AwaitedCovers' /\ skipped' <= revision'
  BY <1>1 DEF RequestIsFirst, AwaitedCovers, PendInv, QueueInv
<1>5. ViewsPending'
  <2>1. CASE baseline' = None
    BY <2>1 DEF ViewsPending, RepairDue
  <2>2. CASE answer = "Ack" /\ acknowledge(r) /\ UNCHANGED baseline
    <3>1. HubHas(r.revision)
      BY <1>1, <2>2 DEF PendInv, HubInv, AckIsStored, QueueInv, RequestIsFirst
    <3>2. ASSUME NEW a \in Agents, views[a] # None, Queued(views[a].version)
          PROVE  Queued(views[a].version)' \/ HubHas(views[a].version)
      BY <1>1, <2>2, <3>1, <3>2 DEF Queued, acknowledge
    <3> QED
      BY <1>1, <2>2, <3>2 DEF ViewsPending, PendInv, QueueInv, RepairDue, HubHas
  <2>3. CASE retry(r) /\ UNCHANGED baseline
    <3>1. \A q \in outbox : \E p \in outbox' : p.revision = q.revision
      <4>1. r \in OutboxRecord
        BY DEF TypeInv, TypeOK
      <4>2. [r EXCEPT !.attempts = @ + 1, !.due = FALSE].revision = r.revision
        BY <4>1 DEF OutboxRecord
      <4> QED
        BY <2>3, <4>2, Zenon DEF retry
    <3> QED
      BY <1>1, <2>3, <3>1 DEF ViewsPending, PendInv, QueueInv, RepairDue, HubHas, Queued
  <2> QED
    BY <2>1, <2>2, <2>3 DEF RecordAnswered
<1> QED
  BY <1>3, <1>4, <1>5 DEF PendInv, QueueInv

-----------------------------------------------------------------------------
(* The hub. *)

(* Ingestion never takes a revision back, stores what it acknowledges, and    *)
(* makes a row of the source only from a snapshot.                            *)
LEMMA IngestPending ==
  ASSUME TypeInv, TypeInv', OrderInv, PendInv, NEW m \in InFlight, handle_ingest(m),
         InFlight' \subseteq InFlight, UNCHANGED revision
  PROVE  /\ source_revision # None =>
              source_revision' # None /\ source_revision' >= source_revision
         /\ source_revision = None /\ source_revision' # None => m \in Snapshots
         /\ Outcome(m) = "Ack" => source_revision' # None /\ source_revision' >= m.revision
         /\ AcceptedBound'
<1>0. Snapshots' \subseteq Snapshots
  BY DEF Snapshots
<1>1. /\ revision \in Nat /\ accepted \subseteq Nat /\ source_revision \in Nat \cup {None}
      /\ None \notin Nat
  BY Numbers
<1>2. m \in SourceEnvelope /\ m.revision \in Nat /\ m.kind \in {"update", "snapshot"}
  BY FlightTypes DEF SourceEnvelope, UpdateEnvelope, SnapshotEnvelope
<1>3. \A p \in accepted :
        /\ p <= revision
        /\ source_revision # None => p <= source_revision
        /\ source_revision = None => \A s \in Snapshots : p <= s.revision
  BY DEF PendInv, HubInv, AcceptedBound
<1>4. CASE Rejected(m)
  <2>1. UNCHANGED <<source_revision, accepted>> /\ Outcome(m) # "Ack"
    BY <1>4 DEF handle_ingest, hubVars, Outcome
  <2> QED
    BY <1>0, <1>1, <1>3, <2>1 DEF AcceptedBound
<1>5. CASE ~ Rejected(m) /\ m.kind = "snapshot"
  <2>1. ingest_snapshot(m) /\ m \in Snapshots
    BY <1>5 DEF handle_ingest, Snapshots
  <2>2. CASE StaleSnapshot(m)
    <3>1. UNCHANGED <<source_revision, accepted>>
      BY <2>1, <2>2 DEF ingest_snapshot, hubVars
    <3>2. source_revision \in Nat /\ m.revision < source_revision
      BY <1>1, <2>2 DEF StaleSnapshot
    <3>3. AcceptedBound'
      BY <1>0, <1>1, <1>3, <3>1 DEF AcceptedBound
    <3> QED
      BY <1>1, <1>2, <3>1, <3>2, <3>3
  <2>3. CASE ~ StaleSnapshot(m)
    <3>1. source_revision' = m.revision /\ accepted' = accepted
      BY <2>1, <2>3 DEF ingest_snapshot
    <3>2. source_revision # None => source_revision <= m.revision
      BY <1>1, <1>2, <2>3 DEF StaleSnapshot
    <3>3. AcceptedBound'
      BY <1>1, <1>2, <1>3, <2>1, <3>1, <3>2 DEF AcceptedBound
    <3> QED
      BY <1>1, <1>2, <2>1, <3>1, <3>2, <3>3
  <2> QED
    BY <2>2, <2>3
<1>6. CASE ~ Rejected(m) /\ m.kind = "update"
  <2>1. ingest_update(m) /\ (Outcome(m) = "Ack" => source_revision # None)
    BY <1>6 DEF handle_ingest, Outcome
  <2>2. CASE ~ NewUpdate(m)
    <3>1. UNCHANGED <<source_revision, accepted>>
      BY <2>1, <2>2 DEF ingest_update, hubVars
    <3>2. source_revision # None => m.revision <= source_revision
      BY <1>1, <1>2, <1>3, <2>2 DEF NewUpdate
    <3>3. AcceptedBound'
      BY <1>0, <1>1, <1>3, <3>1 DEF AcceptedBound
    <3> QED
      BY <1>1, <1>2, <2>1, <3>1, <3>2, <3>3
  <2>3. CASE NewUpdate(m)
    <3>1. source_revision' = m.revision /\ accepted' = accepted \cup {m.revision}
      BY <2>1, <2>3 DEF ingest_update, record_delivery
    <3>2. source_revision \in Nat /\ m.revision > source_revision
      BY <1>1, <2>3 DEF NewUpdate
    <3>3. m.revision <= revision
      <4>1. m \in Updates /\ m \in UpdateEnvelope
        BY <1>6, FlightTypes DEF Updates
      <4>2. m.agent \in Agents /\ m.view \in View /\ m.view # None /\ m.view.version = m.revision
        BY <4>1, NoneFacts DEF UpdateEnvelope, OrderInv, EnvelopesExact
      <4>3. m.view \in Copies(m.agent)
        BY <4>1, <4>2 DEF Copies
      <4> QED
        BY <4>2, <4>3 DEF OrderInv, CopiesOrdered
    <3>4. AcceptedBound'
      BY <1>1, <1>2, <1>3, <3>1, <3>2, <3>3 DEF AcceptedBound
    <3> QED
      BY <1>1, <1>2, <3>1, <3>2, <3>4
  <2> QED
    BY <2>2, <2>3
<1> QED
  BY <1>2, <1>4, <1>5, <1>6

(* A request or a late one is ingested. *)
LEMMA ReceivePending ==
  ASSUME TypeInv, TypeInv', OrderInv, PendInv,
         HubReceive \/ \E m \in late : HubReceiveLate(m)
  PROVE  PendInv'
<1> USE DEF daemonVars, workerVars
<1>1. PICK m \in InFlight :
        /\ handle_ingest(m)
        /\ answer' = answer \/ (m = request /\ answer' = Outcome(m))
        /\ UNCHANGED <<daemonVars, worker, batch, request>>
        /\ InFlight' \subseteq InFlight
  <2>1. CASE HubReceive
    <3>1. request \in InFlight
      BY <2>1 DEF HubReceive, InFlight
    <3>2. InFlight' \subseteq InFlight
      BY <2>1 DEF HubReceive, InFlight
    <3> QED
      BY <2>1, <3>1, <3>2 DEF HubReceive
  <2>2. ASSUME NEW m \in late, HubReceiveLate(m)
        PROVE  /\ m \in InFlight /\ handle_ingest(m)
               /\ UNCHANGED <<daemonVars, worker, batch, request, answer>>
               /\ InFlight' \subseteq InFlight
    BY <2>2 DEF HubReceiveLate, InFlight
  <2> QED
    BY <2>1, <2>2
<1>2. /\ source_revision # None =>
           source_revision' # None /\ source_revision' >= source_revision
      /\ source_revision = None /\ source_revision' # None => m \in Snapshots
      /\ Outcome(m) = "Ack" => source_revision' # None /\ source_revision' >= m.revision
      /\ AcceptedBound'
  BY <1>1, IngestPending, Zenon
<1>3. source_revision' \in Nat \cup {None} /\ Snapshots' \subseteq Snapshots
  BY <1>1 DEF TypeInv, TypeOK, Snapshots
<1>4. NoOldSnapshot'
  BY <1>1, <1>2, <1>3 DEF PendInv, HubInv, NoOldSnapshot
<1>5. AckIsStored'
  BY <1>1, <1>2, <1>3, Numbers DEF PendInv, HubInv, AckIsStored, HubHas
<1>6. RequestIsFirst' /\ AwaitedCovers'
  BY <1>1 DEF PendInv, QueueInv, RequestIsFirst, First, AwaitedCovers, Queued
<1>7. source_revision' # None => \/ baseline' = None
                                 \/ /\ baseline # None /\ source_revision # None
                                    /\ source_revision' >= source_revision
  BY <1>1, <1>2 DEF PendInv, HubInv, NoOldSnapshot
<1>8. ViewsPending' /\ skipped' <= revision'
  <2>1. /\ revision' = revision /\ skipped' = skipped
        /\ \A a \in Agents : views'[a] \in {views[a], None}
        /\ \A r \in outbox : \E q \in outbox' : q.revision = r.revision
    BY <1>1
  <2> QED
    BY <1>3, <1>7, <2>1, QueueUntouched DEF PendInv
<1> QED
  BY <1>2, <1>4, <1>5, <1>6, <1>8 DEF PendInv, HubInv, QueueInv

-----------------------------------------------------------------------------
(* Time, the operator and faults. *)

(* A forgotten agent, an ended backoff and a failed request change no row of  *)
(* the source at the hub and nothing that is queued.                          *)
LEMMA PlainPending ==
  ASSUME TypeInv, TypeInv', PendInv,
         \/ \E a \in Agents : forget(a)
         \/ \E r \in outbox : BackoffEnds(r)
         \/ RequestFails \/ RequestTimesOut
  PROVE  PendInv'
<1> USE DEF daemonVars, workerVars, hubVars
<1>1. /\ UNCHANGED <<revision, views, skipped, baseline, worker, batch, request,
                     source_revision, accepted>>
      /\ answer' \in {answer, "Retry"}
  BY DEF forget, BackoffEnds, RequestFails, RequestTimesOut
<1>2. InFlight' \subseteq InFlight
  <2>1. CASE RequestTimesOut
    BY <2>1, NoneFacts DEF RequestTimesOut, InFlight, DeliveryOutcome
  <2>2. CASE RequestFails
    BY <2>2, NoneFacts DEF RequestFails, InFlight, DeliveryOutcome
  <2>3. CASE (\E a \in Agents : forget(a)) \/ \E r \in outbox : BackoffEnds(r)
    BY <2>3 DEF forget, BackoffEnds, InFlight
  <2> QED
    BY <2>1, <2>2, <2>3
<1>3. Snapshots' \subseteq Snapshots
  BY <1>2 DEF Snapshots
<1>4. HubInv'
  BY <1>1, <1>3, HubUntouched, Counters DEF PendInv
<1>5. \A r \in outbox : \E q \in outbox' : q.revision = r.revision
  <2>1. ASSUME NEW r \in outbox, BackoffEnds(r)
        PROVE  \A p \in outbox : \E q \in outbox' : q.revision = p.revision
    <3>1. r \in OutboxRecord
      BY DEF TypeInv, TypeOK
    <3>2. [r EXCEPT !.due = TRUE].revision = r.revision
      BY <3>1 DEF OutboxRecord
    <3> QED
      BY <2>1, <3>2, Zenon DEF BackoffEnds
  <2> QED
    BY <2>1 DEF forget, RequestFails, RequestTimesOut
<1>6. ASSUME NEW v, Queued(v) PROVE Queued(v)'
  BY <1>1, <1>5, <1>6 DEF Queued
<1>7. RequestIsFirst' /\ AwaitedCovers'
  BY <1>1, <1>6 DEF PendInv, QueueInv, RequestIsFirst, First, AwaitedCovers
<1>8. ViewsPending' /\ skipped' <= revision'
  BY <1>1, <1>6 DEF PendInv, QueueInv, ViewsPending, RepairDue, HubHas
<1> QED
  BY <1>4, <1>7, <1>8 DEF PendInv, QueueInv

(* A restarted daemon owes a snapshot; a hub that lost its row of the source  *)
(* has nothing of it under way.                                               *)
LEMMA FaultPending ==
  ASSUME TypeInv, TypeInv', PendInv, Restart \/ prune_retained \/ HubWiped
  PROVE  PendInv'
<1> USE DEF daemonVars, workerVars, hubVars
<1>1. CASE Restart
  <2>1. /\ baseline' = None /\ worker' = "snapshots" /\ request' = None /\ answer' = None
        /\ UNCHANGED <<revision, skipped, source_revision, accepted>>
    BY <1>1 DEF Restart
  <2>2. Snapshots' \subseteq Snapshots
    BY <1>1 DEF Restart, Snapshots, InFlight
  <2>3. HubInv'
    BY <2>1, <2>2, HubUntouched, Counters, NoneFacts DEF PendInv, DeliveryOutcome
  <2> QED
    BY <2>1, <2>3 DEF PendInv, QueueInv, RequestIsFirst, AwaitedCovers, ViewsPending, RepairDue
<1>2. CASE prune_retained \/ HubWiped
  <2>1. /\ UNCHANGED <<revision, views, outbox, skipped, baseline, worker, batch, request>>
        /\ accepted' \subseteq accepted
        /\ source_revision' \in {source_revision, None}
        /\ answer' = "Ack" => request' = None
        /\ InFlight' = {}
    <3>1. CASE prune_retained
      BY <1>2, <3>1 DEF prune_retained, InFlight
    <3>2. CASE HubWiped
      BY <1>2, <3>2, NoneFacts DEF HubWiped, InFlight, DeliveryOutcome
    <3> QED
      BY <1>2, <3>1, <3>2
  <2>2. Snapshots' = {}
    BY <2>1 DEF Snapshots
  <2>3. NoOldSnapshot' /\ AckIsStored'
    BY <2>1, <2>2 DEF NoOldSnapshot, AckIsStored
  <2>4. AcceptedBound'
    BY <2>1, <2>2 DEF AcceptedBound, PendInv, HubInv
  <2>5. RequestIsFirst' /\ AwaitedCovers' /\ skipped' <= revision'
    BY <2>1 DEF PendInv, QueueInv, RequestIsFirst, First, AwaitedCovers, Queued
  <2>6. ViewsPending'
    BY <2>1 DEF PendInv, QueueInv, ViewsPending, RepairDue, HubHas, Queued
  <2> QED
    BY <2>3, <2>4, <2>5, <2>6 DEF PendInv, HubInv, QueueInv
<1> QED
  BY <1>1, <1>2

-----------------------------------------------------------------------------

(* PendInv is inductive relative to the types and the order at the hub. *)
LEMMA NextPending ==
  TypeInv /\ TypeInv' /\ OrderInv /\ PendInv /\ [Next]_vars => PendInv'
<1>1. ASSUME PendInv, UNCHANGED vars PROVE PendInv'
  BY <1>1 DEF vars, daemonVars, workerVars, hubVars, PendInv, HubInv, QueueInv, NoOldSnapshot,
     AckIsStored, AcceptedBound, RequestIsFirst, First, AwaitedCovers, ViewsPending, RepairDue,
     HubHas, Queued, Snapshots, InFlight
<1> QED
  BY <1>1, CommitPending, SnapshotPending, DeliveredPending, LoopPending, AnsweredPending,
     ReceivePending, PlainPending, FaultPending DEF Next, WorkerNext

(* Nothing is committed, sent or accepted. *)
LEMMA InitPending == Init => PendInv
BY DEF Init, NoViews, PendInv, HubInv, QueueInv, NoOldSnapshot, AckIsStored, AcceptedBound,
   RequestIsFirst, AwaitedCovers, ViewsPending

(* Every view of the source, in every state, has reached the hub, is queued,  *)
(* was skipped, or a snapshot of it is due.                                   *)
THEOREM PendingInvariant == Spec => []PendInv
BY InitPending, NextPending, OrderInvariant, PTL DEF Spec

(* The newest public change is never lost (NewestChangeIsPending): what       *)
(* acknowledge, hub_snapshot_delivered and the drop policy delete from the    *)
(* outbox is at the hub, or a snapshot is due.                                *)
THEOREM NewestIsPending == Spec => []NewestChangeIsPending
<1>1. PendInv => NewestChangeIsPending
  BY DEF PendInv, QueueInv, ViewsPending, NewestChangeIsPending, Queued
<1> QED
  BY <1>1, PendingInvariant, PTL

-----------------------------------------------------------------------------
(* What a recorded baseline says of the hub.  That it is exact takes, beside  *)
(* PendInv, that nothing newer than the awaited snapshot is under way, and    *)
(* that a snapshot of the same revision shows the same views but for expired  *)
(* agents.                                                                    *)

(* The views of an older snapshot of the same revision: the source's          *)
(* retention, which takes no revision, deletes stopped agents alone.          *)
Matches(v, w) ==
  \A a \in Agents : v[a] = w[a] \/ (w[a] = None /\ v[a].status = "stopped")

(* The hub shows these views, less the forgotten agents. *)
HubMatches(v) ==
  \A a \in Agents \ forgotten :
    agents[a] = v[a] \/ (v[a] = None /\ agents[a].status = "stopped")

(* The hub is not ahead of the source, and a snapshot under way that was      *)
(* taken at the current revision shows the current views.                     *)
HubIsBehind == source_revision # None => source_revision <= revision

SnapshotsCurrent ==
  \A m \in Snapshots : m.revision = revision => Matches(m.views, views)

(* While the worker awaits a snapshot, nothing newer is under way or at the   *)
(* hub, and once it is acknowledged the hub shows it.                         *)
AwaitedIsNewest ==
  worker = "awaiting_snapshot" =>
    /\ \A m \in InFlight : m.revision <= request.revision
    /\ source_revision # None => source_revision <= request.revision
    /\ \A m \in Snapshots : m.revision = request.revision => Matches(m.views, request.views)
    /\ answer = "Ack" => source_revision = request.revision /\ HubMatches(request.views)

BaseInv == HubIsBehind /\ SnapshotsCurrent /\ AwaitedIsNewest

(* Requests under way were sent at a revision the source has reached. *)
LEMMA FlightBound ==
  ASSUME TypeInv, OrderInv, NEW m \in InFlight
  PROVE  /\ m \in SourceEnvelope /\ m.revision \in Nat /\ m.revision <= revision
         /\ m.kind \in {"update", "snapshot"}
<1>1. m \in SourceEnvelope /\ m.revision \in Nat /\ m.kind \in {"update", "snapshot"}
  BY FlightTypes DEF SourceEnvelope, UpdateEnvelope, SnapshotEnvelope
<1>2. CASE m.kind = "snapshot"
  BY <1>1, <1>2 DEF OrderInv, EnvelopesExact, Snapshots
<1>3. CASE m.kind = "update"
  <2>1. m \in Updates /\ m \in UpdateEnvelope
    BY <1>3, FlightTypes DEF Updates
  <2>2. m.agent \in Agents /\ m.view \in View /\ m.view # None /\ m.view.version = m.revision
    BY <2>1, NoneFacts DEF UpdateEnvelope, OrderInv, EnvelopesExact
  <2>3. m.view \in Copies(m.agent)
    BY <2>1, <2>2 DEF Copies
  <2> QED
    BY <1>1, <2>2, <2>3 DEF OrderInv, CopiesOrdered
<1> QED
  BY <1>1, <1>2, <1>3

(* Steps that send no snapshot and store nothing: the source commits or       *)
(* deletes stopped agents, the hub forgets one, the worker goes on.           *)
LEMMA QuietBase ==
  ASSUME TypeInv, TypeInv', OrderInv, BaseInv,
         UNCHANGED source_revision, Snapshots' \subseteq Snapshots, revision <= revision',
         forgotten \subseteq forgotten',
         \A a \in Agents \ forgotten' : agents'[a] = agents[a],
         revision' = revision => Matches(views, views'),
         worker' = "awaiting_snapshot" =>
           /\ worker = "awaiting_snapshot" /\ request' = request /\ InFlight' \subseteq InFlight
           /\ answer' = "Ack" => answer = "Ack"
  PROVE  BaseInv'
<1>0. /\ revision \in Nat /\ revision' \in Nat /\ source_revision \in Nat \cup {None}
  BY Numbers, Counters DEF TypeInv, TypeOK
<1>1. HubIsBehind'
  BY <1>0 DEF BaseInv, HubIsBehind
<1>2. SnapshotsCurrent'
  <2>1. ASSUME NEW m \in Snapshots', m.revision = revision'
        PROVE  Matches(m.views, views')
    <3>1. m \in Snapshots /\ m \in InFlight
      BY <2>1 DEF Snapshots
    <3>2. revision' = revision /\ m.revision = revision
      BY <1>0, <2>1, <3>1, FlightBound
    <3>3. Matches(m.views, views) /\ Matches(views, views')
      BY <3>1, <3>2 DEF BaseInv, SnapshotsCurrent
    <3> QED
      BY <3>3 DEF Matches
  <2> QED
    BY <2>1 DEF SnapshotsCurrent, Matches
<1>3. AwaitedIsNewest'
  BY DEF BaseInv, AwaitedIsNewest, HubMatches, Matches
<1> QED
  BY <1>1, <1>2, <1>3 DEF BaseInv

(* Nothing under way is newer than a snapshot that is sent. *)
LEMMA SnapshotBase ==
  ASSUME TypeInv, TypeInv', OrderInv, BaseInv, deliver_snapshots
  PROVE  BaseInv'
<1> DEFINE s == [kind |-> "snapshot", revision |-> revision, views |-> views]
<1>1. /\ request' = s /\ answer' = None
      /\ UNCHANGED <<revision, views, late, source_revision, agents, forgotten>>
  BY DEF deliver_snapshots, Send, daemonVars, hubVars
<1>2. s.revision = revision /\ s.views = views
  OBVIOUS
<1> HIDE DEF s
<1>3. InFlight' \subseteq InFlight \cup {s} /\ Snapshots' \subseteq Snapshots \cup {s}
  BY <1>1 DEF InFlight, Snapshots
<1>4. \A m \in InFlight : m.revision <= revision
  BY FlightBound
<1>5. Matches(views, views) /\ revision \in Nat
  BY Counters DEF Matches
<1>6. HubIsBehind' /\ SnapshotsCurrent'
  BY <1>1, <1>2, <1>3, <1>5 DEF BaseInv, HubIsBehind, SnapshotsCurrent, Matches
<1>7. answer' # "Ack"
  BY <1>1, NoneFacts DEF DeliveryOutcome
<1>8. /\ \A m \in InFlight' : m.revision <= request'.revision
      /\ source_revision' # None => source_revision' <= request'.revision
  BY <1>1, <1>2, <1>3, <1>4, <1>5 DEF BaseInv, HubIsBehind
<1>9. \A m \in Snapshots' : m.revision = request'.revision => Matches(m.views, request'.views)
  BY <1>1, <1>2, <1>3, <1>5, Zenon DEF BaseInv, SnapshotsCurrent
<1>10. AwaitedIsNewest'
  BY <1>7, <1>8, <1>9, Zenon DEF AwaitedIsNewest, Matches
<1> QED
  BY <1>6, <1>10 DEF BaseInv

(* The hub stores the awaited snapshot, or one of the same revision, or       *)
(* nothing newer than it.                                                     *)
LEMMA IngestBase ==
  ASSUME TypeInv, TypeInv', OrderInv, PendInv, BaseInv, NEW m \in InFlight,
         handle_ingest(m), InFlight' \subseteq InFlight,
         UNCHANGED <<revision, views, worker, request>>,
         \/ answer' = answer
         \/ m = request /\ answer' = Outcome(m)
  PROVE  BaseInv'
<1>0. /\ revision \in Nat /\ source_revision \in Nat \cup {None} /\ None \notin Nat
      /\ m \in SourceEnvelope /\ m.revision \in Nat /\ m.revision <= revision
      /\ m.kind \in {"update", "snapshot"}
  BY Numbers, FlightBound
<1>1. Snapshots' \subseteq Snapshots
  BY DEF Snapshots
<1>2. /\ source_revision' \in {source_revision, m.revision}
      /\ source_revision' # source_revision =>
           source_revision = None \/ source_revision <= m.revision
      /\ forgotten' = forgotten
  BY <1>0 DEF handle_ingest, ingest_snapshot, ingest_update, record_delivery, NewUpdate,
     StaleSnapshot, hubVars
<1>3. HubIsBehind' /\ SnapshotsCurrent'
  BY <1>0, <1>1, <1>2 DEF BaseInv, HubIsBehind, SnapshotsCurrent, Matches
<1>4. ASSUME worker = "awaiting_snapshot" PROVE AwaitedIsNewest'
  <2>1. /\ \A s \in InFlight : s.revision <= request.revision
        /\ source_revision # None => source_revision <= request.revision
        /\ \A s \in Snapshots : s.revision = request.revision => Matches(s.views, request.views)
        /\ answer = "Ack" => source_revision = request.revision /\ HubMatches(request.views)
    BY <1>4 DEF BaseInv, AwaitedIsNewest
  <2>2. request.kind = "snapshot" /\ request.revision \in Nat
    BY <1>4 DEF TypeInv, WorkerFacts, SnapshotEnvelope, PendInv, QueueInv, AwaitedCovers
  <2>3. source_revision' # None => source_revision' <= request.revision
    BY <1>2, <2>1
  <2>4. ASSUME m.kind = "snapshot", m.revision = request.revision
        PROVE  source_revision' = request.revision /\ HubMatches(request.views)'
    <3>1. m \in Snapshots /\ Matches(m.views, request.views)
      BY <2>1, <2>4 DEF Snapshots
    <3>2. ~ Rejected(m) /\ ~ StaleSnapshot(m)
      BY <1>0, <2>1, <2>4 DEF Rejected, StaleSnapshot
    <3>3. /\ source_revision' = m.revision
          /\ agents' = [a \in Agents |-> IF a \in forgotten THEN None ELSE m.views[a]]
      BY <2>4, <3>2 DEF handle_ingest, ingest_snapshot
    <3> QED
      BY <1>2, <2>4, <3>1, <3>3 DEF HubMatches, Matches
  <2>5. ASSUME answer = "Ack", ~ (m.kind = "snapshot" /\ m.revision = request.revision)
        PROVE  source_revision' = request.revision /\ HubMatches(request.views)'
    <3>1. m.revision <= source_revision /\ source_revision \in Nat
      BY <2>1, <2>2, <2>5
    <3>2. m.kind = "update" => ~ NewUpdate(m)
      BY <1>0, <3>1 DEF NewUpdate
    <3>3. m.kind = "snapshot" => StaleSnapshot(m)
      BY <1>0, <2>1, <2>5, <3>1 DEF StaleSnapshot
    <3>4. UNCHANGED <<source_revision, agents, forgotten>>
      BY <1>0, <3>2, <3>3 DEF handle_ingest, ingest_snapshot, ingest_update, hubVars
    <3> QED
      BY <2>1, <2>5, <3>4 DEF HubMatches
  <2>6. answer' = "Ack" => source_revision' = request.revision /\ HubMatches(request.views)'
    BY <2>2, <2>4, <2>5
  <2> QED
    BY <1>1, <2>1, <2>3, <2>6 DEF AwaitedIsNewest, HubMatches, Matches
<1> QED
  BY <1>3, <1>4, Zenon DEF BaseInv, AwaitedIsNewest

(* A commit takes a new revision, so that no snapshot under way is current.   *)
LEMMA CommitBase ==
  ASSUME TypeInv, TypeInv', OrderInv, BaseInv, (\E a \in Agents : Commit(a)) \/ CommitPrivate
  PROVE  BaseInv'
<1>1. /\ revision' = revision + 1
      /\ UNCHANGED <<worker, request, answer, late, source_revision, agents, forgotten>>
  BY DEF Commit, CommitPrivate, next_revision, workerVars, hubVars
<1>2. InFlight' = InFlight /\ Snapshots' = Snapshots
  BY <1>1 DEF Snapshots, InFlight
<1>3. revision <= revision' /\ revision' # revision
  BY <1>1, Counters
<1> QED
  BY <1>1, <1>2, <1>3, QuietBase

(* The worker's steps other than sending a snapshot end its wait for one. *)
LEMMA WorkerBase ==
  ASSUME TypeInv, TypeInv', OrderInv, BaseInv,
         \/ SnapshotNotSent \/ hub_snapshot_delivered \/ process_outbox_once
         \/ \E r \in batch : HoldRecord(r) \/ DeliverRecord(r) \/ RecordAnswered(r)
  PROVE  BaseInv'
<1>1. /\ worker' # "awaiting_snapshot"
      /\ UNCHANGED <<revision, views, late, source_revision, agents, forgotten>>
  BY Zenon DEF SnapshotNotSent, hub_snapshot_delivered, process_outbox_once, HoldRecord,
     DeliverRecord, RecordAnswered, Handled, daemonVars, hubVars
<1>2. \/ request' = None \/ UNCHANGED <<request, answer>>
      \/ request' # None /\ request'.kind = "update"
  BY DEF SnapshotNotSent, hub_snapshot_delivered, process_outbox_once, HoldRecord,
     DeliverRecord, RecordAnswered, Send
<1>3. Snapshots' \subseteq Snapshots
  BY <1>1, <1>2 DEF Snapshots, InFlight
<1>4. revision <= revision' /\ Matches(views, views')
  BY <1>1, Counters DEF Matches
<1> QED
  BY <1>1, <1>3, <1>4, QuietBase

(* A request or a late one is ingested. *)
LEMMA ReceiveBase ==
  ASSUME TypeInv, TypeInv', OrderInv, PendInv, BaseInv,
         HubReceive \/ \E m \in late : HubReceiveLate(m)
  PROVE  BaseInv'
<1> USE DEF daemonVars, workerVars
<1>1. CASE HubReceive
  <2>1. request \in InFlight /\ InFlight' \subseteq InFlight
    BY <1>1 DEF HubReceive, InFlight
  <2>2. /\ handle_ingest(request) /\ answer' = Outcome(request)
        /\ UNCHANGED <<revision, views, worker, request>>
    BY <1>1 DEF HubReceive
  <2> QED
    BY <2>1, <2>2, IngestBase
<1>2. ASSUME NEW m \in late, HubReceiveLate(m) PROVE BaseInv'
  <2>1. m \in InFlight /\ InFlight' \subseteq InFlight
    BY <1>2 DEF HubReceiveLate, InFlight
  <2>2. handle_ingest(m) /\ answer' = answer /\ UNCHANGED <<revision, views, worker, request>>
    BY <1>2 DEF HubReceiveLate
  <2> QED
    BY <2>1, <2>2, IngestBase
<1> QED
  BY <1>1, <1>2

(* Time, the operator and faults: an agent the hub forgets no longer counts,  *)
(* and a restarted daemon deletes stopped agents alone and awaits nothing.    *)
LEMMA PlainBase ==
  ASSUME TypeInv, TypeInv', OrderInv, BaseInv,
         \/ \E a \in Agents : forget(a)
         \/ \E r \in outbox : BackoffEnds(r)
         \/ RequestFails \/ RequestTimesOut \/ Restart
  PROVE  BaseInv'
<1> USE DEF daemonVars, workerVars, hubVars
<1>0. revision' = revision /\ revision <= revision' /\ source_revision' = source_revision
  BY Counters DEF forget, BackoffEnds, RequestFails, RequestTimesOut, Restart
<1>1. forgotten \subseteq forgotten' /\ \A a \in Agents \ forgotten' : agents'[a] = agents[a]
  <2>1. ASSUME NEW b \in Agents, forget(b)
        PROVE  /\ forgotten \subseteq forgotten'
               /\ \A a \in Agents \ forgotten' : agents'[a] = agents[a]
    BY <2>1 DEF forget, TypeInv, TypeOK, ViewTable
  <2> QED
    BY <2>1 DEF BackoffEnds, RequestFails, RequestTimesOut, Restart
<1>2. Matches(views, views')
  <2>1. CASE Restart
    BY <2>1, Zenon DEF Restart, Matches
  <2>2. CASE UNCHANGED views
    BY <2>2 DEF Matches
  <2> QED
    BY <2>1, <2>2 DEF forget, BackoffEnds, RequestFails, RequestTimesOut
<1>3. InFlight' \subseteq InFlight
  <2>1. CASE RequestFails \/ RequestTimesOut \/ Restart
    BY <2>1, NoneFacts DEF RequestFails, RequestTimesOut, Restart, InFlight, DeliveryOutcome
  <2>2. CASE (\E a \in Agents : forget(a)) \/ \E r \in outbox : BackoffEnds(r)
    BY <2>2 DEF forget, BackoffEnds, InFlight
  <2> QED
    BY <2>1, <2>2
<1>4. Snapshots' \subseteq Snapshots
  BY <1>3 DEF Snapshots
<1>5. worker' = "awaiting_snapshot" =>
        /\ worker = "awaiting_snapshot" /\ request' = request
        /\ answer' = "Ack" => answer = "Ack"
  BY DEF forget, BackoffEnds, RequestFails, RequestTimesOut, Restart
<1> QED
  BY <1>0, <1>1, <1>2, <1>3, <1>4, <1>5, QuietBase

(* A hub that prunes or loses its storage has nothing of the source under way. *)
LEMMA WipeBase ==
  ASSUME TypeInv, PendInv, BaseInv, prune_retained \/ HubWiped
  PROVE  BaseInv'
<1> USE DEF daemonVars, workerVars
<1>1. /\ UNCHANGED <<revision, worker, request>> /\ InFlight' = {}
      /\ source_revision' \in {source_revision, None}
      /\ worker = "awaiting_snapshot" => source_revision' = None /\ answer' # "Ack"
  <2>0. worker = "awaiting_snapshot" => request # None
    BY DEF PendInv, QueueInv, AwaitedCovers
  <2>1. CASE prune_retained
    BY <2>0, <2>1 DEF prune_retained, InFlight
  <2>2. CASE HubWiped
    BY <2>0, <2>2, NoneFacts DEF HubWiped, InFlight, DeliveryOutcome
  <2> QED
    BY <2>1, <2>2
<1>2. Snapshots' = {}
  BY <1>1 DEF Snapshots
<1> QED
  BY <1>1, <1>2, Zenon DEF BaseInv, HubIsBehind, SnapshotsCurrent, AwaitedIsNewest

(* BaseInv is inductive relative to the types, the order at the hub and what  *)
(* is pending.                                                                *)
LEMMA NextBase ==
  TypeInv /\ TypeInv' /\ OrderInv /\ PendInv /\ BaseInv /\ [Next]_vars => BaseInv'
<1>1. ASSUME BaseInv, UNCHANGED vars PROVE BaseInv'
  BY <1>1 DEF vars, daemonVars, workerVars, hubVars, BaseInv, HubIsBehind, SnapshotsCurrent,
     AwaitedIsNewest, HubMatches, Matches, Snapshots, InFlight
<1> QED
  BY <1>1, CommitBase, SnapshotBase, WorkerBase, ReceiveBase, PlainBase, WipeBase
     DEF Next, WorkerNext

(* Nothing is sent, and the hub has no row of the source. *)
LEMMA InitBase == Init => BaseInv
BY DEF Init, BaseInv, HubIsBehind, SnapshotsCurrent, AwaitedIsNewest, Snapshots, InFlight

(* Nothing newer than the awaited snapshot is at the hub or on its way, in    *)
(* every state, and once it is acknowledged the hub shows it.                 *)
THEOREM BaseInvariant == Spec => []BaseInv
BY InitBase, NextBase, PendingInvariant, OrderInvariant, PTL DEF Spec

(* BaselineIsExact: the daemon records a baseline, which lets it drop every   *)
(* queued update up to that revision, only while the hub shows exactly the    *)
(* views of the snapshot it sent (hub_snapshot_delivered after a 2xx answer,  *)
(* whatever late requests the hub has handled since).                         *)
THEOREM RecordedBaselineIsExact == Spec => BaselineIsExact
<1>1. ASSUME BaseInv, hub_snapshot_delivered, baseline = None, baseline' # None
      PROVE  /\ source_revision = baseline'
             /\ \A a \in Agents \ forgotten :
                  \/ agents[a] = request.views[a]
                  \/ request.views[a] = None /\ agents[a].status = "stopped"
  <2>1. worker = "awaiting_snapshot" /\ answer = "Ack" /\ baseline' = request.revision
    BY <1>1 DEF hub_snapshot_delivered
  <2> QED
    BY <1>1, <2>1 DEF BaseInv, AwaitedIsNewest, HubMatches
<1>2. ASSUME [Next]_vars, baseline = None, baseline' # None
      PROVE  hub_snapshot_delivered
  BY <1>2 DEF Next, WorkerNext, vars, daemonVars, Commit, CommitPrivate, forget,
     deliver_snapshots, SnapshotNotSent, process_outbox_once, HoldRecord, DeliverRecord,
     RecordAnswered, BackoffEnds, HubReceive, RequestFails, RequestTimesOut, HubReceiveLate,
     Restart, prune_retained, HubWiped
<1>3. BaseInv /\ [Next]_vars =>
        [baseline = None /\ baseline' # None =>
           /\ source_revision = baseline'
           /\ \A a \in Agents \ forgotten :
                \/ agents[a] = request.views[a]
                \/ request.views[a] = None /\ agents[a].status = "stopped"]_vars
  BY <1>1, <1>2
<1> QED
  BY <1>3, BaseInvariant, PTL DEF Spec, BaselineIsExact
=============================================================================
