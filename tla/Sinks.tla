------------------------------- MODULE Sinks --------------------------------
(***************************************************************************)
(* Fan-out: every enabled sink has its records in one outbox, and one      *)
(* worker delivers them (sessiontapd/sinks, workers.rs, storage).  A       *)
(* record is posted while the worker waits for the answer, so a receiver   *)
(* that does not answer costs the others its timeout.  Here the sinks      *)
(* share the worker, and a delivery is one step; Delivery separates its    *)
(* parts and has what one hub makes of them.                               *)
(*                                                                         *)
(* A view is the version of each public field.  Time is in ticks that the  *)
(* timers count down.                                                      *)
(***************************************************************************)
EXTENDS Integers, FiniteSets, Sequences

CONSTANTS
  None,
  Names,         \* the sinks of the configuration
  Kind,          \* Names -> "stdout", "http" or "hub"
  Fields,        \* public fields besides the invocation's identity
  Selection,     \* Names -> the fields it is configured with; {} for all
  Healthy,       \* sinks whose receivers take every delivery
  Silent,        \* sinks whose receivers never answer
  outbox_batch,
  max_rejected_attempts,
  MAX_OUTBOX_RECORDS_PER_SINK,
  RetryMax,      \* cap of a record's backoff
  SnapshotMax,   \* cap of a snapshot's backoff
  Timeout,       \* ticks until a delivery is given up
  MaxRevision,   \* bound on revisions
  MaxRestarts    \* bound on restarts

SinksAssumption ==
  /\ Kind \in [Names -> {"stdout", "http", "hub"}] /\ Selection \in [Names -> SUBSET Fields]
  /\ Healthy \subseteq Names /\ Silent \subseteq Names \ Healthy
  /\ \A n \in Names : Kind[n] = "stdout" => n \in Healthy
  /\ {outbox_batch, max_rejected_attempts, MAX_OUTBOX_RECORDS_PER_SINK, RetryMax, SnapshotMax} \subseteq Nat \ {0}
  /\ {Timeout, MaxRevision, MaxRestarts} \subseteq Nat
  /\ RetryMax <= 2 ^ max_rejected_attempts

VARIABLES
  revision,
  view,           \* the invocation's view
  changed,        \* revision -> the fields it changed (history)
  views,          \* revision -> the view it made (history)
  enabled,        \* the sinks this daemon runs with
  outbox,         \* set of records
  snapshot,       \* sink -> has it its baseline?
  snapshot_backoff, \* sink -> ticks left and delay
  batch,          \* the records of this pass still to be delivered
  pc,             \* the worker: "snapshots", "outbox" or "sleep"
  seen,           \* the hubs deliver_snapshots has been through
  newest,         \* sink -> newest revision its receiver was shown (history)
  last,           \* the last payload delivered: sink, view, changed (history)
  missed,         \* sink -> newest revision without a record (history)
  restarts

stored == <<revision, view, changed, views, enabled, missed, restarts>>
worker == <<snapshot_backoff, batch, pc, seen>>
vars == <<stored, outbox, snapshot, worker, newest, last>>

needs_baseline(n) == Kind[n] = "hub"

Hubs == {n \in enabled : needs_baseline(n)}

Lesser(a, b) == IF a <= b THEN a ELSE b

Init ==
  /\ revision = 0 /\ view = [f \in Fields |-> 0]
  /\ changed = <<>> /\ views = <<>>
  /\ enabled \in SUBSET Names
  /\ outbox = {}
  /\ snapshot = [n \in Names |-> FALSE]
  /\ snapshot_backoff = [n \in Names |-> [left |-> 0, delay |-> 0]]
  /\ batch = <<>> /\ pc = "snapshots" /\ seen = {}
  /\ newest = [n \in Names |-> 0] /\ last = None
  /\ missed = [n \in Names |-> 0] /\ restarts = 0

-----------------------------------------------------------------------------
(* Transitions. *)

Pending(n) == {r \in outbox : r.sink = n}

Full(n) == Cardinality(Pending(n)) >= MAX_OUTBOX_RECORDS_PER_SINK

(* One record for every enabled sink that has room. *)
enqueue_transition(rev) ==
  LET takes == {n \in enabled : ~ Full(n)}
  IN  /\ outbox' = outbox \cup {[sink |-> n, revision |-> rev, attempts |-> 0, left |-> 0] : n \in takes}
      /\ missed' = [n \in Names |-> IF n \in takes THEN missed[n] ELSE rev]

(* apply_transition of a change that is visible. *)
Commit(fields) ==
  /\ revision < MaxRevision
  /\ revision' = revision + 1
  /\ view' = [f \in Fields |-> IF f \in fields THEN revision + 1 ELSE view[f]]
  /\ changed' = Append(changed, fields)
  /\ views' = Append(views, view')
  /\ enqueue_transition(revision + 1)
  /\ UNCHANGED <<enabled, restarts, snapshot, worker, newest, last>>

-----------------------------------------------------------------------------
(* What a sink makes of a record. *)

(* The selected fields, or everything when none is selected. *)
project_fields(n, rev) ==
  IF Selection[n] = {} THEN [view |-> views[rev], changed |-> changed[rev]]
  ELSE [view |-> [f \in Selection[n] |-> views[rev][f]], changed |-> changed[rev] \cap Selection[n]]

(* HubSink sends a record as it is. *)
Payload(n, rev) ==
  IF Kind[n] = "hub" THEN [view |-> views[rev], changed |-> changed[rev]]
  ELSE project_fields(n, rev)

(* Outcomes of HttpSink, HubSink and StdoutSink.  A token that cannot be read *)
(* is a retry as well.                                                       *)
Outcomes(n) ==
  IF n \in Healthy THEN {"Ack"}
  ELSE IF n \in Silent THEN {"Timeout"}
  ELSE IF Kind[n] = "http" THEN {"Ack", "Retry"}
  ELSE {"Ack", "Retry", "SnapshotRequired", "Reject"}

(* Time: timers of the outbox and of the snapshots count down together. *)
Count(left, ticks) == IF left > ticks THEN left - ticks ELSE 0

Elapse(records, ticks) == {[r EXCEPT !.left = Count(r.left, ticks)] : r \in records}

ElapseBackoff(backoff, ticks) == [n \in Names |-> [backoff[n] EXCEPT !.left = Count(@, ticks)]]

Cost(outcome) == IF outcome = "Timeout" THEN Timeout ELSE 0

-----------------------------------------------------------------------------
(* The worker. *)

(* deliver_snapshots: one hub, in the order of their names. *)
deliver_snapshot(n) ==
  /\ pc = "snapshots" /\ n \in Hubs \ seen
  /\ seen' = seen \cup {n}
  /\ UNCHANGED <<stored, batch, pc>>
  /\ IF snapshot[n]
     THEN /\ snapshot_backoff' = [snapshot_backoff EXCEPT ![n] = [left |-> 0, delay |-> 0]]
          /\ UNCHANGED <<outbox, snapshot, newest, last>>
     ELSE IF snapshot_backoff[n].left > 0
     THEN UNCHANGED <<outbox, snapshot, snapshot_backoff, newest, last>>
     ELSE \E outcome \in Outcomes(n) :
            IF outcome = "Ack"
            THEN /\ snapshot' = [snapshot EXCEPT ![n] = TRUE]
                 /\ snapshot_backoff' = [snapshot_backoff EXCEPT ![n] = [left |-> 0, delay |-> 0]]
                 /\ outbox' = outbox \ {r \in Pending(n) : r.revision <= revision}
                 /\ newest' = [newest EXCEPT ![n] = revision]
                 /\ UNCHANGED last
            ELSE LET delay == IF snapshot_backoff[n].delay = 0 THEN 1
                              ELSE Lesser(snapshot_backoff[n].delay * 2, SnapshotMax)
                 IN  /\ snapshot_backoff' = [ElapseBackoff(snapshot_backoff, Cost(outcome)) EXCEPT
                                               ![n] = [left |-> delay, delay |-> delay]]
                     /\ outbox' = Elapse(outbox, Cost(outcome))
                     /\ UNCHANGED <<snapshot, newest, last>>

(* The first `outbox_batch` records that are due, oldest first. *)
due_outbox ==
  LET due == {r \in outbox : r.left = 0}
      Before(a, b) == a.revision < b.revision
      Batches == {S \in SUBSET due :
                    /\ Cardinality(S) = Lesser(outbox_batch, Cardinality(due))
                    /\ \A a \in S, b \in due \ S : ~ Before(b, a)}
  IN  {q \in UNION {[1 .. Cardinality(S) -> S] : S \in Batches} :
         \A i, j \in DOMAIN q : i < j => q[i] # q[j] /\ ~ Before(q[j], q[i])}

TakeBatch ==
  /\ pc = "snapshots" /\ Hubs \subseteq seen
  /\ \E q \in due_outbox : batch' = q
  /\ pc' = "outbox" /\ seen' = {}
  /\ UNCHANGED <<stored, outbox, snapshot, snapshot_backoff, newest, last>>

Pass == batch' = Tail(batch) /\ UNCHANGED <<pc, seen>>

(* The row of a record; it may have been removed under the batch. *)
Rows(r) == {row \in outbox : row.sink = r.sink /\ row.revision = r.revision}

acknowledge(r) == outbox' = outbox \ Rows(r)

(* The row waits 2^attempts, capped.  (Attempts are counted up to the drop.) *)
retry(r, ticks) ==
  outbox' = Elapse(outbox \ Rows(r), ticks) \cup
              {[row EXCEPT !.attempts = Lesser(@ + 1, max_rejected_attempts),
                           !.left = Lesser(2 ^ r.attempts, RetryMax)] : row \in Rows(r)}

(* A record of a sink that is not built, or whose baseline is due. *)
Held(r) == r.sink \notin enabled \/ (needs_baseline(r.sink) /\ ~ snapshot[r.sink])

Skip ==
  /\ pc = "outbox" /\ batch # <<>> /\ Held(Head(batch))
  /\ Pass
  /\ UNCHANGED <<stored, outbox, snapshot, snapshot_backoff, newest, last>>

(* Mutant: a dropped update leaves the baseline. *)
Rejected_Quietly(r) ==
  IF r.attempts + 1 >= max_rejected_attempts
  THEN acknowledge(r) /\ UNCHANGED snapshot
  ELSE retry(r, 0) /\ UNCHANGED snapshot

(* The drop policy. *)
Rejected(r) ==
  IF r.attempts + 1 >= max_rejected_attempts
  THEN /\ acknowledge(r)
       /\ snapshot' = [snapshot EXCEPT ![r.sink] = IF needs_baseline(r.sink) THEN FALSE ELSE @]
  ELSE retry(r, 0) /\ UNCHANGED snapshot

Deliver ==
  /\ pc = "outbox" /\ batch # <<>> /\ ~ Held(Head(batch))
  /\ Pass
  /\ UNCHANGED stored
  /\ LET r == Head(batch)
     IN  \E outcome \in Outcomes(r.sink) :
           CASE outcome = "Ack" ->
                  /\ acknowledge(r)
                  /\ newest' = [newest EXCEPT ![r.sink] = IF @ < r.revision THEN r.revision ELSE @]
                  /\ last' = [sink |-> r.sink, revision |-> r.revision, payload |-> Payload(r.sink, r.revision)]
                  /\ UNCHANGED <<snapshot, snapshot_backoff>>
             [] outcome \in {"Retry", "Timeout"} ->
                  /\ retry(r, Cost(outcome))
                  /\ snapshot_backoff' = ElapseBackoff(snapshot_backoff, Cost(outcome))
                  /\ UNCHANGED <<snapshot, newest, last>>
             [] outcome = "SnapshotRequired" ->
                  /\ snapshot' = [snapshot EXCEPT ![r.sink] = FALSE]
                  /\ retry(r, 0)
                  /\ UNCHANGED <<snapshot_backoff, newest, last>>
             [] OTHER ->
                  Rejected(r) /\ UNCHANGED <<snapshot_backoff, newest, last>>

(* sleep(poll) before the next round. *)
Sleep ==
  /\ pc = "outbox" /\ batch = <<>>
  /\ pc' = "snapshots"
  /\ outbox' = Elapse(outbox, 1)
  /\ snapshot_backoff' = ElapseBackoff(snapshot_backoff, 1)
  /\ UNCHANGED <<stored, snapshot, batch, seen, newest, last>>

(* The daemon ends and starts with another configuration: reset_baselines. *)
Restart(names) ==
  /\ restarts < MaxRestarts /\ restarts' = restarts + 1
  /\ enabled' = names
  /\ snapshot' = [n \in Names |-> snapshot[n] /\ ~ (n \in names /\ needs_baseline(n))]
  /\ snapshot_backoff' = [n \in Names |-> [left |-> 0, delay |-> 0]]
  /\ batch' = <<>> /\ pc' = "snapshots" /\ seen' = {}
  /\ UNCHANGED <<revision, view, changed, views, missed, outbox, newest, last>>

Worker == (\E n \in Names : deliver_snapshot(n)) \/ TakeBatch \/ Skip \/ Deliver \/ Sleep

Next ==
  \/ \E fields \in SUBSET Fields \ {{}} : Commit(fields)
  \/ \E n \in Names : deliver_snapshot(n)
  \/ TakeBatch
  \/ Skip
  \/ Deliver
  \/ Sleep
  \/ \E names \in SUBSET Names : Restart(names)

Spec == Init /\ [][Next]_vars

-----------------------------------------------------------------------------

TypeOK ==
  /\ revision \in 0 .. MaxRevision /\ enabled \subseteq Names
  /\ \A r \in outbox : r.sink \in Names /\ r.revision \in 1 .. revision /\ r.left \in 0 .. RetryMax
  /\ \A n \in Names : Cardinality(Pending(n)) <= MAX_OUTBOX_RECORDS_PER_SINK
  /\ pc \in {"snapshots", "outbox"} /\ Len(batch) <= outbox_batch

(* event-sinks: "the delivered view SHALL contain only those public fields     *)
(* plus the invocation identity", "and the changed-field list is filtered to   *)
(* the same set"; a hub is never sent less than everything.                    *)
OnlySelected ==
  last # None =>
    LET fields == IF Selection[last.sink] = {} \/ Kind[last.sink] = "hub" THEN Fields ELSE Selection[last.sink]
    IN  /\ DOMAIN last.payload.view = fields
        /\ last.payload.changed \subseteq fields

(* cli.md: "Failures are retried from the durable outbox": what a running sink *)
(* was not shown is in its outbox, a baseline it is owed, or was never queued  *)
(* because the sink was disabled or full.                                      *)
NothingForgotten ==
  \A n \in enabled :
    \/ newest[n] = revision
    \/ \E r \in Pending(n) : r.revision = revision
    \/ needs_baseline(n) /\ ~ snapshot[n]
    \/ missed[n] = revision

(* event-sinks: "the outbox retains it and retries without blocking provider   *)
(* execution or local observation": a record of the stdout sink is printed,    *)
(* whatever the other receivers do.                                            *)
LocalIsDelivered ==
  \A n \in Names : \A rev \in 1 .. MaxRevision :
    (n \in Healthy /\ Kind[n] # "hub" /\ \E r \in Pending(n) : r.revision = rev)
      ~> (n \notin enabled \/ ~ \E r \in Pending(n) : r.revision = rev)
=============================================================================
