---------------------------- MODULE DaemonStream ----------------------------
(***************************************************************************)
(* `sessiontap listen`: from the daemon's transactions to the consumer of  *)
(* its unix socket. Every handler commits under the storage mutex and      *)
(* broadcasts what it committed afterwards, outside it. What a transition  *)
(* does to a row is the subject of Broker; here a row is the revision at   *)
(* which its public view last changed.                                     *)
(***************************************************************************)
EXTENDS Broadcast, FiniteSets

CONSTANTS
  Agents,
  Handlers,       \* connections and workers running at the same time
  Listeners,
  update_buffer,  \* daemon.update_buffer
  MaxRevision,    \* bound on revisions
  MaxFaults       \* bound on disconnects and failed sweeps

DaemonStreamAssumption ==
  update_buffer \in Nat \ {0} /\ MaxRevision \in Nat /\ MaxFaults \in Nat

VARIABLES
  revision, \* broker_meta.revision
  views,    \* per agent: revision of its current public view, 0 before it has one
  handler,  \* per handler: idle, sweeping, or with updates to broadcast
  sent,     \* the broadcast channel of AppliedUpdates
  listener, \* per listener: phase, receiver position and first revision
  shown,    \* per listener and agent: newest view received
  line,     \* per listener: the last line written
  unsent,   \* revisions a failed sweep committed and did not broadcast
  faults

vars == <<revision, views, handler, sent, listener, shown, line, unsent, faults>>
streams == <<listener, shown, line>>

AppliedUpdate == [revision : 1..MaxRevision, agent : Agents]
Phases == {"off", "subscribed", "stream", "lagged"}
Lines == {"none", "snapshot", "update"}
Idle == [sweep |-> FALSE, updates |-> <<>>]
Off == [phase |-> "off", at |-> 0, revision |-> 0]

Init ==
  /\ revision = 0 /\ views = [a \in Agents |-> 0]
  /\ handler = [h \in Handlers |-> Idle] /\ sent = <<>>
  /\ listener = [l \in Listeners |-> Off]
  /\ shown = [l \in Listeners |-> [a \in Agents |-> 0]]
  /\ line = [l \in Listeners |-> [kind |-> "none", revision |-> 0, baseline |-> 0]]
  /\ unsent = {} /\ faults = 0

Fault == faults < MaxFaults /\ faults' = faults + 1

-----------------------------------------------------------------------------
(* Handlers. *)

(* One committed transition: it takes a revision, and yields an update when   *)
(* the public view changed.                                                   *)
Transition(h, a, sweep) ==
  /\ revision < MaxRevision
  /\ revision' = revision + 1
  /\ \/ /\ views' = [views EXCEPT ![a] = revision + 1]
        /\ handler' = [handler EXCEPT ![h] =
             [sweep |-> sweep,
              updates |-> Append(@.updates, [revision |-> revision + 1, agent |-> a])]]
     \/ /\ views[a] # 0
        /\ handler' = [handler EXCEPT ![h].sweep = sweep]
        /\ UNCHANGED views
  /\ UNCHANGED <<sent, streams, unsent, faults>>

(* register, bind_child, lifecycle_exit, ingest_hook and apply_enrichment. *)
Commit(h, a) == handler[h] = Idle /\ Transition(h, a, FALSE)

(* expire_stale_working: a transaction for every stale row, then the updates. *)
SweepRow(h, a) ==
  /\ handler[h] = Idle \/ handler[h].sweep
  /\ views[a] # 0
  /\ Transition(h, a, TRUE)

SweepEnd(h) ==
  /\ handler[h].sweep
  /\ handler' = [handler EXCEPT ![h].sweep = FALSE]
  /\ UNCHANGED <<revision, views, sent, streams, unsent, faults>>

(* A row fails: the rows before it stay committed and are not broadcast. *)
SweepFails(h) ==
  /\ Fault
  /\ handler[h].sweep
  /\ unsent' = unsent \cup {handler[h].updates[k].revision : k \in DOMAIN handler[h].updates}
  /\ handler' = [handler EXCEPT ![h] = Idle]
  /\ UNCHANGED <<revision, views, sent, streams>>

broadcast(h) ==
  /\ ~ handler[h].sweep /\ handler[h].updates # <<>>
  /\ sent' = Append(sent, Head(handler[h].updates))
  /\ handler' = [handler EXCEPT ![h].updates = Tail(@)]
  /\ UNCHANGED <<revision, views, streams, unsent, faults>>

-----------------------------------------------------------------------------
(* The Listen branch of handle. *)

StreamStep == UNCHANGED <<revision, views, handler, sent, unsent>>

Newest(l) == [a \in Agents |-> IF views[a] > shown[l][a] THEN views[a] ELSE shown[l][a]]

Snapshot(l) ==
  /\ shown' = [shown EXCEPT ![l] = Newest(l)]
  /\ line' = [line EXCEPT ![l] = [kind |-> "snapshot", revision |-> revision, baseline |-> revision]]

(* App::subscribe: the receiver first, the snapshot in a later step. *)
subscribe(l) ==
  /\ listener[l].phase = "off"
  /\ listener' = [listener EXCEPT ![l] = [phase |-> "subscribed", at |-> Len(sent), revision |-> 0]]
  /\ StreamStep /\ UNCHANGED <<shown, line, faults>>

public_snapshot(l) ==
  /\ listener[l].phase = "subscribed"
  /\ listener' = [listener EXCEPT ![l].phase = "stream", ![l].revision = revision]
  /\ Snapshot(l)
  /\ StreamStep /\ UNCHANGED faults

Ready(l) ==
  /\ listener[l].phase = "stream"
  /\ Receivable(sent, listener[l].at, update_buffer)

(* The revision that updates are compared with stays that of the first line. *)
Receive(l) ==
  LET update == Received(sent, listener[l].at)
  IN  /\ Ready(l)
      /\ update.revision > listener[l].revision
      /\ listener' = [listener EXCEPT ![l].at = @ + 1]
      /\ shown' = [shown EXCEPT ![l][update.agent] =
                     IF update.revision > @ THEN update.revision ELSE @]
      /\ line' = [line EXCEPT ![l].kind = "update", ![l].revision = update.revision]
      /\ StreamStep /\ UNCHANGED faults

Skip(l) ==
  /\ Ready(l)
  /\ Received(sent, listener[l].at).revision <= listener[l].revision
  /\ listener' = [listener EXCEPT ![l].at = @ + 1]
  /\ StreamStep /\ UNCHANGED <<shown, line, faults>>

(* recv answers Lagged and has moved the receiver ... *)
Lag(l) ==
  /\ listener[l].phase = "stream"
  /\ Lagged(sent, listener[l].at, update_buffer)
  /\ listener' = [listener EXCEPT ![l].phase = "lagged", ![l].at = OldestKept(sent, update_buffer)]
  /\ StreamStep /\ UNCHANGED <<shown, line, faults>>

(* ... and status() is read and written after it. *)
status(l) ==
  /\ listener[l].phase = "lagged"
  /\ listener' = [listener EXCEPT ![l].phase = "stream"]
  /\ Snapshot(l)
  /\ StreamStep /\ UNCHANGED faults

(* The consumer hangs up, or sends a second request. *)
Disconnect(l) ==
  /\ Fault
  /\ listener[l].phase # "off"
  /\ listener' = [listener EXCEPT ![l] = Off]
  /\ shown' = [shown EXCEPT ![l] = [a \in Agents |-> 0]]
  /\ line' = [line EXCEPT ![l] = [kind |-> "none", revision |-> 0, baseline |-> 0]]
  /\ StreamStep

Listen(l) == public_snapshot(l) \/ Receive(l) \/ Skip(l) \/ Lag(l) \/ status(l)

-----------------------------------------------------------------------------

Next ==
  \/ \E h \in Handlers :
       \/ \E a \in Agents : Commit(h, a) \/ SweepRow(h, a)
       \/ SweepEnd(h) \/ SweepFails(h) \/ broadcast(h)
  \/ \E l \in Listeners : subscribe(l) \/ Listen(l) \/ Disconnect(l)

Spec == Init /\ [][Next]_vars

-----------------------------------------------------------------------------
(* Properties. *)

(* Every variable has its type. *)
TypeOK ==
  /\ revision \in 0..MaxRevision /\ views \in [Agents -> 0..MaxRevision]
  /\ handler \in [Handlers -> [sweep : BOOLEAN, updates : Seq(AppliedUpdate)]]
  /\ sent \in Seq(AppliedUpdate)
  /\ listener \in [Listeners -> [phase : Phases, at : 0..Len(sent), revision : 0..revision]]
  /\ shown \in [Listeners -> [Agents -> 0..revision]]
  /\ line \in [Listeners -> [kind : Lines, revision : 0..revision, baseline : 0..revision]]
  /\ unsent \subseteq 1..MaxRevision /\ faults \in 0..MaxFaults

Quiet == \A h \in Handlers : handler[h] = Idle

Shows(l) == \A a \in Agents : shown[l][a] = views[a] \/ views[a] \in unsent

(* "the resulting public view appears either in that snapshot baseline or as  *)
(* a following update, but is not omitted" (normalized-session-state): a      *)
(* stream that has received everything has written the newest view of every   *)
(* agent, whatever the order of commits, broadcasts, subscription and lag.    *)
NotOmitted ==
  \A l \in Listeners :
    listener[l].phase = "stream" /\ Caught(sent, listener[l].at) /\ Quiet => Shows(l)

(* And it does get there: no interleaving leaves a connected consumer behind. *)
ListenerCatchesUp == <>[](\A l \in Listeners : listener[l].phase # "off" => Shows(l))

=============================================================================
