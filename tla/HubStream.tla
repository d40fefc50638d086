------------------------------ MODULE HubStream -----------------------------
(***************************************************************************)
(* From the hub's store to its live consumers. Ingestion connections and   *)
(* forget requests commit to the store under its mutex and then, as a      *)
(* separate step, send a publication on one broadcast channel; every       *)
(* listener (the `listen` command or a paired device) and the routing task *)
(* receive from it. Which envelopes the store accepts is the subject of    *)
(* Delivery: here every envelope is one that was accepted.                 *)
(***************************************************************************)
EXTENDS Broadcast, FiniteSets

CONSTANTS
  None,
  Sources,
  Agents,             \* invocation ids of a source
  Tasks,              \* connections served at the same time
  Listeners,
  BROADCAST_CAPACITY, \* 1024 in the code
  MaxRevision,        \* bound on hub revisions
  MaxFaults           \* bound on prunes, hub crashes and closed streams

HubStreamAssumption ==
  /\ BROADCAST_CAPACITY \in Nat \ {0}
  /\ MaxRevision \in Nat /\ MaxFaults \in Nat

VARIABLES
  hub_revision, \* hub_meta.revision
  agents,       \* public_agents of every source
  publication,  \* per task: committed and not yet sent
  sent,         \* the broadcast channel
  listener,     \* per listener: where stream_merged is, its receiver and `since`
  shown,        \* per listener: the views its consumer holds
  router,       \* messages the routing task has passed
  routed,       \* hub revisions it has dispatched
  faults

vars == <<hub_revision, agents, publication, sent, listener, shown, router, routed, faults>>

View == [version : 1..MaxRevision, stopped : BOOLEAN]
Table == [Sources -> [Agents -> View \cup {None}]]
Update ==
  [kind : {"Update"}, revision : 1..MaxRevision, source : Sources, agent : Agents, view : View]
SnapshotApplied == [kind : {"SnapshotApplied"}, revision : 1..MaxRevision]
HubPublication == Update \cup SnapshotApplied
Phases == {"off", "baseline", "stream"}

Nothing == [s \in Sources |-> [a \in Agents |-> None]]
Off == [phase |-> "off", at |-> 0, since |-> 0]

Init ==
  /\ hub_revision = 0 /\ agents = Nothing
  /\ publication = [t \in Tasks |-> None] /\ sent = <<>>
  /\ listener = [l \in Listeners |-> Off] /\ shown = [l \in Listeners |-> Nothing]
  /\ router = 0 /\ routed = {} /\ faults = 0

-----------------------------------------------------------------------------
(* Commits: each is one transaction that takes the next hub revision. *)

bump_revision ==
  /\ hub_revision < MaxRevision
  /\ hub_revision' = hub_revision + 1

Committed(t, p) ==
  /\ publication[t] = None
  /\ publication' = [publication EXCEPT ![t] = p]
  /\ UNCHANGED <<sent, listener, shown, router, routed, faults>>

IngestUpdate(t, s, a) ==
  /\ bump_revision
  /\ \E stopped \in BOOLEAN :
       LET view == [version |-> hub_revision + 1, stopped |-> stopped]
       IN  /\ agents' = [agents EXCEPT ![s][a] = view]
           /\ Committed(t, [kind |-> "Update", revision |-> hub_revision + 1,
                            source |-> s, agent |-> a, view |-> view])

(* The source's rows are replaced by those of the snapshot: each agent has    *)
(* gone, or has the view the hub knows, or a new one.                         *)
IngestSnapshot(t, s) ==
  /\ bump_revision
  /\ \E gone, changed \in SUBSET Agents :
       /\ gone \cap changed = {}
       /\ agents' = [agents EXCEPT ![s] = [a \in Agents |->
            IF a \in gone THEN None
            ELSE IF a \in changed THEN [version |-> hub_revision + 1, stopped |-> FALSE]
            ELSE agents[s][a]]]
  /\ Committed(t, [kind |-> "SnapshotApplied", revision |-> hub_revision + 1])

Stopped(s, a) == agents[s][a] # None /\ agents[s][a].stopped

forget(t, s, a) ==
  /\ Stopped(s, a)
  /\ bump_revision
  /\ agents' = [agents EXCEPT ![s][a] = None]
  /\ Committed(t, [kind |-> "SnapshotApplied", revision |-> hub_revision + 1])

Fault == faults < MaxFaults /\ faults' = faults + 1

(* The stopped agents retention finds expired: no revision is taken. *)
Expire ==
  \E expired \in SUBSET {<<s, a>> \in Sources \X Agents : Stopped(s, a)} :
    agents' = [s \in Sources |-> [a \in Agents |->
                 IF <<s, a>> \in expired THEN None ELSE agents[s][a]]]

(* retention_task, which publishes nothing. *)
prune_retained ==
  /\ Fault
  /\ Expire
  /\ UNCHANGED <<hub_revision, publication, sent, listener, shown, router, routed>>

(* sender.send, after serve_connection or forget has returned. *)
Publish(t) ==
  /\ publication[t] # None
  /\ sent' = Append(sent, publication[t])
  /\ publication' = [publication EXCEPT ![t] = None]
  /\ UNCHANGED <<hub_revision, agents, listener, shown, router, routed, faults>>

-----------------------------------------------------------------------------
(* stream_merged, for a unix consumer or a paired device. *)

StreamStep == UNCHANGED <<hub_revision, agents, publication, sent, router, routed>>

(* The receiver is subscribed before the baseline is read. *)
Listen(l) ==
  /\ listener[l].phase = "off"
  /\ listener' = [listener EXCEPT ![l] = [phase |-> "baseline", at |-> Len(sent), since |-> 0]]
  /\ shown' = [shown EXCEPT ![l] = Nothing]
  /\ StreamStep /\ UNCHANGED faults

(* merged() is one read under the mutex. *)
send_baseline(l) ==
  /\ listener[l].phase = "baseline"
  /\ listener' = [listener EXCEPT ![l].phase = "stream", ![l].since = hub_revision]
  /\ shown' = [shown EXCEPT ![l] = agents]
  /\ StreamStep /\ UNCHANGED faults

Ready(l) ==
  /\ listener[l].phase = "stream"
  /\ Receivable(sent, listener[l].at, BROADCAST_CAPACITY)

Next_(l) == Received(sent, listener[l].at)

ReceiveUpdate(l) ==
  /\ Ready(l)
  /\ Next_(l).kind = "Update" /\ Next_(l).revision > listener[l].since
  /\ listener' = [listener EXCEPT ![l].at = @ + 1, ![l].since = Next_(l).revision]
  /\ shown' = [shown EXCEPT ![l][Next_(l).source][Next_(l).agent] = Next_(l).view]
  /\ StreamStep /\ UNCHANGED faults

ReceiveSnapshot(l) ==
  /\ Ready(l)
  /\ Next_(l).kind = "SnapshotApplied" /\ Next_(l).revision > listener[l].since
  /\ listener' = [listener EXCEPT ![l].at = @ + 1, ![l].phase = "baseline"]
  /\ StreamStep /\ UNCHANGED <<shown, faults>>

Skip(l) ==
  /\ Ready(l)
  /\ Next_(l).revision <= listener[l].since
  /\ listener' = [listener EXCEPT ![l].at = @ + 1]
  /\ StreamStep /\ UNCHANGED <<shown, faults>>

(* Mutant: a lagging listener goes on with what is left, as the router does. *)
Lag_Resume(l) ==
  /\ listener[l].phase = "stream"
  /\ Lagged(sent, listener[l].at, BROADCAST_CAPACITY)
  /\ listener' = [listener EXCEPT ![l].at = OldestKept(sent, BROADCAST_CAPACITY)]
  /\ StreamStep /\ UNCHANGED <<shown, faults>>

Lag(l) ==
  /\ listener[l].phase = "stream"
  /\ Lagged(sent, listener[l].at, BROADCAST_CAPACITY)
  /\ listener' = [listener EXCEPT ![l].at = OldestKept(sent, BROADCAST_CAPACITY),
                                  ![l].phase = "baseline"]
  /\ StreamStep /\ UNCHANGED <<shown, faults>>

(* The consumer closes its side, sends a second request, or is cancelled. *)
Close(l) ==
  /\ Fault
  /\ listener[l].phase # "off"
  /\ listener' = [listener EXCEPT ![l] = Off]
  /\ shown' = [shown EXCEPT ![l] = Nothing]
  /\ StreamStep

stream_merged(l) ==
  send_baseline(l) \/ ReceiveUpdate(l) \/ ReceiveSnapshot(l) \/ Skip(l) \/ Lag(l)

-----------------------------------------------------------------------------
(* The routing task: accepted updates are dispatched, lag is only logged. *)

Dispatch ==
  /\ Receivable(sent, router, BROADCAST_CAPACITY)
  /\ router' = router + 1
  /\ routed' = IF Received(sent, router).kind = "Update"
                 THEN routed \cup {Received(sent, router).revision} ELSE routed
  /\ UNCHANGED <<hub_revision, agents, publication, sent, listener, shown, faults>>

RouterLag ==
  /\ Lagged(sent, router, BROADCAST_CAPACITY)
  /\ router' = OldestKept(sent, BROADCAST_CAPACITY)
  /\ UNCHANGED <<hub_revision, agents, publication, sent, listener, shown, routed, faults>>

route_updates == Dispatch \/ RouterLag

(* The hub dies and is started again: the store is all that survives, and     *)
(* run_service prunes it first.                                               *)
Crash ==
  /\ Fault
  /\ Expire
  /\ publication' = [t \in Tasks |-> None] /\ sent' = <<>> /\ router' = 0
  /\ listener' = [l \in Listeners |-> Off] /\ shown' = [l \in Listeners |-> Nothing]
  /\ UNCHANGED <<hub_revision, routed>>

-----------------------------------------------------------------------------

Next ==
  \/ \E t \in Tasks :
       \/ Publish(t)
       \/ \E s \in Sources : IngestSnapshot(t, s) \/ \E a \in Agents : IngestUpdate(t, s, a) \/ forget(t, s, a)
  \/ \E l \in Listeners : Listen(l) \/ stream_merged(l) \/ Close(l)
  \/ route_updates
  \/ prune_retained \/ Crash

Spec == Init /\ [][Next]_vars

-----------------------------------------------------------------------------
(* Properties. *)

(* Every variable has its type. *)
TypeOK ==
  /\ hub_revision \in 0..MaxRevision /\ agents \in Table
  /\ publication \in [Tasks -> HubPublication \cup {None}]
  /\ sent \in Seq(HubPublication)
  /\ listener \in [Listeners -> [phase : Phases, at : 0..Len(sent), since : 0..hub_revision]]
  /\ shown \in [Listeners -> Table]
  /\ router \in 0..Len(sent) /\ routed \subseteq 1..MaxRevision /\ faults \in 0..MaxFaults

Quiet == \A t \in Tasks : publication[t] = None

(* What retention removed without telling anyone. *)
Pruned(l, s, a) == agents[s][a] = None /\ shown[l][s][a] # None /\ shown[l][s][a].stopped

(* listen.rs: "Emits a persisted merged baseline, then gap-free publications  *)
(* after the baseline revision". A listener that has received everything sent *)
(* shows what the store holds, except stopped agents that retention removed.  *)
GapFree ==
  \A l \in Listeners :
    listener[l].phase = "stream" /\ Caught(sent, listener[l].at) /\ Quiet =>
      \A s \in Sources, a \in Agents : shown[l][s][a] = agents[s][a] \/ Pruned(l, s, a)

(* The same for a consumer that follows the stream for long enough: from some *)
(* point on every listener shows the store's agents.                          *)
ListenerConverges ==
  <>[](\A l \in Listeners :
         listener[l].phase # "off" =>
           \A s \in Sources, a \in Agents : shown[l][s][a] = agents[s][a] \/ Pruned(l, s, a))

(* However commits and publications interleave, a stream never replaces a     *)
(* view by an older one: `since` only grows.                                  *)
ListenerNeverRegresses ==
  [][\A l \in Listeners, s \in Sources, a \in Agents :
       shown[l][s][a] # None /\ shown'[l][s][a] # None =>
         shown'[l][s][a].version >= shown[l][s][a].version]_vars

(* hub-event-routing: commands run for durably accepted updates, once each;   *)
(* a crash or a lag loses a dispatch and never repeats one.                   *)
RoutedOnce ==
  [][\A r \in 1..MaxRevision :
       r \in routed /\ router' = router + 1 /\ Received(sent, router).kind = "Update" =>
         Received(sent, router).revision # r]_vars
=============================================================================
