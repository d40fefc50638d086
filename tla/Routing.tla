------------------------------ MODULE Routing ------------------------------
(***************************************************************************)
(* Subscription commands of the hub: sessiontap-hub/src/routing.rs with    *)
(* route_updates of main.rs and the routing part of config.rs. Accepted    *)
(* updates arrive on the hub's broadcast channel; each matching one gets a *)
(* dispatch task that runs its commands in configuration order, and all    *)
(* tasks share the permits. An update is its number in the channel;        *)
(* UpdateOf gives its data.                                                *)
(***************************************************************************)
EXTENDS Broadcast, FiniteSets

CONSTANTS
  None,
  UpdateOf,        \* the accepted updates: [source, provider, status, reason, root, changed]
  Subscriptions,   \* the configured list: [criteria, changes, commands]
  max_concurrent_commands,
  BROADCAST_CAPACITY

MaxUpdates == Len(UpdateOf)

RoutingAssumption ==
  /\ BROADCAST_CAPACITY \in Nat \ {0} /\ max_concurrent_commands \in Nat
  \* HubConfig::validate refuses a subscription without commands
  /\ \A s \in DOMAIN Subscriptions : Subscriptions[s].commands # <<>>

VARIABLES
  sent,     \* the hub's broadcast channel: numbers of accepted updates
  router,   \* how many messages the routing task has passed
  task,     \* per update: [at, queue], the commands its dispatch task has left
  child,    \* per update: its command's process: none, running, exited, closed, killed
  permits,
  ran       \* per update: the commands it has started, in order

vars == <<sent, router, task, child, permits, ran>>

Updates == 1..MaxUpdates

(* CommandLimits::new keeps one permit at least. *)
Init ==
  /\ sent = <<>> /\ router = 0
  /\ task = [u \in Updates |-> [at |-> "none", queue |-> <<>>]]
  /\ child = [u \in Updates |-> "none"]
  /\ permits = IF max_concurrent_commands = 0 THEN 1 ELSE max_concurrent_commands
  /\ ran = [u \in Updates |-> <<>>]

-----------------------------------------------------------------------------
(* Matching                                                                *)

Lists == {"source", "provider", "status", "reason", "root"}


(* One list of MatchCriteria: empty, or it holds the update's value. An     *)
(* absent reason or repository is in no list.                               *)
Allows(criteria, field, update) ==
  criteria[field] = {} \/ (update[field] # None /\ update[field] \in criteria[field])

matches(subscription, update) ==
  /\ \A field \in Lists : Allows(subscription.criteria, field, update)
  /\ subscription.changes = {} \/ subscription.changes \cap update.changed # {}

(* The commands of the matching subscriptions, in configuration order. *)
Commands(update) ==
  LET Of[i \in 0..Len(Subscriptions)] ==
        IF i = 0 THEN <<>>
        ELSE Of[i - 1] \o IF matches(Subscriptions[i], update) THEN Subscriptions[i].commands ELSE <<>>
  IN Of[Len(Subscriptions)]

-----------------------------------------------------------------------------
(* The routing task                                                        *)

(* An update is durably accepted and published. *)
Publish ==
  /\ Len(sent) < MaxUpdates
  /\ sent' = Append(sent, Len(sent) + 1)
  /\ UNCHANGED <<router, task, child, permits, ran>>

(* route_updates: dispatch spawns a task and does not wait for it. *)
Route ==
  /\ Receivable(sent, router, BROADCAST_CAPACITY)
  /\ router' = router + 1
  /\ LET u == Received(sent, router)
     IN task' = IF Subscriptions = <<>> THEN task
                ELSE [task EXCEPT ![u] = [at |-> "next", queue |-> Commands(UpdateOf[u])]]
  /\ UNCHANGED <<sent, child, permits, ran>>

(* Lagged: logged, and the updates in between are not routed. *)
RouteLagged ==
  /\ Lagged(sent, router, BROADCAST_CAPACITY)
  /\ router' = OldestKept(sent, BROADCAST_CAPACITY)
  /\ UNCHANGED <<sent, task, child, permits, ran>>

-----------------------------------------------------------------------------
(* A dispatch task                                                         *)

(* The next command takes a permit and is spawned, or cannot be. *)
Start(u) ==
  /\ task[u].at = "next" /\ task[u].queue # <<>> /\ permits > 0
  /\ ran' = [ran EXCEPT ![u] = Append(@, Head(task[u].queue))]
  /\ \/ /\ permits' = permits - 1
        /\ child' = [child EXCEPT ![u] = "running"]
        /\ task' = [task EXCEPT ![u].at = "executing"]
     \/ /\ task' = [task EXCEPT ![u].queue = Tail(@)]
        /\ UNCHANGED <<permits, child>>
  /\ UNCHANGED <<sent, router>>

(* The process exits by itself, or closes its input and runs on. *)
Exit(u) ==
  /\ child[u] \in {"running", "closed"}
  /\ child' = [child EXCEPT ![u] = "exited"]
  /\ UNCHANGED <<sent, router, task, permits, ran>>

CloseInput(u) ==
  /\ child[u] = "running"
  /\ child' = [child EXCEPT ![u] = "closed"]
  /\ UNCHANGED <<sent, router, task, permits, ran>>

Released(killed) == permits + 1

(* execute returns: the command is over and the permit is given back. *)
Finish(u, killed) ==
  /\ task[u].at = "executing"
  /\ task' = [task EXCEPT ![u] = [at |-> "next", queue |-> Tail(@.queue)]]
  /\ child' = [child EXCEPT ![u] = IF killed THEN "killed" ELSE @]
  /\ permits' = Released(killed)
  /\ UNCHANGED <<sent, router, ran>>

Waited(u) == child[u] = "exited" /\ Finish(u, FALSE)


(* The timeout covers writing the envelope and waiting; the child is killed. *)
TimedOut(u) == child[u] \in {"running", "closed"} /\ Finish(u, TRUE)

(* Writing to a command that closed its input fails: kill_on_drop. *)
WriteFails(u) == child[u] = "closed" /\ Finish(u, TRUE)

Done(u) ==
  /\ task[u].at = "next" /\ task[u].queue = <<>>
  /\ task' = [task EXCEPT ![u].at = "done"]
  /\ UNCHANGED <<sent, router, child, permits, ran>>

-----------------------------------------------------------------------------
Next ==
  \/ Publish \/ Route \/ RouteLagged
  \/ \E u \in Updates : \/ Start(u) \/ Exit(u) \/ CloseInput(u) \/ Waited(u)
                        \/ TimedOut(u) \/ WriteFails(u) \/ Done(u)

Spec == Init /\ [][Next]_vars

-----------------------------------------------------------------------------
Running == {u \in Updates : child[u] \in {"running", "closed"} /\ task[u].at = "executing"}

(* The state has its declared shape. *)
TypeOK ==
  /\ router \in 0..Len(sent) /\ permits \in Nat
  /\ \A u \in Updates : /\ task[u].at \in {"none", "next", "executing", "done"}
                        /\ child[u] \in {"none", "running", "exited", "closed", "killed"}

(* At most max_concurrent_commands run at once across all deliveries, and   *)
(* no command outlives the permit it ran under (docs/hub.md "At most        *)
(* max_concurrent_commands ... run at once across all deliveries").         *)
BoundedCommands ==
  /\ Cardinality(Running) <= IF max_concurrent_commands = 0 THEN 1 ELSE max_concurrent_commands
  /\ \A u \in Updates : child[u] \in {"running", "closed"} => task[u].at = "executing"

(* What has been run for a delivery is a prefix of the commands a reader of *)
(* the configuration expects: every subscription whose criteria all hold,   *)
(* an absent value satisfying no list, in order, each once (spec.md         *)
(* "Different fields SHALL be combined by logical AND and values within one *)
(* field by logical OR").                                                   *)
Wanted(s, u) ==
  LET c == Subscriptions[s].criteria
      Has(field) == c[field] = {} \/ \E v \in c[field] : v = u[field] /\ v # None
  IN Has("source") /\ Has("provider") /\ Has("status") /\ Has("reason") /\ Has("root")
     /\ (Subscriptions[s].changes = {} \/ \E f \in u.changed : f \in Subscriptions[s].changes)

RunsInOrderOnce ==
  \A u \in Updates :
    LET wanted == {s \in DOMAIN Subscriptions : Wanted(s, UpdateOf[u])}
        Position(k) == CHOOSE p \in {<<s, i>> : s \in wanted, i \in 1..2} :
                         p[2] <= Len(Subscriptions[p[1]].commands)
                         /\ Subscriptions[p[1]].commands[p[2]] = ran[u][k]
    IN /\ \A k \in DOMAIN ran[u] : \E s \in wanted : \E i \in DOMAIN Subscriptions[s].commands :
             Subscriptions[s].commands[i] = ran[u][k]
       /\ \A j, k \in DOMAIN ran[u] : j < k =>
            \/ Position(j)[1] < Position(k)[1]
            \/ Position(j)[1] = Position(k)[1] /\ Position(j)[2] < Position(k)[2]

(* Excess commands wait and then run: every command of a delivery that was  *)
(* taken is started in the end, although other commands hang or fail.       *)
EveryCommandRuns ==
  \A u \in Updates : task[u].at # "none" ~> task[u].at = "done"
=============================================================================
