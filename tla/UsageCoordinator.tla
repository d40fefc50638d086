-------------------------- MODULE UsageCoordinator --------------------------
(***************************************************************************)
(* The daemon's usage coordinator: hooks schedule the collection of a      *)
(* provider session's artifact, one worker per session debounces, collects *)
(* and applies the result to the invocations bound to the session.         *)
(* `states` is one mutex, so every locked block of the code is one action; *)
(* time is left out: the debounce timer may fire at any moment.            *)
(***************************************************************************)
EXTENDS Naturals, FiniteSets

CONSTANTS
  None,
  Keys,          \* provider sessions (ProviderSessionKey)
  Invocations,
  Handlers,      \* hook requests served at the same time
  worker_limit,  \* daemon.collection_workers
  Resume,        \* whether an invocation may come back to a session it left
  MaxHooks,      \* bound on hooks
  MaxVersion,    \* bound on artifact versions
  MaxRestarts    \* bound on daemon restarts

CoordinatorAssumption ==
  /\ worker_limit \in Nat \ {0} /\ Resume \in BOOLEAN
  /\ MaxHooks \in Nat /\ MaxVersion \in Nat \ {0} /\ MaxRestarts \in Nat

VARIABLES
  session,   \* storage: per invocation, the provider session its snapshot names
  left,      \* per invocation, the sessions it has left
  applied,   \* storage: per invocation, the enrichment it shows
  dedup,     \* storage: event_dedup, a collection event is <<invocation, generation>>
  artifact,  \* provider: version of each session's artifact
  handler,   \* per handler: a hook that is committed and not yet scheduled
  invocation_keys, states, worker, notify, permits,
  settled,   \* history: per session, the generation last seen to its end
  hooks, restarts

stored == <<session, left, applied, dedup>>
vars == <<session, left, applied, dedup, artifact, handler, invocation_keys, states, worker,
          notify, permits, settled, hooks, restarts>>

Tokens == {"none", "live", "cancelled"}
SessionState ==
  [known : BOOLEAN, generation : Nat, cursor : 0..MaxVersion, bindings : SUBSET Invocations,
   cancellation : Tokens, worker_running : BOOLEAN]
Steps == {"none", "debounce", "unbound", "permit", "collect", "collected", "check", "apply",
          "cursor", "finish"}
Outcomes == {"None", "Complete", "Unchanged", "Cancelled", "Unsupported", "Failed"}

NoSession ==
  [known |-> FALSE, generation |-> 0, cursor |-> 0, bindings |-> {}, cancellation |-> "none",
   worker_running |-> FALSE]
NoWorker == [at |-> "none", generation |-> 0, outcome |-> "None", version |-> 0, todo |-> {}]

Empty ==
  /\ invocation_keys = [i \in Invocations |-> None]
  /\ states = [k \in Keys |-> NoSession] /\ worker = [k \in Keys |-> NoWorker]
  /\ notify = [k \in Keys |-> FALSE] /\ permits = worker_limit
  /\ handler = [h \in Handlers |-> None]

Init ==
  /\ session = [i \in Invocations |-> None] /\ left = [i \in Invocations |-> {}]
  /\ applied = [i \in Invocations |-> None] /\ dedup = {}
  /\ artifact = [k \in Keys |-> 1]
  /\ Empty
  /\ settled = [k \in Keys |-> 0]
  /\ hooks = 0 /\ restarts = 0

-----------------------------------------------------------------------------
(* ingest_hook commits the event, which may name a new session, and calls     *)
(* schedule afterwards.                                                       *)

Hook(h, i, k) ==
  /\ handler[h] = None
  /\ hooks < MaxHooks /\ hooks' = hooks + 1
  /\ Resume \/ k \notin left[i]
  /\ session' = [session EXCEPT ![i] = k]
  /\ left' = [left EXCEPT ![i] = IF session[i] \in {None, k} THEN @ ELSE @ \cup {session[i]}]
  /\ applied' = [applied EXCEPT ![i] = IF session[i] = k THEN @ ELSE None]
  /\ handler' = [handler EXCEPT ![h] = <<i, k>>]
  /\ UNCHANGED <<dedup, artifact, invocation_keys, states, worker, notify, permits, settled, restarts>>

Cancel(token) == IF token = "none" THEN "none" ELSE "cancelled"

(* The invocation leaves its old session. *)
Detach(i, k) ==
  [states EXCEPT ![k].bindings = @ \ {i}, ![k].generation = @ + 1, ![k].cancellation = Cancel(@)]

Bind(s, i, k) ==
  [s EXCEPT ![k].known = TRUE, ![k].generation = @ + 1, ![k].bindings = @ \cup {i},
            ![k].cancellation = Cancel(@), ![k].worker_running = TRUE]

schedule(h) ==
  \E i \in Invocations, k \in Keys :
    LET old == invocation_keys[i]
        moved == old \notin {None, k}
    IN  /\ handler[h] = <<i, k>>
        /\ invocation_keys' = [invocation_keys EXCEPT ![i] = k]
        /\ states' = Bind(IF moved THEN Detach(i, old) ELSE states, i, k)
        /\ notify' = [x \in Keys |-> notify[x] \/ x = k \/ (moved /\ x = old)]
        /\ worker' = [worker EXCEPT ![k] =
             IF states[k].worker_running THEN @ ELSE [NoWorker EXCEPT !.at = "debounce"]]
        /\ handler' = [handler EXCEPT ![h] = None]
        /\ UNCHANGED <<stored, artifact, permits, settled, hooks, restarts>>

-----------------------------------------------------------------------------
(* run: the worker of one session. *)

Step(k, at) == worker' = [worker EXCEPT ![k].at = at]
Fixed == UNCHANGED <<artifact, handler, invocation_keys, hooks, restarts>>
Unsettled == Fixed /\ UNCHANGED settled

(* select!: a notification starts the wait again ... *)
Notified(k) ==
  /\ worker[k].at = "debounce" /\ notify[k]
  /\ notify' = [notify EXCEPT ![k] = FALSE]
  /\ Unsettled /\ UNCHANGED <<stored, states, worker, permits>>

(* ... and the timer takes the generation that is collected. *)
TimerFires(k) ==
  /\ worker[k].at = "debounce"
  /\ states' = [states EXCEPT ![k].cancellation = "live"]
  /\ worker' = [worker EXCEPT ![k] =
       [NoWorker EXCEPT !.at = IF states[k].bindings = {} THEN "unbound" ELSE "permit",
                        !.generation = states[k].generation]]
  /\ Unsettled /\ UNCHANGED <<stored, notify, permits>>

(* finish: whether a newer generation is waiting. *)
Superseded(k) == states[k].generation # worker[k].generation

(* Nothing is bound: finish is called and its answer is not looked at. *)
FinishUnbound(k) ==
  /\ worker[k].at = "unbound"
  /\ states' = IF Superseded(k) THEN states ELSE [states EXCEPT ![k].worker_running = FALSE]
  /\ worker' = [worker EXCEPT ![k] = NoWorker]
  /\ Unsettled /\ UNCHANGED <<stored, notify, permits>>

Acquire(k) ==
  /\ worker[k].at = "permit" /\ permits > 0
  /\ \/ /\ states[k].cancellation = "cancelled"
        /\ Step(k, "debounce") /\ UNCHANGED permits
     \/ /\ states[k].cancellation # "cancelled"
        /\ Step(k, "collect") /\ permits' = permits - 1
  /\ Unsettled /\ UNCHANGED <<stored, states, notify>>

(* The provider's collector: see SessionArtifact of the adapters for what it  *)
(* answers. It returns Cancelled only when it was.                            *)
collect_session_data(k) ==
  /\ worker[k].at = "collect"
  /\ \E outcome \in Outcomes \ {"None"} :
       /\ outcome = "Cancelled" => states[k].cancellation = "cancelled"
       /\ outcome = "Unchanged" => states[k].cursor = artifact[k]
       /\ outcome = "Complete" => states[k].cursor # artifact[k]
       /\ worker' = [worker EXCEPT ![k].at = "collected", ![k].outcome = outcome,
                                   ![k].version = artifact[k]]
  /\ permits' = permits + 1
  /\ Unsettled /\ UNCHANGED <<stored, states, notify>>

Collected(k) ==
  LET current == ~ Superseded(k) /\ states[k].cancellation # "cancelled"
  IN  /\ worker[k].at = "collected"
      /\ states' = [states EXCEPT ![k].cancellation = "none"]
      /\ Step(k, CASE ~ current -> "debounce"
                   [] current /\ worker[k].outcome = "Complete" -> "check"
                   [] current /\ worker[k].outcome = "Unchanged" -> "cursor"
                   [] OTHER -> "finish")
      /\ Unsettled /\ UNCHANGED <<stored, notify, permits>>

(* apply_if_current: the generation is compared and the bindings are copied, *)
CheckCurrent(k) ==
  /\ worker[k].at = "check"
  /\ worker' = [worker EXCEPT ![k].at = IF Superseded(k) THEN "cursor" ELSE "apply",
                              ![k].todo = IF Superseded(k) THEN {} ELSE states[k].bindings]
  /\ Unsettled /\ UNCHANGED <<stored, states, notify, permits>>

(* Mutant: the session of the invocation is not compared again. *)
apply_enrichment_Unchecked(k, i) ==
  LET event == <<i, worker[k].generation>>
  IN  /\ worker[k].at = "apply" /\ i \in worker[k].todo
      /\ worker' = [worker EXCEPT ![k].todo = @ \ {i}]
      /\ IF event \notin dedup
           THEN /\ dedup' = dedup \cup {event}
                /\ applied' = [applied EXCEPT ![i] = <<k, worker[k].version>>]
           ELSE UNCHANGED <<dedup, applied>>
      /\ Unsettled /\ UNCHANGED <<session, left, states, notify, permits>>

(* and each binding gets an event, named after the generation, that storage   *)
(* drops when it has seen the name. (Broker splits this step in two.)         *)
apply_enrichment(k, i) ==
  LET event == <<i, worker[k].generation>>
  IN  /\ worker[k].at = "apply" /\ i \in worker[k].todo
      /\ worker' = [worker EXCEPT ![k].todo = @ \ {i}]
      /\ IF session[i] = k /\ event \notin dedup
           THEN /\ dedup' = dedup \cup {event}
                /\ applied' = [applied EXCEPT ![i] = <<k, worker[k].version>>]
           ELSE UNCHANGED <<dedup, applied>>
      /\ Unsettled /\ UNCHANGED <<session, left, states, notify, permits>>

Applied(k) ==
  /\ worker[k].at = "apply" /\ worker[k].todo = {}
  /\ Step(k, "cursor")
  /\ Unsettled /\ UNCHANGED <<stored, states, notify, permits>>

SetCursor(k) ==
  /\ worker[k].at = "cursor"
  /\ states' = IF Superseded(k) THEN states ELSE [states EXCEPT ![k].cursor = worker[k].version]
  /\ Step(k, "finish")
  /\ Unsettled /\ UNCHANGED <<stored, notify, permits>>


Finish(k) ==
  /\ worker[k].at = "finish"
  /\ settled' = [settled EXCEPT ![k] = worker[k].generation]
  /\ IF Superseded(k)
       THEN Step(k, "debounce") /\ UNCHANGED states
       ELSE /\ states' = [states EXCEPT ![k].worker_running = FALSE]
            /\ worker' = [worker EXCEPT ![k] = NoWorker]
  /\ Fixed /\ UNCHANGED <<stored, notify, permits>>

run(k) ==
  \/ Notified(k) \/ TimerFires(k) \/ FinishUnbound(k) \/ Acquire(k)
  \/ collect_session_data(k) \/ Collected(k) \/ CheckCurrent(k)
  \/ \E i \in Invocations : apply_enrichment(k, i)
  \/ Applied(k) \/ SetCursor(k) \/ Finish(k)

-----------------------------------------------------------------------------
(* The provider writes to its artifact; the daemon is killed and started. *)

ArtifactGrows(k) ==
  /\ artifact[k] < MaxVersion
  /\ artifact' = [artifact EXCEPT ![k] = @ + 1]
  /\ UNCHANGED <<stored, handler, invocation_keys, states, worker, notify, permits,
                 settled, hooks, restarts>>

Restart ==
  /\ restarts < MaxRestarts /\ restarts' = restarts + 1
  /\ invocation_keys' = [i \in Invocations |-> None]
  /\ states' = [k \in Keys |-> NoSession] /\ worker' = [k \in Keys |-> NoWorker]
  /\ notify' = [k \in Keys |-> FALSE] /\ permits' = worker_limit
  /\ handler' = [h \in Handlers |-> None] /\ settled' = [k \in Keys |-> 0]
  /\ UNCHANGED <<stored, artifact, hooks>>

Next ==
  \/ \E h \in Handlers : schedule(h) \/ \E i \in Invocations, k \in Keys : Hook(h, i, k)
  \/ \E k \in Keys : run(k) \/ ArtifactGrows(k)
  \/ Restart

Spec == Init /\ [][Next]_vars

-----------------------------------------------------------------------------
(* Properties. *)

(* Every variable has its type. *)
TypeOK ==
  /\ session \in [Invocations -> Keys \cup {None}]
  /\ applied \in [Invocations -> (Keys \X (1..MaxVersion)) \cup {None}]
  /\ artifact \in [Keys -> 1..MaxVersion]
  /\ states \in [Keys -> SessionState]
  /\ \A k \in Keys : worker[k].at \in Steps /\ worker[k].outcome \in Outcomes
  /\ permits \in 0..worker_limit

(* "no two collectors for one provider-qualified agent-session SHALL run      *)
(* concurrently": the flag that keeps schedule from starting a second worker  *)
(* is set for as long as a worker has steps to take, and every collection     *)
(* holds one of the permits.                                                  *)
OneCollector ==
  /\ \A k \in Keys : ~ states[k].worker_running => worker[k].at = "none"
  /\ permits + Cardinality({k \in Keys : worker[k].at = "collect"}) = worker_limit

(* "stale results SHALL NOT update it": an invocation only ever shows the     *)
(* enrichment of the session its snapshot names.                              *)
EnrichedBySession == \A i \in Invocations : applied[i] # None => applied[i][1] = session[i]

(* "applies its normalized result [...] to bindings that still pass           *)
(* revalidation": when a completed collection of the current generation is    *)
(* settled, every bound invocation still in the session shows it.             *)
CompletedIsApplied ==
  \A k \in Keys :
    worker[k].at = "cursor" /\ worker[k].outcome = "Complete" /\ ~ Superseded(k) =>
      \A i \in states[k].bindings : session[i] = k => applied[i] = <<k, worker[k].version>>

(* "reruns collection after the newest debounce interval": a session that was *)
(* scheduled is collected until no newer generation is waiting.               *)
NewestIsCollected ==
  <>[](\A k \in DOMAIN states : states[k].bindings # {} => settled[k] = states[k].generation)

=============================================================================
