------------------------------- MODULE Broker -------------------------------
(***************************************************************************)
(* The broker's invocation state under everything that writes it: the      *)
(* wrapper's register, bind and exit requests, provider hooks, artifact    *)
(* enrichment, the periodic stale sweep, and a daemon that crashes at any  *)
(* point and reconciles when it starts again.                              *)
(*                                                                         *)
(* One action is one SQLite transaction of sessiontap-storage, one step of *)
(* the daemon's startup, one step of the wrapper, or a fault. Rows are the *)
(* invocations table; what a row becomes is defined in Reducer. Broker     *)
(* revisions and the outbox are the subject of Delivery.                   *)
(***************************************************************************)
EXTENDS Reducer

CONSTANTS
  Invocations,    \* wrapper launches
  EventIds,       \* event ids; bounds how many events are committed
  HookEvents,     \* events hooks and the side channel may send
  ArtifactEvents, \* events the usage coordinator may apply
  MaxClock,       \* bound on the clock
  MaxCrashes      \* bound on daemon crashes

ASSUME BrokerAssumption ==
  /\ MaxClock \in Nat
  /\ MaxCrashes \in Nat

(* The shape of the events the adapters and the coordinator build: a tool     *)
(* starts only with working or waiting-for-input activity, and usage figures  *)
(* are those of the session the event names.                                  *)
ASSUME EventAssumption ==
  /\ HookEvents \subseteq {e \in NormalizedEvent : e.channel \in HookChannels}
  /\ ArtifactEvents \subseteq {e \in NormalizedEvent :
       e.channel = "ProviderArtifact" /\ e.child = None /\ ~ e.context}
  /\ \A e \in HookEvents \cup ArtifactEvents :
       /\ e.usage # None => e.session = e.usage
       /\ e.kind # "SessionEnded"
       /\ e.tool # None /\ e.tool.phase = "Start" => e.kind \in {"Working", "WaitingInput"}
       /\ (e.sequence # None <=> e.source # None)

VARIABLES
  rows,       \* the invocations table
  reasons,    \* the local_status_reasons table
  dedup,      \* the event_dedup table
  clock,
  daemon,     \* phase of sessiontapd
  todo,       \* snapshots reconcile has still to visit
  sweep,      \* the stale sweep in progress: its time and the rows it selected
  enriching,  \* enrichment between its session check and its transaction
  process,    \* the provider process, as /proc shows it
  wrapper,    \* next step of `sessiontap <provider>`
  sent,       \* wrappers waiting for a response from the daemon
  crashes     \* daemon crashes so far

storage == <<rows, reasons, dedup>>
daemonState == <<daemon, todo, sweep, enriching, crashes>>
wrapperState == <<process, wrapper, sent>>
vars == <<storage, clock, daemonState, wrapperState>>

DaemonPhases == {"down", "reconciling", "expiring", "serving"}
ProcessStates == {"none", "running", "gone"}
WrapperSteps ==
  {"idle", "register", "spawn", "bind", "run", "exit", "done", "untracked", "dead"}

NoSweep == [now |-> 0, todo |-> {}]

(* Mutant: an exited process counts as running. *)
Running_NotLost(lifecycle) == lifecycle # "Lost"

Running(lifecycle) == lifecycle \in {"Starting", "Alive"}

Init ==
  /\ rows = [i \in Invocations |-> None]
  /\ reasons = [i \in Invocations |-> None]
  /\ dedup = {}
  /\ clock = 0
  /\ daemon = "down" /\ todo = {} /\ sweep = NoSweep /\ enriching = None
  /\ process = [i \in Invocations |-> "none"]
  /\ wrapper = [i \in Invocations |-> "idle"]
  /\ sent = {}
  /\ crashes = 0

-----------------------------------------------------------------------------
(* Storage transactions. *)

(* apply_transition: the row and its reason are written together. *)
apply_transition(i, t) ==
  /\ rows' = [rows EXCEPT ![i] = t.snapshot]
  /\ reasons' = [reasons EXCEPT ![i] = t.reason]

apply_event_with_context(i, id, e) ==
  /\ rows[i] # None
  /\ IF id \in dedup
       THEN UNCHANGED storage
       ELSE /\ apply_transition(i, apply_event(rows[i], reasons[i], e, clock))
            /\ dedup' = dedup \cup {id}

NewSnapshot ==
  [lifecycle |-> "Starting", activity |-> "Unknown", asserted_at |-> clock,
   confirmation |-> "Live", source_ordering |-> <<>>, tool |-> None, session |-> None,
   turn_id |-> None, usage |-> None, children |-> {}, child_pid |-> FALSE,
   turn_generation |-> 0, completed_generation |-> None]

-----------------------------------------------------------------------------
(* The wrapper: `sessiontap <provider>`. A request fails at once when nothing *)
(* listens on the socket; otherwise it waits, without a timeout, until the    *)
(* daemon answers or dies.                                                    *)

Step(i, step) == wrapper' = [wrapper EXCEPT ![i] = step]

(* What the wrapper does when its request fails. *)
AfterFailure(step) ==
  CASE step = "register" -> "untracked"
    [] step = "bind"     -> "run"
    [] step = "exit"     -> "done"

(* The launch is tracked when daemon_is_healthy gets its answer and the hooks  *)
(* are set up; a health request to a daemon that reconciles waits.            *)
Launch(i) ==
  /\ wrapper[i] = "idle" /\ daemon \in {"down", "serving"}
  /\ \/ daemon = "serving" /\ Step(i, "register")
     \/ Step(i, "untracked")
  /\ UNCHANGED <<storage, clock, daemonState, process, sent>>

(* Mutant: main binds the socket after reconcile. *)
Connect_BoundLate(i) ==
  /\ wrapper[i] \in {"register", "bind", "exit"} /\ i \notin sent
  /\ IF daemon # "serving"
       THEN Step(i, AfterFailure(wrapper[i])) /\ UNCHANGED sent
       ELSE sent' = sent \cup {i} /\ UNCHANGED wrapper
  /\ UNCHANGED <<storage, clock, daemonState, process>>

Connect(i) ==
  /\ wrapper[i] \in {"register", "bind", "exit"} /\ i \notin sent
  /\ IF daemon = "down"
       THEN Step(i, AfterFailure(wrapper[i])) /\ UNCHANGED sent
       ELSE sent' = sent \cup {i} /\ UNCHANGED wrapper
  /\ UNCHANGED <<storage, clock, daemonState, process>>

(* command.spawn(): on failure the wrapper returns without another request. *)
Spawn(i) ==
  /\ wrapper[i] = "spawn"
  /\ \/ Step(i, "bind") /\ process' = [process EXCEPT ![i] = "running"]
     \/ Step(i, "dead") /\ UNCHANGED process
  /\ UNCHANGED <<storage, clock, daemonState, sent>>

(* The process leaves the process table when its parent has waited for it. *)
ProcessExit(i) ==
  /\ process[i] = "running" /\ wrapper[i] \in {"run", "dead"}
  /\ process' = [process EXCEPT ![i] = "gone"]
  /\ Step(i, IF wrapper[i] = "run" THEN "exit" ELSE "dead")
  /\ UNCHANGED <<storage, clock, daemonState, sent>>

(* A wrapper with a request outstanding may die too: that request is then     *)
(* served or lost as it would have been, so dying after it is the same.       *)
WrapperKilled(i) ==
  /\ wrapper[i] \in {"spawn", "bind", "run", "exit"} /\ i \notin sent
  /\ Step(i, "dead")
  /\ UNCHANGED <<storage, clock, daemonState, process, sent>>

-----------------------------------------------------------------------------
(* Requests the daemon serves. *)

Answer(i, step) == Step(i, step) /\ sent' = sent \ {i}

ServeRegister(i) ==
  /\ daemon = "serving" /\ i \in sent /\ wrapper[i] = "register"
  /\ apply_transition(i, [snapshot |-> NewSnapshot, reason |-> None])
  /\ Answer(i, "spawn")
  /\ UNCHANGED <<dedup, clock, daemonState, process>>

bind_child(i) ==
  /\ daemon = "serving" /\ i \in sent /\ wrapper[i] = "bind"
  /\ IF rows[i] = None
       THEN UNCHANGED <<rows, reasons>>
       ELSE apply_transition(i, local_bind(rows[i], reasons[i]))
  /\ Answer(i, "run")
  /\ UNCHANGED <<dedup, clock, daemonState, process>>

mark_exit(i) ==
  /\ daemon = "serving" /\ i \in sent /\ wrapper[i] = "exit"
  /\ IF rows[i] = None
       THEN UNCHANGED <<rows, reasons>>
       ELSE apply_transition(i, local_exit(rows[i], reasons[i]))
  /\ Answer(i, "done")
  /\ UNCHANGED <<dedup, clock, daemonState, process>>

(* A hook runs in the provider's environment, so only a tracked launch sends  *)
(* events; one already sent may be served after the process has gone.         *)
ingest_hook(i, id, e) ==
  /\ daemon = "serving" /\ process[i] # "none"
  /\ apply_event_with_context(i, id, e)
  /\ UNCHANGED <<clock, daemonState, wrapperState>>

(* apply_enrichment compares sessions in one read and writes in a later       *)
(* transaction, which does not compare again.                                 *)
EnrichmentChecked(i, e) ==
  /\ daemon = "serving" /\ enriching = None /\ process[i] # "none"
  /\ rows[i] # None /\ rows[i].session = e.session
  /\ enriching' = [invocation |-> i, event |-> e]
  /\ UNCHANGED <<storage, clock, daemon, todo, sweep, crashes, wrapperState>>

apply_enrichment(id) ==
  /\ daemon = "serving" /\ enriching # None
  /\ apply_event_with_context(enriching.invocation, id, enriching.event)
  /\ enriching' = None
  /\ UNCHANGED <<clock, daemon, todo, sweep, crashes, wrapperState>>

-----------------------------------------------------------------------------
(* The stale sweep: one read selects the rows, then each row has a            *)
(* transaction of its own that decides again, at the time of the read.        *)

Sweep(now, pending) == IF pending = {} THEN NoSweep ELSE [now |-> now, todo |-> pending]

SelectStale(now) ==
  Sweep(now, {i \in Invocations : rows[i] # None /\ is_stale(rows[i], now)})

stale_working_worker ==
  /\ daemon = "serving" /\ sweep.todo = {}
  /\ sweep' = SelectStale(clock)
  /\ UNCHANGED <<storage, clock, daemon, todo, enriching, crashes, wrapperState>>

expire_stale_working_at(i) ==
  /\ daemon \in {"expiring", "serving"} /\ i \in sweep.todo
  /\ apply_transition(i, expire_stale_working(rows[i], reasons[i], sweep.now))
  /\ sweep' = Sweep(sweep.now, sweep.todo \ {i})
  /\ UNCHANGED <<dedup, clock, daemon, todo, enriching, crashes, wrapperState>>

-----------------------------------------------------------------------------
(* The daemon stops, starts and reconciles. *)

(* Every connection fails with the daemon; committed transactions stay.       *)
Disconnected ==
  [i \in Invocations |-> IF i \in sent THEN AfterFailure(wrapper[i]) ELSE wrapper[i]]

Stopped ==
  /\ daemon # "down" /\ crashes < MaxCrashes
  /\ daemon' = "down" /\ todo' = {} /\ sweep' = NoSweep /\ enriching' = None
  /\ crashes' = crashes + 1
  /\ wrapper' = Disconnected /\ sent' = {}

Crash ==
  /\ Stopped
  /\ UNCHANGED <<storage, clock, process>>

(* The registration is committed but its response never leaves the daemon. *)
CrashAfterRegister(i) ==
  /\ daemon = "serving" /\ i \in sent /\ wrapper[i] = "register"
  /\ Stopped
  /\ apply_transition(i, [snapshot |-> NewSnapshot, reason |-> None])
  /\ UNCHANGED <<dedup, clock, process>>

(* The socket is bound, so requests connect and wait, before reconcile runs.  *)
(* No request is accepted until it is done: a row still has, when reconcile   *)
(* visits it, the value it had when the snapshots were read.                  *)
Start ==
  /\ daemon = "down"
  /\ daemon' = "reconciling"
  /\ todo' = {i \in Invocations : rows[i] # None}
  /\ UNCHANGED <<storage, clock, sweep, enriching, crashes, wrapperState>>

process_alive(i) == rows[i].child_pid /\ process[i] = "running"

reconcile(i) ==
  /\ daemon = "reconciling" /\ i \in todo
  /\ todo' = todo \ {i}
  /\ CASE Running(rows[i].lifecycle) /\ ~ process_alive(i) ->
              apply_transition(i, mark_lost(rows[i], reasons[i]))
       [] /\ Running(rows[i].lifecycle) /\ process_alive(i)
          /\ rows[i].activity \in {"Working"} \cup WaitingKinds ->
              apply_transition(i, [reason |-> reasons[i], snapshot |->
                [rows[i] EXCEPT !.confirmation = "RestoredUnconfirmed"]])
       [] OTHER -> UNCHANGED <<rows, reasons>>
  /\ UNCHANGED <<dedup, clock, daemon, sweep, enriching, crashes, wrapperState>>

ReconcileExpire ==
  /\ daemon = "reconciling" /\ todo = {}
  /\ daemon' = "expiring"
  /\ sweep' = SelectStale(clock)
  /\ UNCHANGED <<storage, clock, todo, enriching, crashes, wrapperState>>

(* The end of reconcile deletes ended rows past their retention, whichever    *)
(* these are; the accept loop starts after it.                                *)
Accept ==
  /\ daemon = "expiring" /\ sweep.todo = {}
  /\ daemon' = "serving"
  /\ \E expired \in SUBSET {i \in Invocations : rows[i] # None /\ rows[i].lifecycle \in Ended} :
       /\ rows' = [i \in Invocations |-> IF i \in expired THEN None ELSE rows[i]]
       /\ reasons' = [i \in Invocations |-> IF i \in expired THEN None ELSE reasons[i]]
  /\ UNCHANGED <<dedup, clock, todo, sweep, enriching, crashes, wrapperState>>

Tick ==
  /\ clock < MaxClock
  /\ clock' = clock + 1
  /\ UNCHANGED <<storage, daemonState, wrapperState>>

-----------------------------------------------------------------------------

WrapperNext(i) ==
  \/ Launch(i) \/ Connect(i) \/ Spawn(i) \/ ProcessExit(i) \/ WrapperKilled(i)

ServeNext(i) ==
  \/ ServeRegister(i) \/ bind_child(i) \/ mark_exit(i)
  \/ \E id \in EventIds, e \in HookEvents : ingest_hook(i, id, e)
  \/ \E e \in ArtifactEvents : EnrichmentChecked(i, e)

DaemonNext ==
  \/ \E id \in EventIds : apply_enrichment(id)
  \/ stale_working_worker
  \/ \E i \in Invocations : expire_stale_working_at(i)
  \/ Crash
  \/ \E i \in Invocations : CrashAfterRegister(i)
  \/ Start
  \/ \E i \in Invocations : reconcile(i)
  \/ ReconcileExpire
  \/ Accept

Next ==
  \/ \E i \in Invocations : WrapperNext(i) \/ ServeNext(i)
  \/ DaemonNext
  \/ Tick

Spec == Init /\ [][Next]_vars

(* Time passes and the sweep worker's interval fires; its loop visits every   *)
(* row it selected.                                                           *)
Fairness ==
  /\ WF_vars(Tick)
  /\ WF_vars(stale_working_worker)
  /\ \A i \in Invocations : WF_vars(expire_stale_working_at(i))

FairSpec == Spec /\ Fairness

-----------------------------------------------------------------------------
(* Invariants. *)

Present == {i \in Invocations : rows[i] # None}

(* Every variable has its type: rows are invocation snapshots, and the        *)
(* requests outstanding are those of wrappers that are at a request.          *)
TypeOK ==
  /\ rows \in [Invocations -> Option(InvocationSnapshot)]
  /\ reasons \in [Invocations -> Option(ReasonKinds)]
  /\ dedup \subseteq EventIds
  /\ clock \in Nat
  /\ daemon \in DaemonPhases
  /\ todo \subseteq Invocations
  /\ sweep \in [now : Nat, todo : SUBSET Invocations]
  /\ enriching \in Option([invocation : Invocations, event : ArtifactEvents])
  /\ process \in [Invocations -> ProcessStates]
  /\ wrapper \in [Invocations -> WrapperSteps]
  /\ sent \subseteq {i \in Invocations : wrapper[i] \in {"register", "bind", "exit"}}
  /\ crashes \in Nat

(* The stored status reason always explains the stored activity: a waiting    *)
(* reason belongs to exactly that wait in a process that has not ended, an    *)
(* outcome to a stopped turn (the reason row and the snapshot are separate    *)
(* writes of apply_transition, kept in step by apply_event, local_mutation,   *)
(* mark_lost and expire_stale_working).                                       *)
ReasonMatchesActivity ==
  \A i \in Invocations :
    /\ reasons[i] # None => rows[i] # None
    /\ reasons[i] \in WaitingKinds =>
         rows[i].activity = reasons[i] /\ Running(rows[i].lifecycle)
    /\ reasons[i] \in TerminalKinds => rows[i].activity = "Stopped"

(* A turn that is marked completed is never shown as working or waiting, and  *)
(* a stopped activity always belongs to a completed turn, whatever events     *)
(* arrive late (the terminal_for_turn guard of apply_event).                  *)
TerminalTurnIsQuiet ==
  \A i \in Present :
    LET s == rows[i] IN
      /\ s.completed_generation \in {None, s.turn_generation}
      /\ TerminalForTurn(s) => s.activity \in {"Stopped", "Idle"}
      /\ s.activity = "Stopped" => TerminalForTurn(s)

(* A tool is shown as current only while its process has not ended and its    *)
(* turn is working or waiting: no exit, loss, expiry, turn end or session     *)
(* change leaves one behind (reduce_tool_activity and the four places that    *)
(* clear current_tool_activity).                                              *)
ToolIsLive ==
  \A i \in Present :
    rows[i].tool # None =>
      /\ Running(rows[i].lifecycle)
      /\ rows[i].activity \in {"Working"} \cup WaitingKinds

(* Usage figures are those of the provider session the row shows, although    *)
(* they are collected asynchronously (the is_new reset in reduce and the      *)
(* stale-session guard that follows apply_enrichment's check).                *)
UsageOfCurrentSession ==
  \A i \in Present : rows[i].usage # None => rows[i].usage = rows[i].session

(* The children of a row belong to its provider session, are within the cap,  *)
(* have distinct ids, and are gone once the process has ended (reduce_child   *)
(* and the clears in reduce, mark_lost and local_mutation).                   *)
ChildrenOfCurrentSession ==
  \A i \in Present :
    LET s == rows[i] IN
      /\ s.lifecycle \in Ended => s.children = {}
      /\ Cardinality(s.children) <= CHILD_AGENTS_MAX
      /\ \A c, d \in s.children : c.agent_id = d.agent_id => c = d
      /\ \A c \in s.children : s.session # None => c.session \in {None, s.session}

(* A redelivered event opens no second turn: a row has at most one turn per   *)
(* distinct event id ever committed (the event_dedup check shares the         *)
(* transaction of the transition, across crashes).                            *)
TurnsCountedOnce ==
  \A i \in Present : rows[i].turn_generation <= Cardinality(dedup)

(* A row agrees with itself and with the tables beside it: its reason, turn,  *)
(* tool, usage, children and turn count, as stated above, through every       *)
(* order in which hooks, enrichment, sweep and reconcile commit.              *)
RowsAgree ==
  /\ ReasonMatchesActivity /\ TerminalTurnIsQuiet /\ ToolIsLive
  /\ UsageOfCurrentSession /\ ChildrenOfCurrentSession /\ TurnsCountedOnce

(* While the daemon serves, no row shows a process as running whose wrapper   *)
(* is through or gave up tracking: an exit the daemon missed while it was     *)
(* down is found by reconcile, and one that happens while reconcile runs      *)
(* waits on the socket that main binds first.                                 *)
NoZombie ==
  daemon = "serving" =>
    \A i \in Present : wrapper[i] \in {"done", "untracked"} => ~ Running(rows[i].lifecycle)

(* reducer.rs on mark_lost: "The supervised process disappeared without a     *)
(* lifecycle exit." A row is Lost only when its process is not running.       *)
LostMeansGone ==
  \A i \in Present : rows[i].lifecycle = "Lost" => process[i] # "running"

-----------------------------------------------------------------------------
(* Action properties. *)

Kept(i) == rows[i] # None /\ rows'[i] # None

(* Only a new turn leaves a completed one (reduce resets completed_generation *)
(* nowhere else).                                                             *)
OnlyNewTurnReopens ==
  [][\A i \in Invocations :
       Kept(i) /\ TerminalForTurn(rows[i]) /\ ~ TerminalForTurn(rows'[i])
         => rows'[i].turn_generation = rows[i].turn_generation + 1]_vars

(* An exit is final: no late bind, hook, sweep or reconcile revives the row.  *)
(* bind_child sets Alive unconditionally; that it cannot follow the exit is   *)
(* the order of the wrapper's requests.                                       *)
ExitedIsFinal ==
  [][\A i \in Invocations :
       Kept(i) /\ rows[i].lifecycle = "Exited" => rows'[i].lifecycle = "Exited"]_vars

(* What an ended row shows no longer changes: late hooks may only enrich it.  *)
EndedIsFrozen ==
  [][\A i \in Invocations :
       Kept(i) /\ rows[i].lifecycle \in Ended /\ rows'[i].lifecycle = rows[i].lifecycle =>
         /\ rows'[i].activity = rows[i].activity
         /\ rows'[i].tool = None /\ rows'[i].children = {}
         /\ rows'[i].turn_generation = rows[i].turn_generation
         /\ reasons'[i] = reasons[i]]_vars

(* The outcome of the last turn stays readable when the process ends, however *)
(* it ends (clear_unless in mark_lost and local_mutation).                    *)
OutcomeSurvivesExit ==
  [][\A i \in Invocations :
       Kept(i) /\ reasons[i] \in {"Completed", "Failed"} /\ rows'[i].lifecycle \in Ended
         => reasons'[i] = reasons[i]]_vars

(* The sweep never takes working state that was asserted within the window,   *)
(* even when the assertion commits between its read and its write             *)
(* (expire_stale_working decides again inside the transaction).               *)
SweepSparesAssertedWork ==
  [][\A i \in Invocations :
       Kept(i) /\ rows[i].activity = "Working" /\ rows'[i].activity = "Unknown"
         => clock >= rows[i].asserted_at + STALE_WORKING]_vars

(* Enrichment only adds figures, whatever happened between its check and its  *)
(* transaction: lifecycle, activity, turn, session, tool and children stay.   *)
EnrichmentIsInert ==
  [][enriching # None /\ enriching' = None /\ daemon' = daemon =>
       LET i == enriching.invocation IN
         /\ rows'[i] = [rows[i] EXCEPT !.usage = rows'[i].usage,
                                       !.source_ordering = rows'[i].source_ordering]
         /\ reasons' = reasons]_vars

(* No step rewrites what is settled: a finished turn, an ended row and its    *)
(* outcome stand, and upkeep (sweep, enrichment) touches only its own part.   *)
HistoryStands ==
  /\ OnlyNewTurnReopens /\ ExitedIsFinal /\ EndedIsFrozen /\ OutcomeSurvivesExit
  /\ SweepSparesAssertedWork /\ EnrichmentIsInert

-----------------------------------------------------------------------------
(* Liveness. *)

SilentSince(i, t) ==
  i \in Present /\ rows[i].lifecycle = "Alive" /\ rows[i].activity = "Working"
    /\ rows[i].asserted_at = t

(* Working state that nothing asserts again is not shown for ever: if the     *)
(* daemon stays up, it is asserted again, changed, or expired by the sweep.   *)
(* Assertions too late for the clock's bound to show their expiry are left    *)
(* out.                                                                       *)
SilentWorkExpires ==
  <>[](daemon = "serving") =>
    \A i \in Invocations : \A t \in 0 .. MaxClock - STALE_WORKING :
      SilentSince(i, t) ~> ~ SilentSince(i, t)

=============================================================================
