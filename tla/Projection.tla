----------------------------- MODULE Projection -----------------------------
(***************************************************************************)
(* What observers see of an invocation: project_public makes the public    *)
(* view of a snapshot and its status reason, changed_public_fields and     *)
(* finalize say what a transition changed (core/domain.rs, reducer.rs),    *)
(* storage turns it into an update, and the hub's valid_public_reason      *)
(* decides whether it takes it.  The snapshot changes as Reducer says.     *)
(*                                                                         *)
(* Fields that never change (identity, provider, directory, creation,      *)
(* repository) are one field.  An observer is one that keeps only the      *)
(* fields an update names.                                                 *)
(***************************************************************************)
EXTENDS Reducer

CONSTANTS
  Pane,       \* the launch was interactive and in a multiplexer pane
  MaxClock,   \* bound on time
  MaxTurns    \* bound on turns

ProjectionAssumption == Pane \in BOOLEAN /\ MaxClock \in Nat /\ MaxTurns \in Nat

VARIABLES
  snapshot,   \* the stored snapshot
  reason,     \* the kind of the stored status reason
  updated_at, \* the snapshot's updated_at
  update,     \* the last update: its fields and the view, or None
  kept,       \* the view an observer has put together
  clock

vars == <<snapshot, reason, updated_at, update, kept, clock>>

-----------------------------------------------------------------------------
(* The projection. *)

derive_status(s) ==
  CASE s.lifecycle \in Ended -> "stopped"
    [] s.lifecycle = "Starting" -> "idle"
    [] s.lifecycle = "Alive" /\ s.activity \in WaitingKinds -> "blocked"
    [] s.lifecycle = "Alive" /\ s.activity = "Stopped" -> "stopped"
    [] s.lifecycle = "Alive" /\ s.activity = "Working" -> "running"
    [] OTHER -> "idle"

(* Mutant: the kind alone decides. *)
project_reason_AnyStatus(status, kind) ==
  CASE kind = "WaitingInput" -> "input"
    [] kind = "WaitingApproval" -> "approval"
    [] kind = "Completed" -> "completed"
    [] kind = "Failed" -> "failed"
    [] OTHER -> None

(* A reason is shown when its kind fits the status. *)
project_reason(status, kind) ==
  CASE status = "blocked" /\ kind = "WaitingInput" -> "input"
    [] status = "blocked" /\ kind = "WaitingApproval" -> "approval"
    [] status = "stopped" /\ kind = "Completed" -> "completed"
    [] status = "stopped" /\ kind = "Failed" -> "failed"
    [] OTHER -> None

terminal_live(s) == Pane /\ s.child_pid /\ s.lifecycle \in {"Alive", "Starting"}

(* Sorted by start, then by id; absent when there are none. *)
project_children(children) ==
  IF children = {} THEN None
  ELSE [i \in 1 .. Cardinality(children) |->
          LET c == CHOOSE c \in children : Cardinality({d \in children : Older(d, c)}) = i - 1
          IN  [agent_id |-> c.agent_id, status |-> c.activity, started_at |-> c.started_at,
               updated_at |-> c.updated_at]]

project_public(s, kind, at) ==
  [identity |-> TRUE, status |-> derive_status(s),
   reason |-> project_reason(derive_status(s), kind), updated_at |-> at,
   session |-> s.session, metadata |-> s.turn_id, usage |-> s.usage,
   children |-> project_children(s.children), terminal |-> terminal_live(s)]

PublicFields ==
  {"identity", "status", "reason", "updated_at", "session", "metadata", "usage", "children",
   "terminal"}

changed_public_fields(previous, current) ==
  IF previous = None THEN PublicFields
  ELSE {f \in PublicFields : previous[f] # current[f]}

(* updated_at moves only with something an observer can see. *)
finalize(prior, s, kind, at, now) ==
  LET provisional == project_public(s, kind, at)
      moved == IF changed_public_fields(prior, provisional) # {} THEN now ELSE at
      view == project_public(s, kind, moved)
  IN  [updated_at |-> moved, view |-> view, changed |-> changed_public_fields(prior, view)]

(* The hub's check of a view's status and reason. *)
valid_public_reason(view) ==
  \/ view.reason = None
  \/ view.status = "blocked" /\ view.reason \in {"input", "approval"}
  \/ view.status = "stopped" /\ view.reason \in {"completed", "failed"}

-----------------------------------------------------------------------------
(* Transitions. *)

NewSnapshot ==
  [lifecycle |-> "Starting", activity |-> "Unknown", asserted_at |-> 0,
   confirmation |-> "Live", source_ordering |-> <<>>, tool |-> None, session |-> None,
   turn_id |-> None, usage |-> None, children |-> {}, child_pid |-> FALSE,
   turn_generation |-> 0, completed_generation |-> None]

(* register: the first update names every field. *)
Init ==
  /\ snapshot = NewSnapshot /\ reason = None /\ updated_at = 0 /\ clock = 0
  /\ kept = project_public(NewSnapshot, None, 0)
  /\ update = [view |-> kept, changed |-> changed_public_fields(None, kept)]

Merge(view, changed, new) == [f \in PublicFields |-> IF f \in changed THEN new[f] ELSE view[f]]

(* apply_transition with the reducer's result. *)
Commit(outcome) ==
  \E result \in {outcome}, prior \in {project_public(snapshot, reason, updated_at)} :
    \E done \in {finalize(prior, result.snapshot, result.reason, updated_at, clock)} :
      /\ result.snapshot.turn_generation <= MaxTurns
      /\ snapshot' = result.snapshot
      /\ reason' = result.reason
      /\ updated_at' = done.updated_at
      /\ update' = IF done.changed = {} THEN None ELSE [view |-> done.view, changed |-> done.changed]
      /\ kept' = Merge(kept, done.changed, done.view)
      /\ UNCHANGED clock

Event(kind, session, turn, context, child, usage) ==
  [kind |-> kind, channel |-> "ManagedHook", session |-> session, turn_id |-> turn, tool |-> None,
   usage |-> usage, context |-> context, child |-> child, source |-> None, sequence |-> None]

apply_hook ==
  \E kind \in EventKinds, session \in Option(SessionIds), turn \in Option(TurnIds),
     context \in BOOLEAN, child \in Option(AgentIds), usage \in Option(SessionIds) :
    /\ turn # None => kind = "NewTurn"
    /\ context => kind \in ReasonKinds /\ child = None
    /\ usage # None => kind = "Enrichment" /\ usage = session /\ child = None
    /\ child # None => session = None /\ ChildActivity(kind) # None
    /\ Commit(apply_event(snapshot, reason, Event(kind, session, turn, context, child, usage), clock))

bind_child == ~ snapshot.child_pid /\ snapshot.lifecycle = "Starting" /\ Commit(local_bind(snapshot, reason))

mark_exit == snapshot.lifecycle \notin Ended /\ Commit(local_exit(snapshot, reason))

reconcile_lost == snapshot.lifecycle \notin Ended /\ Commit(mark_lost(snapshot, reason))

sweep == is_stale(snapshot, clock) /\ Commit(expire_stale_working(snapshot, reason, clock))

Tick ==
  /\ clock < MaxClock
  /\ clock' = clock + 1
  /\ UNCHANGED <<snapshot, reason, updated_at, update, kept>>

Next == apply_hook \/ bind_child \/ mark_exit \/ reconcile_lost \/ sweep \/ Tick

Spec == Init /\ [][Next]_vars

-----------------------------------------------------------------------------

TypeOK ==
  /\ snapshot.lifecycle \in Lifecycles /\ snapshot.activity \in Activities
  /\ reason \in Option(ReasonKinds)
  /\ updated_at \in 0 .. clock
  /\ update # None => update.changed \subseteq PublicFields /\ update.changed # {}

(* cli.md: "`view` updates with a ... deterministic non-empty `changed` public *)
(* field set": an observer that keeps only what updates name has the view a    *)
(* new baseline would give it.                                                 *)
ChangedIsEnough ==
  kept = project_public(snapshot, reason, updated_at)

(* finalize: "`updated_at` is bumped to `now` only when the projection differs": *)
(* a step no observer can see is no update, and moves no field of the view.    *)
OnlyVisibleStepsUpdate ==
  [][clock' = clock =>
       LET before == project_public(snapshot, reason, 0)
           after == project_public(snapshot', reason', 0)
       IN  (update' # None) = (before # after)]_vars

(* store.rs valid_public_reason: the hub takes every view the daemon makes.    *)
HubTakesEveryView ==
  update # None => valid_public_reason(update.view)

(* event-sinks: "The resulting complete public view no longer contains the     *)
(* prior blocked, completed, or failed reason": a reason that was not shown    *)
(* does not come back with a later status, without an event that sets one.     *)
HiddenReasonStaysHidden ==
  [][reason' = reason /\ snapshot'.lifecycle = snapshot.lifecycle
       /\ project_reason(derive_status(snapshot), reason) = None =>
     project_reason(derive_status(snapshot'), reason') = None]_vars
=============================================================================
