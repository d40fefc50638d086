------------------------------ MODULE Reducer ------------------------------
(***************************************************************************)
(* The state reducer of sessiontap-core: how one committed invocation      *)
(* snapshot and its current status reason change under a provider event, a *)
(* local process observation and the stale sweep.                          *)
(*                                                                         *)
(* The operators keep the names of crates/sessiontap-core/src/reducer.rs.  *)
(* A status reason is the kind of the event that set it (its text is not   *)
(* modelled) and the operators return the reason that results, that is,    *)
(* ReasonEffect already resolved against the prior one.                    *)
(*                                                                         *)
(* Data abstractions: times are ticks; a usage figure is the provider      *)
(* session it was measured in; a child agent remembers the session of the  *)
(* event that created it; a tool is its label and correlation id.          *)
(***************************************************************************)
EXTENDS Integers, Sequences, FiniteSets

CONSTANTS
  None,                    \* absent Option value
  SessionIds,              \* provider session ids
  TurnIds,                 \* provider turn ids
  ToolLabels,              \* normalized tool labels
  CorrelationIds,          \* provider tool-call ids
  AgentIds,                \* child agent ids, ordered like the strings they stand for
  Sources,                 \* (channel, collector revision, collector instance) triples
  CHILD_AGENTS_MAX,        \* 32 in the code
  SOURCE_ORDER_CURSOR_MAX, \* 32 in the code
  STALE_WORKING            \* STALE_WORKING_MINUTES, in ticks

ASSUME BoundsAssumption ==
  /\ CHILD_AGENTS_MAX \in Nat \ {0}
  /\ SOURCE_ORDER_CURSOR_MAX \in Nat \ {0}
  /\ STALE_WORKING \in Nat \ {0}
  /\ AgentIds \subseteq Nat

Option(S) == S \cup {None}

-----------------------------------------------------------------------------
(* Vocabulary (domain.rs). *)

Lifecycles == {"Starting", "Alive", "Exited", "Lost"}
Ended == {"Exited", "Lost"}

WaitingKinds == {"WaitingInput", "WaitingApproval"}
TerminalKinds == {"Completed", "Failed", "Interrupted"}
AuthoritativeKinds ==
  {"NewTurn", "Working", "Idle", "ProviderSessionStarted"}
    \cup WaitingKinds \cup TerminalKinds
EventKinds ==
  AuthoritativeKinds \cup {"ProviderSessionEnded", "SessionEnded", "Enrichment"}
ReasonKinds == WaitingKinds \cup TerminalKinds

Activities == {"Unknown", "Idle", "Working", "Stopped"} \cup WaitingKinds

HookChannels == {"ManagedHook", "SideChannel"}
EvidenceChannels == HookChannels \cup {"ProcessObservation", "ProviderArtifact"}

ToolPhases == {"Start", "Progress", "Attention", "Finish", "Failure"}
CurrentToolActivity == [label : ToolLabels, correlation_id : Option(CorrelationIds)]
ToolActivityUpdate ==
  [phase : ToolPhases, label : ToolLabels, correlation_id : Option(CorrelationIds)]

ChildActivities == {"Running", "Blocked", "Stopped"}
ChildAgentState ==
  [agent_id : AgentIds, activity : ChildActivities, started_at : Nat,
   updated_at : Nat, session : Option(SessionIds)]

SourceOrderCursor == [source : Sources, sequence : Nat]

InvocationSnapshot ==
  [lifecycle : Lifecycles, activity : Activities, asserted_at : Nat,
   confirmation : {"Live", "RestoredUnconfirmed"},
   source_ordering : Seq(SourceOrderCursor),
   tool : Option(CurrentToolActivity), session : Option(SessionIds),
   turn_id : Option(TurnIds), usage : Option(SessionIds),
   children : SUBSET ChildAgentState, child_pid : BOOLEAN,
   turn_generation : Nat, completed_generation : Option(Nat)]

ASSUME NoneAssumption ==
  /\ None \notin SessionIds \cup TurnIds \cup ToolLabels \cup CorrelationIds
  /\ None \notin Sources \cup AgentIds \cup Nat
  /\ None \notin EventKinds \cup ChildActivities
  /\ None \notin InvocationSnapshot

(* `context` says whether a status reason came with the event. *)
NormalizedEvent ==
  [kind : EventKinds, channel : EvidenceChannels, session : Option(SessionIds),
   turn_id : Option(TurnIds), tool : Option(ToolActivityUpdate),
   usage : Option(SessionIds), context : BOOLEAN, child : Option(AgentIds),
   source : Option(Sources), sequence : Option(Nat)]

clear_unless(reason, retained) == IF reason \in retained THEN reason ELSE None

-----------------------------------------------------------------------------
(* Which parts of an event its channel may assert. *)

event_with_channel_authority(e) ==
  CASE e.channel \in HookChannels -> e
    [] e.channel = "ProcessObservation" ->
         [e EXCEPT !.kind = IF @ = "SessionEnded" THEN @ ELSE "Enrichment",
                   !.session = None, !.usage = None, !.turn_id = None, !.tool = None]
    [] e.channel = "ProviderArtifact" ->
         [e EXCEPT !.kind = "Enrichment", !.turn_id = None, !.tool = None]

authoritative_activity(kind, channel) ==
  channel \in HookChannels /\ kind \in AuthoritativeKinds

(* The event apply_event reduces: an ended process takes no activity and no   *)
(* tool, a terminal turn takes no tool.                                       *)
TerminalForTurn(s) == s.completed_generation = s.turn_generation

Effective(s, e) ==
  LET a == event_with_channel_authority(e)
      ended == s.lifecycle \in Ended
  IN  [a EXCEPT
        !.kind = IF ended /\ authoritative_activity(@, a.channel) THEN "Enrichment" ELSE @,
        !.tool = IF ended \/ TerminalForTurn(s) THEN None ELSE @]

-----------------------------------------------------------------------------
(* Guards against events that arrive late. *)

is_stale_source_order(cursors, e) ==
  /\ e.sequence # None
  /\ \E n \in DOMAIN cursors :
       cursors[n].source = e.source /\ e.sequence <= cursors[n].sequence

OtherSession(s, e) == e.session # None /\ s.session # None /\ s.session # e.session

StaleTurn(s, e) ==
  /\ e.turn_id # None /\ s.turn_id # None /\ s.turn_id # e.turn_id
  /\ e.kind # "NewTurn"

(* An update of the current cursor, or a new one in place of the oldest. *)
record_source_order(cursors, e) ==
  LET mine == {n \in DOMAIN cursors : cursors[n].source = e.source}
      kept == IF Len(cursors) = SOURCE_ORDER_CURSOR_MAX THEN Tail(cursors) ELSE cursors
  IN  IF e.sequence = None THEN cursors
      ELSE IF mine # {}
        THEN [n \in DOMAIN cursors |->
                IF n \in mine THEN [cursors[n] EXCEPT !.sequence = e.sequence] ELSE cursors[n]]
        ELSE Append(kept, [source |-> e.source, sequence |-> e.sequence])

-----------------------------------------------------------------------------
(* Root events. *)

(* Whether the event opens a provider session other than the current one. *)
NewSession(s, e) == e.session # None /\ s.session # e.session

matching_tool(current, update) ==
  IF current.correlation_id = None /\ update.correlation_id = None
    THEN current.label = update.label
    ELSE current.correlation_id = update.correlation_id

reduce_tool_activity(s, e) ==
  LET boundary == \/ NewSession(s, e)
                  \/ e.kind \in TerminalKinds
                  \/ e.kind \in {"NewTurn", "Idle", "ProviderSessionStarted",
                                 "ProviderSessionEnded", "SessionEnded"}
      current == IF boundary THEN None ELSE s.tool
      same == current # None /\ matching_tool(current, e.tool)
  IN  CASE e.tool = None -> current
        [] e.tool # None /\ e.tool.phase = "Start" ->
             IF same THEN current
             ELSE [label |-> e.tool.label, correlation_id |-> e.tool.correlation_id]
        [] e.tool # None /\ e.tool.phase \in {"Progress", "Attention"} -> current
        [] e.tool # None /\ e.tool.phase \in {"Finish", "Failure"} ->
             IF same THEN None ELSE current

ReduceActivity(s, kind) ==
  CASE kind = "NewTurn" -> "Working"
    [] kind \in {"Working"} \cup WaitingKinds ->
         IF TerminalForTurn(s) THEN s.activity ELSE kind
    [] kind \in TerminalKinds -> "Stopped"
    [] kind \in {"Idle", "ProviderSessionStarted"} -> "Idle"
    [] OTHER -> s.activity

ReduceCompleted(s, kind) ==
  CASE kind = "NewTurn" -> None
    [] kind \in TerminalKinds -> s.turn_generation
    [] OTHER -> s.completed_generation

ReduceChildren(s, e) ==
  IF e.kind \in {"NewTurn", "SessionEnded"} \/ NewSession(s, e) THEN {} ELSE s.children

ReduceUsage(s, e) ==
  IF e.usage # None THEN e.usage ELSE IF NewSession(s, e) THEN None ELSE s.usage

reduce(s, e, now) ==
  LET asserts == authoritative_activity(e.kind, e.channel)
  IN  [s EXCEPT
        !.tool = reduce_tool_activity(s, e),
        !.activity = ReduceActivity(s, e.kind),
        !.turn_generation = IF e.kind = "NewTurn" THEN @ + 1 ELSE @,
        !.completed_generation = ReduceCompleted(s, e.kind),
        !.lifecycle = IF e.kind = "SessionEnded" THEN "Exited" ELSE @,
        !.children = ReduceChildren(s, e),
        !.asserted_at = IF asserts THEN now ELSE @,
        !.confirmation = IF asserts THEN "Live" ELSE @,
        !.session = IF e.session # None THEN e.session ELSE @,
        !.turn_id = IF e.turn_id # None THEN e.turn_id ELSE @,
        !.usage = ReduceUsage(s, e),
        !.source_ordering = record_source_order(@, e)]

ReduceReason(reason, e) ==
  CASE e.kind \in ReasonKinds -> IF e.context THEN e.kind ELSE None
    [] e.kind \in {"NewTurn", "Working", "Idle", "ProviderSessionStarted"} -> None
    [] e.kind = "SessionEnded" -> clear_unless(reason, {"Completed", "Failed"})
    [] OTHER -> reason

SuppressedRoot(s, e) ==
  LET f == Effective(s, e)
  IN  \/ is_stale_source_order(s.source_ordering, e)
      \/ OtherSession(s, f) /\ f.kind # "ProviderSessionStarted"
      \/ StaleTurn(s, f)
      \/ TerminalForTurn(s) /\ f.kind \in {"Working"} \cup WaitingKinds \cup TerminalKinds

apply_root_event(s, reason, e, now) ==
  IF SuppressedRoot(s, e)
    THEN [snapshot |-> s, reason |-> reason]
    ELSE [snapshot |-> reduce(s, Effective(s, e), now),
          reason |-> ReduceReason(reason, Effective(s, e))]

-----------------------------------------------------------------------------
(* Child-agent events. *)

ChildActivity(kind) ==
  CASE kind \in {"NewTurn", "Working"} -> "Running"
    [] kind \in WaitingKinds            -> "Blocked"
    [] kind \in TerminalKinds           -> "Stopped"
    [] OTHER                            -> None

Older(a, b) ==
  \/ a.started_at < b.started_at
  \/ a.started_at = b.started_at /\ a.agent_id < b.agent_id

(* Makes room for one more child: drops the stopped child that started first. *)
EvictOldestStopped(children) ==
  LET stopped == {c \in children : c.activity = "Stopped"}
  IN  {c \in children : ~ /\ c \in stopped
                          /\ \A d \in stopped \ {c} : Older(c, d)}

(* A child seen for the first time at the cap replaces a stopped one, and is  *)
(* ignored when every child is still running or blocked.                      *)
reduce_child(s, e, now) ==
  LET activity == ChildActivity(e.kind)
      known == {c \in s.children : c.agent_id = e.child}
      kept == IF Cardinality(s.children) < CHILD_AGENTS_MAX
                THEN s.children ELSE EvictOldestStopped(s.children)
      started == [agent_id |-> e.child, activity |-> activity, started_at |-> now,
                  updated_at |-> now,
                  session |-> IF e.session # None THEN e.session ELSE s.session]
  IN  IF activity = None THEN s.children
      ELSE IF known # {}
        THEN {IF c \in known THEN [c EXCEPT !.activity = activity, !.updated_at = now] ELSE c
                : c \in s.children}
      ELSE IF Cardinality(kept) < CHILD_AGENTS_MAX
        THEN kept \cup {started}
      ELSE s.children

SuppressedChild(s, e) ==
  \/ is_stale_source_order(s.source_ordering, e)
  \/ OtherSession(s, event_with_channel_authority(e))

apply_child_event(s, reason, e, now) ==
  IF SuppressedChild(s, e)
    THEN [snapshot |-> s, reason |-> reason]
    ELSE [snapshot |-> [s EXCEPT
            !.children = IF s.lifecycle \in Ended THEN @
                         ELSE reduce_child(s, event_with_channel_authority(e), now),
            !.source_ordering = record_source_order(@, e)],
          reason |-> reason]

apply_event(s, reason, e, now) ==
  IF e.child # None
    THEN apply_child_event(s, reason, e, now)
    ELSE apply_root_event(s, reason, e, now)

-----------------------------------------------------------------------------
(* Local process observations and the stale sweep. *)

(* Mutant: the reason of a lost process stays. *)
mark_lost_KeepsReason(s, reason) ==
  [snapshot |-> [s EXCEPT !.lifecycle = "Lost", !.tool = None, !.children = {}],
   reason |-> reason]

mark_lost(s, reason) ==
  [snapshot |-> [s EXCEPT !.lifecycle = "Lost", !.tool = None, !.children = {}],
   reason |-> clear_unless(reason, {"Completed", "Failed"})]

(* local_mutation with the closure of mark_exit: the process has exited. *)
local_exit(s, reason) ==
  [snapshot |-> [s EXCEPT !.lifecycle = "Exited", !.tool = None, !.children = {}],
   reason |-> clear_unless(reason, TerminalKinds)]

(* local_mutation with the closure of bind_child: the process is alive. *)
local_bind(s, reason) ==
  [snapshot |-> [s EXCEPT !.lifecycle = "Alive", !.child_pid = TRUE],
   reason |-> reason]

is_stale_child(c, now) == c.activity = "Running" /\ now >= c.updated_at + STALE_WORKING

has_stale_children(s, now) == \E c \in s.children : is_stale_child(c, now)

(* Mutant: restored state is left alone. *)
is_stale_working_LiveOnly(s, now) ==
  s.lifecycle = "Alive" /\ s.activity = "Working" /\ now >= s.asserted_at + STALE_WORKING
    /\ s.confirmation = "Live"

is_stale_working(s, now) ==
  s.lifecycle = "Alive" /\ s.activity = "Working" /\ now >= s.asserted_at + STALE_WORKING

is_stale(s, now) == is_stale_working(s, now) \/ has_stale_children(s, now)

(* Nothing changes in a snapshot that is not stale. *)
expire_stale_working(s, reason, now) ==
  LET root == is_stale_working(s, now)
  IN  [snapshot |-> [s EXCEPT
         !.children = {c \in @ : ~ is_stale_child(c, now)},
         !.activity = IF root THEN "Unknown" ELSE @,
         !.tool = IF root THEN None ELSE @],
       reason |-> IF root THEN None ELSE reason]

=============================================================================
