---------------------------- MODULE BrokerProofs ----------------------------
(***************************************************************************)
(* What each function of the reducer preserves, for every snapshot, event  *)
(* and time (types, and the relations between the fields of a row), and    *)
(* the inductive invariant of Broker, for every set of invocations, events *)
(* and ids and every bound.                                                *)
(*                                                                         *)
(* TypeOK is not inductive: reconcile and the sweep write rows they        *)
(* selected earlier, so a type-correct step needs those rows still to be   *)
(* there. NoZombie is not either: it needs what a wrapper that is through  *)
(* says about its process, and which rows reconcile has already visited.   *)
(***************************************************************************)
EXTENDS Broker, TLAPS

-----------------------------------------------------------------------------
(* The types of what the reducer's functions return. *)

(* None is none of the reasons and activities. *)
LEMMA NoneIsNoKind ==
  None \notin WaitingKinds /\ None \notin TerminalKinds /\ None \notin Nat
BY NoneAssumption DEF EventKinds, AuthoritativeKinds

Transition == [snapshot : InvocationSnapshot, reason : Option(ReasonKinds)]

(* The order cursors stay a sequence of cursors: record_source_order replaces *)
(* one, or drops the head at the cap and appends.                             *)
LEMMA RecordSourceOrderType ==
  ASSUME NEW cursors \in Seq(SourceOrderCursor), NEW e \in NormalizedEvent,
         e.sequence # None => e.source # None
  PROVE  record_source_order(cursors, e) \in Seq(SourceOrderCursor)
<1> DEFINE mine == {n \in DOMAIN cursors : cursors[n].source = e.source}
           kept == IF Len(cursors) = SOURCE_ORDER_CURSOR_MAX THEN Tail(cursors) ELSE cursors
           new == [source |-> e.source, sequence |-> e.sequence]
           updated == [n \in DOMAIN cursors |->
             IF n \in mine THEN [cursors[n] EXCEPT !.sequence = e.sequence] ELSE cursors[n]]
<1>1. CASE e.sequence = None
  BY <1>1 DEF record_source_order
<1>2. CASE e.sequence # None
  <2>1. e.sequence \in Nat /\ e.source \in Sources
    BY <1>2 DEF NormalizedEvent, Option
  <2>2. updated \in Seq(SourceOrderCursor)
    <3>1. ASSUME NEW n \in DOMAIN cursors
          PROVE  updated[n] \in SourceOrderCursor
      <4>1. cursors[n] \in SourceOrderCursor
        OBVIOUS
      <4> QED
        BY <4>1, <2>1 DEF SourceOrderCursor
    <3>2. DOMAIN cursors = 1 .. Len(cursors) /\ Len(cursors) \in Nat
      OBVIOUS
    <3> QED
      BY <3>1, <3>2
  <2>3. kept \in Seq(SourceOrderCursor)
    <3>1. CASE Len(cursors) = SOURCE_ORDER_CURSOR_MAX
      <4>1. cursors # << >>
        BY <3>1, BoundsAssumption
      <4> QED
        BY <3>1, <4>1
    <3> QED
      BY <3>1
  <2>4. Append(kept, new) \in Seq(SourceOrderCursor)
    <3>1. new \in SourceOrderCursor
      BY <2>1 DEF SourceOrderCursor
    <3> QED
      BY <3>1, <2>3
  <2> QED
    BY <1>2, <2>2, <2>4 DEF record_source_order
<1> QED
  BY <1>1, <1>2

(* Restricting an event to what its channel may assert, and to what its       *)
(* process and turn still take, leaves an event.                              *)
LEMMA AuthorityType ==
  ASSUME NEW e \in NormalizedEvent
  PROVE  /\ event_with_channel_authority(e) \in NormalizedEvent
         /\ event_with_channel_authority(e).child = e.child
         /\ event_with_channel_authority(e).source = e.source
         /\ event_with_channel_authority(e).sequence = e.sequence
         /\ event_with_channel_authority(e).channel = e.channel
<1> USE DEF NormalizedEvent, Option
<1>1. "Enrichment" \in EventKinds /\ "SessionEnded" \in EventKinds
  BY DEF EventKinds
<1>2. CASE e.channel \in HookChannels
  BY <1>2 DEF event_with_channel_authority, HookChannels
<1>3. CASE e.channel = "ProcessObservation"
  <2> DEFINE kind == IF e.kind = "SessionEnded" THEN e.kind ELSE "Enrichment"
  <2>1. kind \in EventKinds
    BY <1>1
  <2>2. event_with_channel_authority(e) =
          [e EXCEPT !.kind = kind, !.session = None, !.usage = None, !.turn_id = None,
                    !.tool = None]
    BY <1>3 DEF event_with_channel_authority, HookChannels
  <2> HIDE DEF kind
  <2> QED
    BY <2>1, <2>2, Zenon
<1>4. CASE e.channel = "ProviderArtifact"
  BY <1>1, <1>4, Zenon DEF event_with_channel_authority, HookChannels
<1> QED
  BY <1>2, <1>3, <1>4 DEF EvidenceChannels

(* The event after authority and guards is an event of the same source. *)
LEMMA EffectiveType ==
  ASSUME NEW s \in InvocationSnapshot, NEW e \in NormalizedEvent
  PROVE  /\ Effective(s, e) \in NormalizedEvent
         /\ Effective(s, e).source = e.source
         /\ Effective(s, e).sequence = e.sequence
<1> DEFINE a == event_with_channel_authority(e)
<1>1. a \in NormalizedEvent /\ a.source = e.source /\ a.sequence = e.sequence
  BY AuthorityType
<1>2. "Enrichment" \in EventKinds
  BY DEF EventKinds
<1> HIDE DEF a
<1> DEFINE kind == IF s.lifecycle \in Ended /\ authoritative_activity(a.kind, a.channel)
                     THEN "Enrichment" ELSE a.kind
           tool == IF s.lifecycle \in Ended \/ TerminalForTurn(s) THEN None ELSE a.tool
<1>3. Effective(s, e) = [a EXCEPT !.kind = kind, !.tool = tool]
  BY DEF Effective, a
<1>4. kind \in EventKinds /\ tool \in Option(ToolActivityUpdate)
  BY <1>1, <1>2 DEF NormalizedEvent, Option
<1> HIDE DEF kind, tool
<1> QED
  BY <1>1, <1>3, <1>4, Zenon DEF NormalizedEvent

(* The current tool is absent or a tool, whichever phase arrives. *)
LEMMA ToolType ==
  ASSUME NEW s \in InvocationSnapshot, NEW e \in NormalizedEvent
  PROVE  reduce_tool_activity(s, e) \in Option(CurrentToolActivity)
<1>1. s.tool \in Option(CurrentToolActivity)
  BY DEF InvocationSnapshot
<1>2. CASE e.tool = None
  BY <1>1, <1>2 DEF reduce_tool_activity, Option
<1>3. CASE e.tool # None
  <2>1. e.tool \in ToolActivityUpdate
    BY <1>3 DEF NormalizedEvent, Option
  <2>2. [label |-> e.tool.label, correlation_id |-> e.tool.correlation_id]
          \in CurrentToolActivity
    BY <2>1 DEF ToolActivityUpdate, CurrentToolActivity
  <2>3. e.tool.phase \in ToolPhases
    BY <2>1 DEF ToolActivityUpdate
  <2> QED
    BY <1>1, <1>3, <2>2, <2>3 DEF reduce_tool_activity, Option, ToolPhases
<1> QED
  BY <1>2, <1>3

(* The activity reduce writes is an activity. *)
LEMMA ReduceActivityType ==
  ASSUME NEW s \in InvocationSnapshot, NEW kind \in EventKinds
  PROVE  ReduceActivity(s, kind) \in Activities
BY DEF ReduceActivity, InvocationSnapshot, EventKinds, AuthoritativeKinds, Activities,
       WaitingKinds, TerminalKinds

(* The completed turn reduce writes is a turn number or none. *)
LEMMA ReduceCompletedType ==
  ASSUME NEW s \in InvocationSnapshot, NEW kind \in EventKinds
  PROVE  ReduceCompleted(s, kind) \in Option(Nat)
BY DEF ReduceCompleted, InvocationSnapshot, Option, TerminalKinds

(* What reduce writes, field by field. *)
LEMMA ReduceFields ==
  ASSUME NEW s \in InvocationSnapshot, NEW e \in NormalizedEvent, NEW now \in Nat
  PROVE  LET t == reduce(s, e, now) IN
         /\ t.tool = reduce_tool_activity(s, e)
         /\ t.activity = ReduceActivity(s, e.kind)
         /\ t.turn_generation =
              IF e.kind = "NewTurn" THEN s.turn_generation + 1 ELSE s.turn_generation
         /\ t.completed_generation = ReduceCompleted(s, e.kind)
         /\ t.lifecycle = IF e.kind = "SessionEnded" THEN "Exited" ELSE s.lifecycle
         /\ t.children = ReduceChildren(s, e)
         /\ t.session = IF e.session # None THEN e.session ELSE s.session
         /\ t.usage = ReduceUsage(s, e)
         /\ t.child_pid = s.child_pid
BY DEF reduce, InvocationSnapshot

(* reduce returns a snapshot. *)
LEMMA ReduceType ==
  ASSUME NEW s \in InvocationSnapshot, NEW e \in NormalizedEvent, NEW now \in Nat,
         e.sequence # None => e.source # None
  PROVE  reduce(s, e, now) \in InvocationSnapshot
<1> DEFINE asserts == authoritative_activity(e.kind, e.channel)
           tool == reduce_tool_activity(s, e)
           activity == ReduceActivity(s, e.kind)
           turn == IF e.kind = "NewTurn" THEN s.turn_generation + 1 ELSE s.turn_generation
           completed == ReduceCompleted(s, e.kind)
           lifecycle == IF e.kind = "SessionEnded" THEN "Exited" ELSE s.lifecycle
           children == ReduceChildren(s, e)
           asserted_at == IF asserts THEN now ELSE s.asserted_at
           confirmation == IF asserts THEN "Live" ELSE s.confirmation
           session == IF e.session # None THEN e.session ELSE s.session
           turn_id == IF e.turn_id # None THEN e.turn_id ELSE s.turn_id
           usage == ReduceUsage(s, e)
           ordering == record_source_order(s.source_ordering, e)
<1>1. tool \in Option(CurrentToolActivity)
  BY ToolType
<1>2. activity \in Activities /\ completed \in Option(Nat)
  BY ReduceActivityType, ReduceCompletedType DEF NormalizedEvent
<1>3. turn \in Nat /\ lifecycle \in Lifecycles
  BY DEF InvocationSnapshot, Lifecycles
<1>4. children \in SUBSET ChildAgentState
  BY DEF ReduceChildren, InvocationSnapshot
<1>5. asserted_at \in Nat /\ confirmation \in {"Live", "RestoredUnconfirmed"}
  BY DEF InvocationSnapshot
<1>6. session \in Option(SessionIds) /\ turn_id \in Option(TurnIds)
  BY DEF InvocationSnapshot, NormalizedEvent
<1>7. usage \in Option(SessionIds)
  BY DEF ReduceUsage, InvocationSnapshot, NormalizedEvent, Option
<1>8. ordering \in Seq(SourceOrderCursor)
  BY RecordSourceOrderType DEF InvocationSnapshot
<1>9. reduce(s, e, now) =
        [s EXCEPT !.tool = tool, !.activity = activity, !.turn_generation = turn,
                  !.completed_generation = completed, !.lifecycle = lifecycle,
                  !.children = children, !.asserted_at = asserted_at,
                  !.confirmation = confirmation, !.session = session,
                  !.turn_id = turn_id, !.usage = usage, !.source_ordering = ordering]
  BY Zenon DEF reduce
<1> HIDE DEF asserts, tool, activity, turn, completed, lifecycle, children, asserted_at,
             confirmation, session, turn_id, usage, ordering
<1> DEFINE half == [s EXCEPT !.tool = tool, !.activity = activity, !.turn_generation = turn,
                             !.completed_generation = completed, !.lifecycle = lifecycle,
                             !.children = children]
<1>10. half \in InvocationSnapshot
  BY <1>1, <1>2, <1>3, <1>4, Zenon DEF InvocationSnapshot
<1> DEFINE rest == [half EXCEPT !.asserted_at = asserted_at, !.confirmation = confirmation,
                                !.session = session]
<1>11. reduce(s, e, now) =
         [rest EXCEPT !.turn_id = turn_id, !.usage = usage, !.source_ordering = ordering]
  BY <1>9, Zenon
<1> HIDE DEF half
<1>12. rest \in InvocationSnapshot
  BY <1>5, <1>6, <1>10, Zenon DEF InvocationSnapshot
<1> HIDE DEF rest
<1> QED
  BY <1>6, <1>7, <1>8, <1>11, <1>12, Zenon DEF InvocationSnapshot

(* Children stay child agents: known ones are updated in place, a new one is  *)
(* added, perhaps in place of a stopped one.                                  *)
LEMMA ReduceChildType ==
  ASSUME NEW s \in InvocationSnapshot, NEW e \in NormalizedEvent, NEW now \in Nat,
         e.child # None
  PROVE  reduce_child(s, e, now) \in SUBSET ChildAgentState
<1> DEFINE activity == ChildActivity(e.kind)
           known == {c \in s.children : c.agent_id = e.child}
           updated == {IF c \in known THEN [c EXCEPT !.activity = activity, !.updated_at = now]
                       ELSE c : c \in s.children}
           kept == IF Cardinality(s.children) < CHILD_AGENTS_MAX
                     THEN s.children ELSE EvictOldestStopped(s.children)
           started == [agent_id |-> e.child, activity |-> activity, started_at |-> now,
                       updated_at |-> now,
                       session |-> IF e.session # None THEN e.session ELSE s.session]
<1>1. s.children \subseteq ChildAgentState
  BY DEF InvocationSnapshot
<1>2. CASE activity = None
  BY <1>1, <1>2 DEF reduce_child
<1>3. CASE activity # None
  <2>1. activity \in ChildActivities
    BY <1>3 DEF ChildActivity, ChildActivities
  <2>2. updated \subseteq ChildAgentState
    <3>1. ASSUME NEW c \in s.children
          PROVE  (IF c \in known THEN [c EXCEPT !.activity = activity, !.updated_at = now]
                  ELSE c) \in ChildAgentState
      <4>1. c \in ChildAgentState
        BY <1>1
      <4> HIDE DEF activity, known
      <4> QED
        BY <4>1, <2>1, Zenon DEF ChildAgentState
    <3> QED
      BY <3>1, Zenon
  <2>3. kept \subseteq ChildAgentState
    BY <1>1 DEF EvictOldestStopped
  <2>4. started \in ChildAgentState
    BY <2>1 DEF ChildAgentState, InvocationSnapshot, NormalizedEvent, Option
  <2>5. reduce_child(s, e, now) \in {s.children, updated, kept \cup {started}}
    BY <1>3 DEF reduce_child
  <2> HIDE DEF updated, kept, started
  <2> QED
    BY <1>1, <2>2, <2>3, <2>4, <2>5
<1> QED
  BY <1>2, <1>3

(* The reason an event leaves is a reason or none. *)
LEMMA ReduceReasonType ==
  ASSUME NEW reason \in Option(ReasonKinds), NEW e \in NormalizedEvent
  PROVE  ReduceReason(reason, e) \in Option(ReasonKinds)
BY DEF ReduceReason, clear_unless, Option, ReasonKinds, WaitingKinds, TerminalKinds

(* An event takes a typed snapshot and reason to a typed snapshot and reason. *)
LEMMA ApplyEventType ==
  ASSUME NEW s \in InvocationSnapshot, NEW reason \in Option(ReasonKinds),
         NEW e \in NormalizedEvent, NEW now \in Nat,
         e.sequence # None => e.source # None
  PROVE  apply_event(s, reason, e, now) \in Transition
<1>1. [snapshot |-> s, reason |-> reason] \in Transition
  BY DEF Transition
<1>2. CASE e.child # None
  <2> DEFINE f == event_with_channel_authority(e)
             children == IF s.lifecycle \in Ended THEN s.children ELSE reduce_child(s, f, now)
             ordering == record_source_order(s.source_ordering, e)
  <2>1. f \in NormalizedEvent /\ f.child # None
    BY <1>2, AuthorityType
  <2>2. children \in SUBSET ChildAgentState
    BY <2>1, ReduceChildType DEF InvocationSnapshot
  <2>3. ordering \in Seq(SourceOrderCursor)
    BY RecordSourceOrderType DEF InvocationSnapshot
  <2>4. \/ apply_event(s, reason, e, now) = [snapshot |-> s, reason |-> reason]
        \/ apply_event(s, reason, e, now) =
             [snapshot |-> [s EXCEPT !.children = children, !.source_ordering = ordering],
              reason |-> reason]
    BY <1>2 DEF apply_event, apply_child_event
  <2> HIDE DEF children, ordering
  <2>5. [s EXCEPT !.children = children, !.source_ordering = ordering] \in InvocationSnapshot
    BY <2>2, <2>3, Zenon DEF InvocationSnapshot
  <2> QED
    BY <1>1, <2>4, <2>5 DEF Transition
<1>3. CASE e.child = None
  <2>1. Effective(s, e) \in NormalizedEvent
    BY EffectiveType
  <2>2. reduce(s, Effective(s, e), now) \in InvocationSnapshot
    BY <2>1, EffectiveType, ReduceType
  <2>3. ReduceReason(reason, Effective(s, e)) \in Option(ReasonKinds)
    BY <2>1, ReduceReasonType
  <2> QED
    BY <1>1, <1>3, <2>2, <2>3 DEF apply_event, apply_root_event, Transition
<1> QED
  BY <1>2, <1>3

(* Local observations, loss and expiry keep the types too. *)
LEMMA LocalTypes ==
  ASSUME NEW s \in InvocationSnapshot, NEW reason \in Option(ReasonKinds), NEW now \in Nat
  PROVE  /\ mark_lost(s, reason) \in Transition
         /\ local_exit(s, reason) \in Transition
         /\ local_bind(s, reason) \in Transition
         /\ expire_stale_working(s, reason, now) \in Transition
<1>1. \A retained : clear_unless(reason, retained) \in Option(ReasonKinds)
  BY DEF clear_unless, Option
<1>2. mark_lost(s, reason) \in Transition
  BY <1>1, Zenon DEF mark_lost, Transition, InvocationSnapshot, Lifecycles, Option
<1>3. local_exit(s, reason) \in Transition
  BY <1>1, Zenon DEF local_exit, Transition, InvocationSnapshot, Lifecycles, Option
<1>4. local_bind(s, reason) \in Transition
  BY Zenon DEF local_bind, Transition, InvocationSnapshot, Lifecycles
<1>5. expire_stale_working(s, reason, now) \in Transition
  <2> DEFINE children == {c \in s.children : ~ is_stale_child(c, now)}
             activity == IF is_stale_working(s, now) THEN "Unknown" ELSE s.activity
             tool == IF is_stale_working(s, now) THEN None ELSE s.tool
  <2>1. children \in SUBSET ChildAgentState
    BY DEF InvocationSnapshot
  <2>2. activity \in Activities /\ tool \in Option(CurrentToolActivity)
    BY DEF InvocationSnapshot, Activities, Option
  <2>3. expire_stale_working(s, reason, now) =
          [snapshot |-> [s EXCEPT !.children = children, !.activity = activity, !.tool = tool],
           reason |-> IF is_stale_working(s, now) THEN None ELSE reason]
    BY DEF expire_stale_working
  <2> HIDE DEF children, activity, tool
  <2>4. [s EXCEPT !.children = children, !.activity = activity, !.tool = tool]
          \in InvocationSnapshot
    BY <2>1, <2>2, Zenon DEF InvocationSnapshot
  <2> QED
    BY <2>3, <2>4 DEF Transition, Option
<1> QED
  BY <1>2, <1>3, <1>4, <1>5

-----------------------------------------------------------------------------
(* The relations between the fields of one row and its status reason. *)

ReasonRow(s, reason) ==
  /\ reason \in WaitingKinds => s.activity = reason /\ s.lifecycle \notin Ended
  /\ reason \in TerminalKinds => s.activity = "Stopped"

TurnRow(s) ==
  /\ s.completed_generation \in {None, s.turn_generation}
  /\ TerminalForTurn(s) => s.activity \in {"Stopped", "Idle"}
  /\ s.activity = "Stopped" => TerminalForTurn(s)

ToolRow(s) ==
  s.tool # None => s.lifecycle \notin Ended /\ s.activity \in {"Working"} \cup WaitingKinds

UsageRow(s) == s.usage # None => s.usage = s.session

RowInv(s, reason) ==
  ReasonRow(s, reason) /\ TurnRow(s) /\ ToolRow(s) /\ UsageRow(s)

(* The events adapters and the usage coordinator build. *)
WellFormed(e) ==
  /\ e.usage # None => e.session = e.usage
  /\ e.tool # None /\ e.tool.phase = "Start" => e.kind \in {"Working", "WaitingInput"}
  /\ e.channel = "ProviderArtifact" \/ e.channel \in HookChannels

(* What Effective leaves of a well-formed event: an ended process takes no    *)
(* activity and no tool, a terminal turn no tool.                             *)
LEMMA EffectiveShape ==
  ASSUME NEW s \in InvocationSnapshot, NEW e \in NormalizedEvent, WellFormed(e)
  PROVE  LET f == Effective(s, e) IN
         /\ f.usage # None => f.session = f.usage
         /\ f.tool # None /\ f.tool.phase = "Start" => f.kind \in {"Working", "WaitingInput"}
         /\ s.lifecycle \in Ended => f.kind \notin AuthoritativeKinds /\ f.tool = None
<1> DEFINE a == event_with_channel_authority(e)
<1>1. a \in NormalizedEvent
  BY AuthorityType
<1>2. /\ a.usage # None => a.session = a.usage
      /\ a.tool # None /\ a.tool.phase = "Start" => a.kind \in {"Working", "WaitingInput"}
      /\ a.kind \in AuthoritativeKinds => a.channel \in HookChannels
  <2>1. CASE e.channel \in HookChannels
    BY <2>1 DEF event_with_channel_authority, HookChannels, WellFormed
  <2>2. CASE e.channel = "ProviderArtifact"
    BY <2>2, Zenon DEF event_with_channel_authority, HookChannels, WellFormed, NormalizedEvent,
                AuthoritativeKinds, WaitingKinds, TerminalKinds
  <2> QED
    BY <2>1, <2>2 DEF WellFormed
<1> HIDE DEF a
<1> DEFINE f == [a EXCEPT
             !.kind = IF s.lifecycle \in Ended /\ authoritative_activity(a.kind, a.channel)
                        THEN "Enrichment" ELSE a.kind,
             !.tool = IF s.lifecycle \in Ended \/ TerminalForTurn(s) THEN None ELSE a.tool]
<1>3. Effective(s, e) = f
  BY DEF Effective, a
<1>4. /\ f.usage = a.usage /\ f.session = a.session
      /\ s.lifecycle \notin Ended => f.kind = a.kind
      /\ s.lifecycle \in Ended => f.tool = None
      /\ f.tool # None => f.tool = a.tool
  BY <1>1 DEF NormalizedEvent
<1>5. s.lifecycle \in Ended => f.kind \notin AuthoritativeKinds
  BY <1>1, <1>2 DEF NormalizedEvent, authoritative_activity, AuthoritativeKinds, WaitingKinds,
                    TerminalKinds
<1> QED
  BY <1>2, <1>3, <1>4, <1>5, Zenon

(* A root event that is not suppressed keeps the relations of its row. *)
LEMMA ReduceRow ==
  ASSUME NEW s \in InvocationSnapshot, NEW reason \in Option(ReasonKinds),
         NEW f \in NormalizedEvent, NEW now \in Nat,
         RowInv(s, reason),
         f.usage # None => f.session = f.usage,
         f.tool # None /\ f.tool.phase = "Start" => f.kind \in {"Working", "WaitingInput"},
         s.lifecycle \in Ended => f.kind \notin AuthoritativeKinds /\ f.tool = None,
         ~ (TerminalForTurn(s) /\ f.kind \in {"Working"} \cup WaitingKinds \cup TerminalKinds)
  PROVE  RowInv(reduce(s, f, now), ReduceReason(reason, f))
<1> DEFINE t == reduce(s, f, now)
<1>1. /\ t.tool = reduce_tool_activity(s, f)
      /\ t.activity = ReduceActivity(s, f.kind)
      /\ t.turn_generation =
           IF f.kind = "NewTurn" THEN s.turn_generation + 1 ELSE s.turn_generation
      /\ t.completed_generation = ReduceCompleted(s, f.kind)
      /\ t.lifecycle = IF f.kind = "SessionEnded" THEN "Exited" ELSE s.lifecycle
      /\ t.session = IF f.session # None THEN f.session ELSE s.session
      /\ t.usage = ReduceUsage(s, f)
  BY ReduceFields
<1>2. /\ f.kind \in EventKinds /\ s.activity \in Activities /\ s.lifecycle \in Lifecycles
      /\ s.turn_generation \in Nat
  BY DEF NormalizedEvent, InvocationSnapshot
<1> HIDE DEF t
<1>3. TurnRow(t)
  <2>1. TurnRow(s)
    BY DEF RowInv
  <2>2. CASE f.kind = "NewTurn"
    BY <1>1, <1>2, <2>2, NoneAssumption DEF TurnRow, TerminalForTurn, ReduceActivity,
       ReduceCompleted, TerminalKinds, WaitingKinds
  <2>3. CASE f.kind \in TerminalKinds
    BY <1>1, <1>2, <2>3 DEF TurnRow, TerminalForTurn, ReduceActivity, ReduceCompleted,
       TerminalKinds, WaitingKinds
  <2>4. CASE f.kind \notin TerminalKinds \cup {"NewTurn"}
    BY <1>1, <1>2, <2>1, <2>4 DEF TurnRow, TerminalForTurn, ReduceActivity, ReduceCompleted,
       TerminalKinds, WaitingKinds
  <2> QED
    BY <2>2, <2>3, <2>4
<1>4. ReasonRow(t, ReduceReason(reason, f))
  <2>1. ReasonRow(s, reason)
    BY DEF RowInv
  <2>2. CASE f.kind \in ReasonKinds
    <3>1. s.lifecycle \notin Ended
      BY <2>2 DEF ReasonKinds, AuthoritativeKinds
    <3>2. t.lifecycle = s.lifecycle
      BY <1>1, <2>2 DEF ReasonKinds, WaitingKinds, TerminalKinds
    <3>3. f.kind \in WaitingKinds => t.activity = f.kind
      BY <1>1 DEF ReduceActivity, WaitingKinds, TerminalKinds
    <3>4. f.kind \in TerminalKinds => t.activity = "Stopped"
      BY <1>1 DEF ReduceActivity, WaitingKinds, TerminalKinds
    <3>5. ReduceReason(reason, f) \in {f.kind, None}
      BY <2>2 DEF ReduceReason, ReasonKinds, WaitingKinds, TerminalKinds
    <3>6. None \notin WaitingKinds \cup TerminalKinds
      BY NoneIsNoKind
    <3> QED
      BY <3>1, <3>2, <3>3, <3>4, <3>5, <3>6 DEF ReasonRow
  <2>3. CASE f.kind \in {"NewTurn", "Working", "Idle", "ProviderSessionStarted"}
    <3>1. ReduceReason(reason, f) = None
      BY <2>3 DEF ReduceReason, ReasonKinds, WaitingKinds, TerminalKinds
    <3> QED
      BY <3>1, NoneIsNoKind DEF ReasonRow
  <2>4. CASE f.kind \in {"ProviderSessionEnded", "SessionEnded", "Enrichment"}
    <3>1. t.activity = s.activity
      BY <1>1, <2>4 DEF ReduceActivity, WaitingKinds, TerminalKinds
    <3>2. CASE f.kind = "SessionEnded"
      <4>1. ReduceReason(reason, f) = clear_unless(reason, {"Completed", "Failed"})
        BY <3>2 DEF ReduceReason, ReasonKinds, WaitingKinds, TerminalKinds
      <4> QED
        <5>1. ReduceReason(reason, f) \in {None, "Completed", "Failed"}
          BY <4>1 DEF clear_unless
        <5>2. ReduceReason(reason, f) # None => ReduceReason(reason, f) = reason
          BY <4>1 DEF clear_unless
        <5> QED
          BY <2>1, <3>1, <5>1, <5>2, NoneIsNoKind DEF ReasonRow, WaitingKinds, TerminalKinds
    <3>3. CASE f.kind # "SessionEnded"
      <4>1. ReduceReason(reason, f) = reason /\ t.lifecycle = s.lifecycle
        BY <1>1, <2>4, <3>3 DEF ReduceReason, ReasonKinds, WaitingKinds, TerminalKinds
      <4> QED
        BY <2>1, <3>1, <4>1 DEF ReasonRow
    <3> QED
      BY <3>2, <3>3
  <2> QED
    BY <1>2, <2>2, <2>3, <2>4 DEF EventKinds, AuthoritativeKinds, ReasonKinds
<1>5. ToolRow(t)
  <2> SUFFICES ASSUME t.tool # None
               PROVE  t.lifecycle \notin Ended /\ t.activity \in {"Working"} \cup WaitingKinds
    BY DEF ToolRow
  <2>1. ToolRow(s)
    BY DEF RowInv
  <2>2. CASE f.tool # None /\ f.tool.phase = "Start"
    <3>1. f.kind \in {"Working", "WaitingInput"}
      BY <2>2
    <3>2. s.lifecycle \notin Ended
      BY <3>1 DEF AuthoritativeKinds, WaitingKinds
    <3>3. ~ TerminalForTurn(s)
      BY <3>1 DEF WaitingKinds
    <3> QED
      BY <1>1, <3>1, <3>2, <3>3 DEF ReduceActivity, WaitingKinds, TerminalKinds
  <2>3. CASE ~ (f.tool # None /\ f.tool.phase = "Start")
    <3>1. f.tool # None => f.tool.phase \in ToolPhases
      BY DEF NormalizedEvent, Option, ToolActivityUpdate
    <3>2. /\ t.tool = s.tool
          /\ f.kind \notin TerminalKinds \cup {"NewTurn", "Idle", "ProviderSessionStarted",
                                              "ProviderSessionEnded", "SessionEnded"}
      BY <1>1, <2>3, <3>1 DEF reduce_tool_activity, ToolPhases
    <3>3. s.lifecycle \notin Ended /\ s.activity \in {"Working"} \cup WaitingKinds
      BY <2>1, <3>2 DEF ToolRow
    <3>4. t.lifecycle = s.lifecycle
      BY <1>1, <3>2
    <3>5. t.activity \in {s.activity} \cup {"Working"} \cup WaitingKinds
      BY <1>1, <1>2, <3>2 DEF ReduceActivity, WaitingKinds, TerminalKinds
    <3> QED
      BY <3>3, <3>4, <3>5
  <2> QED
    BY <2>2, <2>3
<1>6. UsageRow(t)
  <2>1. UsageRow(s)
    BY DEF RowInv
  <2> QED
    BY <1>1, <2>1 DEF UsageRow, ReduceUsage, NewSession
<1> QED
  BY <1>3, <1>4, <1>5, <1>6 DEF RowInv, t

(* What a child event leaves alone. *)
LEMMA ChildEventFields ==
  ASSUME NEW s \in InvocationSnapshot, NEW reason, NEW e, NEW now
  PROVE  LET t == apply_child_event(s, reason, e, now) IN
         /\ t.reason = reason
         /\ t.snapshot.lifecycle = s.lifecycle /\ t.snapshot.activity = s.activity
         /\ t.snapshot.tool = s.tool /\ t.snapshot.child_pid = s.child_pid
         /\ t.snapshot.session = s.session /\ t.snapshot.usage = s.usage
         /\ t.snapshot.turn_generation = s.turn_generation
         /\ t.snapshot.completed_generation = s.completed_generation
         /\ s.lifecycle \in Ended => t.snapshot.children = s.children
<1>1. CASE SuppressedChild(s, e)
  BY <1>1 DEF apply_child_event
<1>2. CASE ~ SuppressedChild(s, e)
  BY <1>2, Zenon DEF apply_child_event, InvocationSnapshot
<1> QED
  BY <1>1, <1>2

(* Every event, of a child or of the root, late or not, keeps the relations   *)
(* of its row.                                                                *)
THEOREM ApplyEventRow ==
  ASSUME NEW s \in InvocationSnapshot, NEW reason \in Option(ReasonKinds),
         NEW e \in NormalizedEvent, NEW now \in Nat, WellFormed(e), RowInv(s, reason)
  PROVE  LET t == apply_event(s, reason, e, now) IN RowInv(t.snapshot, t.reason)
<1>1. CASE e.child # None
  <2>1. apply_event(s, reason, e, now) = apply_child_event(s, reason, e, now)
    BY <1>1 DEF apply_event
  <2> QED
    BY <2>1, ChildEventFields DEF RowInv, ReasonRow, TurnRow, ToolRow, UsageRow,
       TerminalForTurn
<1>2. CASE e.child = None /\ SuppressedRoot(s, e)
  BY <1>2 DEF apply_event, apply_root_event
<1>3. CASE e.child = None /\ ~ SuppressedRoot(s, e)
  <2> DEFINE f == Effective(s, e)
  <2>1. f \in NormalizedEvent
    BY EffectiveType
  <2>2. /\ f.usage # None => f.session = f.usage
        /\ f.tool # None /\ f.tool.phase = "Start" => f.kind \in {"Working", "WaitingInput"}
        /\ s.lifecycle \in Ended => f.kind \notin AuthoritativeKinds /\ f.tool = None
    BY EffectiveShape
  <2>3. ~ (/\ TerminalForTurn(s)
           /\ f.kind \in {"Working"} \cup WaitingKinds \cup TerminalKinds)
    BY <1>3 DEF SuppressedRoot
  <2>4. apply_event(s, reason, e, now) =
          [snapshot |-> reduce(s, f, now), reason |-> ReduceReason(reason, f)]
    BY <1>3 DEF apply_event, apply_root_event
  <2> HIDE DEF f
  <2>5. RowInv(reduce(s, f, now), ReduceReason(reason, f))
    BY <2>1, <2>2, <2>3, ReduceRow
  <2> QED
    BY <2>4, <2>5
<1> QED
  BY <1>1, <1>2, <1>3

(* No event revives a process or binds one: only SessionEnded, which ends the *)
(* row, moves the lifecycle.                                                  *)
LEMMA ApplyEventLifecycle ==
  ASSUME NEW s \in InvocationSnapshot, NEW reason, NEW e \in NormalizedEvent, NEW now \in Nat
  PROVE  LET t == apply_event(s, reason, e, now).snapshot IN
         t.child_pid = s.child_pid /\ t.lifecycle \in {s.lifecycle, "Exited"}
<1>1. CASE e.child # None
  BY <1>1, ChildEventFields DEF apply_event
<1>2. CASE e.child = None
  <2>1. Effective(s, e) \in NormalizedEvent
    BY EffectiveType
  <2>2. LET t == reduce(s, Effective(s, e), now) IN
        t.child_pid = s.child_pid /\ t.lifecycle \in {s.lifecycle, "Exited"}
    BY <2>1, ReduceFields
  <2> QED
    BY <1>2, <2>2 DEF apply_event, apply_root_event
<1> QED
  BY <1>1, <1>2

(* Exit, loss, bind and expiry keep the relations of the row too. *)
LEMMA LocalRows ==
  ASSUME NEW s \in InvocationSnapshot, NEW reason \in Option(ReasonKinds), NEW now \in Nat,
         RowInv(s, reason)
  PROVE  /\ LET t == mark_lost(s, reason) IN RowInv(t.snapshot, t.reason)
         /\ LET t == local_exit(s, reason) IN RowInv(t.snapshot, t.reason)
         /\ LET t == local_bind(s, reason) IN RowInv(t.snapshot, t.reason)
         /\ LET t == expire_stale_working(s, reason, now) IN RowInv(t.snapshot, t.reason)
<1> USE DEF RowInv, ReasonRow, TurnRow, ToolRow, UsageRow, TerminalForTurn, InvocationSnapshot
<1>1. LET t == mark_lost(s, reason) IN RowInv(t.snapshot, t.reason)
  BY NoneIsNoKind, Zenon DEF mark_lost, clear_unless, WaitingKinds
<1>2. LET t == local_exit(s, reason) IN RowInv(t.snapshot, t.reason)
  BY NoneIsNoKind, Zenon DEF local_exit, clear_unless, WaitingKinds, TerminalKinds
<1>3. LET t == local_bind(s, reason) IN RowInv(t.snapshot, t.reason)
  BY Zenon DEF local_bind, Ended
<1>4. LET t == expire_stale_working(s, reason, now) IN RowInv(t.snapshot, t.reason)
  <2>1. CASE is_stale_working(s, now)
    BY <2>1, NoneIsNoKind, Zenon DEF expire_stale_working, is_stale_working
  <2>2. CASE ~ is_stale_working(s, now)
    BY <2>2, Zenon DEF expire_stale_working
  <2> QED
    BY <2>1, <2>2, Zenon
<1> QED
  BY <1>1, <1>2, <1>3, <1>4, Zenon

-----------------------------------------------------------------------------
(* The inductive invariant of the broker. *)

(* What reconcile and the sweep still have to visit exists. *)
PendingRows ==
  /\ todo \subseteq Present
  /\ sweep.todo \subseteq Present
  /\ daemon # "reconciling" => todo = {}

(* A wrapper before its registration has no row; one that gave up tracking    *)
(* never bound its process; one past its process has reaped it.               *)
WrapperFacts ==
  \A i \in Invocations :
    /\ wrapper[i] \in {"idle", "register"} => rows[i] = None
    /\ wrapper[i] = "untracked" /\ rows[i] # None => ~ rows[i].child_pid
    /\ wrapper[i] \in {"exit", "done"} => process[i] = "gone"

(* Rows that reconcile has visited, and all rows after it, are not running    *)
(* once their wrapper is through.                                             *)
VisitedRows ==
  daemon # "down" =>
    \A i \in Present \ todo :
      wrapper[i] \in {"done", "untracked"} => ~ Running(rows[i].lifecycle)

IInv == TypeOK /\ PendingRows /\ WrapperFacts /\ VisitedRows

-----------------------------------------------------------------------------
(* What a storage transaction does to the tables. *)

RowTypes ==
  rows \in [Invocations -> Option(InvocationSnapshot)]
    /\ reasons \in [Invocations -> Option(ReasonKinds)]

(* Rows neither come nor go, bind nothing, and change lifecycle only by ending. *)
RowsOnlyEnd ==
  \A j \in Invocations :
    /\ rows'[j] = None <=> rows[j] = None
    /\ rows[j] # None =>
         /\ rows'[j].child_pid = rows[j].child_pid
         /\ rows'[j].lifecycle \in {rows[j].lifecycle} \cup Ended

(* apply_transition writes one row and its reason, with their types. *)
LEMMA TransitionWrites ==
  ASSUME RowTypes, NEW i \in Invocations, NEW t \in Transition, apply_transition(i, t)
  PROVE  /\ RowTypes'
         /\ rows'[i] = t.snapshot /\ reasons'[i] = t.reason /\ rows'[i] # None
         /\ \A j \in Invocations \ {i} : rows'[j] = rows[j] /\ reasons'[j] = reasons[j]
<1>1. t.snapshot \in InvocationSnapshot /\ t.reason \in Option(ReasonKinds)
  BY DEF Transition
<1>2. rows' = [rows EXCEPT ![i] = t.snapshot] /\ reasons' = [reasons EXCEPT ![i] = t.reason]
  BY DEF apply_transition
<1>3. t.snapshot # None
  BY <1>1, NoneAssumption
<1> QED
  BY <1>1, <1>2, <1>3 DEF RowTypes, Option

(* The events of both sets are typed and well formed. *)
LEMMA EventFacts ==
  ASSUME NEW e \in HookEvents \cup ArtifactEvents
  PROVE  e \in NormalizedEvent /\ WellFormed(e) /\ (e.sequence # None => e.source # None)
BY EventAssumption DEF WellFormed

(* A committed event writes a typed row and ends it at most. *)
LEMMA EventWrites ==
  ASSUME RowTypes, dedup \subseteq EventIds, clock \in Nat,
         NEW i \in Invocations, NEW id \in EventIds, NEW e \in HookEvents \cup ArtifactEvents,
         apply_event_with_context(i, id, e)
  PROVE  RowTypes' /\ dedup' \subseteq EventIds /\ RowsOnlyEnd
<1>1. CASE id \in dedup
  BY <1>1 DEF apply_event_with_context, storage, RowTypes, RowsOnlyEnd
<1>2. CASE id \notin dedup
  <2> DEFINE t == apply_event(rows[i], reasons[i], e, clock)
  <2>1. rows[i] \in InvocationSnapshot /\ reasons[i] \in Option(ReasonKinds)
    BY DEF RowTypes, apply_event_with_context, Option
  <2>2. e \in NormalizedEvent /\ (e.sequence # None => e.source # None)
    BY EventFacts
  <2>3. t \in Transition
    BY <2>1, <2>2, ApplyEventType
  <2>4. t.snapshot.child_pid = rows[i].child_pid
          /\ t.snapshot.lifecycle \in {rows[i].lifecycle} \cup Ended
    BY <2>1, <2>2, ApplyEventLifecycle DEF Ended
  <2>5. apply_transition(i, t) /\ dedup' = dedup \cup {id}
    BY <1>2 DEF apply_event_with_context
  <2> HIDE DEF t
  <2>6. /\ RowTypes' /\ rows'[i] = t.snapshot /\ rows'[i] # None
        /\ \A j \in Invocations \ {i} : rows'[j] = rows[j]
    BY <2>3, <2>5, TransitionWrites
  <2>7. rows[i] # None
    BY DEF apply_event_with_context
  <2> QED
    BY <2>4, <2>5, <2>6, <2>7 DEF RowsOnlyEnd
<1> QED
  BY <1>1, <1>2

(* So do exit, loss and expiry of a row that is there. *)
LEMMA LocalWrites ==
  ASSUME RowTypes, NEW i \in Invocations, rows[i] # None, NEW now \in Nat,
         \/ apply_transition(i, mark_lost(rows[i], reasons[i]))
         \/ apply_transition(i, local_exit(rows[i], reasons[i]))
         \/ apply_transition(i, expire_stale_working(rows[i], reasons[i], now))
  PROVE  RowTypes' /\ RowsOnlyEnd
<1>1. rows[i] \in InvocationSnapshot /\ reasons[i] \in Option(ReasonKinds)
  BY DEF RowTypes, Option
<1>2. PICK t \in Transition :
        /\ apply_transition(i, t)
        /\ t.snapshot.child_pid = rows[i].child_pid
        /\ t.snapshot.lifecycle \in {rows[i].lifecycle} \cup Ended
  <2>1. /\ mark_lost(rows[i], reasons[i]).snapshot.child_pid = rows[i].child_pid
        /\ mark_lost(rows[i], reasons[i]).snapshot.lifecycle = "Lost"
    BY <1>1, Zenon DEF mark_lost, InvocationSnapshot
  <2>2. /\ local_exit(rows[i], reasons[i]).snapshot.child_pid = rows[i].child_pid
        /\ local_exit(rows[i], reasons[i]).snapshot.lifecycle = "Exited"
    BY <1>1, Zenon DEF local_exit, InvocationSnapshot
  <2>3. LET t == expire_stale_working(rows[i], reasons[i], now) IN
        /\ t.snapshot.child_pid = rows[i].child_pid
        /\ t.snapshot.lifecycle = rows[i].lifecycle
    BY <1>1, Zenon DEF expire_stale_working, InvocationSnapshot
  <2> QED
    BY <1>1, <2>1, <2>2, <2>3, LocalTypes DEF Ended
<1>3. /\ RowTypes' /\ rows'[i] = t.snapshot /\ rows'[i] # None
      /\ \A j \in Invocations \ {i} : rows'[j] = rows[j]
  BY <1>2, TransitionWrites
<1> QED
  BY <1>2, <1>3 DEF RowsOnlyEnd

(* The part of TypeOK that is not about the tables. *)
ProcessTypes ==
  /\ dedup \subseteq EventIds
  /\ clock \in Nat
  /\ daemon \in DaemonPhases
  /\ todo \subseteq Invocations
  /\ sweep \in [now : Nat, todo : SUBSET Invocations]
  /\ enriching \in Option([invocation : Invocations, event : ArtifactEvents])
  /\ process \in [Invocations -> ProcessStates]
  /\ wrapper \in [Invocations -> WrapperSteps]
  /\ sent \subseteq {i \in Invocations : wrapper[i] \in {"register", "bind", "exit"}}
  /\ crashes \in Nat

(* TypeOK is the types of the rows and those of the processes. *)
LEMMA TypeOKSplit == TypeOK <=> RowTypes /\ ProcessTypes
BY DEF TypeOK, RowTypes, ProcessTypes

(* The row that register writes is a snapshot. *)
LEMMA NewSnapshotType ==
  ASSUME clock \in Nat
  PROVE  [snapshot |-> NewSnapshot, reason |-> None] \in Transition
<1>1. << >> \in Seq(SourceOrderCursor)
  OBVIOUS
<1> QED
  BY <1>1 DEF NewSnapshot, Transition, InvocationSnapshot, Lifecycles, Activities, Option

(* A step of the wrapper keeps its types. *)
LEMMA WrapperTypes ==
  ASSUME TypeOK, NEW i \in Invocations, WrapperNext(i)
  PROVE  ProcessTypes' /\ UNCHANGED <<storage, clock, daemonState>>
<1> USE DEF ProcessTypes, Step, storage, daemonState, WrapperSteps, ProcessStates
<1>0. ProcessTypes
  BY TypeOKSplit
<1>1. CASE Launch(i)
  BY <1>0, <1>1 DEF Launch
<1>2. CASE Connect(i)
  BY <1>0, <1>2 DEF Connect, AfterFailure
<1>3. CASE Spawn(i)
  BY <1>0, <1>3 DEF Spawn
<1>4. CASE ProcessExit(i)
  BY <1>0, <1>4 DEF ProcessExit
<1>5. CASE WrapperKilled(i)
  BY <1>0, <1>5 DEF WrapperKilled
<1> QED
  BY <1>1, <1>2, <1>3, <1>4, <1>5 DEF WrapperNext

(* Serving a wrapper's request moves that wrapper on and leaves its request.  *)
LEMMA AnswerTypes ==
  ASSUME ProcessTypes, NEW i \in Invocations, NEW step \in WrapperSteps, Answer(i, step)
  PROVE  /\ wrapper' \in [Invocations -> WrapperSteps]
         /\ sent' \subseteq {j \in Invocations : wrapper'[j] \in {"register", "bind", "exit"}}
         /\ wrapper'[i] = step
         /\ \A j \in Invocations \ {i} : wrapper'[j] = wrapper[j]
BY DEF ProcessTypes, Answer, Step

(* A crash disconnects every wrapper that waits. *)
LEMMA StoppedTypes ==
  ASSUME ProcessTypes, Stopped, UNCHANGED <<dedup, clock, process>>
  PROVE  ProcessTypes'
<1>1. ASSUME NEW j \in Invocations
      PROVE  Disconnected[j] \in WrapperSteps
  <2>1. CASE j \in sent
    BY <2>1 DEF Disconnected, ProcessTypes, AfterFailure, WrapperSteps
  <2>2. CASE j \notin sent
    BY <2>2 DEF Disconnected, ProcessTypes
  <2> QED
    BY <2>1, <2>2
<1>2. wrapper' \in [Invocations -> WrapperSteps]
  BY <1>1 DEF Stopped, Disconnected
<1> QED
  BY <1>2 DEF Stopped, ProcessTypes, DaemonPhases, NoSweep, Option

-----------------------------------------------------------------------------
(* Every action preserves IInv. *)

(* A row is running or ended, never both. *)
LEMMA RunningOrEnded ==
  ASSUME NEW s \in InvocationSnapshot
  PROVE  Running(s.lifecycle) <=> s.lifecycle \notin Ended
BY DEF Running, Ended, InvocationSnapshot, Lifecycles

(* A transaction that only ends rows, with wrappers and daemon where they are. *)
LEMMA OnlyEndKeeps ==
  ASSUME IInv, RowTypes', RowsOnlyEnd, UNCHANGED <<todo, daemon, wrapper, process>>,
         sweep'.todo \subseteq sweep.todo
  PROVE  PendingRows' /\ WrapperFacts' /\ VisitedRows'
<1>1. Present' = Present
  BY DEF Present, RowsOnlyEnd
<1>2. PendingRows'
  BY <1>1 DEF PendingRows, IInv
<1>3. WrapperFacts'
  BY DEF WrapperFacts, IInv, RowsOnlyEnd
<1>4. VisitedRows'
  <2> SUFFICES ASSUME daemon # "down", NEW i \in Present \ todo,
                      wrapper[i] \in {"done", "untracked"}
               PROVE  ~ Running(rows'[i].lifecycle)
    BY <1>1 DEF VisitedRows
  <2>1. i \in Invocations /\ rows[i] # None /\ ~ Running(rows[i].lifecycle)
    BY DEF IInv, VisitedRows, Present
  <2> QED
    BY <2>1 DEF RowsOnlyEnd, Running, Ended
<1> QED
  BY <1>2, <1>3, <1>4

(* A step of a launch wrapper keeps the invariant. *)
LEMMA WrapperStep ==
  ASSUME IInv, NEW i \in Invocations, WrapperNext(i)
  PROVE  IInv'
<1>1. ProcessTypes' /\ UNCHANGED <<storage, clock, daemonState>>
  BY WrapperTypes DEF IInv
<1>2. TypeOK'
  BY <1>1, TypeOKSplit DEF IInv, TypeOK, RowTypes, ProcessTypes, storage
<1>3. PendingRows'
  BY <1>1 DEF IInv, PendingRows, Present, storage, daemonState
<1>4. wrapper \in [Invocations -> WrapperSteps] /\ process \in [Invocations -> ProcessStates]
  BY DEF IInv, TypeOK
<1>5. \A j \in Invocations \ {i} : wrapper'[j] = wrapper[j] /\ process'[j] = process[j]
  BY <1>4 DEF WrapperNext, Launch, Connect, Spawn, ProcessExit, WrapperKilled, Step, wrapperState
<1>6. /\ wrapper'[i] \in {"idle", "register"} => wrapper[i] \in {"idle", "register"}
      /\ wrapper'[i] = "untracked" => wrapper[i] \in {"idle", "register"}
      /\ wrapper'[i] \in {"exit", "done"} => process'[i] = "gone" \/ wrapper[i] = "exit"
      /\ wrapper[i] = "exit" => process'[i] = process[i]
      /\ wrapper'[i] = "done" => daemon = "down"
      /\ wrapper'[i] = "untracked" => rows[i] = None
  BY <1>4 DEF WrapperNext, Launch, Connect, Spawn, ProcessExit, WrapperKilled, Step, AfterFailure,
     IInv, WrapperFacts
<1>7. WrapperFacts'
  BY <1>1, <1>5, <1>6 DEF IInv, WrapperFacts, storage
<1>8. VisitedRows'
  BY <1>1, <1>5, <1>6 DEF IInv, VisitedRows, Present, storage, daemonState
<1> QED
  BY <1>2, <1>3, <1>7, <1>8 DEF IInv

(* Serving a request: the wrapper leaves a request step for one in which it   *)
(* is not through, or, after an exit, with its row ended.                     *)
LEMMA ServeStep ==
  ASSUME IInv, NEW i \in Invocations,
         ServeRegister(i) \/ bind_child(i) \/ mark_exit(i)
  PROVE  IInv'
<1>0. RowTypes /\ ProcessTypes /\ clock \in Nat
  BY TypeOKSplit DEF IInv, ProcessTypes
<1>1. CASE ServeRegister(i)
  <2>1. Answer(i, "spawn") /\ UNCHANGED <<dedup, clock, daemonState, process>>
    BY <1>1 DEF ServeRegister
  <2>2. /\ RowTypes' /\ rows'[i] # None
        /\ \A j \in Invocations \ {i} : rows'[j] = rows[j]
    BY <1>0, <1>1, NewSnapshotType, TransitionWrites DEF ServeRegister
  <2>3. /\ wrapper' \in [Invocations -> WrapperSteps] /\ wrapper'[i] = "spawn"
        /\ sent' \subseteq {j \in Invocations : wrapper'[j] \in {"register", "bind", "exit"}}
        /\ \A j \in Invocations \ {i} : wrapper'[j] = wrapper[j]
    BY <1>0, <2>1, AnswerTypes DEF WrapperSteps
  <2>4. TypeOK'
    BY <1>0, <2>1, <2>2, <2>3, TypeOKSplit DEF TypeOK, RowTypes, ProcessTypes, daemonState
  <2>5. PendingRows'
    BY <2>1, <2>2, Zenon DEF IInv, PendingRows, Present, daemonState
  <2>6. WrapperFacts'
    BY <2>1, <2>2, <2>3, Zenon DEF IInv, WrapperFacts
  <2>7. VisitedRows'
    BY <2>1, <2>2, <2>3, Zenon DEF IInv, VisitedRows, Present, daemonState
  <2> QED
    BY <2>4, <2>5, <2>6, <2>7 DEF IInv
<1>2. CASE bind_child(i)
  <2>1. Answer(i, "run") /\ UNCHANGED <<dedup, clock, daemonState, process>>
    BY <1>2, Zenon DEF bind_child
  <2>2. /\ RowTypes' /\ (rows'[i] = None <=> rows[i] = None)
        /\ \A j \in Invocations \ {i} : rows'[j] = rows[j]
    <3>1. CASE rows[i] = None
      BY <1>0, <1>2, <3>1 DEF bind_child, RowTypes
    <3>2. CASE rows[i] # None
      <4>1. local_bind(rows[i], reasons[i]) \in Transition
        BY <1>0, <3>2, LocalTypes DEF RowTypes, Option
      <4> QED
        BY <1>0, <1>2, <3>2, <4>1, TransitionWrites, Zenon DEF bind_child
    <3> QED
      BY <3>1, <3>2
  <2>3. /\ wrapper' \in [Invocations -> WrapperSteps] /\ wrapper'[i] = "run"
        /\ sent' \subseteq {j \in Invocations : wrapper'[j] \in {"register", "bind", "exit"}}
        /\ \A j \in Invocations \ {i} : wrapper'[j] = wrapper[j]
    BY <1>0, <2>1, AnswerTypes DEF WrapperSteps
  <2>4. TypeOK'
    BY <1>0, <2>1, <2>2, <2>3, TypeOKSplit DEF TypeOK, RowTypes, ProcessTypes, daemonState
  <2>5. PendingRows'
    BY <2>1, <2>2, Zenon DEF IInv, PendingRows, Present, daemonState
  <2>6. WrapperFacts'
    BY <2>1, <2>2, <2>3, Zenon DEF IInv, WrapperFacts
  <2>7. VisitedRows'
    BY <2>1, <2>2, <2>3 DEF IInv, VisitedRows, Present, daemonState
  <2> QED
    BY <2>4, <2>5, <2>6, <2>7 DEF IInv
<1>3. CASE mark_exit(i)
  <2>1. /\ Answer(i, "done") /\ UNCHANGED <<dedup, clock, daemonState, process>>
        /\ wrapper[i] = "exit"
    BY <1>3, Zenon DEF mark_exit
  <2>2. /\ RowTypes' /\ (rows'[i] = None <=> rows[i] = None)
        /\ rows'[i] # None => rows'[i].lifecycle = "Exited"
        /\ \A j \in Invocations \ {i} : rows'[j] = rows[j]
    <3>1. CASE rows[i] = None
      BY <1>0, <1>3, <3>1 DEF mark_exit, RowTypes
    <3>2. CASE rows[i] # None
      <4>1. rows[i] \in InvocationSnapshot /\ reasons[i] \in Option(ReasonKinds)
        BY <1>0, <3>2 DEF RowTypes, Option
      <4>2. local_exit(rows[i], reasons[i]) \in Transition
        BY <4>1, LocalTypes
      <4>3. local_exit(rows[i], reasons[i]).snapshot.lifecycle = "Exited"
        BY <4>1, Zenon DEF local_exit, InvocationSnapshot
      <4> QED
        BY <1>0, <1>3, <3>2, <4>2, <4>3, TransitionWrites, Zenon DEF mark_exit
    <3> QED
      BY <3>1, <3>2
  <2>3. /\ wrapper' \in [Invocations -> WrapperSteps] /\ wrapper'[i] = "done"
        /\ sent' \subseteq {j \in Invocations : wrapper'[j] \in {"register", "bind", "exit"}}
        /\ \A j \in Invocations \ {i} : wrapper'[j] = wrapper[j]
    BY <1>0, <2>1, AnswerTypes DEF WrapperSteps
  <2>4. TypeOK'
    BY <1>0, <2>1, <2>2, <2>3, TypeOKSplit DEF TypeOK, RowTypes, ProcessTypes, daemonState
  <2>5. PendingRows'
    BY <2>1, <2>2, Zenon DEF IInv, PendingRows, Present, daemonState
  <2>6. WrapperFacts'
    BY <2>1, <2>2, <2>3, Zenon DEF IInv, WrapperFacts
  <2>7. VisitedRows'
    BY <2>1, <2>2, <2>3 DEF IInv, VisitedRows, Present, daemonState, Running
  <2> QED
    BY <2>4, <2>5, <2>6, <2>7 DEF IInv
<1> QED
  BY <1>1, <1>2, <1>3

(* A committed or repeated event, from a hook or from the coordinator. *)
LEMMA EventStep ==
  ASSUME IInv, NEW i \in Invocations, NEW id \in EventIds,
         NEW e \in HookEvents \cup ArtifactEvents,
         apply_event_with_context(i, id, e),
         enriching' \in {None, enriching},
         UNCHANGED <<clock, daemon, todo, sweep, crashes, wrapperState>>
  PROVE  IInv'
<1>0. RowTypes /\ ProcessTypes /\ dedup \subseteq EventIds /\ clock \in Nat
  BY TypeOKSplit DEF IInv, ProcessTypes
<1>1. RowTypes' /\ dedup' \subseteq EventIds /\ RowsOnlyEnd
  BY <1>0, EventWrites
<1>2. PendingRows' /\ WrapperFacts' /\ VisitedRows'
  BY <1>1, OnlyEndKeeps DEF wrapperState
<1>3. ProcessTypes'
  BY <1>0, <1>1 DEF ProcessTypes, wrapperState, Option
<1>4. TypeOK'
  BY <1>1, <1>3 DEF TypeOK, RowTypes, ProcessTypes
<1> QED
  BY <1>2, <1>4 DEF IInv

(* A sweep selects rows that are there. *)
LEMMA SelectStaleFacts ==
  ASSUME NEW now \in Nat
  PROVE  /\ SelectStale(now) \in [now : Nat, todo : SUBSET Invocations]
         /\ SelectStale(now).todo \subseteq Present
BY DEF SelectStale, Sweep, NoSweep, Present

(* A row of the sweep that is expired, or spared, keeps the invariant. *)
LEMMA ExpireStep ==
  ASSUME IInv, NEW i \in Invocations, expire_stale_working_at(i)
  PROVE  IInv'
<1>0. RowTypes /\ ProcessTypes /\ sweep \in [now : Nat, todo : SUBSET Invocations]
  BY TypeOKSplit DEF IInv, ProcessTypes
<1>1. rows[i] # None
  BY DEF IInv, PendingRows, Present, expire_stale_working_at
<1>2. RowTypes' /\ RowsOnlyEnd
  BY <1>0, <1>1, LocalWrites DEF expire_stale_working_at
<1>3. /\ sweep' \in [now : Nat, todo : SUBSET Invocations]
      /\ sweep'.todo \subseteq sweep.todo
  BY <1>0 DEF expire_stale_working_at, Sweep, NoSweep
<1>4. UNCHANGED <<dedup, clock, daemon, todo, enriching, crashes, process, wrapper, sent>>
  BY DEF expire_stale_working_at, wrapperState
<1>5. PendingRows' /\ WrapperFacts' /\ VisitedRows'
  BY <1>2, <1>3, <1>4, OnlyEndKeeps
<1>6. TypeOK'
  BY <1>0, <1>2, <1>3, <1>4 DEF TypeOK, RowTypes, ProcessTypes
<1> QED
  BY <1>5, <1>6 DEF IInv

(* The daemon dies, perhaps just after it committed a registration: then the  *)
(* wrapper goes on untracked and its row has no process.                      *)
LEMMA CrashStep ==
  ASSUME IInv, Crash \/ \E i \in Invocations : CrashAfterRegister(i)
  PROVE  IInv'
<1>0. RowTypes /\ ProcessTypes /\ clock \in Nat
  BY TypeOKSplit DEF IInv, ProcessTypes
<1>1. Stopped /\ UNCHANGED <<dedup, clock, process>>
  BY DEF Crash, CrashAfterRegister, storage
<1>2. ProcessTypes'
  BY <1>0, <1>1, StoppedTypes
<1>3. /\ RowTypes'
      /\ \A j \in Invocations :
           \/ rows'[j] = rows[j]
           \/ /\ rows'[j] # None /\ ~ rows'[j].child_pid
              /\ wrapper[j] = "register" /\ j \in sent
  <2>1. CASE Crash
    BY <1>0, <2>1 DEF Crash, storage, RowTypes
  <2>2. ASSUME NEW i \in Invocations, CrashAfterRegister(i)
        PROVE  <1>3!1 /\ <1>3!2
    <3>1. [snapshot |-> NewSnapshot, reason |-> None] \in Transition
      BY <1>0, NewSnapshotType
    <3>2. ~ NewSnapshot.child_pid
      BY DEF NewSnapshot
    <3>3. /\ RowTypes' /\ rows'[i] = NewSnapshot /\ rows'[i] # None
          /\ \A j \in Invocations \ {i} : rows'[j] = rows[j]
      BY <1>0, <2>2, <3>1, TransitionWrites, Zenon DEF CrashAfterRegister
    <3> QED
      BY <2>2, <3>2, <3>3 DEF CrashAfterRegister
  <2> QED
    BY <2>1, <2>2
<1>4. TypeOK'
  BY <1>2, <1>3, Zenon DEF TypeOK, RowTypes, ProcessTypes
<1>5. PendingRows' /\ VisitedRows'
  BY <1>1, Zenon DEF Stopped, PendingRows, VisitedRows, NoSweep
<1>6. WrapperFacts'
  <2> SUFFICES ASSUME NEW j \in Invocations
               PROVE  /\ wrapper'[j] \in {"idle", "register"} => rows'[j] = None
                      /\ wrapper'[j] = "untracked" /\ rows'[j] # None => ~ rows'[j].child_pid
                      /\ wrapper'[j] \in {"exit", "done"} => process'[j] = "gone"
    BY DEF WrapperFacts
  <2>1. wrapper'[j] = IF j \in sent THEN AfterFailure(wrapper[j]) ELSE wrapper[j]
    BY <1>1 DEF Stopped, Disconnected
  <2>2. j \in sent => wrapper[j] \in {"register", "bind", "exit"}
    BY <1>0 DEF ProcessTypes
  <2>3. /\ wrapper[j] \in {"idle", "register"} => rows[j] = None
        /\ wrapper[j] = "untracked" /\ rows[j] # None => ~ rows[j].child_pid
        /\ wrapper[j] \in {"exit", "done"} => process[j] = "gone"
    BY DEF IInv, WrapperFacts
  <2>4. CASE j \in sent
    BY <1>1, <1>3, <2>1, <2>2, <2>3, <2>4 DEF AfterFailure
  <2>5. CASE j \notin sent
    BY <1>1, <1>3, <2>1, <2>3, <2>5
  <2> QED
    BY <2>4, <2>5
<1> QED
  BY <1>4, <1>5, <1>6 DEF IInv

(* reconcile: a visited row whose wrapper is through has no live process, so  *)
(* it is marked lost unless it has ended already.                             *)
LEMMA ReconcileStep ==
  ASSUME IInv, NEW i \in Invocations, reconcile(i)
  PROVE  IInv'
<1>0. RowTypes /\ ProcessTypes
  BY TypeOKSplit DEF IInv
<1>1. /\ daemon = "reconciling" /\ i \in todo /\ todo' = todo \ {i} /\ rows[i] # None
      /\ UNCHANGED <<dedup, clock, daemon, sweep, enriching, crashes, process, wrapper, sent>>
  BY DEF reconcile, wrapperState, IInv, PendingRows, Present
<1>2. rows[i] \in InvocationSnapshot /\ reasons[i] \in Option(ReasonKinds)
  BY <1>0, <1>1 DEF RowTypes, Option
<1>3. wrapper[i] \in {"done", "untracked"} => ~ process_alive(i)
  BY <1>1 DEF IInv, WrapperFacts, process_alive
<1>4. /\ RowTypes' /\ RowsOnlyEnd
      /\ Running(rows[i].lifecycle) /\ ~ process_alive(i) => rows'[i].lifecycle = "Lost"
      /\ \A j \in Invocations \ {i} : rows'[j] = rows[j]
  <2>1. CASE Running(rows[i].lifecycle) /\ ~ process_alive(i)
    <3>1. apply_transition(i, mark_lost(rows[i], reasons[i]))
      BY <2>1 DEF reconcile
    <3>2. RowTypes' /\ RowsOnlyEnd
      BY <1>0, <1>1, <3>1, LocalWrites, 0 \in Nat
    <3>3. mark_lost(rows[i], reasons[i]) \in Transition
      BY <1>2, LocalTypes
    <3>4. mark_lost(rows[i], reasons[i]).snapshot.lifecycle = "Lost"
      BY <1>2, Zenon DEF mark_lost, InvocationSnapshot
    <3> QED
      BY <1>0, <3>1, <3>2, <3>3, <3>4, TransitionWrites, Zenon
  <2>2. CASE Running(rows[i].lifecycle) /\ process_alive(i)
    <3> DEFINE t == [reason |-> reasons[i],
                     snapshot |-> [rows[i] EXCEPT !.confirmation = "RestoredUnconfirmed"]]
    <3>1. apply_transition(i, t) \/ UNCHANGED <<rows, reasons>>
      BY <2>2 DEF reconcile
    <3>2. /\ t \in Transition
          /\ t.snapshot.child_pid = rows[i].child_pid
          /\ t.snapshot.lifecycle = rows[i].lifecycle
      BY <1>2 DEF Transition, InvocationSnapshot
    <3> HIDE DEF t
    <3>3. CASE apply_transition(i, t)
      <4>1. /\ RowTypes' /\ rows'[i] = t.snapshot /\ rows'[i] # None
            /\ \A j \in Invocations \ {i} : rows'[j] = rows[j]
        BY <1>0, <3>2, <3>3, TransitionWrites, Zenon
      <4> QED
        BY <1>1, <2>2, <3>2, <4>1 DEF RowsOnlyEnd
    <3>4. CASE UNCHANGED <<rows, reasons>>
      BY <1>0, <2>2, <3>4 DEF RowTypes, RowsOnlyEnd
    <3> QED
      BY <3>1, <3>3, <3>4
  <2>3. CASE ~ Running(rows[i].lifecycle)
    <3>1. UNCHANGED <<rows, reasons>>
      BY <2>3 DEF reconcile
    <3> QED
      BY <1>0, <2>3, <3>1 DEF RowTypes, RowsOnlyEnd
  <2> QED
    BY <2>1, <2>2, <2>3
<1>5. Present' = Present
  BY <1>4 DEF Present, RowsOnlyEnd
<1>6. TypeOK'
  BY <1>0, <1>1, <1>4 DEF TypeOK, RowTypes, ProcessTypes
<1>7. PendingRows'
  BY <1>1, <1>5 DEF IInv, PendingRows
<1>8. WrapperFacts'
  BY <1>1, <1>4 DEF IInv, WrapperFacts, RowsOnlyEnd
<1>9. VisitedRows'
  <2> SUFFICES ASSUME NEW j \in Present \ (todo \ {i}), wrapper[j] \in {"done", "untracked"}
               PROVE  ~ Running(rows'[j].lifecycle)
    BY <1>1, <1>5 DEF VisitedRows
  <2>1. CASE j = i
    BY <1>1, <1>3, <1>4, <2>1, Zenon DEF RowsOnlyEnd, Running, Ended
  <2>2. CASE j # i
    BY <1>1, <1>4, <2>2, Zenon DEF IInv, VisitedRows, Present
  <2> QED
    BY <2>1, <2>2
<1> QED
  BY <1>6, <1>7, <1>8, <1>9 DEF IInv

(* The steps that write no row, and the retention that ends reconcile. *)
LEMMA QuietStep ==
  ASSUME IInv,
         \/ stale_working_worker \/ Start \/ ReconcileExpire \/ Accept \/ Tick
         \/ \E i \in Invocations, e \in ArtifactEvents : EnrichmentChecked(i, e)
  PROVE  IInv'
<1>0. RowTypes /\ ProcessTypes /\ clock \in Nat
  BY TypeOKSplit DEF IInv, ProcessTypes
<1> USE DEF storage, daemonState, wrapperState
<1>1. CASE stale_working_worker
  <2>1. /\ sweep' \in [now : Nat, todo : SUBSET Invocations] /\ sweep'.todo \subseteq Present
    BY <1>0, <1>1, SelectStaleFacts DEF stale_working_worker
  <2>2. UNCHANGED <<storage, clock, daemon, todo, enriching, crashes, wrapperState>>
    BY <1>1 DEF stale_working_worker
  <2>3. TypeOK'
    BY <1>0, <2>1, <2>2 DEF TypeOK, RowTypes, ProcessTypes
  <2> QED
    BY <2>1, <2>2, <2>3 DEF IInv, PendingRows, WrapperFacts, VisitedRows, Present
<1>2. CASE Start
  <2>1. /\ daemon' = "reconciling" /\ todo' = Present
        /\ UNCHANGED <<storage, clock, sweep, enriching, crashes, wrapperState>>
    BY <1>2 DEF Start, Present
  <2>2. TypeOK'
    BY <1>0, <2>1 DEF TypeOK, RowTypes, ProcessTypes, DaemonPhases, Present
  <2> QED
    BY <2>1, <2>2 DEF IInv, PendingRows, WrapperFacts, VisitedRows, Present
<1>3. CASE ReconcileExpire
  <2>1. /\ sweep' \in [now : Nat, todo : SUBSET Invocations] /\ sweep'.todo \subseteq Present
    BY <1>0, <1>3, SelectStaleFacts DEF ReconcileExpire
  <2>2. /\ daemon = "reconciling" /\ todo = {} /\ daemon' = "expiring"
        /\ UNCHANGED <<storage, clock, todo, enriching, crashes, wrapperState>>
    BY <1>3 DEF ReconcileExpire
  <2>3. TypeOK'
    BY <1>0, <2>1, <2>2 DEF TypeOK, RowTypes, ProcessTypes, DaemonPhases
  <2> QED
    BY <2>1, <2>2, <2>3 DEF IInv, PendingRows, WrapperFacts, VisitedRows, Present
<1>4. CASE Accept
  <2>1. /\ daemon = "expiring" /\ sweep.todo = {} /\ daemon' = "serving"
        /\ UNCHANGED <<dedup, clock, todo, sweep, enriching, crashes, wrapperState>>
    BY <1>4 DEF Accept
  <2>2. RowTypes' /\ \A j \in Invocations : rows'[j] \in {None, rows[j]}
    BY <1>0, <1>4 DEF Accept, RowTypes, Option
  <2>3. TypeOK'
    BY <1>0, <2>1, <2>2 DEF TypeOK, RowTypes, ProcessTypes, DaemonPhases
  <2>4. PendingRows'
    BY <2>1 DEF IInv, PendingRows
  <2>5. WrapperFacts'
    BY <2>1, <2>2 DEF IInv, WrapperFacts
  <2>6. VisitedRows'
    BY <2>1, <2>2 DEF IInv, VisitedRows, Present
  <2> QED
    BY <2>3, <2>4, <2>5, <2>6 DEF IInv
<1>5. CASE Tick
  <2>1. clock' \in Nat /\ UNCHANGED <<storage, daemonState, wrapperState>>
    BY <1>0, <1>5 DEF Tick
  <2> QED
    BY <1>0, <2>1, Zenon DEF IInv, TypeOK, RowTypes, ProcessTypes, PendingRows, WrapperFacts,
       VisitedRows, Present
<1>6. ASSUME NEW i \in Invocations, NEW e \in ArtifactEvents, EnrichmentChecked(i, e)
      PROVE  IInv'
  <2>1. /\ enriching' \in Option([invocation : Invocations, event : ArtifactEvents])
        /\ UNCHANGED <<storage, clock, daemon, todo, sweep, crashes, wrapperState>>
    BY <1>6, Zenon DEF EnrichmentChecked, Option
  <2> QED
    BY <1>0, <2>1, Zenon DEF IInv, TypeOK, RowTypes, ProcessTypes, PendingRows, WrapperFacts,
       VisitedRows, Present
<1> QED
  BY <1>1, <1>2, <1>3, <1>4, <1>5, <1>6

(* A hook that is ingested keeps the invariant. *)
LEMMA HookStep ==
  ASSUME IInv, NEW i \in Invocations, NEW id \in EventIds, NEW e \in HookEvents,
         ingest_hook(i, id, e)
  PROVE  IInv'
<1>1. /\ apply_event_with_context(i, id, e)
      /\ enriching' \in {None, enriching}
      /\ UNCHANGED <<clock, daemon, todo, sweep, crashes, wrapperState>>
  BY DEF ingest_hook, daemonState
<1> QED
  BY <1>1, EventStep

(* An enrichment that is stored keeps the invariant. *)
LEMMA EnrichmentStep ==
  ASSUME IInv, NEW id \in EventIds, apply_enrichment(id)
  PROVE  IInv'
<1>1. enriching.invocation \in Invocations /\ enriching.event \in ArtifactEvents
  BY DEF apply_enrichment, IInv, TypeOK, Option
<1>2. /\ apply_event_with_context(enriching.invocation, id, enriching.event)
      /\ enriching' \in {None, enriching}
      /\ UNCHANGED <<clock, daemon, todo, sweep, crashes, wrapperState>>
  BY DEF apply_enrichment
<1> QED
  BY <1>1, <1>2, EventStep

(* Before anything is launched the invariant holds. *)
LEMMA InitIInv == Init => IInv
BY DEF Init, IInv, TypeOK, PendingRows, WrapperFacts, VisitedRows, Present, Option, DaemonPhases,
       ProcessStates, WrapperSteps, NoSweep

(* IInv is inductive. *)
LEMMA NextIInv == IInv /\ [Next]_vars => IInv'
<1> SUFFICES ASSUME IInv, [Next]_vars PROVE IInv'
  OBVIOUS
<1>1. CASE UNCHANGED vars
  BY <1>1, Zenon DEF vars, storage, daemonState, wrapperState, IInv, TypeOK, PendingRows,
     WrapperFacts, VisitedRows, Present
<1>2. ASSUME NEW i \in Invocations, WrapperNext(i) PROVE IInv'
  BY <1>2, WrapperStep
<1>3. ASSUME NEW i \in Invocations, ServeNext(i) PROVE IInv'
  BY <1>3, ServeStep, HookStep, QuietStep DEF ServeNext
<1>4. CASE DaemonNext
  BY <1>4, EnrichmentStep, QuietStep, ExpireStep, CrashStep, ReconcileStep DEF DaemonNext
<1>5. CASE Tick
  BY <1>5, QuietStep
<1> QED
  BY <1>1, <1>2, <1>3, <1>4, <1>5 DEF Next

(* The inductive invariant holds in every behaviour of Spec: the facts that    *)
(* register, bind, exit, crash and reconcile keep about rows and wrappers.     *)
THEOREM BrokerInvariant == Spec => []IInv
BY InitIInv, NextIInv, PTL DEF Spec

(* Every behaviour of the broker is type correct (TypeOK): transitions write  *)
(* snapshots, and nothing is reconciled or expired that is not there.         *)
THEOREM TypeCorrect == Spec => []TypeOK
<1>1. IInv => TypeOK
  BY DEF IInv
<1> QED
  BY <1>1, BrokerInvariant, PTL

(* While the daemon serves, no row shows a process as running whose wrapper   *)
(* is through (NoZombie), however often the daemon crashed and wherever.      *)
THEOREM NoZombieProved == Spec => []NoZombie
<1>1. IInv => NoZombie
  BY DEF IInv, NoZombie, VisitedRows, PendingRows
<1> QED
  BY <1>1, BrokerInvariant, PTL

-----------------------------------------------------------------------------
(* The relations within a row hold in every behaviour. *)

(* Every row and its reason satisfy the relations the reducer keeps. *)
RowsConsistent ==
  \A i \in Invocations :
    /\ rows[i] = None => reasons[i] = None
    /\ rows[i] # None => RowInv(rows[i], reasons[i])

(* A transaction that takes a row and its reason to related ones. *)
LEMMA TransitionRows ==
  ASSUME RowTypes, RowsConsistent, NEW i \in Invocations, NEW t \in Transition,
         apply_transition(i, t), RowInv(t.snapshot, t.reason)
  PROVE  RowsConsistent'
<1>1. /\ rows'[i] = t.snapshot /\ reasons'[i] = t.reason /\ rows'[i] # None
      /\ \A j \in Invocations \ {i} : rows'[j] = rows[j] /\ reasons'[j] = reasons[j]
  BY TransitionWrites
<1> QED
  BY <1>1 DEF RowsConsistent

(* A registered row is consistent. *)
LEMMA NewRow == RowInv(NewSnapshot, None)
<1>1. /\ NewSnapshot.activity = "Unknown" /\ NewSnapshot.tool = None /\ NewSnapshot.usage = None
      /\ NewSnapshot.turn_generation = 0 /\ NewSnapshot.completed_generation = None
  BY DEF NewSnapshot
<1>2. None # 0
  BY NoneAssumption
<1>3. ReasonRow(NewSnapshot, None)
  BY NoneIsNoKind DEF ReasonRow
<1>4. TurnRow(NewSnapshot)
  BY <1>1, <1>2 DEF TurnRow, TerminalForTurn
<1>5. ToolRow(NewSnapshot) /\ UsageRow(NewSnapshot)
  BY <1>1 DEF ToolRow, UsageRow
<1> QED
  BY <1>3, <1>4, <1>5 DEF RowInv

(* An event leaves consistent rows consistent. *)
LEMMA EventRows ==
  ASSUME IInv, RowsConsistent, NEW i \in Invocations, NEW id \in EventIds,
         NEW e \in HookEvents \cup ArtifactEvents, apply_event_with_context(i, id, e)
  PROVE  RowsConsistent'
<1>1. CASE id \in dedup
  BY <1>1 DEF apply_event_with_context, storage, RowsConsistent
<1>2. CASE id \notin dedup
  <2> DEFINE t == apply_event(rows[i], reasons[i], e, clock)
  <2>1. RowTypes /\ clock \in Nat
    BY DEF IInv, TypeOK, RowTypes
  <2>2. /\ rows[i] \in InvocationSnapshot /\ reasons[i] \in Option(ReasonKinds)
        /\ RowInv(rows[i], reasons[i])
    BY <2>1 DEF RowTypes, apply_event_with_context, Option, RowsConsistent
  <2>3. e \in NormalizedEvent /\ WellFormed(e) /\ (e.sequence # None => e.source # None)
    BY EventFacts
  <2>4. t \in Transition /\ RowInv(t.snapshot, t.reason)
    BY <2>1, <2>2, <2>3, ApplyEventType, ApplyEventRow, Zenon
  <2>5. apply_transition(i, t)
    BY <1>2 DEF apply_event_with_context
  <2> HIDE DEF t
  <2> QED
    BY <2>1, <2>4, <2>5, TransitionRows
<1> QED
  BY <1>1, <1>2

(* Exit, bind, loss and expiry. *)
LEMMA LocalRowStep ==
  ASSUME RowTypes, RowsConsistent, NEW i \in Invocations, rows[i] # None, NEW now \in Nat,
         \/ apply_transition(i, mark_lost(rows[i], reasons[i]))
         \/ apply_transition(i, local_exit(rows[i], reasons[i]))
         \/ apply_transition(i, local_bind(rows[i], reasons[i]))
         \/ apply_transition(i, expire_stale_working(rows[i], reasons[i], now))
  PROVE  RowsConsistent'
<1>1. /\ rows[i] \in InvocationSnapshot /\ reasons[i] \in Option(ReasonKinds)
      /\ RowInv(rows[i], reasons[i])
  BY DEF RowTypes, Option, RowsConsistent
<1>2. PICK t \in Transition : apply_transition(i, t) /\ RowInv(t.snapshot, t.reason)
  BY <1>1, LocalTypes, LocalRows, Zenon
<1> QED
  BY <1>2, TransitionRows, Zenon

(* Reconcile leaves consistent rows consistent. *)
LEMMA ReconcileRows ==
  ASSUME IInv, RowsConsistent, NEW i \in Invocations, reconcile(i)
  PROVE  RowsConsistent'
<1>1. RowTypes /\ rows[i] # None
  BY DEF IInv, TypeOK, RowTypes, PendingRows, Present, reconcile
<1>2. CASE apply_transition(i, mark_lost(rows[i], reasons[i]))
  BY <1>1, <1>2, LocalRowStep, 0 \in Nat, Zenon
<1>3. CASE apply_transition(i, [reason |-> reasons[i],
              snapshot |-> [rows[i] EXCEPT !.confirmation = "RestoredUnconfirmed"]])
  <2> DEFINE t == [reason |-> reasons[i],
                   snapshot |-> [rows[i] EXCEPT !.confirmation = "RestoredUnconfirmed"]]
  <2>1. rows[i] \in InvocationSnapshot /\ reasons[i] \in Option(ReasonKinds)
    BY <1>1 DEF RowTypes, Option
  <2>2. t \in Transition
    BY <2>1 DEF Transition, InvocationSnapshot
  <2>3. RowInv(rows[i], reasons[i])
    BY <1>1 DEF RowsConsistent
  <2>4. RowInv(t.snapshot, t.reason)
    BY <2>1, <2>3 DEF RowInv, ReasonRow, TurnRow, ToolRow, UsageRow, TerminalForTurn,
       InvocationSnapshot
  <2> QED
    BY <1>1, <1>3, <2>2, <2>4, TransitionRows
<1>4. CASE UNCHANGED <<rows, reasons>>
  BY <1>4 DEF RowsConsistent
<1> QED
  BY <1>2, <1>3, <1>4 DEF reconcile

(* RowsConsistent is inductive relative to IInv. *)
LEMMA NextRows == IInv /\ RowsConsistent /\ [Next]_vars => RowsConsistent'
<1> SUFFICES ASSUME IInv, RowsConsistent, [Next]_vars PROVE RowsConsistent'
  OBVIOUS
<1>0. RowTypes /\ clock \in Nat /\ sweep.now \in Nat
  BY DEF IInv, TypeOK, RowTypes
<1>1. CASE UNCHANGED <<rows, reasons>>
  BY <1>1 DEF RowsConsistent
<1>2. ASSUME NEW i \in Invocations, WrapperNext(i) PROVE RowsConsistent'
  BY <1>1, <1>2 DEF WrapperNext, Launch, Connect, Spawn, ProcessExit, WrapperKilled, storage
<1>3. ASSUME NEW i \in Invocations, ServeRegister(i) \/ CrashAfterRegister(i)
      PROVE  RowsConsistent'
  BY <1>0, <1>3, NewRow, NewSnapshotType, TransitionRows DEF ServeRegister, CrashAfterRegister
<1>4. ASSUME NEW i \in Invocations, bind_child(i) \/ mark_exit(i) PROVE RowsConsistent'
  <2>1. CASE rows[i] = None
    BY <1>1, <1>4, <2>1, Zenon DEF bind_child, mark_exit
  <2>2. CASE rows[i] # None
    BY <1>0, <1>4, <2>2, LocalRowStep, Zenon DEF bind_child, mark_exit
  <2> QED
    BY <2>1, <2>2
<1>5. ASSUME NEW i \in Invocations, NEW id \in EventIds, NEW e \in HookEvents,
             ingest_hook(i, id, e)
      PROVE  RowsConsistent'
  BY <1>5, EventRows DEF ingest_hook
<1>6. ASSUME NEW i \in Invocations, NEW e \in ArtifactEvents, EnrichmentChecked(i, e)
      PROVE  RowsConsistent'
  BY <1>1, <1>6 DEF EnrichmentChecked, storage
<1>7. ASSUME NEW id \in EventIds, apply_enrichment(id) PROVE RowsConsistent'
  <2>1. enriching.invocation \in Invocations /\ enriching.event \in ArtifactEvents
    BY <1>7 DEF apply_enrichment, IInv, TypeOK, Option
  <2> QED
    BY <1>7, <2>1, EventRows DEF apply_enrichment
<1>8. ASSUME NEW i \in Invocations, expire_stale_working_at(i) PROVE RowsConsistent'
  <2>1. rows[i] # None
    BY <1>8, Zenon DEF IInv, PendingRows, Present, expire_stale_working_at
  <2> QED
    BY <1>0, <1>8, <2>1, LocalRowStep, Zenon DEF expire_stale_working_at
<1>9. CASE Accept
  BY <1>0, <1>9 DEF Accept, RowsConsistent, RowTypes
<1>10. CASE stale_working_worker \/ Crash \/ Start \/ ReconcileExpire \/ Tick
  BY <1>1, <1>10 DEF stale_working_worker, Crash, Start, ReconcileExpire, Tick, storage
<1>11. ASSUME NEW i \in Invocations, reconcile(i) PROVE RowsConsistent'
  BY <1>11, ReconcileRows
<1>12. CASE UNCHANGED vars
  BY <1>1, <1>12 DEF vars, storage
<1> QED
  BY <1>2, <1>3, <1>4, <1>5, <1>6, <1>7, <1>8, <1>9, <1>10, <1>11, <1>12
     DEF Next, ServeNext, DaemonNext

(* Every behaviour keeps the relations of RowInv in every row, through events, *)
(* exits, losses, expiry, crashes and reconcile.                               *)
THEOREM RowsStayConsistent == Spec => []RowsConsistent
<1>1. Init => RowsConsistent
  BY DEF Init, RowsConsistent
<1> QED
  BY <1>1, NextRows, BrokerInvariant, PTL DEF Spec

(* The stored reason always explains the stored activity                      *)
(* (ReasonMatchesActivity), in every interleaving of the functions that write *)
(* either.                                                                    *)
THEOREM ReasonsMatch == Spec => []ReasonMatchesActivity
<1>1. IInv /\ RowsConsistent => ReasonMatchesActivity
  <2> SUFFICES ASSUME IInv, RowsConsistent, NEW i \in Invocations
               PROVE  /\ reasons[i] # None => rows[i] # None
                      /\ reasons[i] \in WaitingKinds =>
                           rows[i].activity = reasons[i] /\ Running(rows[i].lifecycle)
                      /\ reasons[i] \in TerminalKinds => rows[i].activity = "Stopped"
    BY DEF ReasonMatchesActivity
  <2>1. CASE rows[i] = None
    BY <2>1, NoneIsNoKind DEF RowsConsistent
  <2>2. CASE rows[i] # None
    <3>1. rows[i] \in InvocationSnapshot
      BY <2>2 DEF IInv, TypeOK, Option
    <3> QED
      BY <2>2, <3>1, RunningOrEnded DEF RowsConsistent, RowInv, ReasonRow
  <2> QED
    BY <2>1, <2>2
<1> QED
  BY <1>1, BrokerInvariant, RowsStayConsistent, PTL

(* A completed turn is never shown as working or waiting, and a stopped       *)
(* activity belongs to a completed turn (TerminalTurnIsQuiet), whatever       *)
(* events arrive late.                                                        *)
THEOREM TerminalTurnsAreQuiet == Spec => []TerminalTurnIsQuiet
<1>1. RowsConsistent => TerminalTurnIsQuiet
  BY DEF RowsConsistent, RowInv, TurnRow, TerminalTurnIsQuiet, Present
<1> QED
  BY <1>1, RowsStayConsistent, PTL

(* A current tool belongs to a live process in a working or waiting turn      *)
(* (ToolIsLive).                                                              *)
THEOREM ToolsAreLive == Spec => []ToolIsLive
<1>1. IInv /\ RowsConsistent => ToolIsLive
  <2> SUFFICES ASSUME IInv, RowsConsistent, NEW i \in Present, rows[i].tool # None
               PROVE  /\ Running(rows[i].lifecycle)
                      /\ rows[i].activity \in {"Working"} \cup WaitingKinds
    BY DEF ToolIsLive
  <2>1. rows[i] \in InvocationSnapshot
    BY DEF IInv, TypeOK, Option, Present
  <2> QED
    BY <2>1, RunningOrEnded DEF RowsConsistent, RowInv, ToolRow, Present
<1> QED
  BY <1>1, BrokerInvariant, RowsStayConsistent, PTL

(* Usage figures are those of the session shown (UsageOfCurrentSession),      *)
(* although the session may change between enrichment's check and its write.  *)
THEOREM UsageIsCurrent == Spec => []UsageOfCurrentSession
<1>1. RowsConsistent => UsageOfCurrentSession
  BY DEF RowsConsistent, RowInv, UsageRow, UsageOfCurrentSession, Present
<1> QED
  BY <1>1, RowsStayConsistent, PTL
=============================================================================
