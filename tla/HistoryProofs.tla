---------------------------- MODULE HistoryProofs ---------------------------
(***************************************************************************)
(* What no step of the broker rewrites, for every number of invocations,   *)
(* events, sessions and agents: a turn that ended stays ended until the    *)
(* next one, an ended row stays as it is, a reason is not lost at the end, *)
(* a working row is expired only when it is stale, a session is not        *)
(* unlearned, an exit is final. Lemmas about the reducer's operators come  *)
(* first, then the inductive invariant, then one lemma per action.         *)
(***************************************************************************)
EXTENDS BrokerProofs

(* An ended row has no children. *)
EndsBare(s) == s.lifecycle \in Ended => s.children = {}

(* What a step may make of a row s with reason r, at a time the clock has     *)
(* reached: the properties of HistoryStands, read for one row.                *)
Rewrites(s, r, t, q, now) ==
  /\ TerminalForTurn(s) /\ ~ TerminalForTurn(t) => t.turn_generation = s.turn_generation + 1
  /\ s.lifecycle \in Ended /\ t.lifecycle = s.lifecycle =>
       /\ t.activity = s.activity /\ t.tool = None /\ t.children = {}
       /\ t.turn_generation = s.turn_generation /\ q = r
  /\ r \in {"Completed", "Failed"} /\ t.lifecycle \in Ended => q = r
  /\ s.activity = "Working" /\ t.activity = "Unknown" => now >= s.asserted_at + STALE_WORKING
  /\ s.session # None => t.session # None
  /\ EndsBare(t)

(* The events hooks and the coordinator send end no process. *)
LEMMA EffectiveKind ==
  ASSUME NEW s \in InvocationSnapshot, NEW e \in NormalizedEvent, WellFormed(e),
         e.kind # "SessionEnded"
  PROVE  Effective(s, e).kind # "SessionEnded"
<1> DEFINE a == event_with_channel_authority(e)
<1>1. a.kind \in {e.kind, "Enrichment"} /\ a \in NormalizedEvent
  <2>1. a.kind \in {e.kind, "Enrichment"}
    BY DEF event_with_channel_authority, WellFormed, HookChannels, NormalizedEvent
  <2> QED
    BY <2>1, AuthorityType
<1> HIDE DEF a
<1>2. Effective(s, e).kind \in {a.kind, "Enrichment"}
  BY <1>1 DEF Effective, a, NormalizedEvent
<1> QED
  BY <1>1, <1>2

(* An event that is not suppressed rewrites nothing of the row it reduces.    *)
LEMMA ReduceRewrites ==
  ASSUME NEW s \in InvocationSnapshot, NEW reason \in Option(ReasonKinds),
         NEW f \in NormalizedEvent, NEW now \in Nat, NEW time,
         RowInv(s, reason), EndsBare(s), f.kind # "SessionEnded",
         s.lifecycle \in Ended => f.kind \notin AuthoritativeKinds /\ f.tool = None
  PROVE  LET t == reduce(s, f, now) IN
         /\ Rewrites(s, reason, t, ReduceReason(reason, f), time)
         /\ t.lifecycle = s.lifecycle
<1> DEFINE t == reduce(s, f, now)
           q == ReduceReason(reason, f)
<1>1. /\ t.tool = reduce_tool_activity(s, f)
      /\ t.activity = ReduceActivity(s, f.kind)
      /\ t.turn_generation =
           IF f.kind = "NewTurn" THEN s.turn_generation + 1 ELSE s.turn_generation
      /\ t.completed_generation = ReduceCompleted(s, f.kind)
      /\ t.lifecycle = s.lifecycle
      /\ t.children = ReduceChildren(s, f)
      /\ t.session = IF f.session # None THEN f.session ELSE s.session
  BY ReduceFields
<1> HIDE DEF t
<1>2. f.kind \in EventKinds /\ s.activity \in Activities
  BY DEF NormalizedEvent, InvocationSnapshot
<1>3. TerminalForTurn(s) /\ ~ TerminalForTurn(t) => t.turn_generation = s.turn_generation + 1
  BY <1>1 DEF TerminalForTurn, ReduceCompleted, TerminalKinds
<1>4. s.activity = "Working" => t.activity # "Unknown"
  BY <1>1 DEF ReduceActivity, WaitingKinds, TerminalKinds
<1>5. s.lifecycle \in Ended => f.kind \in {"ProviderSessionEnded", "Enrichment"}
  BY <1>2 DEF EventKinds
<1>6. s.lifecycle \in Ended =>
        /\ t.activity = s.activity /\ t.turn_generation = s.turn_generation /\ q = reason
  BY <1>1, <1>5 DEF ReduceActivity, ReduceReason, ReasonKinds, WaitingKinds, TerminalKinds
<1>7. s.lifecycle \in Ended => t.tool = None /\ t.children = {}
  BY <1>1, <1>5 DEF reduce_tool_activity, ReduceChildren, RowInv, ToolRow, EndsBare
<1> HIDE DEF q
<1>8. Rewrites(s, reason, t, q, time)
  BY <1>1, <1>3, <1>4, <1>6, <1>7 DEF Rewrites, EndsBare
<1> QED
  BY <1>1, <1>8 DEF t, q

(* Nor does any event, of a child or of the root, early or late. *)
LEMMA EventRewrites ==
  ASSUME NEW s \in InvocationSnapshot, NEW reason \in Option(ReasonKinds),
         NEW e \in NormalizedEvent, NEW now \in Nat, NEW time,
         WellFormed(e), e.kind # "SessionEnded", RowInv(s, reason), EndsBare(s)
  PROVE  LET t == apply_event(s, reason, e, now) IN
         /\ Rewrites(s, reason, t.snapshot, t.reason, time)
         /\ t.snapshot.lifecycle = s.lifecycle
<1>0. s.lifecycle \in Ended => s.tool = None /\ s.children = {}
  BY DEF RowInv, ToolRow, EndsBare
<1>1. CASE e.child # None
  <2> DEFINE t == apply_child_event(s, reason, e, now)
  <2>1. apply_event(s, reason, e, now) = t
    BY <1>1 DEF apply_event
  <2>2. /\ t.reason = reason
        /\ t.snapshot.lifecycle = s.lifecycle /\ t.snapshot.activity = s.activity
        /\ t.snapshot.tool = s.tool /\ t.snapshot.session = s.session
        /\ t.snapshot.turn_generation = s.turn_generation
        /\ t.snapshot.completed_generation = s.completed_generation
        /\ s.lifecycle \in Ended => t.snapshot.children = s.children
    BY ChildEventFields
  <2> HIDE DEF t
  <2> QED
    BY <1>0, <2>1, <2>2 DEF Rewrites, EndsBare, TerminalForTurn
<1>2. CASE e.child = None /\ SuppressedRoot(s, e)
  <2>1. apply_event(s, reason, e, now) = [snapshot |-> s, reason |-> reason]
    BY <1>2 DEF apply_event, apply_root_event
  <2> QED
    BY <1>0, <2>1 DEF Rewrites, EndsBare
<1>3. CASE e.child = None /\ ~ SuppressedRoot(s, e)
  <2> DEFINE f == Effective(s, e)
  <2>1. f \in NormalizedEvent /\ f.kind # "SessionEnded"
    BY EffectiveType, EffectiveKind
  <2>2. s.lifecycle \in Ended => f.kind \notin AuthoritativeKinds /\ f.tool = None
    BY EffectiveShape
  <2>3. apply_event(s, reason, e, now) =
          [snapshot |-> reduce(s, f, now), reason |-> ReduceReason(reason, f)]
    BY <1>3 DEF apply_event, apply_root_event
  <2> HIDE DEF f
  <2>4. /\ Rewrites(s, reason, reduce(s, f, now), ReduceReason(reason, f), time)
        /\ reduce(s, f, now).lifecycle = s.lifecycle
    BY <2>1, <2>2, ReduceRewrites
  <2> QED
    BY <2>3, <2>4
<1> QED
  BY <1>1, <1>2, <1>3

(* Exit, bind, the loss of a process that had not ended and expiry at a time  *)
(* that has passed rewrite nothing; only bind sets a lifecycle back.          *)
LEMMA LocalRewrites ==
  ASSUME NEW s \in InvocationSnapshot, NEW reason \in Option(ReasonKinds),
         NEW now \in Nat, NEW time \in Nat, now <= time, RowInv(s, reason), EndsBare(s)
  PROVE  /\ LET t == local_exit(s, reason) IN
              Rewrites(s, reason, t.snapshot, t.reason, time) /\ t.snapshot.lifecycle = "Exited"
         /\ LET t == local_bind(s, reason) IN Rewrites(s, reason, t.snapshot, t.reason, time)
         /\ s.lifecycle \notin Ended =>
              LET t == mark_lost(s, reason) IN Rewrites(s, reason, t.snapshot, t.reason, time)
         /\ LET t == expire_stale_working(s, reason, now) IN
              /\ Rewrites(s, reason, t.snapshot, t.reason, time)
              /\ t.snapshot.lifecycle = s.lifecycle
         /\ LET t == [s EXCEPT !.confirmation = "RestoredUnconfirmed"] IN
              Rewrites(s, reason, t, reason, time) /\ t.lifecycle = s.lifecycle
<1>0. /\ s.lifecycle \in Ended => s.tool = None /\ s.children = {} /\ reason \notin WaitingKinds
      /\ s.asserted_at \in Nat /\ STALE_WORKING \in Nat
  BY BoundsAssumption DEF RowInv, ToolRow, EndsBare, ReasonRow, InvocationSnapshot
<1>1. LET t == local_exit(s, reason) IN
        Rewrites(s, reason, t.snapshot, t.reason, time) /\ t.snapshot.lifecycle = "Exited"
  <2> DEFINE t == local_exit(s, reason)
  <2>1. /\ t.snapshot.lifecycle = "Exited" /\ t.snapshot.activity = s.activity
        /\ t.snapshot.tool = None /\ t.snapshot.children = {}
        /\ t.snapshot.turn_generation = s.turn_generation
        /\ t.snapshot.completed_generation = s.completed_generation
        /\ t.snapshot.session = s.session
        /\ t.reason = clear_unless(reason, TerminalKinds)
    BY Zenon DEF local_exit, InvocationSnapshot
  <2>2. /\ reason \in {"Completed", "Failed"} => t.reason = reason
        /\ s.lifecycle \in Ended => t.reason = reason
    BY <1>0, <2>1 DEF clear_unless, TerminalKinds, Option, ReasonKinds
  <2> HIDE DEF t
  <2>3. Rewrites(s, reason, t.snapshot, t.reason, time)
    BY <2>1, <2>2 DEF Rewrites, EndsBare, TerminalForTurn
  <2> QED
    BY <2>1, <2>3 DEF t
<1>2. LET t == local_bind(s, reason) IN Rewrites(s, reason, t.snapshot, t.reason, time)
  <2> DEFINE t == local_bind(s, reason)
  <2>1. /\ t.snapshot.lifecycle = "Alive" /\ t.snapshot.activity = s.activity
        /\ t.snapshot.turn_generation = s.turn_generation
        /\ t.snapshot.completed_generation = s.completed_generation
        /\ t.snapshot.session = s.session /\ t.reason = reason
    BY Zenon DEF local_bind, InvocationSnapshot
  <2> HIDE DEF t
  <2>2. Rewrites(s, reason, t.snapshot, t.reason, time)
    BY <2>1 DEF Rewrites, EndsBare, TerminalForTurn, Ended
  <2> QED
    BY <2>2 DEF t
<1>3. ASSUME s.lifecycle \notin Ended
      PROVE  LET t == mark_lost(s, reason) IN Rewrites(s, reason, t.snapshot, t.reason, time)
  <2> DEFINE t == mark_lost(s, reason)
  <2>1. /\ t.snapshot.activity = s.activity /\ t.snapshot.children = {}
        /\ t.snapshot.turn_generation = s.turn_generation
        /\ t.snapshot.completed_generation = s.completed_generation
        /\ t.snapshot.session = s.session
        /\ t.reason = clear_unless(reason, {"Completed", "Failed"})
    BY Zenon DEF mark_lost, InvocationSnapshot
  <2>2. reason \in {"Completed", "Failed"} => t.reason = reason
    BY <2>1 DEF clear_unless
  <2> HIDE DEF t
  <2>3. Rewrites(s, reason, t.snapshot, t.reason, time)
    BY <1>3, <2>1, <2>2 DEF Rewrites, EndsBare, TerminalForTurn
  <2> QED
    BY <2>3 DEF t
<1>4. LET t == expire_stale_working(s, reason, now) IN
        /\ Rewrites(s, reason, t.snapshot, t.reason, time)
        /\ t.snapshot.lifecycle = s.lifecycle
  <2> DEFINE t == expire_stale_working(s, reason, now)
  <2>1. /\ t.snapshot.lifecycle = s.lifecycle
        /\ t.snapshot.turn_generation = s.turn_generation
        /\ t.snapshot.completed_generation = s.completed_generation
        /\ t.snapshot.session = s.session /\ t.snapshot.children \subseteq s.children
    BY Zenon DEF expire_stale_working, InvocationSnapshot
  <2>2. is_stale_working(s, now) =>
          s.lifecycle \notin Ended /\ time >= s.asserted_at + STALE_WORKING
    BY <1>0 DEF is_stale_working, Ended
  <2>3. ~ is_stale_working(s, now) =>
          t.snapshot.activity = s.activity /\ t.snapshot.tool = s.tool /\ t.reason = reason
    BY Zenon DEF expire_stale_working, InvocationSnapshot
  <2> HIDE DEF t
  <2>4. Rewrites(s, reason, t.snapshot, t.reason, time)
    BY <1>0, <2>1, <2>2, <2>3 DEF Rewrites, EndsBare, TerminalForTurn
  <2> QED
    BY <2>1, <2>4 DEF t
<1>5. LET t == [s EXCEPT !.confirmation = "RestoredUnconfirmed"] IN
        Rewrites(s, reason, t, reason, time) /\ t.lifecycle = s.lifecycle
  <2> DEFINE t == [s EXCEPT !.confirmation = "RestoredUnconfirmed"]
  <2>1. /\ t.lifecycle = s.lifecycle /\ t.activity = s.activity /\ t.tool = s.tool
        /\ t.children = s.children /\ t.turn_generation = s.turn_generation
        /\ t.completed_generation = s.completed_generation /\ t.session = s.session
    BY DEF InvocationSnapshot
  <2> HIDE DEF t
  <2>2. Rewrites(s, reason, t, reason, time)
    BY <1>0, <2>1 DEF Rewrites, EndsBare, TerminalForTurn
  <2> QED
    BY <2>1, <2>2 DEF t
<1> QED
  BY <1>1, <1>2, <1>3, <1>4, <1>5, Zenon

(* Two snapshots that agree in every field are one. *)
LEMMA SameSnapshot ==
  ASSUME NEW s \in InvocationSnapshot, NEW t \in InvocationSnapshot,
         t.lifecycle = s.lifecycle, t.activity = s.activity, t.asserted_at = s.asserted_at,
         t.confirmation = s.confirmation, t.source_ordering = s.source_ordering,
         t.tool = s.tool, t.session = s.session, t.turn_id = s.turn_id, t.usage = s.usage,
         t.children = s.children, t.child_pid = s.child_pid,
         t.turn_generation = s.turn_generation,
         t.completed_generation = s.completed_generation
  PROVE  t = s
BY DEF InvocationSnapshot

(* Figures alone: t is s but for its usage and its order cursors. *)
Enriched(s, t) == t = [s EXCEPT !.usage = t.usage, !.source_ordering = t.source_ordering]

(* A snapshot that agrees with s in all else is s with other figures. *)
LEMMA EnrichedFields ==
  ASSUME NEW s \in InvocationSnapshot, NEW t \in InvocationSnapshot,
         t.lifecycle = s.lifecycle, t.activity = s.activity, t.asserted_at = s.asserted_at,
         t.confirmation = s.confirmation, t.tool = s.tool, t.session = s.session,
         t.turn_id = s.turn_id, t.children = s.children, t.child_pid = s.child_pid,
         t.turn_generation = s.turn_generation,
         t.completed_generation = s.completed_generation
  PROVE  Enriched(s, t)
<1> DEFINE u == [s EXCEPT !.usage = t.usage, !.source_ordering = t.source_ordering]
<1>1. t.usage \in Option(SessionIds) /\ t.source_ordering \in Seq(SourceOrderCursor)
  BY DEF InvocationSnapshot
<1>2. u \in InvocationSnapshot
  BY <1>1, Zenon DEF InvocationSnapshot
<1>3. /\ u.lifecycle = s.lifecycle /\ u.activity = s.activity /\ u.asserted_at = s.asserted_at
      /\ u.confirmation = s.confirmation /\ u.source_ordering = t.source_ordering
      /\ u.tool = s.tool /\ u.session = s.session /\ u.turn_id = s.turn_id
      /\ u.usage = t.usage /\ u.children = s.children /\ u.child_pid = s.child_pid
      /\ u.turn_generation = s.turn_generation
      /\ u.completed_generation = s.completed_generation
  BY DEF InvocationSnapshot
<1> HIDE DEF u
<1>4. t = u
  BY <1>2, <1>3, SameSnapshot
<1> QED
  BY <1>4 DEF Enriched, u

(* An artifact's event of the row's session, or of none, only adds figures.   *)
LEMMA ArtifactEnriches ==
  ASSUME NEW s \in InvocationSnapshot, NEW reason \in Option(ReasonKinds),
         NEW e \in ArtifactEvents, NEW now \in Nat,
         e.session # None => s.session # None
  PROVE  LET t == apply_event(s, reason, e, now) IN
         Enriched(s, t.snapshot) /\ t.reason = reason
<1> DEFINE f == Effective(s, e)
           t == reduce(s, f, now)
<1>1. /\ e \in NormalizedEvent /\ e.channel = "ProviderArtifact" /\ e.child = None
      /\ e.sequence # None => e.source # None
  BY EventAssumption
<1>2. CASE SuppressedRoot(s, e)
  <2>1. apply_event(s, reason, e, now) = [snapshot |-> s, reason |-> reason]
    BY <1>1, <1>2 DEF apply_event, apply_root_event
  <2>2. Enriched(s, s)
    BY EnrichedFields
  <2> QED
    BY <2>1, <2>2
<1>3. CASE ~ SuppressedRoot(s, e)
  <2>1. apply_event(s, reason, e, now) = [snapshot |-> t, reason |-> ReduceReason(reason, f)]
    BY <1>1, <1>3 DEF apply_event, apply_root_event
  <2>2. /\ f \in NormalizedEvent /\ (f.sequence # None => f.source # None)
    BY <1>1, EffectiveType
  <2> DEFINE a == event_with_channel_authority(e)
  <2>3. a = [e EXCEPT !.kind = "Enrichment", !.turn_id = None, !.tool = None]
    BY <1>1 DEF event_with_channel_authority, HookChannels
  <2>4. /\ a \in NormalizedEvent /\ a.kind = "Enrichment" /\ a.turn_id = None /\ a.tool = None
        /\ a.session = e.session /\ a.channel = "ProviderArtifact"
    BY <1>1, <2>3, AuthorityType DEF NormalizedEvent
  <2> HIDE DEF a
  <2>5. /\ f.kind = "Enrichment" /\ f.turn_id = None /\ f.tool = None
        /\ f.session = e.session /\ f.channel = "ProviderArtifact"
    BY <2>4 DEF Effective, a, NormalizedEvent
  <2>6. ~ OtherSession(s, f)
    BY <1>3, <2>5 DEF SuppressedRoot
  <2>7. ~ NewSession(s, f) /\ (f.session # None => f.session = s.session)
    BY <2>5, <2>6 DEF OtherSession, NewSession
  <2>8. t \in InvocationSnapshot
    BY <2>2, ReduceType
  <2> HIDE DEF f
  <2>9. /\ t.tool = reduce_tool_activity(s, f)
        /\ t.activity = ReduceActivity(s, f.kind)
        /\ t.turn_generation = s.turn_generation
        /\ t.completed_generation = ReduceCompleted(s, f.kind)
        /\ t.lifecycle = s.lifecycle
        /\ t.children = ReduceChildren(s, f)
        /\ t.session = IF f.session # None THEN f.session ELSE s.session
        /\ t.child_pid = s.child_pid
    BY <2>2, <2>5, ReduceFields
  <2>10. /\ t.asserted_at = s.asserted_at /\ t.confirmation = s.confirmation
         /\ t.turn_id = s.turn_id
    BY <2>5 DEF reduce, authoritative_activity, HookChannels, InvocationSnapshot
  <2> HIDE DEF t
  <2>11. /\ t.tool = s.tool /\ t.activity = s.activity /\ t.children = s.children
         /\ t.completed_generation = s.completed_generation /\ t.session = s.session
    BY <2>5, <2>7, <2>9 DEF reduce_tool_activity, ReduceActivity, ReduceCompleted, ReduceChildren,
       WaitingKinds, TerminalKinds
  <2>12. Enriched(s, t)
    BY <2>8, <2>9, <2>10, <2>11, EnrichedFields
  <2>13. ReduceReason(reason, f) = reason
    BY <2>5 DEF ReduceReason, ReasonKinds, WaitingKinds, TerminalKinds
  <2> QED
    BY <2>1, <2>12, <2>13
<1> QED
  BY <1>2, <1>3

-----------------------------------------------------------------------------
(* The exit is the last thing a wrapper reports. *)
ExitsLast ==
  \A j \in Invocations : rows[j] # None /\ rows[j].lifecycle = "Exited" => wrapper[j] = "done"

BareRows == \A j \in Invocations : rows[j] # None => EndsBare(rows[j])

(* What the properties rest on besides: the wrapper reports the exit last,    *)
(* ended rows have no children, a sweep looks at the past, and the row an     *)
(* enrichment was checked against is there, with a session if the enrichment  *)
(* names one.                                                                 *)
HistoryInv ==
  /\ ExitsLast /\ BareRows
  /\ sweep.now <= clock
  /\ enriching # None =>
       /\ daemon = "serving" /\ rows[enriching.invocation] # None
       /\ enriching.event.session # None => rows[enriching.invocation].session # None

(* All that is known of a state. *)
Known == IInv /\ RowsConsistent /\ HistoryInv

(* The rows there before and after a step stand, and no row is born ended. *)
RowsStand ==
  \A j \in Invocations :
    /\ rows[j] = None /\ rows'[j] # None => rows'[j].lifecycle \notin Ended
    /\ Kept(j) =>
      /\ Rewrites(rows[j], reasons[j], rows'[j], reasons'[j], clock)
      /\ rows[j].lifecycle = "Exited" => rows'[j].lifecycle = "Exited"

(* What is known of one row that is there. *)
LEMMA KnownRow ==
  ASSUME Known, NEW i \in Invocations, rows[i] # None
  PROVE  /\ rows[i] \in InvocationSnapshot /\ reasons[i] \in Option(ReasonKinds)
         /\ RowInv(rows[i], reasons[i]) /\ EndsBare(rows[i])
BY DEF Known, IInv, TypeOK, Option, RowsConsistent, HistoryInv, BareRows

(* The types the steps below need. *)
LEMMA KnownTypes ==
  ASSUME Known
  PROVE  /\ RowTypes /\ ProcessTypes /\ clock \in Nat /\ sweep.now \in Nat
         /\ sweep.now <= clock
BY TypeOKSplit DEF Known, IInv, ProcessTypes, HistoryInv

(* A row that stays as it is stands. *)
LEMMA SameStands ==
  ASSUME Known, NEW i \in Invocations, rows[i] # None
  PROVE  Rewrites(rows[i], reasons[i], rows[i], reasons[i], clock)
BY KnownRow DEF Rewrites, EndsBare, RowInv, ToolRow, EndsBare

(* So do all rows of a step that at most deletes some. *)
LEMMA DeletionStands ==
  ASSUME Known,
         \A j \in Invocations :
           rows'[j] # None => rows'[j] = rows[j] /\ reasons'[j] = reasons[j]
  PROVE  RowsStand
BY SameStands DEF RowsStand, Kept

(* A transaction on one row that stands leaves the others alone. *)
LEMMA TransitionStands ==
  ASSUME Known, NEW i \in Invocations, NEW t \in Transition, apply_transition(i, t),
         rows[i] # None =>
           /\ Rewrites(rows[i], reasons[i], t.snapshot, t.reason, clock)
           /\ rows[i].lifecycle = "Exited" => t.snapshot.lifecycle = "Exited",
         rows[i] = None => t.snapshot.lifecycle \notin Ended
  PROVE  /\ RowsStand
         /\ rows'[i] = t.snapshot /\ rows'[i] # None
         /\ \A j \in Invocations \ {i} : rows'[j] = rows[j]
<1>1. /\ rows'[i] = t.snapshot /\ reasons'[i] = t.reason /\ rows'[i] # None
      /\ \A j \in Invocations \ {i} : rows'[j] = rows[j] /\ reasons'[j] = reasons[j]
  BY KnownTypes, TransitionWrites
<1>2. ASSUME NEW j \in Invocations, Kept(j)
      PROVE  /\ Rewrites(rows[j], reasons[j], rows'[j], reasons'[j], clock)
             /\ rows[j].lifecycle = "Exited" => rows'[j].lifecycle = "Exited"
  <2>1. CASE j = i
    BY <1>1, <1>2, <2>1 DEF Kept
  <2>2. CASE j # i
    BY <1>1, <1>2, <2>2, SameStands DEF Kept
  <2> QED
    BY <2>1, <2>2
<1> QED
  BY <1>1, <1>2 DEF RowsStand

(* Rows that stand keep the row of an enrichment that is not dropped. *)
LEMMA HistoryKept ==
  ASSUME Known, RowsStand, ExitsLast', sweep'.now <= clock',
         \/ enriching' = None
         \/ /\ UNCHANGED <<enriching, daemon>>
            /\ \A j \in Invocations : rows[j] # None => rows'[j] # None
  PROVE  HistoryInv'
<1>0. BareRows'
  BY DEF BareRows, RowsStand, Kept, Rewrites, EndsBare
<1>1. CASE enriching' = None
  BY <1>0, <1>1 DEF HistoryInv, ExitsLast, BareRows
<1>2. CASE /\ UNCHANGED <<enriching, daemon>> /\ enriching # None
           /\ \A j \in Invocations : rows[j] # None => rows'[j] # None
  <2> DEFINE i == enriching.invocation
  <2>1. i \in Invocations
    BY <1>2 DEF Known, IInv, TypeOK, Option
  <2>2. /\ daemon = "serving" /\ rows[i] # None
        /\ enriching.event.session # None => rows[i].session # None
    BY <1>2 DEF Known, HistoryInv
  <2>3. rows'[i] # None /\ (rows[i].session # None => rows'[i].session # None)
    BY <1>2, <2>1, <2>2 DEF RowsStand, Kept, Rewrites
  <2> QED
    BY <1>0, <1>2, <2>2, <2>3 DEF HistoryInv, ExitsLast, BareRows
<1> QED
  BY <1>0, <1>1, <1>2

-----------------------------------------------------------------------------
(* Every step stands and keeps HistoryInv. *)

(* A launch wrapper's step writes no row, and one that is done stays so. *)
LEMMA WrapperStands ==
  ASSUME Known, NEW i \in Invocations, WrapperNext(i)
  PROVE  RowsStand /\ HistoryInv' /\ UNCHANGED enriching
<1>1. UNCHANGED <<rows, reasons, clock, sweep, enriching, daemon>>
  BY WrapperTypes DEF Known, IInv, storage, daemonState
<1>2. RowsStand
  BY <1>1, DeletionStands
<1>3. wrapper \in [Invocations -> WrapperSteps]
  BY KnownTypes DEF ProcessTypes
<1>4. \A j \in Invocations : wrapper[j] = "done" => wrapper'[j] = "done"
  BY <1>3 DEF WrapperNext, Launch, Connect, Spawn, ProcessExit, WrapperKilled, Step
<1>5. ExitsLast'
  BY <1>1, <1>4 DEF Known, HistoryInv, ExitsLast
<1> QED
  BY <1>1, <1>2, <1>5, KnownTypes, HistoryKept

(* register finds no row, bind none that has exited, and exit is final. *)
LEMMA ServeStands ==
  ASSUME Known, NEW i \in Invocations, ServeRegister(i) \/ bind_child(i) \/ mark_exit(i)
  PROVE  RowsStand /\ HistoryInv' /\ UNCHANGED enriching
<1>0. /\ UNCHANGED <<clock, daemon, sweep, enriching>>
      /\ wrapper \in [Invocations -> WrapperSteps] /\ ExitsLast
  BY KnownTypes DEF ServeRegister, bind_child, mark_exit, daemonState, ProcessTypes, Known,
     HistoryInv
<1>1. \A j \in Invocations \ {i} : wrapper'[j] = wrapper[j]
  BY <1>0 DEF ServeRegister, bind_child, mark_exit, Answer, Step
<1>2. CASE rows[i] = None /\ UNCHANGED <<rows, reasons>>
  <2>1. RowsStand
    BY <1>2, DeletionStands
  <2>2. ExitsLast'
    BY <1>0, <1>1, <1>2 DEF ExitsLast
  <2> QED
    BY <1>0, <1>2, <2>1, <2>2, KnownTypes, HistoryKept
<1>3. ASSUME NEW t \in Transition, apply_transition(i, t),
             rows[i] # None => Rewrites(rows[i], reasons[i], t.snapshot, t.reason, clock),
             rows[i] # None /\ rows[i].lifecycle = "Exited" => t.snapshot.lifecycle = "Exited",
             t.snapshot.lifecycle = "Exited" => wrapper'[i] = "done",
             rows[i] = None => t.snapshot.lifecycle \notin Ended
      PROVE  RowsStand /\ HistoryInv'
  <2>1. /\ RowsStand /\ rows'[i] = t.snapshot /\ rows'[i] # None
        /\ \A j \in Invocations \ {i} : rows'[j] = rows[j]
    BY <1>3, TransitionStands
  <2>2. ExitsLast'
    BY <1>0, <1>1, <1>3, <2>1 DEF ExitsLast
  <2>3. \A j \in Invocations : rows[j] # None => rows'[j] # None
    BY <2>1
  <2> QED
    BY <1>0, <2>1, <2>2, <2>3, KnownTypes, HistoryKept
<1>4. CASE ServeRegister(i)
  <2> DEFINE t == [snapshot |-> NewSnapshot, reason |-> None]
  <2>1. /\ t \in Transition /\ t.snapshot.lifecycle = "Starting"
        /\ t.snapshot.lifecycle \notin Ended
    BY KnownTypes, NewSnapshotType DEF NewSnapshot, Ended
  <2>2. apply_transition(i, t) /\ rows[i] = None
    BY <1>4 DEF ServeRegister, Known, IInv, WrapperFacts
  <2> HIDE DEF t
  <2> QED
    BY <1>0, <1>3, <2>1, <2>2
<1>5. CASE bind_child(i) /\ rows[i] # None
  <2> DEFINE t == local_bind(rows[i], reasons[i])
  <2>1. rows[i].lifecycle # "Exited"
    BY <1>0, <1>5 DEF ExitsLast, bind_child
  <2>2. /\ t \in Transition
        /\ Rewrites(rows[i], reasons[i], t.snapshot, t.reason, clock)
    BY <1>5, KnownRow, KnownTypes, LocalTypes, LocalRewrites, Zenon
  <2>3. t.snapshot.lifecycle = "Alive"
    BY <1>5, KnownRow, Zenon DEF local_bind, InvocationSnapshot
  <2>4. apply_transition(i, t)
    BY <1>5 DEF bind_child
  <2> HIDE DEF t
  <2>5. t.snapshot.lifecycle # "Exited" /\ rows[i] # None
    BY <1>5, <2>3
  <2>6. RowsStand /\ HistoryInv'
    BY <1>3, <2>1, <2>2, <2>4, <2>5, Zenon
  <2> QED
    BY <1>0, <2>6
<1>6. CASE mark_exit(i) /\ rows[i] # None
  <2> DEFINE t == local_exit(rows[i], reasons[i])
  <2>1. /\ t \in Transition /\ t.snapshot.lifecycle = "Exited"
        /\ Rewrites(rows[i], reasons[i], t.snapshot, t.reason, clock)
    BY <1>6, KnownRow, KnownTypes, LocalTypes, LocalRewrites, Zenon
  <2>2. apply_transition(i, t) /\ wrapper'[i] = "done"
    BY <1>0, <1>6 DEF mark_exit, Answer, Step
  <2> HIDE DEF t
  <2>3. RowsStand /\ HistoryInv'
    BY <1>3, <1>6, <2>1, <2>2, Zenon
  <2> QED
    BY <1>0, <2>3
<1>7. CASE (bind_child(i) \/ mark_exit(i)) /\ rows[i] = None
  BY <1>0, <1>2, <1>7 DEF bind_child, mark_exit
<1> QED
  BY <1>0, <1>4, <1>5, <1>6, <1>7

(* A row that is written without its lifecycle changing. *)
LEMMA WriteStands ==
  ASSUME Known, NEW i \in Invocations, rows[i] # None, NEW t \in Transition,
         apply_transition(i, t), Rewrites(rows[i], reasons[i], t.snapshot, t.reason, clock),
         t.snapshot.lifecycle \in {rows[i].lifecycle, "Lost"},
         rows[i].lifecycle = "Exited" => t.snapshot.lifecycle = "Exited",
         UNCHANGED <<clock, wrapper>>, sweep'.now <= clock,
         enriching' = None \/ UNCHANGED <<enriching, daemon>>
  PROVE  RowsStand /\ HistoryInv'
<1>1. /\ RowsStand /\ rows'[i] = t.snapshot /\ rows'[i] # None
      /\ \A j \in Invocations \ {i} : rows'[j] = rows[j]
  BY TransitionStands
<1>2. ExitsLast'
  BY <1>1 DEF Known, HistoryInv, ExitsLast
<1>3. \A j \in Invocations : rows[j] # None => rows'[j] # None
  BY <1>1
<1> QED
  BY <1>1, <1>2, <1>3, HistoryKept

(* An event, committed or repeated, from a hook or from the coordinator. *)
LEMMA EventStands ==
  ASSUME Known, NEW i \in Invocations, NEW id \in EventIds,
         NEW e \in HookEvents \cup ArtifactEvents, apply_event_with_context(i, id, e),
         enriching' \in {None, enriching}, UNCHANGED <<clock, daemon, sweep, wrapper>>
  PROVE  RowsStand /\ HistoryInv'
<1>0. rows[i] # None
  BY DEF apply_event_with_context
<1>1. CASE id \in dedup
  <2>1. UNCHANGED <<rows, reasons>>
    BY <1>1 DEF apply_event_with_context, storage
  <2>2. RowsStand
    BY <2>1, DeletionStands
  <2>3. ExitsLast'
    BY <2>1 DEF Known, HistoryInv, ExitsLast
  <2> QED
    BY <2>1, <2>2, <2>3, KnownTypes, HistoryKept
<1>2. CASE id \notin dedup
  <2> DEFINE t == apply_event(rows[i], reasons[i], e, clock)
  <2>1. /\ e \in NormalizedEvent /\ WellFormed(e) /\ (e.sequence # None => e.source # None)
        /\ e.kind # "SessionEnded"
    BY EventFacts, EventAssumption
  <2>2. /\ rows[i] \in InvocationSnapshot /\ reasons[i] \in Option(ReasonKinds)
        /\ RowInv(rows[i], reasons[i]) /\ EndsBare(rows[i]) /\ clock \in Nat
    BY <1>0, KnownRow, KnownTypes
  <2>3. t \in Transition
    BY <2>1, <2>2, ApplyEventType
  <2>4. /\ Rewrites(rows[i], reasons[i], t.snapshot, t.reason, clock)
        /\ t.snapshot.lifecycle = rows[i].lifecycle
    BY <2>1, <2>2, EventRewrites
  <2>5. apply_transition(i, t)
    BY <1>2 DEF apply_event_with_context
  <2> HIDE DEF t
  <2> QED
    BY <1>0, <2>3, <2>4, <2>5, KnownTypes, WriteStands
<1> QED
  BY <1>1, <1>2

(* A row of the sweep, expired or spared, at the time the sweep read. *)
LEMMA ExpireStands ==
  ASSUME Known, NEW i \in Invocations, expire_stale_working_at(i)
  PROVE  RowsStand /\ HistoryInv' /\ UNCHANGED enriching
<1> DEFINE t == expire_stale_working(rows[i], reasons[i], sweep.now)
<1>1. rows[i] # None
  BY DEF Known, IInv, PendingRows, Present, expire_stale_working_at
<1>2. /\ t \in Transition /\ t.snapshot.lifecycle = rows[i].lifecycle
      /\ Rewrites(rows[i], reasons[i], t.snapshot, t.reason, clock)
  BY <1>1, KnownRow, KnownTypes, LocalTypes, LocalRewrites, Zenon
<1>3. /\ apply_transition(i, t) /\ UNCHANGED <<clock, daemon, enriching, wrapper>>
      /\ sweep' = Sweep(sweep.now, sweep.todo \ {i})
  BY DEF expire_stale_working_at, wrapperState
<1>4. sweep'.now <= clock
  BY <1>3, KnownTypes DEF Sweep, NoSweep
<1> HIDE DEF t
<1> QED
  BY <1>1, <1>2, <1>3, <1>4, WriteStands

(* Reconcile loses only rows that run, while nothing is being enriched. *)
LEMMA ReconcileStands ==
  ASSUME Known, NEW i \in Invocations, reconcile(i)
  PROVE  RowsStand /\ HistoryInv' /\ UNCHANGED enriching
<1>0. /\ rows[i] # None /\ UNCHANGED <<clock, daemon, sweep, enriching, wrapper>>
  BY DEF Known, IInv, PendingRows, Present, reconcile, wrapperState
<1>1. /\ rows[i] \in InvocationSnapshot /\ reasons[i] \in Option(ReasonKinds)
      /\ RowInv(rows[i], reasons[i]) /\ EndsBare(rows[i])
      /\ clock \in Nat /\ sweep.now \in Nat /\ sweep.now <= clock
  BY <1>0, KnownRow, KnownTypes
<1>2. CASE UNCHANGED <<rows, reasons>>
  <2>1. RowsStand
    BY <1>2, DeletionStands
  <2>2. ExitsLast'
    BY <1>0, <1>2 DEF Known, HistoryInv, ExitsLast
  <2> QED
    BY <1>0, <1>1, <1>2, <2>1, <2>2, HistoryKept
<1>3. CASE /\ Running(rows[i].lifecycle)
           /\ apply_transition(i, mark_lost(rows[i], reasons[i]))
  <2> DEFINE t == mark_lost(rows[i], reasons[i])
  <2>1. rows[i].lifecycle \notin Ended
    BY <1>1, <1>3, RunningOrEnded
  <2>2. t \in Transition /\ Rewrites(rows[i], reasons[i], t.snapshot, t.reason, clock)
    BY <1>1, <2>1, LocalTypes, LocalRewrites, Zenon
  <2>3. t.snapshot.lifecycle = "Lost"
    BY <1>1, Zenon DEF mark_lost, InvocationSnapshot
  <2>4. apply_transition(i, t)
    BY <1>3
  <2> HIDE DEF t
  <2> QED
    BY <1>0, <1>1, <2>1, <2>2, <2>3, <2>4, WriteStands DEF Ended
<1>4. CASE apply_transition(i, [reason |-> reasons[i],
              snapshot |-> [rows[i] EXCEPT !.confirmation = "RestoredUnconfirmed"]])
  <2> DEFINE u == [rows[i] EXCEPT !.confirmation = "RestoredUnconfirmed"]
             t == [reason |-> reasons[i], snapshot |-> u]
  <2>1. t \in Transition
    BY <1>1 DEF Transition, InvocationSnapshot
  <2>2. Rewrites(rows[i], reasons[i], u, reasons[i], clock) /\ u.lifecycle = rows[i].lifecycle
    BY <1>1, LocalRewrites
  <2> HIDE DEF u
  <2>3. t.snapshot = u /\ t.reason = reasons[i]
    OBVIOUS
  <2>4. apply_transition(i, t)
    BY <1>4 DEF u
  <2> HIDE DEF t
  <2> QED
    BY <1>0, <1>1, <2>1, <2>2, <2>3, <2>4, WriteStands
<1> QED
  BY <1>0, <1>2, <1>3, <1>4 DEF reconcile

(* The other steps write no row, but that retention deletes some. *)
LEMMA QuietStands ==
  ASSUME Known,
         \/ stale_working_worker \/ Start \/ ReconcileExpire \/ Accept \/ Tick \/ Crash
         \/ \E i \in Invocations : CrashAfterRegister(i)
         \/ \E i \in Invocations, e \in ArtifactEvents : EnrichmentChecked(i, e)
  PROVE  /\ RowsStand /\ HistoryInv'
         /\ enriching' = enriching \/ daemon' # daemon \/ enriching = None
<1>0. /\ clock \in Nat /\ sweep.now \in Nat /\ sweep.now <= clock /\ ExitsLast /\ BareRows
      /\ enriching # None => daemon = "serving"
  BY KnownTypes DEF Known, HistoryInv
<1> USE DEF storage, daemonState, wrapperState
<1>1. CASE stale_working_worker \/ Start \/ ReconcileExpire \/ Tick
  <2>1. /\ UNCHANGED <<rows, reasons, wrapper, enriching>>
        /\ enriching' = None \/ daemon' = daemon
    BY <1>0, <1>1 DEF stale_working_worker, Start, ReconcileExpire, Tick
  <2>2. RowsStand
    BY <2>1, DeletionStands
  <2>3. ExitsLast'
    BY <1>0, <2>1 DEF ExitsLast
  <2>4. clock' \in Nat /\ clock <= clock'
    BY <1>0, <1>1 DEF stale_working_worker, Start, ReconcileExpire, Tick
  <2>5. sweep'.now <= clock'
    <3>1. sweep' \in {sweep, SelectStale(clock)}
      BY <1>1 DEF stale_working_worker, Start, ReconcileExpire, Tick
    <3>2. SelectStale(clock).now \in {0, clock}
      BY DEF SelectStale, Sweep, NoSweep
    <3> QED
      BY <1>0, <2>4, <3>1, <3>2
  <2> QED
    BY <2>1, <2>2, <2>3, <2>5, HistoryKept
<1>2. CASE Accept
  <2>1. /\ UNCHANGED <<clock, sweep, enriching, wrapper>> /\ enriching = None
        /\ \A j \in Invocations :
             rows'[j] # None => rows'[j] = rows[j] /\ reasons'[j] = reasons[j]
    BY <1>0, <1>2 DEF Accept
  <2>2. RowsStand
    BY <2>1, DeletionStands
  <2>3. ExitsLast'
    BY <1>0, <2>1 DEF ExitsLast
  <2> QED
    BY <1>0, <2>1, <2>2, <2>3, HistoryKept
<1>3. CASE Crash \/ \E i \in Invocations : CrashAfterRegister(i)
  <2>1. Stopped /\ clock' = clock
    BY <1>3 DEF Crash, CrashAfterRegister
  <2>2. /\ enriching' = None /\ daemon' # daemon /\ sweep'.now = 0
        /\ \A j \in Invocations : wrapper[j] = "done" => wrapper'[j] = "done"
    BY <2>1, KnownTypes DEF Stopped, Disconnected, NoSweep, ProcessTypes
  <2>3. RowsStand /\ ExitsLast'
    <3>1. CASE Crash
      <4>1. UNCHANGED <<rows, reasons>>
        BY <3>1 DEF Crash
      <4> QED
        BY <1>0, <2>2, <4>1, DeletionStands DEF ExitsLast
    <3>2. ASSUME NEW i \in Invocations, CrashAfterRegister(i)
          PROVE  RowsStand /\ ExitsLast'
      <4> DEFINE t == [snapshot |-> NewSnapshot, reason |-> None]
      <4>1. /\ t \in Transition /\ t.snapshot.lifecycle = "Starting"
            /\ t.snapshot.lifecycle \notin Ended
        BY <1>0, NewSnapshotType DEF NewSnapshot, Ended
      <4>2. apply_transition(i, t) /\ rows[i] = None
        BY <3>2 DEF CrashAfterRegister, Known, IInv, WrapperFacts
      <4> HIDE DEF t
      <4>3. /\ RowsStand /\ rows'[i] = t.snapshot
            /\ \A j \in Invocations \ {i} : rows'[j] = rows[j]
        BY <4>1, <4>2, TransitionStands
      <4> QED
        BY <1>0, <2>2, <4>1, <4>3 DEF ExitsLast
    <3> QED
      BY <1>3, <3>1, <3>2
  <2>4. sweep'.now <= clock'
    BY <1>0, <2>1, <2>2
  <2> QED
    BY <2>2, <2>3, <2>4, HistoryKept
<1>4. ASSUME NEW i \in Invocations, NEW e \in ArtifactEvents, EnrichmentChecked(i, e)
      PROVE  RowsStand /\ HistoryInv' /\ enriching = None
  <2>1. /\ UNCHANGED <<rows, reasons, clock, sweep, daemon, wrapper>>
        /\ daemon = "serving" /\ enriching = None
        /\ rows[i] # None /\ rows[i].session = e.session
        /\ enriching' = [invocation |-> i, event |-> e]
    BY <1>4, Zenon DEF EnrichmentChecked
  <2>2. RowsStand
    BY <2>1, DeletionStands, Zenon
  <2>3. enriching'.invocation = i /\ enriching'.event = e
    BY <2>1
  <2>4. HistoryInv'
    BY <1>0, <2>1, <2>3 DEF HistoryInv, ExitsLast, BareRows
  <2> QED
    BY <2>1, <2>2, <2>4
<1> QED
  BY <1>0, <1>1, <1>2, <1>3, <1>4, Zenon
     DEF stale_working_worker, Start, ReconcileExpire, Accept, Tick, Crash, CrashAfterRegister, Stopped

(* What a stored enrichment changes: the figures of its row. *)
FiguresOnly ==
  LET i == enriching.invocation IN
    /\ rows'[i] = [rows[i] EXCEPT !.usage = rows'[i].usage,
                                  !.source_ordering = rows'[i].source_ordering]
    /\ reasons' = reasons

(* apply_enrichment writes nothing but figures, whatever was committed since  *)
(* its session was checked.                                                   *)
LEMMA EnrichmentStands ==
  ASSUME Known, NEW id \in EventIds, apply_enrichment(id)
  PROVE  RowsStand /\ HistoryInv' /\ FiguresOnly
<1> DEFINE i == enriching.invocation
           e == enriching.event
<1>1. i \in Invocations /\ e \in ArtifactEvents
  BY DEF apply_enrichment, Known, IInv, TypeOK, Option
<1>2. /\ apply_event_with_context(i, id, e) /\ enriching # None
      /\ enriching' = None /\ UNCHANGED <<clock, daemon, sweep, wrapper>>
  BY DEF apply_enrichment, wrapperState
<1>3. RowsStand /\ HistoryInv'
  BY <1>1, <1>2, EventStands
<1>4. /\ rows[i] # None /\ (e.session # None => rows[i].session # None)
      /\ rows \in [Invocations -> Option(InvocationSnapshot)]
      /\ reasons \in [Invocations -> Option(ReasonKinds)] /\ clock \in Nat
  BY <1>2, KnownTypes DEF Known, HistoryInv, RowTypes
<1>5. rows[i] \in InvocationSnapshot /\ reasons[i] \in Option(ReasonKinds)
  BY <1>1, <1>4, KnownRow
<1> HIDE DEF i, e
<1>6. Enriched(rows[i], rows'[i]) /\ reasons' = reasons
  <2>1. CASE id \in dedup
    <3>1. rows' = rows /\ reasons' = reasons
      BY <1>2, <2>1 DEF apply_event_with_context, storage
    <3> QED
      BY <1>5, <3>1, EnrichedFields
  <2>2. CASE id \notin dedup
    <3> DEFINE t == apply_event(rows[i], reasons[i], e, clock)
    <3>1. Enriched(rows[i], t.snapshot) /\ t.reason = reasons[i]
      BY <1>1, <1>4, <1>5, ArtifactEnriches
    <3>2. apply_transition(i, t)
      BY <1>2, <2>2 DEF apply_event_with_context
    <3> HIDE DEF t
    <3> QED
      BY <1>1, <1>4, <3>1, <3>2 DEF apply_transition
  <2> QED
    BY <2>1, <2>2
<1>7. FiguresOnly
  BY <1>6 DEF FiguresOnly, Enriched, i
<1> QED
  BY <1>3, <1>7

(* All steps together. *)
LEMMA NextStands ==
  ASSUME Known, [Next]_vars
  PROVE  /\ RowsStand /\ HistoryInv'
         /\ enriching # None /\ enriching' = None /\ daemon' = daemon => FiguresOnly
<1>1. CASE UNCHANGED vars
  <2>1. UNCHANGED <<rows, reasons, clock, sweep, enriching, daemon, wrapper>>
    BY <1>1 DEF vars, storage, daemonState, wrapperState
  <2>2. RowsStand
    BY <2>1, DeletionStands
  <2>3. ExitsLast'
    BY <2>1 DEF Known, HistoryInv, ExitsLast
  <2> QED
    BY <2>1, <2>2, <2>3, KnownTypes, HistoryKept
<1>2. ASSUME NEW i \in Invocations, WrapperNext(i)
      PROVE  RowsStand /\ HistoryInv' /\ UNCHANGED enriching
  BY <1>2, WrapperStands
<1>3. ASSUME NEW i \in Invocations, ServeRegister(i) \/ bind_child(i) \/ mark_exit(i)
      PROVE  RowsStand /\ HistoryInv' /\ UNCHANGED enriching
  BY <1>3, ServeStands
<1>4. ASSUME NEW i \in Invocations, NEW id \in EventIds, NEW e \in HookEvents,
             ingest_hook(i, id, e)
      PROVE  RowsStand /\ HistoryInv' /\ UNCHANGED enriching
  BY <1>4, EventStands DEF ingest_hook, daemonState, wrapperState
<1>5. ASSUME NEW id \in EventIds, apply_enrichment(id)
      PROVE  RowsStand /\ HistoryInv' /\ FiguresOnly
  BY <1>5, EnrichmentStands
<1>6. ASSUME NEW i \in Invocations, expire_stale_working_at(i)
      PROVE  RowsStand /\ HistoryInv' /\ UNCHANGED enriching
  BY <1>6, ExpireStands
<1>7. ASSUME NEW i \in Invocations, reconcile(i)
      PROVE  RowsStand /\ HistoryInv' /\ UNCHANGED enriching
  BY <1>7, ReconcileStands
<1> QED
  BY <1>1, <1>2, <1>3, <1>4, <1>5, <1>6, <1>7, QuietStands DEF Next, ServeNext, DaemonNext

(* The facts behind HistoryStands hold in every behaviour: exits come last, a *)
(* sweep looks at the past, and an enrichment's row keeps its session.        *)
THEOREM HistoryInvariant == Spec => []HistoryInv
<1>1. Init => HistoryInv
  BY DEF Init, HistoryInv, ExitsLast, BareRows, NoSweep
<1>2. IInv /\ RowsConsistent /\ HistoryInv /\ [Next]_vars => HistoryInv'
  BY NextStands DEF Known
<1> QED
  BY <1>1, <1>2, BrokerInvariant, RowsStayConsistent, PTL DEF Spec

(* No step rewrites what is settled (HistoryStands): finished turns, ended    *)
(* rows and their outcomes stand, and sweep and enrichment touch only their   *)
(* own part, in every interleaving of hooks, exits, crashes and reconcile.    *)
THEOREM HistoryAlwaysStands == Spec => HistoryStands
<1> DEFINE K == IInv /\ RowsConsistent /\ HistoryInv
<1>1. K /\ [Next]_vars =>
        [\A i \in Invocations :
           Kept(i) /\ TerminalForTurn(rows[i]) /\ ~ TerminalForTurn(rows'[i])
             => rows'[i].turn_generation = rows[i].turn_generation + 1]_vars
  BY NextStands DEF Known, RowsStand, Rewrites
<1>2. K /\ [Next]_vars =>
        [\A i \in Invocations :
           Kept(i) /\ rows[i].lifecycle = "Exited" => rows'[i].lifecycle = "Exited"]_vars
  BY NextStands DEF Known, RowsStand
<1>3. K /\ [Next]_vars =>
        [\A i \in Invocations :
           Kept(i) /\ rows[i].lifecycle \in Ended /\ rows'[i].lifecycle = rows[i].lifecycle =>
             /\ rows'[i].activity = rows[i].activity
             /\ rows'[i].tool = None /\ rows'[i].children = {}
             /\ rows'[i].turn_generation = rows[i].turn_generation
             /\ reasons'[i] = reasons[i]]_vars
  BY NextStands DEF Known, RowsStand, Rewrites
<1>4. K /\ [Next]_vars =>
        [\A i \in Invocations :
           Kept(i) /\ reasons[i] \in {"Completed", "Failed"} /\ rows'[i].lifecycle \in Ended
             => reasons'[i] = reasons[i]]_vars
  BY NextStands DEF Known, RowsStand, Rewrites
<1>5. K /\ [Next]_vars =>
        [\A i \in Invocations :
           Kept(i) /\ rows[i].activity = "Working" /\ rows'[i].activity = "Unknown"
             => clock >= rows[i].asserted_at + STALE_WORKING]_vars
  BY NextStands DEF Known, RowsStand, Rewrites
<1>6. K /\ [Next]_vars =>
        [enriching # None /\ enriching' = None /\ daemon' = daemon =>
           LET i == enriching.invocation IN
             /\ rows'[i] = [rows[i] EXCEPT !.usage = rows'[i].usage,
                                           !.source_ordering = rows'[i].source_ordering]
             /\ reasons' = reasons]_vars
  BY NextStands, Zenon DEF Known, FiguresOnly
<1>7. Spec => OnlyNewTurnReopens
  BY <1>1, BrokerInvariant, RowsStayConsistent, HistoryInvariant, PTL
     DEF Spec, OnlyNewTurnReopens
<1>8. Spec => ExitedIsFinal
  BY <1>2, BrokerInvariant, RowsStayConsistent, HistoryInvariant, PTL
     DEF Spec, ExitedIsFinal
<1>9. Spec => EndedIsFrozen
  BY <1>3, BrokerInvariant, RowsStayConsistent, HistoryInvariant, PTL
     DEF Spec, EndedIsFrozen
<1>10. Spec => OutcomeSurvivesExit
  BY <1>4, BrokerInvariant, RowsStayConsistent, HistoryInvariant, PTL
     DEF Spec, OutcomeSurvivesExit
<1>11. Spec => SweepSparesAssertedWork
  BY <1>5, BrokerInvariant, RowsStayConsistent, HistoryInvariant, PTL
     DEF Spec, SweepSparesAssertedWork
<1>12. Spec => EnrichmentIsInert
  BY <1>6, BrokerInvariant, RowsStayConsistent, HistoryInvariant, PTL
     DEF Spec, EnrichmentIsInert
<1> QED
  BY <1>7, <1>8, <1>9, <1>10, <1>11, <1>12 DEF HistoryStands

=============================================================================
