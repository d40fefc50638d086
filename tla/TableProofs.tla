----------------------------- MODULE TableProofs -----------------------------
(***************************************************************************)
(* Two facts about the broker's tables that count: a row has no more turns *)
(* than the event_dedup table has ids, and no more children than the cap,  *)
(* each of its current session. Both rest on what one event does to one    *)
(* row, and are lifted to the broker's behaviours like RowsConsistent.     *)
(***************************************************************************)
EXTENDS BrokerProofs, FiniteSetTheorems

(* The children of one row. *)
ChildRow(s) ==
  /\ s.lifecycle \in Ended => s.children = {}
  /\ IsFiniteSet(s.children) /\ Cardinality(s.children) <= CHILD_AGENTS_MAX
  /\ \A c, d \in s.children : c.agent_id = d.agent_id => c = d
  /\ \A c \in s.children : s.session # None => c.session \in {None, s.session}

(* The table of event ids is finite and counts every turn of every row. *)
TableInv ==
  /\ IsFiniteSet(dedup)
  /\ \A i \in Invocations :
       rows[i] # None => rows[i].turn_generation <= Cardinality(dedup) /\ ChildRow(rows[i])

-----------------------------------------------------------------------------
(* One row. *)

(* No children at all are within every bound. *)
LEMMA NoChildren ==
  ASSUME NEW s, s.children = {}
  PROVE  ChildRow(s)
BY FS_EmptySet, BoundsAssumption DEF ChildRow

(* Fewer children of the same session stay within their bounds. *)
LEMMA FewerChildren ==
  ASSUME NEW s, NEW t, ChildRow(s), t.children \subseteq s.children, t.session = s.session,
         t.lifecycle \in Ended => s.lifecycle \in Ended \/ t.children = {}
  PROVE  ChildRow(t)
<1>1. /\ IsFiniteSet(t.children) /\ Cardinality(t.children) <= Cardinality(s.children)
      /\ Cardinality(t.children) \in Nat /\ Cardinality(s.children) \in Nat
  BY FS_Subset, FS_CardinalityType DEF ChildRow
<1>2. Cardinality(t.children) <= CHILD_AGENTS_MAX
  BY <1>1, BoundsAssumption DEF ChildRow
<1> QED
  BY <1>1, <1>2 DEF ChildRow

(* reduce_child keeps the cap, the distinct ids and the sessions. *)
LEMMA ReduceChildRow ==
  ASSUME NEW s \in InvocationSnapshot, NEW e \in NormalizedEvent, NEW now \in Nat,
         e.child # None, ChildRow(s), ~ OtherSession(s, e)
  PROVE  LET children == reduce_child(s, e, now) IN
         /\ IsFiniteSet(children) /\ Cardinality(children) <= CHILD_AGENTS_MAX
         /\ \A c, d \in children : c.agent_id = d.agent_id => c = d
         /\ \A c \in children : s.session # None => c.session \in {None, s.session}
<1> DEFINE activity == ChildActivity(e.kind)
           known == {c \in s.children : c.agent_id = e.child}
           updated(c) == IF c \in known
                           THEN [c EXCEPT !.activity = activity, !.updated_at = now] ELSE c
           after == {updated(c) : c \in s.children}
           kept == IF Cardinality(s.children) < CHILD_AGENTS_MAX
                     THEN s.children ELSE EvictOldestStopped(s.children)
           started == [agent_id |-> e.child, activity |-> activity, started_at |-> now,
                       updated_at |-> now,
                       session |-> IF e.session # None THEN e.session ELSE s.session]
<1>1. s.children \subseteq ChildAgentState
  BY DEF InvocationSnapshot
<1>2. /\ IsFiniteSet(s.children) /\ Cardinality(s.children) <= CHILD_AGENTS_MAX
      /\ \A c, d \in s.children : c.agent_id = d.agent_id => c = d
      /\ \A c \in s.children : s.session # None => c.session \in {None, s.session}
  BY DEF ChildRow
<1>3. CASE reduce_child(s, e, now) = s.children
  BY <1>2, <1>3
<1>4. CASE reduce_child(s, e, now) = after
  <2>1. \A c \in s.children :
          updated(c).agent_id = c.agent_id /\ updated(c).session = c.session
    BY <1>1 DEF ChildAgentState
  <2> DEFINE f == [c \in s.children |-> updated(c)]
  <2>2. f \in Surjection(s.children, after)
    BY Zenon DEF Surjection
  <2>3. /\ IsFiniteSet(after) /\ Cardinality(after) <= Cardinality(s.children)
    BY <1>2, <2>2, FS_Surjection, Zenon
  <2>4. Cardinality(after) \in Nat /\ Cardinality(s.children) \in Nat
    BY <1>2, <2>3, FS_CardinalityType, Zenon
  <2> HIDE DEF updated
  <2>5. ASSUME NEW c \in after, NEW d \in after, c.agent_id = d.agent_id
        PROVE  c = d
    <3>1. PICK x \in s.children : c = updated(x)
      OBVIOUS
    <3>2. PICK y \in s.children : d = updated(y)
      OBVIOUS
    <3>3. x.agent_id = y.agent_id
      BY <2>1, <2>5, <3>1, <3>2
    <3> QED
      BY <1>2, <3>1, <3>2, <3>3
  <2>6. \A c \in after : s.session # None => c.session \in {None, s.session}
    BY <1>2, <2>1
  <2> HIDE DEF after
  <2>7. Cardinality(after) <= CHILD_AGENTS_MAX
    BY <1>2, <2>3, <2>4, BoundsAssumption
  <2> QED
    BY <1>4, <2>3, <2>7, <2>5, <2>6
<1>5. CASE /\ reduce_child(s, e, now) = kept \cup {started}
           /\ known = {} /\ Cardinality(kept) < CHILD_AGENTS_MAX
  <2>1. kept \subseteq s.children
    BY DEF EvictOldestStopped
  <2>2. /\ started.agent_id = e.child
        /\ started.session = IF e.session # None THEN e.session ELSE s.session
    OBVIOUS
  <2>3. s.session # None => started.session \in {None, s.session}
    BY <2>2 DEF OtherSession
  <2>4. \A c \in kept : c.agent_id # started.agent_id
    BY <1>5, <2>1, <2>2
  <2> HIDE DEF kept, started
  <2>5. IsFiniteSet(kept)
    BY <1>2, <2>1, FS_Subset
  <2>6. Cardinality(kept) \in Nat
    BY <2>5, FS_CardinalityType
  <2>7. /\ IsFiniteSet(kept \cup {started})
        /\ Cardinality(kept \cup {started}) =
             IF started \in kept THEN Cardinality(kept) ELSE Cardinality(kept) + 1
    BY <2>5, FS_AddElement, Zenon
  <2>8. Cardinality(kept \cup {started}) \in Nat
    BY <2>7, FS_CardinalityType
  <2>9. Cardinality(kept \cup {started}) <= CHILD_AGENTS_MAX
    BY <1>5, <2>6, <2>7, <2>8, BoundsAssumption
  <2> QED
    BY <1>2, <1>5, <2>1, <2>3, <2>4, <2>7, <2>9
<1>6. \/ reduce_child(s, e, now) = s.children
      \/ reduce_child(s, e, now) = after
      \/ /\ reduce_child(s, e, now) = kept \cup {started}
         /\ known = {} /\ Cardinality(kept) < CHILD_AGENTS_MAX
  BY Zenon DEF reduce_child
<1> QED
  BY <1>3, <1>4, <1>5, <1>6, Zenon

(* One event, of a child or of the root, keeps the children of its row within *)
(* their bounds.                                                              *)
LEMMA EventChildRow ==
  ASSUME NEW s \in InvocationSnapshot, NEW reason, NEW e \in NormalizedEvent, NEW now \in Nat,
         ChildRow(s)
  PROVE  ChildRow(apply_event(s, reason, e, now).snapshot)
<1>1. CASE e.child # None /\ ~ SuppressedChild(s, e) /\ s.lifecycle \notin Ended
  <2> DEFINE a == event_with_channel_authority(e)
             children == reduce_child(s, a, now)
             t == apply_event(s, reason, e, now).snapshot
  <2>1. a \in NormalizedEvent /\ a.child # None /\ ~ OtherSession(s, a)
    BY <1>1, AuthorityType DEF SuppressedChild
  <2>2. /\ t.children = children /\ t.session = s.session /\ t.lifecycle = s.lifecycle
    BY <1>1, Zenon DEF apply_event, apply_child_event, InvocationSnapshot
  <2> HIDE DEF a, t
  <2>3. /\ IsFiniteSet(children) /\ Cardinality(children) <= CHILD_AGENTS_MAX
        /\ \A c, d \in children : c.agent_id = d.agent_id => c = d
        /\ \A c \in children : s.session # None => c.session \in {None, s.session}
    BY <2>1, ReduceChildRow
  <2> HIDE DEF children
  <2>4. ChildRow(t)
    BY <1>1, <2>2, <2>3 DEF ChildRow
  <2> QED
    BY <2>4 DEF t
<1>2. CASE e.child # None /\ (SuppressedChild(s, e) \/ s.lifecycle \in Ended)
  <2>1. LET t == apply_event(s, reason, e, now).snapshot IN
        t.children = s.children /\ t.session = s.session /\ t.lifecycle = s.lifecycle
    BY <1>2 DEF apply_event, apply_child_event, InvocationSnapshot
  <2> QED
    BY <2>1, FewerChildren
<1>3. CASE e.child = None /\ SuppressedRoot(s, e)
  BY <1>3 DEF apply_event, apply_root_event
<1>4. CASE e.child = None /\ ~ SuppressedRoot(s, e)
  <2> DEFINE f == Effective(s, e)
             t == reduce(s, f, now)
  <2>1. f \in NormalizedEvent
    BY EffectiveType
  <2>2. apply_event(s, reason, e, now).snapshot = t
    BY <1>4 DEF apply_event, apply_root_event
  <2> HIDE DEF f
  <2>3. /\ t.children = ReduceChildren(s, f)
        /\ t.session = IF f.session # None THEN f.session ELSE s.session
        /\ t.lifecycle = IF f.kind = "SessionEnded" THEN "Exited" ELSE s.lifecycle
    BY <2>1, ReduceFields
  <2> HIDE DEF t
  <2>4. CASE t.children = {}
    BY <2>2, <2>4, NoChildren
  <2>5. CASE t.children # {}
    <3>1. t.children = s.children /\ t.session = s.session /\ t.lifecycle = s.lifecycle
      BY <2>3, <2>5 DEF ReduceChildren, NewSession
    <3> QED
      BY <2>2, <3>1, FewerChildren
  <2> QED
    BY <2>4, <2>5
<1> QED
  BY <1>1, <1>2, <1>3, <1>4

(* One event opens at most one turn. *)
LEMMA EventTurns ==
  ASSUME NEW s \in InvocationSnapshot, NEW reason, NEW e \in NormalizedEvent, NEW now \in Nat
  PROVE  apply_event(s, reason, e, now).snapshot.turn_generation
           \in {s.turn_generation, s.turn_generation + 1}
<1>1. CASE e.child # None
  BY <1>1, ChildEventFields DEF apply_event
<1>2. CASE e.child = None
  <2>1. Effective(s, e) \in NormalizedEvent
    BY EffectiveType
  <2>2. reduce(s, Effective(s, e), now).turn_generation
          \in {s.turn_generation, s.turn_generation + 1}
    BY <2>1, ReduceFields
  <2> QED
    BY <1>2, <2>2 DEF apply_event, apply_root_event
<1> QED
  BY <1>1, <1>2

(* What exit, loss, bind and expiry do: they open no turn and add no child. *)
Keeps(s, t) == t.turn_generation = s.turn_generation /\ ChildRow(t)

(* Each of the local writes keeps the row's turns and bounds. *)
LEMMA LocalTableRows ==
  ASSUME NEW s \in InvocationSnapshot, NEW reason, NEW now \in Nat, ChildRow(s)
  PROVE  /\ Keeps(s, mark_lost(s, reason).snapshot)
         /\ Keeps(s, local_exit(s, reason).snapshot)
         /\ Keeps(s, local_bind(s, reason).snapshot)
         /\ Keeps(s, expire_stale_working(s, reason, now).snapshot)
         /\ Keeps(s, [s EXCEPT !.confirmation = "RestoredUnconfirmed"])
<1>1. ASSUME NEW t, t = mark_lost(s, reason).snapshot \/ t = local_exit(s, reason).snapshot
      PROVE  Keeps(s, t)
  <2>1. t.turn_generation = s.turn_generation /\ t.children = {}
    BY <1>1, Zenon DEF mark_lost, local_exit, InvocationSnapshot
  <2> QED
    BY <2>1, NoChildren DEF Keeps
<1>2. ASSUME NEW t, t = local_bind(s, reason).snapshot
      PROVE  Keeps(s, t)
  <2>1. /\ t.turn_generation = s.turn_generation /\ t.children = s.children
        /\ t.session = s.session /\ t.lifecycle = "Alive"
    BY <1>2, Zenon DEF local_bind, InvocationSnapshot
  <2> QED
    BY <2>1, FewerChildren DEF Ended, Keeps
<1>3. ASSUME NEW t, t = expire_stale_working(s, reason, now).snapshot
      PROVE  Keeps(s, t)
  <2> DEFINE children == {c \in s.children : ~ is_stale_child(c, now)}
             activity == IF is_stale_working(s, now) THEN "Unknown" ELSE s.activity
             tool == IF is_stale_working(s, now) THEN None ELSE s.tool
  <2>1. t = [s EXCEPT !.children = children, !.activity = activity, !.tool = tool]
    BY <1>3 DEF expire_stale_working
  <2>2. children \subseteq s.children
    OBVIOUS
  <2> HIDE DEF children, activity, tool
  <2>3. /\ t.turn_generation = s.turn_generation /\ t.children = children
        /\ t.session = s.session /\ t.lifecycle = s.lifecycle
    BY <2>1 DEF InvocationSnapshot
  <2> QED
    BY <2>2, <2>3, FewerChildren DEF Keeps
<1>4. ASSUME NEW t, t = [s EXCEPT !.confirmation = "RestoredUnconfirmed"]
      PROVE  Keeps(s, t)
  <2>1. /\ t.turn_generation = s.turn_generation /\ t.children = s.children
        /\ t.session = s.session /\ t.lifecycle = s.lifecycle
    BY <1>4 DEF InvocationSnapshot
  <2> QED
    BY <2>1, FewerChildren DEF Keeps
<1> QED
  BY <1>1, <1>2, <1>3, <1>4, Zenon

-----------------------------------------------------------------------------
(* All rows, in every behaviour. *)

(* A transaction without an event id, that opens no turn. *)
LEMMA TransitionTable ==
  ASSUME RowTypes, TableInv, NEW i \in Invocations, NEW t \in Transition,
         apply_transition(i, t), dedup' = dedup,
         t.snapshot.turn_generation <= Cardinality(dedup), ChildRow(t.snapshot)
  PROVE  TableInv'
<1>1. /\ rows'[i] = t.snapshot
      /\ \A j \in Invocations \ {i} : rows'[j] = rows[j]
  BY TransitionWrites
<1> QED
  BY <1>1 DEF TableInv

(* Exit, bind, loss and expiry of a row that is there, and its restoration. *)
LEMMA LocalTableStep ==
  ASSUME RowTypes, TableInv, NEW i \in Invocations, rows[i] # None, NEW now \in Nat,
         dedup' = dedup,
         \/ apply_transition(i, mark_lost(rows[i], reasons[i]))
         \/ apply_transition(i, local_exit(rows[i], reasons[i]))
         \/ apply_transition(i, local_bind(rows[i], reasons[i]))
         \/ apply_transition(i, expire_stale_working(rows[i], reasons[i], now))
         \/ apply_transition(i, [reason |-> reasons[i],
              snapshot |-> [rows[i] EXCEPT !.confirmation = "RestoredUnconfirmed"]])
  PROVE  TableInv'
<1>1. /\ rows[i] \in InvocationSnapshot /\ reasons[i] \in Option(ReasonKinds)
      /\ rows[i].turn_generation <= Cardinality(dedup) /\ ChildRow(rows[i])
  BY DEF RowTypes, Option, TableInv
<1> DEFINE restored == [reason |-> reasons[i],
              snapshot |-> [rows[i] EXCEPT !.confirmation = "RestoredUnconfirmed"]]
<1>2. restored \in Transition
  BY <1>1 DEF Transition, InvocationSnapshot
<1>3. Keeps(rows[i], restored.snapshot)
  BY <1>1, LocalTableRows
<1> HIDE DEF restored
<1>4. PICK t \in Transition : apply_transition(i, t) /\ Keeps(rows[i], t.snapshot)
  BY <1>1, <1>2, <1>3, LocalTypes, LocalTableRows DEF restored
<1> QED
  BY <1>1, <1>4, TransitionTable DEF Keeps

(* An event and its id are stored together: one more turn, one more id. *)
LEMMA EventTable ==
  ASSUME IInv, TableInv, NEW i \in Invocations, NEW id \in EventIds,
         NEW e \in HookEvents \cup ArtifactEvents, apply_event_with_context(i, id, e)
  PROVE  TableInv'
<1>1. CASE id \in dedup
  BY <1>1 DEF apply_event_with_context, storage, TableInv
<1>2. CASE id \notin dedup
  <2> DEFINE t == apply_event(rows[i], reasons[i], e, clock)
  <2>1. RowTypes /\ clock \in Nat
    BY DEF IInv, TypeOK, RowTypes
  <2>2. /\ rows[i] \in InvocationSnapshot /\ reasons[i] \in Option(ReasonKinds)
        /\ rows[i].turn_generation <= Cardinality(dedup) /\ ChildRow(rows[i])
    BY <2>1 DEF RowTypes, apply_event_with_context, Option, TableInv
  <2>3. e \in NormalizedEvent /\ (e.sequence # None => e.source # None)
    BY EventFacts
  <2>4. /\ t \in Transition /\ ChildRow(t.snapshot)
        /\ t.snapshot.turn_generation \in {rows[i].turn_generation, rows[i].turn_generation + 1}
    BY <2>1, <2>2, <2>3, ApplyEventType, EventChildRow, EventTurns
  <2>5. apply_transition(i, t) /\ dedup' = dedup \cup {id}
    BY <1>2 DEF apply_event_with_context
  <2> HIDE DEF t
  <2>6. /\ rows'[i] = t.snapshot
        /\ \A j \in Invocations \ {i} : rows'[j] = rows[j]
    BY <2>1, <2>4, <2>5, TransitionWrites
  <2>7. /\ IsFiniteSet(dedup') /\ Cardinality(dedup') = Cardinality(dedup) + 1
        /\ Cardinality(dedup) \in Nat
    BY <1>2, <2>5, FS_AddElement, FS_CardinalityType DEF TableInv
  <2>8. ASSUME NEW j \in Invocations, rows'[j] # None
        PROVE  rows'[j].turn_generation <= Cardinality(dedup') /\ ChildRow(rows'[j])
    <3>1. CASE j = i
      <4>1. rows[i].turn_generation \in Nat
        BY <2>2 DEF InvocationSnapshot
      <4> QED
        BY <2>2, <2>4, <2>6, <2>7, <3>1, <4>1
    <3>2. CASE j # i
      <4>1. rows'[j] = rows[j] /\ rows[j] # None
        BY <2>6, <2>8, <3>2
      <4>2. rows[j].turn_generation \in Nat
        BY <2>1, <4>1 DEF RowTypes, Option, InvocationSnapshot
      <4> QED
        BY <2>7, <4>1, <4>2 DEF TableInv
    <3> QED
      BY <3>1, <3>2
  <2> QED
    BY <2>7, <2>8 DEF TableInv
<1> QED
  BY <1>1, <1>2

(* A new row has neither turns nor children. *)
LEMMA NewTableRow ==
  TableInv => NewSnapshot.turn_generation <= Cardinality(dedup) /\ ChildRow(NewSnapshot)
<1>1. NewSnapshot.turn_generation = 0 /\ NewSnapshot.children = {}
  BY DEF NewSnapshot
<1> QED
  BY <1>1, NoChildren, FS_CardinalityType DEF TableInv

(* TableInv is inductive relative to IInv. *)
LEMMA NextTable == IInv /\ TableInv /\ [Next]_vars => TableInv'
<1> SUFFICES ASSUME IInv, TableInv, [Next]_vars PROVE TableInv'
  OBVIOUS
<1>0. RowTypes /\ clock \in Nat /\ sweep.now \in Nat
  BY DEF IInv, TypeOK, RowTypes
<1>1. CASE UNCHANGED <<rows, dedup>>
  BY <1>1 DEF TableInv, ChildRow
<1>2. ASSUME NEW i \in Invocations, WrapperNext(i) PROVE TableInv'
  BY <1>1, <1>2 DEF WrapperNext, Launch, Connect, Spawn, ProcessExit, WrapperKilled, storage
<1>3. ASSUME NEW i \in Invocations, ServeRegister(i) \/ CrashAfterRegister(i)
      PROVE  TableInv'
  <2> DEFINE t == [snapshot |-> NewSnapshot, reason |-> None]
  <2>1. t \in Transition /\ t.snapshot = NewSnapshot
    BY <1>0, NewSnapshotType
  <2>2. apply_transition(i, t) /\ dedup' = dedup
    BY <1>3 DEF ServeRegister, CrashAfterRegister
  <2> HIDE DEF t
  <2> QED
    BY <1>0, <2>1, <2>2, NewTableRow, TransitionTable
<1>4. ASSUME NEW i \in Invocations, bind_child(i) \/ mark_exit(i) PROVE TableInv'
  <2>1. CASE rows[i] = None
    BY <1>1, <1>4, <2>1 DEF bind_child, mark_exit
  <2>2. CASE rows[i] # None
    BY <1>0, <1>4, <2>2, LocalTableStep, Zenon DEF bind_child, mark_exit
  <2> QED
    BY <2>1, <2>2
<1>5. ASSUME NEW i \in Invocations, NEW id \in EventIds, NEW e \in HookEvents,
             ingest_hook(i, id, e)
      PROVE  TableInv'
  BY <1>5, EventTable DEF ingest_hook
<1>6. ASSUME NEW i \in Invocations, NEW e \in ArtifactEvents, EnrichmentChecked(i, e)
      PROVE  TableInv'
  BY <1>1, <1>6 DEF EnrichmentChecked, storage
<1>7. ASSUME NEW id \in EventIds, apply_enrichment(id) PROVE TableInv'
  <2>1. enriching.invocation \in Invocations /\ enriching.event \in ArtifactEvents
    BY <1>7 DEF apply_enrichment, IInv, TypeOK, Option
  <2> QED
    BY <1>7, <2>1, EventTable DEF apply_enrichment
<1>8. ASSUME NEW i \in Invocations, expire_stale_working_at(i) PROVE TableInv'
  <2>1. rows[i] # None
    BY <1>8 DEF IInv, PendingRows, Present, expire_stale_working_at
  <2> QED
    BY <1>0, <1>8, <2>1, LocalTableStep, Zenon DEF expire_stale_working_at
<1>9. CASE Accept
  <2>1. dedup' = dedup /\ \A j \in Invocations : rows'[j] \in {None, rows[j]}
    BY <1>9 DEF Accept
  <2> QED
    BY <2>1 DEF TableInv
<1>10. CASE stale_working_worker \/ Crash \/ Start \/ ReconcileExpire \/ Tick
  BY <1>1, <1>10 DEF stale_working_worker, Crash, Start, ReconcileExpire, Tick, storage
<1>11. ASSUME NEW i \in Invocations, reconcile(i) PROVE TableInv'
  <2>1. rows[i] # None /\ dedup' = dedup
    BY <1>11 DEF IInv, PendingRows, Present, reconcile
  <2>2. CASE UNCHANGED <<rows, reasons>>
    BY <1>1, <2>1, <2>2
  <2>3. CASE ~ UNCHANGED <<rows, reasons>>
    BY <1>0, <1>11, <2>1, <2>3, LocalTableStep DEF reconcile
  <2> QED
    BY <2>2, <2>3
<1>12. CASE UNCHANGED vars
  BY <1>1, <1>12 DEF vars, storage
<1> QED
  BY <1>2, <1>3, <1>4, <1>5, <1>6, <1>7, <1>8, <1>9, <1>10, <1>11, <1>12
     DEF Next, ServeNext, DaemonNext

(* The tables keep their counts in every behaviour: rows are written by       *)
(* register, events, exits, losses, expiry and reconcile, ids by events only. *)
THEOREM TablesCount == Spec => []TableInv
<1>1. Init => TableInv
  BY FS_EmptySet DEF Init, TableInv
<1> QED
  BY <1>1, NextTable, BrokerInvariant, PTL DEF Spec

(* A redelivered event opens no second turn (TurnsCountedOnce), whatever      *)
(* crashes lie between its deliveries.                                        *)
THEOREM TurnsAreCountedOnce == Spec => []TurnsCountedOnce
<1>1. TableInv => TurnsCountedOnce
  BY DEF TableInv, TurnsCountedOnce, Present
<1> QED
  BY <1>1, TablesCount, PTL

(* The children of a row are of its session, within CHILD_AGENTS_MAX, with    *)
(* distinct ids, and gone with their process (ChildrenOfCurrentSession).      *)
THEOREM ChildrenAreCurrent == Spec => []ChildrenOfCurrentSession
<1>1. TableInv => ChildrenOfCurrentSession
  BY DEF TableInv, ChildRow, ChildrenOfCurrentSession, Present
<1> QED
  BY <1>1, TablesCount, PTL

(* A row agrees with itself and with the tables beside it (RowsAgree), after  *)
(* every order of hooks, enrichment, sweep, reconcile, crashes and restarts.  *)
THEOREM RowsAlwaysAgree == Spec => []RowsAgree
BY ReasonsMatch, TerminalTurnsAreQuiet, ToolsAreLive, UsageIsCurrent, ChildrenAreCurrent,
   TurnsAreCountedOnce, PTL DEF RowsAgree

=============================================================================
