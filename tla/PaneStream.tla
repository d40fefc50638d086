----------------------------- MODULE PaneStream -----------------------------
(***************************************************************************)
(* What an open pane stream promises its reader (multiplexer/mod.rs): the  *)
(* events of one pane in order.  The pane's output is a count of bytes and *)
(* an event carries the position it ends at.  TmuxStream implements it.    *)
(***************************************************************************)
EXTENDS Naturals

VARIABLES
  produced,  \* bytes the pane has produced
  owed,      \* snapshots asked for and not yet delivered
  stale,     \* of those, the ones asked for before the last dropped output was repaired
  view,      \* "none" before the first snapshot, "gap" while dropped output is not repaired
  pos,       \* the position the last Snapshot or Output event ended at
  event      \* the last event

vars == <<produced, owed, stale, view, pos, event>>

EndReasons == {"PaneClosed", "SessionClosed", "MultiplexerStopped"}
Open == event.type # "Closed"

Init ==
  /\ produced = 0 /\ owed = 1 /\ stale = 0 /\ view = "none" /\ pos = 0
  /\ event = [type |-> "None"]

Produce == produced' = produced + 1 /\ UNCHANGED <<owed, stale, view, pos, event>>

\* PaneStreamControl::request_snapshot
RequestSnapshot == owed' = owed + 1 /\ UNCHANGED <<produced, stale, view, pos, event>>

\* The first event is a snapshot; a snapshot that was already on its way when
\* output was dropped does not repair the gap.
Snapshot ==
  /\ Open /\ owed > 0
  /\ pos' \in pos..produced
  /\ owed' = owed - 1
  /\ \/ stale > 0 /\ stale' = stale - 1 /\ view' = "gap"
     \/ stale = 0 /\ stale' = 0 /\ view' = "exact"
  /\ event' = [type |-> "Snapshot", at |-> pos']
  /\ UNCHANGED produced

\* Output follows a snapshot, byte for byte unless output was dropped.
Output ==
  /\ Open /\ view # "none"
  /\ pos' \in (pos + 1)..produced
  /\ view = "exact" => pos' = pos + 1
  /\ event' = [type |-> "Output", at |-> pos']
  /\ UNCHANGED <<produced, owed, stale, view>>

\* The backend dropped output; a fresh snapshot is needed.
Resync ==
  /\ Open
  /\ view' = IF view = "none" THEN "none" ELSE "gap"
  /\ stale' \in 0..owed
  /\ event' = [type |-> "Resync"]
  /\ UNCHANGED <<produced, owed, pos>>

Other ==
  /\ Open
  /\ \/ event' = [type |-> "Resized"]
     \/ \E in_mode \in BOOLEAN : event' = [type |-> "ModeChanged", in_mode |-> in_mode]
  /\ UNCHANGED <<produced, owed, stale, view, pos>>

Close ==
  /\ Open
  /\ \E reason \in EndReasons : event' = [type |-> "Closed", reason |-> reason]
  /\ UNCHANGED <<produced, owed, stale, view, pos>>

Next ==
  \/ Produce \/ RequestSnapshot \/ Snapshot \/ Output \/ Resync \/ Other \/ Close

Spec == Init /\ [][Next]_vars
=============================================================================
