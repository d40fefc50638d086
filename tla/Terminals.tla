----------------------------- MODULE Terminals ------------------------------
(***************************************************************************)
(* The daemon's live terminal of one invocation: a session opened by its   *)
(* first watcher, shared by the others, closed with the last; a reader     *)
(* task that publishes pane events and a poller that watches the agent;    *)
(* the lifecycle request of the exiting wrapper; guarded input.            *)
(* The pane's output is a count of bytes.  The pane stream is PaneStream:  *)
(* the reader takes the next byte, a snapshot that is owed, or the news    *)
(* that output was dropped.  A session keeps the newest FRAME_BUFFER       *)
(* frames (tokio broadcast) and a watcher the number it is behind.         *)
(***************************************************************************)
EXTENDS Naturals, Sequences, FiniteSets, FiniteSetsExt

CONSTANTS
  None,
  Watchers,      \* connections that watch
  MaxSessions,   \* bound on sessions opened one after the other
  FRAME_BUFFER,
  MaxBytes,      \* bound on bytes the pane produces
  MaxOwed,       \* bound on snapshots in flight; more requests are merged
  MaxDrops,      \* bound on output dropped by the multiplexer
  MaxToggles,    \* bound on suspends and on mode changes
  MaxInputs      \* bound on input requests

TerminalsAssumption ==
  /\ FRAME_BUFFER \in Nat \ {0} /\ MaxBytes \in Nat /\ MaxOwed \in Nat \ {0}
  /\ MaxDrops \in Nat /\ MaxToggles \in Nat /\ MaxInputs \in Nat
  /\ MaxSessions \in Nat

VARIABLES
  agent,     \* "running", "exited", or "shell" once the wrapper has returned to it
  front,     \* the agent's process group is in the foreground
  mode,      \* the pane is in a scroll or copy mode
  pane,      \* the pane exists
  produced,  \* bytes the pane has produced
  prompt,    \* those it had produced when the shell took over
  live,      \* storage: the invocation's terminal is live
  request,   \* the wrapper's lifecycle_exit request
  current,   \* Terminals.sessions: the session of the invocation, 0 if none
  ending,    \* sessions taken out of the map by `end` and not yet ended
  ended,     \* Terminals.ended holds the invocation
  session, watcher,
  input,     \* an input request: where it is and the state it last saw
  budget     \* what is left of the bounds

vars == <<agent, front, mode, pane, produced, prompt, live, request, current, ending, ended, session,
          watcher, input, budget>>
world == <<agent, front, mode, pane, produced, prompt>>
daemon == <<live, request, current, ending, ended, session, watcher, input>>

Ids == 1..MaxSessions
InputStates == {"Available", "NotForeground", "PaneInMode"}

NoSession ==
  [opened |-> FALSE, watchers |-> 0, input |-> "Available", foreground |-> "Available",
   in_mode |-> FALSE, ended |-> FALSE, tasks |-> FALSE, frames |-> <<>>, pos |-> 0, owed |-> 0,
   snapped |-> FALSE, polled |-> None,
   aborted |-> FALSE]
NoWatcher ==
  [at |-> "idle", session |-> 0, behind |-> 0, synced |-> FALSE, pos |-> None, input |-> None,
   exact |-> TRUE, ended |-> FALSE]
Gone == [NoWatcher EXCEPT !.at = "left"]

Init ==
  /\ agent = "running" /\ front = TRUE /\ mode = FALSE /\ pane = TRUE
  /\ produced = 0 /\ prompt = None
  /\ live = TRUE /\ request = "none"
  /\ current = 0 /\ ending = {} /\ ended = FALSE
  /\ session = [i \in Ids |-> NoSession]
  /\ watcher = [w \in Watchers |-> NoWatcher]
  /\ input = "idle"
  /\ budget = [drops |-> MaxDrops, toggles |-> MaxToggles, inputs |-> MaxInputs]

-----------------------------------------------------------------------------
(* The pane *)

PanePrints ==
  /\ pane /\ agent # "exited" /\ produced < MaxBytes
  /\ produced' = produced + 1
  /\ UNCHANGED <<agent, front, mode, pane, prompt, daemon, budget>>

Suspend ==
  /\ pane /\ agent = "running" /\ budget.toggles > 0
  /\ front' = ~front
  /\ budget' = [budget EXCEPT !.toggles = @ - 1]
  /\ UNCHANGED <<agent, mode, pane, produced, prompt, daemon>>

Scroll ==
  /\ pane /\ budget.toggles > 0
  /\ mode' = ~mode
  /\ budget' = [budget EXCEPT !.toggles = @ - 1]
  /\ UNCHANGED <<agent, front, pane, produced, prompt, daemon>>

PaneGoes ==
  /\ pane
  /\ pane' = FALSE /\ agent' = IF agent = "running" THEN "exited" ELSE agent
  /\ UNCHANGED <<front, mode, produced, prompt, daemon, budget>>

AgentExits ==
  /\ agent = "running"
  /\ agent' = "exited" /\ front' = FALSE
  /\ UNCHANGED <<mode, pane, produced, prompt, daemon, budget>>

\* The wrapper returns to the shell after its exit request was answered.
ShellReturns ==
  /\ pane /\ agent = "exited" /\ request = "answered"
  /\ agent' = "shell" /\ prompt' = produced
  /\ UNCHANGED <<front, mode, pane, produced, daemon, budget>>

-----------------------------------------------------------------------------
(* Frames *)

\* broadcast::Sender::send of a sequence of frames
Sent(frames, new) ==
  LET all == frames \o new
  IN  SubSeq(all, IF Len(all) > FRAME_BUFFER THEN Len(all) - FRAME_BUFFER + 1 ELSE 1, Len(all))
Fallen(i, n) ==
  [w \in Watchers |->
     IF watcher[w].session = i /\ watcher[w].at = "watching"
       THEN [watcher[w] EXCEPT !.behind = Min({@ + n, FRAME_BUFFER + 1})] ELSE watcher[w]]

from_guard(foreground, in_mode) ==
  IF foreground # "Available" THEN foreground ELSE IF in_mode THEN "PaneInMode" ELSE "Available"

\* update_input: a frame when the availability changed
InputFrames(s, foreground, in_mode) ==
  IF from_guard(foreground, in_mode) = s.input THEN <<>>
    ELSE <<[type |-> "Input", input |-> from_guard(foreground, in_mode)]>>

\* Session i becomes s with new guard inputs, and sends the frames `more`.
Publish(i, s, foreground, in_mode, more) ==
  LET new == IF s.ended THEN <<>> ELSE InputFrames(s, foreground, in_mode) \o more
  IN  /\ session' = [session EXCEPT ![i] =
           IF s.ended THEN s
           ELSE [s EXCEPT !.foreground = foreground, !.in_mode = in_mode,
                   !.input = from_guard(foreground, in_mode), !.frames = Sent(@, new)]]
      /\ watcher' = Fallen(i, Len(new))

More(owed) == Min({owed + 1, MaxOwed})

-----------------------------------------------------------------------------
(* The reader task *)

Reader(i) == session[i].tasks /\ UNCHANGED <<world, live, request, input>>
readerOnly == <<current, ending, ended>>

\* Output before the first snapshot is part of it.
RecvSnapshot(i) ==
  LET s == session[i]
      at == IF s.snapped THEN s.pos ELSE produced
      frame == [type |-> "Snapshot", at |-> at, input |-> from_guard(s.foreground, mode)]
  IN  /\ Reader(i) /\ pane /\ s.owed > 0
      /\ Publish(i, [s EXCEPT !.pos = at, !.owed = @ - 1, !.snapped = TRUE], s.foreground, mode, <<frame>>)
      /\ UNCHANGED <<readerOnly, budget>>

RecvOutput(i) ==
  LET s == session[i]
  IN  /\ Reader(i) /\ s.snapped /\ s.pos < produced
      /\ Publish(i, [s EXCEPT !.pos = @ + 1], s.foreground, s.in_mode,
                 <<[type |-> "Output", at |-> s.pos + 1]>>)
      /\ UNCHANGED <<readerOnly, budget>>

\* Resync: the multiplexer dropped output; a snapshot is requested.
RecvResync(i) ==
  LET s == session[i]
  IN  /\ Reader(i) /\ pane /\ s.snapped /\ s.pos < produced /\ budget.drops > 0
      /\ session' = [session EXCEPT ![i].pos = produced, ![i].owed = More(@)]
      /\ budget' = [budget EXCEPT !.drops = @ - 1]
      /\ UNCHANGED <<readerOnly, watcher>>

RecvModeChanged(i) ==
  LET s == session[i]
  IN  /\ Reader(i) /\ pane /\ s.in_mode # mode
      /\ Publish(i, s, s.foreground, mode, <<>>)
      /\ UNCHANGED <<readerOnly, budget>>

\* Terminals::end, first half: the session leaves the map.
EndCurrent ==
  /\ ending' = IF current = 0 THEN ending ELSE ending \cup {current}
  /\ current' = 0

RecvClosed(i) ==
  /\ Reader(i) /\ ~pane
  /\ EndCurrent
  /\ session' = [session EXCEPT ![i].tasks = FALSE]
  /\ UNCHANGED <<ended, watcher, budget>>

\* Terminals::end, second half: TerminalSession::end, the ended set, abort.
EndSession(i) ==
  /\ i \in ending /\ ending' = ending \ {i} /\ ended' = TRUE
  /\ session' = [session EXCEPT ![i].ended = TRUE, ![i].aborted = TRUE,
                   ![i].frames = Sent(@, <<[type |-> "Ended"]>>)]
  /\ watcher' = Fallen(i, 1)
  /\ UNCHANGED <<world, live, request, current, input, budget>>

\* JoinHandle::abort takes effect when the tasks next yield; until then they
\* may finish what they are doing.
Abort(i) ==
  /\ session[i].tasks /\ session[i].aborted
  /\ session' = [session EXCEPT ![i].tasks = FALSE, ![i].polled = None]
  /\ UNCHANGED <<world, live, request, current, ending, ended, watcher, input, budget>>

-----------------------------------------------------------------------------
(* The poller task: the agent and the pane are read outside the locks. *)

guard_foreground == IF pane /\ front THEN "Available" ELSE "NotForeground"

PollRead(i) ==
  /\ session[i].tasks /\ session[i].polled = None
  /\ session' = [session EXCEPT ![i].polled = IF agent = "running" THEN guard_foreground ELSE "Exited"]
  /\ UNCHANGED <<world, live, request, current, ending, ended, watcher, input, budget>>

PollApply(i) ==
  LET s == session[i]
  IN  /\ s.tasks /\ s.polled # None
      /\ IF s.polled = "Exited"
           THEN /\ EndCurrent
                /\ session' = [session EXCEPT ![i].tasks = FALSE]
                /\ UNCHANGED watcher
           ELSE /\ Publish(i, [s EXCEPT !.polled = None], s.polled, s.in_mode, <<>>)
                /\ UNCHANGED <<current, ending>>
      /\ UNCHANGED <<world, live, request, ended, input, budget>>

-----------------------------------------------------------------------------
(* lifecycle_exit and reconcile *)

mark_exit ==
  /\ request = "none" /\ agent = "exited"
  /\ live' = FALSE /\ request' = "marked"
  /\ UNCHANGED <<world, current, ending, ended, session, watcher, input, budget>>

lifecycle_exit ==
  \/ /\ request = "marked" /\ EndCurrent /\ request' = "ending"
     /\ UNCHANGED <<world, live, ended, session, watcher, input, budget>>
  \/ /\ request = "ending" /\ ending = {} /\ request' = "answered"
     /\ UNCHANGED <<world, live, current, ending, ended, session, watcher, input, budget>>

\* reconcile's end_not_live
end_not_live ==
  /\ ~live /\ current # 0
  /\ EndCurrent
  /\ UNCHANGED <<world, live, request, ended, session, watcher, input, budget>>

-----------------------------------------------------------------------------
(* Watchers *)

watchOnly == <<world, live, request, input, budget>>

\* terminal_target: nothing is run for an invocation that is not live.
terminal_target(w) ==
  /\ watcher[w].at = "idle"
  /\ watcher' = [watcher EXCEPT ![w].at = IF ended \/ ~live THEN "left" ELSE "target"]
  /\ UNCHANGED <<watchOnly, current, ending, ended, session>>

\* The stream of a pane that is gone refuses a request for a snapshot.
Join(w) ==
  LET i == current
  IN  /\ watcher[w].at = "target" /\ current # 0
      /\ IF pane
           THEN /\ session' = [session EXCEPT ![i].watchers = @ + 1, ![i].owed = More(@)]
                /\ watcher' = [watcher EXCEPT ![w].at = "watching", ![w].session = i]
           ELSE /\ session' = [session EXCEPT ![i].watchers = @ + 1]
                /\ watcher' = [watcher EXCEPT ![w].at = "left"]
      /\ UNCHANGED <<watchOnly, current, ending, ended>>

\* TmuxAdapter::validate: the tracked process must still be in its pane.
open_stream == pane /\ agent = "running"

Open(w) ==
  LET i == CHOOSE n \in Ids : ~session[n].opened /\ \A k \in Ids : k < n => session[k].opened
  IN  /\ watcher[w].at = "target" /\ current = 0
      /\ \E n \in Ids : ~session[n].opened
      /\ IF open_stream
           THEN /\ session' = [session EXCEPT ![i] =
                     [NoSession EXCEPT !.opened = TRUE, !.watchers = 1, !.input = guard_foreground,
                        !.foreground = guard_foreground, !.tasks = TRUE, !.pos = produced, !.owed = 1]]
                /\ watcher' = [watcher EXCEPT ![w].at = "watching", ![w].session = i]
                /\ current' = i
           ELSE /\ watcher' = [watcher EXCEPT ![w].at = "left"]
                /\ UNCHANGED <<session, current>>
      /\ UNCHANGED <<watchOnly, ending, ended>>

Watching(w) == watcher[w].at = "watching"
Frames(w) == session[watcher[w].session].frames
Frame(w) == Frames(w)[Len(Frames(w)) - watcher[w].behind + 1]

\* Watcher::next: a snapshot syncs the watcher, other frames need it synced.
Shown(w, frame) == frame.type # "Ended" /\ (frame.type = "Snapshot" \/ watcher[w].synced)

View(w, frame) ==
  LET v == [watcher[w] EXCEPT !.behind = @ - 1]
  IN  CASE frame.type = "Ended" -> [v EXCEPT !.ended = TRUE]
        [] frame.type = "Snapshot" ->
             [v EXCEPT !.synced = TRUE, !.pos = frame.at, !.input = frame.input, !.exact = TRUE]
        [] frame.type = "Output" /\ Shown(w, frame) ->
             [v EXCEPT !.pos = frame.at, !.exact = @ /\ watcher[w].pos # None /\ frame.at = watcher[w].pos + 1]
        [] frame.type = "Input" /\ Shown(w, frame) -> [v EXCEPT !.input = frame.input]
        [] OTHER -> v

Receive(w) ==
  /\ Watching(w) /\ ~watcher[w].ended /\ watcher[w].behind \in 1..FRAME_BUFFER
  /\ watcher' = [watcher EXCEPT ![w] = View(w, Frame(w))]
  /\ UNCHANGED <<watchOnly, current, ending, ended, session>>

(* Mutant: a watcher that fell behind asks for no snapshot. *)
Lag_Unasked(w) ==
  /\ Watching(w) /\ ~watcher[w].ended /\ watcher[w].behind > FRAME_BUFFER
  /\ watcher' = [watcher EXCEPT ![w].behind = FRAME_BUFFER, ![w].synced = FALSE]
  /\ UNCHANGED <<watchOnly, current, ending, ended, session>>

Lag(w) ==
  /\ Watching(w) /\ ~watcher[w].ended /\ watcher[w].behind > FRAME_BUFFER
  /\ watcher' = [watcher EXCEPT ![w].behind = FRAME_BUFFER, ![w].synced = FALSE]
  /\ session' = [session EXCEPT ![watcher[w].session].owed = More(@)]
  /\ UNCHANGED <<watchOnly, current, ending, ended>>

\* Watcher::resync, asked for by the control channel when the relay fell behind
resync(w) ==
  /\ Watching(w) /\ ~watcher[w].ended /\ watcher[w].synced
  /\ watcher' = [watcher EXCEPT ![w].synced = FALSE]
  /\ session' = [session EXCEPT ![watcher[w].session].owed = More(@)]
  /\ UNCHANGED <<watchOnly, current, ending, ended>>


\* Watcher::drop: the connection closed, or its Ended frame was written.
leave(w) ==
  LET i == watcher[w].session
      last == session[i].watchers = 1 /\ current = i
  IN  /\ Watching(w)
      /\ session' = [session EXCEPT ![i].watchers = @ - 1, ![i].aborted = last]
      /\ current' = IF last THEN 0 ELSE current
      /\ watcher' = [watcher EXCEPT ![w] = Gone]
      /\ UNCHANGED <<watchOnly, ending, ended>>

-----------------------------------------------------------------------------
(* terminal_input *)

InputCheck ==
  LET target == ~ended /\ live
      refused == from_guard(guard_foreground, mode) # "Available"
  IN  /\ input = "idle" /\ budget.inputs > 0
      /\ input' = IF target /\ pane /\ agent = "running" /\ ~refused THEN "checked" ELSE "idle"
      /\ budget' = [budget EXCEPT !.inputs = @ - 1]
      /\ UNCHANGED <<world, live, request, current, ending, ended, session, watcher>>

\* send_keys and paste validate the process again before they write.
InputSend ==
  /\ input = "checked"
  /\ input' = IF open_stream THEN "typed" ELSE "idle"
  /\ UNCHANGED <<world, live, request, current, ending, ended, session, watcher, budget>>

InputDone ==
  /\ input = "typed" /\ input' = "idle"
  /\ UNCHANGED <<world, live, request, current, ending, ended, session, watcher, budget>>

-----------------------------------------------------------------------------
World == PanePrints \/ Suspend \/ Scroll \/ PaneGoes \/ AgentExits \/ ShellReturns
Task(i) ==
  \/ RecvSnapshot(i) \/ RecvOutput(i) \/ RecvResync(i) \/ RecvModeChanged(i) \/ RecvClosed(i)
Poller(i) == PollRead(i) \/ PollApply(i)
Watch(w) == terminal_target(w) \/ Join(w) \/ Open(w)
Requests == mark_exit \/ lifecycle_exit \/ end_not_live
Input == InputCheck \/ InputSend \/ InputDone

Next ==
  \/ World \/ Requests \/ Input
  \/ \E i \in Ids : Task(i) \/ Poller(i) \/ EndSession(i) \/ Abort(i)
  \/ \E w \in Watchers : Watch(w) \/ Receive(w) \/ Lag(w) \/ resync(w) \/ leave(w)

Spec == Init /\ [][Next]_vars

\* A session's tasks keep running and a connected watcher keeps reading; recv
\* does not yield between Lagged and the next frame, so a frame that can be
\* received again and again is received.  The wrapper may never report an exit.

-----------------------------------------------------------------------------
TypeOK ==
  /\ current \in Ids \cup {0} /\ ending \subseteq Ids
  /\ session \in [Ids -> [opened : BOOLEAN, watchers : Nat, input : InputStates,
       foreground : {"Available", "NotForeground"}, in_mode : BOOLEAN, ended : BOOLEAN, tasks : BOOLEAN,
       frames : Seq([type : {"Ended"}] \cup [type : {"Output"}, at : 1..MaxBytes]
         \cup [type : {"Input"}, input : InputStates]
         \cup [type : {"Snapshot"}, at : 0..MaxBytes, input : InputStates]),
       pos : 0..MaxBytes, owed : 0..MaxOwed, snapped : BOOLEAN,
       polled : {None, "Available", "NotForeground", "Exited"},
       aborted : BOOLEAN]]
  /\ \A w \in Watchers : watcher[w].behind \in 0..(FRAME_BUFFER + 1)

\* terminal-stream spec: "Every following output message SHALL carry only bytes
\* the pane produced after the snapshot was taken, with none dropped and none
\* repeated", for every watcher, whoever else asks for snapshots or falls behind.
OutputIsContiguous == \A w \in Watchers : watcher[w].exact

\* "After the agent exits, no output the pane produces later SHALL be
\* forwarded": the shell's prompt reaches no watcher, not even one that was let
\* in before the exit was recorded (terminal_target is checked outside the lock).
NoShellOutput ==
  prompt # None => \A w \in Watchers : watcher[w].pos # None => watcher[w].pos <= prompt

\* "A stream SHALL end with exactly one ended message, after which the daemon
\* ... forwards no further output": Ended is the last frame of its session,
\* whichever of the reader, the poller and the request publishes next.
EndedIsLast ==
  \A i \in Ids :
    LET f == session[i].frames
    IN  /\ \A k \in 1..Len(f) : f[k].type = "Ended" => k = Len(f)
        /\ session[i].ended => Len(f) > 0 /\ f[Len(f)].type = "Ended"

\* No watcher is left on a session that nobody publishes to: its session is the
\* invocation's, is being ended, or has ended.
NotStranded ==
  \A w \in Watchers : Watching(w) =>
    LET i == watcher[w].session IN i = current \/ i \in ending \/ session[i].ended

\* "SHALL close it when the last watcher of that pane disconnects", and a
\* session with a live stream is not kept open by a watcher that never joined.
OpenForWatchers ==
  current # 0 /\ pane => \E w \in Watchers : Watching(w) /\ watcher[w].session = current

\* A watcher that has read everything shows the session's input availability,
\* although input frames sent while it was out of sync were skipped.
InputIsCurrent ==
  \A w \in Watchers : Watching(w) /\ watcher[w].synced /\ watcher[w].behind = 0 =>
    watcher[w].input = session[watcher[w].session].input

\* Keys are never typed at the shell the agent returned to (send_keys validates).
\* "Agent exits to the shell".
\* A watcher that stays is told everything: it ends up with all the output and
\* the true input availability ("a watcher that falls behind SHALL be sent a
\* fresh snapshot instead of the missed output") and, once the agent has
\* exited, with Ended, even when the wrapper never reports the exit.
Told(w) ==
  \/ ~Watching(w) \/ watcher[w].ended
  \/ /\ agent = "running" /\ watcher[w].pos = produced
     /\ watcher[w].input = from_guard(guard_foreground, mode)
WatcherIsTold == \A w \in Watchers : Watching(w) ~> Told(w)
=============================================================================
