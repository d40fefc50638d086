----------------------------- MODULE TmuxStream -----------------------------
(***************************************************************************)
(* The output-only tmux control client behind a live pane stream           *)
(* (multiplexer/tmux/stream.rs).  The daemon writes commands to the        *)
(* client's stdin and a reader thread turns the lines of its stdout into   *)
(* pane events; `pending` says what each reply means, in write order.      *)
(* tmux is external: it runs the commands in order and answers on the same *)
(* queue as the pane's output, and it may pause a pane whose output backs  *)
(* up: what the pane prints until it is told to continue is not sent.      *)
(***************************************************************************)
EXTENDS Naturals, Sequences, SequencesExt

CONSTANTS
  None,
  MaxBytes,     \* bound on bytes the pane produces
  MaxRequests,  \* bound on snapshots asked for by the stream's user
  MaxPauses,    \* bound on pauses
  MaxChanges    \* bound on mode changes and on size changes

StreamAssumption ==
  MaxBytes \in Nat /\ MaxRequests \in Nat /\ MaxPauses \in Nat /\ MaxChanges \in Nat

VARIABLES
  tmux,      \* the server: [produced, paused, in_mode, size, pane, session, server]
  stdin,     \* commands written and not yet run
  stdout,    \* lines written by tmux and not yet read
  pending,   \* Writer.pending
  reader,    \* Reader: [captured, size, snapshot_seen] and where its thread is
  closed,    \* TmuxStream.closed: the last handle was dropped
  event,     \* the last event sent to the stream's user
  seen,      \* history: the position of that user in the pane's output
  stale,     \* history: snapshots on their way that were asked for before the last `continue`
  view,      \* history: what that user has, see PaneStream
  budget     \* what is left of the bounds

vars == <<tmux, stdin, stdout, pending, reader, closed, event, seen, stale, view, budget>>
history == <<seen, stale, view>>

Pending == {"Ignore", "Capture", "Snapshot", "Mode", "Size"}

\* The replies a command gets.
Replies(command) ==
  CASE command \in {"refresh", "continue"} -> <<"Ignore">>
    [] command = "snapshot" -> <<"Capture", "Snapshot">>
    [] command = "mode" -> <<"Mode">>
    [] command = "size" -> <<"Size">>

SnapshotsIn(replies) == Len(SelectSeq(replies, LAMBDA p : p = "Snapshot"))
\* Those that were asked for before the last command of no interest, `continue`.
BeforeContinue == SubSeq(pending, 1, SelectLastInSeq(pending, LAMBDA p : p = "Ignore"))
Dropped == view' = IF view = "none" THEN "none" ELSE "gap"

\* open: the client starts with its flags and a first snapshot.
Init ==
  /\ tmux = [produced |-> 0, paused |-> FALSE, in_mode |-> FALSE, size |-> 0,
             pane |-> TRUE, session |-> TRUE, server |-> TRUE]
  /\ stdin = <<"refresh", "snapshot">>
  /\ pending = <<"Ignore", "Capture", "Snapshot">>
  /\ stdout = <<>>
  /\ reader = [captured |-> None, size |-> 0, snapshot_seen |-> FALSE, at |-> "read"]
  /\ closed = FALSE /\ event = [type |-> "None"]
  /\ seen = 0 /\ stale = 0 /\ view = "none"
  /\ budget = [requests |-> MaxRequests, pauses |-> MaxPauses, modes |-> MaxChanges, sizes |-> MaxChanges]

-----------------------------------------------------------------------------
(* tmux *)

Attached == tmux.server /\ tmux.session
\* What tmux does to a stream that is over is of no interest.
Live == ~closed /\ event.type # "Closed"
Notify(line) == stdout' = Append(stdout, line)
tmuxOnly == <<stdin, pending, reader, closed, event, history>>

PaneOutput ==
  /\ Live /\ Attached /\ tmux.pane /\ tmux.produced < MaxBytes
  /\ tmux' = [tmux EXCEPT !.produced = @ + 1]
  /\ IF tmux.paused THEN UNCHANGED stdout
                    ELSE Notify([type |-> "Output", at |-> tmux.produced + 1])
  /\ UNCHANGED <<tmuxOnly, budget>>

TmuxPauses ==
  /\ Live /\ Attached /\ tmux.pane /\ ~tmux.paused /\ budget.pauses > 0
  /\ tmux' = [tmux EXCEPT !.paused = TRUE]
  /\ Notify([type |-> "Pause"])
  /\ budget' = [budget EXCEPT !.pauses = @ - 1]
  /\ UNCHANGED tmuxOnly

UserScrolls ==
  /\ Live /\ Attached /\ tmux.pane /\ budget.modes > 0
  /\ tmux' = [tmux EXCEPT !.in_mode = ~@]
  /\ Notify([type |-> "PaneModeChanged"])
  /\ budget' = [budget EXCEPT !.modes = @ - 1]
  /\ UNCHANGED tmuxOnly

UserResizes ==
  /\ Live /\ Attached /\ tmux.pane /\ budget.sizes > 0
  /\ tmux' = [tmux EXCEPT !.size = @ + 1]
  /\ Notify([type |-> "LayoutChange"])
  /\ budget' = [budget EXCEPT !.sizes = @ - 1]
  /\ UNCHANGED tmuxOnly

\* A pane that goes away changes its window's layout, or takes the window with it.
PaneDies ==
  /\ Live /\ Attached /\ tmux.pane
  /\ tmux' = [tmux EXCEPT !.pane = FALSE]
  /\ \E line \in {"LayoutChange", "WindowClose"} : Notify([type |-> line])
  /\ UNCHANGED <<tmuxOnly, budget>>

\* The client is moved to another session, or its session is destroyed.
SessionGoes ==
  /\ Live /\ Attached
  /\ tmux' = [tmux EXCEPT !.session = FALSE]
  /\ \/ Notify([type |-> "SessionChanged"]) \/ UNCHANGED stdout
  /\ UNCHANGED <<tmuxOnly, budget>>

ServerStops ==
  /\ Live /\ tmux.server
  /\ tmux' = [tmux EXCEPT !.server = FALSE]
  /\ UNCHANGED <<stdout, tmuxOnly, budget>>

\* The replies to the command at the head of stdin.  A pane that is gone fails
\* the first command of a line and the rest of the line does not run.
Answer(command) ==
  LET reply == [type |-> "Reply", to |-> "Ignore", ok |-> TRUE, at |-> tmux.produced, size |-> tmux.size,
                in_mode |-> tmux.in_mode]
  IN  IF command \in {"refresh", "continue"} \/ tmux.pane
        THEN [i \in 1..Len(Replies(command)) |-> [reply EXCEPT !.to = Replies(command)[i]]]
        ELSE <<[reply EXCEPT !.to = Head(Replies(command)), !.ok = FALSE]>>

RunCommand ==
  /\ Live /\ Attached /\ stdin # <<>>
  /\ stdin' = Tail(stdin)
  /\ stdout' = stdout \o Answer(Head(stdin))
  /\ tmux' = IF Head(stdin) = "continue" THEN [tmux EXCEPT !.paused = FALSE] ELSE tmux
  /\ UNCHANGED <<pending, reader, closed, event, history, budget>>

-----------------------------------------------------------------------------
(* The stream's user *)

\* Writer::send: the expected replies are recorded, then the line is written.
send(command) ==
  /\ pending' = pending \o Replies(command)
  /\ stdin' = IF Attached THEN Append(stdin, command) ELSE stdin

\* PaneStreamControl::request_snapshot, called by watchers and after a Resync.
request_snapshot ==
  /\ Live /\ budget.requests > 0
  /\ send("snapshot")
  /\ budget' = [budget EXCEPT !.requests = @ - 1]
  /\ UNCHANGED <<tmux, stdout, reader, closed, event, history>>

\* TmuxStream::drop kills the client.
Drop ==
  /\ Live
  /\ closed' = TRUE
  /\ UNCHANGED <<tmux, stdin, stdout, pending, reader, event, history, budget>>

-----------------------------------------------------------------------------
(* The reader thread *)

Reading == Live /\ reader.at = "read"
Next_line == Head(stdout)
Read(type) == Reading /\ stdout # <<>> /\ Next_line.type = type /\ stdout' = Tail(stdout)
readerOnly == <<tmux, closed, budget>>

emit(e) == event' = e

\* handle of %output: output before the first snapshot is part of it.
OnOutput ==
  /\ Read("Output")
  /\ IF reader.snapshot_seen
       THEN emit([type |-> "Output", at |-> Next_line.at]) /\ seen' = Next_line.at
       ELSE UNCHANGED <<event, seen>>
  /\ UNCHANGED <<readerOnly, stdin, pending, reader, stale, view>>


\* handle of %pause: `continue` is written first, so that a snapshot asked for
\* after the Resync is taken with the output flowing again.
OnPause ==
  \/ /\ Read("Pause")
     /\ send("continue")
     /\ reader' = [reader EXCEPT !.at = "resync"]
     /\ UNCHANGED <<readerOnly, event, history>>
  \/ /\ Live /\ reader.at = "resync"
     /\ emit([type |-> "Resync"]) /\ Dropped /\ stale' = SnapshotsIn(BeforeContinue)
     /\ reader' = [reader EXCEPT !.at = "read"]
     /\ UNCHANGED <<readerOnly, stdin, stdout, pending, seen>>

OnModeChanged ==
  /\ Read("PaneModeChanged") /\ send("mode")
  /\ UNCHANGED <<readerOnly, reader, event, history>>

OnLayoutChange ==
  /\ Read("LayoutChange") /\ send("size")
  /\ UNCHANGED <<readerOnly, reader, event, history>>

Closed(reason) ==
  /\ emit([type |-> "Closed", reason |-> reason])
  /\ UNCHANGED <<readerOnly, stdin, reader, history>>

OnGone ==
  \/ Read("SessionChanged") /\ Closed("SessionClosed") /\ UNCHANGED pending
  \/ Read("WindowClose") /\ Closed("PaneClosed") /\ UNCHANGED pending

\* handle of a reply: the front of `pending` says what it answers.
OnSnapshot(reply) ==
  /\ emit([type |-> "Snapshot", at |-> reader.captured])
  /\ seen' = reader.captured
  /\ stale' = IF stale > 0 THEN stale - 1 ELSE 0
  /\ view' = IF stale = 0 THEN "exact" ELSE "gap"
  /\ reader' = [reader EXCEPT !.snapshot_seen = TRUE, !.captured = None, !.size = reply.size]

OnSize(reply) ==
  /\ IF reply.size # reader.size
       THEN emit([type |-> "Resized"]) /\ reader' = [reader EXCEPT !.size = reply.size]
       ELSE UNCHANGED <<event, reader>>
  /\ UNCHANGED history

OnReply ==
  LET reply == Next_line
      meaning == IF pending = <<>> THEN "Ignore" ELSE Head(pending)
  IN  /\ Read("Reply")
      /\ pending' = IF pending = <<>> THEN pending ELSE Tail(pending)
      /\ \/ meaning = "Ignore" /\ UNCHANGED <<reader, event, history>>
         \/ /\ meaning = "Capture" /\ reply.ok
            /\ reader' = [reader EXCEPT !.captured = reply.at]
            /\ UNCHANGED <<event, history>>
         \/ /\ meaning \in {"Capture", "Snapshot", "Size"} /\ ~reply.ok
            /\ Closed("PaneClosed")
         \/ meaning = "Snapshot" /\ reply.ok /\ OnSnapshot(reply)
         \/ /\ meaning = "Mode" /\ UNCHANGED <<reader, history>>
            /\ IF reply.ok THEN emit([type |-> "ModeChanged", in_mode |-> reply.in_mode])
                           ELSE UNCHANGED event
         \/ meaning = "Size" /\ reply.ok /\ OnSize(reply)
      /\ UNCHANGED <<readerOnly, stdin>>

eof_reason ==
  IF ~tmux.server THEN "MultiplexerStopped" ELSE IF ~tmux.pane THEN "PaneClosed" ELSE "SessionClosed"

\* The client's stdout ended without a closing notification.
Eof ==
  /\ Reading /\ stdout = <<>> /\ ~Attached
  /\ Closed(eof_reason)
  /\ UNCHANGED <<stdout, pending>>

-----------------------------------------------------------------------------
Thread == OnOutput \/ OnPause \/ OnModeChanged \/ OnLayoutChange \/ OnGone \/ OnReply \/ Eof
Server == PaneOutput \/ TmuxPauses \/ UserScrolls \/ UserResizes \/ PaneDies \/ SessionGoes \/ ServerStops
Next == Thread \/ Server \/ RunCommand \/ request_snapshot \/ Drop

Spec == Init /\ [][Next]_vars
\* The reader thread and tmux keep going.

-----------------------------------------------------------------------------
TypeOK ==
  /\ tmux \in [produced : 0..MaxBytes, paused : BOOLEAN, in_mode : BOOLEAN, size : 0..MaxChanges,
               pane : BOOLEAN, session : BOOLEAN, server : BOOLEAN]
  /\ stdin \in Seq({"refresh", "snapshot", "continue", "mode", "size"})
  /\ pending \in Seq(Pending)
  /\ reader \in [captured : 0..MaxBytes \cup {None}, size : 0..MaxChanges, snapshot_seen : BOOLEAN,
                 at : {"read", "resync"}]
  /\ seen \in 0..MaxBytes /\ stale \in Nat /\ view \in {"none", "exact", "gap"} /\ closed \in BOOLEAN

\* The stream implements PaneStream: its first event is a snapshot, output
\* follows a snapshot byte for byte ("which makes a snapshot exact against the
\* output that follows it", stream.rs:6) until a Resync says that tmux dropped
\* some, and nothing follows Closed.  A snapshot asked for after the Resync is
\* exact again, because `continue` was written before the Resync was sent.
Pane == INSTANCE PaneStream WITH
  produced <- tmux.produced, owed <- SnapshotsIn(pending), pos <- seen
ImplementsPaneStream == Pane!Spec

\* Every reply is read as the answer to its own command, with snapshots asked
\* for by several watchers and by the reader itself in flight: `pending` holds
\* what the replies on stdout and those to come are for, in order ("so the
\* reader can never see a reply it has no entry for", stream.rs:52).
RepliesInOrder ==
  Live /\ Attached /\ tmux.pane =>
    LET answers == SelectSeq(stdout, LAMBDA line : line.type = "Reply")
        to_come == FlattenSeq([i \in 1..Len(stdin) |-> Replies(stdin[i])])
    IN  pending = [i \in 1..Len(answers) |-> answers[i].to] \o to_come

\* A stream never invents its end: MultiplexerStopped, PaneClosed and
\* SessionClosed are reported only of a server, a pane, a session that is gone
\* (eof_reason asks for them in that order).
ReasonIsTrue ==
  event.type = "Closed" =>
    \/ event.reason = "MultiplexerStopped" /\ ~tmux.server
    \/ event.reason = "PaneClosed" /\ ~tmux.pane
    \/ event.reason = "SessionClosed" /\ ~tmux.session

\* Every way for the pane to go away ends the stream: the reader of a pane that
\* is gone sends Closed, unless its user dropped it.
\* multiplexer/mod.rs:31 on PaneEvent::Snapshot: "Taken in order with output:
\* later `Output` follows it exactly."  A snapshot that tmux took while the
\* pane was paused is followed by output that is not its continuation.
=============================================================================
