----------------------------- MODULE MCTerminals ----------------------------
(***************************************************************************)
(* The path between a pane and its watchers: TmuxStream reads the pane     *)
(* through tmux's control mode, whose lines ControlProtocol parses,        *)
(* Terminals shares it, and TmuxInput types into it. `part` says which of  *)
(* them, with which bounds, a behaviour is about.                          *)
(***************************************************************************)
EXTENDS Naturals, TLC

CONSTANTS None, Parts

(* A line feed, the space, a digit, the colon, the backslash. *)
PaneBytes == {10, 32, 49, 58, 92}

(* Keys with and without modifiers, keys that are none, and pastes. *)
Keys(ks) == [kind |-> "keys", keys |-> ks]
Paste(t, e) == [kind |-> "paste", text |-> t, enter |-> e]

KeyRequests == {"semi", "combo", "swapped", "bare", "paste"}
KeyTargets == [r \in KeyRequests |-> IF r = "combo" THEN "%1" ELSE "%0"]
KeyInputs ==
  [semi |-> Keys(<< <<";">>, <<"E">>, <<"ctrl+", "+">> >>),
   combo |-> Keys(<< <<"ctrl+", "alt+", "x">>, <<"alt+", "up">>, <<"f5">> >>),
   swapped |-> Keys(<< <<"x">>, <<"alt+", "ctrl+", "x">> >>),
   bare |-> Keys(<< <<"ctrl+">> >>),
   paste |-> Paste("text", TRUE)]

(* A paste and two keys under way at once, while the world changes. *)
MixTargets == [a |-> "%0", b |-> "%0"]
MixInputs == [a |-> Paste("to a", TRUE), b |-> Keys(<< <<"up">>, <<"enter">> >>)]

VARIABLES
  part,  \* the component the behaviour is about; the others stay as they start
  tmux, stdin, stdout, pending, reader, closed, event, seen, stale, view,
  stream_budget,
  number, wire, block, protocol_sent, got,
  agent, front, mode, terminal_pane, produced, prompt, live, request, current, ending,
  ended, session, watcher, input, terminal_budget,
  server, keys_pane, parent, buffers, received, pc, keys_sent, events

stream_vars == <<tmux, stdin, stdout, pending, reader, closed, event, seen, stale,
                 view, stream_budget>>
protocol_vars == <<number, wire, block, protocol_sent, got>>
terminal_vars == <<agent, front, mode, terminal_pane, produced, prompt, live, request,
                   current, ending, ended, session, watcher, input, terminal_budget>>
keys_vars == <<server, keys_pane, parent, buffers, received, pc, keys_sent, events>>

Stream == INSTANCE TmuxStream WITH
  MaxBytes <- 2, MaxRequests <- 1, MaxPauses <- 1, MaxChanges <- 0,
  budget <- stream_budget
StreamEnds == INSTANCE TmuxStream WITH
  MaxBytes <- 1, MaxRequests <- 0, MaxPauses <- 0, MaxChanges <- 1,
  budget <- stream_budget
Protocol == INSTANCE ControlProtocol WITH
  Bytes <- PaneBytes, MaxData <- 2, MaxScreen <- 1, MaxUnits <- 2,
  sent <- protocol_sent
Terminal == INSTANCE Terminals WITH
  Watchers <- {"w1", "w2"}, MaxSessions <- 2, FRAME_BUFFER <- 1, MaxBytes <- 0,
  MaxOwed <- 1, MaxDrops <- 0, MaxToggles <- 0, MaxInputs <- 0, pane <- terminal_pane,
  budget <- terminal_budget
TerminalOutput == INSTANCE Terminals WITH
  Watchers <- {"w1", "w2"}, MaxSessions <- 1, FRAME_BUFFER <- 1, MaxBytes <- 1,
  MaxOwed <- 1, MaxDrops <- 0, MaxToggles <- 0, MaxInputs <- 0, pane <- terminal_pane,
  budget <- terminal_budget
TerminalInput == INSTANCE Terminals WITH
  Watchers <- {"w1"}, MaxSessions <- 1, FRAME_BUFFER <- 2, MaxBytes <- 0,
  MaxOwed <- 1, MaxDrops <- 0, MaxToggles <- 1, MaxInputs <- 1, pane <- terminal_pane,
  budget <- terminal_budget
TerminalLive == INSTANCE Terminals WITH
  Watchers <- {"w1"}, MaxSessions <- 1, FRAME_BUFFER <- 1, MaxBytes <- 1,
  MaxOwed <- 1, MaxDrops <- 1, MaxToggles <- 1, MaxInputs <- 0, pane <- terminal_pane,
  budget <- terminal_budget
Typing == INSTANCE TmuxInput WITH
  Requests <- KeyRequests, Panes <- {"%0", "%1"}, Target <- KeyTargets,
  Input <- KeyInputs, AtOnce <- 1, Abrupt <- FALSE, Depth <- 4, MaxEvents <- 2,
  pane <- keys_pane, sent <- keys_sent
Mixed == INSTANCE TmuxInput WITH
  Requests <- {"a", "b"}, Panes <- {"%0"}, Target <- MixTargets, Input <- MixInputs,
  AtOnce <- 2, Abrupt <- TRUE, Depth <- 4, MaxEvents <- 3, pane <- keys_pane,
  sent <- keys_sent

ASSUME Stream!StreamAssumption
ASSUME StreamEnds!StreamAssumption
ASSUME Protocol!ControlProtocolAssumption
ASSUME Terminal!TerminalsAssumption
ASSUME TerminalOutput!TerminalsAssumption
ASSUME TerminalInput!TerminalsAssumption
ASSUME TerminalLive!TerminalsAssumption
ASSUME Typing!TmuxInputAssumption
ASSUME Mixed!TmuxInputAssumption

InitOfAll ==
  /\ part \in Parts
  /\ \/ part = "stream" /\ Stream!Init
     \/ part = "stream_ends" /\ StreamEnds!Init
     \/ part \notin {"stream", "stream_ends"} /\ Stream!Init
  /\ Protocol!Init
  /\ \/ part = "terminal" /\ Terminal!Init
     \/ part = "terminal_output" /\ TerminalOutput!Init
     \/ part = "terminal_input" /\ TerminalInput!Init
     \/ part = "terminal_live" /\ TerminalLive!Init
     \/ part \notin {"terminal", "terminal_output", "terminal_input", "terminal_live"} /\ Terminal!Init
  /\ \/ part = "keys" /\ Typing!Init
     \/ part = "pastes" /\ Mixed!Init
     \/ part \notin {"keys", "pastes"} /\ Typing!Init

NextOfPart ==
  \/ part = "stream" /\ Stream!Next /\ UNCHANGED <<part, protocol_vars, terminal_vars,
       keys_vars>>
  \/ part = "stream_ends" /\ StreamEnds!Next /\ UNCHANGED <<part, protocol_vars,
       terminal_vars, keys_vars>>
  \/ part = "protocol" /\ Protocol!Next /\ UNCHANGED <<part, stream_vars,
       terminal_vars, keys_vars>>
  \/ part = "terminal" /\ Terminal!Next /\ UNCHANGED <<part, stream_vars,
       protocol_vars, keys_vars>>
  \/ part = "terminal_output" /\ TerminalOutput!Next /\ UNCHANGED <<part, stream_vars,
       protocol_vars, keys_vars>>
  \/ part = "terminal_input" /\ TerminalInput!Next /\ UNCHANGED <<part, stream_vars,
       protocol_vars, keys_vars>>
  \/ part = "terminal_live" /\ TerminalLive!Next /\ UNCHANGED <<part, stream_vars,
       protocol_vars, keys_vars>>
  \/ part = "keys" /\ Typing!Next /\ UNCHANGED <<part, stream_vars, protocol_vars,
       terminal_vars>>
  \/ part = "pastes" /\ Mixed!Next /\ UNCHANGED <<part, stream_vars, protocol_vars,
       terminal_vars>>

all_vars == <<part, stream_vars, protocol_vars, terminal_vars, keys_vars>>

SpecOfParts == InitOfAll /\ [][NextOfPart]_all_vars

(* A session's tasks keep running and a connected watcher keeps reading; recv *)
(* does not yield between Lagged and the next frame, so a frame that can be   *)
(* received again and again is received. The wrapper may never report an exit.*)
LiveStep(A) == part = "terminal_live" /\ A
FairnessOfParts ==
  /\ WF_terminal_vars(LiveStep(TerminalLive!RecvSnapshot(1)))
  /\ WF_terminal_vars(LiveStep(TerminalLive!RecvOutput(1)))
  /\ WF_terminal_vars(LiveStep(TerminalLive!RecvModeChanged(1)))
  /\ WF_terminal_vars(LiveStep(TerminalLive!RecvClosed(1)))
  /\ WF_terminal_vars(LiveStep(TerminalLive!Poller(1)))
  /\ WF_terminal_vars(LiveStep(TerminalLive!EndSession(1)))
  /\ WF_terminal_vars(LiveStep(TerminalLive!Abort(1)))
  /\ SF_terminal_vars(LiveStep(TerminalLive!Receive("w1")))
  /\ WF_terminal_vars(LiveStep(TerminalLive!Lag("w1")))

FairSpecOfParts == SpecOfParts /\ FairnessOfParts

-----------------------------------------------------------------------------

(* What tmux says is what the control-mode parser hands on: replies whole and *)
(* in order, pane output byte for byte, whatever a captured screen shows.     *)
ProtocolIsExact == part = "protocol" => Protocol!TypeOK /\ Protocol!RepliesAreWhole /\ Protocol!OutputIsExact


(* A watcher that stays is told everything, in the end (WatcherIsTold).       *)
WatchersAreTold == part = "terminal_live" => TerminalLive!WatcherIsTold

(* An input request types what it asks for, in order, into the agent's pane   *)
(* and nowhere else, and one that is malformed or refused types nothing       *)
(* (TmuxMultiplexer.send_input and its guards, one tmux command at a time).   *)
InputArrives ==
  /\ [](part = "keys" => Typing!TypeOK /\ Typing!ArrivesAsAsked /\ Typing!MalformedWritesNothing /\ Typing!NoBufferLeft)
  /\ [](part = "pastes" => Mixed!ArrivesAsAsked /\ Mixed!RefusedWritesNothing)
  /\ [][part = "keys" => Typing!TypedAtTheAgent]_keys_vars
=============================================================================
