-------------------------------- MODULE Relay --------------------------------
(***************************************************************************)
(* The hub's terminal relay, sessiontap-hub/src/relay.rs, between one      *)
(* source and one device connection: control channels that attach, replace *)
(* each other and detach; streams that open, wait for the source's answer, *)
(* hold their frames until the device has the answer, lag, resync, end and *)
(* are released; and the part of remote.rs that drives it (a request task  *)
(* per terminal.open, the connection's bounded queue, the clean-up when    *)
(* the connection ends).                                                   *)
(*                                                                         *)
(* The source is the bridge of ControlChannel seen through its messages:   *)
(* a stream it opened yields a snapshot, then output in order, a snapshot  *)
(* again when resynced, and at most one end. Bytes of the pane are         *)
(* numbered: output n is byte n, a snapshot at n holds bytes 1..n.         *)
(***************************************************************************)
EXTENDS Naturals, Sequences, FiniteSets, SequencesExt

CONSTANTS
  Streams,         \* stream IDs of State.next, one per terminal.open
  OPENING_BUFFER,  \* frames held while the open answer is not sent
  DEVICE_QUEUE,    \* OUTBOUND_CAPACITY of the device connection
  MaxChannels,     \* bound: control channels the source opens
  MaxBytes,        \* bound: bytes the pane produces
  MaxInputs,       \* bound: terminal.input requests per stream, 0 or 1
  MaxFlight,       \* bound: messages in flight on a channel, per direction
  MaxNoise         \* bound: other messages for the device (listen updates)

RelayAssumption ==
  /\ IsFiniteSet(Streams)
  /\ {OPENING_BUFFER, DEVICE_QUEUE, MaxChannels, MaxFlight} \subseteq Nat \ {0}
  /\ {MaxBytes, MaxNoise} \subseteq Nat /\ MaxInputs \in {0, 1}

Channels == 1..MaxChannels

VARIABLES
  relay,     \* State and the queues it sends to: [channel, pending, streams, requests, out]
  serving,   \* channels whose serve_channel loop runs
  uplink,    \* messages of the source on each channel, not yet delivered
  dialed,    \* the source's channel, 0 when it has none; the count is `used`
  used,      \* channels dialed so far
  bridge,    \* the source's watcher of each stream: [on, pos, fresh]
  pane,      \* bytes produced, and whether the agent still runs
  task,      \* the request task of each terminal.open
  device,    \* the connection: open or closed
  input,     \* the terminal.input of each stream: [at, wrote]
  view,      \* what the device has per stream: [answered, pos, torn, ended, late]
  noise      \* other messages left to queue

vars == <<relay, serving, uplink, dialed, used, bridge, pane, task, input, device, view, noise>>

Message(kind, s, at) == [kind |-> kind, stream |-> s, at |-> at]
Frames == {"Snapshot", "Output", "Ended"}
NoStream == [known |-> FALSE, channel |-> 0, opening |-> FALSE, buffer |-> <<>>,
             lagging |-> FALSE, ended |-> FALSE]
NoWatcher == [on |-> 0, pos |-> 0, fresh |-> FALSE]

Init ==
  /\ relay = [channel |-> 0, pending |-> {}, streams |-> [s \in Streams |-> NoStream],
              requests |-> [c \in Channels |-> <<>>], out |-> <<>>]
  /\ serving = {} /\ uplink = [c \in Channels |-> <<>>]
  /\ dialed = 0 /\ used = 0
  /\ bridge = [s \in Streams |-> NoWatcher]
  /\ pane = [bytes |-> 0, live |-> TRUE]
  /\ task = [s \in Streams |-> "none"]
  /\ input = [s \in Streams |-> [at |-> "none", wrote |-> FALSE]]
  /\ device = "open"
  /\ view = [s \in Streams |-> [answered |-> FALSE, pos |-> 0, snapshot |-> FALSE,
                                torn |-> FALSE, ended |-> FALSE, late |-> FALSE]]
  /\ noise = MaxNoise

-----------------------------------------------------------------------------
(* State: operators from a relay state to the next one                     *)

(* send: only over the channel the stream was opened on, while it is current. *)
send(r, s, kind) ==
  LET c == r.streams[s].channel IN
  IF c # 0 /\ c = r.channel
  THEN [r EXCEPT !.requests[c] = Append(@, Message(kind, s, 0))] ELSE r

resync(r, s) == send(r, s, "Resync")

(* A message for the device: a full queue refuses it, a closed one drops it. *)
Queued(r, m) ==
  IF device = "closed" \/ Len(r.out) >= DEVICE_QUEUE THEN r ELSE [r EXCEPT !.out = Append(@, m)]

Over(st) == ~st.known \/ st.ended


(* A lagging stream skips to the next snapshot or end. *)
Skips(st, f) == st.lagging /\ f.kind = "Output"

(* Frames were dropped: the source is asked for a snapshot. *)
Lag(r, s) == resync([r EXCEPT !.streams[s].buffer = <<>>, !.streams[s].lagging = TRUE], s)

(* push, while the open answer is not sent: an end replaces what is held,   *)
(* an overflow drops it.                                                    *)
Hold(r, s, f) ==
  IF f.kind = "Ended" THEN [r EXCEPT !.streams[s].buffer = <<f>>]
  ELSE IF Len(r.streams[s].buffer) >= OPENING_BUFFER THEN Lag(r, s)
  ELSE [r EXCEPT !.streams[s].buffer = Append(@, f)]

(* push: one source frame to the stream's device. A full device queue makes *)
(* the stream lag, unless the frame is the end.                             *)
push(r, s, f) ==
  LET st == r.streams[s]
      full == device = "open" /\ Len(r.out) >= DEVICE_QUEUE
      pushed == [Queued(r, f) EXCEPT !.streams[s].lagging = FALSE,
                                     !.streams[s].ended = (f.kind = "Ended")]
  IN IF Over(st) \/ (~st.opening /\ Skips(st, f)) THEN r
     ELSE IF st.opening THEN Hold(r, s, f)
     ELSE IF full /\ f.kind # "Ended" THEN Lag(pushed, s) ELSE pushed


(* end_channel: an end for every stream of the channel that has none. *)
end_channel(r, c) ==
  LET ids == {s \in Streams : r.streams[s].known /\ r.streams[s].channel = c /\ ~r.streams[s].ended}
  IN FoldSeq(LAMBDA s, acc : push(acc, s, Message("Ended", s, 0)), r, SetToSeq(ids))

(* A stream is forgotten and released on its source. *)
Released(r, s) == [send(r, s, "Close") EXCEPT !.streams[s] = NoStream]

-----------------------------------------------------------------------------
(* Control channels. The source dials again only once it has left its      *)
(* previous channel; the hub may not have noticed yet.                     *)

(* attach, after hello: the newer channel replaces the older one, whose     *)
(* streams end and whose waiters are dropped.                               *)
attach ==
  /\ dialed = 0 /\ used < MaxChannels
  /\ used' = used + 1 /\ dialed' = used'
  /\ serving' = serving \cup {used'}
  /\ LET r == [relay EXCEPT !.channel = used', !.pending = {}] IN
     relay' = IF relay.channel = 0 THEN r ELSE end_channel(r, relay.channel)
  /\ UNCHANGED <<uplink, bridge, pane, task, input, device, view, noise>>

(* The source's serve returns: its bridge is dropped with every watcher. *)
SourceLeaves ==
  /\ dialed # 0
  /\ dialed' = 0
  /\ bridge' = [s \in Streams |-> IF bridge[s].on = dialed THEN NoWatcher ELSE bridge[s]]
  /\ UNCHANGED <<relay, serving, uplink, used, pane, task, device, view, noise, input>>

(* serve_channel's loop ends (the peer closed, or a newer channel dropped   *)
(* its request queue) and detaches: the channel goes when it is current,    *)
(* and its streams end either way.                                          *)
detach(c) ==
  /\ c \in serving /\ c # dialed
  /\ serving' = serving \ {c}
  /\ LET r == IF relay.channel = c
              THEN [relay EXCEPT !.channel = 0, !.pending = {}] ELSE relay IN
     relay' = end_channel(r, c)
  /\ uplink' = [uplink EXCEPT ![c] = <<>>]
  /\ UNCHANGED <<dialed, used, bridge, pane, task, device, view, noise, input>>

(* An answer finds its waiter only on the channel that is current. *)
Waited(c, kind, s) ==
  relay' = IF relay.channel = c THEN [relay EXCEPT !.pending = @ \ {<<kind, s>>}] ELSE relay

(* deliver: a frame counts only on the channel its stream was opened on, an *)
(* answer only on the current channel and while its waiter waits.           *)
deliver(c) ==
  /\ c \in serving /\ uplink[c] # <<>>
  /\ uplink' = [uplink EXCEPT ![c] = Tail(@)]
  /\ LET m == Head(uplink[c]) IN
     \/ /\ m.kind \in Frames
        /\ relay' = IF relay.streams[m.stream].known /\ relay.streams[m.stream].channel = c
                    THEN push(relay, m.stream, m) ELSE relay
        /\ UNCHANGED <<task, input>>
     \/ /\ m.kind \in {"Opened", "Error"}
        /\ Waited(c, "Open", m.stream)
        /\ task' = IF <<"Open", m.stream>> \in relay.pending \ relay'.pending
                   THEN [task EXCEPT ![m.stream] = m.kind] ELSE task
        /\ UNCHANGED input
     \/ /\ m.kind \in {"Written", "NotWritten"}
        /\ Waited(c, "Input", m.stream)
        /\ input' = IF <<"Input", m.stream>> \in relay.pending \ relay'.pending
                    THEN [input EXCEPT ![m.stream].at = m.kind] ELSE input
        /\ UNCHANGED task
  /\ UNCHANGED <<serving, dialed, used, bridge, pane, device, view, noise>>

-----------------------------------------------------------------------------
(* The source: Bridge and forward of ControlChannel                        *)

Uplink(m) == Len(uplink[dialed]) < MaxFlight
             /\ uplink' = [uplink EXCEPT ![dialed] = Append(@, m)]

(* One request of the channel: open is granted or refused, close drops the  *)
(* watcher, resync makes its next frame a snapshot, and input is written    *)
(* while the stream's task runs, or refused by the pane's guards.           *)
SourceHandles ==
  /\ dialed # 0 /\ dialed \in serving /\ relay.requests[dialed] # <<>>
  /\ LET m == Head(relay.requests[dialed])
         s == m.stream
     IN \/ /\ m.kind = "Open"
           /\ \/ /\ pane.live /\ Uplink(Message("Opened", s, 0))
                 /\ bridge' = [bridge EXCEPT ![s] = [on |-> dialed, pos |-> 0, fresh |-> TRUE]]
              \/ Uplink(Message("Error", s, 0)) /\ UNCHANGED bridge
           /\ UNCHANGED input
        \/ /\ m.kind = "Close"
           /\ bridge' = [bridge EXCEPT ![s] = NoWatcher]
           /\ UNCHANGED <<uplink, input>>
        \/ /\ m.kind = "Resync"
           /\ bridge' = [bridge EXCEPT ![s].fresh = @ \/ bridge[s].on # 0]
           /\ UNCHANGED <<uplink, input>>
        \/ /\ m.kind = "Input"
           /\ \/ /\ bridge[s].on = dialed /\ pane.live /\ Uplink(Message("Written", s, 0))
                 /\ input' = [input EXCEPT ![s].wrote = TRUE]
              \/ Uplink(Message("NotWritten", s, 0)) /\ UNCHANGED input
           /\ UNCHANGED bridge
  /\ relay' = [relay EXCEPT !.requests[dialed] = Tail(@)]
  /\ UNCHANGED <<serving, dialed, used, pane, task, device, view, noise>>

(* forward: a snapshot when one is due, the next byte, or the end. *)
SourceSends(s) ==
  /\ dialed # 0 /\ bridge[s].on = dialed
  /\ \/ /\ pane.live /\ bridge[s].fresh
        /\ Uplink(Message("Snapshot", s, pane.bytes))
        /\ bridge' = [bridge EXCEPT ![s] = [@ EXCEPT !.pos = pane.bytes, !.fresh = FALSE]]
     \/ /\ pane.live /\ ~bridge[s].fresh /\ bridge[s].pos < pane.bytes
        /\ Uplink(Message("Output", s, bridge[s].pos + 1))
        /\ bridge' = [bridge EXCEPT ![s].pos = @ + 1]
     \/ /\ ~pane.live /\ Uplink(Message("Ended", s, 0))
        /\ bridge' = [bridge EXCEPT ![s] = NoWatcher]
  /\ UNCHANGED <<relay, serving, dialed, used, pane, task, device, view, noise, input>>

Produce ==
  /\ pane.live /\ pane.bytes < MaxBytes
  /\ pane' = [pane EXCEPT !.bytes = @ + 1]
  /\ UNCHANGED <<relay, serving, uplink, dialed, used, bridge, task, device, view, noise, input>>

AgentExits ==
  /\ pane.live
  /\ pane' = [pane EXCEPT !.live = FALSE]
  /\ UNCHANGED <<relay, serving, uplink, dialed, used, bridge, task, device, view, noise, input>>

-----------------------------------------------------------------------------
(* The device connection and its request tasks, remote.rs                  *)

(* device_request: the task of a terminal.open sees that the connection is  *)
(* not closing. Nothing keeps the connection from closing after this.       *)
device_request(s) ==
  /\ task[s] = "none" /\ device = "open"
  /\ task' = [task EXCEPT ![s] = "checked"]
  /\ UNCHANGED <<relay, serving, uplink, dialed, used, bridge, pane, device, view, noise, input>>

(* Relay::open: without a channel the device is refused. *)
open(s) ==
  /\ task[s] = "checked"
  /\ IF relay.channel = 0
     THEN task' = [task EXCEPT ![s] = "refused"] /\ UNCHANGED relay
     ELSE LET c == relay.channel IN
          /\ task' = [task EXCEPT ![s] = "waiting"]
          /\ relay' = [relay EXCEPT !.pending = @ \cup {<<"Open", s>>},
                         !.streams[s] = [NoStream EXCEPT !.known = TRUE, !.channel = c,
                                                         !.opening = TRUE],
                         !.requests[c] = Append(@, Message("Open", s, 0))]
  /\ UNCHANGED <<serving, uplink, dialed, used, bridge, pane, device, view, noise, input>>

(* answer: the wait times out, or its sender went with the channel; either  *)
(* way terminal_answer abandons the stream.                                 *)
NoAnswer(s) ==
  /\ task[s] = "waiting"
  /\ relay' = [Released(relay, s) EXCEPT !.pending = @ \ {<<"Open", s>>}]
  /\ task' = [task EXCEPT ![s] = "refused"]
  /\ UNCHANGED <<serving, uplink, dialed, used, bridge, pane, device, view, noise, input>>

(* terminal_answer on an error: abandon the stream. *)
abandon(s) ==
  /\ task[s] = "Error"
  /\ relay' = Released(relay, s)
  /\ task' = [task EXCEPT ![s] = "refused"]
  /\ UNCHANGED <<serving, uplink, dialed, used, bridge, pane, device, view, noise, input>>

(* The response is queued, waiting for room; a closed queue takes nothing. *)
Respond(s) ==
  /\ task[s] \in {"Opened", "refused"}
  /\ device = "closed" \/ Len(relay.out) < DEVICE_QUEUE
  /\ relay' = Queued(relay, Message(task[s], s, 0))
  /\ task' = [task EXCEPT ![s] = IF @ = "Opened" THEN "responded" ELSE "done"]
  /\ UNCHANGED <<serving, uplink, dialed, used, bridge, pane, device, view, noise, input>>

(* activate: the held frames are pushed in order. *)
activate(s) ==
  /\ task[s] = "responded"
  /\ task' = [task EXCEPT ![s] = "done"]
  /\ LET st == relay.streams[s]
         r == [relay EXCEPT !.streams[s].opening = FALSE, !.streams[s].buffer = <<>>]
     IN relay' = IF st.known /\ st.opening
                 THEN FoldLeft(LAMBDA acc, f : push(acc, s, f), r, st.buffer) ELSE relay
  /\ UNCHANGED <<serving, uplink, dialed, used, bridge, pane, device, view, noise, input>>

(* terminal.close of a stream the device knows: an end for the device, and  *)
(* the stream is released.                                                  *)
close(s) ==
  /\ device = "open" /\ view[s].answered /\ relay.streams[s].known
  /\ LET r == [relay EXCEPT !.streams[s].opening = FALSE, !.streams[s].lagging = FALSE] IN
     relay' = Released(push(r, s, Message("Ended", s, 0)), s)
  /\ UNCHANGED <<serving, uplink, dialed, used, bridge, pane, task, device, view, noise, input>>

(* Relay::input: a stream that is unknown or ended, or whose channel is not *)
(* current, refuses at once; otherwise the request waits for the source.    *)
Input(s) ==
  /\ MaxInputs > 0 /\ device = "open" /\ view[s].answered /\ input[s].at = "none"
  /\ LET st == relay.streams[s] IN
     IF ~st.known \/ st.ended \/ st.channel # relay.channel
     THEN input' = [input EXCEPT ![s].at = "refused"] /\ UNCHANGED relay
     ELSE /\ input' = [input EXCEPT ![s].at = "waiting"]
          /\ relay' = [relay EXCEPT !.pending = @ \cup {<<"Input", s>>},
                                    !.requests[st.channel] = Append(@, Message("Input", s, 0))]
  /\ UNCHANGED <<serving, uplink, dialed, used, bridge, pane, task, device, view, noise>>

(* answer, for an input: no answer in time, or the channel went. *)
NoInputAnswer(s) ==
  /\ input[s].at = "waiting"
  /\ input' = [input EXCEPT ![s].at = "refused"]
  /\ relay' = [relay EXCEPT !.pending = @ \ {<<"Input", s>>}]
  /\ UNCHANGED <<serving, uplink, dialed, used, bridge, pane, task, device, view, noise>>

(* The connection ends: it is cancelled, and release_owner drops and        *)
(* releases its streams.                                                    *)
release_owner ==
  /\ device = "open"
  /\ device' = "closed"
  /\ LET ids == {s \in Streams : relay.streams[s].known} IN
     relay' = [FoldSeq(LAMBDA s, acc : Released(acc, s), relay, SetToSeq(ids)) EXCEPT !.out = <<>>]
  /\ UNCHANGED <<serving, uplink, dialed, used, bridge, pane, task, view, noise, input>>

(* What the device has after a message. *)
Shown(v, m) ==
  CASE m.kind = "Opened" -> [v EXCEPT !.answered = TRUE]
    [] m.kind = "Snapshot" -> [v EXCEPT !.pos = m.at, !.snapshot = TRUE,
                                        !.late = @ \/ v.ended \/ ~v.answered]
    [] m.kind = "Output" -> [v EXCEPT !.pos = m.at,
                               !.torn = @ \/ ~v.snapshot \/ m.at # v.pos + 1,
                               !.late = @ \/ v.ended \/ ~v.answered]
    [] m.kind = "Ended" -> [v EXCEPT !.ended = TRUE, !.late = @ \/ v.ended \/ ~v.answered]
    [] OTHER -> v

DeviceReads ==
  /\ device = "open" /\ relay.out # <<>>
  /\ relay' = [relay EXCEPT !.out = Tail(@)]
  /\ LET m == Head(relay.out) IN
     view' = IF m.kind = "Other" THEN view ELSE [view EXCEPT ![m.stream] = Shown(@, m)]
  /\ UNCHANGED <<serving, uplink, dialed, used, bridge, pane, task, device, noise, input>>

(* Another message of the connection takes a place in its queue. *)
Other ==
  /\ noise > 0 /\ device = "open" /\ Len(relay.out) < DEVICE_QUEUE
  /\ noise' = noise - 1
  /\ relay' = [relay EXCEPT !.out = Append(@, [kind |-> "Other"])]
  /\ UNCHANGED <<serving, uplink, dialed, used, bridge, pane, task, device, view, input>>

-----------------------------------------------------------------------------
Source == attach \/ SourceLeaves \/ SourceHandles \/ \E s \in Streams : SourceSends(s)
Hub == (\E c \in Channels : detach(c) \/ deliver(c))
Requests == \E s \in Streams : device_request(s) \/ open(s) \/ NoAnswer(s) \/ abandon(s)
              \/ Respond(s) \/ activate(s) \/ close(s) \/ Input(s) \/ NoInputAnswer(s)
Next == Source \/ Hub \/ Requests \/ Produce \/ AgentExits
        \/ release_owner \/ DeviceReads \/ Other

Spec == Init /\ [][Next]_vars

-----------------------------------------------------------------------------
(* The relay's state and queues have their declared shape and limits. *)
TypeOK ==
  /\ relay.channel \in 0..MaxChannels
  /\ relay.pending \subseteq {"Open", "Input"} \X Streams
  /\ \A s \in Streams : /\ relay.streams[s].channel \in 0..MaxChannels
                        /\ Len(relay.streams[s].buffer) <= OPENING_BUFFER
  /\ Len(relay.out) <= DEVICE_QUEUE
  /\ device \in {"open", "closed"}
  /\ \A s \in Streams : task[s] \in {"none", "checked", "waiting", "Opened", "Error",
                                     "refused", "responded", "done"}

(* What a device shows is the pane: its first frame is a snapshot and every *)
(* output continues what it has, across the opening buffer, a full device   *)
(* queue, a lag and a resync (openspec/specs/hub-terminal-relay/spec.md     *)
(* "in the order the source produced them, starting with a `snapshot`").    *)
DeviceViewIsExact == \A s \in Streams : ~view[s].torn

(* The open answer precedes every frame, and nothing follows an end:        *)
(* relay.rs:278 "The device must get the answer before activate releases    *)
(* the stream's frames", spec "After `ended`, the hub SHALL send no more    *)
(* frames for that stream ID".                                              *)
FramesBetweenAnswerAndEnd == \A s \in Streams : ~view[s].late

(* An input answered with success was written to the pane of its own        *)
(* stream, once, and one answered by a timeout is never answered again      *)
(* (spec "Each input SHALL receive exactly one response: success when the   *)
(* daemon wrote it").                                                       *)
AnswersAreTrue ==
  [][\A s \in Streams :
       /\ input'[s].at = "Written" => input'[s].wrote
       /\ input[s].at \in {"Written", "NotWritten", "refused"} => input'[s].at = input[s].at
       /\ task[s] \in {"refused", "responded", "done"} => task'[s] \in {"responded", "done"} \cup {task[s]}]_vars

(* A watcher of the source is one the relay still holds, or one whose       *)
(* release (or whose channel's end) is on its way, as long as the device is *)
(* connected: an abandoned, timed out or closed stream leaves no watcher    *)
(* behind, whatever the order of the source's late answer.                  *)
WatchersAreHeld ==
  device = "open" =>
    \A s \in Streams :
      bridge[s].on # 0 =>
        \/ relay.streams[s].known
        \/ bridge[s].on # relay.channel
        \/ \E i \in DOMAIN relay.requests[bridge[s].on] :
             relay.requests[bridge[s].on][i] = Message("Close", s, 0)

(* A stream that is over for the relay is over for its device: once the     *)
(* channel it was opened on is gone, or the agent exited, the device that   *)
(* has the open answer is sent an end (spec, "Control channel drops": "each *)
(* of those streams ends").                                                 *)
DeviceLearnsTheEnd ==
  \A s \in Streams :
    relay.streams[s].ended ~> (view[s].ended \/ device = "closed" \/ ~relay.streams[s].known)

=============================================================================
