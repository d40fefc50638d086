--------------------------- MODULE ControlChannel ---------------------------
(***************************************************************************)
(* The source daemon's end of the control channel, sessiontapd/src/        *)
(* control.rs: ControlChannel::run (connect, serve, back off), serve (one  *)
(* task that alternates between the outbound queue, the hub's requests and *)
(* pings), Bridge (the relay streams of one channel) and forward (one task *)
(* per stream that copies a watcher's frames into the outbound queue).     *)
(*                                                                         *)
(* The outbound queue is bounded and has one consumer, the serve task.     *)
(* Bridge::handle runs inside that task and sends its answers through the  *)
(* same queue, waiting while it is full, so each of its sends is a step.   *)
(* The hub is the environment: it opens each stream ID once, sends input,  *)
(* resync and close for the ones it opened, and reads what arrives.        *)
(***************************************************************************)
EXTENDS Naturals, Sequences, FiniteSets, SequencesExt

CONSTANTS
  Streams,     \* hub-assigned stream IDs
  Capacity,    \* OUTBOUND_CAPACITY
  MaxDelay,    \* Backoff.max in units of Backoff.initial
  MaxFrames,   \* bound: frames a watcher yields before its end
  MaxInputs,   \* bound: input requests
  MaxLosses,   \* bound: times the connection or a connect fails
  MaxToggles   \* bound: edits of the hub sink's `control`

ControlAssumption ==
  /\ IsFiniteSet(Streams)
  /\ {Capacity, MaxDelay} \subseteq Nat \ {0}
  /\ {MaxFrames, MaxInputs, MaxLosses, MaxToggles} \subseteq Nat

VARIABLES
  enabled,   \* the hub sink's `control`, re-read by every check
  run,       \* run(): [at, delay]; at is idle, serving or waiting
  link,      \* the connection: none, open or lost (closed by the hub)
  task,      \* the serve task: [at, rest, closing]; rest is what handle still sends
  inbox,     \* requests of the hub not yet read
  outbound,  \* the bounded queue of relay messages
  wire,      \* what was written on this connection
  bridge,    \* Bridge.streams: the stream IDs it holds
  forward,   \* forward tasks: none, next, sending, done, or aborted while sending
  frames,    \* frames each watcher has yielded
  asked,     \* requests sent per stream: [open, inputs, close]
  written,   \* inputs written to a pane, as the value of `enabled` they were checked with
  budget     \* losses and toggles left

vars == <<enabled, run, link, task, inbox, outbound, wire, bridge, forward,
          frames, asked, written, budget>>

Message(kind, s) == [kind |-> kind, stream |-> s]
Kinds == {"Opened", "Error", "InputResult", "Frame", "Ended"}
Idle == [at |-> "select", rest |-> <<>>, closing |-> FALSE]

Init ==
  /\ enabled = TRUE
  /\ run = [at |-> "idle", delay |-> 0]
  /\ link = "none"
  /\ task = Idle
  /\ inbox = <<>> /\ outbound = <<>> /\ wire = <<>>
  /\ bridge = {}
  /\ forward = [s \in Streams |-> "none"]
  /\ frames = [s \in Streams |-> 0]
  /\ asked = [s \in Streams |-> [open |-> FALSE, inputs |-> 0, close |-> FALSE]]
  /\ written = {}
  /\ budget = [losses |-> MaxLosses, toggles |-> MaxToggles]

-----------------------------------------------------------------------------
(* ControlChannel::run                                                     *)

(* Backoff::next; 0 stands for None. *)
next(previous) ==
  IF previous = 0 THEN 1
  ELSE IF previous * 2 < MaxDelay THEN previous * 2 ELSE MaxDelay

(* The tail of the loop: sleep for the next delay. *)
Waiting(previous) == [at |-> "waiting", delay |-> next(previous)]

(* connect succeeded and serve sent hello; the delay starts over. *)
Connect ==
  /\ run.at = "idle" /\ enabled
  /\ link' = "open" /\ run' = [at |-> "serving", delay |-> 0]
  /\ task' = Idle /\ wire' = <<>> /\ outbound' = <<>> /\ inbox' = <<>>
  /\ UNCHANGED <<enabled, bridge, forward, frames, asked, written, budget>>

ConnectFails ==
  /\ run.at = "idle" /\ enabled
  /\ budget.losses > 0 /\ budget' = [budget EXCEPT !.losses = @ - 1]
  /\ run' = Waiting(run.delay)
  /\ UNCHANGED <<enabled, link, task, inbox, outbound, wire, bridge, forward,
                 frames, asked, written>>

(* The sleep of the loop ends. Every channel dies with its streams, so      *)
(* nothing is left of it but the delay.                                     *)
Wake ==
  /\ run.at = "waiting"
  /\ run' = [run EXCEPT !.at = "idle"]
  /\ UNCHANGED <<enabled, link, task, inbox, outbound, wire, bridge, forward,
                 frames, asked, written, budget>>

(* Aborting a task: an idle one is gone, one in the middle of a send may    *)
(* still complete it.                                                       *)
Aborted(f) == CASE f = "sending" -> "aborted" [] f = "next" -> "done" [] OTHER -> f

(* Drop for Bridge aborts every task; a send on the queue serve dropped     *)
(* fails, so none of them sends anything more.                              *)
DropBridge ==
  /\ bridge' = {}
  /\ forward' = [s \in Streams |-> IF forward[s] = "none" THEN "none" ELSE "done"]

(* serve returned: its queue is dropped and run waits before it connects.  *)
Leave ==
  /\ DropBridge
  /\ link' = "none" /\ task' = Idle
  /\ run' = Waiting(run.delay)
  /\ inbox' = <<>>
  /\ UNCHANGED <<enabled, frames, asked, written, budget>>

-----------------------------------------------------------------------------
(* forward: a frame is taken from the watcher and then sent, waiting for   *)
(* room; a send on a dropped queue ends the task.                          *)

TakeFrame(s) ==
  /\ forward[s] = "next"
  /\ frames' = [frames EXCEPT ![s] = @ + 1]
  /\ frames[s] <= MaxFrames
  /\ forward' = [forward EXCEPT ![s] = "sending"]
  /\ UNCHANGED <<enabled, run, link, task, inbox, outbound, wire, bridge, asked,
                 written, budget>>

(* The frame after MaxFrames is the watcher's end. *)
FrameOf(s) == Message(IF frames[s] > MaxFrames THEN "Ended" ELSE "Frame", s)

SendFrame(s) ==
  /\ forward[s] \in {"sending", "aborted"}
  /\ Len(outbound) < Capacity
  /\ outbound' = Append(outbound, FrameOf(s))
  /\ forward' = [forward EXCEPT ![s] =
       IF @ = "aborted" \/ frames[s] > MaxFrames THEN "done" ELSE "next"]
  /\ UNCHANGED <<enabled, run, link, task, inbox, wire, bridge, frames, asked,
                 written, budget>>

(* An aborted task ends at its pending send. *)
AbortTask(s) ==
  /\ forward[s] = "aborted"
  /\ forward' = [forward EXCEPT ![s] = "done"]
  /\ UNCHANGED <<enabled, run, link, task, inbox, outbound, wire, bridge, frames,
                 asked, written, budget>>

-----------------------------------------------------------------------------
(* serve: the select loop                                                  *)

Selecting == run.at = "serving" /\ task.at = "select"

(* outbound.recv(): one message is written to the connection. *)
WriteOutbound ==
  /\ Selecting /\ outbound # <<>> /\ link = "open"
  /\ wire' = Append(wire, Head(outbound)) /\ outbound' = Tail(outbound)
  /\ UNCHANGED <<enabled, run, link, task, inbox, bridge, forward, frames, asked,
                 written, budget>>

(* A read, a write or a ping finds the connection closed. *)
SeeClosed ==
  /\ Selecting /\ link = "lost"
  /\ Leave
  /\ UNCHANGED <<outbound, wire>>

(* Bridge::handle starts: the request decides what it will send. *)
Handling(rest, closing) == [at |-> "handle", rest |-> rest, closing |-> closing]

(* Mutant: the streams are drained without an ended frame. *)
EndedFrames_None(ids) == <<>>

(* disallow: one ended frame per stream the bridge still holds, those whose *)
(* watcher already ended included.                                         *)
EndedFrames(ids) == SetToSeq({Message("Ended", s) : s \in ids})

(* Open and Input re-read `control` before anything else; while it is off   *)
(* they are refused, every stream ends and the channel closes.              *)
Refuse(refusal) ==
  /\ task' = Handling(<<refusal>> \o EndedFrames(bridge), TRUE)
  /\ bridge' = {}
  /\ forward' = [s \in Streams |-> IF s \in bridge THEN Aborted(forward[s]) ELSE forward[s]]
  /\ UNCHANGED <<frames, written>>

(* Bridge::open: the watch is refused, or Opened is sent and then the       *)
(* forward task is spawned.                                                 *)
HandleOpen(s) ==
  \/ ~enabled /\ Refuse(Message("Error", s))
  \/ /\ enabled
     /\ \E m \in {Message("Opened", s), Message("Error", s)} :
          task' = Handling(<<m>>, FALSE)
     /\ UNCHANGED <<bridge, forward, frames, written>>

(* Bridge::input: a stream that is gone, or whose task finished, answers    *)
(* terminal_ended; otherwise the input is written and its result sent.      *)
HandleInput(s) ==
  \/ ~enabled /\ Refuse(Message("InputResult", s))
  \/ /\ enabled
     /\ task' = Handling(<<Message("InputResult", s)>>, FALSE)
     /\ bridge' = IF forward[s] = "done" THEN bridge \ {s} ELSE bridge
     /\ written' = IF s \in bridge' THEN written \cup {enabled} ELSE written
     /\ UNCHANGED <<forward, frames>>

(* Close aborts the stream's task; Resync asks its watcher for a snapshot,  *)
(* which is one of the frames the watcher yields.                           *)
HandleClose(s) ==
  /\ task' = task
  /\ bridge' = bridge \ {s}
  /\ forward' = [forward EXCEPT ![s] = IF s \in bridge THEN Aborted(@) ELSE @]
  /\ UNCHANGED <<frames, written>>

HandleResync(s) == UNCHANGED <<task, bridge, forward, frames, written>>

ReadRequest ==
  /\ Selecting /\ inbox # <<>>
  /\ inbox' = Tail(inbox)
  /\ LET r == Head(inbox) IN
     \/ r.kind = "Open" /\ HandleOpen(r.stream)
     \/ r.kind = "Input" /\ HandleInput(r.stream)
     \/ r.kind = "Close" /\ HandleClose(r.stream)
     \/ r.kind = "Resync" /\ HandleResync(r.stream)
  /\ UNCHANGED <<enabled, run, link, outbound, wire, asked, budget>>

(* Bridge::send: waits while the queue is full. After Opened the forward    *)
(* task starts and the bridge holds the stream.                             *)
HandleSend ==
  /\ task.at = "handle" /\ task.rest # <<>> /\ Len(outbound) < Capacity
  /\ LET m == Head(task.rest) IN
     /\ outbound' = Append(outbound, m)
     /\ task' = [task EXCEPT !.rest = Tail(@)]
     /\ bridge' = IF m.kind = "Opened" THEN bridge \cup {m.stream} ELSE bridge
     /\ forward' = IF m.kind = "Opened" THEN [forward EXCEPT ![m.stream] = "next"] ELSE forward
  /\ UNCHANGED <<enabled, run, link, inbox, wire, frames, asked, written, budget>>

HandleDone ==
  /\ task.at = "handle" /\ task.rest = <<>> /\ ~task.closing
  /\ task' = Idle
  /\ UNCHANGED <<enabled, run, link, inbox, outbound, wire, bridge, forward,
                 frames, asked, written, budget>>

(* handle returned false: what is queued is flushed, then the channel is    *)
(* closed. A failing write leaves all the same.                             *)
CloseDisallowed ==
  /\ task.at = "handle" /\ task.rest = <<>> /\ task.closing
  /\ wire' = IF link = "open" THEN wire \o outbound ELSE wire
  /\ outbound' = <<>>
  /\ Leave

-----------------------------------------------------------------------------
(* The hub, the network and the operator                                   *)

Request(kind, s) == inbox' = Append(inbox, Message(kind, s))

HubOpens(s) ==
  /\ link = "open" /\ ~asked[s].open
  /\ asked' = [asked EXCEPT ![s].open = TRUE]
  /\ Request("Open", s)
  /\ UNCHANGED <<enabled, run, link, task, outbound, wire, bridge, forward,
                 frames, written, budget>>

Live(s) == link = "open" /\ Message("Opened", s) \in ToSet(wire) /\ ~asked[s].close

HubSendsInput(s) ==
  /\ Live(s) /\ asked[s].inputs < MaxInputs
  /\ asked' = [asked EXCEPT ![s].inputs = @ + 1]
  /\ Request("Input", s)
  /\ UNCHANGED <<enabled, run, link, task, outbound, wire, bridge, forward,
                 frames, written, budget>>

HubCloses(s) ==
  /\ Live(s)
  /\ asked' = [asked EXCEPT ![s].close = TRUE]
  /\ \/ Request("Close", s)
     \/ inbox' = inbox \o <<Message("Resync", s), Message("Close", s)>>
  /\ UNCHANGED <<enabled, run, link, task, outbound, wire, bridge, forward,
                 frames, written, budget>>

(* The hub goes away, or replaces the channel. *)
LoseLink ==
  /\ link = "open"
  /\ budget.losses > 0 /\ budget' = [budget EXCEPT !.losses = @ - 1]
  /\ link' = "lost"
  /\ UNCHANGED <<enabled, run, task, inbox, outbound, wire, bridge, forward,
                 frames, asked, written>>

SetControl ==
  /\ budget.toggles > 0 /\ budget' = [budget EXCEPT !.toggles = @ - 1]
  /\ enabled' = ~enabled
  /\ UNCHANGED <<run, link, task, inbox, outbound, wire, bridge, forward, frames,
                 asked, written>>

-----------------------------------------------------------------------------
Forwarding == \E s \in Streams : TakeFrame(s) \/ SendFrame(s) \/ AbortTask(s)
Serving == WriteOutbound \/ SeeClosed \/ ReadRequest \/ HandleSend \/ HandleDone
           \/ CloseDisallowed
Hub == \E s \in Streams : HubOpens(s) \/ HubSendsInput(s) \/ HubCloses(s)

Next ==
  \/ Connect \/ ConnectFails \/ Wake
  \/ Forwarding \/ Serving
  \/ Hub \/ LoseLink \/ SetControl

Spec == Init /\ [][Next]_vars

-----------------------------------------------------------------------------
(* The state has its declared shape, and the delay before a reconnect stays *)
(* within the backoff's cap (control.rs:27 "1 s doubling to 30 s").         *)
TypeOK ==
  /\ enabled \in BOOLEAN
  /\ run.at \in {"idle", "serving", "waiting"} /\ run.delay \in 0..MaxDelay
  /\ link \in {"none", "open", "lost"}
  /\ task.at \in {"select", "handle"} /\ task.closing \in BOOLEAN
  /\ Len(outbound) <= Capacity
  /\ \A m \in ToSet(wire \o outbound \o task.rest) : m.kind \in Kinds /\ m.stream \in Streams
  /\ bridge \subseteq Streams
  /\ forward \in [Streams -> {"none", "next", "sending", "done", "aborted"}]
  /\ written \subseteq BOOLEAN

Sent == wire \o outbound

(* The hub gets the answer to an open before any frame of that stream: the  *)
(* forward task exists only once Opened is queued (control.rs:307-309). A   *)
(* frame that overtook the answer would reach the device before its stream  *)
(* ID.                                                                      *)
OpenedFirst ==
  \A i \in DOMAIN Sent :
    Sent[i].kind = "Frame" => \E j \in 1..i : Sent[j] = Message("Opened", Sent[i].stream)

(* When the daemon closes the channel because `control` is off, every       *)
(* stream the hub was told is open and did not close has been ended on the  *)
(* wire first, behind the outbound queue's whole backlog                    *)
(* (control.rs:240 "every stream ended with source_disallows_control").     *)
EndsAllFirst ==
  CloseDisallowed /\ link = "open" =>
    \A s \in Streams :
      Message("Opened", s) \in ToSet(wire') /\ ~asked[s].close
        => Message("Ended", s) \in ToSet(wire')

(* No input is written while `control` is off, although the hub's requests  *)
(* may have been queued before it was turned off (control.rs:263).          *)
InputNeedsControl == FALSE \notin written

(* A stream's task never outlives its channel: once run has left serve,     *)
(* no forward task holds a watcher any more (control.rs:358 Drop).          *)
TasksEndWithChannel ==
  run.at # "serving" => bridge = {} /\ \A s \in Streams : forward[s] \in {"none", "done"}

(* A closed channel is left, and reopened while `control` stays on:         *)
(* openspec/specs/hub-terminal-relay/spec.md:9 "When the channel fails to   *)
(* open or closes, the daemon SHALL retry with exponential backoff".        *)
Reconnects == (link = "lost") ~> (link = "open" \/ ~enabled)
=============================================================================
