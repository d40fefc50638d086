------------------------------- MODULE Launch -------------------------------
(***************************************************************************)
(* How a wrapped launch decides whether it is tracked, and what the        *)
(* managed hooks of the provider then do (sessiontap/src/main.rs: launch   *)
(* up to the spawn, hook_emit, inspect_hooks).                             *)
(*                                                                         *)
(* The daemon may die, start or stop answering between any two requests.   *)
(* A hook is a process of its own: it reads its input, shows it to a       *)
(* running inspector, normalizes it and hands it to the daemon.  The       *)
(* inspector receives datagrams, keeps a bounded queue and a thread prints *)
(* it.  A payload is its size, whether it is JSON, whether the adapter     *)
(* makes an event of it and whether it names its own event.                *)
(***************************************************************************)
EXTENDS Naturals, Sequences, SequencesExt, FiniteSets

CONSTANTS
  Hooks,       \* hook processes of the provider
  MaxInput,    \* INSPECTION_MAX_INPUT_BYTES
  Depth,       \* INSPECTION_QUEUE_DEPTH
  Datagrams,   \* datagrams the kernel keeps for the inspector
  MaxFaults,   \* bound on what happens to the daemon
  Hangs,       \* the daemon may stop answering
  PrepareFails,\* preparing the launch may fail
  EventArg,    \* the hook command names its event (agy)
  Payloads     \* the inputs hooks get

LaunchAssumption ==
  /\ MaxInput \in Nat /\ Depth \in Nat \ {0} /\ Datagrams \in Nat \ {0} /\ MaxFaults \in Nat
  /\ Hangs \in BOOLEAN /\ PrepareFails \in BOOLEAN /\ EventArg \in BOOLEAN
  /\ Payloads \subseteq [size : Nat, json : BOOLEAN, normal : BOOLEAN, named : BOOLEAN]

VARIABLES
  step,       \* where launch is
  tracked,    \* launch's decision
  prep,       \* arguments and environment of the adapter's preparation
  context,    \* the tracking environment: "inherited", "own" or "none"
  daemon,     \* "up", "down" or "hung"
  registered, \* the daemon has the invocation
  hook,       \* every hook process: where it is and its payload
  ingested,   \* hooks whose event the daemon has taken
  inspector,  \* "off", "on", "leaving"
  datagrams,  \* the socket's queue
  queue,      \* the channel to the printing thread
  accepted,   \* every record the channel took
  printed,    \* what the thread wrote
  output,     \* standard output still takes records
  faults

launching == <<step, tracked, prep, context, registered>>
inspecting == <<inspector, datagrams, queue, accepted, printed, output>>
vars == <<launching, daemon, hook, ingested, inspecting, faults>>

Junk == <<"junk", "junk">>
NoPayload == [size |-> 0, json |-> FALSE, normal |-> FALSE, named |-> FALSE]

Init ==
  /\ step = "health" /\ tracked = FALSE /\ prep = FALSE
  /\ context \in {"inherited", "none"}
  /\ daemon \in {"up", "down"} /\ registered = FALSE
  /\ hook = [h \in Hooks |-> [at |-> "off", payload |-> NoPayload]]
  /\ ingested = {}
  /\ inspector = "off" /\ datagrams = <<>> /\ queue = <<>> /\ accepted = <<>> /\ printed = <<>>
  /\ output = TRUE
  /\ faults = 0

-----------------------------------------------------------------------------
(* launch. *)

Launching == UNCHANGED <<daemon, hook, ingested, inspecting, faults>>

(* daemon_is_healthy, then the hooks' setup: either failing means untracked. *)
CheckHealth ==
  /\ step = "health" /\ daemon # "hung"
  /\ \E setup \in BOOLEAN : tracked' = (daemon = "up" /\ setup)
  /\ step' = IF tracked' THEN "prepare" ELSE "spawn"
  /\ UNCHANGED <<prep, context, registered>>
  /\ Launching

(* The private directory and prepare_launch: an error ends the launch. *)
Prepare ==
  /\ step = "prepare"
  /\ \/ /\ step' = "register" /\ prep' = TRUE
     \/ /\ PrepareFails /\ step' = "failed" /\ UNCHANGED prep
  /\ UNCHANGED <<tracked, context, registered>>
  /\ Launching

(* Mutant: a refused registration keeps the preparation. *)
Register_KeepsPreparation ==
  /\ step = "register" /\ daemon # "hung"
  /\ \E ok \in BOOLEAN :
       /\ tracked' = (daemon = "up" /\ ok)
       /\ registered' = (daemon = "up" /\ ok)
  /\ step' = "spawn"
  /\ UNCHANGED <<context, prep>>
  /\ Launching

(* Anything but Ok, a dead daemon included, means untracked after all. *)
Register ==
  /\ step = "register" /\ daemon # "hung"
  /\ \E ok \in BOOLEAN :
       /\ tracked' = (daemon = "up" /\ ok)
       /\ registered' = (daemon = "up" /\ ok)
       /\ prep' = (daemon = "up" /\ ok)
  /\ step' = "spawn"
  /\ UNCHANGED context
  /\ Launching

(* The context is set for a tracked launch, and removed for another. *)
Spawn ==
  /\ step = "spawn"
  /\ context' = IF tracked THEN "own" ELSE "none"
  /\ step' = "running"
  /\ UNCHANGED <<tracked, prep, registered>>
  /\ Launching

-----------------------------------------------------------------------------
(* hook_emit. *)

Hooking == UNCHANGED <<launching, daemon, inspector, queue, accepted, printed, output, faults>>

At(h, label) == hook' = [hook EXCEPT ![h].at = label]

(* What was read, at most one byte past the limit; the event's name is added  *)
(* to an object that lacks it, and the input serialized anew.                 *)
raw_size(p) ==
  IF p.size > MaxInput THEN MaxInput + 1
  ELSE IF EventArg /\ p.json /\ ~ p.named THEN p.size + 1 ELSE p.size

has_value(p) == p.size <= MaxInput /\ p.json

inspection_record(p) ==
  IF raw_size(p) > MaxInput THEN "oversized_input"
  ELSE IF p.json THEN "complete" ELSE "invalid_json"

(* The hook runs with the provider's environment; without a context of this *)
(* provider it does nothing.                                                *)
HookStart(h) ==
  /\ step = "running" /\ hook[h].at = "off"
  /\ \E p \in Payloads :
       hook' = [hook EXCEPT ![h] =
                  [at |-> IF context = "none" THEN "done" ELSE "inspect", payload |-> p]]
  /\ UNCHANGED <<ingested, datagrams>>
  /\ Hooking

(* A datagram is sent when there is an inspector with room; the send gives up *)
(* after 20 ms.                                                               *)
inspect_hook_best_effort(h) ==
  /\ hook[h].at = "inspect"
  /\ datagrams' = IF inspector = "off" \/ Len(datagrams) >= Datagrams THEN datagrams
                  ELSE Append(datagrams, <<h, inspection_record(hook[h].payload)>>)
  /\ At(h, "normalize")
  /\ UNCHANGED ingested
  /\ Hooking

Normalize(h) ==
  /\ hook[h].at = "normalize"
  /\ At(h, IF has_value(hook[h].payload) /\ hook[h].payload.normal THEN "ingest" ELSE "done")
  /\ UNCHANGED <<ingested, datagrams>>
  /\ Hooking

(* HookIngest is answered, refused, or given up after HOOK_TIMEOUT. *)
Ingest(h) ==
  /\ hook[h].at = "ingest"
  /\ ingested' = IF daemon = "up" /\ registered THEN ingested \cup {h} ELSE ingested
  /\ At(h, "done")
  /\ UNCHANGED datagrams
  /\ Hooking

-----------------------------------------------------------------------------
(* inspect_hooks. *)

Inspecting == UNCHANGED <<launching, daemon, hook, ingested, faults>>

StartInspector ==
  /\ inspector = "off" /\ accepted = <<>>
  /\ inspector' = "on"
  /\ UNCHANGED <<datagrams, queue, accepted, printed, output>>
  /\ Inspecting

(* A local process sends what is no record. *)
SendJunk ==
  /\ inspector = "on" /\ Len(datagrams) < Datagrams /\ Junk \notin Range(datagrams)
  /\ datagrams' = Append(datagrams, Junk)
  /\ UNCHANGED <<inspector, queue, accepted, printed, output>>
  /\ Inspecting

(* An object with a provider, a hook type and a payload. *)
valid_inspection_record(record) == record # Junk

(* try_send: a full queue, or a thread that has gone, drops the record. *)
Receive ==
  /\ inspector = "on" /\ datagrams # <<>>
  /\ datagrams' = Tail(datagrams)
  /\ IF valid_inspection_record(Head(datagrams)) /\ output /\ Len(queue) < Depth
       THEN queue' = Append(queue, Head(datagrams)) /\ accepted' = Append(accepted, Head(datagrams))
       ELSE UNCHANGED <<queue, accepted>>
  /\ UNCHANGED <<inspector, printed, output>>
  /\ Inspecting

PrintRecord ==
  /\ inspector # "off" /\ output /\ queue # <<>>
  /\ printed' = Append(printed, Head(queue))
  /\ queue' = Tail(queue)
  /\ UNCHANGED <<inspector, datagrams, accepted, output>>
  /\ Inspecting

(* A failed write ends the thread, and the queue with it. *)
BreakOutput ==
  /\ inspector # "off" /\ output
  /\ output' = FALSE
  /\ queue' = <<>>
  /\ UNCHANGED <<inspector, datagrams, accepted, printed>>
  /\ Inspecting

(* Ctrl+C drops the sender. *)
Interrupt ==
  /\ inspector = "on"
  /\ inspector' = "leaving"
  /\ UNCHANGED <<datagrams, queue, accepted, printed, output>>
  /\ Inspecting

(* The thread has printed what was queued; the endpoint is removed, and the   *)
(* socket closes with what it has not received.                               *)
StopInspector ==
  /\ inspector = "leaving" /\ queue = <<>>
  /\ inspector' = "off"
  /\ datagrams' = <<>>
  /\ UNCHANGED <<queue, accepted, printed, output>>
  /\ Inspecting

-----------------------------------------------------------------------------

DaemonFault ==
  /\ faults < MaxFaults
  /\ faults' = faults + 1
  /\ daemon' \in ({"up", "down"} \cup (IF Hangs THEN {"hung"} ELSE {})) \ {daemon}
  /\ registered' = registered
  /\ UNCHANGED <<step, tracked, prep, context, hook, ingested, inspecting>>

LaunchNext == CheckHealth \/ Prepare \/ Register \/ Spawn

HookNext(h) == HookStart(h) \/ inspect_hook_best_effort(h) \/ Normalize(h) \/ Ingest(h)

InspectorNext ==
  StartInspector \/ SendJunk \/ Receive \/ PrintRecord \/ BreakOutput \/ Interrupt \/ StopInspector

Next == LaunchNext \/ (\E h \in Hooks : HookNext(h)) \/ InspectorNext \/ DaemonFault

Spec == Init /\ [][Next]_vars

-----------------------------------------------------------------------------

TypeOK ==
  /\ Len(queue) <= Depth /\ Len(datagrams) <= Datagrams
  /\ step \in {"health", "prepare", "register", "spawn", "running", "failed"}
  /\ context \in {"none", "inherited", "own"}
  /\ \A h \in Hooks : hook[h].at \in {"off", "inspect", "normalize", "ingest", "done"}

(* supervised-agent-launch: an untracked provider gets no tracking context,   *)
(* "managed hooks SHALL complete successfully without contacting the broker", *)
(* and nothing of the preparation is left.                                    *)
UntrackedIsBare ==
  step = "running" /\ ~ tracked =>
    /\ context = "none" /\ ~ prep
    /\ \A h \in Hooks : hook[h].at \in {"off", "done"}
    /\ ingested = {} /\ accepted = <<>>

(* inspect_hooks: what is printed is what was accepted, in order and once, and *)
(* an inspector that leaves by Ctrl+C has printed all of it.                   *)
PrintsWhatItAccepts ==
  /\ IsPrefix(printed, accepted)
  /\ inspector = "off" /\ output => printed = accepted

(* raw-hook-inspection: "MUST identify invalid JSON or oversized input without *)
(* presenting truncated content as a complete payload", and only an input      *)
(* shown complete becomes an event.                                            *)
NeverTruncated ==
  /\ \A i \in DOMAIN accepted :
       accepted[i][2] = "complete" =>
         hook[accepted[i][1]].payload.size <= MaxInput /\ hook[accepted[i][1]].payload.json
  /\ \A h \in ingested : has_value(hook[h].payload)

(* "MUST NOT allow unavailable, slow, malformed, or overloaded inspection      *)
(* handling to block provider operation": every hook ends.                     *)
HooksEnd ==
  \A h \in Hooks : hook[h].at # "off" ~> hook[h].at = "done"

(* docs/cli.md: "If it is unavailable or tracking initialization fails, the    *)
(* provider launches untracked": the launch ends with a running provider.      *)
LaunchFailsOpen ==
  <>(step = "running")

=============================================================================
