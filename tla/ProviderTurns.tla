--------------------------- MODULE ProviderTurns ----------------------------
(***************************************************************************)
(* One provider process seen through its hooks: an agent that prompts,     *)
(* runs tools, asks and stops reports every step as a hook payload, the    *)
(* adapter of its provider (Dialects) makes an event of it and the reducer *)
(* (Reducer) applies it to the invocation's snapshot.                      *)
(*                                                                         *)
(* The agent is external: its steps are the ones the adapters' event names *)
(* and tests document.  A command hook is awaited by its provider, so the  *)
(* next step is taken when the payload has been delivered or lost (`hook   *)
(* emit` fails open).  Pi's extension spawns a detached process for each   *)
(* event, so with Detached several are in flight and arrive in any order.  *)
(***************************************************************************)
EXTENDS Dialects, TLC

CONSTANTS
  Provider,      \* the provider under observation
  Trusted,       \* the workspace the wrapper authenticated
  Detached,      \* payloads are delivered by detached processes
  MaxTurns,      \* bound on prompts
  MaxTools,      \* bound on tool calls in a turn
  MaxLost,       \* bound on lost payloads
  MaxFlight      \* bound on payloads in flight when detached

ProviderAssumption == Provider \in Providers /\ Trusted \in Dirs

VARIABLES
  agent,     \* what the agent is doing
  flight,    \* payloads on their way to the daemon
  snapshot,  \* the invocation's snapshot
  reason,    \* its current status reason
  source,    \* where the text of that reason came from
  shown,     \* the last tool activity update of the adapter
  heard      \* how much of the current turn reached the daemon

vars == <<agent, flight, snapshot, reason, source, shown, heard>>

NewSnapshot ==
  [lifecycle |-> "Alive", activity |-> "Unknown", asserted_at |-> 0,
   confirmation |-> "Live", source_ordering |-> <<>>, tool |-> None, session |-> None,
   turn_id |-> None, usage |-> None, children |-> {}, child_pid |-> TRUE,
   turn_generation |-> 0, completed_generation |-> None]

Init ==
  /\ agent = [phase |-> "off", session |-> None, turn |-> 0, call |-> 0, tool |-> None,
              outcome |-> None, lost |-> 0]
  /\ flight = <<>>
  /\ snapshot = NewSnapshot
  /\ reason = None
  /\ source = None
  /\ shown = None
  /\ heard = "all"

-----------------------------------------------------------------------------
(* What the agent sends. *)

Sent(name) ==
  [Bare(Provider, name) EXCEPT !.session = agent.session, !.turn = ToString(agent.turn)]

SentWith(name, tool, texts, target) ==
  [Sent(name) EXCEPT !.tool = tool, !.texts = texts, !.target = target,
                     !.corr = ToString(agent.call), !.workspaces = {Trusted}]

Quiet == IF Detached THEN Len(flight) < MaxFlight ELSE flight = <<>>

Send(p) == flight' = Append(flight, p)

Unheard == UNCHANGED <<snapshot, reason, source, shown, heard>>

IsHookProvider == Provider \in {"claude", "codex", "qwen"}

-----------------------------------------------------------------------------
(* The agent's steps. *)

StartSession(sid) ==
  /\ agent.phase \in {"off", "stopped"} /\ agent.session # sid
  /\ Quiet
  /\ agent' = [agent EXCEPT !.phase = "stopped", !.session = sid, !.outcome = None]
  /\ Send([Sent(IF Provider = "pi" THEN "session_start" ELSE "SessionStart")
             EXCEPT !.session = sid, !.turn = None])
  /\ Unheard

Prompt ==
  /\ agent.phase = "stopped" /\ agent.turn < MaxTurns
  /\ Quiet
  /\ agent' = [agent EXCEPT !.phase = "working", !.turn = @ + 1, !.outcome = None,
                            !.tool = None]
  /\ Send([Sent(IF Provider = "pi" THEN "before_agent_start"
                ELSE IF Provider = "agy" THEN "PreInvocation" ELSE "UserPromptSubmit")
             EXCEPT !.turn = ToString(agent.turn + 1)])
  /\ Unheard

(* Enter with nothing typed reaches Qwen's hook as a blank prompt. *)
BlankPrompt ==
  /\ Provider = "qwen" /\ agent.phase = "stopped"
  /\ Quiet
  /\ Send([Sent("UserPromptSubmit") EXCEPT !.blank = TRUE, !.turn = None])
  /\ UNCHANGED agent /\ Unheard

(* The agent starts a tool that needs nobody's leave; a file tool names its   *)
(* target and the workspaces the agent itself has open.                       *)
UseTool(tool, texts, target, claimed) ==
  /\ agent.phase = "working" /\ agent.call < agent.turn * MaxTools
  /\ tool = "file" => texts = {}
  /\ tool # "file" => target = Trusted /\ claimed = Trusted
  /\ Provider = "agy" => target \in {claimed, Trusted}
  /\ Quiet
  /\ agent' = [agent EXCEPT !.phase = "tool", !.tool = tool, !.call = @ + 1]
  /\ Send([SentWith(IF Provider = "pi" THEN "tool_execution_start" ELSE "PreToolUse",
                    tool, texts, IF tool = "file" THEN target ELSE None)
             EXCEPT !.corr = ToString(agent.call + 1), !.sandboxed = TRUE,
                    !.workspaces = {claimed}])
  /\ Unheard

ToolDone(failed) ==
  /\ agent.phase \in {"tool", "question"}
  /\ Quiet
  /\ agent' = [agent EXCEPT !.phase = "working", !.tool = None]
  /\ Send(SentWith(
       CASE Provider = "pi" -> "tool_execution_end"
         [] failed /\ Provider \in {"claude", "qwen"} -> "PostToolUseFailure"
         [] OTHER -> "PostToolUse",
       IF Provider = "agy" THEN None ELSE agent.tool,
       IF failed THEN {"error"} ELSE {}, None))
  /\ Unheard

(* Command-hook providers announce the tool, then ask for leave; agy asks in  *)
(* the announcement.                                                          *)
AskApproval(tool, texts) ==
  /\ IF Provider = "agy"
       THEN agent.phase = "working" /\ agent.call < agent.turn * MaxTools
       ELSE IsHookProvider /\ agent.phase = "tool" /\ agent.tool = tool
  /\ Quiet
  /\ IF Provider = "agy"
       THEN /\ agent' = [agent EXCEPT !.phase = "approval", !.call = @ + 1, !.tool = tool]
            /\ \E away \in Dirs \ {Trusted} :
                 Send([SentWith("PreToolUse", tool, texts, IF tool = "file" THEN away ELSE None)
                         EXCEPT !.corr = ToString(agent.call + 1)])
       ELSE /\ agent' = [agent EXCEPT !.phase = "approval"]
            /\ Send(SentWith("PermissionRequest", tool, texts, None))
  /\ Unheard

(* Leave is given without a hook; the tool's end is the next one. *)
Grant ==
  /\ agent.phase = "approval" /\ Quiet
  /\ agent' = [agent EXCEPT !.phase = "granted"]
  /\ UNCHANGED flight /\ Unheard

GrantedDone ==
  /\ agent.phase = "granted" /\ Quiet
  /\ agent' = [agent EXCEPT !.phase = "working", !.tool = None]
  /\ Send(SentWith("PostToolUse", IF Provider = "agy" THEN None ELSE agent.tool, {}, None))
  /\ Unheard

AskQuestion(texts) ==
  /\ agent.phase = "working" /\ Provider # "pi" /\ agent.call < agent.turn * MaxTools
  /\ Quiet
  /\ agent' = [agent EXCEPT !.phase = "question", !.call = @ + 1, !.tool = "ask"]
  /\ Send([SentWith("PreToolUse", "ask", texts, None) EXCEPT !.corr = ToString(agent.call + 1)])
  /\ Unheard

(* The delayed reminders of Claude and Qwen name no tool. *)
Remind ==
  /\ Provider \in {"claude", "qwen"}
  /\ agent.phase \in {"approval", "question", "stopped"} /\ agent.turn > 0
  /\ Quiet
  /\ Send([Sent("Notification") EXCEPT
             !.note = CASE agent.phase = "approval" -> "permission_prompt"
                        [] agent.phase = "question" -> "agent_needs_input"
                        [] OTHER -> "idle_prompt",
             !.texts = {"message"}])
  /\ agent' = [agent EXCEPT !.outcome = IF @ # None THEN "idle" ELSE @]
  /\ Unheard

Enrich ==
  /\ agent.phase # "off" /\ Provider \in {"claude", "codex", "agy", "pi"} /\ Quiet
  /\ Send(Sent(CASE Provider \in {"claude", "codex"} -> "PostCompact"
                 [] Provider = "agy" -> "PostInvocation"
                 [] OTHER -> "model_select"))
  /\ UNCHANGED agent /\ Unheard

(* A subagent's own tool, with an identity the adapter may or may not accept. *)
ChildStep(id, name) ==
  /\ IsHookProvider /\ agent.phase \in {"working", "tool", "approval"} /\ Quiet
  /\ Send([SentWith(name, "shell", {}, None) EXCEPT !.agent = id, !.turn = None])
  /\ UNCHANGED agent /\ Unheard

StopName(outcome) ==
  CASE Provider = "pi" -> "agent_settled"
    [] outcome = "Failed" /\ Provider \in {"claude", "qwen"} -> "StopFailure"
    [] outcome = "Interrupted" /\ Provider = "codex" -> "Interrupt"
    [] OTHER -> "Stop"

Stop(outcome, texts) ==
  /\ agent.phase \in {"working", "tool", "approval", "question", "granted"}
  /\ outcome = "Failed" => Provider # "codex"
  /\ Quiet
  /\ agent' = [agent EXCEPT !.phase = "stopped", !.outcome = outcome, !.tool = None]
  /\ Send([Sent(StopName(outcome)) EXCEPT
             !.texts = texts,
             !.status = CASE outcome = "Interrupted" -> "interrupt"
                          [] outcome = "Failed" -> "error"
                          [] OTHER -> None])
  /\ Unheard

-----------------------------------------------------------------------------
(* Delivery: hook emit, the adapter, then the reducer. *)

AsReducerEvent(e) ==
  [kind |-> e.kind, channel |-> "ManagedHook", session |-> e.session,
   turn_id |-> e.turn_id,
   tool |-> IF e.tool = None THEN None
            ELSE [phase |-> e.tool.phase, label |-> e.tool.label,
                  correlation_id |-> e.tool.correlation_id],
   usage |-> e.usage, context |-> e.reason # None, child |-> e.child,
   source |-> None, sequence |-> None]

ApplyPayload(p) ==
  LET e == normalize_with_evidence(p, Trusted)
  IN  IF e = None THEN UNCHANGED <<snapshot, reason, source, shown>>
      ELSE LET r == apply_event(snapshot, reason, AsReducerEvent(e), 0)
           IN  /\ snapshot' = r.snapshot
               /\ reason' = r.reason
               /\ source' = IF r.reason = None THEN None
                            ELSE IF e.child = None /\ e.reason # None /\ r.reason = e.kind
                              THEN e.reason ELSE source
               /\ shown' = [kind |-> e.kind, name |-> p.name, target |-> p.target,
                            activity |-> e.tool]

(* A prompt that arrives opens a turn of which everything was heard, unless   *)
(* its session's start never was.                                             *)
Heard(p) ==
  CASE p.name \in {"SessionStart", "session_start"} -> "all"
    [] heard = "turn" /\ ~ p.blank
         /\ p.name \in {"UserPromptSubmit", "PreInvocation", "before_agent_start"} -> "all"
    [] OTHER -> heard

Deliver(n) ==
  /\ n \in DOMAIN flight
  /\ ~ Detached => n = 1
  /\ ApplyPayload(flight[n])
  /\ heard' = Heard(flight[n])
  /\ flight' = SubSeq(flight, 1, n - 1) \o SubSeq(flight, n + 1, Len(flight))
  /\ UNCHANGED agent

(* The socket is gone or the bound on the exchange passed: `hook emit` exits  *)
(* without delivering.                                                        *)
Lose ==
  /\ flight # <<>> /\ agent.lost < MaxLost
  /\ agent' = [agent EXCEPT !.lost = @ + 1]
  /\ heard' = IF Head(flight).name \in {"SessionStart", "session_start"} \/ heard = "session"
                THEN "session" ELSE "turn"
  /\ flight' = Tail(flight)
  /\ UNCHANGED <<snapshot, reason, source, shown>>

Next ==
  \/ \E sid \in SessionIds : StartSession(sid)
  \/ Prompt
  \/ BlankPrompt
  \/ \E tool \in {"shell", "file", "mcp"}, texts \in {{}, {"command"}}, target, claimed \in Dirs :
        UseTool(tool, texts, target, claimed)
  \/ \E failed \in BOOLEAN : ToolDone(failed)
  \/ \E tool \in {"shell", "file"}, texts \in {{}, {"command"}} : AskApproval(tool, texts)
  \/ Grant
  \/ GrantedDone
  \/ \E texts \in {{}, {"question"}} : AskQuestion(texts)
  \/ Remind
  \/ Enrich
  \/ \E id \in AgentIds \cup {Unbounded}, name \in {"PreToolUse", "PermissionRequest"} :
        ChildStep(id, name)
  \/ \E outcome \in TerminalKinds, texts \in {{}, {"assistant", "category"}} :
        Stop(outcome, texts)
  \/ \E n \in 1 .. MaxFlight : Deliver(n)
  \/ Lose

Spec == Init /\ [][Next]_vars

-----------------------------------------------------------------------------
TypeOK ==
  /\ agent.phase \in {"off", "working", "tool", "approval", "granted", "question", "stopped"}
  /\ snapshot.activity \in Activities
  /\ snapshot.session \in Option(SessionIds)
  /\ reason \in Option(ReasonKinds)
  /\ (reason = None) = (source = None)
  /\ heard \in {"all", "turn", "session"}
  /\ Len(flight) <= MaxFlight

(* Everything the agent did in this turn has arrived. *)
Settled == flight = <<>> /\ heard = "all"

(* An agent that waits for its user is shown waiting, for what it waits for,  *)
(* once its hooks have arrived: neither a reminder, a compaction, a tool that *)
(* has no label nor anything a child does in the meantime may hide it, and    *)
(* whatever was lost in earlier turns, a turn heard from its prompt on shows  *)
(* it again.                                                                  *)
AttentionIsShown ==
  Settled =>
    /\ agent.phase = "approval" => snapshot.activity = "WaitingApproval"
    /\ agent.phase = "question" => snapshot.activity = "WaitingInput"

(* A turn that ended is shown stopped, and the reason shown with it is none   *)
(* or the one it ended for; a blank prompt and an idle reminder after it do   *)
(* not make it look busy.  (EventKind::Idle, a reminder, shows idle.)         *)
OutcomeIsShown ==
  Settled /\ agent.phase = "stopped" /\ agent.outcome # None =>
    /\ snapshot.activity \in {"Stopped", "Idle"}
    /\ snapshot.activity = "Idle" => agent.outcome = "idle"
    /\ reason \in {None, agent.outcome} \cup (IF agent.outcome = "idle" THEN TerminalKinds ELSE {})

(* The tool the snapshot shows is the one the agent runs: after its end the   *)
(* snapshot shows none, whether it succeeded, failed or was granted first.    *)
ToolIsCurrent ==
  Settled =>
    /\ agent.phase \in {"working", "stopped"} => snapshot.tool = None
    /\ agent.phase = "tool" /\ agent.tool # "mcp" =>
         snapshot.tool = [label |-> agent.tool, correlation_id |-> ToString(agent.call)]

(* driver.rs build: "root session name, start reason, metadata, usage, status *)
(* reason, and collection context are never read from a child payload".  A    *)
(* payload of a subagent, identified or not, changes nothing but the child    *)
(* list.                                                                      *)
ChildrenNeverTouchRoot ==
  \A n \in DOMAIN flight :
    (/\ HasAgentId(flight[n])
     /\ flight' = SubSeq(flight, 1, n - 1) \o SubSeq(flight, n + 1, Len(flight))
     /\ agent' = agent)
    => /\ reason' = reason
       /\ [snapshot EXCEPT !.children = {}]' = [snapshot EXCEPT !.children = {}]

(* agent-hook-adapters: the adapter "binds file targets only to the workspace *)
(* supplied by the authenticated launch context", whatever workspace the      *)
(* payload claims.                                                            *)
TargetIsBound ==
  shown # None /\ shown.activity # None /\ shown.activity.detail = "target" =>
    shown.target = Trusted

=============================================================================
