------------------------------ MODULE Dialects ------------------------------
(***************************************************************************)
(* The hook adapters of sessiontap-adapters: how each provider's raw hook  *)
(* payload becomes a normalized event (claude.rs, codex.rs, qwen.rs,       *)
(* agy.rs, pi.rs), and the driver that assembles it (driver.rs).           *)
(*                                                                         *)
(* A payload is a record of the facts the mappings read:                   *)
(*   name        the event name; tool the class of its tool: "ask" is the  *)
(*               provider's ask-user tool, "permission" agy's              *)
(*               ask_permission, "shell", "file" and "other" stand for the *)
(*               spellings the adapter folds together, "mcp" for a name    *)
(*               with a double separator, which has no normalized label    *)
(*   agent       the agent_id: absent, Blank, bounded or Unbounded;        *)
(*   typed       whether a bounded agent_type comes with it                *)
(*   note        notification_type; status: is_interrupt of a Stop,        *)
(*               terminationReason or settled_status; prompt: is it blank  *)
(*   sandboxed   BypassSandbox is false (agy)                              *)
(*   target      the directory of the tool's file; workspaces the ones the *)
(*               payload names                                             *)
(*   texts       which texts come with it                                  *)
(*   corr, session, turn, usage, locator: the fields so called             *)
(* Sanitizing is abstracted to whether a bounded text results.             *)
(***************************************************************************)
EXTENDS Reducer

CONSTANTS
  Dirs         \* directories a tool may touch

Providers == {"claude", "codex", "qwen", "agy", "pi"}
LabelsAssumption == {"shell", "file", "other", "ask", "permission", "tool"} \subseteq ToolLabels

(* The payload that names an event and carries nothing else. *)
Bare(provider, name) ==
  [provider |-> provider, name |-> name, tool |-> None, agent |-> None, typed |-> TRUE,
   note |-> None, status |-> None, blank |-> FALSE, sandboxed |-> FALSE, target |-> None,
   workspaces |-> {}, texts |-> {}, corr |-> None, session |-> None, turn |-> None,
   usage |-> None, locator |-> FALSE]

-----------------------------------------------------------------------------
(* Child agents. *)

Blank == -1        \* an agent_id of white space
Unbounded == -2    \* an agent_id that fails its bounds

HasAgentId(p) == p.agent \notin {None, Blank}

is_subagent_payload(p) ==
  HasAgentId(p) \/ (p.provider = "claude" /\ p.name \in {"SubagentStart", "SubagentStop"})

child_agent(p) ==
  IF p.provider = "claude" /\ p.agent \in AgentIds /\ p.typed THEN p.agent ELSE None

-----------------------------------------------------------------------------
(* Event kinds; None is a payload the adapter ignores. *)

ClassifyNotification(p) ==
  CASE p.note = "permission_prompt" -> "WaitingApproval"
    [] p.note \in {"elicitation_dialog", "agent_needs_input"} -> "WaitingInput"
    [] p.note = "idle_prompt" -> "Idle"
    [] OTHER -> None

(* The part of the mapping the three command-hook providers share. *)
ClassifyCommon(p) ==
  CASE p.name = "SessionStart" -> "ProviderSessionStarted"
    [] p.name = "SessionEnd" -> "ProviderSessionEnded"
    [] p.name = "UserPromptSubmit" -> "NewTurn"
    [] p.name \in {"PreToolUse", "PermissionRequest"} /\ p.tool = "ask" -> "WaitingInput"
    [] p.name = "PermissionRequest" /\ p.tool # "ask" -> "WaitingApproval"
    [] p.name = "PostToolUse" \/ (p.name = "PreToolUse" /\ p.tool # "ask") -> "Working"
    [] p.name = "Stop" /\ p.status # "interrupt" -> "Completed"
    [] OTHER -> None

claude_classify(p) ==
  CASE p.name = "PostToolUseFailure" -> "Working"
    [] p.name = "Elicitation" -> "WaitingInput"
    [] p.name = "Notification" -> ClassifyNotification(p)
    [] p.name = "PreCompact" -> "Working"
    [] p.name \in {"PostCompact", "PostModelSwitch"} -> "Enrichment"
    [] p.name = "Stop" /\ p.status = "interrupt" -> "Interrupted"
    [] p.name = "StopFailure" -> "Failed"
    [] p.name = "SubagentStart" -> "NewTurn"
    [] p.name = "SubagentStop" -> "Completed"
    [] OTHER -> ClassifyCommon(p)

codex_classify(p) ==
  CASE p.name = "UserInputRequest" -> "WaitingInput"
    [] p.name = "PreCompact" -> "Working"
    [] p.name = "PostCompact" -> "Enrichment"
    [] p.name = "Interrupt" -> "Interrupted"
    [] p.name = "Stop" -> "Completed"
    [] OTHER -> ClassifyCommon(p)

qwen_classify(p) ==
  CASE p.name = "UserPromptSubmit" /\ p.blank -> "Enrichment"
    [] p.name = "PostToolUseFailure" -> "Working"
    [] p.name = "Notification" -> ClassifyNotification(p)
    [] p.name = "Stop" /\ p.status = "interrupt" -> "Interrupted"
    [] p.name = "StopFailure" -> "Failed"
    [] OTHER -> ClassifyCommon(p)

(* A file tool asks when its target is under none of the known workspaces; no *)
(* workspace at all asks nothing.                                             *)
extract_workspace_paths(p, trusted) ==
  p.workspaces \cup (IF trusted = None THEN {} ELSE {trusted})

file_tool_requests_approval(p, trusted) ==
  LET paths == extract_workspace_paths(p, trusted)
  IN  p.tool = "file" /\ p.target # None /\ paths # {} /\ p.target \notin paths

run_command_requests_approval(p) == p.tool = "shell" /\ ~ p.sandboxed

agy_requests_approval(p, trusted) ==
  \/ p.tool = "permission"
  \/ run_command_requests_approval(p)
  \/ file_tool_requests_approval(p, trusted)

(* classify has no context: it asks with no trusted workspace. *)
agy_classify(p) ==
  CASE p.name = "SessionStart" -> "ProviderSessionStarted"
    [] p.name = "PreInvocation" -> "NewTurn"
    [] p.name = "PreToolUse" ->
         IF p.tool = "ask" THEN "WaitingInput"
         ELSE IF agy_requests_approval(p, None) THEN "WaitingApproval" ELSE "Working"
    [] p.name = "PostToolUse" -> "Working"
    [] p.name = "PostInvocation" -> "Enrichment"
    [] p.name = "Stop" ->
         IF p.status = "interrupt" THEN "Interrupted"
         ELSE IF p.status = "error" THEN "Failed" ELSE "Completed"
    [] OTHER -> None

pi_classify(p) ==
  CASE p.name = "session_start" -> "ProviderSessionStarted"
    [] p.name = "session_shutdown" -> "ProviderSessionEnded"
    [] p.name = "before_agent_start" -> "NewTurn"
    [] p.name \in {"turn_start", "tool_execution_start", "tool_execution_end"} -> "Working"
    [] p.name \in {"session_info_changed", "model_select", "thinking_level_select",
                   "turn_end"} -> "Enrichment"
    [] p.name = "agent_settled" ->
         IF p.status = "error" THEN "Failed"
         ELSE IF p.status = "interrupt" THEN "Interrupted" ELSE "Completed"
    [] OTHER -> None

(* Claude ignores a child's payload without a usable identity; Codex and Qwen *)
(* ignore every child; agy and pi never look.                                 *)
classify(p) ==
  CASE p.provider = "claude" ->
         IF child_agent(p) = None /\ is_subagent_payload(p) THEN None ELSE claude_classify(p)
    [] p.provider = "codex" -> IF is_subagent_payload(p) THEN None ELSE codex_classify(p)
    [] p.provider = "qwen" -> IF is_subagent_payload(p) THEN None ELSE qwen_classify(p)
    [] p.provider = "agy" -> agy_classify(p)
    [] p.provider = "pi" -> pi_classify(p)

-----------------------------------------------------------------------------
(* Tool activity. *)

normalized_tool_label(tool) == IF tool \in {None, "mcp"} THEN None ELSE tool

(* What of the input may be shown: a safe description of a described tool, or *)
(* the target of a file tool under the trusted workspace.                     *)
safe_scalar_detail(p) == "description" \in p.texts /\ "unsafe" \notin p.texts

workspace_relative_target(p, trusted) ==
  trusted # None /\ p.target # None /\ p.target = trusted

activity_detail(p, trusted) ==
  CASE p.tool = "shell" /\ safe_scalar_detail(p) -> "description"
    [] p.tool = "file" /\ workspace_relative_target(p, trusted) -> "target"
    [] OTHER -> None

Activity(phase, label, p, detail) ==
  [phase |-> phase, label |-> label, correlation_id |-> p.corr, detail |-> detail]

HookPhase(name) ==
  CASE name = "PreToolUse" -> "Start"
    [] name = "ToolProgress" -> "Progress"
    [] name = "PostToolUse" -> "Finish"
    [] name = "PostToolUseFailure" -> "Failure"
    [] name = "PermissionRequest" -> "Attention"
    [] OTHER -> None

LabelledActivity(phase, p, trusted) ==
  IF phase = None \/ normalized_tool_label(p.tool) = None THEN None
  ELSE Activity(phase, normalized_tool_label(p.tool), p, activity_detail(p, trusted))

claude_tool_activity(p, trusted) == LabelledActivity(HookPhase(p.name), p, trusted)

codex_tool_activity(p, trusted) == LabelledActivity(HookPhase(p.name), p, trusted)

qwen_tool_activity(p, trusted) == LabelledActivity(HookPhase(p.name), p, trusted)

agy_detail(p) ==
  CASE "description" \in p.texts -> "description"
    [] "description" \notin p.texts /\ p.tool = "file" /\ p.target # None -> "target"
    [] "description" \notin p.texts /\ ~ (p.tool = "file" /\ p.target # None)
         /\ "command" \in p.texts -> "command"
    [] OTHER -> None

agy_tool_activity(p, trusted) ==
  CASE p.name = "PreToolUse" /\ p.tool # "ask" /\ normalized_tool_label(p.tool) # None ->
         Activity(IF agy_requests_approval(p, trusted) THEN "Attention" ELSE "Start",
                  p.tool, p, agy_detail(p))
    [] p.name = "PostToolUse" /\ p.tool # "mcp" ->
         Activity(IF "error" \in p.texts THEN "Failure" ELSE "Finish",
                  IF p.tool = None THEN "tool" ELSE p.tool, p, None)
    [] OTHER -> None

pi_tool_activity(p) ==
  IF p.name \in {"tool_execution_start", "tool_execution_end"}
       /\ normalized_tool_label(p.tool) # None
    THEN Activity(IF p.name = "tool_execution_start" THEN "Start" ELSE "Finish",
                  p.tool, p, None)
    ELSE None

tool_activity(p, trusted) ==
  CASE p.provider = "claude" -> claude_tool_activity(p, trusted)
    [] p.provider = "codex" -> codex_tool_activity(p, trusted)
    [] p.provider = "qwen" -> qwen_tool_activity(p, trusted)
    [] p.provider = "agy" -> agy_tool_activity(p, trusted)
    [] p.provider = "pi" -> pi_tool_activity(p)

-----------------------------------------------------------------------------
(* Status reasons: the source of the text, None when no text is usable. *)

tool_label(p) == p.tool

status_reason_context(p, input) ==
  CASE input /\ p.texts \cap {"question", "message"} # {} -> "Question"
    [] input /\ p.texts \cap {"question", "message"} = {} -> "GenericInput"
    [] ~ input /\ tool_label(p) = None -> None
    [] ~ input /\ tool_label(p) # None ->
         IF "description" \in p.texts THEN "Description"
         ELSE IF "command" \in p.texts THEN "Command" ELSE "ToolName"

(* agy needs a toolCall; it prefers the summary, then a file path. *)
agy_approval_reason(p) ==
  IF normalized_tool_label(p.tool) = None THEN None
  ELSE IF "description" \in p.texts \/ (p.tool = "file" /\ p.target # None)
    THEN "Description"
  ELSE IF "command" \in p.texts THEN "Command"
  ELSE IF "message" \in p.texts THEN "Description" ELSE "ToolName"

agy_input_reason(p) == status_reason_context(p, TRUE)

completed_reason(p) ==
  IF \/ "assistant" \in p.texts
     \/ p.provider = "agy" /\ "transcript" \in p.texts
    THEN "AssistantMessage" ELSE None

failure_reason(p) ==
  IF \/ "category" \in p.texts
     \/ p.provider = "agy" /\ (p.status # None \/ "error" \in p.texts)
    THEN "FailureCategory" ELSE None

status_reason(p, kind) ==
  CASE child_agent(p) # None -> None
    [] child_agent(p) = None /\ kind = "WaitingApproval" ->
         IF p.provider = "agy" THEN agy_approval_reason(p) ELSE status_reason_context(p, FALSE)
    [] child_agent(p) = None /\ kind = "WaitingInput" ->
         IF p.provider = "agy" THEN agy_input_reason(p) ELSE status_reason_context(p, TRUE)
    [] child_agent(p) = None /\ kind = "Completed" -> completed_reason(p)
    [] child_agent(p) = None /\ kind = "Failed" -> failure_reason(p)
    [] OTHER -> None

-----------------------------------------------------------------------------
(* The driver: a child's event carries its ordering identity, its kind and    *)
(* its tool, and nothing of the root.                                         *)

collection_context(p) == p.provider # "pi" /\ p.session # None /\ p.locator

qwen_inline_usage(p) == p.usage

pi_inline_usage(p) == p.usage

inline_usage(p) ==
  CASE p.provider = "qwen" -> qwen_inline_usage(p)
    [] p.provider = "pi" -> pi_inline_usage(p)
    [] OTHER -> None

turn_id(p) == IF p.provider = "pi" THEN None ELSE p.turn


build(p, trusted) ==
  LET child == child_agent(p)
  IN  [kind |-> classify(p), session |-> p.session, turn_id |-> turn_id(p),
       tool |-> tool_activity(p, trusted),
       usage |-> IF child = None THEN inline_usage(p) ELSE None,
       reason |-> status_reason(p, classify(p)), child |-> child,
       collects |-> child = None /\ collection_context(p)]

(* None when the payload is ignored. *)
normalize_with_evidence(p, trusted) ==
  IF classify(p) = None THEN None ELSE build(p, trusted)
=============================================================================
