----------------------------- MODULE MCProviders ----------------------------
(***************************************************************************)
(* What a provider shows and what is installed for it: ProviderTurns reads *)
(* its hooks, Projection publishes the snapshot, Collectors read its       *)
(* artifacts, HookConfig and ManagedFiles install its hooks. `part` says   *)
(* which of them, for which provider, a behaviour is about.                *)
(***************************************************************************)
EXTENDS Integers, Sequences

CONSTANTS None, Parts

(* The records each provider writes. *)
Row(kind, id, n, name) == [kind |-> kind, id |-> id, n |-> n, name |-> name]
ResponseRows ==
  {Row("usage", "r1", 1, None), Row("usage", "r1", 2, None), Row("usage", "r2", 2, None)}
RecordRows ==
  {Row("usage", None, 1, None), Row("title", None, 0, "t1"), Row("foreign", None, 0, None)}
RolloutRows ==
  {Row("usage", None, 1, None), Row("usage", None, 3, None), Row("meta", None, 0, "t1"), Row("foreign", None, 0, None)}
StepRows ==
  {Row("usage", "r1", 1, None), Row("usage", "r2", 2, None), Row("bad", None, 0, None)}

VARIABLES
  part,  \* the component the behaviour is about; the others stay as they start
  agent, flight, turns_snapshot, turns_reason, source, shown, heard,
  projection_snapshot, projection_reason, updated_at, update, kept, clock,
  files, path, index, scan, cancelled, published, scans, changes,
  file, lock, config_proc, last, before, config_runs, config_edits,
  plugin, hooks, dir, disabled, lockfile, locked, inodes, managed_proc, managed_runs,
  managed_edits

turns_vars == <<agent, flight, turns_snapshot, turns_reason, source, shown, heard>>
projection_vars == <<projection_snapshot, projection_reason, updated_at, update, kept,
                     clock>>
collectors_vars == <<files, path, index, scan, cancelled, published, scans, changes>>
config_vars == <<file, lock, config_proc, last, before, config_runs, config_edits>>
managed_vars == <<plugin, hooks, dir, disabled, lockfile, locked, inodes,
                  managed_proc, managed_runs, managed_edits>>

Claude == INSTANCE ProviderTurns WITH
  SessionIds <- {"s1"}, TurnIds <- {"1", "2"},
  ToolLabels <- {"shell", "file", "other", "ask", "permission", "tool"},
  CorrelationIds <- {"1", "2", "3", "4"}, AgentIds <- {1}, Sources <- {},
  CHILD_AGENTS_MAX <- 2, SOURCE_ORDER_CURSOR_MAX <- 1, STALE_WORKING <- 1,
  Dirs <- {"home", "away"}, Provider <- "claude", Trusted <- "home",
  Detached <- FALSE, MaxTurns <- 2, MaxTools <- 1, MaxLost <- 1, MaxFlight <- 1,
  snapshot <- turns_snapshot, reason <- turns_reason
Codex == INSTANCE ProviderTurns WITH
  SessionIds <- {"s1", "s2"}, TurnIds <- {"1", "2"},
  ToolLabels <- {"shell", "file", "other", "ask", "permission", "tool"},
  CorrelationIds <- {"1", "2", "3", "4"}, AgentIds <- {1}, Sources <- {},
  CHILD_AGENTS_MAX <- 2, SOURCE_ORDER_CURSOR_MAX <- 1, STALE_WORKING <- 1,
  Dirs <- {"home", "away"}, Provider <- "codex", Trusted <- "home", Detached <- FALSE,
  MaxTurns <- 2, MaxTools <- 1, MaxLost <- 1, MaxFlight <- 1,
  snapshot <- turns_snapshot, reason <- turns_reason
Qwen == INSTANCE ProviderTurns WITH
  SessionIds <- {"s1", "s2"}, TurnIds <- {"1", "2"},
  ToolLabels <- {"shell", "file", "other", "ask", "permission", "tool"},
  CorrelationIds <- {"1", "2", "3", "4"}, AgentIds <- {1}, Sources <- {},
  CHILD_AGENTS_MAX <- 2, SOURCE_ORDER_CURSOR_MAX <- 1, STALE_WORKING <- 1,
  Dirs <- {"home", "away"}, Provider <- "qwen", Trusted <- "home", Detached <- FALSE,
  MaxTurns <- 2, MaxTools <- 1, MaxLost <- 1, MaxFlight <- 1,
  snapshot <- turns_snapshot, reason <- turns_reason
Agy == INSTANCE ProviderTurns WITH
  SessionIds <- {"s1", "s2"}, TurnIds <- {"1", "2"},
  ToolLabels <- {"shell", "file", "other", "ask", "permission", "tool"},
  CorrelationIds <- {"1", "2", "3", "4"}, AgentIds <- {1}, Sources <- {},
  CHILD_AGENTS_MAX <- 2, SOURCE_ORDER_CURSOR_MAX <- 1, STALE_WORKING <- 1,
  Dirs <- {"home", "away"}, Provider <- "agy", Trusted <- "home", Detached <- FALSE,
  MaxTurns <- 2, MaxTools <- 1, MaxLost <- 1, MaxFlight <- 1,
  snapshot <- turns_snapshot, reason <- turns_reason
Pi == INSTANCE ProviderTurns WITH
  SessionIds <- {"s1", "s2"}, TurnIds <- {"1", "2"},
  ToolLabels <- {"shell", "file", "other", "ask", "permission", "tool"},
  CorrelationIds <- {"1", "2", "3", "4"}, AgentIds <- {1}, Sources <- {},
  CHILD_AGENTS_MAX <- 2, SOURCE_ORDER_CURSOR_MAX <- 1, STALE_WORKING <- 1,
  Dirs <- {"home", "away"}, Provider <- "pi", Trusted <- "home", Detached <- FALSE,
  MaxTurns <- 2, MaxTools <- 2, MaxLost <- 1, MaxFlight <- 1,
  snapshot <- turns_snapshot, reason <- turns_reason
View == INSTANCE Projection WITH
  SessionIds <- {"s1"}, TurnIds <- {}, ToolLabels <- {}, CorrelationIds <- {},
  AgentIds <- {1}, Sources <- {}, CHILD_AGENTS_MAX <- 1, SOURCE_ORDER_CURSOR_MAX <- 1,
  STALE_WORKING <- 1, Pane <- TRUE, MaxClock <- 1, MaxTurns <- 1,
  snapshot <- projection_snapshot, reason <- projection_reason
CollectClaude == INSTANCE Collectors WITH
  Provider <- "claude", Rows <- ResponseRows, Names <- {"n1"}, Inodes <- {"i1", "i2"},
  MaxTokens <- 3, MaxRows <- 2, MaxScans <- 2, MaxChanges <- 1, Regrows <- FALSE
CollectCodex == INSTANCE Collectors WITH
  Provider <- "codex", Rows <- RolloutRows, Names <- {"n1"}, Inodes <- {"i1", "i2"},
  MaxTokens <- 3, MaxRows <- 2, MaxScans <- 2, MaxChanges <- 0, Regrows <- FALSE
CollectQwen == INSTANCE Collectors WITH
  Provider <- "qwen", Rows <- RecordRows, Names <- {"n1"}, Inodes <- {"i1", "i2"},
  MaxTokens <- 3, MaxRows <- 2, MaxScans <- 2, MaxChanges <- 0, Regrows <- FALSE
CollectAgy == INSTANCE Collectors WITH
  Provider <- "agy", Rows <- StepRows, Names <- {"n1"}, Inodes <- {"i1", "i2"},
  MaxTokens <- 3, MaxRows <- 2, MaxScans <- 2, MaxChanges <- 1, Regrows <- FALSE
Hooks == INSTANCE HookConfig WITH
  Procs <- {"p1", "p2"}, Events <- {"e1"}, Others <- {"e2"}, Exes <- {"x1", "x2"},
  Users <- {"u1"}, MaxRuns <- 3, MaxEdits <- 1, proc <- config_proc,
  runs <- config_runs, edits <- config_edits
PiFiles == INSTANCE ManagedFiles WITH
  Kind <- "pi", Procs <- {"p1", "p2"}, Exes <- {"x1", "x2"}, Races <- FALSE,
  MaxRuns <- 2, MaxEdits <- 1, proc <- managed_proc, runs <- managed_runs,
  edits <- managed_edits
AgyFiles == INSTANCE ManagedFiles WITH
  Kind <- "agy", Procs <- {"p1", "p2"}, Exes <- {"x1"}, Races <- FALSE, MaxRuns <- 2,
  MaxEdits <- 1, proc <- managed_proc, runs <- managed_runs, edits <- managed_edits

ASSUME Claude!BoundsAssumption /\ Claude!NoneAssumption /\ Claude!LabelsAssumption /\ Claude!ProviderAssumption
ASSUME Codex!BoundsAssumption /\ Codex!NoneAssumption /\ Codex!LabelsAssumption /\ Codex!ProviderAssumption
ASSUME Qwen!BoundsAssumption /\ Qwen!NoneAssumption /\ Qwen!LabelsAssumption /\ Qwen!ProviderAssumption
ASSUME Agy!BoundsAssumption /\ Agy!NoneAssumption /\ Agy!LabelsAssumption /\ Agy!ProviderAssumption
ASSUME Pi!BoundsAssumption /\ Pi!NoneAssumption /\ Pi!LabelsAssumption /\ Pi!ProviderAssumption
ASSUME View!BoundsAssumption /\ View!NoneAssumption /\ View!ProjectionAssumption
ASSUME CollectClaude!CollectorsAssumption
ASSUME CollectCodex!CollectorsAssumption
ASSUME CollectQwen!CollectorsAssumption
ASSUME CollectAgy!CollectorsAssumption
ASSUME Hooks!HandlersAssumption
ASSUME PiFiles!KindAssumption
ASSUME AgyFiles!KindAssumption

InitOfAll ==
  /\ part \in Parts
  /\ \/ part = "claude" /\ Claude!Init
     \/ part = "codex" /\ Codex!Init
     \/ part = "qwen" /\ Qwen!Init
     \/ part = "agy" /\ Agy!Init
     \/ part = "pi" /\ Pi!Init
     \/ part \notin {"claude", "codex", "qwen", "agy", "pi"} /\ Claude!Init
  /\ View!Init
  /\ \/ part = "collect_claude" /\ CollectClaude!Init
     \/ part = "collect_codex" /\ CollectCodex!Init
     \/ part = "collect_qwen" /\ CollectQwen!Init
     \/ part = "collect_agy" /\ CollectAgy!Init
     \/ part \notin {"collect_claude", "collect_codex", "collect_qwen", "collect_agy"} /\ CollectClaude!Init
  /\ \/ part = "hook_config" /\ Hooks!Init
     \/ part \notin {"hook_config"} /\ file = [state |-> "absent", hooks |-> Hooks!NoHooks, pretty |-> FALSE] /\ Hooks!Init
  /\ \/ part = "pi_files" /\ PiFiles!Init
     \/ part = "agy_files" /\ AgyFiles!Init
     \/ part \notin {"pi_files", "agy_files"} /\ hooks = None /\ PiFiles!Init

NextOfPart ==
  \/ part = "claude" /\ Claude!Next /\ UNCHANGED <<part, projection_vars,
       collectors_vars, config_vars, managed_vars>>
  \/ part = "codex" /\ Codex!Next /\ UNCHANGED <<part, projection_vars,
       collectors_vars, config_vars, managed_vars>>
  \/ part = "qwen" /\ Qwen!Next /\ UNCHANGED <<part, projection_vars, collectors_vars,
       config_vars, managed_vars>>
  \/ part = "agy" /\ Agy!Next /\ UNCHANGED <<part, projection_vars, collectors_vars,
       config_vars, managed_vars>>
  \/ part = "pi" /\ Pi!Next /\ UNCHANGED <<part, projection_vars, collectors_vars,
       config_vars, managed_vars>>
  \/ part = "projection" /\ View!Next /\ UNCHANGED <<part, turns_vars,
       collectors_vars, config_vars, managed_vars>>
  \/ part = "collect_claude" /\ CollectClaude!Next /\ UNCHANGED <<part, turns_vars,
       projection_vars, config_vars, managed_vars>>
  \/ part = "collect_codex" /\ CollectCodex!Next /\ UNCHANGED <<part, turns_vars,
       projection_vars, config_vars, managed_vars>>
  \/ part = "collect_qwen" /\ CollectQwen!Next /\ UNCHANGED <<part, turns_vars,
       projection_vars, config_vars, managed_vars>>
  \/ part = "collect_agy" /\ CollectAgy!Next /\ UNCHANGED <<part, turns_vars,
       projection_vars, config_vars, managed_vars>>
  \/ part = "hook_config" /\ Hooks!Next /\ UNCHANGED <<part, turns_vars,
       projection_vars, collectors_vars, managed_vars>>
  \/ part = "pi_files" /\ PiFiles!Next /\ UNCHANGED <<part, turns_vars,
       projection_vars, collectors_vars, config_vars>>
  \/ part = "agy_files" /\ AgyFiles!Next /\ UNCHANGED <<part, turns_vars,
       projection_vars, collectors_vars, config_vars>>

all_vars == <<part, turns_vars, projection_vars, collectors_vars, config_vars, managed_vars>>

SpecOfParts == InitOfAll /\ [][NextOfPart]_all_vars

-----------------------------------------------------------------------------

(* An observer that keeps what updates name has the view of a new baseline,   *)
(* steps it cannot see are no updates, the hub takes every view, and a hidden *)
(* reason does not come back (domain.rs project_public, store.rs).            *)
ViewsAreComplete ==
  /\ [](part = "projection" => View!TypeOK /\ View!ChangedIsEnough /\ View!HubTakesEveryView)
  /\ View!OnlyVisibleStepsUpdate /\ View!HiddenReasonStaysHidden

(* A collection publishes what the records say, "unchanged" only when it      *)
(* still holds, and nothing after it was cancelled (artifact.rs, adapters).   *)
CollectedIsExact ==
  /\ [](/\ part = "collect_claude" => CollectClaude!TypeOK /\ CollectClaude!PublishedIsExact
        /\ part = "collect_codex" => CollectCodex!PublishedIsExact
        /\ part = "collect_qwen" => CollectQwen!TypeOK /\ CollectQwen!PublishedIsExact
        /\ part = "collect_agy" => CollectAgy!PublishedIsExact)
  /\ [][/\ part = "collect_claude" => CollectClaude!UnchangedIsCurrent /\ CollectClaude!CancelledIsQuiet
        /\ part = "collect_codex" => CollectCodex!UnchangedIsCurrent /\ CollectCodex!CancelledIsQuiet
        /\ part = "collect_qwen" => CollectQwen!UnchangedIsCurrent /\ CollectQwen!CancelledIsQuiet
        /\ part = "collect_agy" => CollectAgy!UnchangedIsCurrent /\ CollectAgy!CancelledIsQuiet]_collectors_vars


(* A run alone installs everything its executable needs, doctor calls healthy *)
(* only that, and a file of the user's is left alone.                         *)
FilesAreManaged ==
  /\ [](part = "agy_files" => AgyFiles!TypeOK)
  /\ [][/\ part = "pi_files" => PiFiles!AloneInstalls /\ PiFiles!DoctorIsRight /\ PiFiles!ForeignFileKept
        /\ part = "agy_files" => AgyFiles!AloneInstalls /\ AgyFiles!DoctorIsRight]_managed_vars
=============================================================================
