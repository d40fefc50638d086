CONSTANTS
  None = None
  Parts = {"claude", "codex", "qwen", "agy", "pi", "projection", "collect_claude", "collect_codex", "collect_qwen", "collect_agy", "hook_config", "pi_files", "agy_files"}
SPECIFICATION SpecOfParts
 
PROPERTY ViewsAreComplete
PROPERTY CollectedIsExact
 
PROPERTY FilesAreManaged
CHECK_DEADLOCK FALSE
