CONSTANTS
  None = None
  s1 = s1
  s2 = s2
  t1 = t1
  t2 = t2
  bash = bash
  c1 = c1
  tail = tail
  SessionIds = {s1, s2}
  TurnIds = {t1, t2}
  ToolLabels = {bash}
  CorrelationIds = {c1}
  AgentIds = {1, 2, 3}
  Sources = {tail}
  CHILD_AGENTS_MAX = 2
  SOURCE_ORDER_CURSOR_MAX = 2
  STALE_WORKING = 1
  Invocations = {i1, i2}
  EventIds = {1, 2, 3, 4}
  HookEvents <- AllEvents
  ArtifactEvents <- Figures
  MaxClock = 1
  MaxCrashes = 2
  Themes = {"turns", "tools", "children", "lifecycle"}
SPECIFICATION ThemeSpec
SYMMETRY Permute
INVARIANTS
  RowsAgree
  NoZombie
PROPERTIES
  HistoryStands
CHECK_DEADLOCK FALSE
