CONSTANTS
  None = None
  s1 = s1
  s2 = s2
  t1 = t1
  t2 = t2
  bash = bash
  c1 = c1
  tail = tail
  SessionIds = {s1, s2}
  TurnIds = {t1, t2}
  ToolLabels = {bash}
  CorrelationIds = {c1}
  AgentIds = {1, 2, 3}
  Sources = {tail}
  CHILD_AGENTS_MAX = 2
  SOURCE_ORDER_CURSOR_MAX = 2
  STALE_WORKING = 2
  Invocations = {i1}
  EventIds = {1, 2}
  HookEvents <- LifecycleEvents
  ArtifactEvents <- Figures
  MaxClock = 4
  MaxCrashes = 1
  Themes = {"silence"}
SPECIFICATION FairThemeSpec
PROPERTIES
  SilentWorkExpires
CHECK_DEADLOCK FALSE
