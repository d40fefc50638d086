CONSTANTS
  None = None
  Agents = {a1, a2}
  MAX_OUTBOX_RECORDS_PER_SINK = 2
  BATCH = 2
  MAX_REJECTED_ATTEMPTS = 2
  Oversized = {}
  Unacceptable = {2}
  MaxRevision = 3
  MaxFailures = 2
SPECIFICATION Spec
INVARIANTS
  NewestChangeIsPending
  ForgottenStaysAway
PROPERTIES
  HubNeverRegresses
  PublishedOnce
  BaselineIsExact
CHECK_DEADLOCK FALSE
