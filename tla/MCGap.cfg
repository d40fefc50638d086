CONSTANTS
  None = None
  Agents = {a1, a2}
  MAX_OUTBOX_RECORDS_PER_SINK = 4
  BATCH = 2
  MAX_REJECTED_ATTEMPTS = 2
  Oversized = {}
  Unacceptable = {}
  MaxRevision = 4
  MaxFailures = 1
SPECIFICATION Spec
INVARIANTS
  EveryChangeIsPending
CHECK_DEADLOCK FALSE
