CONSTANTS
  None = None
  Agents = {a1, a2}
  MAX_OUTBOX_RECORDS_PER_SINK = 2
  BATCH = 1
  MAX_REJECTED_ATTEMPTS = 2
  Oversized = {}
  Unacceptable = {2}
  MaxRevision = 2
  MaxFailures = 2
SPECIFICATION FairSpec
PROPERTIES
  OutboxDrains
CHECK_DEADLOCK FALSE
