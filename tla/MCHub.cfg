CONSTANTS
  None = None
  Parts = {"http", "hub_listen", "hub_serial", "daemon_listen", "routing", "sinks", "sinks_local", "ingestion", "hub_start"}
  Requests <- RequestsSeen
  max_header_bytes = 8
  max_body_bytes = 3
  Chunk = 3
  DRAIN_LIMIT = 6
SPECIFICATION FairSpecOfParts
INVARIANT ReaderIsExact
 
INVARIANT SinksKeepAll
PROPERTY ListenersSeeAll
PROPERTY IngestionIsGuarded
 
CHECK_DEADLOCK FALSE
