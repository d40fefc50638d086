CONSTANTS
  None = None
  Parts = {"stream", "stream_ends", "protocol", "terminal", "terminal_output", "terminal_input", "terminal_live", "keys", "pastes"}
SPECIFICATION FairSpecOfParts
INVARIANT ProtocolIsExact
 
 
PROPERTY WatchersAreTold
PROPERTY InputArrives
CHECK_DEADLOCK FALSE
