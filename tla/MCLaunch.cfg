CONSTANTS
  None = None
  Parts = {"endpoint", "launch", "launch_live", "job", "config", "edits", "aliases", "channel", "usage", "usage_one", "usage_live"}
  Servers = {p1, p2, p3}
  Nukers = {n1}
  MaxInodes = 4
  Patient = TRUE
SPECIFICATION FairSpecOfParts
INVARIANT LaunchIsFaithful
INVARIANT JobIsOne
 
INVARIANT ChannelIsWhole
INVARIANT UsageIsItsSessions
PROPERTY ServiceIsExclusive
 
CHECK_DEADLOCK FALSE
