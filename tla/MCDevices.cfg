CONSTANTS
  None = None
  Parts = {"limiter", "control", "control_live", "relay", "relay_live", "remote", "pairing", "pairing_lock", "discovery"}
  Addresses = {"a1", "a2", "a3"}
  BURST = 2
  COST = 2
  PAIR_RATE_MAX_ENTRIES = 2
  MaxTime = 6
SPECIFICATION FairSpecOfParts
INVARIANT RemoteIsScoped
INVARIANT AnnouncedIsTrue
PROPERTY EvictionIsInvisible
PROPERTY ChannelKeepsItsStreams
 
PROPERTY PairingIsSound
 
CHECK_DEADLOCK FALSE
