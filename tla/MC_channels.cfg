SPECIFICATION FairSpec
CONSTANTS
  Channels <- TwoChannels
  QueueSize = 2
  MaxPushes = 2
  MaxLoads = 1
INVARIANTS FlushedWhenIdle ActiveCounted
PROPERTIES BootEnds ShutdownEnds
CHECK_DEADLOCK FALSE
