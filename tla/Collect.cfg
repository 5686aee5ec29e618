SPECIFICATION FairSpec
CONSTANTS
  QueueSize = 2
  MaxAge = 1
  MaxFrames = 2
  Setups <- MCSetups
INVARIANTS EpisodeWhole NewestFrameKept
PROPERTIES AnnouncedIsFinal StopEndsWhenFed
CHECK_DEADLOCK FALSE
