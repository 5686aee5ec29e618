SPECIFICATION FairSpec
CONSTANTS
  e1 = e1
  e2 = e2
  e3 = e3
  Episodes <- MCEpisodes
  Ids <- MCIds
  IdOf <- MCIdOf
  Size <- MCSize
  ShardSize <- MCShardSize
  Flags <- MCDaemonOrDryRun
  MaxShard = 2
  MaxCrashes = 1
INVARIANTS
  NoEpisodeLost
  JournalHonest
PROPERTIES
  RecordedShardsFrozen
  ShippingSpec
  EventuallyShipped
