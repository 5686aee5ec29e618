SPECIFICATION Spec
CONSTANTS
  Programs = {"imagination"}
  Mixes <- MCMixes
  Places = {"here", "away"}
  BadPlace = "here"
  Seeds <- MCSeeds
  Context = 2
  Frames = 5
  GoalOffset = 1
  Cfg <- MCCfg
  MaxRollouts = 2
  Kinds = {"ppo", "bc", "world_model"}
  World = 2
  Rollouts = 4
  SeedCount = 3
  Samples = 3
  PerBatch = 1
  Turns = 3
  Smooth = 2
  LatestEvery = 2
  SnapshotEvery = 3
  Scores = {0, 1}
  MaxKills = 1
  TotalSteps = 8
  SaveEvery = 2
  KeepRecent = 1
  PermanentEvery = 4
  Modes = {"auto", "finetune", "continue"}
  SourceStep = 2
  LogEvery = 4
  VizEvery = 3
  ValEvery = 5
  ValFirst = TRUE
  EarlySteps = 1
  MaxDeaths = 2
  Callers = {"train", "validate", "repeat_last", "from_mmap", "ppo", "eval_mkv",
             "debug", "eval", "clone", "session", "rollout", "frames"}
  Archs = {"dit_v1", "fa_dit"}
  Length = 11
  Past = 2
  Offset = 2
  Anchor = 2
  Plan = 3
  UnrollSteps = 4
  UnrollMin = 1
  RampEpochs = 2
  Tbptt = 2
  FlowSteps = 2
  GifFrames = 10
  PolicyPast = 3
  SeedFrames <- MCSeedFrames
  HistoryLengths = {2, 3}
  ServedOffset = 2
  Sessions = {"train", "evaluate", "codec", "play"}
  Strides = {1, 2}
  PlayStrides = {2}
  ContextFrames = {2, 3, 4, 6}
  Timesteps = 8
  ExtraFrames = 4
  Registers = 1
  HistoryCap = 16
  CodecWindow = 3
  EpisodeFrames = 20
  Rewind = 5
  Weights = {"old", "new"}
  Replicas = {0, 1}
  Tabs = {"a", "b"}
  MaxSteps = 4
  MaxSeeds = 2
INVARIANT NoiseIsLabelled
CHECK_DEADLOCK FALSE
