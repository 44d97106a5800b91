CONSTANTS
  Active = {"decider", "snapshots", "scoring", "policies", "exclusions"}
  Hashes <- MCHashes
  Scores = {3, 5}
  Sizes <- MCSizes
  OnVolume = {1, 2}
  Nlinks = {2, 3}
  Samples <- MCSamples
  Target = 20
  MaxWrites = 1
  Sampled = {"steady", "new"}
  Values <- MCValues
  Leaving = {"new"}
  DayLength = 4
  CronAt = 2
  DownsampleAge = 4
  RawRetention = 7
  DailyRetention = 6
  TorrentRetention = 4
  SeedersWindow = 5
  VelWindow = 6
  LastInstant = 12
  Urls = {"a", "b"}
  Pseudo = {"dht"}
  Host <- MCHost
  Births = {1, 3}
  Grace = 2
  HnRWindow = 2
  Weights <- MCWeights
  Stats <- MCStats
  PolicySets <- MCPolicies
  Start = 3
  LastDay = 6
  TrackerHosts = {"A", "B"}
  Lists <- MCLists
  Defaults <- MCDefaults
  FirstDefaults <- MCFirstDefaults
  Overrides <- MCOverrides
  MaxSaves = 3
  Torrents = {"h1", "h2"}
  Types <- MCTypes
  Ids = {1}
  Tags = {"keep"}
  TagsExclude <- MCExclude
  TorrentTags <- MCTorrentTags
  QbitExclude = {"private"}
  Fold <- MCFold
  MaxEdits = 2
SPECIFICATION MCSpec
INVARIANTS
  PlanIsShortestPrefix
  PlannedWereCandidates
  StatsAgree
  BonusIsServedAsAnnounced
  StrictestPolicyWins
  VetoIsAbsolute
  TagsReachVerdicts
CHECK_DEADLOCK FALSE
