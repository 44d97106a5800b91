CONSTANTS
  Requests = {"r", "s"}
  CacheTTL = 2
  SessionTTL = 2
  TouchInterval = 1
  Timeout = 1
  MaxUsers = 2
  MaxTokens = 1
  MaxNow = 3
  Clients = {"x", "y"}
  MaxRequests = 2
  Tables <- MCTables
  YamlFiles <- MCFiles
  Bodies <- MCBodies
  MaxEdits = 1
  Faults = {"store", "build", "leave", "restart"}
  ArrKinds = {"sonarr"}
  TorrentKinds = {"qbittorrent", "transmission"}
  Implemented = {"qbittorrent"}
  Yaml <- MCYaml
  Inputs <- MCInputs
  Lists <- MCLists
  Providers <- MCProviders
  Routing <- MCRouting
  Files = {1, 2}
  PageSize = 1
  MaxHistory = 4
  Callers = {"a", "b"}
  MaxAttempts = 3
  MaxExpiries = 2
  Calls = {"x", "y"}
  Names = {"n", "m"}
  Chosen = {"p"}
  Generated = {"g1", "g2"}
  IPs = {"a", "b", "c"}
  Caps <- MCCaps
  Default = 2
  MaxIPs = 2
  MaxCalls = 5
  Processes = {"old", "new", "cli"}
  Embedded <- MCEmbedded
  MaxStarts = 2
SPECIFICATION DaemonSpec
INVARIANTS
  CacheIsCoherent
  SessionsFollowUse
  LoneWritesLoad
  StoredConnectionsPass
  AnnouncementsAlternate
  NoImportIsSkipped
  OneRefusalPerLoss
  PasswordsAreShown
  LimitIsPerAddress
  MigrationsAreWhole
PROPERTIES
  RepliesTellTheTruth
  BlankKeepsSecret
CHECK_DEADLOCK FALSE
