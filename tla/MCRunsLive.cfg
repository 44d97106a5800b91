CONSTANTS
  h1 = h1
  watcher = watcher
  cli = cli
  NoThread = NoThread
  Threads <- Processes
  Trigger <- TriggerProcesses
  Torrents = {1, 2}
  Engines <- BothModes
  MaxRuns = 2
  Faults = {"candidate", "build"}
SPECIFICATION FairSpec
PROPERTIES
  NoDeadTargets
  ShownRunsSettle
CHECK_DEADLOCK FALSE
