CONSTANTS
  h1 = h1
  watcher = watcher
  cli = cli
  NoThread = NoThread
  Threads <- Pressure
  Trigger <- TriggerPressure
  Torrents = {1}
  Engines <- LiveEngine
  MaxRuns = 2
  Faults = {"store", "candidate", "poll", "reload", "crash"}
SPECIFICATION Spec
INVARIANTS
  LiveRunsTakeTurns
PROPERTIES
  StopsHitTheirRun
CHECK_DEADLOCK FALSE
