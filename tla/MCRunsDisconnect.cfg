CONSTANTS
  h1 = h1
  watcher = watcher
  cli = cli
  NoThread = NoThread
  Threads <- Pressure
  Trigger <- TriggerPressure
  Torrents = {1, 2}
  Engines <- LiveEngine
  MaxRuns = 2
  Faults = {"disconnect"}
SPECIFICATION Spec
INVARIANTS
  ShownRunsAreDriven
CHECK_DEADLOCK FALSE
