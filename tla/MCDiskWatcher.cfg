CONSTANTS
  Total = 4
  Threshold = 2
  Target = 3
  Grace = 3
  Reminder = 4
  SampleMax = 1
  RunMax = 1
  MaxOthers = 1
  MaxFreed = 2
  Libraries <- MCLibraries
  Faults = {"candidate", "store", "reload"}
SPECIFICATION FairSpec
PROPERTIES
  DeletesBelowTarget
  AlertsAreSpaced
  PressureIsAnswered
