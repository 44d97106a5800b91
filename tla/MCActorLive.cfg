CONSTANTS
  pack = pack
  single = single
  c1 = c1
  c2 = c2
  c3 = c3
  Torrents <- MCTorrents
  Files = {1, 2}
  Inodes <- MCInodes
  Content <- MCCrossSeeded
  Imports <- MCImports
  InodeOf <- MCInodeOf
  Actable = {1}
  MaxAttempts = 2
  RunInputs <- MCInputs
  MaxRuns = 1
  Faults = {"arr", "qbit", "stat", "peer", "user", "upgrade"}
SPECIFICATION FairSpec
INVARIANTS
  EndedRunsAreClosed
PROPERTIES
  RunsEnd
