CONSTANTS
  pack = pack
  single = single
  c1 = c1
  c2 = c2
  c3 = c3
  Torrents <- MCTorrents
  Files = {1, 2}
  Inodes <- MCInodes
  Content <- MCContent
  Imports <- MCImports
  InodeOf <- MCInodeOf
  Actable = {1, 2}
  MaxAttempts = 2
  RunInputs <- MCPlans
  MaxRuns = 2
  Faults = {"store", "arr", "qbit", "crash"}
SPECIFICATION Spec
INVARIANTS
  DeletionsAreTraced
  ReapedOnce
  SucceededIsGone
  AuditTellsFilesApart
PROPERTIES
  QbitDeleteIsLast
