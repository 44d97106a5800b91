CONSTANTS
  watcher = watcher
  http = http
  cli = cli
  daemonP = daemonP
  cliP = cliP
  NoProc = NoProc
  Threads <- MCThreads
  Procs <- MCProcs
  ProcOf <- MCProcOf
  Daemon = daemonP
  MaxRuns = 3
SPECIFICATION FairSpec
INVARIANTS
  MutualExclusion
  RegistryIsHolder
PROPERTIES
  ImplementsRunSlot
  SlotIsGivenBack
