CONSTANTS
  Hashes = {"h1"}
  MaxChanges = 2
SPECIFICATION FairSpec
PROPERTIES
  NewDataIsScored
  NewTorrentsCatchUp
  TicksSettleVerdicts
