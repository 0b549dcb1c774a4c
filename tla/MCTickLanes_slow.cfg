SPECIFICATION LiveSpec
CONSTANTS
  ci = ci
  lab = lab
  ops = ops
  None = None
  Cleanup = cleanup
  Housekeeping = housekeeping
  Pools = {ci, lab}
  StartupPools = {ci, lab}
  Copies = 2
  TickFloor = 1
  Edited = {ci}
  Edits = {}
  PruneEvery = 1
  Hangs = {lab}
  HangsIn = {"cap"}
  MainHangs = FALSE
  TickCeiling = 64
  TickWorkers = None
  DatabaseFails = FALSE
PROPERTY SlowDelaysOnlyItself
CHECK_DEADLOCK FALSE
