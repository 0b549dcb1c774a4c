SPECIFICATION LiveSpec
CONSTANTS
  ci = ci
  lab = lab
  ops = ops
  None = None
  Cleanup = cleanup
  Housekeeping = housekeeping
  Pools = {ci, lab, ops}
  StartupPools = {ci, lab, ops}
  Copies = 2
  TickFloor = 1
  Edited = {ops}
  Edits = {}
  PruneEvery = 1
  Hangs = {lab}
  HangsIn = {"call", "cap", "build", "store"}
  MainHangs = TRUE
  TickCeiling = 64
  TickWorkers = 2
  DatabaseFails = FALSE
PROPERTIES PoolsKeepTicking ChoresKeepRunning StopEnds
CHECK_DEADLOCK FALSE
