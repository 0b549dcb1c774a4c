SPECIFICATION Spec
CONSTANTS
  ci = ci
  lab = lab
  ops = ops
  None = None
  Cleanup = cleanup
  Housekeeping = housekeeping
  Pools = {ci, lab}
  StartupPools = {ci, lab}
  Copies = 2
  TickFloor = 1
  Edited = {ci}
  Edits = {}
  PruneEvery = 2
  Hangs = {}
  HangsIn = {}
  MainHangs = FALSE
  TickCeiling = 64
  TickWorkers = None
  DatabaseFails = TRUE
INVARIANT StopsOnlyWhenAsked
