SPECIFICATION LiveSpec
CONSTANTS
  ci = ci
  lab = lab
  s1 = s1
  s2 = s2
  s3 = s3
  s4 = s4
  None = None
  Pools = {ci, lab}
  Personal <- MCPersonal
  Slots = {s1, s2, s3, s4}
  Caps = {2, 3}
  MaxRunners <- MCMaxRunners
  MinIdle <- MCMinIdle
  Workers <- MCWorkers
  Demands = {0, 1, 2, 4}
  OwnContainer = 0
  Faults = {}
INVARIANTS ReservedExact CapNeverExceeded
PROPERTIES GrowthWithinCap BudgetSpec TicksEnd GrantsReturn
