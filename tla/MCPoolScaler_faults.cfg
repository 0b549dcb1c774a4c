SPECIFICATION Spec
CONSTANTS
  ci = ci
  lab = lab
  s1 = s1
  s2 = s2
  s3 = s3
  s4 = s4
  None = None
  Pools = {ci, lab}
  Personal <- MCPersonal
  Slots = {s1, s2, s3, s4}
  Caps = {0, 2}
  MaxRunners <- MCMaxRunners
  MinIdle <- MCMinIdle
  Workers <- MCWorkers
  Demands = {0, 1, 4}
  OwnContainer = 0
  Faults = {"manual", "ps", "submit"}
SYMMETRY SlotSymmetry
INVARIANTS TypeOK NoStrandedHeadroom
