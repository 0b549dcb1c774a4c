SPECIFICATION Spec
CONSTANTS
  ci = ci
  lab = lab
  Pools = {ci, lab}
  Yaml = {ci}
  Fields = {"max_runners"}
  Flags = {"paused"}
  Threads = {t1, t2}
  Keys = {k1}
  GlobalKeys = {"paused"}
  MaxSpawns = 2
  Faults = {}
  None = None
PROPERTY RemoveEnds
