SPECIFICATION LiveSpec
CONSTANTS
  ci = ci
  lab = lab
  c1 = c1
  c2 = c2
  both = both
  None = None
  Pools = {ci, lab}
  Containers = {c1, c2}
  Jobs = {both}
  Lists <- MCLists
  Scans <- MCScans
  MaxListings <- MCMaxListings
  Faults = {"error", "reconnect", "partial", "removal"}
INVARIANTS TypeOK OneListing EndLoggedOnce ClosedWhenDone
PROPERTIES EndedKept NotRunningForever
