SPECIFICATION Spec
CONSTANTS
  a = a
  b = b
  Hosts = {a, b}
  Rank <- MCRank
  Jobs = {j1}
  Free <- MCFree
  MaxRunners <- MCMax
  MaxTotal <- MCMaxTotal
  Temps = {None, 1}
  MaxTemp <- MCMaxTemp
  Steady = {b}
  None = None
INVARIANT SameSplitEverywhere
