SPECIFICATION LiveSpec
CONSTANTS
  a = a
  b = b
  Hosts = {a, b}
  Rank <- MCRank
  Jobs = {j1}
  Free <- MCFree
  MaxRunners <- MCMax
  MaxTotal <- MCMaxTotal
  Temps = {None, 1}
  MaxTemp <- MCMaxTemp
  Steady = {b}
  None = None
INVARIANTS TypeOK SharesExact
PROPERTY JobsServed
