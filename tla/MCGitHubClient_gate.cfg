SPECIFICATION LiveSpec
CONSTANTS
  c1 = c1
  c2 = c2
  c3 = c3
  None = None
  Callers = {c1, c2, c3}
  Tokens = {pat}
  MaxRequests = 2
  MutationDelay = 1
  SecondaryBase = 1
  SecondaryMax = 2
  Waits = {0, 2}
  MaxFailures = 3
INVARIANTS TypeOK StraysBounded
PROPERTIES CooldownKept MutationsSpaced CallsReturn
