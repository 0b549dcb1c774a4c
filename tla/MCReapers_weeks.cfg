SPECIFICATION LiveSpec
CONSTANTS
  api = api
  web = web
  Pools = {web}
  Containers = {c1}
  Prefix <- MCPrefix
  Lists <- MCLists
  StuckTimeout = 1
  MaxLifetime = 2
  MaxAge = 2
  Readable = {0, 1}
  Faults = {}
PROPERTY OldIsKilled
CHECK_DEADLOCK FALSE
