SPECIFICATION Spec
CONSTANTS
  api = api
  web = web
  Pools = {api, web}
  Containers = {c1}
  Prefix <- MCPrefix
  Lists <- MCLists
  StuckTimeout = 1
  MaxLifetime = 2
  MaxAge = 2
  Readable = {0, 1, 2}
  Faults = {}
PROPERTY SuspectsNeverOnline
CHECK_DEADLOCK FALSE
