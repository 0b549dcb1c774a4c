SPECIFICATION LiveSpec
CONSTANTS
  api = api
  web = web
  Pools = {web}
  Containers = {c1}
  Prefix <- MCPrefix
  Lists <- MCLists
  StuckTimeout = 2
  MaxLifetime = 2
  MaxAge = 3
  Readable = {0, 2}
  Faults = {"ps", "top", "rm", "listing", "flicker", "store"}
INVARIANTS StuckSparesJobs StuckSparesOnline DeregistersDead AgedSparesProtected StopAsksFirst
PROPERTY NoLeak
CHECK_DEADLOCK FALSE
