\* Two crons and a delayed task; the poller of the API, one edit, two faults.
SPECIFICATION FairSpec
CONSTANTS
  a = a
  b = b
  d = d
  Cron = {a, b}
  Delayed = {d}
  Chained = {}
  Parent <- ParentIsD
  Period <- ThreeTicks
  Essential = {a}
  Api = api
  Mcp = {mcp}
  Nothing = Nothing
  Never = Never
  Hour = 3
  SlowDb = FALSE
  MaxDelay = 1
  MaxPoll = 0
  MaxEdit = 1
  MaxFault = 2
PROPERTIES DueCronFires DelayedSettles
