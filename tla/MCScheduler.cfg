\* A cron, a delayed task and two tasks chained to it; both pollers, one edit, one fault.
SPECIFICATION Spec
CONSTANTS
  a = a
  b = b
  d = d
  Cron = {a}
  Delayed = {d}
  Chained = {c1, c2}
  Parent <- ParentIsD
  Period <- ThreeTicks
  Essential = {a}
  Api = api
  Mcp = {mcp}
  Nothing = Nothing
  Never = Never
  Hour = 3
  SlowDb = TRUE
  MaxDelay = 0
  MaxPoll = 1
  MaxEdit = 1
  MaxFault = 1
INVARIANTS OneFirePerSlot NoStrandedChain
PROPERTIES DueIsNotOvertaken
