\* One session, two calls, one message or stop, one shutdown or crash, one failed statement.
CONSTANTS
  Session = {s1}
  MaxCall = 2
  MaxOrder = 1
  MaxDown = 1
  MaxFault = 1
SPECIFICATION FairSpec
INVARIANTS UndisturbedIsTracked ResultReachesReview PausedIsResumable
PROPERTY NoZombieRow
CHECK_DEADLOCK FALSE
