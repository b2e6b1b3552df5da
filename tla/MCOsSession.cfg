\* Two messages, two retries each, two handovers.
SPECIFICATION FairSpec
CONSTANTS
  MaxMsg = 2
  MaxRetry = 2
  MaxHandover = 2
INVARIANTS TurnsInOrder ActiveIsAlive RunningIsReachable
PROPERTIES EverySendSettles HandoverIsReset
CHECK_DEADLOCK FALSE
