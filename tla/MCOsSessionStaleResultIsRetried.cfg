\* What the comment on a stale resume id says; the swallowed sentinel breaks it.
SPECIFICATION Spec
CONSTANTS
  MaxMsg = 3
  MaxRetry = 1
  MaxHandover = 0
PROPERTY StaleResultIsRetried
CHECK_DEADLOCK FALSE
