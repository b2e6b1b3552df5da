\* One row, a second signal of its sender, two calls at a time and three in all, one fault.
SPECIFICATION FairSpec
CONSTANTS
  MaxOverlap = 2
  Signal = {s1, s2}
  Old = {s1}
  NoKey = NoKey
  Sender <- MCSender
  Resource <- MCResource
  Concurrency = 1
  MaxCall = 3
  MaxFault = 1
INVARIANTS EffectsAreMarked ApprovedIsHeld SerialInCall RetryFindsFailed NoTwins AcceptedIsCarried
PROPERTIES DecisionIsFinal CallReturns ImplementsApproval
CHECK_DEADLOCK FALSE
