\* Two handlers and the sweep interval, two rows, one edit each, one fault.
SPECIFICATION FairSpec
CONSTANTS
  Caller = {h1, h2, sweep}
  Sweeper = sweep
  None = None
  MaxRow = 2
  MaxEdit = 1
  MaxFault = 1
  MaxBundle = 2
INVARIANTS HandedAsEdited DeliveredIsAccountedFor
PROPERTIES AgedLeaves ImplementsInbox
