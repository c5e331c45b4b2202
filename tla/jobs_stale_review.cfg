SPECIFICATION Spec
CONSTANTS
  Job = {j1}
  Proc = {p1}
  NoProc = NoProc
  Slots = 1
  MaxAttempts = 2
  RowCounts = {1}
  Faults = {}
PROPERTIES ConfirmedAsReviewed
CHECK_DEADLOCK TRUE
