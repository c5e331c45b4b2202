SPECIFICATION FairSpec
CONSTANTS
  Job = {j1}
  Proc = {p1}
  NoProc = NoProc
  Slots = 1
  MaxAttempts = 1
  RowCounts = {1}
  Faults = {"lostwrite"}
PROPERTIES PendingEnds
CHECK_DEADLOCK TRUE
