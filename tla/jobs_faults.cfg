SPECIFICATION Spec
CONSTANTS
  Job = {j1, j2}
  Proc = {p1, p2}
  NoProc = NoProc
  Slots = 1
  MaxAttempts = 2
  RowCounts = {1}
  Faults = {"crash", "deadline", "stall", "lostwrite"}
SYMMETRY Symmetry
INVARIANTS TypeOK LeaseMeansPending AppliedOnce
PROPERTIES SweepSparesOwnWork LateOutcomeIsDropped ImplementsLifecycle
CHECK_DEADLOCK TRUE
