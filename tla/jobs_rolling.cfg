SPECIFICATION FairSpec
CONSTANTS
  Job = {j1, j2}
  Proc = {p1, p2}
  NoProc = NoProc
  Slots = 1
  MaxAttempts = 2
  RowCounts = {1}
  Faults = {"crash"}
INVARIANTS PendingIsWorkedOrOrphaned OutcomeOfCurrentRun
PROPERTIES SweepSparesLiveWork PendingEnds
CHECK_DEADLOCK TRUE
