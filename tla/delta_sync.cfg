SPECIFICATION FairSpec
CONSTANTS
  Entity = {e1}
  Tx = {t1, t2}
  None = None
  Retention = 1
  MaxTime = 3
  MaxVersion = 2
  Kind = "product"
INVARIANTS TypeOK NothingMissed
PROPERTIES Converges
CHECK_DEADLOCK TRUE
