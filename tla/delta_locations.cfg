SPECIFICATION Spec
CONSTANTS
  Entity = {e1}
  Tx = {t1, t2}
  None = None
  Retention = 1
  MaxTime = 3
  MaxVersion = 2
  Kind = "location"
INVARIANTS DeltaIsServed
SYMMETRY Symmetry
CHECK_DEADLOCK TRUE
