SPECIFICATION WalkSpec
CONSTANTS
  home = home
  Storage = {home}
  Product = {p1}
  Batch = {b1, b2}
  Location = {l1, l2}
  Container = {c1}
  StorageOf <- Homes
  None = None
  MaxQty = 2
  MaxRows = 1
PROPERTIES ShelfAsOnTheSheet
CHECK_DEADLOCK FALSE
