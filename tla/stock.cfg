SPECIFICATION Spec
CONSTANTS
  s1 = s1  s2 = s2  p1 = p1  p2 = p2  l1 = l1  l2 = l2  l3 = l3
  Storage = {s1, s2}
  Product = {p1, p2}
  Batch = {b1, b2, b3}
  Location = {l1, l2, l3}
  Container = {c1}
  StorageOf <- Homes
  None = None
  MaxQty = 2
  MaxRows = 2
SYMMETRY Symmetry
INVARIANTS TypeOK LedgerExplainsStock MovesBalance StockIsSomewhere OneStorage 
CHECK_DEADLOCK FALSE
