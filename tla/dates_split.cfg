SPECIFICATION CatalogueSpec
CONSTANTS
  l1 = l1
  l2 = l2
  l3 = l3
  n1 = n1
  g1 = g1
  g2 = g2
  Place = {l1, l2, l3}
  CatNode = {n1}
  Home <- MCHome
  Editor = {e1, e2}
  MaxTreeDepth = 2
  Top = Top
  NoNode = NoNode
  Product = {p1, p2}
  Category = {k1, k2}
  Batch = {b1, b2}
  Changer = {c1, c2}
  Entry = Entry
  Shelf = {1}
  StatedDate = {Nothing}
  MaxDay = 1
  MaxChanges = 2
  MaxLots = 1
  Nothing = Nothing
  ByRules = ByRules
INVARIANT HalvesAgeTogether
CONSTRAINT Shallow
SYMMETRY Symmetric
