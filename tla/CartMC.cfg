SPECIFICATION Spec
CONSTANTS
  north = north
  west = west
  lid = lid
  cup = cup
  p1 = p1
  p2 = p2
  NULL = NULL
  Absent = Absent
  Suppliers <- MCSuppliers
  SKUs <- MCSKUs
  Prices <- MCPrices
  OpLists <- MCOpLists
  MaxQuantity = 3
INVARIANTS
  TypeOK
  Addressable
  NoEmptyGroup
PROPERTIES
  ClickIsLocal
  KeepsPromise
