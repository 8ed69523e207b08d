SPECIFICATION BurstSpec
CONSTANTS
  north = north
  west = west
  lid = lid
  cup = cup
  p1 = p1
  p2 = p2
  NULL = NULL
  Absent = Absent
  Suppliers <- MCSuppliers
  SKUs <- MCSKUs
  Prices <- MCPrices
  OpLists <- MCAdds
  MaxQuantity = 3
PROPERTIES
  SteppedLineIsPriced
