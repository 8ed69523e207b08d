SPECIFICATION Spec
VIEW MCView
CONSTANTS
  deli = deli
  lid = lid
  napkin = napkin
  acme = acme
  northwind = northwind
  NULL = NULL
  Absent = Absent
  SKUs <- MCSKUs
  CatalogOrder <- MCCatalogOrder
  Suppliers <- MCSuppliers
  SupplierOf <- MCSupplierOf
  Names <- MCNames
  NameOf <- MCNameOf
  CasePack <- MCCasePack
  MinOrder <- MCMinOrder
  Companions <- MCCompanions
  OnHand <- MCOnHand
  Amounts <- MCAmounts
  Scores <- MCHighScore
  InStock <- MCInStock
  Selections <- MCAllSuppliers
  ParsedOrders <- MCFewOps
  StartCarts <- MCBusyStarts
  MaxTurns = 1
  MaxTickets = 0
  MaxCases = 3
PROPERTIES
  NoOverOrderLands
