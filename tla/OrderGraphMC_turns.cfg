SPECIFICATION Spec
VIEW MCView
CONSTANTS
  deli = deli
  lid = lid
  napkin = napkin
  acme = acme
  northwind = northwind
  NULL = NULL
  Absent = Absent
  SKUs <- MCSKUs
  CatalogOrder <- MCCatalogOrder
  Suppliers <- MCSuppliers
  SupplierOf <- MCSupplierOf
  Names <- MCNames
  NameOf <- MCNameOf
  CasePack <- MCCasePack
  MinOrder <- MCMinOrder
  Companions <- MCCompanions
  OnHand <- MCOnHand
  Amounts <- MCAmounts
  Scores <- MCScores
  InStock <- MCInStock
  Selections <- MCSelections
  ParsedOrders <- MCOneOp
  StartCarts <- MCEmptyStart
  MaxTurns = 2
  MaxTickets = 1
  MaxCases = 3
INVARIANTS
  TypeOK
  CartsAreCounted
  NothingDropped
  OneOrderPerTurn
PROPERTIES
  OrdersOnlyWhenClean
  ReplyTellsThisTurn
  ImplementsDesk
