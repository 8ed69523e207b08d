SPECIFICATION Spec
CONSTANTS
  small = small
  large = large
  lid = lid
  gxsmall = gxsmall
  gxlid = gxlid
  napkin = napkin
  acme = acme
  globex = globex
  NULL = NULL
  Absent = Absent
  SKUs <- LidSKUs
  CatalogOrder <- LidCatalogOrder
  Suppliers <- LidSuppliers
  SupplierOf <- LidSupplierOf
  Names <- LidNames
  NameOf <- LidNameOf
  CasePack <- LidCasePack
  MinOrder <- LidMinOrder
  Companions <- LidCompanions
  OnHand <- LidOnHand
  Amounts <- LidAmounts
  Scores <- LidScores
  InStock <- LidInStock
  Selections <- LidSelections
  ParsedOrders <- LidOps
  StartCarts <- LidStarts
  MaxTurns = 1
  MaxTickets = 0
  MaxCases = 3
INVARIANTS
  AcceptedMeansCovered
  OfferedMeansOpen
PROPERTIES
  LandsOrderable
