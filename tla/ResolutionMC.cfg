SPECIFICATION Spec
CONSTANTS
  deli = deli
  lid = lid
  cup = cup
  napkin = napkin
  acme = acme
  northwind = northwind
  NULL = NULL
  Absent = Absent
  SKUs <- MCSKUs
  CatalogOrder <- MCCatalogOrder
  Suppliers <- MCSuppliers
  SupplierOf <- MCSupplierOf
  Names <- MCNames
  NameOf <- MCNameOf
  CasePack <- MCOnes
  MinOrder <- MCOnes
  Companions <- MCCompanions
  Scores <- MCScores
  Evidence <- MCEvidence
  Remembered <- MCRemembered
  MaxCandidates = 4
INVARIANTS
  TypeOK
  OnlyKnownOutcomes
  SettledOnWinner
  OrderDoesNotMatter
  OffersBestFirst
