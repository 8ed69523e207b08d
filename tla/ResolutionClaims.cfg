SPECIFICATION Spec
CONSTANTS
  deli = deli
  gxdeli = gxdeli
  acme = acme
  globex = globex
  NULL = NULL
  Absent = Absent
  SKUs <- ClaimSKUs
  CatalogOrder <- ClaimCatalogOrder
  Suppliers <- ClaimSuppliers
  SupplierOf <- ClaimSupplierOf
  Names <- ClaimNames
  NameOf <- ClaimNameOf
  CasePack <- ClaimOnes
  MinOrder <- ClaimOnes
  Companions <- ClaimCompanions
  Scores <- ClaimScores
  Evidence <- ClaimEvidence
  Remembered <- ClaimRemembered
  MaxCandidates = 2
INVARIANTS
  SizeNamesOne
