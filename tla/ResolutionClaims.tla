-------------------------- MODULE ResolutionClaims --------------------------
(***************************************************************************)
(* What a comment of resolution.py says of sizes and the code does not do. *)
(* As in the repository's catalog, two suppliers sell the same product: it *)
(* has one name, one size and, from the retriever, one score.              *)
(***************************************************************************)
EXTENDS Resolution

CONSTANTS deli, gxdeli, acme, globex

ClaimSKUs == {deli, gxdeli}
ClaimCatalogOrder == <<deli, gxdeli>>
ClaimSuppliers == {acme, globex}
ClaimSupplierOf == [sku \in ClaimSKUs |-> IF sku = deli THEN acme ELSE globex]
ClaimNames == {"Deli"}
ClaimNameOf == [sku \in ClaimSKUs |-> "Deli"]
ClaimOnes == [sku \in ClaimSKUs |-> 1]
ClaimCompanions == [sku \in ClaimSKUs |-> {}]
ClaimScores == {60}
\* Of the phrase's size and family, and not named by it.
ClaimEvidence == {[named |-> FALSE, sized |-> TRUE, kin |-> TRUE]}
ClaimRemembered == {}

\* "When a size token in the phrase matches exactly one candidate's unit_size, it
\* resolves a same-family cluster" (resolution.py): a phrase that no name settles
\* and a size does has one candidate of that size and family.
SizeNamesOne ==
  /\ line # NULL /\ remembered = NULL /\ line.sku # NULL
  /\ NamedAt(candidates) = {} /\ SizedAt(candidates) # {}
  => Cardinality(SizedAt(candidates)) = 1
=============================================================================
