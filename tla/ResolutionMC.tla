---------------------------- MODULE ResolutionMC ----------------------------
(***************************************************************************)
(* An instance of Resolution: four products of two suppliers, and scores   *)
(* on both sides of MIN_SCORE and of MARGIN.                               *)
(***************************************************************************)
EXTENDS Resolution

CONSTANTS deli, lid, cup, napkin, acme, northwind

MCSKUs == {deli, lid, cup, napkin}
MCCatalogOrder == <<deli, lid, cup, napkin>>
MCSuppliers == {acme, northwind}
MCSupplierOf == [sku \in MCSKUs |-> IF sku = napkin THEN northwind ELSE acme]
MCNames == MCSKUs
MCNameOf == [sku \in MCSKUs |-> sku]
MCOnes == [sku \in MCSKUs |-> 1]
MCCompanions == [sku \in MCSKUs |-> {}]
\* One below MIN_SCORE, and two that are exactly MARGIN apart.
MCScores == {49, 50, 65}
\* Nothing; a name in the phrase; size and family; a size only.
MCEvidence ==
  {[named |-> FALSE, sized |-> FALSE, kin |-> FALSE], [named |-> TRUE, sized |-> FALSE, kin |-> TRUE],
   [named |-> FALSE, sized |-> TRUE, kin |-> TRUE], [named |-> FALSE, sized |-> TRUE, kin |-> FALSE]}
MCRemembered == {napkin}
=============================================================================
