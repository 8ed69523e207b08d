------------------------------ MODULE Coverage ------------------------------
(***************************************************************************)
(* The companions a cart still needs (_companion_coverage and              *)
(* _undercovered_companions of src/src/app/graph/nodes.py).  A cart is the *)
(* map of CartMap with SKUs for keys: a SKU has one supplier, so its line  *)
(* is the only one of any group that holds it.                             *)
(*                                                                         *)
(* The code makes one pass over the lines, adding to a dict per companion; *)
(* here each companion has a sum of its own over the catalog, which skips  *)
(* what is not in the cart.                                                *)
(***************************************************************************)
EXTENDS Rules, CartMap

InCart(cart) == {sku \in SKUs : cart[sku] # Absent}

\* The cases of a SKU in the cart; a line without a quantity counts as none.
CasesOf(cart, sku) == IF cart[sku] = Absent THEN 0 ELSE OrZero(cart[sku])

\* The lines that pair with a companion.
Parents(cart, companion) == {sku \in InCart(cart) : companion \in Companions[sku]}

\* Pass number n of the sum over the catalog.
UnitsPass(cart, companion) ==
  [n \in Nat |-> [units \in Int |->
     IF n \in DOMAIN CatalogOrder /\ CatalogOrder[n] \in Parents(cart, companion)
     THEN units + CasesOf(cart, CatalogOrder[n]) * CasePack[CatalogOrder[n]]
     ELSE units]]

\* Units of all the lines that pair with a companion.
ParentUnits(cart, companion) == Iterate(0, UnitsPass(cart, companion))[Len(CatalogOrder)]

\* The cases of a companion that cover them.
NeededCases(cart, companion) ==
  companion_case_count(ParentUnits(cart, companion), CasePack[companion])

\* Companions of the cart's lines of which it has too few cases: the offers
\* that are still open.
_undercovered_companions(cart) ==
  {companion \in SKUs : /\ Parents(cart, companion) # {}
                        /\ NeededCases(cart, companion) > CasesOf(cart, companion)}
=============================================================================
