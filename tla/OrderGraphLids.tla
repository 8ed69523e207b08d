--------------------------- MODULE OrderGraphLids ---------------------------
(***************************************************************************)
(* An instance of OrderGraph for several operations in one turn, with the  *)
(* pairings of the repository's catalog: one lid for two sizes of          *)
(* container, and another supplier's container with a lid of the same      *)
(* name, packed differently.  That container has a minimum order of two,   *)
(* and a third product of this supplier is out of stock.                   *)
(***************************************************************************)
EXTENDS OrderGraph

CONSTANTS small, large, lid, gxsmall, gxlid, napkin, acme, globex

LidSKUs == {small, large, lid, gxsmall, gxlid, napkin}
LidCatalogOrder == <<small, large, lid, gxsmall, gxlid, napkin>>
LidSuppliers == {acme, globex}
LidSupplierOf ==
  [sku \in LidSKUs |-> IF sku \in {gxsmall, gxlid, napkin} THEN globex ELSE acme]
\* Only the lids' name is ever offered; the others' do not matter.
LidNames == {"Container", "Deli Container Lid"}
LidNameOf ==
  [sku \in LidSKUs |-> IF sku \in {lid, gxlid} THEN "Deli Container Lid" ELSE "Container"]
LidCasePack ==
  [sku \in LidSKUs |-> CASE sku \in {small, gxsmall} -> 3 [] sku = large -> 4
                         [] sku \in {lid, napkin} -> 2 [] sku = gxlid -> 5]
LidMinOrder == [sku \in LidSKUs |-> IF sku = gxsmall THEN 2 ELSE 1]
LidCompanions ==
  [sku \in LidSKUs |-> CASE sku \in {small, large} -> {lid} [] sku = gxsmall -> {gxlid}
                         [] sku \in {lid, gxlid, napkin} -> {}]
LidInStock == [sku \in LidSKUs |-> sku # napkin]
LidOnHand == [sku \in LidSKUs |-> IF sku = lid THEN 4 ELSE 0]

LidCart(lines) ==
  [sku \in LidSKUs |-> IF sku \in DOMAIN lines THEN lines[sku] ELSE Absent]

\* Nothing yet; containers of both suppliers, without lids or with those of one.
LidStarts ==
  {EmptyCart(LidSKUs),
   LidCart([sku \in {small, gxsmall} |-> IF sku = small THEN 1 ELSE 2]),
   LidCart([sku \in {small, lid, gxsmall} |-> IF sku = small THEN 1 ELSE 2])}

LidParsed(op, quantity, units) == [op |-> op, quantity |-> quantity, unit_quantity |-> units]
LidItems ==
  {LidParsed("add", 1, NULL), LidParsed("add", NULL, 4), LidParsed("set_quantity", 2, NULL),
   LidParsed("remove", NULL, NULL)}
LidOps == LidItems \X LidItems

\* A "yes" that states no amount.
LidAmounts == {NULL}
LidScores == {90}
LidSelections == {NULL}
=============================================================================
