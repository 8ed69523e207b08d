------------------------------ MODULE Catalog ------------------------------
(***************************************************************************)
(* The vocabulary of the order desk (src/src/domain/models.py) and the     *)
(* catalog it works over: the SKUs, the supplier of each, its case pack,   *)
(* its minimum order and the companions it should be paired with.          *)
(*                                                                         *)
(* A product is its SKU; aliases, categories and unit sizes are text the   *)
(* model does not look at.  A catalog holds a SKU once                     *)
(* (JsonCatalogRepository refuses a duplicate), so SKU -> item is a        *)
(* function, and the repository's companion_skus all name SKUs it holds.   *)
(***************************************************************************)
EXTENDS Values, Sequences, Iteration

CONSTANTS
  SKUs,        \* the catalog's SKUs
  CatalogOrder,\* the SKUs in the order the catalog lists them
  Suppliers,   \* the suppliers it serves
  SupplierOf,  \* [SKUs -> Suppliers]
  Names,       \* product names, as the customer says them
  NameOf,      \* [SKUs -> Names]: suppliers may sell a product under one name
  CasePack,    \* [SKUs -> Nat \ {0}]: units per case
  MinOrder,    \* [SKUs -> Nat \ {0}]: least number of cases per order
  Companions   \* [SKUs -> SUBSET SKUs]: companion_skus, e.g. a container's lid

\* CatalogItem's field constraints: case_pack and min_order are gt=0.
ASSUME CatalogAssumption ==
  /\ CatalogOrder \in Seq(SKUs)
  /\ \A sku \in SKUs : \E n \in DOMAIN CatalogOrder : CatalogOrder[n] = sku
  /\ \A m, n \in DOMAIN CatalogOrder : CatalogOrder[m] = CatalogOrder[n] => m = n
  /\ SupplierOf \in [SKUs -> Suppliers]
  /\ NameOf \in [SKUs -> Names]
  /\ CasePack \in [SKUs -> Nat \ {0}]
  /\ MinOrder \in [SKUs -> Nat \ {0}]
  /\ Companions \in [SKUs -> SUBSET SKUs]

\* None and the mark of a missing key are not SKUs.
ASSUME NullAssumption == NULL \notin SKUs /\ Absent \notin SKUs

-----------------------------------------------------------------------------
\* Flag: the conditions raised on a line.
Flag == {"needs_companion", "out_of_stock", "exceeds_stock", "ambiguous_size",
         "below_minimum", "missing_quantity", "rounded_to_case_pack"}

\* CartOpKind: the three mutations of the running cart.
CartOpKind == {"add", "set_quantity", "remove"}

\* Intent: what the customer is doing this turn.
Intent == {"order", "reorder", "question", "escalate"}

\* A confidence or a similarity score: a float in [0, 1], in hundredths.
Percent == 0..100

\* LineItem: a requested line as it moves through the pipeline.  options says
\* whether there are candidate names to offer, companions is the offer itself.
LineItem == [sku: SKUs \cup {NULL}, quantity: OptionalInt, unit_quantity: OptionalInt,
             quantity_on_hand: OptionalInt, confidence: Percent, flags: SUBSET Flag,
             options: BOOLEAN, companions: SUBSET SKUs]

\* CartOp: one mutation; its item's (supplier, sku) names the target line.
CartOp == [op: CartOpKind, item: LineItem]

-----------------------------------------------------------------------------
\* math.ceil(units / pack), for any integer number of units.
CeilDiv(units, pack) == -((-units) \div pack)

\* Cases of a companion that cover the parents' units, at least one
\* (companion_case_count; a case pack is positive, so its first return, for a
\* pack that is not, is never taken).
companion_case_count(parentUnits, companionCasePack) ==
  LET cases == CeilDiv(parentUnits, companionCasePack)
  IN  IF cases < 1 THEN 1 ELSE cases
=============================================================================
