---------------------------- MODULE OrderGraphMC ----------------------------
(***************************************************************************)
(* Instances of OrderGraph.  The catalog has what the repository's has, in *)
(* small: a container and the lid it pairs with, packed differently, of a  *)
(* supplier whose lids run short; and at another supplier a product with a *)
(* minimum order of two and little stock.                                  *)
(***************************************************************************)
EXTENDS OrderGraph

CONSTANTS deli, lid, napkin, acme, northwind

MCSKUs == {deli, lid, napkin}
MCCatalogOrder == <<deli, lid, napkin>>
MCSuppliers == {acme, northwind}
MCSupplierOf == [sku \in MCSKUs |-> IF sku = napkin THEN northwind ELSE acme]
\* Only the lid's name is ever offered; the others' do not matter.
MCNames == {"lid", "other"}
MCNameOf == [sku \in MCSKUs |-> IF sku = lid THEN "lid" ELSE "other"]
MCCasePack == [sku \in MCSKUs |-> CASE sku = deli -> 3 [] sku = lid -> 2 [] sku = napkin -> 1]
MCMinOrder == [sku \in MCSKUs |-> IF sku = napkin THEN 2 ELSE 1]
MCCompanions == [sku \in MCSKUs |-> IF sku = deli THEN {lid} ELSE {}]
MCInStock == [sku \in MCSKUs |-> TRUE]
MCOnHand == [sku \in MCSKUs |-> CASE sku = deli -> 2 [] sku = lid -> 3 [] sku = napkin -> 0]

MCCart(d, l, n) ==
  [sku \in MCSKUs |-> CASE sku = deli -> d [] sku = lid -> l [] sku = napkin -> n]
MCNoLines == MCCart(Absent, Absent, Absent)

MCParsed(op, quantity, units) == [op |-> op, quantity |-> quantity, unit_quantity |-> units]

\* What parse may make of one phrase: an amount in cases or in units, none, or one
\* that is no order at all; a new total; a removal.
MCItems ==
  {MCParsed("add", 1, NULL), MCParsed("add", 2, NULL), MCParsed("add", NULL, NULL),
   MCParsed("add", NULL, 4), MCParsed("add", 0, NULL),
   MCParsed("set_quantity", 2, NULL), MCParsed("set_quantity", NULL, NULL),
   MCParsed("remove", NULL, NULL)}
MCOneOp == {<<>>} \cup {<<item>> : item \in MCItems}

MCAmounts == {NULL, 1}
MCScores == {55, 90}

MCSelections == {{}, {acme}}
MCAllSuppliers == {{}}

\* For the runs about what lands: nothing is doubtful.
MCHighScore == {90}

\* A plain order, and one that states no amount.
MCFewOps == {<<MCParsed("add", 2, NULL)>>, <<MCParsed("add", NULL, NULL)>>}
\* An order in units.
MCInUnits == {<<MCParsed("add", NULL, 4)>>}
MCEmptyStart == {MCNoLines}
MCBusyStarts == {MCNoLines, MCCart(1, Absent, Absent), MCCart(1, 2, 2)}

\* The panel is not used any more in the last turn.
MCOutside ==
  <<[client EXCEPT !.panel = IF turn < MaxTurns THEN @ ELSE {}], orders, tickets, turn>>

\* Between turns these parts of the state are never read again: redact, intent
\* and parse write them first.
MCView ==
  IF node = "idle"
  THEN <<node, selected_suppliers, draft_cart, clarifications, answer, confirmation, handoff,
         MCOutside>>
  ELSE <<node, state, MCOutside>>
=============================================================================
