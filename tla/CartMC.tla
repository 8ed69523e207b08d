------------------------------- MODULE CartMC -------------------------------
(***************************************************************************)
(* An instance of Cart: two suppliers, one of which sells two products,    *)
(* and batches that meet every branch of _apply_one, alone and after one   *)
(* another.                                                                *)
(***************************************************************************)
EXTENDS Cart

CONSTANTS north, west, lid, cup, p1, p2

MCLine(supplier, sku, quantity, price) ==
  [supplier |-> supplier, sku |-> sku, quantity |-> quantity, unit_price |-> price]

MCOp(op, line) == [op |-> op, item |-> line]

MCSuppliers == {north, west}
MCSKUs == {lid, cup}
MCPrices == {p1, p2}

\* Operations as resolve and check_inventory leave them: priced, unless removals.
\* An add without a quantity reaches Cart.apply only in the previews that
\* add_companions and validate take; the cart has to be right for those too.
MCOps ==
  {MCOp("add", MCLine(north, lid, 2, p1)), MCOp("add", MCLine(west, lid, 1, p2)),
   MCOp("add", MCLine(north, cup, NULL, p1)),
   MCOp("set_quantity", MCLine(north, lid, 1, p2)),
   MCOp("set_quantity", MCLine(north, cup, NULL, p1)),
   MCOp("remove", MCLine(north, lid, NULL, NULL)),
   MCOp("remove", MCLine(west, lid, NULL, NULL))}

MCOpLists == {<<>>} \cup {<<a>> : a \in MCOps} \cup (MCOps \X MCOps)

\* For the burst: nothing takes a line out but the - button.
MCAdds == {<<MCOp("add", MCLine(west, lid, 2, p2))>>}

-----------------------------------------------------------------------------
\* A customer who uses the - and + buttons only, with turns that only add.
Clicking ==
  \/ \E ops \in OpLists : Apply(ops)
  \/ \E key \in Suppliers \X SKUs, delta \in {-1, 1} : Step(key, delta)
  \/ cart_panel

BurstSpec == Init /\ [][Clicking]_vars

\* "A burst of -/+ clicks before the panel re-renders still steps consistently"
\* (cart_ops.py): a line that a click leaves has the price it was quoted.  Turns
\* add priced lines and the panel shows lines that were in the cart when it was
\* drawn, so only a - that dropped the line since can have lost the price.
SteppedLineIsPriced ==
  [][\A key \in Suppliers \X SKUs, delta \in {-1, 1} :
       Step(key, delta) /\ key \in LineKeys(by_supplier') =>
         LineAt(by_supplier', key).unit_price # NULL]_vars
=============================================================================
