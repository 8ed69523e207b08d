-------------------------- MODULE OrderGraphClaims --------------------------
(***************************************************************************)
(* What the repository's comments and README say of the graph and the code *)
(* does not do, each with the run that shows it (OrderGraphMC's catalog).  *)
(***************************************************************************)
EXTENDS OrderGraphMC

\* A lid "is pending whenever the cases in the cart do not cover the summed units
\* of every deli line it pairs with, so adding a second size re-offers a top-up"
\* (README): a turn that ends without a question has added no line that lacks its
\* companion.
AddedLineIsOffered ==
  node = "draft" =>
    \A n \in Landing(cart_ops) :
      cart_ops[n].op = "add" =>
        Companions[cart_ops[n].item.sku] \cap _undercovered_companions(draft_cart) = {}

\* "the over-order never lands" (test_order_graph.py): no line grows in a turn
\* beyond what the supplier has on hand.
NoOverOrderLands ==
  [][node = "apply" =>
       \A sku \in SKUs : draft_cart'[sku] \notin {draft_cart[sku], Absent} /\ OnHand[sku] > 0 =>
                           draft_cart'[sku] <= OnHand[sku]]_vars
=============================================================================
