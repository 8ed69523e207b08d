------------------------------ MODULE CartMap ------------------------------
(***************************************************************************)
(* What Cart.apply promises, without its lists: a cart is a map from line  *)
(* keys to quantities, and a batch of edits is applied one edit after the  *)
(* other.  Cart.tla is the code's own data structure and is shown to       *)
(* implement this one; OrderGraph.tla, where only the quantities matter,   *)
(* keeps its carts in this form.                                           *)
(***************************************************************************)
EXTENDS Values, Sequences, Iteration

\* A line's quantity is an int or None; a line that is not there is Absent.
CartMaps(keys) == [keys -> OptionalInt \cup {Absent}]

EmptyCart(keys) == [k \in keys |-> Absent]

Edits(keys) == [op: {"add", "set_quantity", "remove"}, key: keys, quantity: OptionalInt]

\* What one edit makes of the line it names.
EditedQuantity(old, op, quantity) ==
  CASE op = "add" /\ old = Absent              -> quantity
    [] op = "add" /\ old # Absent              -> OrZero(old) + OrZero(quantity)
    [] op = "set_quantity" /\ quantity = NULL  -> old
    [] op = "set_quantity" /\ quantity # NULL  -> quantity
    [] op = "remove"                           -> Absent

EditOne(cart, edit) ==
  [cart EXCEPT ![edit.key] = EditedQuantity(@, edit.op, edit.quantity)]

\* Pass number n of the loop over edits: the n-th edit when it is one of the
\* taken ones, nothing otherwise.
EditPass(keys, edits, taken) ==
  [n \in Nat |-> [cart \in CartMaps(keys) |->
     IF n \in taken THEN EditOne(cart, edits[n]) ELSE cart]]

\* The cart after the edits whose numbers are in taken, in their order.
EditTaken(cart, edits, taken) ==
  Iterate(cart, EditPass(DOMAIN cart, edits, taken))[Len(edits)]

EditAll(cart, edits) == EditTaken(cart, edits, 1..Len(edits))
=============================================================================
