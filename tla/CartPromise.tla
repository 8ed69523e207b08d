---------------------------- MODULE CartPromise ----------------------------
(***************************************************************************)
(* What the cart promises, as a machine: a map from line keys to           *)
(* quantities that changes by batches of edits, applied in their order, by *)
(* steps of one on a single line and by dropping one.  A line never stays  *)
(* with a quantity below one after a step.                                 *)
(***************************************************************************)
EXTENDS CartMap

CONSTANTS
  Keys,    \* what identifies a line of the cart
  Batches  \* the batches of edits turns apply

VARIABLE quantities

PromiseInit == quantities = EmptyCart(Keys)

Batch(edits) == quantities' = EditAll(quantities, edits)

\* "quantity or 0" of a line that may not be there.
QuantityOf(key) == IF quantities[key] = Absent THEN 0 ELSE OrZero(quantities[key])

Nudge(key, delta) ==
  LET stepped == QuantityOf(key) + delta
  IN  quantities' = [quantities EXCEPT ![key] = IF stepped < 1 THEN Absent ELSE stepped]

Drop(key) == quantities' = [quantities EXCEPT ![key] = Absent]

PromiseNext ==
  \/ \E edits \in Batches : Batch(edits)
  \/ \E key \in Keys, delta \in {-1, 1} : Nudge(key, delta)
  \/ \E key \in Keys : Drop(key)

Spec == PromiseInit /\ [][PromiseNext]_quantities
=============================================================================
