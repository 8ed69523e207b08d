----------------------------- MODULE Iteration -----------------------------
(***************************************************************************)
(* A loop that folds a list into a value, as a recursive FUNCTION of the   *)
(* number of passes made.  Both loops of the code that carry a value from  *)
(* one element to the next have this shape: Cart.apply over its operations *)
(* (src/src/domain/cart.py) and the sums of _companion_coverage            *)
(* (src/src/app/graph/nodes.py).                                           *)
(*                                                                         *)
(* The step is itself a function, step[n] being pass number n, so that     *)
(* everything about the loop is first-order: LoopProofs proves that        *)
(* the recursion is well defined and how to reason about it by induction.  *)
(***************************************************************************)
EXTENDS Naturals

\* The values a loop goes through: start, then step[1][start], and so on.
Iterate(start, step) ==
  LET value[n \in Nat] == IF n = 0 THEN start ELSE step[n][value[n - 1]]
  IN  value
=============================================================================
