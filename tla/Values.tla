------------------------------- MODULE Values -------------------------------
(***************************************************************************)
(* The two values every module shares that are not data: Python's None, and*)
(* the mark of a key that a dict, or of a line that a cart, does not have. *)
(***************************************************************************)
EXTENDS Integers

CONSTANTS NULL, Absent

ASSUME ValuesAssumption == NULL \notin Int /\ Absent \notin Int /\ Absent # NULL

\* int | None
OptionalInt == Int \cup {NULL}

\* "quantity or 0"
OrZero(quantity) == IF quantity = NULL THEN 0 ELSE quantity
=============================================================================
