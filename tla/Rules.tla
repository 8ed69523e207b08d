------------------------------- MODULE Rules -------------------------------
(***************************************************************************)
(* The deterministic policies of the order desk, as operators on one line  *)
(* or on the lines of a turn: the thresholds and flag sets of              *)
(* src/src/domain/policies.py, validate_rules of src/src/domain/rules.py,  *)
(* the gate of src/src/app/graph/gates.py and the clarifying questions of  *)
(* src/src/app/graph/nodes.py.                                             *)
(*                                                                         *)
(* A list of flags is the set of them: _raise never adds one twice and     *)
(* every reader only asks for membership.  A question is what it is about  *)
(* (its kind and the line it names), not its wording.                      *)
(***************************************************************************)
EXTENDS Catalog

CONFIDENCE_THRESHOLD == 60

BLOCKING_FLAGS == {"ambiguous_size", "out_of_stock", "exceeds_stock", "needs_companion",
                   "below_minimum", "missing_quantity"}

\* Mutants of the next definition: a flag of it is forgotten.
HoldNoMinimum == BLOCKING_FLAGS \ {"needs_companion", "below_minimum"}
HoldNoStock == BLOCKING_FLAGS \ {"needs_companion", "out_of_stock"}

\* The flags that also keep a line out of the cart.
HOLD_FROM_CART_FLAGS == BLOCKING_FLAGS \ {"needs_companion"}

-----------------------------------------------------------------------------
\* The line ordered in units, not cases, and not yet rounded to whole cases.
InUnits(item) == item.unit_quantity # NULL /\ item.quantity = NULL

WholeCases(item) ==
  IF InUnits(item) THEN CeilDiv(item.unit_quantity, CasePack[item.sku]) ELSE item.quantity

\* The flags validate_rules raises, quantity being the finalized case count.
RaisedFlags(item, quantity) ==
  {flag \in Flag :
     \/ /\ flag = "rounded_to_case_pack"
        /\ InUnits(item)
        /\ item.unit_quantity % CasePack[item.sku] # 0
     \/ flag = "missing_quantity" /\ quantity = NULL
     \/ flag = "below_minimum" /\ quantity # NULL /\ quantity < MinOrder[item.sku]
     \/ /\ flag = "exceeds_stock"
        /\ quantity # NULL
        /\ item.quantity_on_hand # NULL
        /\ item.quantity_on_hand > 0
        /\ quantity > item.quantity_on_hand
     \/ flag = "needs_companion" /\ Companions[item.sku] # {}}

validate_rules(item) ==
  LET quantity == WholeCases(item)
  IN  [item EXCEPT !.quantity = quantity, !.flags = @ \cup RaisedFlags(item, quantity)]

-----------------------------------------------------------------------------
\* Mutants of Stops: one of its two conditions is forgotten.
StopsOnFlags(item) == item.flags \cap BLOCKING_FLAGS # {}
StopsOnConfidence(item) == item.confidence < CONFIDENCE_THRESHOLD

\* The gate stops the turn on this line.
Stops(item) ==
  \/ item.confidence < CONFIDENCE_THRESHOLD
  \/ item.flags \cap BLOCKING_FLAGS # {}

gate(items) == IF \E i \in DOMAIN items : Stops(items[i]) THEN "clarify" ELSE "draft"

\* The blocking flags in the order clarify asks about them.
QuestionOrder == <<"missing_quantity", "needs_companion", "out_of_stock", "exceeds_stock",
                   "below_minimum", "ambiguous_size">>

\* The one thing asked about a line; "none" when nothing is.
QuestionKind(item) ==
  LET asked == {n \in DOMAIN QuestionOrder : QuestionOrder[n] \in item.flags}
  IN  CASE item.confidence < CONFIDENCE_THRESHOLD /\ item.options   -> "did_you_mean"
        [] item.confidence < CONFIDENCE_THRESHOLD /\ ~ item.options -> "which_product"
        [] item.confidence >= CONFIDENCE_THRESHOLD /\ asked = {}    -> "none"
        [] item.confidence >= CONFIDENCE_THRESHOLD /\ asked # {}    ->
             QuestionOrder[CHOOSE n \in asked : \A m \in asked : n <= m]

\* The questions of a turn: item says which of its lines one is about.
build_clarifications(items) ==
  {[item |-> i, kind |-> QuestionKind(items[i])] :
     i \in {j \in DOMAIN items : QuestionKind(items[j]) # "none"}}
=============================================================================
