-------------------------- MODULE OrderGraphSafety --------------------------
(***************************************************************************)
(* What the order path guarantees, for every catalog, stock, message and   *)
(* number of turns: every line that lands can be ordered, every cart is    *)
(* counted, and an order goes out only when all of the turn has landed.    *)
(*                                                                         *)
(* None of these is inductive.  Each node relies on what the nodes before  *)
(* it left in cart_ops, and Facts states that: who has checked what, of    *)
(* every operation, by the time which node runs.  At the end, the graph    *)
(* implements OrderDesk.                                                   *)
(***************************************************************************)
EXTENDS OrderGraphProofs

\* An operation that asks for something: the gateways and the rules look at it.
Requested(op) == op.op # "remove" /\ op.item.sku # NULL

\* A line whose amount the rules have looked at: it has at least the minimum, or
\* a flag that says what is wrong.
AmountSettled(item) ==
  \/ item.quantity = NULL /\ "missing_quantity" \in item.flags
  \/ /\ item.quantity \in Int
     /\ item.quantity < MinOrder[item.sku]
     /\ "below_minimum" \in item.flags
  \/ item.quantity \in Int /\ item.quantity >= MinOrder[item.sku]

\* The supplier was asked about every line before the rules run.
StockChecked ==
  node \in {"validate", "apply", "draft", "clarify"} =>
    \A n \in DOMAIN cart_ops :
      Requested(cart_ops[n]) /\ ~ InStock[cart_ops[n].item.sku] =>
        "out_of_stock" \in cart_ops[n].item.flags

\* The rules ran on every line before any of them lands.
AmountChecked ==
  node \in {"apply", "draft", "clarify"} =>
    \A n \in DOMAIN cart_ops : Requested(cart_ops[n]) => AmountSettled(cart_ops[n].item)

\* A phrase without a product has a confidence the gate stops on.
Unknown(op) == op.item.sku = NULL => op.item.confidence < CONFIDENCE_THRESHOLD
ProductKnown ==
  node \in {"add_companions", "check_inventory", "validate", "apply", "draft", "clarify"} =>
    \A n \in DOMAIN cart_ops : Unknown(cart_ops[n])

\* The draft is reached only past the gate.
GateHeld == node = "draft" => \A n \in DOMAIN cart_ops : ~ Stops(cart_ops[n].item)

\* The node says which of the three paths the turn is on.
PathTaken ==
  /\ node \in {"parse", "resolve", "add_companions", "check_inventory", "validate",
               "apply", "draft", "clarify"} => intent \in {"order", "reorder"}
  /\ node = "escalate" => intent = "escalate"
  /\ node = "rag_qa" => intent = "question"

Facts == StockChecked /\ AmountChecked /\ ProductKnown /\ GateHeld /\ PathTaken

(***************************************************************************)
(* What the nodes on one line do to it.                                    *)
(***************************************************************************)
LEMMA StockedFacts ==
  ASSUME NEW item \in LineItem, item.sku \in SKUs
  PROVE  /\ Stocked(item).sku = item.sku
         /\ Stocked(item).confidence = item.confidence
         /\ ~ InStock[item.sku] => "out_of_stock" \in Stocked(item).flags
<1>1. CASE ~ InStock[item.sku]
  <2>1. Stocked(item) = [item EXCEPT !.flags = @ \cup {"out_of_stock"}]
    BY <1>1, OrderGraphAssumption DEF Stocked
  <2> QED
    BY <2>1 DEF LineItem
<1>2. CASE InStock[item.sku] /\ OnHand[item.sku] > 0
  <2>1. OnHand[item.sku] \in Nat
    BY OrderGraphAssumption
  <2>2. ~ (OnHand[item.sku] <= 0)
    BY <1>2, <2>1
  <2>3. Stocked(item) = [item EXCEPT !.quantity_on_hand = OnHand[item.sku]]
    BY <1>2, <2>2 DEF Stocked
  <2> QED
    BY <1>2, <2>3 DEF LineItem
<1>3. CASE InStock[item.sku] /\ OnHand[item.sku] <= 0
  BY <1>3, OrderGraphAssumption DEF Stocked
<1> QED
  BY <1>1, <1>2, <1>3, OrderGraphAssumption

LEMMA ValidatedFacts ==
  ASSUME NEW op \in CartOp, op.item.sku \in SKUs, NEW undercovered
  PROVE  /\ Validated(op, undercovered).sku = op.item.sku
         /\ Validated(op, undercovered).confidence = op.item.confidence
         /\ op.item.flags \ {"needs_companion"} \subseteq Validated(op, undercovered).flags
         /\ AmountSettled(Validated(op, undercovered))
<1> DEFINE old == op.item
           item == validate_rules(old)
           line == Validated(op, undercovered)
           quantity == WholeCases(old)
<1>1. old \in LineItem /\ item \in LineItem /\ item.sku = old.sku
  BY ValidateRulesType DEF CartOp
<1>2. item = [old EXCEPT !.quantity = quantity, !.flags = @ \cup RaisedFlags(old, quantity)]
  BY DEF validate_rules
<1>3. /\ item.quantity = quantity
      /\ item.confidence = old.confidence
      /\ old.flags \subseteq item.flags
      /\ RaisedFlags(old, quantity) \subseteq item.flags
  BY <1>1, <1>2 DEF LineItem
<1>4. /\ line.sku = item.sku
      /\ line.confidence = item.confidence
      /\ line.quantity = item.quantity
      /\ item.flags \ {"needs_companion"} \subseteq line.flags
  <2> DEFINE offer == Companions[item.sku] \cap undercovered
  <2> HIDE DEF item
  <2>1. CASE "needs_companion" \notin item.flags
    BY <2>1 DEF Validated, item
  <2>2. CASE "needs_companion" \in item.flags /\ op.op = "add"
    <3>1. line = _attach_companion_offer(item, undercovered)
      BY <2>2 DEF Validated, item
    <3>2. \/ line = [item EXCEPT !.flags = @ \ {"needs_companion"}]
          \/ line = [item EXCEPT !.companions = offer]
      BY <3>1 DEF _attach_companion_offer
    <3> HIDE DEF line, offer
    <3> QED
      BY <1>1, <3>2 DEF LineItem
  <2>3. CASE "needs_companion" \in item.flags /\ op.op # "add"
    <3>1. line = [item EXCEPT !.flags = @ \ {"needs_companion"}, !.companions = {}]
      BY <2>3 DEF Validated, item
    <3> HIDE DEF line
    <3> QED
      BY <1>1, <3>1 DEF LineItem
  <2> QED
    BY <2>1, <2>2, <2>3
<1>5. quantity \in OptionalInt
  BY <1>1, <1>3 DEF LineItem
<1>6. MinOrder[old.sku] \in Nat
  BY CatalogAssumption
<1>7. /\ quantity = NULL => "missing_quantity" \in RaisedFlags(old, quantity)
      /\ quantity # NULL /\ quantity < MinOrder[old.sku] =>
           "below_minimum" \in RaisedFlags(old, quantity)
  BY DEF RaisedFlags, Flag
<1> HIDE DEF old, item, line, quantity
<1>8. AmountSettled(line)
  BY <1>1, <1>3, <1>4, <1>5, <1>6, <1>7 DEF AmountSettled, OptionalInt
<1> QED
  BY <1>1, <1>3, <1>4, <1>8 DEF line, old

(***************************************************************************)
(* The nodes that write cart_ops, for all of it.                           *)
(***************************************************************************)
LEMMA ResolvedKnown ==
  ASSUME TypeOK, resolve_node
  PROVE  \A n \in DOMAIN cart_ops' : Unknown(cart_ops'[n])
<1>1. PICK resolved \in [DOMAIN cart_ops -> Resolutions] :
        cart_ops' = [n \in DOMAIN cart_ops |->
                       [cart_ops[n] EXCEPT !.item.sku = resolved[n].sku,
                                           !.item.confidence = resolved[n].confidence,
                                           !.item.options = resolved[n].options]]
  BY DEF resolve_node
<1>2. ASSUME NEW n \in DOMAIN cart_ops PROVE Unknown(cart_ops'[n])
  <2>1. cart_ops[n] \in CartOp
    BY DEF TypeOK
  <2>2. /\ cart_ops'[n].item.sku = resolved[n].sku
        /\ cart_ops'[n].item.confidence = resolved[n].confidence
    BY <1>1, <2>1 DEF CartOp, LineItem
  <2>3. resolved[n].sku = NULL => resolved[n].confidence \in {0, 40}
    <3>1. resolved[n] \in Resolutions
      OBVIOUS
    <3>2. CASE resolved[n] \in [sku: {s \in SKUs : SupplierOf[s] \in Scope},
                                confidence: Scores, options: {FALSE}]
      BY <3>2, NullAssumption
    <3>3. CASE resolved[n] = [sku |-> NULL, confidence |-> 0, options |-> FALSE]
      BY <3>3
    <3>4. CASE resolved[n] = [sku |-> NULL, confidence |-> 40, options |-> TRUE]
      BY <3>4
    <3> QED
      BY <3>1, <3>2, <3>3, <3>4 DEF Resolutions
  <2> QED
    BY <2>2, <2>3 DEF Unknown, CONFIDENCE_THRESHOLD
<1> QED
  BY <1>1, <1>2

LEMMA CompanionsKnown ==
  ASSUME TypeOK, \A n \in DOMAIN cart_ops : Unknown(cart_ops[n])
  PROVE  LET ops == Iterate(cart_ops, CompanionPass)[Len(CatalogOrder)]
         IN  \A n \in DOMAIN ops : Unknown(ops[n])
<1> DEFINE AllKnown == {ops \in Seq(CartOp) : \A n \in DOMAIN ops : Unknown(ops[n])}
<1>1. cart_ops \in Seq(CartOp) /\ cart_ops \in AllKnown /\ AllKnown \in SUBSET Seq(CartOp)
  BY DEF TypeOK
<1>2. CompanionPass \in [Nat -> [Seq(CartOp) -> Seq(CartOp)]]
  BY CompanionPassType DEF TypeOK
<1>3. ASSUME NEW n \in Nat, NEW ops \in AllKnown
      PROVE  CompanionPass[n][ops] \in AllKnown
  <2>1. CompanionPass[n][ops] \in Seq(CartOp) /\ ops \in Seq(CartOp)
    BY <1>2
  <2> DEFINE companion == CatalogOrder[n]
             op == [op   |-> "set_quantity",
                    item |-> _line_from_catalog(companion, CompanionCases(companion))]
  <2>2. CASE n \in DOMAIN CatalogOrder /\ companion \in _undercovered_companions(Effective)
               /\ Accepted(companion)
    <3>1. CompanionPass[n][ops] = Append(ops, op)
      BY <2>1, <2>2 DEF CompanionPass
    <3>2. companion \in SKUs
      BY <2>2, CatalogAssumption
    <3>3. op.item.sku = companion
      BY DEF _line_from_catalog, ParsedLine
    <3>4. Unknown(op)
      BY <3>2, <3>3, NullAssumption DEF Unknown
    <3> HIDE DEF op
    <3>5. Append(ops, op) \in Seq(CartOp)
      BY <2>1, <3>1
    <3>6. \A i \in DOMAIN Append(ops, op) : Append(ops, op)[i] = op \/ (i \in DOMAIN ops /\ Append(ops, op)[i] = ops[i])
      BY <2>1
    <3> QED
      BY <3>1, <3>4, <3>5, <3>6
  <2>3. CASE ~ (n \in DOMAIN CatalogOrder /\ companion \in _undercovered_companions(Effective)
                  /\ Accepted(companion))
    BY <2>1, <2>3 DEF CompanionPass
  <2> QED
    BY <2>2, <2>3
<1> HIDE DEF AllKnown
<1>4. \A n \in Nat : Iterate(cart_ops, CompanionPass)[n] \in AllKnown
  BY <1>1, <1>2, <1>3, IterateKeeps, Zenon
<1>5. Len(CatalogOrder) \in Nat
  BY CatalogAssumption
<1>6. Iterate(cart_ops, CompanionPass)[Len(CatalogOrder)] \in AllKnown
  BY <1>4, <1>5
<1> QED
  BY <1>6 DEF AllKnown

LEMMA StockedOps ==
  ASSUME TypeOK, check_inventory_node, \A n \in DOMAIN cart_ops : Unknown(cart_ops[n])
  PROVE  \A n \in DOMAIN cart_ops' :
           /\ Unknown(cart_ops'[n])
           /\ Requested(cart_ops'[n]) /\ ~ InStock[cart_ops'[n].item.sku] =>
                "out_of_stock" \in cart_ops'[n].item.flags
<1> SUFFICES ASSUME NEW n \in DOMAIN cart_ops
             PROVE  /\ Unknown(cart_ops'[n])
                    /\ Requested(cart_ops'[n]) /\ ~ InStock[cart_ops'[n].item.sku] =>
                         "out_of_stock" \in cart_ops'[n].item.flags
  BY DEF check_inventory_node
<1>1. cart_ops[n] \in CartOp
  BY DEF TypeOK
<1>2. CASE ~ Requested(cart_ops[n])
  <2>1. cart_ops'[n] = cart_ops[n]
    BY <1>2 DEF check_inventory_node, Requested
  <2> QED
    BY <1>2, <2>1
<1>3. CASE Requested(cart_ops[n])
  <2>1. cart_ops'[n] = [cart_ops[n] EXCEPT !.item = Stocked(@)]
    BY <1>3 DEF check_inventory_node, Requested
  <2>2. cart_ops'[n].item = Stocked(cart_ops[n].item)
    BY <1>1, <2>1 DEF CartOp
  <2>3. cart_ops[n].item \in LineItem /\ cart_ops[n].item.sku \in SKUs
    BY <1>1, <1>3 DEF CartOp, LineItem, Requested
  <2> QED
    BY <2>2, <2>3, StockedFacts, NullAssumption DEF Unknown
<1> QED
  BY <1>2, <1>3

LEMMA ValidatedOps ==
  ASSUME TypeOK, validate_node, StockChecked, ProductKnown
  PROVE  \A n \in DOMAIN cart_ops' :
           /\ Unknown(cart_ops'[n])
           /\ Requested(cart_ops'[n]) =>
                /\ AmountSettled(cart_ops'[n].item)
                /\ ~ InStock[cart_ops'[n].item.sku] =>
                     "out_of_stock" \in cart_ops'[n].item.flags
<1> DEFINE undercovered == _undercovered_companions(Effective)
<1> SUFFICES ASSUME NEW n \in DOMAIN cart_ops
             PROVE  /\ Unknown(cart_ops'[n])
                    /\ Requested(cart_ops'[n]) =>
                         /\ AmountSettled(cart_ops'[n].item)
                         /\ ~ InStock[cart_ops'[n].item.sku] =>
                              "out_of_stock" \in cart_ops'[n].item.flags
  BY DEF validate_node
<1>1. cart_ops[n] \in CartOp
  BY DEF TypeOK
<1>2. /\ Unknown(cart_ops[n])
      /\ Requested(cart_ops[n]) /\ ~ InStock[cart_ops[n].item.sku] =>
           "out_of_stock" \in cart_ops[n].item.flags
  BY DEF StockChecked, ProductKnown, validate_node
<1>3. CASE ~ Requested(cart_ops[n])
  <2>1. cart_ops'[n] = cart_ops[n]
    BY <1>3 DEF validate_node, Requested
  <2> QED
    BY <1>2, <1>3, <2>1
<1>4. CASE Requested(cart_ops[n])
  <2>1. cart_ops'[n] = [cart_ops[n] EXCEPT !.item = Validated(cart_ops[n], undercovered)]
    BY <1>4 DEF validate_node, Requested
  <2> HIDE DEF undercovered
  <2>2. cart_ops'[n].item = Validated(cart_ops[n], undercovered)
    BY <1>1, <2>1 DEF CartOp
  <2>3. cart_ops[n].item.sku \in SKUs
    BY <1>1, <1>4 DEF CartOp, LineItem, Requested
  <2>4. /\ cart_ops'[n].item.sku = cart_ops[n].item.sku
        /\ cart_ops[n].item.flags \ {"needs_companion"} \subseteq cart_ops'[n].item.flags
        /\ AmountSettled(cart_ops'[n].item)
    BY <1>1, <2>2, <2>3, ValidatedFacts
  <2> QED
    BY <1>2, <1>4, <2>3, <2>4, NullAssumption DEF Unknown
<1> QED
  BY <1>3, <1>4

(***************************************************************************)
(* Every step keeps the facts: a node that writes cart_ops adds its own    *)
(* and keeps the others, every other node leaves cart_ops alone.           *)
(***************************************************************************)
LEMMA FactsOfGate ==
  ASSUME TypeOK, Facts, apply_node
  PROVE  Facts'
<1>1. node' \in {"clarify", "draft"} /\ UNCHANGED <<cart_ops, intent>>
  BY DEF apply_node, _gate_decision, gate
<1>2. node' = "draft" => \A n \in DOMAIN cart_ops : ~ Stops(cart_ops[n].item)
  <2> DEFINE items == [n \in DOMAIN cart_ops |-> cart_ops[n].item]
  <2> SUFFICES ASSUME node' = "draft" PROVE \A n \in DOMAIN cart_ops : ~ Stops(cart_ops[n].item)
    OBVIOUS
  <2>1. DOMAIN items = DOMAIN cart_ops /\ \A n \in DOMAIN cart_ops : items[n] = cart_ops[n].item
    OBVIOUS
  <2>2. gate(items) = "draft"
    BY DEF apply_node, _gate_decision
  <2> HIDE DEF items
  <2>3. \A n \in DOMAIN items : ~ Stops(items[n])
    BY <2>2 DEF gate
  <2> QED
    BY <2>1, <2>3
<1>3. node = "apply"
  BY DEF apply_node
<1> QED
  BY <1>1, <1>2, <1>3 DEF Facts, StockChecked, AmountChecked, ProductKnown, GateHeld, PathTaken

LEMMA FactsOfNodeStep ==
  ASSUME TypeOK, Facts, NodeStep
  PROVE  Facts'
<1> USE DEF Facts, StockChecked, AmountChecked, ProductKnown, GateHeld, PathTaken
<1>1. CASE redact_node
  BY <1>1 DEF redact_node
<1>2. CASE intent_node
  <2>1. intent' \in Intent /\ node' = _route_by_intent(intent')
    BY <1>2 DEF intent_node
  <2>2. CASE intent' = "escalate"
    <3>1. node' = "escalate"
      BY <2>1, <2>2 DEF _route_by_intent
    <3> QED
      BY <2>2, <3>1
  <2>3. CASE intent' = "question"
    <3>1. node' = "rag_qa"
      BY <2>1, <2>3 DEF _route_by_intent
    <3> QED
      BY <2>3, <3>1
  <2>4. CASE intent' \in {"order", "reorder"}
    <3>1. node' = "parse"
      BY <2>1, <2>4 DEF _route_by_intent
    <3> QED
      BY <2>4, <3>1
  <2> QED
    BY <2>1, <2>2, <2>3, <2>4 DEF Intent
<1>3. CASE parse_node
  BY <1>3 DEF parse_node
<1>4. CASE resolve_node
  BY <1>4, ResolvedKnown DEF resolve_node
<1>5. CASE add_companions_node
  BY <1>5, CompanionsKnown DEF add_companions_node
<1>6. CASE check_inventory_node
  BY <1>6, StockedOps DEF check_inventory_node
<1>7. CASE validate_node
  BY <1>7, ValidatedOps DEF validate_node
<1>8. CASE apply_node
  BY <1>8, FactsOfGate
<1>9. CASE draft_node
  BY <1>9 DEF draft_node
<1>10. CASE clarify_node
  BY <1>10 DEF clarify_node
<1>11. CASE escalate_node
  BY <1>11 DEF escalate_node
<1>12. CASE rag_qa
  BY <1>12 DEF rag_qa
<1>13. CASE handle_turn
  BY <1>13 DEF handle_turn
<1> QED
  BY <1>1, <1>2, <1>3, <1>4, <1>5, <1>6, <1>7, <1>8, <1>9, <1>10, <1>11, <1>12, <1>13
     DEF NodeStep

\* By the time a node runs, the nodes before it have done their checks.
THEOREM FactsHold == Spec => []Facts
<1>1. Init => Facts
  BY DEF Init, Facts, StockChecked, AmountChecked, ProductKnown, GateHeld, PathTaken
<1>2. TypeOK /\ Facts /\ [Next]_vars => Facts'
  <2> SUFFICES ASSUME TypeOK, Facts, [Next]_vars PROVE Facts'
    OBVIOUS
  <2>1. CASE NodeStep
    BY <2>1, FactsOfNodeStep
  <2>2. ASSUME node' \in {"idle", "redact"} PROVE Facts'
    BY <2>2 DEF Facts, StockChecked, AmountChecked, ProductKnown, GateHeld, PathTaken
  <2>3. ASSUME NEW cart \in {client.cart, NULL}, NEW selection \in Selections,
               run(cart, selection)
        PROVE  node' \in {"idle", "redact"}
    BY <2>3 DEF run
  <2>4. CASE NodeRaises
    BY <2>4, <2>2 DEF NodeRaises
  <2>5. ASSUME NEW sku \in SKUs,
               PanelRemove(sku) \/ \E delta \in {-1, 1} : PanelEdit(sku, delta)
        PROVE  node' \in {"idle", "redact"}
    BY <2>5 DEF PanelRemove, PanelEdit, PanelInUse
  <2>6. CASE RecordRaises \/ cart_panel
    <3>1. node' = "idle"
      BY <2>6 DEF RecordRaises, cart_panel, PanelInUse
    <3> QED
      BY <3>1, <2>2
  <2>7. CASE UNCHANGED vars
    BY <2>7 DEF vars, state, Facts, StockChecked, AmountChecked, ProductKnown, GateHeld,
                PathTaken
  <2> QED
    BY <2>1, <2>2, <2>3, <2>4, <2>5, <2>6, <2>7 DEF Next, SessionOver
<1> QED
  BY <1>1, <1>2, TypeCorrect, PTL DEF Spec

-----------------------------------------------------------------------------
(***************************************************************************)
(* What lands can be ordered.                                              *)
(***************************************************************************)

\* A number of cases of a product the supplier would take an order for.
Orderable(sku, cases) == InStock[sku] /\ cases \in Int /\ cases >= MinOrder[sku]

\* The carts a turn may make of one: lines stay, go, or are orderable.
Successors(cart) ==
  {c \in Carts : \A sku \in SKUs : c[sku] \in {cart[sku], Absent} \/ Orderable(sku, c[sku])}

LEMMA LandedLineOrderable ==
  ASSUME TypeOK, Facts, node = "apply", NEW n \in Landing(cart_ops), cart_ops[n].op # "remove"
  PROVE  /\ cart_ops[n].item.sku \in SKUs
         /\ Orderable(cart_ops[n].item.sku, cart_ops[n].item.quantity)
<1>1. n \in DOMAIN cart_ops /\ cart_ops[n] \in CartOp /\ Lands(cart_ops[n])
  BY DEF Landing, TypeOK
<1>2. cart_ops[n].item \in LineItem /\ cart_ops[n].item.sku \in SKUs
  BY <1>1 DEF Lands, CartOp, LineItem
<1>3. AmountSettled(cart_ops[n].item)
  BY <1>1 DEF Facts, AmountChecked, Requested, Lands
<1>4. InStock[cart_ops[n].item.sku] \/ "out_of_stock" \in cart_ops[n].item.flags
  BY <1>1 DEF Facts, StockChecked, Requested, Lands
<1>5. {"out_of_stock", "missing_quantity", "below_minimum"} \cap cart_ops[n].item.flags = {}
  BY <1>1 DEF Lands, HOLD_FROM_CART_FLAGS, BLOCKING_FLAGS
<1> QED
  BY <1>2, <1>3, <1>4, <1>5 DEF AmountSettled, Orderable

\* Adding an orderable amount to an orderable or counted line leaves it orderable.
LEMMA LandedSuccessor ==
  ASSUME TypeOK, Facts, node = "apply", Counted(draft_cart)
  PROVE  EditTaken(draft_cart, EditsOf(cart_ops), Landing(cart_ops)) \in Successors(draft_cart)
<1> DEFINE Good == Successors(draft_cart)
           edits == EditsOf(cart_ops)
<1>1. Good \in SUBSET CartMaps(SKUs) /\ draft_cart \in Good
  BY DEF Successors, Carts, TypeOK
<1>2. /\ Len(edits) \in Nat
      /\ \A n \in Landing(cart_ops) : edits[n] \in Edits(SKUs)
  BY EditsOfType, LandingResolved DEF TypeOK
<1>3. ASSUME NEW n \in Landing(cart_ops), NEW c \in Good
      PROVE  EditOne(c, edits[n]) \in Good
  <2> DEFINE sku == edits[n].key
             amount == edits[n].quantity
             op == edits[n].op
             line == EditedQuantity(c[sku], op, amount)
  <2>1. sku \in SKUs /\ amount \in OptionalInt /\ op \in {"add", "set_quantity", "remove"}
    BY <1>2 DEF Edits
  <2>2. c \in Carts /\ EditOne(c, edits[n]) \in Carts
    BY <1>2, EditOneType DEF Successors, Carts
  <2>3. op # "remove" => Orderable(sku, amount)
    <3>1. n \in DOMAIN cart_ops
      BY DEF Landing
    <3> QED
      BY <3>1, LandedLineOrderable DEF EditsOf
  <2>4. c[sku] = Absent \/ (c[sku] \in Int /\ c[sku] >= 1)
    <3>1. c[sku] \in {draft_cart[sku], Absent} \/ Orderable(sku, c[sku])
      BY <2>1 DEF Successors
    <3>2. MinOrder[sku] \in Nat \ {0}
      BY <2>1, CatalogAssumption
    <3> QED
      BY <2>1, <3>1, <3>2 DEF Counted, Orderable
  <2> HIDE DEF sku, amount, op
  <2>5. line = Absent \/ Orderable(sku, line)
    <3>1. CASE op = "remove"
      BY <3>1, <2>1 DEF EditedQuantity
    <3>2. CASE op = "set_quantity"
      <4>1. amount \in Int /\ amount # NULL
        BY <2>3, <3>2, ValuesAssumption DEF Orderable
      <4>2. line = amount
        BY <3>2, <4>1 DEF EditedQuantity
      <4> QED
        BY <2>3, <3>2, <4>2
    <3>3. CASE op = "add"
      <4>1. amount \in Int /\ amount # NULL /\ amount >= MinOrder[sku] /\ InStock[sku]
        BY <2>3, <3>3, ValuesAssumption DEF Orderable
      <4>2. CASE c[sku] = Absent
        <5>1. line = amount
          BY <3>3, <4>2 DEF EditedQuantity
        <5> QED
          BY <2>3, <3>3, <5>1
      <4>3. CASE c[sku] # Absent
        <5>1. c[sku] \in Int /\ c[sku] >= 1 /\ c[sku] # NULL
          BY <2>4, <4>3, ValuesAssumption
        <5>2. line = c[sku] + amount
          BY <3>3, <4>1, <4>3, <5>1 DEF EditedQuantity, OrZero
        <5>3. MinOrder[sku] \in Nat
          BY <2>1, CatalogAssumption
        <5> QED
          BY <4>1, <5>1, <5>2, <5>3 DEF Orderable
      <4> QED
        BY <4>2, <4>3
    <3> QED
      BY <2>1, <3>1, <3>2, <3>3
  <2>6. EditOne(c, edits[n]) = [c EXCEPT ![sku] = line]
    BY DEF EditOne, sku, amount, op
  <2> HIDE DEF line, edits
  <2> QED
    BY <2>1, <2>2, <2>5, <2>6 DEF Successors, Carts, CartMaps
<1> HIDE DEF Good, edits
<1>4. EditTaken(draft_cart, edits, Landing(cart_ops)) \in Good
  BY <1>1, <1>2, <1>3, EditTakenKeeps
<1> QED
  BY <1>4 DEF Good, edits

\* Only the draft node, or its failure, sends an order.
LEMMA OrdersChange ==
  ASSUME [Next]_vars
  PROVE  \/ UNCHANGED orders
         \/ submit_order /\ node = "draft" /\ ToSubmit /\ node' \in {"END", "idle"}
BY DEF Next, NodeStep, NodeRaises, RecordRaises, cart_panel,
   PanelRemove, PanelEdit, SessionOver, vars, state, outside, run,
       redact_node, intent_node, parse_node, resolve_node, add_companions_node,
       check_inventory_node, validate_node, apply_node, draft_node, clarify_node, escalate_node,
       rag_qa, handle_turn

LEMMA SuccessorsCounted ==
  ASSUME NEW cart, Counted(cart), NEW c \in Successors(cart)
  PROVE  Counted(c)
<1> SUFFICES ASSUME NEW sku \in SKUs PROVE c[sku] = Absent \/ c[sku] \in Nat \ {0}
  BY DEF Counted
<1>1. c[sku] \in {cart[sku], Absent} \/ Orderable(sku, c[sku])
  BY DEF Successors
<1>2. MinOrder[sku] \in Nat \ {0}
  BY CatalogAssumption
<1> QED
  BY <1>1, <1>2 DEF Counted, Orderable

\* The cases of a line of a counted cart, none of an absent one.
LEMMA CasesCounted ==
  ASSUME NEW cart, Counted(cart), NEW sku \in SKUs
  PROVE  /\ CasesOf(cart, sku) = IF cart[sku] = Absent THEN 0 ELSE cart[sku]
         /\ CasesOf(cart, sku) \in Nat
<1>1. CASE cart[sku] = Absent
  BY <1>1 DEF CasesOf
<1>2. CASE cart[sku] \in Nat \ {0} /\ cart[sku] # Absent
  BY <1>2, ValuesAssumption DEF CasesOf, OrZero
<1> QED
  BY <1>1, <1>2 DEF Counted

\* The panel leaves no line below one case.
LEMMA PanelCounted ==
  ASSUME TypeOK, Counted(client.cart), NEW sku \in SKUs,
         PanelRemove(sku) \/ \E delta \in {-1, 1} : PanelEdit(sku, delta)
  PROVE  Counted(client.cart')
<1>1. \E quantity \in (Nat \ {0}) \cup {Absent} :
        client' = [client EXCEPT !.cart[sku] = quantity]
  <2>1. CASE PanelRemove(sku)
    BY <2>1 DEF PanelRemove
  <2>2. ASSUME NEW delta \in {-1, 1}, PanelEdit(sku, delta)
        PROVE  \E quantity \in (Nat \ {0}) \cup {Absent} :
                 client' = [client EXCEPT !.cart[sku] = quantity]
    <3> DEFINE stepped == CasesOf(client.cart, sku) + delta
               left == IF stepped < 1 THEN Absent ELSE stepped
    <3>1. stepped \in Int
      BY CasesCounted
    <3>2. client' = [client EXCEPT !.cart[sku] = left]
      BY <2>2 DEF PanelEdit
    <3> HIDE DEF stepped
    <3>3. left \in (Nat \ {0}) \cup {Absent}
      BY <3>1
    <3> QED
      BY <3>2, <3>3
  <2> QED
    BY <2>1, <2>2
<1>2. PICK quantity \in (Nat \ {0}) \cup {Absent} :
        client' = [client EXCEPT !.cart[sku] = quantity]
  BY <1>1
<1>3. client.cart' = [client.cart EXCEPT ![sku] = quantity] /\ client.cart \in Carts
  BY <1>2 DEF TypeOK
<1> QED
  BY <1>2, <1>3 DEF Counted, Carts, CartMaps

(***************************************************************************)
(* No cart that is kept, shown or ordered has a line without at least one  *)
(* case.                                                                   *)
(***************************************************************************)
THEOREM CartsCounted == Spec => []CartsAreCounted
<1>1. Init => CartsAreCounted
  BY OrderGraphAssumption DEF Init, CartsAreCounted, Counted, EmptyCart
<1>2. TypeOK /\ Facts /\ CartsAreCounted /\ [Next]_vars => CartsAreCounted'
  <2> SUFFICES ASSUME TypeOK, Facts, CartsAreCounted, [Next]_vars PROVE CartsAreCounted'
    OBVIOUS
  <2>1. Counted(draft_cart')
    <3>1. CASE apply_node
      BY <3>1, LandedSuccessor, SuccessorsCounted DEF apply_node, CartsAreCounted
    <3>2. ASSUME NEW cart \in {client.cart, NULL}, NEW selection \in Selections,
                 run(cart, selection)
          PROVE  Counted(draft_cart')
      BY <3>2 DEF run, CartsAreCounted
    <3>3. CASE UNCHANGED draft_cart
      BY <3>3 DEF CartsAreCounted
    <3>4. \/ apply_node
          \/ \E cart \in {client.cart, NULL}, selection \in Selections : run(cart, selection)
          \/ UNCHANGED draft_cart
      BY DEF Next, NodeStep, NodeRaises, RecordRaises, cart_panel,
         PanelRemove, PanelEdit, SessionOver, vars, state,
             redact_node, intent_node, parse_node, resolve_node, add_companions_node,
             check_inventory_node, validate_node, draft_node, clarify_node, escalate_node,
             rag_qa, handle_turn
    <3> QED
      BY <3>1, <3>2, <3>3, <3>4
  <2>2. Counted(client'.cart)
    <3>1. CASE handle_turn
      <4>1. client'.cart = draft_cart
        BY <3>1 DEF handle_turn, TypeOK
      <4> QED
        BY <4>1 DEF CartsAreCounted
    <3>2. ASSUME NEW sku \in SKUs,
                 PanelRemove(sku) \/ \E delta \in {-1, 1} : PanelEdit(sku, delta)
          PROVE  Counted(client'.cart)
      BY <3>2, PanelCounted DEF CartsAreCounted
    <3>3. CASE UNCHANGED client \/ cart_panel
      <4>1. client'.cart = client.cart
        BY <3>3 DEF cart_panel, TypeOK
      <4> QED
        BY <4>1 DEF CartsAreCounted
    <3>4. \/ handle_turn
          \/ \E sku \in SKUs : PanelRemove(sku) \/ \E delta \in {-1, 1} : PanelEdit(sku, delta)
          \/ UNCHANGED client
          \/ cart_panel
      BY DEF Next, NodeStep, NodeRaises, RecordRaises, SessionOver, vars, outside, run,
             redact_node, intent_node, parse_node, resolve_node, add_companions_node,
             check_inventory_node, validate_node, apply_node, draft_node, clarify_node,
             escalate_node, rag_qa
    <3> QED
      BY <3>1, <3>2, <3>3, <3>4
  <2>3. \A n \in DOMAIN orders' : Counted(orders'[n].cart)
    <3>1. submit_order \/ UNCHANGED orders
      BY OrdersChange
    <3>2. CASE submit_order
      <4> DEFINE order == [turn |-> turn, cart |-> draft_cart]
      <4>1. orders' = Append(orders, order) /\ order.cart = draft_cart
        BY <3>2 DEF submit_order
      <4>2. \E S : orders \in Seq(S)
        BY DEF TypeOK
      <4> HIDE DEF order
      <4>3. \A n \in DOMAIN orders' : orders'[n] = order \/ (n \in DOMAIN orders /\ orders'[n] = orders[n])
        BY <4>1, <4>2
      <4> QED
        BY <4>1, <4>3 DEF CartsAreCounted
    <3>3. CASE UNCHANGED orders
      BY <3>3 DEF CartsAreCounted
    <3> QED
      BY <3>1, <3>2, <3>3
  <2> QED
    BY <2>1, <2>2, <2>3 DEF CartsAreCounted
<1> QED
  BY <1>1, <1>2, TypeCorrect, FactsHold, PTL DEF Spec

(***************************************************************************)
(* What a turn changes in the cart is in stock and at least the minimum    *)
(* order.                                                                  *)
(***************************************************************************)
THEOREM LandedIsOrderable == Spec => LandsOrderable
<1> DEFINE Step == node = "apply" =>
       \A sku \in SKUs : draft_cart'[sku] \notin {draft_cart[sku], Absent} =>
                           InStock[sku] /\ draft_cart'[sku] >= MinOrder[sku]
<1>1. TypeOK /\ Facts /\ CartsAreCounted /\ [Next]_vars => [Step]_vars
  <2> SUFFICES ASSUME TypeOK, Facts, CartsAreCounted, Next, node = "apply" PROVE Step
    OBVIOUS
  <2>1. apply_node \/ UNCHANGED draft_cart
    BY DEF Next, NodeStep, NodeRaises, RecordRaises, cart_panel,
       PanelRemove, PanelEdit, SessionOver, vars, state, run,
           redact_node, intent_node, parse_node, resolve_node, add_companions_node,
           check_inventory_node, validate_node, draft_node, clarify_node, escalate_node,
           rag_qa, handle_turn
  <2>2. CASE apply_node
    <3>1. draft_cart' \in Successors(draft_cart)
      BY <2>2, LandedSuccessor DEF apply_node, CartsAreCounted
    <3> QED
      BY <3>1 DEF Successors, Orderable
  <2> QED
    BY <2>1, <2>2
<1> HIDE DEF Step
<1>2. Spec => [][Step]_vars
  BY <1>1, TypeCorrect, FactsHold, CartsCounted, PTL DEF Spec
<1> QED
  BY <1>2 DEF LandsOrderable, Step

-----------------------------------------------------------------------------
(***************************************************************************)
(* The gate and apply agree: what the gate lets pass has landed, and what  *)
(* has not landed is asked about.  They read different conditions - the    *)
(* gate a confidence and the blocking flags, apply a SKU, a quantity and   *)
(* the hold flags - which agree only because of the facts.                 *)
(***************************************************************************)
LEMMA PassedHasLanded ==
  ASSUME TypeOK, Facts, node \in {"apply", "draft"}, NEW n \in DOMAIN cart_ops,
         ~ Stops(cart_ops[n].item)
  PROVE  Lands(cart_ops[n])
<1> DEFINE op == cart_ops[n]
<1>1. op \in CartOp /\ op.item \in LineItem
  <2>1. op \in CartOp
    BY DEF TypeOK
  <2> QED
    BY <2>1 DEF CartOp
<1>2. op.item.confidence >= CONFIDENCE_THRESHOLD /\ op.item.flags \cap BLOCKING_FLAGS = {}
  BY <1>1 DEF Stops, LineItem, Percent, CONFIDENCE_THRESHOLD
<1>3. op.item.sku # NULL
  BY <1>1, <1>2 DEF Facts, ProductKnown, Unknown, LineItem, Percent, CONFIDENCE_THRESHOLD
<1>4. Requested(op) => AmountSettled(op.item)
  BY DEF Facts, AmountChecked
<1>5. op.op = "add" => op.item.quantity # NULL
  BY <1>2, <1>3, <1>4, ValuesAssumption DEF Requested, AmountSettled, BLOCKING_FLAGS
<1> QED
  BY <1>2, <1>3, <1>5 DEF Lands, HOLD_FROM_CART_FLAGS

\* What the gate does not stop on is a confident match.
LEMMA PassedIsConfident ==
  ASSUME TypeOK, NEW n \in DOMAIN cart_ops, ~ Stops(cart_ops[n].item)
  PROVE  cart_ops[n].item.confidence >= CONFIDENCE_THRESHOLD
<1>1. cart_ops[n] \in CartOp
  BY DEF TypeOK
<1>2. cart_ops[n].item.confidence \in 0..100
  BY <1>1 DEF CartOp, LineItem, Percent
<1> QED
  BY <1>2 DEF Stops, CONFIDENCE_THRESHOLD

\* A line the gate stops on is one there is a question about.
LEMMA StoppedIsAsked ==
  ASSUME NEW item \in LineItem, Stops(item)
  PROVE  QuestionKind(item) # "none"
<1> DEFINE asked == {i \in DOMAIN QuestionOrder : QuestionOrder[i] \in item.flags}
<1>1. item.confidence \in 0..100 /\ item.options \in BOOLEAN
  BY DEF LineItem, Percent
<1>2. CASE item.confidence < CONFIDENCE_THRESHOLD
  <2>1. ~ (item.confidence >= CONFIDENCE_THRESHOLD)
    BY <1>1, <1>2 DEF CONFIDENCE_THRESHOLD
  <2>2. CASE item.options
    <3>1. QuestionKind(item) = "did_you_mean"
      BY <1>2, <2>1, <2>2 DEF QuestionKind
    <3> QED
      BY <3>1
  <2>3. CASE ~ item.options
    <3>1. QuestionKind(item) = "which_product"
      BY <1>2, <2>1, <2>3 DEF QuestionKind
    <3> QED
      BY <3>1
  <2> QED
    BY <2>2, <2>3
<1>3. CASE ~ (item.confidence < CONFIDENCE_THRESHOLD)
  <2>1. item.flags \cap BLOCKING_FLAGS # {}
    BY <1>3 DEF Stops
  <2>2. DOMAIN QuestionOrder = 1..6 /\ BLOCKING_FLAGS = {QuestionOrder[i] : i \in 1..6}
    BY DEF QuestionOrder, BLOCKING_FLAGS
  <2>3. asked # {} /\ asked \in SUBSET Nat
    BY <2>1, <2>2
  <2> DEFINE first == CHOOSE i \in asked : \A j \in asked : i <= j
  <2>4. first \in asked
    <3>1. \E i \in asked : \A j \in asked : i <= j
      BY <2>3, LeastElement
    <3> QED
      BY <3>1
  <2>5. QuestionKind(item) = QuestionOrder[first]
    BY <1>1, <1>3, <2>3 DEF QuestionKind, CONFIDENCE_THRESHOLD
  <2>6. "none" \notin BLOCKING_FLAGS
    BY DEF BLOCKING_FLAGS
  <2> QED
    BY <2>2, <2>4, <2>5, <2>6
<1> QED
  BY <1>2, <1>3

\* An operation that does not land is one the gate stops on.
LEMMA HeldIsAsked ==
  ASSUME TypeOK, Facts, node = "clarify", NEW n \in DOMAIN cart_ops, ~ Lands(cart_ops[n])
  PROVE  QuestionKind(cart_ops[n].item) # "none"
<1> DEFINE op == cart_ops[n]
<1>1. op.item \in LineItem
  <2>1. op \in CartOp
    BY DEF TypeOK
  <2> QED
    BY <2>1 DEF CartOp
<1>2. Stops(op.item)
  <2>1. Requested(op) => AmountSettled(op.item)
    BY DEF Facts, AmountChecked
  <2>2. op.item.sku # NULL \/ op.item.confidence < CONFIDENCE_THRESHOLD
    BY DEF Facts, ProductKnown, Unknown
  <2> QED
    BY <2>1, <2>2, ValuesAssumption
       DEF Stops, Lands, Requested, AmountSettled, HOLD_FROM_CART_FLAGS, BLOCKING_FLAGS
<1> QED
  BY <1>1, <1>2, StoppedIsAsked

\* An order goes out only when everything the turn asked for has landed.
THEOREM OrdersAreClean == Spec => OrdersOnlyWhenClean
<1> DEFINE Step == orders' # orders => \A n \in DOMAIN cart_ops : Lands(cart_ops[n])
<1>1. TypeOK /\ Facts /\ [Next]_vars => [Step]_vars
  <2> SUFFICES ASSUME TypeOK, Facts, [Next]_vars, orders' # orders
               PROVE  \A n \in DOMAIN cart_ops : Lands(cart_ops[n])
    OBVIOUS
  <2>1. node = "draft"
    BY OrdersChange
  <2> QED
    BY <2>1, PassedHasLanded DEF Facts, GateHeld
<1> HIDE DEF Step
<1>2. Spec => [][Step]_vars
  BY <1>1, TypeCorrect, FactsHold, PTL DEF Spec
<1> QED
  BY <1>2 DEF OrdersOnlyWhenClean, Step

\* Every operation of an order turn has landed on a confident match or is asked
\* about when it ends.
THEOREM NothingIsDropped == Spec => []NothingDropped
<1>1. Init => NothingDropped
  BY DEF Init, NothingDropped
<1>2. TypeOK /\ Facts /\ NothingDropped /\ [Next]_vars => NothingDropped'
  <2> SUFFICES ASSUME TypeOK, Facts, NothingDropped, [Next]_vars, node' = "END",
                      intent' \in {"order", "reorder"}, NEW n \in DOMAIN cart_ops'
               PROVE  \/ /\ Lands(cart_ops'[n])
                         /\ cart_ops'[n].item.confidence >= CONFIDENCE_THRESHOLD
                      \/ \E q \in clarifications' : q.item = n
    BY DEF NothingDropped
  <2>1. CASE draft_node
    <3>1. node = "draft" /\ cart_ops' = cart_ops
      BY <2>1 DEF draft_node
    <3>2. ~ Stops(cart_ops[n].item)
      BY <3>1 DEF Facts, GateHeld
    <3>3. Lands(cart_ops[n]) /\ cart_ops[n].item.confidence >= CONFIDENCE_THRESHOLD
      BY <3>1, <3>2, PassedHasLanded, PassedIsConfident
    <3> QED
      BY <3>1, <3>3
  <2>2. CASE clarify_node
    <3> DEFINE items == [i \in DOMAIN cart_ops |-> cart_ops[i].item]
    <3>1. cart_ops' = cart_ops /\ clarifications' = build_clarifications(items)
      BY <2>2 DEF clarify_node
    <3>2. CASE ~ Lands(cart_ops[n]) \/ Stops(cart_ops[n].item)
      <4>1. QuestionKind(items[n]) # "none" /\ n \in DOMAIN items
        <5>1. n \in DOMAIN cart_ops /\ node = "clarify"
          BY <2>2, <3>1 DEF clarify_node
        <5>2. cart_ops[n] \in CartOp
          BY <5>1 DEF TypeOK
        <5>3. cart_ops[n].item \in LineItem
          BY <5>2 DEF CartOp
        <5> QED
          BY <3>2, <5>1, <5>3, HeldIsAsked, StoppedIsAsked
      <4> HIDE DEF items
      <4>2. [item |-> n, kind |-> QuestionKind(items[n])] \in clarifications'
        BY <3>1, <4>1 DEF build_clarifications
      <4> QED
        BY <4>2
    <3>3. CASE Lands(cart_ops[n]) /\ ~ Stops(cart_ops[n].item)
      BY <3>1, <3>3, PassedIsConfident
    <3> QED
      BY <3>2, <3>3
  <2>3. CASE escalate_node \/ rag_qa
    BY <2>3 DEF escalate_node, rag_qa, Facts, PathTaken
  <2>4. CASE UNCHANGED vars
    BY <2>4 DEF vars, state, NothingDropped
  <2>5. draft_node \/ clarify_node \/ escalate_node \/ rag_qa \/ UNCHANGED vars
    <3>1. ~ intent_node
      BY DEF intent_node, _route_by_intent, Intent
    <3>2. ~ apply_node
      BY DEF apply_node, _gate_decision, gate
    <3> QED
      BY <3>1, <3>2 DEF Next, NodeStep, NodeRaises, RecordRaises, cart_panel, PanelRemove,
         PanelEdit, PanelInUse, SessionOver, run,
         redact_node, parse_node, resolve_node, add_companions_node,
         check_inventory_node, validate_node, handle_turn
  <2> QED
    BY <2>1, <2>2, <2>3, <2>4, <2>5
<1> QED
  BY <1>1, <1>2, TypeCorrect, FactsHold, PTL DEF Spec

-----------------------------------------------------------------------------
\* Orders carry the number of a turn that has begun, and once this turn's is sent
\* the turn has nothing left to run.
OrdersDated ==
  \A n \in DOMAIN orders :
    orders[n].turn <= turn /\ (orders[n].turn = turn => node \in {"END", "idle"})

\* draft sends one order dated this turn, and there is none of it before.
THEOREM OrdersAreDated == Spec => [](OrdersDated /\ OneOrderPerTurn)
<1> DEFINE Inv == OrdersDated /\ OneOrderPerTurn
<1>1. Init => Inv
  BY DEF Init, OrdersDated, OneOrderPerTurn
<1>2. TypeOK /\ Inv /\ [Next]_vars => Inv'
  <2> SUFFICES ASSUME TypeOK, Inv, [Next]_vars PROVE Inv'
    OBVIOUS
  <2>1. turn \in Nat /\ \A n \in DOMAIN orders : orders[n].turn \in Nat
    <3> DEFINE Order == [turn: Nat, cart: Carts]
    <3>1. orders \in Seq(Order) /\ turn \in Nat
      BY DEF TypeOK
    <3>2. \A order \in Order : order.turn \in Nat
      OBVIOUS
    <3> HIDE DEF Order
    <3> QED
      BY <3>1, <3>2
  <2>2. CASE submit_order /\ node = "draft" /\ node' \in {"END", "idle"}
    <3> DEFINE order == [turn |-> turn, cart |-> draft_cart]
    <3>1. orders' = Append(orders, order) /\ order.turn = turn
      BY <2>2 DEF submit_order
    <3>2. turn' = turn
      BY <2>2 DEF Next, NodeStep, NodeRaises, RecordRaises, cart_panel,
         PanelRemove, PanelEdit, SessionOver, vars, outside,
         run, redact_node, intent_node, parse_node, resolve_node, add_companions_node,
         check_inventory_node, validate_node, apply_node, draft_node, clarify_node,
         escalate_node, rag_qa, handle_turn
    <3>3. \E S : orders \in Seq(S)
      BY DEF TypeOK
    <3> HIDE DEF order
    <3>4. \A n \in DOMAIN orders' :
            \/ n = Len(orders) + 1 /\ orders'[n] = order
            \/ n \in DOMAIN orders /\ orders'[n] = orders[n]
      BY <3>1, <3>3
    <3>5. \A n \in DOMAIN orders : orders[n].turn # turn
      BY <2>2 DEF OrdersDated
    <3> QED
      BY <2>1, <2>2, <3>1, <3>2, <3>4, <3>5 DEF OrdersDated, OneOrderPerTurn
  <2>3. CASE UNCHANGED orders
    <3>1. \/ node' \in {"END", "idle"} /\ turn' = turn
          \/ node \notin {"END", "idle"} /\ turn' = turn
          \/ turn' = turn + 1
      BY DEF Next, NodeStep, NodeRaises, RecordRaises, cart_panel,
         PanelRemove, PanelEdit, SessionOver, vars, outside,
         Nodes, run, redact_node, intent_node, parse_node, resolve_node, add_companions_node,
         check_inventory_node, validate_node, apply_node, draft_node, clarify_node,
         escalate_node, rag_qa, handle_turn
    <3> QED
      BY <2>1, <2>3, <3>1 DEF OrdersDated, OneOrderPerTurn
  <2> QED
    BY <2>2, <2>3, OrdersChange
<1> HIDE DEF Inv
<1>3. Spec => []Inv
  BY <1>1, <1>2, TypeCorrect, PTL DEF Spec
<1> QED
  BY <1>3 DEF Inv

\* A turn sends the supplier at most one order.
THEOREM OneOrder == Spec => []OneOrderPerTurn
<1>1. OrdersDated /\ OneOrderPerTurn => OneOrderPerTurn
  OBVIOUS
<1> QED
  BY <1>1, OrdersAreDated, PTL

(***************************************************************************)
(* The graph implements the desk: its first states are first states of     *)
(* OrderDesk, and each of its steps is a step of OrderDesk or changes      *)
(* nothing the customer can see.                                           *)
(***************************************************************************)

LEMMA InitImplements ==
  ASSUME Init
  PROVE  Desk!DeskInit
<1>1. client.cart \in StartCarts
  BY DEF Init
<1>2. draft_cart = Desk!Empty
  BY DEF Init, EmptyCart, Desk!Empty
<1>3. DeskReceived = <<>>
  BY DEF Init, DeskReceived
<1>4. DeskPhase = "closed" /\ client.panel = {}
  BY DEF Init, DeskPhase
<1> QED
  BY <1>1, <1>2, <1>3, <1>4 DEF Desk!DeskInit

\* What the supplier received grows by the working cart when an order is sent.
LEMMA ReceivedGrows ==
  ASSUME TypeOK, submit_order
  PROVE  DeskReceived' = Append(DeskReceived, draft_cart)
<1> DEFINE order == [turn |-> turn, cart |-> draft_cart]
<1>1. orders' = Append(orders, order) /\ order.cart = draft_cart
  BY DEF submit_order
<1>2. orders \in Seq([turn: Nat, cart: Carts])
  BY DEF TypeOK
<1> HIDE DEF order
<1>3. /\ Len(orders') = Len(orders) + 1
      /\ Len(orders) \in Nat
      /\ DOMAIN orders = 1..Len(orders)
      /\ DOMAIN orders' = 1..(Len(orders) + 1)
      /\ \A n \in DOMAIN orders : orders'[n] = orders[n]
      /\ orders'[Len(orders) + 1] = order
  BY <1>1, <1>2
<1>4. DeskReceived \in Seq(Carts) /\ Len(DeskReceived) = Len(orders)
  <2>1. \A n \in DOMAIN orders : orders[n].cart \in Carts
    <3> DEFINE Order == [turn: Nat, cart: Carts]
    <3>1. orders \in Seq(Order)
      BY <1>2
    <3>2. \A sent \in Order : sent.cart \in Carts
      OBVIOUS
    <3> HIDE DEF Order
    <3> QED
      BY <3>1, <3>2
  <2> QED
    BY <1>3, <2>1 DEF DeskReceived
<1>5. \A n \in 1..Len(orders) : DeskReceived[n] = orders[n].cart
  BY <1>3 DEF DeskReceived
<1> DEFINE longer == Append(DeskReceived, draft_cart)
<1>6. /\ DOMAIN longer = 1..(Len(orders) + 1)
      /\ \A n \in 1..Len(orders) : longer[n] = DeskReceived[n]
      /\ longer[Len(orders) + 1] = draft_cart
      /\ longer = [n \in DOMAIN longer |-> longer[n]]
  <2> DEFINE received == DeskReceived
  <2>1. received \in Seq(Carts) /\ Len(received) = Len(orders) /\ draft_cart \in Carts
    BY <1>4 DEF TypeOK
  <2> HIDE DEF received
  <2>2. Append(received, draft_cart) \in Seq(Carts)
    BY <2>1
  <2>3. /\ DOMAIN Append(received, draft_cart) = 1..(Len(orders) + 1)
        /\ \A n \in 1..Len(orders) : Append(received, draft_cart)[n] = received[n]
        /\ Append(received, draft_cart)[Len(orders) + 1] = draft_cart
    BY <2>1
  <2>4. \A s \in Seq(Carts) : s = [n \in DOMAIN s |-> s[n]]
    OBVIOUS
  <2> QED
    BY <2>2, <2>3, <2>4 DEF received
<1> HIDE DEF longer
<1>7. \A n \in 1..(Len(orders) + 1) : orders'[n].cart = longer[n]
  BY <1>1, <1>3, <1>5, <1>6
<1>8. DeskReceived' = [n \in 1..(Len(orders) + 1) |-> orders'[n].cart]
  BY <1>3 DEF DeskReceived
<1>9. DeskReceived' = longer
  BY <1>6, <1>7, <1>8
<1> QED
  BY <1>9 DEF longer

\* The desk is open while nodes run.
LEMMA OpenInNodes ==
  ASSUME node \in Nodes
  PROVE  DeskPhase = "open"
BY DEF Nodes, DeskPhase

\* A turn begins.
LEMMA RunOpens ==
  ASSUME NEW c \in {client.cart, NULL}, NEW selection \in Selections, run(c, selection)
  PROVE  Desk!Open
<1>1. DeskPhase = "closed" /\ DeskPhase' = "open"
  BY DEF run, DeskPhase
<1>2. draft_cart' \in {client.cart, draft_cart} /\ UNCHANGED <<client, orders>>
  BY DEF run
<1> QED
  BY <1>1, <1>2 DEF Desk!Open, DeskReceived

\* apply changes lines to what can be ordered only.
LEMMA ApplyChanges ==
  ASSUME TypeOK, Facts, CartsAreCounted, apply_node
  PROVE  Desk!Change
<1>1. DeskPhase = "open" /\ DeskPhase' = "open"
  <2>1. node = "apply" /\ node' \in {"clarify", "draft"}
    BY DEF apply_node, _gate_decision, gate
  <2> QED
    BY <2>1 DEF DeskPhase
<1>2. draft_cart' \in Successors(draft_cart)
  BY LandedSuccessor DEF apply_node, CartsAreCounted
<1>3. DOMAIN draft_cart' = SKUs
  BY <1>2 DEF Successors, Carts, CartMaps
<1>4. ASSUME NEW sku \in SKUs
      PROVE  draft_cart'[sku] \in {draft_cart[sku], Absent} \cup DeskLandable[sku]
  <2>1. draft_cart'[sku] \in {draft_cart[sku], Absent} \/ Orderable(sku, draft_cart'[sku])
    BY <1>2 DEF Successors
  <2>2. MinOrder[sku] \in Nat
    BY CatalogAssumption
  <2> QED
    BY <2>1, <2>2 DEF Orderable, DeskLandable
<1>5. UNCHANGED <<client, orders>>
  BY DEF apply_node, outside
<1> QED
  BY <1>1, <1>3, <1>4, <1>5 DEF Desk!Change, DeskReceived

\* draft sends the working cart, or nothing.
LEMMA DraftSends ==
  ASSUME TypeOK, Facts, draft_node
  PROVE  Desk!Send \/ UNCHANGED Desk!deskVars
<1>1. DeskPhase = "open" /\ UNCHANGED <<client, draft_cart, intent>> /\ node' = "END"
  BY DEF draft_node, DeskPhase
<1>2. intent \in {"order", "reorder"}
  BY DEF draft_node, Facts, PathTaken
<1>3. CASE ToSubmit
  <2>1. submit_order /\ status' = "submitted"
    BY <1>3 DEF draft_node
  <2>2. DeskPhase' = "sent"
    BY <1>1, <1>2, <2>1 DEF DeskPhase
  <2>3. DeskReceived' = Append(DeskReceived, draft_cart)
    BY <2>1, ReceivedGrows
  <2>4. draft_cart # Desk!Empty
    BY <1>3 DEF ToSubmit, EmptyCart, Desk!Empty
  <2> QED
    BY <1>1, <2>2, <2>3, <2>4 DEF Desk!Send
<1>4. CASE ~ ToSubmit
  <2>1. UNCHANGED orders /\ status' = "drafted"
    BY <1>4 DEF draft_node
  <2>2. DeskPhase' = "open"
    BY <1>1, <2>1 DEF DeskPhase
  <2> QED
    BY <1>1, <2>1, <2>2 DEF Desk!deskVars, DeskReceived
<1> QED
  BY <1>3, <1>4

\* The other nodes leave what the desk shows alone.
LEMMA NodesStutter ==
  ASSUME Facts,
         \/ redact_node \/ intent_node \/ parse_node \/ resolve_node \/ add_companions_node
         \/ check_inventory_node \/ validate_node \/ clarify_node \/ escalate_node \/ rag_qa
  PROVE  UNCHANGED Desk!deskVars
<1>1. DeskPhase = "open"
  BY OpenInNodes DEF Nodes, redact_node, intent_node, parse_node, resolve_node,
     add_companions_node, check_inventory_node, validate_node, clarify_node, escalate_node, rag_qa
<1>2. DeskPhase' = "open"
  <2>1. CASE redact_node \/ parse_node \/ resolve_node \/ add_companions_node
             \/ check_inventory_node \/ validate_node
    BY <2>1 DEF redact_node, parse_node, resolve_node, add_companions_node,
       check_inventory_node, validate_node, DeskPhase
  <2>2. CASE intent_node
    BY <2>2 DEF intent_node, _route_by_intent, DeskPhase
  <2>3. CASE clarify_node
    BY <2>3 DEF clarify_node, DeskPhase
  <2>4. CASE escalate_node \/ rag_qa
    BY <2>4 DEF escalate_node, rag_qa, DeskPhase, Facts, PathTaken
  <2> QED
    BY <2>1, <2>2, <2>3, <2>4
<1>3. UNCHANGED <<client, draft_cart, orders>>
  BY DEF outside, redact_node, intent_node, parse_node, resolve_node, add_companions_node,
     check_inventory_node, validate_node, clarify_node, escalate_node, rag_qa
<1> QED
  BY <1>1, <1>2, <1>3 DEF Desk!deskVars, DeskReceived

\* The turn's cart becomes the one shown.
LEMMA HandleCloses ==
  ASSUME TypeOK, handle_turn
  PROVE  Desk!Close
<1>1. DeskPhase \in {"open", "sent"} /\ DeskPhase' = "closed"
  BY DEF handle_turn, DeskPhase
<1>2. client'.cart = draft_cart /\ client'.panel = client.panel
  BY DEF handle_turn, TypeOK
<1>3. UNCHANGED <<draft_cart, orders>>
  BY DEF handle_turn, state
<1> QED
  BY <1>1, <1>2, <1>3 DEF Desk!Close, DeskReceived

\* A turn that cannot be recorded closes the desk and shows nothing; its order, if
\* it had one, was sent.
LEMMA RecordFails ==
  ASSUME RecordRaises
  PROVE  Desk!Fail
<1>1. DeskPhase \in {"open", "sent"} /\ DeskPhase' = "closed"
  BY DEF RecordRaises, DeskPhase
<1>2. UNCHANGED <<client, draft_cart, orders>>
  BY DEF RecordRaises, state, outside
<1> QED
  BY <1>1, <1>2 DEF Desk!Fail, DeskReceived

\* A node's failure closes the desk; at worst the order had arrived.
LEMMA RaiseFails ==
  ASSUME TypeOK, NodeRaises
  PROVE  Desk!Fail
<1>1. DeskPhase = "open" /\ DeskPhase' = "closed"
  BY OpenInNodes DEF NodeRaises, DeskPhase
<1>2. UNCHANGED <<client, draft_cart>>
  BY DEF NodeRaises, state
<1>3. DeskReceived' \in {DeskReceived} \cup {Append(DeskReceived, c) : c \in {draft_cart} \ {Desk!Empty}}
  <2>1. CASE UNCHANGED orders
    BY <2>1 DEF DeskReceived
  <2>2. CASE ToSubmit /\ submit_order
    <3>1. draft_cart # Desk!Empty
      BY <2>2 DEF ToSubmit, EmptyCart, Desk!Empty
    <3> QED
      BY <2>2, <3>1, ReceivedGrows
  <2> QED
    BY <2>1, <2>2 DEF NodeRaises
<1> QED
  BY <1>1, <1>2, <1>3 DEF Desk!Fail

\* The panel is drawn from the cart shown.
LEMMA PanelDraws ==
  ASSUME TypeOK, cart_panel
  PROVE  Desk!Draw
<1>1. DeskPhase = "closed" /\ DeskPhase' = "closed"
  BY DEF cart_panel, PanelInUse, DeskPhase
<1>2. /\ client'.cart = client.cart
      /\ client'.panel = {sku \in SKUs : client.cart[sku] # Absent}
  BY DEF cart_panel, TypeOK
<1>3. UNCHANGED <<draft_cart, orders>>
  BY DEF cart_panel, state
<1> QED
  BY <1>1, <1>2, <1>3 DEF Desk!Draw, DeskReceived

\* The panel edits one line of those it shows.
LEMMA PanelEdits ==
  ASSUME TypeOK, CartsAreCounted, NEW sku \in SKUs,
         PanelRemove(sku) \/ \E delta \in {-1, 1} : PanelEdit(sku, delta)
  PROVE  Desk!EditLine(sku)
<1>1. DeskPhase = "closed" /\ DeskPhase' = "closed" /\ UNCHANGED <<draft_cart, orders>>
  BY DEF PanelRemove, PanelEdit, PanelInUse, DeskPhase, state
<1>2. sku \in client.panel /\ client'.panel = client.panel
  BY DEF PanelRemove, PanelEdit, TypeOK
<1>3. UNCHANGED DeskReceived
  BY <1>1 DEF DeskReceived
<1>4. CASE client'.cart = [client.cart EXCEPT ![sku] = Absent]
  BY <1>1, <1>2, <1>3, <1>4 DEF Desk!EditLine
<1>5. CASE PanelRemove(sku)
  BY <1>4, <1>5 DEF PanelRemove, TypeOK
<1>6. ASSUME NEW delta \in {-1, 1}, PanelEdit(sku, delta)
      PROVE  Desk!EditLine(sku)
  <2> DEFINE stepped == CasesOf(client.cart, sku) + delta
  <2>1. client'.cart = [client.cart EXCEPT ![sku] = IF stepped < 1 THEN Absent ELSE stepped]
    BY <1>6 DEF PanelEdit, TypeOK
  <2>2. stepped = Desk!Cases(sku) + delta /\ stepped \in Int
    <3>1. /\ CasesOf(client.cart, sku) = Desk!Cases(sku)
          /\ CasesOf(client.cart, sku) \in Nat
      BY CasesCounted DEF CartsAreCounted, Desk!Cases
    <3> QED
      BY <3>1
  <2> HIDE DEF stepped
  <2>3. CASE stepped < 1
    BY <1>4, <2>1, <2>3
  <2>4. CASE stepped >= 1
    <3>1. client'.cart = [client.cart EXCEPT ![sku] = stepped]
      BY <2>1, <2>2, <2>4
    <3>2. /\ Desk!Cases(sku) + delta >= 1
          /\ client'.cart = [client.cart EXCEPT ![sku] = Desk!Cases(sku) + delta]
      BY <2>2, <2>4, <3>1
    <3> QED
      BY <1>1, <1>2, <1>3, <3>2 DEF Desk!EditLine
  <2> QED
    BY <2>2, <2>3, <2>4
<1> QED
  BY <1>5, <1>6

(***************************************************************************)
(* The customer may rely on the desk, whatever the language model, the     *)
(* stock and the failures of a session.                                    *)
(***************************************************************************)
THEOREM DeskImplemented == Spec => ImplementsDesk
<1>1. Init => Desk!DeskInit
  BY InitImplements
<1>2. TypeOK /\ Facts /\ CartsAreCounted /\ [Next]_vars => [Desk!DeskNext]_(Desk!deskVars)
  <2> SUFFICES ASSUME TypeOK, Facts, CartsAreCounted, [Next]_vars
               PROVE  Desk!DeskNext \/ UNCHANGED Desk!deskVars
    OBVIOUS
  <2>1. ASSUME NEW c \in {client.cart, NULL}, NEW selection \in Selections, run(c, selection)
        PROVE  Desk!DeskNext
    BY <2>1, RunOpens DEF Desk!DeskNext
  <2>2. CASE apply_node
    BY <2>2, ApplyChanges DEF Desk!DeskNext
  <2>3. CASE draft_node
    BY <2>3, DraftSends DEF Desk!DeskNext
  <2>4. CASE \/ redact_node \/ intent_node \/ parse_node \/ resolve_node \/ add_companions_node
             \/ check_inventory_node \/ validate_node \/ clarify_node \/ escalate_node \/ rag_qa
    BY <2>4, NodesStutter
  <2>5. CASE handle_turn
    BY <2>5, HandleCloses DEF Desk!DeskNext
  <2>6. CASE NodeRaises
    BY <2>6, RaiseFails DEF Desk!DeskNext
  <2>7. ASSUME NEW sku \in SKUs,
               PanelRemove(sku) \/ \E delta \in {-1, 1} : PanelEdit(sku, delta)
        PROVE  Desk!DeskNext
    BY <2>7, PanelEdits DEF Desk!DeskNext
  <2>8. CASE RecordRaises
    BY <2>8, RecordFails DEF Desk!DeskNext
  <2>9. CASE cart_panel
    BY <2>9, PanelDraws DEF Desk!DeskNext
  <2>10. CASE UNCHANGED vars
    BY <2>10 DEF vars, state, outside, Desk!deskVars, DeskReceived, DeskPhase
  <2> QED
    BY <2>1, <2>2, <2>3, <2>4, <2>5, <2>6, <2>7, <2>8, <2>9, <2>10
       DEF Next, NodeStep, SessionOver
<1> QED
  BY <1>1, <1>2, TypeCorrect, FactsHold, CartsCounted, PTL DEF Spec, ImplementsDesk, Desk!Spec
=============================================================================
