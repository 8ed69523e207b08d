------------------------- MODULE OrderGraphReplies -------------------------
(***************************************************************************)
(* The reply tells of this turn, and what it offers fits the cart.  The    *)
(* checkpoint hands a turn the outputs of the one before, and              *)
(* _compose_reply takes the first it finds; so the first proof follows the *)
(* outputs from where run clears them to the end of each path.  The second *)
(* part is about the companions of a line: what is accepted and offered.   *)
(***************************************************************************)
EXTENDS OrderGraphSafety

\* Until a path ends nothing has been said, and redact has reset the status.
NothingSaid ==
  /\ node \in Nodes =>
       handoff = NULL /\ answer = NULL /\ confirmation = NULL /\ clarifications = {}
  /\ node \in Nodes \ {"redact"} => status = "parsing"

\* The clarifying node has something to ask about.
GateStopped == node = "clarify" => \E n \in DOMAIN cart_ops : Stops(cart_ops[n].item)

\* What each path has left when it ends.
PathEnded ==
  node = "END" =>
    \/ /\ intent = "escalate" /\ status = "escalated"
       /\ handoff # NULL /\ answer = NULL /\ confirmation = NULL /\ clarifications = {}
    \/ /\ intent = "question" /\ status = "parsing"
       /\ handoff = NULL /\ confirmation = NULL /\ clarifications = {}
    \/ /\ intent \in {"order", "reorder"} /\ status = "needs_clarification"
       /\ handoff = NULL /\ answer = NULL /\ confirmation = NULL /\ clarifications # {}
    \/ /\ intent \in {"order", "reorder"} /\ status = "drafted"
       /\ handoff = NULL /\ answer = NULL /\ confirmation = NULL /\ clarifications = {}
    \/ /\ intent \in {"order", "reorder"} /\ status = "submitted"
       /\ handoff = NULL /\ answer = NULL /\ confirmation # NULL /\ clarifications = {}
       /\ draft_cart # EmptyCart(SKUs)

\* A confirmation is of the order the supplier got in this turn.
OrderConfirmed ==
  node = "END" =>
    /\ confirmation # NULL <=> \E n \in DOMAIN orders : orders[n].turn = turn
    /\ \A n \in DOMAIN orders : orders[n].turn = turn => orders[n].cart = draft_cart

Said == NothingSaid /\ GateStopped /\ PathEnded /\ OrderConfirmed

\* No order of the running turn has been sent before its end.
Unsent == node \in Nodes => \A n \in DOMAIN orders : orders[n].turn # turn

LEMMA DatedUnsent ==
  ASSUME OrdersDated
  PROVE  Unsent
BY DEF OrdersDated, Unsent, Nodes

\* The nodes before the end of a path say nothing.
LEMMA SaidOnTheWay ==
  ASSUME TypeOK, Said,
         \/ \E c \in {client.cart, NULL}, selection \in Selections : run(c, selection)
         \/ redact_node \/ intent_node \/ parse_node \/ resolve_node \/ add_companions_node
         \/ check_inventory_node \/ validate_node \/ apply_node
  PROVE  Said'
<1>1. node' \in Nodes \ {"redact", "clarify"} \/ (node' = "redact" \/ apply_node)
  BY DEF run, redact_node, intent_node, parse_node, resolve_node, add_companions_node,
         check_inventory_node, validate_node, _route_by_intent, Nodes
<1>2. node' \in Nodes
  BY DEF run, redact_node, intent_node, parse_node, resolve_node, add_companions_node,
         check_inventory_node, validate_node, apply_node, _route_by_intent, _gate_decision, gate,
         Nodes
<1>3. NothingSaid'
  <2>1. handoff' = NULL /\ answer' = NULL /\ confirmation' = NULL /\ clarifications' = {}
    BY DEF Said, NothingSaid, Nodes, run, ClearOutputs, redact_node, intent_node, parse_node,
       resolve_node, add_companions_node, check_inventory_node, validate_node, apply_node
  <2>2. node' # "redact" => status' = "parsing"
    BY DEF Said, NothingSaid, Nodes, run, redact_node, intent_node, parse_node, resolve_node,
       add_companions_node, check_inventory_node, validate_node, apply_node
  <2> QED
    BY <2>1, <2>2 DEF NothingSaid
<1>4. GateStopped'
  <2>1. CASE apply_node /\ node' = "clarify"
    BY <2>1 DEF apply_node, _gate_decision, gate, GateStopped
  <2>2. CASE node' # "clarify"
    BY <2>2 DEF GateStopped
  <2> QED
    BY <1>1, <2>1, <2>2
<1> QED
  BY <1>2, <1>3, <1>4 DEF Said, PathEnded, OrderConfirmed, Nodes

\* The four ends.
LEMMA SaidAtTheEnd ==
  ASSUME TypeOK, Facts, Said, Unsent, draft_node \/ clarify_node \/ escalate_node \/ rag_qa
  PROVE  Said'
<1>1. node \in Nodes \ {"redact"} /\ node' = "END"
  BY DEF draft_node, clarify_node, escalate_node, rag_qa, Nodes
<1>2. /\ handoff = NULL /\ answer = NULL /\ confirmation = NULL /\ clarifications = {}
      /\ status = "parsing"
  BY <1>1 DEF Said, NothingSaid
<1>3. NothingSaid' /\ GateStopped'
  BY <1>1 DEF NothingSaid, GateStopped, Nodes
<1>4. turn' = turn
  BY DEF draft_node, clarify_node, escalate_node, rag_qa, outside
<1>5. CASE draft_node /\ ToSubmit
  <2>1. /\ intent' \in {"order", "reorder"} /\ status' = "submitted" /\ confirmation' = draft_cart
        /\ draft_cart' = draft_cart /\ draft_cart # EmptyCart(SKUs) /\ submit_order
        /\ UNCHANGED <<handoff, answer, clarifications>>
    BY <1>5 DEF draft_node, ToSubmit, Facts, PathTaken
  <2>2. draft_cart # NULL
    BY OrderGraphAssumption DEF TypeOK
  <2>3. PathEnded'
    BY <1>2, <2>1, <2>2 DEF PathEnded
  <2>4. OrderConfirmed'
    <3> DEFINE order == [turn |-> turn, cart |-> draft_cart]
    <3>1. orders' = Append(orders, order) /\ order.turn = turn /\ order.cart = draft_cart
      BY <2>1 DEF submit_order
    <3>2. \E S : orders \in Seq(S)
      BY DEF TypeOK
    <3> HIDE DEF order
    <3>3. /\ Len(orders) + 1 \in DOMAIN orders' /\ orders'[Len(orders) + 1] = order
          /\ \A n \in DOMAIN orders' :
               \/ orders'[n] = order
               \/ n \in DOMAIN orders /\ orders'[n] = orders[n]
      BY <3>1, <3>2
    <3>4. \A n \in DOMAIN orders : orders[n].turn # turn
      BY <1>1 DEF Unsent
    <3> QED
      BY <1>4, <2>1, <2>2, <3>1, <3>3, <3>4 DEF OrderConfirmed
  <2> QED
    BY <1>3, <2>3, <2>4 DEF Said
<1>6. CASE ~ (draft_node /\ ToSubmit)
  <2>1. UNCHANGED <<orders, confirmation>>
    BY <1>6 DEF draft_node, clarify_node, escalate_node, rag_qa, outside
  <2>2. OrderConfirmed'
    BY <1>1, <1>2, <1>4, <2>1 DEF OrderConfirmed, Unsent
  <2>3. ASSUME draft_node PROVE PathEnded'
    <3>1. intent \in {"order", "reorder"}
      BY <2>3 DEF draft_node, Facts, PathTaken
    <3>2. status' = "drafted" /\ UNCHANGED <<intent, handoff, answer, confirmation, clarifications>>
      BY <1>6, <2>3 DEF draft_node
    <3> QED
      BY <1>2, <3>1, <3>2 DEF PathEnded
  <2>4. ASSUME clarify_node PROVE PathEnded'
    <3> DEFINE items == [n \in DOMAIN cart_ops |-> cart_ops[n].item]
    <3>1. PICK n \in DOMAIN cart_ops : Stops(cart_ops[n].item)
      BY <2>4 DEF Said, GateStopped, clarify_node
    <3>2. cart_ops[n].item \in LineItem
      <4>1. cart_ops[n] \in CartOp
        BY <3>1 DEF TypeOK
      <4> QED
        BY <4>1 DEF CartOp
    <3>3. n \in DOMAIN items /\ QuestionKind(items[n]) # "none"
      BY <3>1, <3>2, StoppedIsAsked
    <3>4. clarifications' = build_clarifications(items)
      BY <2>4 DEF clarify_node
    <3> HIDE DEF items
    <3>5. clarifications' # {}
      BY <3>3, <3>4 DEF build_clarifications
    <3>6. intent \in {"order", "reorder"}
      BY <2>4 DEF clarify_node, Facts, PathTaken
    <3>7. /\ status' = "needs_clarification"
          /\ UNCHANGED <<intent, handoff, answer, confirmation>>
      BY <2>4 DEF clarify_node
    <3> QED
      BY <1>2, <3>5, <3>6, <3>7 DEF PathEnded
  <2>5. ASSUME escalate_node PROVE PathEnded'
    <3>1. handoff' # NULL
      <4>1. tickets + 1 \in Int /\ handoff' = tickets + 1
        BY <2>5 DEF escalate_node, TypeOK
      <4> QED
        BY <4>1, ValuesAssumption
    <3>2. intent = "escalate"
      BY <2>5 DEF escalate_node, Facts, PathTaken
    <3>3. status' = "escalated" /\ UNCHANGED <<intent, answer, confirmation, clarifications>>
      BY <2>5 DEF escalate_node
    <3> QED
      BY <1>2, <3>1, <3>2, <3>3 DEF PathEnded
  <2>6. ASSUME rag_qa PROVE PathEnded'
    <3>1. intent = "question"
      BY <2>6 DEF rag_qa, Facts, PathTaken
    <3>2. UNCHANGED <<intent, status, handoff, confirmation, clarifications>>
      BY <2>6 DEF rag_qa
    <3> QED
      BY <1>2, <3>1, <3>2 DEF PathEnded
  <2>7. PathEnded'
    BY <2>3, <2>4, <2>5, <2>6
  <2> QED
    BY <1>3, <2>2, <2>7 DEF Said
<1> QED
  BY <1>5, <1>6

\* The invariant: what has been said so far is of this turn.
THEOREM SaidHolds == Spec => []Said
<1>1. Init => Said
  BY DEF Init, Said, NothingSaid, GateStopped, PathEnded, OrderConfirmed, Nodes
<1>2. TypeOK /\ Facts /\ OrdersDated /\ OneOrderPerTurn /\ Said /\ [Next]_vars => Said'
  <2> SUFFICES ASSUME TypeOK, Facts, OrdersDated, Said, [Next]_vars PROVE Said'
    OBVIOUS
  <2>1. CASE \/ \E c \in {client.cart, NULL}, selection \in Selections : run(c, selection)
             \/ redact_node \/ intent_node \/ parse_node \/ resolve_node \/ add_companions_node
             \/ check_inventory_node \/ validate_node \/ apply_node
    BY <2>1, SaidOnTheWay
  <2>2. CASE draft_node \/ clarify_node \/ escalate_node \/ rag_qa
    BY <2>2, DatedUnsent, SaidAtTheEnd
  <2>3. CASE node' = "idle"
    BY <2>3 DEF Said, NothingSaid, GateStopped, PathEnded, OrderConfirmed, Nodes
  <2>4. CASE UNCHANGED vars
    BY <2>4 DEF vars, state, outside, Said, NothingSaid, GateStopped, PathEnded, OrderConfirmed
  <2> QED
    BY <2>1, <2>2, <2>3, <2>4 DEF Next, NodeStep, SessionOver, NodeRaises, RecordRaises,
       handle_turn, cart_panel, PanelRemove, PanelEdit, PanelInUse
<1> QED
  BY <1>1, <1>2, TypeCorrect, FactsHold, OrdersAreDated, PTL DEF Spec

(***************************************************************************)
(* The reply is about this turn, whatever the turns before it left.        *)
(***************************************************************************)
THEOREM RepliesAreOfThisTurn == Spec => ReplyTellsThisTurn
<1>1. TypeOK /\ Said /\ [Next]_vars => [TellsThisTurn]_vars
  <2> SUFFICES ASSUME TypeOK, Said, handle_turn PROVE TellsThisTurn
    BY DEF TellsThisTurn
  <2>1. node = "END"
    BY DEF handle_turn
  <2>2. client'.reply = _compose_reply /\ client'.cart = draft_cart
    BY DEF handle_turn, TypeOK
  <2>3. /\ confirmation # NULL <=> \E n \in DOMAIN orders : orders[n].turn = turn
        /\ \A n \in DOMAIN orders : orders[n].turn = turn => orders[n].cart = draft_cart
    BY <2>1 DEF Said, OrderConfirmed
  <2>4. NULL # "text"
    BY OrderGraphAssumption
  <2>5. /\ _compose_reply = "handoff" <=> intent = "escalate"
        /\ _compose_reply = "answer" => intent = "question"
        /\ _compose_reply = "questions" <=> status = "needs_clarification"
        /\ _compose_reply = "confirmed" <=> confirmation # NULL
    <3>1. CASE /\ intent = "escalate" /\ status = "escalated"
               /\ handoff # NULL /\ confirmation = NULL
      <4>1. _compose_reply = "handoff"
        BY <3>1 DEF _compose_reply
      <4> QED
        BY <3>1, <4>1
    <3>2. CASE /\ intent = "question" /\ status = "parsing"
               /\ handoff = NULL /\ confirmation = NULL /\ clarifications = {}
      <4>1. _compose_reply \in {"answer", "empty", "draft"}
        BY <3>2 DEF _compose_reply
      <4> QED
        BY <3>2, <4>1
    <3>3. CASE /\ intent \in {"order", "reorder"} /\ status = "needs_clarification"
               /\ handoff = NULL /\ answer = NULL /\ confirmation = NULL
               /\ clarifications # {}
      <4>1. _compose_reply = "questions"
        BY <2>4, <3>3 DEF _compose_reply
      <4> QED
        BY <3>3, <4>1
    <3>4. CASE /\ intent \in {"order", "reorder"} /\ status = "drafted"
               /\ handoff = NULL /\ answer = NULL /\ confirmation = NULL
               /\ clarifications = {}
      <4>1. _compose_reply \in {"empty", "draft"}
        BY <2>4, <3>4 DEF _compose_reply
      <4> QED
        BY <3>4, <4>1
    <3>5. CASE /\ intent \in {"order", "reorder"} /\ status = "submitted"
               /\ handoff = NULL /\ answer = NULL /\ confirmation # NULL
               /\ clarifications = {} /\ draft_cart # EmptyCart(SKUs)
      <4>1. _compose_reply = "confirmed"
        BY <2>4, <3>5 DEF _compose_reply
      <4> QED
        BY <3>5, <4>1
    <3> QED
      BY <2>1, <3>1, <3>2, <3>3, <3>4, <3>5 DEF Said, PathEnded
  <2> QED
    BY <2>2, <2>3, <2>5 DEF TellsThisTurn
<1>2. Spec => [][TellsThisTurn]_vars
  BY <1>1, TypeCorrect, SaidHolds, PTL DEF Spec
<1> QED
  BY <1>2 DEF ReplyTellsThisTurn

-----------------------------------------------------------------------------
(***************************************************************************)
(* Offers and acceptances.  Both look at previews of the cart, taken       *)
(* before the turn's operations land: what follows is about which changes  *)
(* to the operations leave the preview alone, and what the others do.      *)
(***************************************************************************)

\* A cart as the resolved operations would leave it; Effective is the current one.
Preview(cart, ops) == EditTaken(cart, EditsOf(ops), Resolved(ops))

LEMMA EffectiveIs == Effective = Preview(draft_cart, cart_ops)
BY DEF Effective, Preview

\* Flags, stock and offers are no part of a preview.
LEMMA PreviewSame ==
  ASSUME NEW ops, NEW other, DOMAIN other = DOMAIN ops,
         \A n \in DOMAIN ops : /\ other[n].op = ops[n].op
                               /\ other[n].item.sku = ops[n].item.sku
                               /\ other[n].item.quantity = ops[n].item.quantity
  PROVE  \A cart : Preview(cart, other) = Preview(cart, ops)
<1>1. EditsOf(other) = EditsOf(ops)
  BY DEF EditsOf
<1>2. Resolved(other) = Resolved(ops)
  BY DEF Resolved
<1> QED
  BY <1>1, <1>2 DEF Preview

LEMMA PreviewType ==
  ASSUME NEW cart \in Carts, NEW ops \in Seq(CartOp)
  PROVE  Preview(cart, ops) \in Carts
<1>1. /\ Len(EditsOf(ops)) \in Nat
      /\ \A n \in Resolved(ops) : EditsOf(ops)[n] \in Edits(SKUs)
  BY EditsOfType
<1> QED
  BY <1>1, EditTakenType DEF Preview, Carts

\* One resolved operation more changes its own line.
LEMMA PreviewAppend ==
  ASSUME NEW cart \in Carts, NEW ops \in Seq(CartOp), NEW op \in CartOp, op.item.sku # NULL
  PROVE  Preview(cart, Append(ops, op)) =
           [Preview(cart, ops) EXCEPT ![op.item.sku] = EditedQuantity(@, op.op, op.item.quantity)]
<1> DEFINE more == Append(ops, op)
           m == Len(ops)
<1>1. /\ m \in Nat /\ DOMAIN ops = 1..m
      /\ more \in Seq(CartOp) /\ DOMAIN more = 1..(m + 1) /\ Len(more) = m + 1
      /\ \A n \in 1..m : more[n] = ops[n]
      /\ more[m + 1] = op
  OBVIOUS
<1> HIDE DEF more, m
<1>2. Len(EditsOf(ops)) = m /\ Len(EditsOf(more)) = m + 1
  BY <1>1 DEF EditsOf
<1>3. \A n \in 1..m : n \in 1..(m + 1) /\ EditsOf(more)[n] = EditsOf(ops)[n]
  BY <1>1 DEF EditsOf
<1>4. \A n \in 1..(m + 1) : n \in 1..m \/ n = m + 1
  BY <1>1
<1>5. m + 1 \in 1..(m + 1)
  BY <1>1
<1>6. Resolved(ops) \subseteq 1..m /\ Resolved(more) = Resolved(ops) \cup {m + 1}
  BY <1>1, <1>3, <1>4, <1>5 DEF Resolved
<1>7. \A n \in Resolved(more) : EditsOf(more)[n] \in Edits(SKUs)
  BY <1>1, EditsOfType
<1>8. OneMore(SKUs, EditsOf(ops), Resolved(ops), EditsOf(more), Resolved(more), m)
  BY <1>2, <1>3, <1>6, <1>7 DEF OneMore
<1>9. Preview(cart, more) = EditOne(Preview(cart, ops), EditsOf(more)[m + 1])
  BY <1>1, <1>8, EditTakenExtends DEF Preview, Carts
<1>10. EditsOf(more)[m + 1] = [op |-> op.op, key |-> op.item.sku, quantity |-> op.item.quantity]
  BY <1>1, <1>5 DEF EditsOf
<1> QED
  BY <1>9, <1>10 DEF EditOne, more

\* The cases companion_case_count gives cover the units, and no fewer, but one, do.
LEMMA LeastCover ==
  ASSUME NEW units \in Int, NEW pack \in Nat \ {0}
  PROVE  LET cases == companion_case_count(units, pack)
         IN  /\ cases \in Nat \ {0}
             /\ cases * pack >= units
             /\ \A fewer \in Nat \ {0} : fewer * pack >= units => cases <= fewer
<1> DEFINE q == (-units) \div pack
           cases == companion_case_count(units, pack)
<1>1. /\ q \in Int /\ q * pack <= -units /\ -units < q * pack + pack
  OBVIOUS
<1>2. cases = IF -q < 1 THEN 1 ELSE -q
  BY DEF companion_case_count, CeilDiv
<1> HIDE DEF q, cases
<1>3. (-q) * pack = -(q * pack) /\ q * pack \in Int /\ pack \in Int
  BY <1>1
<1>4. cases \in Nat \ {0}
  BY <1>1, <1>2
<1>5. cases * pack >= units
  <2>1. CASE -q < 1
    <3>1. q >= 0 /\ q * pack >= 0
      BY <1>1, <2>1
    <3> QED
      BY <1>1, <1>2, <1>3, <2>1, <3>1
  <2>2. CASE ~ (-q < 1)
    BY <1>1, <1>2, <1>3, <2>2
  <2> QED
    BY <2>1, <2>2
<1>6. ASSUME NEW fewer \in Nat \ {0}, fewer * pack >= units PROVE cases <= fewer
  <2> SUFFICES ASSUME fewer < cases PROVE FALSE
    BY <1>4
  <2>1. cases = -q /\ fewer <= -q - 1
    BY <1>1, <1>2
  <2>2. fewer * pack <= (-q - 1) * pack
    BY <1>1, <2>1
  <2>3. (-q - 1) * pack = -(q * pack) - pack
    BY <1>1
  <2> QED
    BY <1>1, <1>3, <1>6, <2>2, <2>3
<1> QED
  BY <1>4, <1>5, <1>6 DEF cases

(***************************************************************************)
(* The case count of companion_case_count is exact: the offer of a         *)
(* companion is open exactly as long as the cart has too few units of it   *)
(* for the lines it pairs with, or no case of it at all.                   *)
(***************************************************************************)
THEOREM OpenMeansTooFew ==
  ASSUME NEW cart \in Carts, NEW companion \in SKUs, Parents(cart, companion) # {}
  PROVE  companion \in _undercovered_companions(cart) <=>
           \/ CasesOf(cart, companion) * CasePack[companion] < ParentUnits(cart, companion)
           \/ CasesOf(cart, companion) < 1
<1> DEFINE cases == CasesOf(cart, companion)
           pack == CasePack[companion]
           units == ParentUnits(cart, companion)
           needed == NeededCases(cart, companion)
<1>1. pack \in Nat \ {0} /\ units \in Int
  BY CatalogAssumption, ParentUnitsType
<1>2. cases \in Int
  <2>1. cart[companion] \in OptionalInt \cup {Absent}
    BY DEF Carts, CartMaps
  <2> QED
    BY <2>1 DEF CasesOf, OrZero, OptionalInt
<1>3. /\ needed \in Nat \ {0}
      /\ needed * pack >= units
      /\ \A fewer \in Nat \ {0} : fewer * pack >= units => needed <= fewer
  BY <1>1, LeastCover DEF NeededCases
<1>4. companion \in _undercovered_companions(cart) <=> needed > cases
  BY DEF _undercovered_companions
<1> HIDE DEF cases, pack, units, needed
<1>5. ASSUME needed <= cases PROVE cases * pack >= units /\ cases >= 1
  <2>1. cases * pack >= needed * pack
    BY <1>1, <1>2, <1>3, <1>5
  <2>2. cases * pack \in Int /\ needed * pack \in Int
    BY <1>1, <1>2, <1>3
  <2> QED
    BY <1>1, <1>2, <1>3, <1>5, <2>1, <2>2
<1>6. ASSUME cases * pack >= units, cases >= 1 PROVE needed <= cases
  BY <1>2, <1>3, <1>6
<1>7. cases * pack \in Int
  BY <1>1, <1>2
<1> QED
  BY <1>1, <1>2, <1>3, <1>4, <1>5, <1>6, <1>7 DEF cases, pack, units

(***************************************************************************)
(* Accepted add-ons.                                                       *)
(***************************************************************************)

\* The lines add_companions adds, and the operation for one.
Taken == {sku \in SKUs : sku \in _undercovered_companions(Effective) /\ Accepted(sku)}

AddOn(sku) == [op |-> "set_quantity", item |-> _line_from_catalog(sku, CompanionCases(sku))]

LEMMA AddOnIs ==
  ASSUME TypeOK, NEW sku \in Taken
  PROVE  /\ AddOn(sku) \in CartOp /\ AddOn(sku).op = "set_quantity"
         /\ AddOn(sku).item.sku = sku /\ AddOn(sku).item.quantity = CompanionCases(sku)
         /\ accepted_companions[NameOf[sku]] = NULL => CompanionCases(sku) = NeededCases(Effective, sku)
         /\ CompanionCases(sku) \in Int /\ CompanionCases(sku) # NULL
<1>1. sku \in SKUs /\ Accepted(sku) /\ NameOf[sku] \in Names
  BY CatalogAssumption DEF Taken
<1>2. accepted_companions[NameOf[sku]] \in OptionalInt
  BY <1>1 DEF Accepted, TypeOK
<1>3. NeededCases(Effective, sku) \in Nat \ {0}
  BY <1>1, EffectiveType, NeededCasesType DEF TypeOK
<1>4. CompanionCases(sku) \in Int /\ CompanionCases(sku) # NULL
  BY <1>2, <1>3, ValuesAssumption DEF CompanionCases, OptionalInt
<1>5. _line_from_catalog(sku, CompanionCases(sku)) \in LineItem
  BY <1>1, <1>4, LineFromCatalogType DEF OptionalInt
<1>6. /\ _line_from_catalog(sku, CompanionCases(sku)).sku = sku
      /\ _line_from_catalog(sku, CompanionCases(sku)).quantity = CompanionCases(sku)
  BY DEF _line_from_catalog, ParsedLine
<1>7. accepted_companions[NameOf[sku]] = NULL => CompanionCases(sku) = NeededCases(Effective, sku)
  BY DEF CompanionCases
<1> QED
  BY <1>4, <1>5, <1>6, <1>7 DEF AddOn, CartOp, CartOpKind

\* The cart they make: each of them set to its cases, the rest as it would be.
LEMMA AddOnsPreview ==
  ASSUME TypeOK
  PROVE  LET ops == Iterate(cart_ops, CompanionPass)[Len(CatalogOrder)]
         IN  \A sku \in SKUs : Preview(draft_cart, ops)[sku] =
                                 IF sku \in Taken THEN CompanionCases(sku) ELSE Effective[sku]
<1> DEFINE ops == Iterate(cart_ops, CompanionPass)
           Seen(i) == {CatalogOrder[n] : n \in (1..i) \cap DOMAIN CatalogOrder}
           T == {i \in Nat : \A sku \in SKUs : Preview(draft_cart, ops[i])[sku] =
                               IF sku \in Taken \cap Seen(i) THEN CompanionCases(sku)
                               ELSE Effective[sku]}
<1>1. /\ ops \in [Nat -> Seq(CartOp)] /\ ops[0] = cart_ops
      /\ \A i \in Nat : ops[i + 1] = CompanionPass[i + 1][ops[i]]
  <2>1. cart_ops \in Seq(CartOp)
    BY DEF TypeOK
  <2>2. CompanionPass \in [Nat -> [Seq(CartOp) -> Seq(CartOp)]]
    BY CompanionPassType DEF TypeOK
  <2> DEFINE S == Seq(CartOp)
             start == cart_ops
             pass == CompanionPass
  <2>3. start \in S /\ pass \in [Nat -> [S -> S]]
    BY <2>1, <2>2
  <2> HIDE DEF T, S, start, pass
  <2>4. /\ Iterate(start, pass) \in [Nat -> S] /\ Iterate(start, pass)[0] = start
        /\ \A i \in Nat : Iterate(start, pass)[i + 1] = pass[i + 1][Iterate(start, pass)[i]]
    BY <2>3, IterateUnfolds
  <2> QED
    BY <2>4 DEF S, start, pass
<1>7. ASSUME NEW n \in Nat, NEW taken \in Seq(CartOp)
      PROVE  CompanionPass[n][taken] =
               IF n \in DOMAIN CatalogOrder /\ CatalogOrder[n] \in Taken
               THEN Append(taken, AddOn(CatalogOrder[n])) ELSE taken
  <2>1. n \in DOMAIN CatalogOrder => CatalogOrder[n] \in SKUs
    BY CatalogAssumption
  <2> QED
    BY <2>1 DEF CompanionPass, Taken, AddOn
<1> HIDE DEF ops
<1>2. Seen(0) = {}
  OBVIOUS
<1>3. T \in SUBSET Nat /\ 0 \in T
  BY <1>1, <1>2, EffectiveIs
<1>4. ASSUME NEW i \in Nat, i \in T PROVE i + 1 \in T
  <2> DEFINE sku == CatalogOrder[i + 1]
             old == Preview(draft_cart, ops[i])
             new == Preview(draft_cart, ops[i + 1])
  <2>1. ops[i] \in Seq(CartOp) /\ i + 1 \in Nat
    BY <1>1
  <2>2. old \in Carts
    BY <2>1, PreviewType DEF TypeOK
  <2>3. CASE i + 1 \in DOMAIN CatalogOrder /\ sku \in Taken
    <3>1. ops[i + 1] = Append(ops[i], AddOn(sku))
      BY <1>1, <1>7, <2>1, <2>3
    <3>2. /\ AddOn(sku) \in CartOp /\ AddOn(sku).op = "set_quantity"
          /\ AddOn(sku).item.sku = sku /\ AddOn(sku).item.quantity = CompanionCases(sku)
          /\ CompanionCases(sku) # NULL /\ sku \in SKUs /\ sku # NULL
      BY <2>3, AddOnIs, NullAssumption DEF Taken
    <3>3. new = [old EXCEPT ![sku] = EditedQuantity(@, "set_quantity", CompanionCases(sku))]
      <4>1. draft_cart \in Carts /\ AddOn(sku).item.sku # NULL
        BY <3>2 DEF TypeOK
      <4>2. new = [old EXCEPT ![AddOn(sku).item.sku] =
                     EditedQuantity(@, AddOn(sku).op, AddOn(sku).item.quantity)]
        BY <2>1, <3>1, <3>2, <4>1, PreviewAppend
      <4> HIDE DEF old, new
      <4> QED
        BY <3>2, <4>2
    <3>4. \A was : EditedQuantity(was, "set_quantity", CompanionCases(sku)) = CompanionCases(sku)
      BY <3>2 DEF EditedQuantity
    <3>9. sku \in SKUs
      BY <3>2
    <3>5. Seen(i + 1) = Seen(i) \cup {sku}
      BY <2>3
    <3> HIDE DEF old, new, sku, Seen
    <3>6. \A s \in SKUs : new[s] = IF s = sku THEN CompanionCases(sku) ELSE old[s]
      BY <2>2, <3>3, <3>4, <3>9 DEF Carts, CartMaps
    <3>7. \A s \in SKUs : old[s] = IF s \in Taken \cap Seen(i) THEN CompanionCases(s) ELSE Effective[s]
      BY <1>4 DEF old
    <3>8. \A s \in SKUs : new[s] = IF s \in Taken \cap Seen(i + 1) THEN CompanionCases(s) ELSE Effective[s]
      BY <2>3, <3>5, <3>6, <3>7
    <3> QED
      BY <3>8 DEF new
  <2>4. CASE ~ (i + 1 \in DOMAIN CatalogOrder /\ sku \in Taken)
    <3>2. ops[i + 1] = ops[i]
      BY <1>1, <1>7, <2>1, <2>4
    <3>3. Taken \cap Seen(i + 1) = Taken \cap Seen(i)
      <4>1. \A n \in 1..(i + 1) : n \in 1..i \/ n = i + 1
        OBVIOUS
      <4>2. \A n \in 1..i : n \in 1..(i + 1)
        OBVIOUS
      <4> QED
        BY <2>4, <4>1, <4>2
    <3> HIDE DEF Seen
    <3> QED
      BY <1>4, <3>2, <3>3
  <2> QED
    BY <2>3, <2>4
<1> HIDE DEF T
<1>5. \A i \in Nat : i \in T
  BY <1>3, <1>4, SetInduction
<1>6. Len(CatalogOrder) \in Nat /\ \A sku \in SKUs : sku \in Seen(Len(CatalogOrder))
  BY CatalogAssumption
<1> QED
  BY <1>5, <1>6 DEF T, ops

(***************************************************************************)
(* What is covered afterwards.                                             *)
(***************************************************************************)

\* No companion needs a companion of its own, as in the repository's catalog
\* (kb/catalog.json): else a line that is added to cover one may open an offer
\* that add_companions has passed.
FlatCompanions ==
  \A sku \in SKUs : \A companion \in Companions[sku] : Companions[companion] = {}

\* No add-on that the cart has too few of was accepted without an amount.
Satisfied(cart, accepted) ==
  \A companion \in _undercovered_companions(cart) : accepted[NameOf[companion]] # NULL

\* What a companion needs depends on the lines that pair with it only.
LEMMA SameNeed ==
  ASSUME NEW cart, NEW other, NEW companion \in SKUs,
         \A sku \in SKUs : companion \in Companions[sku] => other[sku] = cart[sku]
  PROVE  /\ Parents(other, companion) = Parents(cart, companion)
         /\ NeededCases(other, companion) = NeededCases(cart, companion)
<1>1. Parents(other, companion) = Parents(cart, companion)
  BY DEF Parents, InCart
<1>2. \A sku \in Parents(cart, companion) : CasesOf(other, sku) = CasesOf(cart, sku)
  BY DEF Parents, InCart, CasesOf
<1>3. UnitsPass(other, companion) = UnitsPass(cart, companion)
  <2>1. ASSUME NEW n \in Nat, NEW units \in Int
        PROVE  (IF n \in DOMAIN CatalogOrder /\ CatalogOrder[n] \in Parents(other, companion)
                THEN units + CasesOf(other, CatalogOrder[n]) * CasePack[CatalogOrder[n]]
                ELSE units)
             = (IF n \in DOMAIN CatalogOrder /\ CatalogOrder[n] \in Parents(cart, companion)
                THEN units + CasesOf(cart, CatalogOrder[n]) * CasePack[CatalogOrder[n]]
                ELSE units)
    BY <1>1, <1>2, Zenon
  <2> QED
    BY <2>1, Zenon DEF UnitsPass
<1> QED
  BY <1>1, <1>3 DEF NeededCases, ParentUnits

LEMMA AddOnsSatisfy ==
  ASSUME TypeOK, FlatCompanions, NEW cart \in Carts,
         \A sku \in SKUs : cart[sku] = IF sku \in Taken THEN CompanionCases(sku)
                                       ELSE Effective[sku]
  PROVE  Satisfied(cart, accepted_companions)
<1> SUFFICES ASSUME NEW companion \in _undercovered_companions(cart)
             PROVE  accepted_companions[NameOf[companion]] # NULL
  BY DEF Satisfied
<1>1. /\ companion \in SKUs /\ Parents(cart, companion) # {}
      /\ NeededCases(cart, companion) > CasesOf(cart, companion)
  BY DEF _undercovered_companions
<1>2. ASSUME NEW sku \in SKUs, companion \in Companions[sku] PROVE cart[sku] = Effective[sku]
  <2>1. \A parent \in SKUs : sku \notin Companions[parent]
    BY <1>2 DEF FlatCompanions
  <2>2. Parents(Effective, sku) = {}
    BY <2>1 DEF Parents, InCart
  <2>3. sku \notin Taken
    BY <2>2 DEF Taken, _undercovered_companions
  <2> QED
    BY <2>3
<1>3. /\ Parents(cart, companion) = Parents(Effective, companion)
      /\ NeededCases(cart, companion) = NeededCases(Effective, companion)
  BY <1>1, <1>2, SameNeed
<1>4. CASE companion \in Taken
  <2> SUFFICES ASSUME accepted_companions[NameOf[companion]] = NULL PROVE FALSE
    OBVIOUS
  <2>1. /\ CompanionCases(companion) = NeededCases(Effective, companion)
        /\ CompanionCases(companion) \in Int
    BY <1>4, AddOnIs
  <2>2. cart[companion] = CompanionCases(companion)
    BY <1>1, <1>4
  <2>3. CasesOf(cart, companion) = CompanionCases(companion)
    BY <2>1, <2>2, ValuesAssumption DEF CasesOf, OrZero
  <2> QED
    BY <1>1, <1>3, <2>1, <2>3
<1>5. CASE companion \notin Taken
  <2>1. cart[companion] = Effective[companion]
    BY <1>1, <1>5
  <2>2. CasesOf(cart, companion) = CasesOf(Effective, companion)
    BY <2>1 DEF CasesOf
  <2>3. companion \in _undercovered_companions(Effective)
    BY <1>1, <1>3, <2>2 DEF _undercovered_companions
  <2>4. accepted_companions[NameOf[companion]] = Absent
    BY <1>1, <1>5, <2>3 DEF Taken, Accepted
  <2> QED
    BY <2>4, ValuesAssumption
<1> QED
  BY <1>4, <1>5

(***************************************************************************)
(* The nodes between the preview and the cart: what they leave of a line.  *)
(***************************************************************************)

\* What a preview, a count and an offer look at.
SameButOffer(op, other) ==
  /\ op.op = other.op
  /\ op.item.sku = other.item.sku
  /\ op.item.quantity = other.item.quantity
  /\ op.item.unit_quantity = other.item.unit_quantity

LEMMA StockedSame ==
  ASSUME NEW item \in LineItem, item.sku \in SKUs
  PROVE  /\ Stocked(item).sku = item.sku
         /\ Stocked(item).quantity = item.quantity
         /\ Stocked(item).unit_quantity = item.unit_quantity
         /\ Stocked(item).companions = item.companions
<1>1. OnHand[item.sku] \in Nat /\ InStock[item.sku] \in BOOLEAN
  BY OrderGraphAssumption
<1>2. \/ Stocked(item) = [item EXCEPT !.flags = @ \cup {"out_of_stock"}]
      \/ Stocked(item) = [item EXCEPT !.quantity_on_hand = OnHand[item.sku]]
      \/ Stocked(item) = item
  <2>1. CASE ~ InStock[item.sku]
    BY <2>1 DEF Stocked
  <2>2. CASE InStock[item.sku] /\ OnHand[item.sku] > 0
    <3>1. ~ (OnHand[item.sku] <= 0)
      BY <1>1, <2>2
    <3> QED
      BY <2>2, <3>1 DEF Stocked
  <2>3. CASE InStock[item.sku] /\ OnHand[item.sku] <= 0
    <3>1. ~ (OnHand[item.sku] > 0)
      BY <1>1, <2>3
    <3> QED
      BY <2>3, <3>1 DEF Stocked
  <2> QED
    BY <1>1, <2>1, <2>2, <2>3
<1> HIDE DEF Stocked
<1> QED
  BY <1>2 DEF LineItem

\* A line counted in cases keeps its amount; an offer is one of what was asked for.
LEMMA ValidatedSame ==
  ASSUME NEW op \in CartOp, op.item.sku \in SKUs, NEW undercovered
  PROVE  LET line == Validated(op, undercovered)
         IN  /\ line.sku = op.item.sku
             /\ line.unit_quantity = op.item.unit_quantity
             /\ op.item.unit_quantity = NULL => line.quantity = op.item.quantity
             /\ line.companions = op.item.companions \/ line.companions \subseteq undercovered
<1> DEFINE old == op.item
           item == validate_rules(old)
           line == Validated(op, undercovered)
           offer == Companions[item.sku] \cap undercovered
<1>1. old \in LineItem /\ item \in LineItem
  BY ValidateRulesType DEF CartOp
<1>2. item = [old EXCEPT !.quantity = WholeCases(old),
                         !.flags = @ \cup RaisedFlags(old, WholeCases(old))]
  BY DEF validate_rules
<1>3. old.unit_quantity = NULL => WholeCases(old) = old.quantity
  BY DEF WholeCases, InUnits
<1> HIDE DEF old
<1>4. /\ item.sku = old.sku /\ item.unit_quantity = old.unit_quantity
      /\ old.unit_quantity = NULL => item.quantity = old.quantity
      /\ item.companions = old.companions
  BY <1>1, <1>2, <1>3 DEF LineItem
<1>5. \/ line = item
      \/ line = [item EXCEPT !.flags = @ \ {"needs_companion"}]
      \/ line = [item EXCEPT !.companions = offer]
      \/ line = [item EXCEPT !.flags = @ \ {"needs_companion"}, !.companions = {}]
  <2> HIDE DEF item
  <2>1. CASE "needs_companion" \notin item.flags
    BY <2>1 DEF Validated, item, old
  <2>2. CASE "needs_companion" \in item.flags /\ op.op = "add"
    <3>1. line = _attach_companion_offer(item, undercovered)
      BY <2>2 DEF Validated, item, old
    <3> QED
      BY <3>1 DEF _attach_companion_offer
  <2>3. CASE "needs_companion" \in item.flags /\ op.op # "add"
    BY <2>3 DEF Validated, item, old
  <2> QED
    BY <2>1, <2>2, <2>3
<1>6. offer \subseteq undercovered
  OBVIOUS
<1> HIDE DEF item, line, offer
<1>7. /\ line.sku = item.sku /\ line.unit_quantity = item.unit_quantity
      /\ line.quantity = item.quantity
      /\ line.companions = item.companions \/ line.companions \subseteq undercovered
  BY <1>1, <1>5, <1>6 DEF LineItem
<1> QED
  BY <1>4, <1>7 DEF old, line

\* check_inventory changes neither a preview nor an offer.
LEMMA StockedOpsSame ==
  ASSUME TypeOK, check_inventory_node
  PROVE  /\ DOMAIN cart_ops' = DOMAIN cart_ops
         /\ \A n \in DOMAIN cart_ops :
              /\ SameButOffer(cart_ops'[n], cart_ops[n])
              /\ cart_ops'[n].item.companions = cart_ops[n].item.companions
<1>1. DOMAIN cart_ops' = DOMAIN cart_ops
  BY DEF check_inventory_node
<1> SUFFICES ASSUME NEW n \in DOMAIN cart_ops
             PROVE  /\ SameButOffer(cart_ops'[n], cart_ops[n])
                    /\ cart_ops'[n].item.companions = cart_ops[n].item.companions
  BY <1>1
<1>2. cart_ops[n] \in CartOp
  BY DEF TypeOK
<1>3. CASE ~ Requested(cart_ops[n])
  <2>1. cart_ops'[n] = cart_ops[n]
    BY <1>3 DEF check_inventory_node, Requested
  <2> QED
    BY <2>1 DEF SameButOffer
<1>4. CASE Requested(cart_ops[n])
  <2>1. cart_ops'[n] = [cart_ops[n] EXCEPT !.item = Stocked(@)]
    BY <1>4 DEF check_inventory_node, Requested
  <2>2. cart_ops'[n].item = Stocked(cart_ops[n].item) /\ cart_ops'[n].op = cart_ops[n].op
    BY <1>2, <2>1 DEF CartOp
  <2>3. cart_ops[n].item \in LineItem /\ cart_ops[n].item.sku \in SKUs
    BY <1>2, <1>4 DEF CartOp, LineItem, Requested
  <2> QED
    BY <2>2, <2>3, StockedSame DEF SameButOffer
<1> QED
  BY <1>3, <1>4

\* validate neither, when all is counted in cases, but for the offers it attaches.
LEMMA ValidatedOpsSame ==
  ASSUME TypeOK, validate_node
  PROVE  /\ DOMAIN cart_ops' = DOMAIN cart_ops
         /\ CountedInCases' =>
              /\ CountedInCases
              /\ \A n \in DOMAIN cart_ops : SameButOffer(cart_ops'[n], cart_ops[n])
         /\ \A n \in DOMAIN cart_ops :
              \/ cart_ops'[n].item.companions = cart_ops[n].item.companions
              \/ cart_ops'[n].item.companions \subseteq _undercovered_companions(Effective)
<1> DEFINE undercovered == _undercovered_companions(Effective)
<1>1. DOMAIN cart_ops' = DOMAIN cart_ops
  BY DEF validate_node
<1>2. ASSUME NEW n \in DOMAIN cart_ops
      PROVE  /\ cart_ops'[n].item.unit_quantity = cart_ops[n].item.unit_quantity
             /\ cart_ops[n].item.unit_quantity = NULL => SameButOffer(cart_ops'[n], cart_ops[n])
             /\ \/ cart_ops'[n].item.companions = cart_ops[n].item.companions
                \/ cart_ops'[n].item.companions \subseteq undercovered
  <2>1. cart_ops[n] \in CartOp
    BY DEF TypeOK
  <2>2. CASE ~ Requested(cart_ops[n])
    <3>1. cart_ops'[n] = cart_ops[n]
      BY <2>2 DEF validate_node, Requested
    <3> QED
      BY <3>1 DEF SameButOffer
  <2>3. CASE Requested(cart_ops[n])
    <3>1. cart_ops'[n] = [cart_ops[n] EXCEPT !.item = Validated(cart_ops[n], undercovered)]
      BY <2>3 DEF validate_node, Requested
    <3> HIDE DEF undercovered
    <3>2. /\ cart_ops'[n].item = Validated(cart_ops[n], undercovered)
          /\ cart_ops'[n].op = cart_ops[n].op
      BY <2>1, <3>1 DEF CartOp
    <3>3. cart_ops[n].item.sku \in SKUs
      BY <2>1, <2>3 DEF CartOp, LineItem, Requested
    <3> QED
      BY <2>1, <3>2, <3>3, ValidatedSame DEF SameButOffer
  <2> QED
    BY <2>2, <2>3
<1> QED
  BY <1>1, <1>2 DEF CountedInCases

(***************************************************************************)
(* The two invariants.                                                     *)
(***************************************************************************)

\* What was accepted is in the preview from add_companions on, and in the cart
\* once all of the turn has landed.
CoverageKept ==
  /\ node \in {"check_inventory", "validate", "apply"} /\ CountedInCases =>
       Satisfied(Effective, accepted_companions)
  /\ AcceptedMeansCovered

\* The offers are of what a cart has too few of.
OpenIn(cart, ops) ==
  \A n \in DOMAIN ops : ops[n].item.companions \subseteq _undercovered_companions(cart)

\* No line has an offer before validate makes it, of what the preview lacks; and
\* the preview is the cart once all of the turn has landed.
OffersFit ==
  /\ node \in {"resolve", "add_companions", "check_inventory", "validate"} =>
       \A n \in DOMAIN cart_ops : cart_ops[n].item.companions = {}
  /\ node = "apply" /\ CountedInCases => OpenIn(Effective, cart_ops)
  /\ /\ node = "clarify" \/ (node = "END" /\ status = "needs_clarification")
     /\ CountedInCases
     /\ \A n \in Resolved(cart_ops) : Lands(cart_ops[n])
     => OpenIn(draft_cart, cart_ops)

LEMMA EffectiveKept ==
  ASSUME draft_cart' = draft_cart, DOMAIN cart_ops' = DOMAIN cart_ops,
         \A n \in DOMAIN cart_ops : SameButOffer(cart_ops'[n], cart_ops[n])
  PROVE  Effective' = Effective
<1>1. \A cart : Preview(cart, cart_ops') = Preview(cart, cart_ops)
  BY PreviewSame DEF SameButOffer
<1>2. Effective' = Preview(draft_cart', cart_ops')
  BY DEF Effective, Preview
<1> QED
  BY <1>1, <1>2, EffectiveIs

\* When all that is resolved lands, the cart is the preview.
LEMMA AllLanded ==
  ASSUME apply_node, \A n \in Resolved(cart_ops) : Lands(cart_ops[n])
  PROVE  draft_cart' = Effective
<1>1. Landing(cart_ops) = Resolved(cart_ops)
  BY DEF Landing, Resolved, Lands
<1> QED
  BY <1>1 DEF apply_node, Effective

LEMMA CoverageStep ==
  ASSUME TypeOK, Facts, Facts', CoverageKept, FlatCompanions, [Next]_vars
  PROVE  CoverageKept'
<1>1. CASE add_companions_node
  <2> DEFINE ops == Iterate(cart_ops, CompanionPass)[Len(CatalogOrder)]
  <2>1. /\ node' = "check_inventory" /\ cart_ops' = ops
        /\ UNCHANGED <<draft_cart, accepted_companions>>
    BY <1>1 DEF add_companions_node
  <2>2. ops \in Seq(CartOp) /\ draft_cart \in Carts
    BY CompanionOpsType DEF TypeOK
  <2>3. \A sku \in SKUs : Preview(draft_cart, ops)[sku] =
                            IF sku \in Taken THEN CompanionCases(sku) ELSE Effective[sku]
    BY AddOnsPreview
  <2> HIDE DEF ops
  <2>4. Satisfied(Preview(draft_cart, ops), accepted_companions)
    BY <2>2, <2>3, PreviewType, AddOnsSatisfy
  <2>5. Effective' = Preview(draft_cart, ops)
    BY <2>1 DEF Effective, Preview
  <2>6. Satisfied(Effective', accepted_companions')
    BY <2>1, <2>4, <2>5
  <2> QED
    BY <2>1, <2>6 DEF CoverageKept, AcceptedMeansCovered
<1>2. CASE check_inventory_node
  <2>1. Effective' = Effective
    BY <1>2, StockedOpsSame, EffectiveKept DEF check_inventory_node
  <2>2. CountedInCases' => CountedInCases
    BY <1>2, StockedOpsSame DEF CountedInCases, SameButOffer
  <2>3. node = "check_inventory" /\ node' = "validate" /\ accepted_companions' = accepted_companions
    BY <1>2 DEF check_inventory_node
  <2> QED
    BY <2>1, <2>2, <2>3 DEF CoverageKept, AcceptedMeansCovered
<1>3. CASE validate_node
  <2>1. CountedInCases' => CountedInCases /\ Effective' = Effective
    BY <1>3, ValidatedOpsSame, EffectiveKept DEF validate_node
  <2>2. node = "validate" /\ node' = "apply" /\ accepted_companions' = accepted_companions
    BY <1>3 DEF validate_node
  <2> QED
    BY <2>1, <2>2 DEF CoverageKept, AcceptedMeansCovered
<1>4. CASE apply_node
  <2>1. node = "apply" /\ UNCHANGED <<cart_ops, accepted_companions>>
    BY <1>4 DEF apply_node
  <2>2. node' \in {"draft", "clarify"}
    BY <1>4 DEF apply_node, _gate_decision, gate
  <2>3. ASSUME node' = "draft", CountedInCases'
        PROVE  Satisfied(draft_cart', accepted_companions')
    <3>1. \A n \in DOMAIN cart_ops : ~ Stops(cart_ops[n].item)
      BY <2>1, <2>3 DEF Facts, GateHeld
    <3>2. \A n \in Resolved(cart_ops) : Lands(cart_ops[n])
      BY <2>1, <3>1, PassedHasLanded DEF Resolved
    <3>3. draft_cart' = Effective
      BY <1>4, <3>2, AllLanded
    <3>4. CountedInCases
      BY <2>1, <2>3 DEF CountedInCases
    <3> QED
      BY <2>1, <3>3, <3>4 DEF CoverageKept
  <2> QED
    BY <2>2, <2>3 DEF CoverageKept, AcceptedMeansCovered, Satisfied
<1>5. CASE node' \notin {"check_inventory", "validate", "apply", "draft"}
  BY <1>5 DEF CoverageKept, AcceptedMeansCovered
<1>6. CASE UNCHANGED vars
  <2>1. UNCHANGED <<node, cart_ops, draft_cart, accepted_companions>>
    BY <1>6 DEF vars, state
  <2>2. Effective' = Effective /\ CountedInCases' = CountedInCases
    BY <2>1 DEF Effective, CountedInCases
  <2> QED
    BY <2>1, <2>2 DEF CoverageKept, AcceptedMeansCovered
<1>7. \/ add_companions_node \/ check_inventory_node \/ validate_node \/ apply_node
      \/ node' \notin {"check_inventory", "validate", "apply", "draft"}
      \/ UNCHANGED vars
  BY DEF Next, NodeStep, NodeRaises, RecordRaises, SessionOver, run, redact_node, intent_node,
     _route_by_intent, parse_node, resolve_node, draft_node, clarify_node, escalate_node, rag_qa,
     handle_turn, cart_panel, PanelRemove, PanelEdit, PanelInUse
<1> QED
  BY <1>1, <1>2, <1>3, <1>4, <1>5, <1>6, <1>7

(***************************************************************************)
(* An add-on that was accepted without an amount covers every line it      *)
(* pairs with when the turn ends without a question (add_companions_node,  *)
(* apply_node).                                                            *)
(***************************************************************************)
THEOREM AcceptanceCovers ==
  ASSUME FlatCompanions
  PROVE  Spec => []AcceptedMeansCovered
<1>1. Init => CoverageKept
  BY DEF Init, CoverageKept, AcceptedMeansCovered
<1>2. TypeOK /\ Facts /\ Facts' /\ CoverageKept /\ [Next]_vars => CoverageKept'
  BY CoverageStep
<1>3. CoverageKept => AcceptedMeansCovered
  BY DEF CoverageKept
<1> QED
  BY <1>1, <1>2, <1>3, TypeCorrect, FactsHold, PTL DEF Spec

(***************************************************************************)
(* What a question offers.                                                 *)
(***************************************************************************)

\* The nodes before validate attach no offer.
LEMMA NoOfferYet ==
  ASSUME TypeOK, OffersFit, parse_node \/ resolve_node \/ add_companions_node
  PROVE  \A n \in DOMAIN cart_ops' : cart_ops'[n].item.companions = {}
<1>1. CASE parse_node
  <2>1. PICK items \in ParsedOrders :
          cart_ops' = [n \in DOMAIN items |->
                         [op   |-> items[n].op,
                          item |-> ParsedLine(items[n].quantity, items[n].unit_quantity)]]
    BY <1>1 DEF parse_node
  <2> QED
    BY <2>1 DEF ParsedLine
<1>2. CASE resolve_node
  <2>1. PICK resolved \in [DOMAIN cart_ops -> Resolutions] :
          cart_ops' = [n \in DOMAIN cart_ops |->
                         [cart_ops[n] EXCEPT !.item.sku = resolved[n].sku,
                                             !.item.confidence = resolved[n].confidence,
                                             !.item.options = resolved[n].options]]
    BY <1>2 DEF resolve_node
  <2>2. \A n \in DOMAIN cart_ops : cart_ops[n].item.companions = {}
    BY <1>2 DEF resolve_node, OffersFit
  <2>3. ASSUME NEW n \in DOMAIN cart_ops PROVE cart_ops'[n].item.companions = {}
    <3>1. cart_ops[n] \in CartOp
      BY DEF TypeOK
    <3> QED
      BY <2>1, <2>2, <3>1 DEF CartOp, LineItem
  <2> QED
    BY <2>1, <2>3
<1>3. CASE add_companions_node
  <2> DEFINE Bare == {ops \in Seq(CartOp) : \A n \in DOMAIN ops : ops[n].item.companions = {}}
  <2>1. cart_ops \in Bare /\ Bare \in SUBSET Seq(CartOp)
    BY <1>3 DEF add_companions_node, OffersFit, TypeOK
  <2>2. CompanionPass \in [Nat -> [Seq(CartOp) -> Seq(CartOp)]]
    BY CompanionPassType DEF TypeOK
  <2>3. ASSUME NEW n \in Nat, NEW ops \in Bare PROVE CompanionPass[n][ops] \in Bare
    <3>1. CompanionPass[n][ops] \in Seq(CartOp) /\ ops \in Seq(CartOp)
      BY <2>2
    <3>2. \/ CompanionPass[n][ops] = ops
          \/ CompanionPass[n][ops] = Append(ops, AddOn(CatalogOrder[n]))
      BY <3>1 DEF CompanionPass, AddOn
    <3>3. AddOn(CatalogOrder[n]).item.companions = {}
      BY DEF AddOn, _line_from_catalog, ParsedLine
    <3>4. \A op : \A i \in DOMAIN Append(ops, op) :
            Append(ops, op)[i] = op \/ (i \in DOMAIN ops /\ Append(ops, op)[i] = ops[i])
      BY <3>1
    <3>5. \A i \in DOMAIN ops : ops[i].item.companions = {}
      OBVIOUS
    <3> DEFINE op == AddOn(CatalogOrder[n])
    <3> HIDE DEF op
    <3>6. \A i \in DOMAIN Append(ops, op) : Append(ops, op)[i].item.companions = {}
      BY <3>3, <3>4, <3>5 DEF op
    <3>7. \A i \in DOMAIN CompanionPass[n][ops] : CompanionPass[n][ops][i].item.companions = {}
      BY <3>2, <3>5, <3>6 DEF op
    <3> QED
      BY <3>1, <3>7
  <2> HIDE DEF Bare
  <2>4. \A n \in Nat : Iterate(cart_ops, CompanionPass)[n] \in Bare
    BY <2>1, <2>2, <2>3, IterateKeeps, Zenon
  <2>5. cart_ops' \in Bare
    BY <1>3, <2>4, CatalogAssumption DEF add_companions_node
  <2> QED
    BY <2>5 DEF Bare
<1> QED
  BY <1>1, <1>2, <1>3

LEMMA OffersStep ==
  ASSUME TypeOK, Said, OffersFit, [Next]_vars
  PROVE  OffersFit'
<1>1. CASE parse_node \/ resolve_node \/ add_companions_node
  <2>1. node' \in {"resolve", "add_companions", "check_inventory"}
    BY <1>1 DEF parse_node, resolve_node, add_companions_node
  <2> QED
    BY <1>1, <2>1, NoOfferYet DEF OffersFit
<1>2. CASE check_inventory_node
  <2>1. node = "check_inventory" /\ node' = "validate"
    BY <1>2 DEF check_inventory_node
  <2>2. \A n \in DOMAIN cart_ops' : cart_ops'[n].item.companions = {}
    BY <1>2, <2>1, StockedOpsSame DEF OffersFit
  <2> QED
    BY <2>1, <2>2 DEF OffersFit
<1>3. CASE validate_node
  <2>1. node = "validate" /\ node' = "apply"
    BY <1>3 DEF validate_node
  <2>2. \A n \in DOMAIN cart_ops' :
          cart_ops'[n].item.companions \subseteq _undercovered_companions(Effective)
    BY <1>3, <2>1, ValidatedOpsSame DEF OffersFit
  <2>3. CountedInCases' => Effective' = Effective
    BY <1>3, ValidatedOpsSame, EffectiveKept DEF validate_node
  <2>4. CountedInCases' => OpenIn(Effective', cart_ops')
    BY <2>2, <2>3 DEF OpenIn
  <2> QED
    BY <2>1, <2>4 DEF OffersFit
<1>4. CASE apply_node
  <2>1. node = "apply" /\ cart_ops' = cart_ops
    BY <1>4 DEF apply_node
  <2>2. node' \in {"draft", "clarify"}
    BY <1>4 DEF apply_node, _gate_decision, gate
  <2>3. ASSUME CountedInCases', \A n \in Resolved(cart_ops') : Lands(cart_ops'[n])
        PROVE  OpenIn(draft_cart', cart_ops')
    <3>1. draft_cart' = Effective
      BY <1>4, <2>1, <2>3, AllLanded
    <3>2. CountedInCases
      BY <2>1, <2>3 DEF CountedInCases
    <3> QED
      BY <2>1, <3>1, <3>2 DEF OffersFit
  <2> QED
    BY <2>2, <2>3 DEF OffersFit
<1>5. CASE clarify_node
  <2>1. node = "clarify" /\ node' = "END" /\ UNCHANGED <<cart_ops, draft_cart>>
    BY <1>5 DEF clarify_node
  <2>2. CountedInCases' = CountedInCases
    BY <2>1 DEF CountedInCases
  <2> QED
    BY <2>1, <2>2 DEF OffersFit
<1>6. CASE draft_node \/ escalate_node \/ rag_qa
  <2>1. node' = "END" /\ status' # "needs_clarification"
    BY <1>6 DEF draft_node, escalate_node, rag_qa, Said, NothingSaid, Nodes
  <2> QED
    BY <2>1 DEF OffersFit
<1>7. CASE node' \in {"idle", "redact", "intent", "parse", "escalate", "rag_qa"}
  BY <1>7 DEF OffersFit
<1>8. CASE UNCHANGED vars
  <2>1. UNCHANGED <<node, cart_ops, draft_cart, status>>
    BY <1>8 DEF vars, state
  <2>2. Effective' = Effective /\ CountedInCases' = CountedInCases
    BY <2>1 DEF Effective, CountedInCases
  <2> QED
    BY <2>1, <2>2 DEF OffersFit
<1>9. \/ parse_node \/ resolve_node \/ add_companions_node \/ check_inventory_node
      \/ validate_node \/ apply_node \/ clarify_node
      \/ draft_node \/ escalate_node \/ rag_qa
      \/ node' \in {"idle", "redact", "intent", "parse", "escalate", "rag_qa"}
      \/ UNCHANGED vars
  <2>1. CASE \E c \in {client.cart, NULL}, selection \in Selections : run(c, selection)
    BY <2>1 DEF run
  <2>2. CASE NodeStep
    BY <2>2 DEF NodeStep, redact_node, intent_node, _route_by_intent, handle_turn
  <2>3. CASE \E sku \in SKUs : PanelRemove(sku) \/ \E delta \in {-1, 1} : PanelEdit(sku, delta)
    BY <2>3 DEF PanelRemove, PanelEdit, PanelInUse
  <2>4. CASE cart_panel
    BY <2>4 DEF cart_panel, PanelInUse
  <2> QED
    BY <2>1, <2>2, <2>3, <2>4 DEF Next, NodeRaises, RecordRaises, SessionOver
<1> QED
  BY <1>1, <1>2, <1>3, <1>4, <1>5, <1>6, <1>7, <1>8, <1>9

(***************************************************************************)
(* What a question offers the cart lacks, when all that was resolved in    *)
(* the turn has landed (validate_node, _attach_companion_offer).           *)
(***************************************************************************)
THEOREM OffersStayOpen == Spec => []OfferedMeansOpen
<1>1. Init => OffersFit
  BY DEF Init, OffersFit
<1>2. TypeOK /\ Said /\ OffersFit /\ [Next]_vars => OffersFit'
  BY OffersStep
<1>3. OffersFit => OfferedMeansOpen
  BY DEF OffersFit, OpenIn, OfferedMeansOpen
<1> QED
  BY <1>1, <1>2, <1>3, TypeCorrect, SaidHolds, PTL DEF Spec
=============================================================================
