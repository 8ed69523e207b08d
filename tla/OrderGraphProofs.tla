-------------------------- MODULE OrderGraphProofs --------------------------
(***************************************************************************)
(* The graph keeps its state well typed, and no line without at least one  *)
(* case is ever kept, shown or ordered - for every catalog, stock, amounts *)
(* and number of turns.                                                    *)
(***************************************************************************)
EXTENDS OrderGraph, LoopProofs

(***************************************************************************)
(* Sequences built over the positions of another one.                      *)
(***************************************************************************)
LEMMA OverPositions ==
  ASSUME NEW S, NEW s \in Seq(S), NEW T, NEW f \in [DOMAIN s -> T]
  PROVE  f \in Seq(T) /\ Len(f) = Len(s) /\ DOMAIN f = DOMAIN s
<1>1. DOMAIN s = 1..Len(s) /\ Len(s) \in Nat
  OBVIOUS
<1> QED
  BY <1>1

(***************************************************************************)
(* The operators on one line or one operation keep it one.                 *)
(***************************************************************************)
LEMMA CeilDivType ==
  ASSUME NEW units \in Int, NEW pack \in Nat \ {0}
  PROVE  CeilDiv(units, pack) \in Int
<1>1. -units \in Int /\ (-units) \div pack \in Int
  OBVIOUS
<1> QED
  BY <1>1 DEF CeilDiv

LEMMA ParentUnitsType ==
  ASSUME NEW cart \in Carts, NEW companion \in SKUs
  PROVE  ParentUnits(cart, companion) \in Int
<1> DEFINE pass == UnitsPass(cart, companion)
<1>1. ASSUME NEW sku \in SKUs PROVE CasesOf(cart, sku) * CasePack[sku] \in Int
  <2>1. CasePack[sku] \in Int
    BY CatalogAssumption
  <2>2. CasesOf(cart, sku) \in Int
    BY DEF CasesOf, OrZero, Carts, CartMaps, OptionalInt
  <2> QED
    BY <2>1, <2>2
<1>2. \A n \in Nat : \A units \in Int :
        (IF n \in DOMAIN CatalogOrder /\ CatalogOrder[n] \in Parents(cart, companion)
         THEN units + CasesOf(cart, CatalogOrder[n]) * CasePack[CatalogOrder[n]]
         ELSE units) \in Int
  BY <1>1 DEF Parents, InCart
<1>3. pass \in [Nat -> [Int -> Int]]
  BY <1>2 DEF UnitsPass
<1> HIDE DEF pass
<1>4. Iterate(0, pass) \in [Nat -> Int]
  <2>1. 0 \in Int
    OBVIOUS
  <2> QED
    BY <1>3, <2>1, IterateUnfolds, Zenon
<1>5. Len(CatalogOrder) \in Nat
  BY CatalogAssumption
<1> QED
  BY <1>4, <1>5 DEF ParentUnits, pass

LEMMA NeededCasesType ==
  ASSUME NEW cart \in Carts, NEW companion \in SKUs
  PROVE  NeededCases(cart, companion) \in Nat \ {0}
<1>1. ParentUnits(cart, companion) \in Int
  BY ParentUnitsType
<1>2. CasePack[companion] \in Nat \ {0}
  BY CatalogAssumption
<1>3. CeilDiv(ParentUnits(cart, companion), CasePack[companion]) \in Int
  BY <1>1, <1>2, CeilDivType
<1> QED
  BY <1>3 DEF NeededCases, companion_case_count

LEMMA ParsedLineType ==
  ASSUME NEW quantity \in OptionalInt, NEW units \in OptionalInt
  PROVE  ParsedLine(quantity, units) \in LineItem
BY DEF ParsedLine, LineItem, OptionalInt, Percent

LEMMA StockedType ==
  ASSUME NEW item \in LineItem, item.sku \in SKUs
  PROVE  Stocked(item) \in LineItem
<1>1. CASE ~ InStock[item.sku]
  BY <1>1, OrderGraphAssumption DEF Stocked, LineItem, Flag
<1>2. CASE InStock[item.sku] /\ OnHand[item.sku] > 0
  <2>1. OnHand[item.sku] \in Nat
    BY OrderGraphAssumption
  <2>2. ~ (OnHand[item.sku] <= 0)
    BY <1>2, <2>1
  <2>3. Stocked(item) = [item EXCEPT !.quantity_on_hand = OnHand[item.sku]]
    BY <1>2, <2>2 DEF Stocked
  <2> QED
    BY <2>1, <2>3 DEF LineItem, OptionalInt
<1>3. CASE InStock[item.sku] /\ OnHand[item.sku] <= 0
  BY <1>3, OrderGraphAssumption DEF Stocked
<1> QED
  BY <1>1, <1>2, <1>3, OrderGraphAssumption

LEMMA ValidateRulesType ==
  ASSUME NEW item \in LineItem, item.sku \in SKUs
  PROVE  validate_rules(item) \in LineItem /\ validate_rules(item).sku = item.sku
<1>1. item.unit_quantity \in OptionalInt /\ item.quantity \in OptionalInt
  BY DEF LineItem
<1>2. CasePack[item.sku] \in Nat \ {0}
  BY CatalogAssumption
<1>3. WholeCases(item) \in OptionalInt
  BY <1>1, <1>2, CeilDivType DEF WholeCases, InUnits, OptionalInt
<1>4. \A quantity : RaisedFlags(item, quantity) \subseteq Flag
  BY DEF RaisedFlags
<1>5. item.flags \cup RaisedFlags(item, WholeCases(item)) \subseteq Flag
  BY <1>4 DEF LineItem
<1> QED
  BY <1>3, <1>5 DEF validate_rules, LineItem

LEMMA ValidatedType ==
  ASSUME NEW op \in CartOp, op.item.sku \in SKUs, NEW undercovered
  PROVE  Validated(op, undercovered) \in LineItem
<1> DEFINE item == validate_rules(op.item)
<1>1. op.item \in LineItem
  BY DEF CartOp
<1>2. item \in LineItem /\ item.sku \in SKUs
  BY <1>1, ValidateRulesType
<1>3. Companions[item.sku] \cap undercovered \subseteq SKUs
  BY <1>2, CatalogAssumption
<1> HIDE DEF item
<1>4. [item EXCEPT !.flags = @ \ {"needs_companion"}] \in LineItem
  BY <1>2 DEF LineItem
<1>5. [item EXCEPT !.companions = Companions[item.sku] \cap undercovered] \in LineItem
  BY <1>2, <1>3 DEF LineItem
<1>6. [item EXCEPT !.flags = @ \ {"needs_companion"}, !.companions = {}] \in LineItem
  BY <1>2 DEF LineItem
<1>7. _attach_companion_offer(item, undercovered) \in LineItem
  BY <1>4, <1>5 DEF _attach_companion_offer
<1>8. CASE "needs_companion" \notin item.flags
  BY <1>2, <1>8 DEF Validated, item
<1>9. CASE "needs_companion" \in item.flags /\ op.op = "add"
  BY <1>7, <1>9 DEF Validated, item
<1>10. CASE "needs_companion" \in item.flags /\ op.op # "add"
  BY <1>6, <1>10 DEF Validated, item
<1> QED
  BY <1>8, <1>9, <1>10

(***************************************************************************)
(* The taken operations of a turn edit lines the catalog has.              *)
(***************************************************************************)
LEMMA EditsOfType ==
  ASSUME NEW ops \in Seq(CartOp), NEW taken \in SUBSET Resolved(ops)
  PROVE  /\ Len(EditsOf(ops)) \in Nat
         /\ \A n \in taken : EditsOf(ops)[n] \in Edits(SKUs)
<1>1. DOMAIN ops = 1..Len(ops) /\ Len(ops) \in Nat
  OBVIOUS
<1>2. Len(EditsOf(ops)) = Len(ops)
  BY <1>1 DEF EditsOf
<1>3. ASSUME NEW n \in taken PROVE EditsOf(ops)[n] \in Edits(SKUs)
  <2>1. n \in DOMAIN ops /\ ops[n] \in CartOp /\ ops[n].item.sku # NULL
    BY DEF Resolved
  <2>2. ops[n].item.sku \in SKUs /\ ops[n].item.quantity \in OptionalInt
    BY <2>1 DEF CartOp, LineItem
  <2>3. ops[n].op \in {"add", "set_quantity", "remove"}
    BY <2>1 DEF CartOp, CartOpKind
  <2> QED
    BY <2>1, <2>2, <2>3 DEF EditsOf, Edits
<1> QED
  BY <1>1, <1>2, <1>3

LEMMA EffectiveType ==
  ASSUME draft_cart \in Carts, cart_ops \in Seq(CartOp)
  PROVE  Effective \in Carts
<1>1. /\ Len(EditsOf(cart_ops)) \in Nat
      /\ \A n \in Resolved(cart_ops) : EditsOf(cart_ops)[n] \in Edits(SKUs)
  BY EditsOfType
<1> QED
  BY <1>1, EditTakenType DEF Effective, Carts

\* The operations that land are resolved ones.
LEMMA LandingResolved ==
  ASSUME NEW ops
  PROVE  Landing(ops) \in SUBSET Resolved(ops)
BY DEF Landing, Lands, Resolved

(***************************************************************************)
(* What each node writes is what OrderState declares.                      *)
(***************************************************************************)
LEMMA LineFromCatalogType ==
  ASSUME NEW sku \in SKUs, NEW quantity \in OptionalInt
  PROVE  _line_from_catalog(sku, quantity) \in LineItem
<1> DEFINE line == ParsedLine(quantity, NULL)
<1>1. line \in LineItem
  BY ParsedLineType DEF OptionalInt
<1> HIDE DEF line
<1>2. 100 \in Percent /\ sku \in SKUs \cup {NULL}
  BY DEF Percent
<1>3. [line EXCEPT !.sku = sku, !.confidence = 100] \in LineItem
  BY <1>1, <1>2 DEF LineItem
<1> QED
  BY <1>3 DEF _line_from_catalog, line

LEMMA ParsedOpsType ==
  ASSUME NEW items \in ParsedOrders
  PROVE  [n \in DOMAIN items |->
            [op   |-> items[n].op,
             item |-> ParsedLine(items[n].quantity, items[n].unit_quantity)]] \in Seq(CartOp)
<1> DEFINE I == [op: CartOpKind, quantity: OptionalInt, unit_quantity: OptionalInt]
<1>1. items \in Seq(I)
  BY OrderGraphAssumption
<1> HIDE DEF I
<1>2. ASSUME NEW n \in DOMAIN items
      PROVE  [op   |-> items[n].op,
              item |-> ParsedLine(items[n].quantity, items[n].unit_quantity)] \in CartOp
  <2>1. items[n] \in I
    BY <1>1
  <2>2. ParsedLine(items[n].quantity, items[n].unit_quantity) \in LineItem
    BY <2>1, ParsedLineType DEF I
  <2> QED
    BY <2>1, <2>2 DEF CartOp, I
<1> QED
  BY <1>1, <1>2, OverPositions

LEMMA ResolvedOpsType ==
  ASSUME cart_ops \in Seq(CartOp), NEW resolved \in [DOMAIN cart_ops -> Resolutions]
  PROVE  [n \in DOMAIN cart_ops |->
            [cart_ops[n] EXCEPT !.item.sku = resolved[n].sku,
                                !.item.confidence = resolved[n].confidence,
                                !.item.options = resolved[n].options]] \in Seq(CartOp)
<1>1. ASSUME NEW n \in DOMAIN cart_ops
      PROVE  [cart_ops[n] EXCEPT !.item.sku = resolved[n].sku,
                                 !.item.confidence = resolved[n].confidence,
                                 !.item.options = resolved[n].options] \in CartOp
  <2>1. cart_ops[n] \in CartOp
    OBVIOUS
  <2>2. /\ resolved[n].sku \in SKUs \cup {NULL}
        /\ resolved[n].confidence \in Percent
        /\ resolved[n].options \in BOOLEAN
    <3>1. resolved[n] \in Resolutions
      OBVIOUS
    <3>2. CASE resolved[n] \in [sku: {s \in SKUs : SupplierOf[s] \in Scope},
                                confidence: Scores, options: {FALSE}]
      <4>1. Scores \subseteq Percent
        BY OrderGraphAssumption DEF Percent
      <4> QED
        BY <3>2, <4>1
    <3>3. CASE resolved[n] = [sku |-> NULL, confidence |-> 0, options |-> FALSE]
      BY <3>3 DEF Percent
    <3>4. CASE resolved[n] = [sku |-> NULL, confidence |-> 40, options |-> TRUE]
      BY <3>4 DEF Percent
    <3> QED
      BY <3>1, <3>2, <3>3, <3>4 DEF Resolutions
  <2> QED
    BY <2>1, <2>2 DEF CartOp, LineItem
<1> QED
  BY <1>1, OverPositions

LEMMA CompanionPassType ==
  ASSUME draft_cart \in Carts, cart_ops \in Seq(CartOp),
         accepted_companions \in [Names -> OptionalInt \cup {Absent}]
  PROVE  CompanionPass \in [Nat -> [Seq(CartOp) -> Seq(CartOp)]]
<1>1. ASSUME NEW companion \in SKUs, Accepted(companion)
      PROVE  [op   |-> "set_quantity",
              item |-> _line_from_catalog(companion, CompanionCases(companion))] \in CartOp
  <2>1. NameOf[companion] \in Names
    BY CatalogAssumption
  <2>2. accepted_companions[NameOf[companion]] \in OptionalInt
    BY <1>1, <2>1 DEF Accepted
  <2>3. NeededCases(Effective, companion) \in OptionalInt
    BY EffectiveType, NeededCasesType DEF OptionalInt
  <2>4. CompanionCases(companion) \in OptionalInt
    BY <2>2, <2>3 DEF CompanionCases
  <2>5. _line_from_catalog(companion, CompanionCases(companion)) \in LineItem
    BY <2>4, LineFromCatalogType
  <2> QED
    BY <2>5 DEF CartOp, CartOpKind
<1>2. \A n \in Nat : n \in DOMAIN CatalogOrder => CatalogOrder[n] \in SKUs
  BY CatalogAssumption
<1>3. \A n \in Nat : \A ops \in Seq(CartOp) :
        (IF n \in DOMAIN CatalogOrder /\ CatalogOrder[n] \in _undercovered_companions(Effective)
              /\ Accepted(CatalogOrder[n])
         THEN Append(ops, [op   |-> "set_quantity",
                           item |-> _line_from_catalog(CatalogOrder[n],
                                                       CompanionCases(CatalogOrder[n]))])
         ELSE ops) \in Seq(CartOp)
  BY <1>1, <1>2
<1> QED
  BY <1>3 DEF CompanionPass

LEMMA CompanionOpsType ==
  ASSUME draft_cart \in Carts, cart_ops \in Seq(CartOp),
         accepted_companions \in [Names -> OptionalInt \cup {Absent}]
  PROVE  Iterate(cart_ops, CompanionPass)[Len(CatalogOrder)] \in Seq(CartOp)
<1>1. CompanionPass \in [Nat -> [Seq(CartOp) -> Seq(CartOp)]]
  BY CompanionPassType
<1>2. Iterate(cart_ops, CompanionPass) \in [Nat -> Seq(CartOp)]
  BY <1>1, IterateUnfolds, Zenon
<1>3. Len(CatalogOrder) \in Nat
  BY CatalogAssumption
<1> QED
  BY <1>2, <1>3

LEMMA StockedOpsType ==
  ASSUME cart_ops \in Seq(CartOp)
  PROVE  [n \in DOMAIN cart_ops |->
            IF cart_ops[n].op = "remove" \/ cart_ops[n].item.sku = NULL
            THEN cart_ops[n]
            ELSE [cart_ops[n] EXCEPT !.item = Stocked(@)]] \in Seq(CartOp)
<1>1. ASSUME NEW n \in DOMAIN cart_ops, cart_ops[n].item.sku # NULL
      PROVE  [cart_ops[n] EXCEPT !.item = Stocked(@)] \in CartOp
  <2>1. cart_ops[n] \in CartOp
    OBVIOUS
  <2>2. cart_ops[n].item \in LineItem /\ cart_ops[n].item.sku \in SKUs
    BY <1>1, <2>1 DEF CartOp, LineItem
  <2>3. Stocked(cart_ops[n].item) \in LineItem
    BY <2>2, StockedType
  <2> QED
    BY <2>1, <2>3 DEF CartOp
<1>2. \A n \in DOMAIN cart_ops : cart_ops[n] \in CartOp
  OBVIOUS
<1> QED
  BY <1>1, <1>2, OverPositions

LEMMA ValidatedOpsType ==
  ASSUME cart_ops \in Seq(CartOp), NEW undercovered
  PROVE  [n \in DOMAIN cart_ops |->
            IF cart_ops[n].op = "remove" \/ cart_ops[n].item.sku = NULL
            THEN cart_ops[n]
            ELSE [cart_ops[n] EXCEPT !.item = Validated(cart_ops[n], undercovered)]]
           \in Seq(CartOp)
<1>1. ASSUME NEW n \in DOMAIN cart_ops, cart_ops[n].item.sku # NULL
      PROVE  [cart_ops[n] EXCEPT !.item = Validated(cart_ops[n], undercovered)] \in CartOp
  <2>1. cart_ops[n] \in CartOp
    OBVIOUS
  <2>2. cart_ops[n].item.sku \in SKUs
    BY <1>1, <2>1 DEF CartOp, LineItem
  <2>3. Validated(cart_ops[n], undercovered) \in LineItem
    BY <2>1, <2>2, ValidatedType
  <2> QED
    BY <2>1, <2>3 DEF CartOp
<1>2. \A n \in DOMAIN cart_ops : cart_ops[n] \in CartOp
  OBVIOUS
<1> QED
  BY <1>1, <1>2, OverPositions

LEMMA AppliedType ==
  ASSUME draft_cart \in Carts, cart_ops \in Seq(CartOp)
  PROVE  EditTaken(draft_cart, EditsOf(cart_ops), Landing(cart_ops)) \in Carts
<1>1. /\ Len(EditsOf(cart_ops)) \in Nat
      /\ \A n \in Landing(cart_ops) : EditsOf(cart_ops)[n] \in Edits(SKUs)
  BY EditsOfType, LandingResolved
<1> QED
  BY <1>1, EditTakenType DEF Carts

LEMMA QuestionKindType ==
  ASSUME NEW item \in LineItem
  PROVE  QuestionKind(item) \in {"none", "did_you_mean", "which_product"} \cup BLOCKING_FLAGS
<1> DEFINE asked == {n \in DOMAIN QuestionOrder : QuestionOrder[n] \in item.flags}
<1>1. item.confidence \in 0..100 /\ item.options \in BOOLEAN
  BY DEF LineItem, Percent
<1>2. CASE item.confidence < CONFIDENCE_THRESHOLD /\ item.options
  <2>1. ~ (item.confidence >= CONFIDENCE_THRESHOLD)
    BY <1>1, <1>2 DEF CONFIDENCE_THRESHOLD
  <2>2. QuestionKind(item) = "did_you_mean"
    BY <1>2, <2>1 DEF QuestionKind
  <2> QED
    BY <2>2
<1>3. CASE item.confidence < CONFIDENCE_THRESHOLD /\ ~ item.options
  <2>1. ~ (item.confidence >= CONFIDENCE_THRESHOLD)
    BY <1>1, <1>3 DEF CONFIDENCE_THRESHOLD
  <2>2. QuestionKind(item) = "which_product"
    BY <1>3, <2>1 DEF QuestionKind
  <2> QED
    BY <2>2
<1>4. CASE ~ (item.confidence < CONFIDENCE_THRESHOLD)
  <2>1. DOMAIN QuestionOrder = 1..6 /\ \A n \in 1..6 : QuestionOrder[n] \in BLOCKING_FLAGS
    BY DEF QuestionOrder, BLOCKING_FLAGS
  <2>2. CASE asked = {}
    <3>1. QuestionKind(item) = "none"
      BY <1>1, <1>4, <2>2 DEF QuestionKind, CONFIDENCE_THRESHOLD
    <3> QED
      BY <3>1
  <2>3. CASE asked # {}
    <3> DEFINE first == CHOOSE n \in asked : \A m \in asked : n <= m
    <3>1. asked \in SUBSET Nat
      BY <2>1
    <3>2. \E n \in asked : \A m \in asked : n <= m
      BY <2>3, <3>1, LeastElement
    <3>3. first \in asked
      BY <3>2
    <3>4. QuestionKind(item) = QuestionOrder[first]
      BY <1>1, <1>4, <2>3 DEF QuestionKind, CONFIDENCE_THRESHOLD
    <3> QED
      BY <2>1, <3>3, <3>4
  <2> QED
    BY <2>2, <2>3
<1> QED
  BY <1>2, <1>3, <1>4, <1>1

LEMMA ClarificationsType ==
  ASSUME cart_ops \in Seq(CartOp)
  PROVE  build_clarifications([n \in DOMAIN cart_ops |-> cart_ops[n].item]) \subseteq Question
<1> DEFINE items == [n \in DOMAIN cart_ops |-> cart_ops[n].item]
<1>1. DOMAIN items = 1..Len(cart_ops)
  OBVIOUS
<1>2. ASSUME NEW n \in DOMAIN items PROVE items[n] \in LineItem
  <2>1. cart_ops[n] \in CartOp
    OBVIOUS
  <2> QED
    BY <2>1 DEF CartOp
<1> HIDE DEF items
<1>3. \A n \in DOMAIN items : n \in Nat \ {0}
  BY <1>1
<1>4. \A n \in DOMAIN items : QuestionKind(items[n]) # "none" =>
        [item |-> n, kind |-> QuestionKind(items[n])] \in Question
  BY <1>2, <1>3, QuestionKindType DEF Question
<1>5. build_clarifications(items) \subseteq Question
  BY <1>4 DEF build_clarifications
<1> QED
  BY <1>5 DEF items

-----------------------------------------------------------------------------
(***************************************************************************)
(* Every step of the graph, of its caller and of the panel keeps the state *)
(* well typed.                                                             *)
(***************************************************************************)
LEMMA ReplyType ==
  ASSUME TypeOK
  PROVE  _compose_reply \in ReplyKind
<1>1. CASE handoff # NULL
  BY <1>1 DEF _compose_reply, ReplyKind
<1>2. CASE handoff = NULL /\ answer = "text"
  BY <1>2 DEF _compose_reply, ReplyKind
<1>3. CASE handoff = NULL /\ answer # "text" /\ clarifications # {}
  BY <1>3 DEF _compose_reply, ReplyKind
<1>4. CASE handoff = NULL /\ answer # "text" /\ clarifications = {}
  BY <1>4 DEF _compose_reply, ReplyKind
<1> QED
  BY <1>1, <1>2, <1>3, <1>4

LEMMA TypeOfRun ==
  ASSUME TypeOK, NEW cart \in {client.cart, NULL}, NEW selection \in Selections,
         run(cart, selection)
  PROVE  TypeOK'
<1>1. node' \in Nodes
  BY DEF run, Nodes
<1>2. selected_suppliers' \in (SUBSET Suppliers) \cup {NULL}
  BY OrderGraphAssumption DEF run, TypeOK
<1>3. draft_cart' \in Carts
  BY DEF run, TypeOK
<1>4. turn' \in Nat
  BY DEF run, TypeOK
<1> QED
  BY <1>1, <1>2, <1>3, <1>4 DEF run, ClearOutputs, TypeOK

LEMMA TypeOfSubmit ==
  ASSUME TypeOK, submit_order \/ UNCHANGED orders
  PROVE  orders' \in Seq([turn: Nat, cart: Carts])
<1> DEFINE Order == [turn: Nat, cart: Carts]
<1>1. [turn |-> turn, cart |-> draft_cart] \in Order
  BY DEF TypeOK
<1>2. orders \in Seq(Order)
  BY DEF TypeOK
<1> HIDE DEF Order
<1>3. orders' \in Seq(Order)
  BY <1>1, <1>2 DEF submit_order
<1> QED
  BY <1>3 DEF Order

LEMMA TypeOfNodeStep ==
  ASSUME TypeOK, NodeStep
  PROVE  TypeOK'
<1>1. CASE redact_node
  BY <1>1 DEF redact_node, TypeOK, outside, Nodes, OrderStatus
<1>2. CASE intent_node
  <2>1. intent' \in Intent /\ node' \in Nodes
    <3>1. intent' \in Intent /\ node' = _route_by_intent(intent')
      BY <1>2 DEF intent_node
    <3>2. CASE intent' = "escalate"
      BY <3>1, <3>2 DEF _route_by_intent, Nodes
    <3>3. CASE intent' = "question"
      BY <3>1, <3>3 DEF _route_by_intent, Nodes
    <3>4. CASE intent' \notin {"escalate", "question"}
      BY <3>1, <3>4 DEF _route_by_intent, Nodes
    <3> QED
      BY <3>1, <3>2, <3>3, <3>4
  <2> QED
    BY <1>2, <2>1 DEF intent_node, TypeOK, outside
<1>3. CASE parse_node
  <2>1. cart_ops' \in Seq(CartOp)
    BY <1>3, ParsedOpsType DEF parse_node
  <2>2. accepted_companions' \in [Names -> OptionalInt \cup {Absent}]
    BY <1>3, OrderGraphAssumption DEF parse_node
  <2>3. node' \in Nodes /\ place_order' \in BOOLEAN
    BY <1>3 DEF parse_node, Nodes
  <2> QED
    BY <1>3, <2>1, <2>2, <2>3 DEF parse_node, TypeOK, outside
<1>4. CASE resolve_node
  <2>1. cart_ops' \in Seq(CartOp)
    BY <1>4, ResolvedOpsType DEF resolve_node, TypeOK
  <2>2. node' \in Nodes
    BY <1>4 DEF resolve_node, Nodes
  <2> QED
    BY <1>4, <2>1, <2>2 DEF resolve_node, TypeOK, outside
<1>5. CASE add_companions_node
  <2>1. cart_ops' \in Seq(CartOp)
    BY <1>5, CompanionOpsType DEF add_companions_node, TypeOK
  <2>2. node' \in Nodes
    BY <1>5 DEF add_companions_node, Nodes
  <2> QED
    BY <1>5, <2>1, <2>2 DEF add_companions_node, TypeOK, outside
<1>6. CASE check_inventory_node
  <2>1. cart_ops' \in Seq(CartOp)
    BY <1>6, StockedOpsType DEF check_inventory_node, TypeOK
  <2>2. node' \in Nodes
    BY <1>6 DEF check_inventory_node, Nodes
  <2> QED
    BY <1>6, <2>1, <2>2 DEF check_inventory_node, TypeOK, outside
<1>7. CASE validate_node
  <2>1. cart_ops' \in Seq(CartOp)
    BY <1>7, ValidatedOpsType DEF validate_node, TypeOK
  <2>2. node' \in Nodes
    BY <1>7 DEF validate_node, Nodes
  <2> QED
    BY <1>7, <2>1, <2>2 DEF validate_node, TypeOK, outside
<1>8. CASE apply_node
  <2>1. draft_cart' \in Carts
    BY <1>8, AppliedType DEF apply_node, TypeOK
  <2>2. node' \in Nodes
    BY <1>8 DEF apply_node, _gate_decision, gate, Nodes
  <2> QED
    BY <1>8, <2>1, <2>2 DEF apply_node, TypeOK, outside
<1>9. CASE draft_node
  <2>1. /\ confirmation' \in Carts \cup {NULL}
        /\ status' \in OrderStatus
        /\ orders' \in Seq([turn: Nat, cart: Carts])
    <3>1. submit_order \/ UNCHANGED orders
      BY <1>9 DEF draft_node
    <3>2. orders' \in Seq([turn: Nat, cart: Carts])
      BY <3>1, TypeOfSubmit
    <3> QED
      BY <1>9, <3>2 DEF draft_node, TypeOK, OrderStatus
  <2> QED
    BY <1>9, <2>1 DEF draft_node, TypeOK
<1>10. CASE clarify_node
  <2>1. clarifications' \subseteq Question
    BY <1>10, ClarificationsType DEF clarify_node, TypeOK
  <2> QED
    BY <1>10, <2>1 DEF clarify_node, TypeOK, outside, OrderStatus
<1>11. CASE escalate_node
  <2>1. tickets' \in Nat /\ handoff' \in Nat \cup {NULL}
    BY <1>11 DEF escalate_node, TypeOK
  <2> QED
    BY <1>11, <2>1 DEF escalate_node, TypeOK, OrderStatus
<1>12. CASE rag_qa
  <2>1. tickets' \in Nat
    BY <1>12, OrderGraphAssumption DEF rag_qa, TypeOK
  <2> QED
    BY <1>12, <2>1 DEF rag_qa, TypeOK
<1>13. CASE handle_turn
  <2>1. client' \in [cart: Carts, reply: ReplyKind, panel: SUBSET SKUs]
    BY <1>13, ReplyType DEF handle_turn, TypeOK
  <2> QED
    BY <1>13, <2>1 DEF handle_turn, TypeOK, state
<1> QED
  BY <1>1, <1>2, <1>3, <1>4, <1>5, <1>6, <1>7, <1>8, <1>9, <1>10, <1>11, <1>12, <1>13
     DEF NodeStep

LEMMA TypeOfNodeRaises ==
  ASSUME TypeOK, NodeRaises
  PROVE  TypeOK'
<1>1. tickets' \in Nat
  <2>1. CASE node = "escalate"
    BY <2>1 DEF NodeRaises, TypeOK
  <2>2. CASE node = "rag_qa"
    BY <2>2, OrderGraphAssumption DEF NodeRaises, TypeOK
  <2>3. CASE node \notin {"escalate", "rag_qa"}
    BY <2>3 DEF NodeRaises, TypeOK
  <2> QED
    BY <2>1, <2>2, <2>3
<1>2. orders' \in Seq([turn: Nat, cart: Carts])
  <2>1. submit_order \/ UNCHANGED orders
    BY DEF NodeRaises
  <2> QED
    BY <2>1, TypeOfSubmit
<1> QED
  BY <1>1, <1>2 DEF NodeRaises, TypeOK, state

\* What the panel shows is replaced in one line.
LEMMA TypeOfPanel ==
  ASSUME TypeOK, NEW sku \in SKUs,
         PanelRemove(sku) \/ \E delta \in {-1, 1} : PanelEdit(sku, delta)
  PROVE  TypeOK'
<1>1. \E quantity \in Int \cup {Absent} : client' = [client EXCEPT !.cart[sku] = quantity]
  <2>1. CASE PanelRemove(sku)
    BY <2>1 DEF PanelRemove
  <2>2. ASSUME NEW delta \in {-1, 1}, PanelEdit(sku, delta)
        PROVE  \E quantity \in Int \cup {Absent} :
                 client' = [client EXCEPT !.cart[sku] = quantity]
    <3>1. client.cart[sku] \in OptionalInt \cup {Absent}
      BY DEF TypeOK, Carts, CartMaps
    <3>2. CasesOf(client.cart, sku) \in Int
      BY <3>1 DEF CasesOf, OrZero, OptionalInt
    <3>3. CasesOf(client.cart, sku) + delta \in Int
      BY <3>2
    <3> QED
      BY <2>2, <3>3 DEF PanelEdit
  <2> QED
    BY <2>1, <2>2
<1>2. PICK quantity \in Int \cup {Absent} : client' = [client EXCEPT !.cart[sku] = quantity]
  BY <1>1
<1>3. client' \in [cart: Carts, reply: ReplyKind, panel: SUBSET SKUs]
  BY <1>2 DEF TypeOK, Carts, CartMaps, OptionalInt
<1>4. UNCHANGED <<node, state, orders, tickets, turn>>
  BY DEF PanelRemove, PanelEdit
<1> QED
  BY <1>3, <1>4 DEF TypeOK, state

LEMMA TypeOfDrawing ==
  ASSUME TypeOK, cart_panel
  PROVE  TypeOK'
<1>1. client' \in [cart: Carts, reply: ReplyKind, panel: SUBSET SKUs]
  BY DEF cart_panel, TypeOK
<1> QED
  BY <1>1 DEF cart_panel, TypeOK, state

(***************************************************************************)
(* TypeOK is an invariant of the graph, for every catalog and every number *)
(* of operations and of turns.                                             *)
(***************************************************************************)
THEOREM TypeCorrect == Spec => []TypeOK
<1>1. Init => TypeOK
  <2> SUFFICES ASSUME Init PROVE TypeOK
    OBVIOUS
  <2>1. EmptyCart(SKUs) \in Carts
    BY DEF EmptyCart, Carts, CartMaps
  <2>2. client \in [cart: Carts, reply: ReplyKind, panel: SUBSET SKUs]
    BY OrderGraphAssumption DEF Init, Carts, CartMaps, OptionalInt, ReplyKind
  <2>3. <<>> \in Seq(CartOp) /\ <<>> \in Seq([turn: Nat, cart: Carts])
    OBVIOUS
  <2>4. accepted_companions \in [Names -> OptionalInt \cup {Absent}]
    BY DEF Init
  <2> QED
    BY <2>1, <2>2, <2>3, <2>4 DEF Init, TypeOK, OrderStatus
<1>2. TypeOK /\ [Next]_vars => TypeOK'
  <2> SUFFICES ASSUME TypeOK, [Next]_vars PROVE TypeOK'
    OBVIOUS
  <2>1. ASSUME NEW cart \in {client.cart, NULL}, NEW selection \in Selections,
               run(cart, selection)
        PROVE  TypeOK'
    BY <2>1, TypeOfRun
  <2>2. CASE NodeStep
    BY <2>2, TypeOfNodeStep
  <2>3. CASE NodeRaises
    BY <2>3, TypeOfNodeRaises
  <2>4. ASSUME NEW sku \in SKUs,
               PanelRemove(sku) \/ \E delta \in {-1, 1} : PanelEdit(sku, delta)
        PROVE  TypeOK'
    BY <2>4, TypeOfPanel
  <2>5. CASE UNCHANGED vars
    BY <2>5 DEF vars, state, outside, TypeOK
  <2>6. CASE RecordRaises
    BY <2>6 DEF RecordRaises, state, outside, TypeOK
  <2>7. CASE cart_panel
    BY <2>7, TypeOfDrawing
  <2> QED
    BY <2>1, <2>2, <2>3, <2>4, <2>5, <2>6, <2>7 DEF Next, SessionOver
<1> QED
  BY <1>1, <1>2, PTL DEF Spec
=============================================================================
