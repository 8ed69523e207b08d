----------------------------- MODULE OrderGraph -----------------------------
(***************************************************************************)
(* The order desk's graph: one action per node of build_graph              *)
(* (src/src/app/graph/graph.py), between the caller's start of a turn and  *)
(* the reply composed for it (src/src/app/turn.py, src/src/app/graph/      *)
(* agent.py).  A node reads the whole state and writes its slice of it;    *)
(* the checkpointer keeps the state between turns, so what a turn does not *)
(* write or clear is still there in the next one.                          *)
(*                                                                         *)
(* The model chooses, each turn, what the language model may return: an    *)
(* intent, operations, accepted add-ons and the wish to order; and for     *)
(* each phrase what resolve_skus may make of it (Resolution).  A node may  *)
(* raise, and so may the recording of a turn whose nodes have all run: the *)
(* caller then keeps the cart it had, and the state keeps what the nodes   *)
(* before it wrote.                                                        *)
(*                                                                         *)
(* Left out: message texts and history, prices, pii_found, item_memory     *)
(* (bootstrap never passes one) and the order of a cart's lines.           *)
(***************************************************************************)
EXTENDS Coverage

CONSTANTS
  InStock,      \* [SKUs -> BOOLEAN]: the supplier's stock, fixed here
  OnHand,       \* [SKUs -> Nat]: whole cases on hand, 0 when unknown
  Selections,   \* supplier selections a caller passes: sets of suppliers, or NULL
  ParsedOrders, \* sequences of [op, quantity, unit_quantity] parse may extract
  Amounts,      \* amounts a customer states for an accepted add-on, or NULL
  Scores,       \* confidences above MIN_SCORE with which a phrase resolves
  StartCarts,   \* carts a session may bring to its first turn
  MaxTurns,     \* bound of the runs: turns of a session
  MaxTickets,   \* bound of the runs: tickets one question may open
  MaxCases      \* bound of the runs: the panel steps no line beyond it

VARIABLES
  node,                 \* the node that runs next, "END" or, between turns, "idle"
  selected_suppliers,
  intent,
  cart_ops,
  accepted_companions,  \* [Names -> an amount, NULL for none stated, or Absent]
  place_order,
  draft_cart,
  clarifications,
  answer,               \* NULL, "blank" or "text"
  status,
  confirmation,         \* the cart the supplier acknowledged, or NULL
  handoff,              \* the number of the ticket, or NULL
  client,               \* what the caller holds: its cart, the last reply and the panel,
                        \* which is the lines whose buttons it shows
  orders,               \* what the supplier received: [turn, cart] records
  tickets,              \* tickets opened
  turn                  \* turns started

\* OrderState, the part of it that is modelled.
state == <<selected_suppliers, intent, cart_ops, accepted_companions, place_order,
           draft_cart, clarifications, answer, status, confirmation, handoff>>
outside == <<client, orders, tickets, turn>>
vars == <<node, state, outside>>

Nodes == {"redact", "intent", "parse", "resolve", "add_companions", "check_inventory",
          "validate", "apply", "draft", "clarify", "escalate", "rag_qa"}

OrderStatus == {"parsing", "needs_clarification", "drafted", "submitted", "escalated"}
Question == [item: Nat \ {0}, kind: {"did_you_mean", "which_product"} \cup BLOCKING_FLAGS]
ReplyKind == {"handoff", "answer", "questions", "empty", "confirmed", "draft"}
Carts == CartMaps(SKUs)

ASSUME OrderGraphAssumption ==
  /\ InStock \in [SKUs -> BOOLEAN]
  /\ OnHand \in [SKUs -> Nat]
  /\ Selections \subseteq (SUBSET Suppliers) \cup {NULL}
  /\ ParsedOrders \subseteq Seq([op: CartOpKind, quantity: OptionalInt, unit_quantity: OptionalInt])
  /\ Amounts \subseteq OptionalInt
  /\ Scores \subseteq 50..100
  /\ StartCarts \subseteq [SKUs -> (Nat \ {0}) \cup {Absent}]
  /\ NULL \notin Carts /\ NULL \notin {"blank", "text"}
  /\ MaxTurns \in Nat /\ MaxTickets \in Nat /\ MaxCases \in Nat

-----------------------------------------------------------------------------
\* One turn: the caller's message enters (LangGraphOrderAgent.run, _initial_state).

\* Mutant of ClearOutputs: what an escalation, a question or an order said stays.
ClearAnswerOnly ==
  /\ answer' = NULL
  /\ UNCHANGED <<handoff, confirmation, clarifications>>

\* The outputs of the turn before are cleared; everything else of the state stays.
ClearOutputs ==
  /\ answer' = NULL
  /\ handoff' = NULL
  /\ confirmation' = NULL
  /\ clarifications' = {}

\* A caller passes its cart, or none when the checkpointer is to provide it; the
\* same for the selection of suppliers.
run(cart, selection) ==
  /\ node = "idle"
  /\ turn < MaxTurns
  /\ turn' = turn + 1
  /\ node' = "redact"
  /\ draft_cart' = IF cart = NULL THEN draft_cart ELSE cart
  /\ selected_suppliers' = IF selection = NULL THEN selected_suppliers ELSE selection
  /\ ClearOutputs
  /\ UNCHANGED <<intent, cart_ops, accepted_companions, place_order, status,
                 client, orders, tickets>>

redact_node ==
  /\ node = "redact"
  /\ node' = "intent"
  /\ status' = "parsing"
  /\ UNCHANGED <<selected_suppliers, intent, cart_ops, accepted_companions, place_order,
                 draft_cart, clarifications, answer, confirmation, handoff, outside>>

\* Mutant of _route_by_intent: the intent is taken for the node's name.
RouteByName(i) ==
  CASE i = "question" -> "rag_qa"
    [] OTHER          -> i

_route_by_intent(i) ==
  CASE i = "escalate" -> "escalate"
    [] i = "question" -> "rag_qa"
    [] OTHER          -> "parse"

intent_node ==
  /\ node = "intent"
  /\ intent' \in Intent
  /\ node' = _route_by_intent(intent')
  /\ UNCHANGED <<selected_suppliers, cart_ops, accepted_companions, place_order, draft_cart,
                 clarifications, answer, status, confirmation, handoff, outside>>

-----------------------------------------------------------------------------
\* The order path.

\* A line as parse makes it: amounts, and nothing resolved yet.
ParsedLine(quantity, unit_quantity) ==
  [sku |-> NULL, quantity |-> quantity, unit_quantity |-> unit_quantity,
   quantity_on_hand |-> NULL, confidence |-> 0, flags |-> {}, options |-> FALSE,
   companions |-> {}]

\* The names an offer can have; a name that no companion has is never looked up.
OfferNames == {NameOf[companion] : companion \in UNION {Companions[sku] : sku \in SKUs}}

parse_node ==
  /\ node = "parse"
  /\ node' = "resolve"
  /\ \E items \in ParsedOrders :
       cart_ops' = [n \in DOMAIN items |->
                      [op   |-> items[n].op,
                       item |-> ParsedLine(items[n].quantity, items[n].unit_quantity)]]
  /\ \E accepted \in [OfferNames -> Amounts \cup {Absent}] :
       accepted_companions' = [name \in Names |-> IF name \in OfferNames THEN accepted[name]
                                                                       ELSE Absent]
  /\ place_order' \in BOOLEAN
  /\ UNCHANGED <<selected_suppliers, intent, draft_cart, clarifications, answer, status,
                 confirmation, handoff, outside>>

\* The suppliers retrieval is scoped to: None or an empty selection means all.
Scope == IF selected_suppliers \in {NULL, {}} THEN Suppliers ELSE selected_suppliers

\* What resolve_skus may make of a phrase (Resolution shows it can do nothing
\* else): no candidate at all, candidates it cannot choose among, or a SKU of
\* the suppliers in scope, with its score.
Resolutions ==
  {[sku |-> NULL, confidence |-> 0, options |-> FALSE],
   [sku |-> NULL, confidence |-> 40, options |-> TRUE]}
  \cup [sku: {s \in SKUs : SupplierOf[s] \in Scope}, confidence: Scores, options: {FALSE}]

resolve_node ==
  /\ node = "resolve"
  /\ node' = "add_companions"
  /\ \E resolved \in [DOMAIN cart_ops -> Resolutions] :
       cart_ops' = [n \in DOMAIN cart_ops |->
                      [cart_ops[n] EXCEPT !.item.sku = resolved[n].sku,
                                          !.item.confidence = resolved[n].confidence,
                                          !.item.options = resolved[n].options]]
  /\ UNCHANGED <<selected_suppliers, intent, accepted_companions, place_order, draft_cart,
                 clarifications, answer, status, confirmation, handoff, outside>>

\* The operations as edits of the cart, and the numbers of the resolved ones.
EditsOf(ops) ==
  [n \in DOMAIN ops |-> [op |-> ops[n].op, key |-> ops[n].item.sku,
                         quantity |-> ops[n].item.quantity]]
Resolved(ops) == {n \in DOMAIN ops : ops[n].item.sku # NULL}

\* The cart as this turn's resolved operations would leave it.
Effective == EditTaken(draft_cart, EditsOf(cart_ops), Resolved(cart_ops))

_line_from_catalog(sku, quantity) ==
  [ParsedLine(quantity, NULL) EXCEPT !.sku = sku, !.confidence = 100]

\* Mutant of Accepted: a name stands for one product, whichever has it.
AcceptedAsOne(companion) ==
  /\ accepted_companions[NameOf[companion]] # Absent
  /\ companion = CHOOSE sku \in SKUs : NameOf[sku] = NameOf[companion]

\* An offer is accepted by its product's name, which two suppliers may share.
Accepted(companion) == accepted_companions[NameOf[companion]] # Absent

\* The amount the customer stated, or what the cart needs in all.
CompanionCases(companion) ==
  LET stated == accepted_companions[NameOf[companion]]
  IN  IF stated # NULL THEN stated ELSE NeededCases(Effective, companion)

\* Pass number n over the catalog: the operation for its n-th SKU, when that is
\* an open offer that was accepted.
CompanionPass ==
  [n \in Nat |-> [ops \in Seq(CartOp) |->
     IF n \in DOMAIN CatalogOrder /\ CatalogOrder[n] \in _undercovered_companions(Effective)
          /\ Accepted(CatalogOrder[n])
     THEN Append(ops, [op   |-> "set_quantity",
                       item |-> _line_from_catalog(CatalogOrder[n],
                                                   CompanionCases(CatalogOrder[n]))])
     ELSE ops]]

add_companions_node ==
  /\ node = "add_companions"
  /\ node' = "check_inventory"
  /\ cart_ops' = Iterate(cart_ops, CompanionPass)[Len(CatalogOrder)]
  /\ UNCHANGED <<selected_suppliers, intent, accepted_companions, place_order, draft_cart,
                 clarifications, answer, status, confirmation, handoff, outside>>

\* The supplier's answer on one line: out of stock, or how many cases it has.
Stocked(item) ==
  CASE ~ InStock[item.sku] -> [item EXCEPT !.flags = @ \cup {"out_of_stock"}]
    [] InStock[item.sku] /\ OnHand[item.sku] > 0 ->
         [item EXCEPT !.quantity_on_hand = OnHand[item.sku]]
    [] InStock[item.sku] /\ OnHand[item.sku] <= 0 -> item

check_inventory_node ==
  /\ node = "check_inventory"
  /\ node' = "validate"
  /\ cart_ops' = [n \in DOMAIN cart_ops |->
                    IF cart_ops[n].op = "remove" \/ cart_ops[n].item.sku = NULL
                    THEN cart_ops[n]
                    ELSE [cart_ops[n] EXCEPT !.item = Stocked(@)]]
  /\ UNCHANGED <<selected_suppliers, intent, accepted_companions, place_order, draft_cart,
                 clarifications, answer, status, confirmation, handoff, outside>>

\* Mutant of the next definition: what is covered already is offered too.
AttachAll(item, undercovered) == [item EXCEPT !.companions = Companions[item.sku]]

\* The offer of a line just added: its companions the cart would still lack.
_attach_companion_offer(item, undercovered) ==
  LET companions == Companions[item.sku] \cap undercovered
  IN  IF companions = {}
      THEN [item EXCEPT !.flags = @ \ {"needs_companion"}]
      ELSE [item EXCEPT !.companions = companions]

\* A validated line, with the offer of an added one and none for any other.
Validated(op, undercovered) ==
  LET item == validate_rules(op.item)
  IN  CASE "needs_companion" \notin item.flags -> item
        [] "needs_companion" \in item.flags /\ op.op = "add" ->
             _attach_companion_offer(item, undercovered)
        [] "needs_companion" \in item.flags /\ op.op # "add" ->
             [item EXCEPT !.flags = @ \ {"needs_companion"}, !.companions = {}]

validate_node ==
  /\ node = "validate"
  /\ node' = "apply"
  /\ LET undercovered == _undercovered_companions(Effective)
     IN  cart_ops' = [n \in DOMAIN cart_ops |->
                        IF cart_ops[n].op = "remove" \/ cart_ops[n].item.sku = NULL
                        THEN cart_ops[n]
                        ELSE [cart_ops[n] EXCEPT !.item = Validated(cart_ops[n], undercovered)]]
  /\ UNCHANGED <<selected_suppliers, intent, accepted_companions, place_order, draft_cart,
                 clarifications, answer, status, confirmation, handoff, outside>>

\* The operations clean enough to land.
Lands(op) ==
  /\ op.item.sku # NULL
  /\ ~ (op.op = "add" /\ op.item.quantity = NULL)
  /\ op.item.flags \cap HOLD_FROM_CART_FLAGS = {}

Landing(ops) == {n \in DOMAIN ops : Lands(ops[n])}

_gate_decision(ops) == gate([n \in DOMAIN ops |-> ops[n].item])

apply_node ==
  /\ node = "apply"
  /\ node' = _gate_decision(cart_ops)
  /\ draft_cart' = EditTaken(draft_cart, EditsOf(cart_ops), Landing(cart_ops))
  /\ UNCHANGED <<selected_suppliers, intent, cart_ops, accepted_companions, place_order,
                 clarifications, answer, status, confirmation, handoff, outside>>

\* Mutants of ToSubmit and submit_order: an empty cart is submitted, and a call
\* that was answered late is made once more.
SubmitAny == place_order
SubmitTwice == orders' = orders \o <<[turn |-> turn, cart |-> draft_cart],
                                     [turn |-> turn, cart |-> draft_cart]>>

\* Submit only what the customer asked to, and only a cart that has lines.
ToSubmit == place_order /\ draft_cart # EmptyCart(SKUs)

submit_order == orders' = Append(orders, [turn |-> turn, cart |-> draft_cart])

draft_node ==
  /\ node = "draft"
  /\ node' = "END"
  /\ IF ToSubmit
     THEN /\ submit_order
          /\ confirmation' = draft_cart
          /\ status' = "submitted"
     ELSE /\ status' = "drafted"
          /\ UNCHANGED <<orders, confirmation>>
  /\ UNCHANGED <<selected_suppliers, intent, cart_ops, accepted_companions, place_order,
                 draft_cart, clarifications, answer, handoff, client, tickets, turn>>

clarify_node ==
  /\ node = "clarify"
  /\ node' = "END"
  /\ clarifications' = build_clarifications([n \in DOMAIN cart_ops |-> cart_ops[n].item])
  /\ status' = "needs_clarification"
  /\ UNCHANGED <<selected_suppliers, intent, cart_ops, accepted_companions, place_order,
                 draft_cart, answer, confirmation, handoff, outside>>

-----------------------------------------------------------------------------
\* The other two paths.

escalate_node ==
  /\ node = "escalate"
  /\ node' = "END"
  /\ tickets' = tickets + 1
  /\ handoff' = tickets + 1
  /\ status' = "escalated"
  /\ UNCHANGED <<selected_suppliers, intent, cart_ops, accepted_companions, place_order,
                 draft_cart, clarifications, answer, confirmation, client, orders, turn>>

\* The question subgraph: the model calls tools as often as it likes, the one
\* that opens a ticket among them, and leaves a text that may be blank.
rag_qa ==
  /\ node = "rag_qa"
  /\ node' = "END"
  /\ answer' \in {"blank", "text"}
  /\ tickets' \in tickets..(tickets + MaxTickets)
  /\ UNCHANGED <<selected_suppliers, intent, cart_ops, accepted_companions, place_order,
                 draft_cart, clarifications, status, confirmation, handoff, client, orders,
                 turn>>

-----------------------------------------------------------------------------
\* The turn ends.

\* The one thing said this turn.
_compose_reply ==
  CASE handoff # NULL -> "handoff"
    [] handoff = NULL /\ answer = "text" -> "answer"
    [] handoff = NULL /\ answer # "text" /\ clarifications # {} -> "questions"
    [] handoff = NULL /\ answer # "text" /\ clarifications = {} ->
         CASE draft_cart = EmptyCart(SKUs) -> "empty"
           [] draft_cart # EmptyCart(SKUs) /\ confirmation # NULL -> "confirmed"
           [] draft_cart # EmptyCart(SKUs) /\ confirmation = NULL -> "draft"

\* handle_turn records the turn and returns the reply and the cart, which the
\* caller shows from then on.
handle_turn ==
  /\ node = "END"
  /\ node' = "idle"
  /\ client' = [client EXCEPT !.cart = draft_cart, !.reply = _compose_reply]
  /\ UNCHANGED <<state, orders, tickets, turn>>

\* record_turn raises when the graph has ended: whatever the turn has done, an
\* order sent included, its reply and its cart never reach the caller.
RecordRaises ==
  /\ node = "END"
  /\ node' = "idle"
  /\ UNCHANGED <<state, outside>>

\* The node that runs raises, before or after its call of the supplier or of the
\* escalation gateway was heard; run logs the failure and raises it again.
NodeRaises ==
  /\ node \in Nodes
  /\ node' = "idle"
  /\ \/ UNCHANGED orders
     \/ node = "draft" /\ ToSubmit /\ submit_order
  /\ tickets' \in CASE node = "escalate" -> {tickets, tickets + 1}
                     [] node = "rag_qa"   -> tickets..(tickets + MaxTickets)
                     [] OTHER             -> {tickets}
  /\ UNCHANGED <<state, client, turn>>

\* Bound of the runs: the panel is used between turns, not before the first one,
\* where StartCarts stands for the edits, nor after the last.
PanelInUse == node = "idle" /\ turn \in 1..(MaxTurns - 1)

\* The panel is drawn from the cart.  Until it is drawn again its buttons are
\* those of this cart, whatever has become of the lines since.
cart_panel ==
  /\ PanelInUse
  /\ client' = [client EXCEPT !.panel = {sku \in SKUs : client.cart[sku] # Absent}]
  /\ UNCHANGED <<node, state, orders, tickets, turn>>

\* The customer steps a line by its buttons: a stepped line that is gone comes
\* back with one case (Cart has the handlers on the real structure).
PanelEdit(sku, delta) ==
  /\ PanelInUse
  /\ sku \in client.panel
  /\ delta = 1 => CasesOf(client.cart, sku) < MaxCases
  /\ LET stepped == CasesOf(client.cart, sku) + delta
     IN  client' = [client EXCEPT !.cart[sku] = IF stepped < 1 THEN Absent ELSE stepped]
  /\ UNCHANGED <<node, state, orders, tickets, turn>>

PanelRemove(sku) ==
  /\ PanelInUse
  /\ sku \in client.panel
  /\ client' = [client EXCEPT !.cart[sku] = Absent]
  /\ UNCHANGED <<node, state, orders, tickets, turn>>

-----------------------------------------------------------------------------
Init ==
  /\ node = "idle"
  /\ selected_suppliers = NULL
  /\ intent = NULL
  /\ cart_ops = <<>>
  /\ accepted_companions = [name \in Names |-> Absent]
  /\ place_order = FALSE
  /\ draft_cart = EmptyCart(SKUs)
  /\ clarifications = {}
  /\ answer = NULL
  /\ status = "parsing"
  /\ confirmation = NULL
  /\ handoff = NULL
  /\ client \in [cart: StartCarts, reply: {"empty"}, panel: {{}}]
  /\ orders = <<>>
  /\ tickets = 0
  /\ turn = 0

\* The bound of the run is reached: the customer leaves.
SessionOver == node = "idle" /\ turn = MaxTurns /\ UNCHANGED vars

NodeStep ==
  \/ redact_node \/ intent_node
  \/ parse_node \/ resolve_node \/ add_companions_node \/ check_inventory_node
  \/ validate_node \/ apply_node \/ draft_node \/ clarify_node
  \/ escalate_node \/ rag_qa
  \/ handle_turn

Next ==
  \/ \E cart \in {client.cart, NULL}, selection \in Selections : run(cart, selection)
  \/ NodeStep
  \/ NodeRaises
  \/ RecordRaises
  \/ cart_panel
  \/ \E sku \in SKUs : PanelRemove(sku) \/ \E delta \in {-1, 1} : PanelEdit(sku, delta)
  \/ SessionOver

Spec == Init /\ [][Next]_vars

-----------------------------------------------------------------------------
\* The state is what OrderState declares, and the caller holds a cart.
TypeOK ==
  /\ node \in Nodes \cup {"idle", "END"}
  /\ selected_suppliers \in (SUBSET Suppliers) \cup {NULL}
  /\ intent \in Intent \cup {NULL}
  /\ cart_ops \in Seq(CartOp)
  /\ accepted_companions \in [Names -> OptionalInt \cup {Absent}]
  /\ place_order \in BOOLEAN
  /\ draft_cart \in Carts
  /\ clarifications \subseteq Question
  /\ answer \in {NULL, "blank", "text"}
  /\ status \in OrderStatus
  /\ confirmation \in Carts \cup {NULL}
  /\ handoff \in Nat \cup {NULL}
  /\ client \in [cart: Carts, reply: ReplyKind, panel: SUBSET SKUs]
  /\ orders \in Seq([turn: Nat, cart: Carts])
  /\ tickets \in Nat
  /\ turn \in Nat

\* A cart each line of which has a number of cases, at least one.
Counted(cart) == \A sku \in SKUs : cart[sku] = Absent \/ cart[sku] \in Nat \ {0}

\* Whatever amounts the language model extracts - none, zero, negative, units -
\* and whatever the panel does in between, no cart that is kept, shown or
\* ordered has a line without a quantity or with fewer than one case.
CartsAreCounted ==
  /\ Counted(draft_cart)
  /\ Counted(client.cart)
  /\ \A n \in DOMAIN orders : Counted(orders[n].cart)

\* A line lands only if it can be ordered: what apply adds or changes is in stock
\* and at least the minimum order, over several operations on one line too.
LandsOrderable ==
  [][node = "apply" =>
       \A sku \in SKUs : draft_cart'[sku] \notin {draft_cart[sku], Absent} =>
                           InStock[sku] /\ draft_cart'[sku] >= MinOrder[sku]]_vars

\* Nothing the customer asked for is dropped or guessed in silence: on the order
\* path each operation has landed on a confident match, or there is a question about
\* it - also when it has landed, since apply does not look at the confidence.
NothingDropped ==
  node = "END" /\ intent \in {"order", "reorder"} =>
    \A n \in DOMAIN cart_ops :
      \/ Lands(cart_ops[n]) /\ cart_ops[n].item.confidence >= CONFIDENCE_THRESHOLD
      \/ \E q \in clarifications : q.item = n

\* An order goes out only in a turn that ends with everything it asked for in the
\* cart: place_order with one held line submits nothing.
OrdersOnlyWhenClean ==
  [][orders' # orders => \A n \in DOMAIN cart_ops : Lands(cart_ops[n])]_vars

\* A turn sends at most one order.
OneOrderPerTurn ==
  \A m, n \in DOMAIN orders : orders[m].turn = orders[n].turn => m = n

\* What the reply and the cart that handle_turn returns say, against what was done.
TellsThisTurn ==
  handle_turn =>
    LET ordered == {n \in DOMAIN orders : orders[n].turn = turn}
    IN  /\ client'.reply = "handoff" <=> intent = "escalate"
        /\ client'.reply = "answer" => intent = "question"
        /\ client'.reply = "questions" <=> status = "needs_clarification"
        /\ client'.reply = "confirmed" <=> ordered # {}
        /\ \A n \in ordered : orders[n].cart = client'.cart

\* The reply is about this turn, whatever the turns before it left in the state:
\* a ticket for an escalation, questions for a clarification, a confirmation for
\* an order the supplier got this turn - and then the caller's cart is that order.
ReplyTellsThisTurn == [][TellsThisTurn]_vars

\* The operations are all counted in cases, so that the preview of the cart,
\* taken before units are rounded, has their amounts.
CountedInCases == \A n \in DOMAIN cart_ops : cart_ops[n].item.unit_quantity = NULL

\* When a turn ends without a question, an add-on that was accepted without an
\* amount covers every line it pairs with, those of this turn included.
AcceptedMeansCovered ==
  node = "draft" /\ CountedInCases =>
    \A companion \in _undercovered_companions(draft_cart) :
      accepted_companions[NameOf[companion]] # NULL

\* What a question offers is still open when the "yes" comes: the cart, after the
\* turn that offered it, lacks it - when every resolved line of the turn landed.
OfferedMeansOpen ==
  /\ node = "END" /\ status = "needs_clarification" /\ CountedInCases
  /\ \A n \in Resolved(cart_ops) : Lands(cart_ops[n])
  => \A n \in DOMAIN cart_ops :
       cart_ops[n].item.companions \subseteq _undercovered_companions(draft_cart)

-----------------------------------------------------------------------------
\* What the customer may rely on: the desk of OrderDesk.
DeskLandable == [sku \in SKUs |-> {cases \in Nat : InStock[sku] /\ cases >= MinOrder[sku]}]
DeskReceived == [n \in DOMAIN orders |-> orders[n].cart]
DeskPhase ==
  CASE node = "idle" -> "closed"
    [] node = "END" /\ intent \in {"order", "reorder"} /\ status = "submitted" -> "sent"
    [] OTHER -> "open"

Desk == INSTANCE OrderDesk WITH
  Landable <- DeskLandable,
  cart <- client.cart,
  shown <- client.panel,
  working <- draft_cart,
  received <- DeskReceived,
  phase <- DeskPhase

\* Every behaviour of the graph is one of the desk: what lands can be ordered, an
\* order is the cart the customer is then shown, a turn that fails, be it after its
\* order, changes no cart that is shown, and the customer changes lines of the panel.
ImplementsDesk == Desk!Spec
=============================================================================
