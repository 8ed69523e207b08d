-------------------------------- MODULE Cart --------------------------------
(***************************************************************************)
(* The cart aggregate of src/src/domain/cart.py with the structure the     *)
(* code gives it - a dict from supplier to a list of lines - and the       *)
(* direct edits of the panel, src/src/interfaces/gradio_app/cart_ops.py,   *)
(* which go through the same Cart.apply.                                   *)
(*                                                                         *)
(* A line keeps its supplier, SKU, quantity and unit price; its display    *)
(* fields are copied along with it and left out.  The order of the keys of *)
(* the dict is the order of the panel's groups and is left out too.        *)
(***************************************************************************)
EXTENDS CartMap

CONSTANTS
  Suppliers, SKUs,
  Prices,   \* unit prices a supplier may quote
  OpLists,  \* the batches of operations a turn may apply
  MaxQuantity  \* bound of the runs: no line grows beyond it

Line == [supplier: Suppliers, sku: SKUs, quantity: OptionalInt, unit_price: Prices \cup {NULL}]
Op == [op: {"add", "set_quantity", "remove"}, item: Line]

\* What by_supplier may be: a list of lines for each supplier it has as a key.
Dicts == [Suppliers -> {Absent} \cup Seq(Line)]

ASSUME CartAssumption ==
  /\ OpLists \subseteq Seq(Op)
  /\ Absent \notin Seq(Line)
  /\ MaxQuantity \in Nat

VARIABLES
  by_supplier,  \* the cart, as the session holds it
  rendered      \* the (supplier, SKU) lines whose buttons the panel shows

vars == <<by_supplier, rendered>>

-----------------------------------------------------------------------------
\* dict.setdefault(supplier, []).
SetDefault(dict, supplier) == [dict EXCEPT ![supplier] = IF @ = Absent THEN <<>> ELSE @]

\* The suppliers that are keys of the dict.
Groups(dict) == {s \in Suppliers : dict[s] # Absent}

\* Mutant of Matches: a line without a quantity is not found again.
MatchesCounted(items, sku) == {i \in DOMAIN items : items[i].sku = sku /\ items[i].quantity # NULL}

\* The positions of a list at which the SKU is, and the first of them.
Matches(items, sku) == {i \in DOMAIN items : items[i].sku = sku}
FirstMatch(items, sku) ==
  CHOOSE i \in Matches(items, sku) : \A j \in Matches(items, sku) : i <= j

\* list.pop(i)
Without(items, i) == SubSeq(items, 1, i - 1) \o SubSeq(items, i + 1, Len(items))

\* What an operation makes of its supplier's list.
EditedLines(items, op) ==
  LET new == Matches(items, op.item.sku) = {}
      i == FirstMatch(items, op.item.sku)
      quantity == op.item.quantity
  IN  CASE op.op = "add" /\ new -> Append(items, op.item)
        [] op.op = "add" /\ ~ new ->
             [items EXCEPT ![i].quantity = OrZero(@) + OrZero(quantity)]
        [] op.op = "set_quantity" /\ quantity = NULL -> items
        [] op.op = "set_quantity" /\ quantity # NULL /\ new -> Append(items, op.item)
        [] op.op = "set_quantity" /\ quantity # NULL /\ ~ new ->
             [items EXCEPT ![i].quantity = quantity]
        [] op.op = "remove" /\ new -> items
        [] op.op = "remove" /\ ~ new -> Without(items, i)

_apply_one(dict, op) ==
  LET open == SetDefault(dict, op.item.supplier)
  IN  [open EXCEPT ![op.item.supplier] = EditedLines(@, op)]

\* Pass number n of the loop of Cart.apply over the operations.
ApplyPass(ops) ==
  [n \in Nat |-> [dict \in Dicts |->
     IF n \in 1..Len(ops) THEN _apply_one(dict, ops[n]) ELSE dict]]

\* Mutant of DropEmptyGroups: it is forgotten.
KeepEmptyGroups(dict) == dict

\* Suppliers whose last line was removed are dropped.
DropEmptyGroups(dict) == [s \in Suppliers |-> IF dict[s] = <<>> THEN Absent ELSE dict[s]]

Cart_apply(dict, ops) == DropEmptyGroups(Iterate(dict, ApplyPass(ops))[Len(ops)])

-----------------------------------------------------------------------------
\* A line as the panel names it: only supplier, SKU and maybe a quantity.
BareLine(supplier, sku, quantity) ==
  [supplier |-> supplier, sku |-> sku, quantity |-> quantity, unit_price |-> NULL]

remove_line(dict, supplier, sku) ==
  Cart_apply(dict, <<[op |-> "remove", item |-> BareLine(supplier, sku, NULL)]>>)

\* Mutants of set_line_quantity: a line of no cases stays; a line is replaced by
\* the bare one, which has no price.
SetKeepsZero(dict, supplier, sku, quantity) ==
  IF quantity < 0
  THEN remove_line(dict, supplier, sku)
  ELSE Cart_apply(dict, <<[op |-> "set_quantity", item |-> BareLine(supplier, sku, quantity)]>>)
SetReplaces(dict, supplier, sku, quantity) ==
  IF quantity < 1
  THEN remove_line(dict, supplier, sku)
  ELSE Cart_apply(remove_line(dict, supplier, sku),
                  <<[op |-> "set_quantity", item |-> BareLine(supplier, sku, quantity)]>>)

set_line_quantity(dict, supplier, sku, quantity) ==
  IF quantity < 1
  THEN remove_line(dict, supplier, sku)
  ELSE Cart_apply(dict, <<[op |-> "set_quantity", item |-> BareLine(supplier, sku, quantity)]>>)

_current_quantity(dict, supplier, sku) ==
  IF supplier \in Groups(dict) /\ Matches(dict[supplier], sku) # {}
  THEN OrZero(dict[supplier][FirstMatch(dict[supplier], sku)].quantity)
  ELSE 0

step_line_quantity(dict, supplier, sku, delta) ==
  set_line_quantity(dict, supplier, sku, _current_quantity(dict, supplier, sku) + delta)

-----------------------------------------------------------------------------
\* The lines of a cart, by their supplier's group and SKU.
LineKeys(dict) == {key \in Suppliers \X SKUs :
                     key[1] \in Groups(dict) /\ Matches(dict[key[1]], key[2]) # {}}

\* The line under a key.
LineAt(dict, key) == dict[key[1]][FirstMatch(dict[key[1]], key[2])]

WithinBound(dict) ==
  \A s \in Groups(dict) : \A i \in DOMAIN dict[s] : OrZero(dict[s][i].quantity) <= MaxQuantity

Init ==
  /\ by_supplier = [s \in Suppliers |-> Absent]
  /\ rendered = {}

\* A turn applies the operations that may land.
Apply(ops) ==
  /\ WithinBound(Cart_apply(by_supplier, ops))
  /\ by_supplier' = Cart_apply(by_supplier, ops)
  /\ UNCHANGED rendered

\* The - and + buttons of a line the panel shows.  Until the panel is rendered
\* again its buttons are those of the cart it was rendered from.
Step(key, delta) ==
  /\ key \in rendered
  /\ WithinBound(step_line_quantity(by_supplier, key[1], key[2], delta))
  /\ by_supplier' = step_line_quantity(by_supplier, key[1], key[2], delta)
  /\ UNCHANGED rendered

\* The cross of a line.
Remove(key) ==
  /\ key \in rendered
  /\ by_supplier' = remove_line(by_supplier, key[1], key[2])
  /\ UNCHANGED rendered

\* Mutant of cart_panel: the buttons know the SKU of their line only.
PanelBySKU ==
  /\ rendered' = {key[2] : key \in LineKeys(by_supplier)}
  /\ UNCHANGED by_supplier

\* The panel catches up with the cart.
cart_panel ==
  /\ rendered' = LineKeys(by_supplier)
  /\ UNCHANGED by_supplier

Next ==
  \/ \E ops \in OpLists : Apply(ops)
  \/ \E key \in Suppliers \X SKUs, delta \in {-1, 1} : Step(key, delta)
  \/ \E key \in Suppliers \X SKUs : Remove(key)
  \/ cart_panel

Spec == Init /\ [][Next]_vars

-----------------------------------------------------------------------------
\* The cart is a dict of lists of lines, and the panel shows lines.
TypeOK ==
  /\ by_supplier \in Dicts
  /\ rendered \subseteq Suppliers \X SKUs

\* Lines match by (supplier, SKU), and _apply_one only ever looks at the first
\* match of the group it is told: a cart whose lines are all reachable has each
\* SKU once per group and every line under its own supplier, whatever batches
\* and clicks came before.
Addressable ==
  \A s \in Groups(by_supplier) : \A i \in DOMAIN by_supplier[s] :
    /\ by_supplier[s][i].supplier = s
    /\ \A j \in DOMAIN by_supplier[s] : by_supplier[s][i].sku = by_supplier[s][j].sku => i = j

\* The panel draws a heading per key of the dict: no edit, not even one that
\* names a supplier for the first time and adds nothing, leaves an empty group.
NoEmptyGroup == \A s \in Groups(by_supplier) : by_supplier[s] # <<>>

\* A click changes the one line it is on, and that line keeps its price: the
\* bare line of the panel's operation never replaces one that is in the cart.
ClickIsLocal ==
  [][\A key \in Suppliers \X SKUs :
       (Remove(key) \/ \E delta \in {-1, 1} : Step(key, delta)) =>
         /\ LineKeys(by_supplier) \ {key} = LineKeys(by_supplier') \ {key}
         /\ \A other \in LineKeys(by_supplier) \ {key} :
              LineAt(by_supplier', other) = LineAt(by_supplier, other)
         /\ key \in LineKeys(by_supplier) \cap LineKeys(by_supplier') =>
              LineAt(by_supplier', key).unit_price = LineAt(by_supplier, key).unit_price]_vars

-----------------------------------------------------------------------------
\* The promise of Cart.apply: the map from keys to quantities of CartPromise.
EditsOf(ops) ==
  [n \in DOMAIN ops |-> [op |-> ops[n].op, key |-> <<ops[n].item.supplier, ops[n].item.sku>>,
                         quantity |-> ops[n].item.quantity]]

Quantities(dict) ==
  [key \in Suppliers \X SKUs |->
     IF key \in LineKeys(dict) THEN LineAt(dict, key).quantity ELSE Absent]

Promise == INSTANCE CartPromise WITH
  Keys <- Suppliers \X SKUs,
  Batches <- {EditsOf(ops) : ops \in OpLists},
  quantities <- Quantities(by_supplier)

\* The lists and the dict implement the map: a batch does to the quantities what
\* its edits do one after the other, a click steps or drops one of them.
KeepsPromise == Promise!Spec
=============================================================================
