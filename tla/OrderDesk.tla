------------------------------ MODULE OrderDesk ------------------------------
(***************************************************************************)
(* What the customer may rely on, without the pipeline.  A turn works on a *)
(* copy of the cart.  It changes lines only to what can be ordered, sends  *)
(* the supplier at most one order - the working cart as it is, after which *)
(* the cart does not change any more - and at its end the working cart     *)
(* becomes the cart shown.  A turn that fails leaves the cart shown as it  *)
(* was; at worst an order it had sent was received and the customer does   *)
(* not hear of it.  Between turns the customer changes the lines that the  *)
(* panel shows, one at a time; the panel may be older than the cart.       *)
(***************************************************************************)
EXTENDS Values, Sequences

CONSTANTS
  SKUs,
  StartCarts,  \* the carts a session may begin with
  Landable     \* [SKUs -> SUBSET Nat]: the cases a turn may leave of each

VARIABLES
  cart,      \* the cart the customer holds
  shown,     \* the lines the panel has buttons for
  working,   \* the cart the turn works on, or the last one did
  received,  \* the orders the supplier has received
  phase      \* "closed" between turns, "open" in one, "sent" after its order

deskVars == <<cart, shown, working, received, phase>>

Empty == [sku \in SKUs |-> Absent]

DeskInit ==
  /\ cart \in StartCarts
  /\ shown = {}
  /\ working = Empty
  /\ received = <<>>
  /\ phase = "closed"

\* A turn starts from the cart shown or, when the caller sends none, from where
\* the last turn left off.
Open ==
  /\ phase = "closed"
  /\ phase' = "open"
  /\ working' \in {cart, working}
  /\ UNCHANGED <<cart, shown, received>>

\* Lines go, stay or become something that can be ordered.
Change ==
  /\ phase = "open"
  /\ DOMAIN working' = SKUs
  /\ \A sku \in SKUs : working'[sku] \in {working[sku], Absent} \cup Landable[sku]
  /\ UNCHANGED <<cart, shown, received, phase>>

Send ==
  /\ phase = "open"
  /\ working # Empty
  /\ received' = Append(received, working)
  /\ phase' = "sent"
  /\ UNCHANGED <<cart, shown, working>>

Close ==
  /\ phase \in {"open", "sent"}
  /\ phase' = "closed"
  /\ cart' = working
  /\ UNCHANGED <<shown, working, received>>

\* The turn fails.  When it fails in sending, the order may have arrived; when it
\* fails after that, it has.
Fail ==
  /\ phase \in {"open", "sent"}
  /\ phase' = "closed"
  /\ \/ UNCHANGED received
     \/ phase = "open" /\ working # Empty /\ received' = Append(received, working)
  /\ UNCHANGED <<cart, shown, working>>

Draw ==
  /\ phase = "closed"
  /\ shown' = {sku \in SKUs : cart[sku] # Absent}
  /\ UNCHANGED <<cart, working, received, phase>>

\* The customer drops a line of the panel or steps it: up from nothing, when the
\* line was dropped since the panel was drawn.
Cases(sku) == IF cart[sku] = Absent THEN 0 ELSE cart[sku]

EditLine(sku) ==
  /\ phase = "closed"
  /\ sku \in shown
  /\ \/ cart' = [cart EXCEPT ![sku] = Absent]
     \/ \E delta \in {-1, 1} : /\ Cases(sku) + delta >= 1
                               /\ cart' = [cart EXCEPT ![sku] = Cases(sku) + delta]
  /\ UNCHANGED <<shown, working, received, phase>>

DeskNext ==
  Open \/ Change \/ Send \/ Close \/ Fail \/ Draw \/ \E sku \in SKUs : EditLine(sku)

Spec == DeskInit /\ [][DeskNext]_deskVars
=============================================================================
