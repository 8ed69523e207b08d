--------------------------- MODULE SessionClaims ----------------------------
(***************************************************************************)
(* What the repository's comments and README say of a session and the code *)
(* does not do, each with the run that shows it.                           *)
(***************************************************************************)
EXTENDS SessionMC

\* "A stream error falls back to one blocking turn, unseen" (app.py, respond): the
\* supplier sees no more of a message whose stream failed than of any other, one
\* order at most.
OneOrderPerMessage ==
  \A m, n \in DOMAIN orders : m # n => orders[m] # orders[n]

\* "the cart is the UI's directly-editable document" (README): a line that is not in
\* the panel comes in only with the turn of the message that asks for it, so what the
\* customer took out, or left behind with New ticket, is out.
LinesComeWithTheirMessage ==
  [][\A s \in Sessions, text \in Texts :
       cart_state[s][text] = 0 /\ cart_state'[s][text] > 0 => running = s /\ message = text]_vars
=============================================================================
