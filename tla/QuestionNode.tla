---------------------------- MODULE QuestionNode ----------------------------
(***************************************************************************)
(* The question path as the order graph sees it (OrderGraph's rag_qa): one *)
(* node that answers in one step, with text or without, or raises; and     *)
(* that may have opened a few tickets either way.                          *)
(***************************************************************************)
EXTENDS Naturals

CONSTANTS NULL, MaxTickets

VARIABLES pending, answer, tickets

nodeVars == <<pending, answer, tickets>>

NodeInit ==
  /\ pending = FALSE
  /\ answer = NULL
  /\ tickets = 0

Enter ==
  /\ ~pending
  /\ pending' = TRUE
  /\ answer' = NULL
  /\ UNCHANGED tickets

Leave(outcome) ==
  /\ pending
  /\ pending' = FALSE
  /\ answer' = outcome
  /\ tickets' \in tickets..(tickets + MaxTickets)

NodeNext == Enter \/ \E outcome \in {"text", "blank", NULL} : Leave(outcome)

Spec == NodeInit /\ [][NodeNext]_nodeVars
=============================================================================
