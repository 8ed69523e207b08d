--------------------------- MODULE MessagePromise ---------------------------
(***************************************************************************)
(* What becomes of the messages customers send, without carts, chats or    *)
(* threads.  They are taken up one at a time in the order they were sent.  *)
(* A message gets one attempt and at most a second one, each of which may  *)
(* send the supplier one order; then it is done, and nothing more is sent  *)
(* for it.                                                                 *)
(***************************************************************************)
EXTENDS Naturals, Sequences

VARIABLES
  stage,  \* for each message "waiting", "first", "second" or "done"
  sent    \* for each message the orders sent for it

promiseVars == <<stage, sent>>

PromiseInit ==
  /\ stage = <<>>
  /\ sent = <<>>

Arrive ==
  /\ stage' = Append(stage, "waiting")
  /\ sent' = Append(sent, 0)

\* A message with nothing in it is done as soon as it is taken up.
TakeUp(i) ==
  /\ stage[i] = "waiting"
  /\ \A j \in 1..(i - 1) : stage[j] = "done"
  /\ stage' \in {[stage EXCEPT ![i] = next] : next \in {"first", "done"}}
  /\ UNCHANGED sent

Attempts(i) == IF stage[i] = "second" THEN 2 ELSE 1

\* What an attempt sends, and whether it then ends well or not.
Send(i) ==
  /\ stage[i] \in {"first", "second"}
  /\ sent[i] < Attempts(i)
  /\ sent' = [sent EXCEPT ![i] = @ + 1]

TryAgain(i) ==
  /\ stage[i] = "first"
  /\ stage' = [stage EXCEPT ![i] = "second"]
  /\ Send(i) \/ UNCHANGED sent

Finish(i) ==
  /\ stage[i] \in {"first", "second"}
  /\ stage' = [stage EXCEPT ![i] = "done"]
  /\ Send(i) \/ UNCHANGED sent

PromiseNext ==
  \/ Arrive
  \/ \E i \in DOMAIN stage : \/ TakeUp(i)
                             \/ Send(i) /\ UNCHANGED stage
                             \/ TryAgain(i)
                             \/ Finish(i)

Spec == PromiseInit /\ [][PromiseNext]_promiseVars
=============================================================================
