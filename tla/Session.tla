------------------------------ MODULE Session -------------------------------
(***************************************************************************)
(* The browser sessions of the order desk (src/src/interfaces/gradio_app/  *)
(* app.py) and the turns they share one agent for.  respond runs one turn: *)
(* it streams it and, when that raises, runs it once more without.         *)
(*                                                                         *)
(* Gradio runs the callbacks.  As build_app wires them it runs one respond *)
(* at a time, over all sessions and in the order of the submissions; the   *)
(* other callbacks run whenever they are triggered.  What is in the text   *)
(* box and in the chat is sent along by the browser, so respond sees it as *)
(* it was when the customer submitted; a gr.State is read on the server    *)
(* when respond starts.  A callback of one trigger is not submitted again  *)
(* by the same browser before it has ended, but Enter and Send are two.    *)
(*                                                                         *)
(* The graph is seen as OrderDesk promises it: a run works on a copy of    *)
(* the cart, may send one order, and may raise.  A line is known by the    *)
(* message that asks for it, and a cart tells how often each was added;    *)
(* amounts, and with them the panel's steppers, are Cart's.  respond       *)
(* always passes the cart, so the graph never reads the draft_cart its     *)
(* checkpointer kept, only the history.                                    *)
(***************************************************************************)
EXTENDS Integers, Sequences, FiniteSets

CONSTANTS
  Sessions,
  NULL,
  MaxTexts,   \* bound of the runs: messages typed
  MaxEvents,  \* bound of the runs: submissions
  MaxThreads  \* bound of the runs: threads created

VARIABLES
  cart_state,    \* of each session: the cart of its panel
  thread_state,  \* of each session: the checkpointer thread of its turns
  chat,          \* of each session: the bubbles after the greeting
  msg,           \* of each session: the message in its text box, or NULL
  loading,       \* the sessions whose page is there but demo.load has not run
  events,        \* every submission of respond, in the order Gradio serves them
  served,        \* how many of them respond has taken up
  turn,          \* the respond that is running, or NULL
  checkpoint,    \* the history of each thread: the submissions recorded there
  orders,        \* the submissions that orders were received for, in that order
  texts,         \* messages typed
  threads        \* threads created

browser == <<chat, msg>>
server == <<cart_state, thread_state, loading>>
agent == <<checkpoint, orders>>
vars == <<browser, server, events, served, turn, agent, texts, threads>>

ASSUME SessionAssumption ==
  /\ IsFiniteSet(Sessions)
  /\ NULL \notin Nat
  /\ MaxTexts \in Nat /\ MaxEvents \in Nat /\ MaxThreads \in Nat

Texts == 1..MaxTexts
Threads == 0..MaxThreads
default == 0

Cart == [Texts -> Nat]
EmptyCart == [text \in Texts |-> 0]

\* A user bubble and the assistant's below it: the cart a reply describes, NULL
\* while the turn is in progress.
Bubble == [event: Nat \ {0}, reply: Cart \cup {NULL}]

Event == [session: Sessions, text: Texts \cup {NULL}, history: Seq(Bubble)]

\* "begun": the graph runs; "ran": it has ended; "shown": so has the stream, and the
\* reply is shown.  The cart is the one the turn was given, the draft what became of it.
Turn == [attempt: {"stream", "blocking"}, stage: {"begun", "ran", "shown"},
         cart: Cart, draft: Cart, thread: Threads]

ASSUME NullAssumption == NULL \notin Cart \cup Turn

running == events[served].session
history == events[served].history
message == events[served].text

-----------------------------------------------------------------------------
\* The customer and the page.

\* Mutant of _new_thread: every page and every ticket gets the same thread.
OneThread == 1

_new_thread == threads + 1

\* demo.load gives the session a thread of its own, some time after the page is up.
Load(s) ==
  /\ s \in loading
  /\ threads < MaxThreads
  /\ loading' = loading \ {s}
  /\ thread_state' = [thread_state EXCEPT ![s] = _new_thread]
  /\ threads' = threads + 1
  /\ UNCHANGED <<browser, cart_state, events, served, turn, agent, texts>>

Type(s) ==
  /\ texts < MaxTexts
  /\ texts' = texts + 1
  /\ msg' = [msg EXCEPT ![s] = texts + 1]
  /\ UNCHANGED <<chat, server, events, served, turn, agent, threads>>

Triggers == 2

Ended(i) == i < served \/ (i = served /\ turn = NULL)

\* The browser sends the text and the chat as they are; the text stays in the box
\* until respond clears it.  Enter and Send are two triggers, each of which the
\* browser holds back until the respond it started last has ended.
Submit(s) ==
  /\ Len(events) < MaxEvents
  /\ Cardinality({i \in DOMAIN events : events[i].session = s /\ ~Ended(i)}) < Triggers
  /\ events' = Append(events, [session |-> s, text |-> msg[s], history |-> chat[s]])
  /\ UNCHANGED <<browser, server, served, turn, agent, texts, threads>>

\* New ticket (reset): nothing of the conversation is kept.
Reset(s) ==
  /\ threads < MaxThreads
  /\ chat' = [chat EXCEPT ![s] = <<>>]
  /\ cart_state' = [cart_state EXCEPT ![s] = EmptyCart]
  /\ msg' = [msg EXCEPT ![s] = NULL]
  /\ thread_state' = [thread_state EXCEPT ![s] = _new_thread]
  /\ threads' = threads + 1
  /\ UNCHANGED <<loading, events, served, turn, agent, texts>>

\* The panel's control that removes a line.
RemoveLine(s, text) ==
  /\ cart_state[s][text] > 0
  /\ cart_state' = [cart_state EXCEPT ![s][text] = 0]
  /\ UNCHANGED <<browser, thread_state, loading, events, served, turn, agent, texts, threads>>

-----------------------------------------------------------------------------
\* respond.

ShowWorking ==
  /\ chat' = [chat EXCEPT ![running] = Append(history, [event |-> served, reply |-> NULL])]
  /\ msg' = [msg EXCEPT ![running] = NULL]

ShowReply ==
  chat' = [chat EXCEPT ![running] = Append(history, [event |-> served, reply |-> turn.draft])]

\* Mutant of Blank: a message is run whatever is in it.
NeverBlank(text) == FALSE

Blank(text) == text = NULL

\* A blank message: the chat is put back as it was sent, and the box is cleared.
Skip ==
  /\ turn = NULL
  /\ served < Len(events)
  /\ Blank(events[served + 1].text)
  /\ served' = served + 1
  /\ LET event == events[served + 1]
     IN  /\ chat' = [chat EXCEPT ![event.session] = event.history]
         /\ msg' = [msg EXCEPT ![event.session] = NULL]
  /\ UNCHANGED <<server, events, turn, agent, texts, threads>>

\* The first frame shows the message, and the stream begins: stream_run enters the
\* graph with the cart and the thread the session has now.
Respond ==
  /\ turn = NULL
  /\ served < Len(events)
  /\ ~Blank(events[served + 1].text)
  /\ served' = served + 1
  /\ LET event == events[served + 1]
         s == event.session
     IN  /\ chat' = [chat EXCEPT ![s] =
                       Append(event.history, [event |-> served + 1, reply |-> NULL])]
         /\ msg' = [msg EXCEPT ![s] = NULL]
         /\ turn' = [attempt |-> "stream", stage |-> "begun",
                     cart |-> cart_state[s], draft |-> cart_state[s],
                     thread |-> thread_state[s]]
  /\ UNCHANGED <<server, events, agent, texts, threads>>

\* A frame of progress or of the answer: each clears the text box once more.
Progress ==
  /\ turn # NULL
  /\ turn.attempt = "stream"
  /\ turn.stage = "begun"
  /\ ShowWorking
  /\ UNCHANGED <<server, events, served, turn, agent, texts, threads>>

\* What a turn makes of the cart: it adds the line its message asks for, removes
\* one, or only answers.
Turned(cart, text) ==
  {cart, [cart EXCEPT ![text] = @ + 1]} \cup {[cart EXCEPT ![x] = 0] : x \in Texts}

\* Whether the graph sends the supplier the cart.
Sends(draft) == draft # EmptyCart /\ orders' = Append(orders, served)

\* Nothing of the graph's work can be seen before its end but the orders it sends.
RunGraph ==
  /\ turn # NULL
  /\ turn.stage = "begun"
  /\ \E draft \in Turned(turn.draft, message) :
       /\ Sends(draft) \/ UNCHANGED orders
       /\ turn' = [turn EXCEPT !.draft = draft, !.stage = "ran"]
  /\ UNCHANGED <<browser, server, events, served, checkpoint, texts, threads>>

\* Mutant of Recover: the second run takes up the cart where the first one left it.
RecoverDraft(draft) == [turn EXCEPT !.attempt = "blocking", !.stage = "begun", !.draft = draft]

\* After an exception of the stream: one blocking turn, of the same message and the
\* cart and thread the stream had, whatever draft was left.
Recover(draft) ==
  [turn EXCEPT !.attempt = "blocking", !.stage = "begun", !.draft = turn.cart]

\* Mutant of AfterError: the blocking turn is tried again too.
AlwaysRecover(draft) == Recover(draft)

\* An exception of the blocking turn is Gradio's to show: respond ends.
AfterError(draft) == IF turn.attempt = "stream" THEN Recover(draft) ELSE NULL

\* A node raises; when it is draft, the supplier may have received the order.
GraphRaises ==
  /\ turn # NULL
  /\ turn.stage = "begun"
  /\ \E draft \in Turned(turn.draft, message) :
       /\ Sends(draft) \/ UNCHANGED orders
       /\ turn' = AfterError(draft)
  /\ UNCHANGED <<browser, server, events, served, checkpoint, texts, threads>>

\* The last frame of the stream commits the turn's cart.
ResultFrame ==
  /\ turn # NULL
  /\ turn.attempt = "stream"
  /\ turn.stage = "ran"
  /\ ShowReply
  /\ cart_state' = [cart_state EXCEPT ![running] = turn.draft]
  /\ msg' = [msg EXCEPT ![running] = NULL]
  /\ turn' = [turn EXCEPT !.stage = "shown"]
  /\ UNCHANGED <<thread_state, loading, events, served, agent, texts, threads>>

record_turn ==
  checkpoint' = [checkpoint EXCEPT ![turn.thread] = Append(@, served)]

\* Mutant of AfterDone: the stream's end falls through to the blocking turn.
FallThrough == Recover(turn.draft)

\* A stream that came to its last frame and was recorded has done it all.
AfterDone == NULL

RecordStreamed ==
  /\ turn # NULL
  /\ turn.stage = "shown"
  /\ record_turn
  /\ turn' = AfterDone
  /\ UNCHANGED <<browser, server, events, served, orders, texts, threads>>

\* Mutant of CommitRecovered: as after the other frames, the cart is left alone.
CommitNothing == UNCHANGED cart_state

CommitRecovered == cart_state' = [cart_state EXCEPT ![running] = turn.draft]

\* A blocking turn is recorded and then shown, in a frame that leaves the text box
\* alone.
RecordRecovered ==
  /\ turn # NULL
  /\ turn.attempt = "blocking"
  /\ turn.stage = "ran"
  /\ record_turn
  /\ ShowReply
  /\ CommitRecovered
  /\ turn' = NULL
  /\ UNCHANGED <<msg, thread_state, loading, events, served, orders, texts, threads>>

\* The recording is part of stream_turn and of handle_turn: when it raises, the turn
\* has failed like any other.
RecordRaises ==
  /\ turn # NULL
  /\ turn.stage = (IF turn.attempt = "stream" THEN "shown" ELSE "ran")
  /\ turn' = AfterError(turn.draft)
  /\ UNCHANGED <<browser, server, events, served, agent, texts, threads>>

-----------------------------------------------------------------------------
Init ==
  /\ cart_state = [s \in Sessions |-> EmptyCart]
  /\ thread_state = [s \in Sessions |-> default]
  /\ chat = [s \in Sessions |-> <<>>]
  /\ msg = [s \in Sessions |-> NULL]
  /\ loading = Sessions
  /\ events = <<>>
  /\ served = 0
  /\ turn = NULL
  /\ checkpoint = [thread \in Threads |-> <<>>]
  /\ orders = <<>>
  /\ texts = 0
  /\ threads = 0

Customer(s) ==
  \/ Load(s)
  \/ Type(s)
  \/ Submit(s)
  \/ Reset(s)
  \/ \E text \in Texts : RemoveLine(s, text)

\* What brings the running respond closer to its end.
Serve ==
  \/ Skip
  \/ Respond
  \/ RunGraph
  \/ GraphRaises
  \/ ResultFrame
  \/ RecordStreamed
  \/ RecordRecovered
  \/ RecordRaises

Next == \/ \E s \in Sessions : Customer(s)
        \/ Progress
        \/ Serve

Spec == Init /\ [][Next]_vars

\* Every call respond makes returns or raises; customers owe nothing.
FairSpec == Spec /\ WF_vars(Serve)

-----------------------------------------------------------------------------
\* Each variable keeps to the values its comment names, and what a turn works on
\* belongs to the last submission taken up.
TypeOK ==
  /\ cart_state \in [Sessions -> Cart]
  /\ thread_state \in [Sessions -> Threads]
  /\ chat \in [Sessions -> Seq(Bubble)]
  /\ msg \in [Sessions -> Texts \cup {NULL}]
  /\ loading \subseteq Sessions
  /\ events \in Seq(Event)
  /\ served \in 0..Len(events)
  /\ turn \in Turn \cup {NULL}
  /\ turn # NULL => served > 0 /\ message # NULL
  /\ checkpoint \in [Threads -> Seq(1..served)]
  /\ orders \in Seq(1..served)
  /\ texts \in 0..MaxTexts
  /\ threads \in 0..MaxThreads

\* The times respond took up the text for a session.
TakenUp(s, text) == {i \in 1..served : events[i].session = s /\ events[i].text = text}

\* A line is in the panel at most as often as its customer's message was taken up
\* by respond: the second run of a message whose stream raised, after its work on
\* the cart or even after its last frame, does not add the line once more, and no
\* line reaches another session's cart.
AddedOnce ==
  \A s \in Sessions, text \in Texts : cart_state[s][text] <= Cardinality(TakenUp(s, text))

\* While a chat ends in the reply to the session's latest message, the cart beside it is
\* the one the reply describes, less what the customer took out since: no New ticket,
\* removal, retry or other session's turn comes between the two.
ReplyMatchesCart ==
  \A s \in Sessions :
    LET last == chat[s][Len(chat[s])]
    IN  /\ chat[s] # <<>>
        /\ last.reply # NULL
        /\ \A i \in (last.event + 1)..served : events[i].session # s
        => \A text \in Texts : cart_state[s][text] \in {last.reply[text], 0}

\* Sessions whose page has loaded never share a thread, and a thread other than the
\* default one holds the turns of one session only: nobody's messages become the
\* context of somebody else's.
ThreadsKeepApart ==
  /\ \A s, t \in Sessions :
       s # t /\ thread_state[s] = thread_state[t] => thread_state[s] = default
  /\ \A thread \in Threads \ {default} :
       \A i, j \in {checkpoint[thread][n] : n \in DOMAIN checkpoint[thread]} :
         events[i].session = events[j].session

\* A message is recorded in at most one thread and once, retried or not, and a
\* thread's history is in the order of the submissions.
RecordedOnce ==
  \A i, j \in Threads :
    \A m \in DOMAIN checkpoint[i], n \in DOMAIN checkpoint[j] :
      /\ i = j /\ m < n => checkpoint[i][m] < checkpoint[j][n]
      /\ i # j => checkpoint[i][m] # checkpoint[j][n]

\* The sessions' messages fare as MessagePromise says: one at a time in the order of
\* submission, two attempts at most, one order for each, and none afterwards.
Stage(i) ==
  IF i > served THEN "waiting"
  ELSE IF Ended(i) THEN "done"
  ELSE IF turn.attempt = "stream" THEN "first" ELSE "second"

OrdersFor(i, received) == {n \in DOMAIN received : received[n] = i}

stages == [i \in DOMAIN events |-> Stage(i)]
sents == [i \in DOMAIN events |-> Cardinality(OrdersFor(i, orders))]

Promise == INSTANCE MessagePromise WITH stage <- stages, sent <- sents

ImplementsPromise == Promise!Spec

\* Every submission is taken up and its respond ends, whatever the messages before
\* it ran into and whatever customers do meanwhile.
EveryMessageEnds ==
  \A i \in 1..MaxEvents : i \in DOMAIN events ~> Ended(i)
=============================================================================
