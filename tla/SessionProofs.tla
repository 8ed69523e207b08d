---------------------------- MODULE SessionProofs ----------------------------
(***************************************************************************)
(* The sessions keep what SessionMC checks on two browsers, for any number *)
(* of browsers, messages, submissions and threads.                         *)
(***************************************************************************)
EXTENDS Session, SequenceTheorems, FiniteSetTheorems, TLAPS

(***************************************************************************)
(* Types.                                                                  *)
(***************************************************************************)

\* What a submission carries.
LEMMA EventType ==
  ASSUME TypeOK, NEW i \in 1..Len(events)
  PROVE  /\ events[i].session \in Sessions
         /\ events[i].text \in Texts \cup {NULL}
         /\ events[i].history \in Seq(Bubble)
<1>1. events[i] \in Event
  BY DEF TypeOK
<1> QED
  BY <1>1 DEF Event

\* Who and what the running respond is about.
LEMMA RunningType ==
  ASSUME TypeOK, turn # NULL
  PROVE  /\ served \in 1..Len(events)
         /\ running \in Sessions
         /\ message \in Texts
         /\ history \in Seq(Bubble)
         /\ turn \in Turn
<1>1. served \in 1..Len(events) /\ message # NULL /\ turn \in Turn
  BY DEF TypeOK
<1> QED
  BY <1>1, EventType DEF running, message, history

\* A chat grows by a bubble.
LEMMA BubbleAdded ==
  ASSUME NEW bubbles \in Seq(Bubble), NEW i \in Nat \ {0}, NEW reply \in Cart \cup {NULL}
  PROVE  Append(bubbles, [event |-> i, reply |-> reply]) \in Seq(Bubble)
<1>1. [event |-> i, reply |-> reply] \in Bubble
  BY DEF Bubble
<1> QED
  BY <1>1

\* What respond shows is a chat.
LEMMA ShownType ==
  ASSUME TypeOK, turn # NULL, ShowWorking \/ ShowReply
  PROVE  chat' \in [Sessions -> Seq(Bubble)]
<1>1. served \in Nat \ {0} /\ running \in Sessions /\ history \in Seq(Bubble) /\ turn.draft \in Cart
  BY RunningType DEF Turn, TypeOK
<1>2. \A reply \in Cart \cup {NULL} :
        Append(history, [event |-> served, reply |-> reply]) \in Seq(Bubble)
  BY <1>1, BubbleAdded
<1>3. \E shown \in Seq(Bubble) : chat' = [chat EXCEPT ![running] = shown]
  BY <1>1, <1>2 DEF ShowWorking, ShowReply
<1> QED
  BY <1>3 DEF TypeOK

LEMMA InitTypeOK == Init => TypeOK
<1> SUFFICES ASSUME Init PROVE TypeOK
  OBVIOUS
<1>1. EmptyCart \in Cart
  BY DEF EmptyCart, Cart
<1>2. 0 \in Threads
  BY SessionAssumption DEF Threads
<1>3. \A S : <<>> \in Seq(S)
  OBVIOUS
<1> QED
  BY <1>1, <1>2, <1>3, SessionAssumption DEF Init, TypeOK, default

LEMMA CustomerTypeOK ==
  ASSUME TypeOK, NEW s \in Sessions, Customer(s)
  PROVE  TypeOK'
<1>1. CASE Load(s)
  <2>1. /\ thread_state' \in [Sessions -> Threads] /\ loading' \subseteq Sessions
        /\ threads' \in 0..MaxThreads
    BY <1>1, SessionAssumption DEF Load, TypeOK, _new_thread, Threads
  <2> QED
    BY <1>1, <2>1 DEF Load, TypeOK, browser, agent, message
<1>2. CASE Type(s)
  <2>1. texts' \in 0..MaxTexts /\ msg' \in [Sessions -> Texts \cup {NULL}]
    BY <1>2, SessionAssumption DEF Type, TypeOK, Texts
  <2> QED
    BY <1>2, <2>1 DEF Type, TypeOK, server, agent, message
<1>3. CASE Submit(s)
  <2> DEFINE event == [session |-> s, text |-> msg[s], history |-> chat[s]]
  <2>1. event \in Event
    BY DEF TypeOK, Event
  <2>2. events \in Seq(Event) /\ events' = Append(events, event)
    BY <1>3 DEF Submit, TypeOK
  <2> HIDE DEF event
  <2>3. /\ events' \in Seq(Event) /\ Len(events') = Len(events) + 1 /\ Len(events) \in Nat
        /\ \A i \in 1..Len(events) : events'[i] = events[i]
    BY <2>1, <2>2
  <2>4. turn # NULL => message' = message
    BY <1>3, <2>3 DEF Submit, TypeOK, message
  <2>5. served' \in 0..Len(events')
    BY <1>3, <2>3 DEF Submit, TypeOK
  <2>6. turn' # NULL => served' > 0 /\ message' # NULL
    BY <1>3, <2>4 DEF Submit, TypeOK
  <2> QED
    BY <1>3, <2>3, <2>5, <2>6 DEF Submit, TypeOK, browser, server, agent
<1>4. CASE Reset(s)
  <2>1. EmptyCart \in Cart /\ <<>> \in Seq(Bubble)
    BY DEF EmptyCart, Cart
  <2>2. /\ chat' \in [Sessions -> Seq(Bubble)] /\ cart_state' \in [Sessions -> Cart]
        /\ msg' \in [Sessions -> Texts \cup {NULL}]
    BY <1>4, <2>1 DEF Reset, TypeOK
  <2>3. thread_state' \in [Sessions -> Threads] /\ threads' \in 0..MaxThreads
    BY <1>4, SessionAssumption DEF Reset, TypeOK, _new_thread, Threads
  <2> QED
    BY <1>4, <2>2, <2>3 DEF Reset, TypeOK, agent, message
<1>5. ASSUME NEW text \in Texts, RemoveLine(s, text) PROVE TypeOK'
  <2>1. cart_state' \in [Sessions -> Cart]
    BY <1>5 DEF RemoveLine, TypeOK, Cart
  <2> QED
    BY <1>5, <2>1 DEF RemoveLine, TypeOK, browser, agent, message
<1> QED
  BY <1>1, <1>2, <1>3, <1>4, <1>5 DEF Customer

\* A message is taken up: what was recorded and ordered so far stays in range.
LEMMA TakenUpType ==
  ASSUME TypeOK, served < Len(events), served' = served + 1, UNCHANGED <<events, agent>>
  PROVE  /\ served' \in 1..Len(events')
         /\ events' \in Seq(Event)
         /\ checkpoint' \in [Threads -> Seq(1..served')]
         /\ orders' \in Seq(1..served')
<1>1. served' \in 1..Len(events') /\ 1..served \subseteq 1..served'
  BY DEF TypeOK
<1>2. \A recorded \in Seq(1..served) : recorded \in Seq(1..served')
  BY <1>1, SeqMonotonic
<1> QED
  BY <1>1, <1>2 DEF TypeOK, agent

LEMMA TakeUpTypeOK ==
  ASSUME TypeOK, Skip \/ Respond
  PROVE  TypeOK'
<1> DEFINE event == events[served + 1]
           s == event.session
<1>1. served + 1 \in 1..Len(events) /\ served' = served + 1 /\ UNCHANGED <<server, events, agent>>
  BY DEF Skip, Respond, TypeOK
<1>2. s \in Sessions /\ event.text \in Texts \cup {NULL} /\ event.history \in Seq(Bubble)
  BY <1>1, EventType
<1>3. /\ served' \in 0..Len(events') /\ served' > 0 /\ events' \in Seq(Event)
      /\ checkpoint' \in [Threads -> Seq(1..served')] /\ orders' \in Seq(1..served')
  BY <1>1, TakenUpType DEF Skip, Respond
<1>4. msg' = [msg EXCEPT ![s] = NULL] /\ UNCHANGED <<texts, threads>>
  BY DEF Skip, Respond
<1>5. \E shown \in Seq(Bubble) : chat' = [chat EXCEPT ![s] = shown]
  <2>1. Append(event.history, [event |-> served + 1, reply |-> NULL]) \in Seq(Bubble)
    BY <1>1, <1>2, BubbleAdded
  <2> QED
    BY <1>2, <2>1 DEF Skip, Respond
<1>6. turn' \in Turn \cup {NULL} /\ (turn' # NULL => message' # NULL)
  <2>1. CASE Skip
    BY <2>1 DEF Skip
  <2>2. CASE Respond
    <3>1. cart_state[s] \in Cart /\ thread_state[s] \in Threads
      BY <1>2 DEF TypeOK
    <3>2. turn' \in Turn
      BY <2>2, <3>1 DEF Respond, Turn
    <3>3. message' = event.text
      BY <1>1 DEF message
    <3> QED
      BY <2>2, <3>2, <3>3 DEF Respond, Blank
  <2> QED
    BY <2>1, <2>2
<1> HIDE DEF s
<1> QED
  BY <1>1, <1>2, <1>3, <1>4, <1>5, <1>6 DEF TypeOK, server

\* What the graph makes of a cart is a cart.
LEMMA TurnedType ==
  ASSUME NEW c \in Cart, NEW text \in Texts, NEW draft \in Turned(c, text)
  PROVE  draft \in Cart
BY DEF Turned, Cart

LEMMA AfterErrorType ==
  ASSUME TypeOK, turn # NULL, NEW draft
  PROVE  AfterError(draft) \in Turn \cup {NULL}
<1>1. turn \in Turn
  BY RunningType
<1> QED
  BY <1>1 DEF AfterError, Recover, Turn

LEMMA OrdersType ==
  ASSUME TypeOK, turn # NULL, NEW draft, Sends(draft) \/ UNCHANGED orders
  PROVE  orders' \in Seq(1..served)
<1>1. served \in 1..served /\ orders \in Seq(1..served)
  BY RunningType DEF TypeOK
<1> QED
  BY <1>1 DEF Sends

\* A step of the running turn.
LEMMA TurnTypeOK ==
  ASSUME TypeOK,
         \/ Progress \/ RunGraph \/ GraphRaises \/ ResultFrame
         \/ RecordStreamed \/ RecordRecovered \/ RecordRaises
  PROVE  TypeOK'
<1>1. /\ turn # NULL
      /\ UNCHANGED <<thread_state, loading, events, served, texts, threads>>
  BY DEF Progress, RunGraph, GraphRaises, ResultFrame, RecordStreamed, RecordRecovered,
         RecordRaises, server, agent
<1>2. /\ served \in 1..Len(events) /\ running \in Sessions /\ message \in Texts
      /\ turn \in Turn
  BY <1>1, RunningType
<1>3. /\ turn.draft \in Cart /\ turn.thread \in Threads /\ message' = message
  BY <1>1, <1>2 DEF Turn, message
<1>4. msg' \in [Sessions -> Texts \cup {NULL}]
  BY DEF Progress, RunGraph, GraphRaises, ResultFrame, RecordStreamed, RecordRecovered,
         RecordRaises, ShowWorking, browser, TypeOK
<1>5. chat' \in [Sessions -> Seq(Bubble)]
  <2>1. ShowWorking \/ ShowReply \/ UNCHANGED chat
    BY DEF Progress, RunGraph, GraphRaises, ResultFrame, RecordStreamed, RecordRecovered,
           RecordRaises, browser
  <2>2. CASE UNCHANGED chat
    BY <2>2 DEF TypeOK
  <2> QED
    BY <1>1, <2>1, <2>2, ShownType
<1>6. cart_state' \in [Sessions -> Cart]
  BY <1>3 DEF Progress, RunGraph, GraphRaises, ResultFrame, RecordStreamed, RecordRecovered,
         RecordRaises, CommitRecovered, server, TypeOK
<1>7. turn' \in Turn \cup {NULL}
  <2>1. ASSUME NEW draft \in Turned(turn.draft, message),
               turn' = [turn EXCEPT !.draft = draft, !.stage = "ran"]
        PROVE  turn' \in Turn
    <3>1. draft \in Cart
      BY <1>2, <1>3, TurnedType
    <3> QED
      BY <1>2, <2>1, <3>1 DEF Turn
  <2>2. ASSUME turn' = [turn EXCEPT !.stage = "shown"] PROVE turn' \in Turn
    BY <1>2, <2>2 DEF Turn
  <2>3. ASSUME NEW draft, turn' = AfterError(draft) PROVE turn' \in Turn \cup {NULL}
    BY <1>1, <2>3, AfterErrorType
  <2> QED
    BY <1>2, <2>1, <2>2, <2>3 DEF Progress, RunGraph, GraphRaises, ResultFrame, RecordStreamed,
       AfterDone, RecordRecovered, RecordRaises
<1>8. checkpoint' \in [Threads -> Seq(1..served)]
  <2>1. CASE record_turn
    <3>1. Append(checkpoint[turn.thread], served) \in Seq(1..served)
      BY <1>2, <1>3 DEF TypeOK
    <3> QED
      BY <2>1, <3>1 DEF record_turn, TypeOK
  <2>2. CASE UNCHANGED checkpoint
    BY <2>2 DEF TypeOK
  <2> QED
    BY <2>1, <2>2 DEF Progress, RunGraph, GraphRaises, ResultFrame, RecordStreamed,
       RecordRecovered, RecordRaises, agent
<1>9. orders' \in Seq(1..served)
  <2>1. \E draft : Sends(draft) \/ UNCHANGED orders
    BY DEF Progress, RunGraph, GraphRaises, ResultFrame, RecordStreamed, RecordRecovered,
           RecordRaises, agent
  <2> QED
    BY <1>1, <2>1, OrdersType
<1> QED
  BY <1>1, <1>2, <1>3, <1>4, <1>5, <1>6, <1>7, <1>8, <1>9 DEF TypeOK

LEMMA StutterTypeOK ==
  ASSUME TypeOK, UNCHANGED vars
  PROVE  TypeOK'
BY DEF TypeOK, vars, browser, server, agent, message

LEMMA NextTypeOK == TypeOK /\ [Next]_vars => TypeOK'
BY CustomerTypeOK, TakeUpTypeOK, TurnTypeOK, StutterTypeOK DEF Next, Serve

(***************************************************************************)
(* Every variable keeps to its values, and a turn works on the last        *)
(* submission taken up.                                                    *)
(***************************************************************************)
THEOREM SessionTyped == Spec => []TypeOK
BY InitTypeOK, NextTypeOK, PTL DEF Spec

-----------------------------------------------------------------------------
(***************************************************************************)
(* The inductive invariant: what the running turn still is to do.          *)
(***************************************************************************)

\* It has not been recorded.
Unrecorded ==
  turn # NULL => \A thread \in Threads : \A n \in DOMAIN checkpoint[thread] :
                   checkpoint[thread][n] # served

\* A session uses the thread of its next turn, that of its running turn, and those its
\* turns are recorded in.
Uses(s, thread) ==
  \/ thread_state[s] = thread
  \/ turn # NULL /\ running = s /\ turn.thread = thread
  \/ \E n \in DOMAIN checkpoint[thread] : events[checkpoint[thread][n]].session = s

\* A thread is used after it was created, and by one session.
ThreadsOwned ==
  \A thread \in Threads \ {default} : \A s \in Sessions :
    Uses(s, thread) => /\ thread <= threads
                       /\ \A t \in Sessions : Uses(t, thread) => s = t

\* Its cart does not have the line of its message for this submission yet, its draft
\* may; and a run begins with the cart.
Given(text) ==
  turn # NULL =>
    /\ turn.stage = "begun" => turn.draft = turn.cart
    /\ turn.cart[text] + (IF text = message THEN 1 ELSE 0) <= Cardinality(TakenUp(running, text))
    /\ turn.draft[text] <= Cardinality(TakenUp(running, text))

GivenOnce == \A text \in Texts : Given(text)

\* No chat, on a page or sent along, shows a message not taken up yet.
Past(bubbles, upto) == \A n \in DOMAIN bubbles : bubbles[n].event <= upto

ChatsPast ==
  /\ \A s \in Sessions : Past(chat[s], served)
  /\ \A i \in DOMAIN events : Past(events[i].history, served)

\* Each attempt has sent one order at most, none before it has run.
SentOnce ==
  turn # NULL =>
    Cardinality(OrdersFor(served, orders)) <=
      (IF turn.attempt = "blocking" THEN 1 ELSE 0) + (IF turn.stage = "begun" THEN 0 ELSE 1)

\* Submissions stay as they are and are taken up one by one.
LEMMA EventsKept ==
  ASSUME TypeOK, [Next]_vars
  PROVE  /\ Len(events) \in Nat /\ DOMAIN events = 1..Len(events)
         /\ Len(events) <= Len(events') /\ DOMAIN events' = 1..Len(events')
         /\ \A i \in 1..Len(events) : events'[i] = events[i]
         /\ served \in 0..Len(events)
<1>1. TypeOK'
  BY NextTypeOK
<1>2. /\ Len(events) \in Nat /\ DOMAIN events = 1..Len(events)
      /\ Len(events') \in Nat /\ DOMAIN events' = 1..Len(events')
      /\ served \in 0..Len(events)
  BY <1>1 DEF TypeOK
<1>3. CASE UNCHANGED events
  BY <1>2, <1>3
<1>4. ASSUME NEW s \in Sessions, Submit(s)
      PROVE  Len(events) <= Len(events') /\ \A i \in 1..Len(events) : events'[i] = events[i]
  <2> DEFINE event == [session |-> s, text |-> msg[s], history |-> chat[s]]
  <2>1. events' = Append(events, event) /\ events \in Seq(Event)
    BY <1>4 DEF Submit, TypeOK
  <2> HIDE DEF event
  <2> QED
    BY <2>1
<1>5. UNCHANGED events \/ \E s \in Sessions : Submit(s)
  BY DEF Next, Serve, Customer, Load, Type, Reset, RemoveLine, Progress, Skip, Respond, RunGraph,
         GraphRaises, ResultFrame, RecordStreamed, RecordRecovered, RecordRaises, vars
<1> QED
  BY <1>2, <1>3, <1>4, <1>5

\* The fields of a turn that goes on.
LEMMA TurnUpdates ==
  ASSUME NEW r \in Turn, NEW draft, NEW stage
  PROVE  /\ [r EXCEPT !.draft = draft, !.stage = stage] =
              [attempt |-> r.attempt, stage |-> stage, cart |-> r.cart, draft |-> draft,
               thread |-> r.thread]
         /\ [r EXCEPT !.stage = stage] =
              [attempt |-> r.attempt, stage |-> stage, cart |-> r.cart, draft |-> r.draft,
               thread |-> r.thread]
         /\ [r EXCEPT !.attempt = "blocking", !.stage = "begun", !.draft = r.cart] =
              [attempt |-> "blocking", stage |-> "begun", cart |-> r.cart, draft |-> r.cart,
               thread |-> r.thread]
<1> DEFINE drafted == [r EXCEPT !.draft = draft]
           retried == [r EXCEPT !.attempt = "blocking"]
           rebegun == [retried EXCEPT !.stage = "begun"]
<1>1. /\ drafted = [attempt |-> r.attempt, stage |-> r.stage, cart |-> r.cart, draft |-> draft,
                    thread |-> r.thread]
      /\ [r EXCEPT !.stage = stage] =
           [attempt |-> r.attempt, stage |-> stage, cart |-> r.cart, draft |-> r.draft,
            thread |-> r.thread]
      /\ retried = [attempt |-> "blocking", stage |-> r.stage, cart |-> r.cart,
                    draft |-> r.draft, thread |-> r.thread]
  BY DEF Turn
<1>2. [r EXCEPT !.draft = draft, !.stage = stage] = [drafted EXCEPT !.stage = stage]
  OBVIOUS
<1>3. [r EXCEPT !.attempt = "blocking", !.stage = "begun", !.draft = r.cart] =
        [rebegun EXCEPT !.draft = r.cart]
  OBVIOUS
<1> HIDE DEF drafted, retried
<1>4. /\ [drafted EXCEPT !.stage = stage] =
           [attempt |-> r.attempt, stage |-> stage, cart |-> r.cart, draft |-> draft,
            thread |-> r.thread]
      /\ rebegun = [attempt |-> "blocking", stage |-> "begun", cart |-> r.cart,
                    draft |-> r.draft, thread |-> r.thread]
  BY <1>1
<1> HIDE DEF rebegun
<1>5. [rebegun EXCEPT !.draft = r.cart] =
        [attempt |-> "blocking", stage |-> "begun", cart |-> r.cart, draft |-> r.cart,
         thread |-> r.thread]
  BY <1>4
<1> QED
  BY <1>1, <1>2, <1>3, <1>4, <1>5

\* A turn that goes on is still a turn.
LEMMA ReplacedTurn ==
  ASSUME TypeOK, turn # NULL, RunGraph \/ ResultFrame
  PROVE  turn' # NULL
<1>1. turn \in Turn /\ turn.draft \in Cart /\ message \in Texts
  BY RunningType DEF Turn
<1>2. CASE RunGraph
  <2>1. PICK draft \in Cart : turn' = [turn EXCEPT !.draft = draft, !.stage = "ran"]
    BY <1>1, <1>2, TurnedType DEF RunGraph
  <2>2. turn' \in Turn
    BY <1>1, <2>1, TurnUpdates DEF Turn
  <2> QED
    BY <2>2, NullAssumption
<1>3. CASE ResultFrame
  <2>1. turn' \in Turn
    BY <1>1, <1>3, TurnUpdates DEF ResultFrame, Turn
  <2> QED
    BY <2>1, NullAssumption
<1> QED
  BY <1>2, <1>3

\* After an exception the turn begins anew from its cart, or is over.
LEMMA ErrorEnds ==
  ASSUME TypeOK, turn # NULL, NEW draft, turn' = AfterError(draft)
  PROVE  \/ /\ turn.attempt = "stream"
            /\ turn' # NULL
            /\ turn' = [attempt |-> "blocking", stage |-> "begun", cart |-> turn.cart,
                        draft |-> turn.cart, thread |-> turn.thread]
         \/ turn.attempt = "blocking" /\ turn' = NULL
<1>1. turn \in Turn
  BY RunningType
<1>2. CASE turn.attempt = "stream"
  <2>1. turn' = [attempt |-> "blocking", stage |-> "begun", cart |-> turn.cart,
                 draft |-> turn.cart, thread |-> turn.thread]
    BY <1>1, <1>2, TurnUpdates DEF AfterError, Recover
  <2>2. turn' \in Turn
    BY <1>1, <2>1 DEF Turn
  <2> QED
    BY <1>2, <2>1, <2>2, NullAssumption
<1>3. CASE turn.attempt = "blocking"
  BY <1>3 DEF AfterError
<1> QED
  BY <1>1, <1>2, <1>3 DEF Turn

\* The history grows when a turn is recorded, which ends it, and only then.
LEMMA CheckpointSteps ==
  ASSUME TypeOK, [Next]_vars
  PROVE  \/ Skip \/ Respond
         \/ RecordStreamed \/ RecordRecovered
         \/ UNCHANGED <<checkpoint, served>> /\ (turn' # NULL => turn # NULL)
BY DEF Next, Serve, Customer, Load, Type, Submit, Reset, RemoveLine, Progress, RunGraph, GraphRaises,
       ResultFrame, RecordRaises, vars, agent

\* What is recorded is recorded last, in the thread of the turn.
LEMMA Recorded ==
  ASSUME TypeOK, turn # NULL, record_turn
  PROVE  /\ turn.thread \in Threads
         /\ \A thread \in Threads :
              /\ Len(checkpoint[thread]) \in Nat
              /\ DOMAIN checkpoint[thread] = 1..Len(checkpoint[thread])
              /\ \A n \in DOMAIN checkpoint[thread] : checkpoint[thread][n] \in 1..served
              /\ \A n \in DOMAIN checkpoint'[thread] :
                   \/ /\ n \in DOMAIN checkpoint[thread]
                      /\ checkpoint'[thread][n] = checkpoint[thread][n]
                   \/ /\ thread = turn.thread /\ n = Len(checkpoint[thread]) + 1
                      /\ checkpoint'[thread][n] = served
<1>1. turn.thread \in Threads /\ served \in 1..served /\ checkpoint \in [Threads -> Seq(1..served)]
  BY RunningType DEF Turn, TypeOK
<1>2. /\ checkpoint'[turn.thread] = Append(checkpoint[turn.thread], served)
      /\ \A thread \in Threads \ {turn.thread} : checkpoint'[thread] = checkpoint[thread]
  BY <1>1 DEF record_turn
<1>3. \A old \in Seq(1..served) :
        /\ Len(old) \in Nat
        /\ DOMAIN old = 1..Len(old)
        /\ \A n \in DOMAIN old : old[n] \in 1..served
        /\ DOMAIN Append(old, served) = 1..(Len(old) + 1)
        /\ \A n \in DOMAIN old : Append(old, served)[n] = old[n]
        /\ Append(old, served)[Len(old) + 1] = served
  BY <1>1
<1>4. \A old \in Seq(1..served) : \A n \in DOMAIN Append(old, served) :
        \/ n \in DOMAIN old /\ Append(old, served)[n] = old[n]
        \/ n = Len(old) + 1 /\ Append(old, served)[n] = served
  BY <1>3
<1>5. ASSUME NEW thread \in Threads
      PROVE  /\ Len(checkpoint[thread]) \in Nat
             /\ DOMAIN checkpoint[thread] = 1..Len(checkpoint[thread])
             /\ \A n \in DOMAIN checkpoint[thread] : checkpoint[thread][n] \in 1..served
             /\ \A n \in DOMAIN checkpoint'[thread] :
                  \/ /\ n \in DOMAIN checkpoint[thread]
                     /\ checkpoint'[thread][n] = checkpoint[thread][n]
                  \/ /\ thread = turn.thread /\ n = Len(checkpoint[thread]) + 1
                     /\ checkpoint'[thread][n] = served
  <2> DEFINE old == checkpoint[thread]
             new == checkpoint'[thread]
  <2>1. old \in Seq(1..served)
    BY <1>1
  <2>2. IF thread = turn.thread THEN new = Append(old, served) ELSE new = old
    BY <1>2
  <2> HIDE DEF old, new
  <2>3. /\ Len(old) \in Nat
        /\ DOMAIN old = 1..Len(old)
        /\ \A n \in DOMAIN old : old[n] \in 1..served
    BY <1>3, <2>1
  <2>4. ASSUME NEW n \in DOMAIN new
        PROVE  \/ n \in DOMAIN old /\ new[n] = old[n]
               \/ thread = turn.thread /\ n = Len(old) + 1 /\ new[n] = served
    BY <1>4, <2>1, <2>2
  <2> QED
    BY <2>3, <2>4 DEF old, new
<1> QED
  BY <1>1, <1>5

LEMMA RecordedRange ==
  ASSUME TypeOK, NEW thread \in Threads
  PROVE  /\ Len(checkpoint[thread]) \in Nat
         /\ DOMAIN checkpoint[thread] = 1..Len(checkpoint[thread])
         /\ \A n \in DOMAIN checkpoint[thread] : checkpoint[thread][n] \in 1..served
BY DEF TypeOK

LEMMA UnrecordedKept ==
  ASSUME TypeOK, Unrecorded, [Next]_vars
  PROVE  Unrecorded'
<1>1. CASE Skip \/ Respond
  <2>1. served' = served + 1 /\ UNCHANGED checkpoint /\ served \in Nat
    BY <1>1 DEF Skip, Respond, agent, TypeOK
  <2> QED
    BY <2>1, RecordedRange DEF Unrecorded
<1>2. CASE RecordStreamed \/ RecordRecovered
  BY <1>2 DEF RecordStreamed, RecordRecovered, AfterDone, Unrecorded
<1>3. CASE UNCHANGED <<checkpoint, served>> /\ (turn' # NULL => turn # NULL)
  BY <1>3 DEF Unrecorded
<1> QED
  BY <1>1, <1>2, <1>3, CheckpointSteps

LEMMA RecordedOnceKept ==
  ASSUME TypeOK, Unrecorded, RecordedOnce, [Next]_vars
  PROVE  RecordedOnce'
<1>1. CASE UNCHANGED checkpoint
  BY <1>1 DEF RecordedOnce
<1>2. CASE turn # NULL /\ record_turn
  <2> SUFFICES ASSUME NEW i \in Threads, NEW j \in Threads,
                      NEW m \in DOMAIN checkpoint'[i], NEW n \in DOMAIN checkpoint'[j]
               PROVE  /\ i = j /\ m < n => checkpoint'[i][m] < checkpoint'[j][n]
                      /\ i # j => checkpoint'[i][m] # checkpoint'[j][n]
    BY DEF RecordedOnce
  <2>1. \A thread \in Threads : \A k \in DOMAIN checkpoint[thread] :
          /\ k \in 1..Len(checkpoint[thread])
          /\ checkpoint[thread][k] \in 1..served /\ checkpoint[thread][k] # served
    BY <1>2, RecordedRange DEF Unrecorded
  <2>2. served \in Nat /\ \A thread \in Threads : Len(checkpoint[thread]) \in Nat
    BY RecordedRange DEF TypeOK
  <2>3. \/ m \in DOMAIN checkpoint[i] /\ checkpoint'[i][m] = checkpoint[i][m]
        \/ i = turn.thread /\ m = Len(checkpoint[i]) + 1 /\ checkpoint'[i][m] = served
    BY <1>2, Recorded
  <2>4. \/ n \in DOMAIN checkpoint[j] /\ checkpoint'[j][n] = checkpoint[j][n]
        \/ j = turn.thread /\ n = Len(checkpoint[j]) + 1 /\ checkpoint'[j][n] = served
    BY <1>2, Recorded
  <2> QED
    BY <2>1, <2>2, <2>3, <2>4 DEF RecordedOnce
<1> QED
  BY <1>1, <1>2, CheckpointSteps DEF Skip, Respond, agent, RecordStreamed, RecordRecovered

(***************************************************************************)
(* However often the stream or the recording fails, no message is in two   *)
(* histories or twice in one, and histories are in order.                  *)
(***************************************************************************)
THEOREM TurnsRecordedOnce == Spec => []RecordedOnce
<1>1. Init => Unrecorded /\ RecordedOnce
  BY DEF Init, Unrecorded, RecordedOnce
<1>2. TypeOK /\ Unrecorded /\ RecordedOnce /\ [Next]_vars => Unrecorded' /\ RecordedOnce'
  BY UnrecordedKept, RecordedOnceKept
<1> QED
  BY <1>1, <1>2, SessionTyped, PTL DEF Spec

-----------------------------------------------------------------------------
(***************************************************************************)
(* Threads.                                                                *)
(***************************************************************************)

\* A turn that goes on keeps its cart, its thread and its submission.
LEMMA TurnGoesOn ==
  ASSUME TypeOK, [Next]_vars, turn' # NULL, ~ Respond
  PROVE  /\ turn # NULL /\ UNCHANGED served
         /\ turn'.cart = turn.cart /\ turn'.thread = turn.thread
         /\ running' = running /\ message' = message
<1>1. turn # NULL /\ UNCHANGED served
  BY DEF Next, Serve, Customer, Load, Type, Submit, Reset, RemoveLine, Progress, Skip, RunGraph,
         GraphRaises, ResultFrame, RecordStreamed, AfterDone, RecordRecovered, RecordRaises, vars
<1>2. turn \in Turn /\ served \in 1..Len(events)
  BY <1>1, RunningType
<1>3. events'[served'] = events[served]
  BY <1>1, <1>2, EventsKept
<1>4. turn'.cart = turn.cart /\ turn'.thread = turn.thread
  <2>1. CASE UNCHANGED turn
    BY <2>1
  <2>2. ASSUME NEW draft, turn' = AfterError(draft)
        PROVE  turn'.cart = turn.cart /\ turn'.thread = turn.thread
    BY <1>1, <2>2, ErrorEnds
  <2>3. ASSUME NEW draft, turn' = [turn EXCEPT !.draft = draft, !.stage = "ran"]
        PROVE  turn'.cart = turn.cart /\ turn'.thread = turn.thread
    BY <1>2, <2>3, TurnUpdates
  <2>4. ASSUME turn' = [turn EXCEPT !.stage = "shown"]
        PROVE  turn'.cart = turn.cart /\ turn'.thread = turn.thread
    BY <1>2, <2>4 DEF Turn
  <2>5. \/ UNCHANGED turn
        \/ \E draft : turn' = AfterError(draft)
        \/ \E draft : turn' = [turn EXCEPT !.draft = draft, !.stage = "ran"]
        \/ turn' = [turn EXCEPT !.stage = "shown"]
    BY DEF Next, Serve, Customer, Load, Type, Submit, Reset, RemoveLine, Progress, Skip, RunGraph,
           GraphRaises, ResultFrame, RecordStreamed, AfterDone, RecordRecovered, RecordRaises, vars
  <2> QED
    BY <2>1, <2>2, <2>3, <2>4, <2>5
<1> QED
  BY <1>1, <1>3, <1>4 DEF running, message

\* A turn begins for the session of the next submission, with what that session has.
LEMMA TurnBegins ==
  ASSUME TypeOK, Respond
  PROVE  /\ served + 1 \in 1..Len(events) /\ served' = served + 1
         /\ running' = events[served + 1].session /\ message' = events[served + 1].text
         /\ running' \in Sessions /\ message' \in Texts
         /\ turn' = [attempt |-> "stream", stage |-> "begun",
                     cart |-> cart_state[running'], draft |-> cart_state[running'],
                     thread |-> thread_state[running']]
<1>1. /\ served + 1 \in 1..Len(events) /\ served' = served + 1 /\ UNCHANGED events
      /\ events[served + 1].text # NULL
  BY DEF Respond, TypeOK, Blank
<1>2. running' = events[served + 1].session /\ message' = events[served + 1].text
  BY <1>1 DEF running, message
<1> QED
  BY <1>1, <1>2, EventType DEF Respond

\* The only new use of a thread is a session's of a thread made for it.
LEMMA UsesSteps ==
  ASSUME TypeOK, [Next]_vars
  PROVE  \E new \in {{}} \cup {{<<s, threads + 1>>} : s \in Sessions} :
           /\ new # {} => threads' = threads + 1
           /\ new = {} => threads' = threads
           /\ \A t \in Sessions, thread \in Threads :
                Uses(t, thread)' => Uses(t, thread) \/ <<t, thread>> \in new
<1>1. PICK new \in {{}} \cup {{<<s, threads + 1>>} : s \in Sessions} :
           /\ new # {} => threads' = threads + 1
           /\ new = {} => threads' = threads
           /\ \A t \in Sessions :
                thread_state'[t] = thread_state[t] \/ <<t, thread_state'[t]>> \in new
  <2>1. ASSUME NEW s \in Sessions, Load(s) \/ Reset(s)
        PROVE  /\ threads' = threads + 1
               /\ \A t \in Sessions :
                    thread_state'[t] = thread_state[t] \/ (t = s /\ thread_state'[t] = threads + 1)
    BY <2>1 DEF Load, Reset, _new_thread, TypeOK
  <2>2. UNCHANGED <<thread_state, threads>> \/ \E s \in Sessions : Load(s) \/ Reset(s)
    BY DEF Next, Serve, Customer, Type, Submit, RemoveLine, Progress, Skip, Respond, RunGraph,
           GraphRaises, ResultFrame, RecordStreamed, RecordRecovered, RecordRaises, vars, server
  <2> DEFINE Made(new) ==
               /\ new # {} => threads' = threads + 1
               /\ new = {} => threads' = threads
               /\ \A t \in Sessions :
                    thread_state'[t] = thread_state[t] \/ <<t, thread_state'[t]>> \in new
             News == {{}} \cup {{<<s, threads + 1>>} : s \in Sessions}
  <2>3. ASSUME UNCHANGED <<thread_state, threads>> PROVE \E new \in News : Made(new)
    <3>1. Made({}) /\ {} \in News
      BY <2>3
    <3> HIDE DEF Made, News
    <3> QED
      BY <3>1
  <2>4. ASSUME NEW s \in Sessions, Load(s) \/ Reset(s) PROVE \E new \in News : Made(new)
    <3>1. Made({<<s, threads + 1>>}) /\ {<<s, threads + 1>>} \in News
      BY <2>1, <2>4
    <3> HIDE DEF Made, News
    <3> QED
      BY <3>1
  <2> QED
    BY <2>2, <2>3, <2>4
<1> SUFFICES ASSUME NEW t \in Sessions, NEW thread \in Threads, Uses(t, thread)',
                    <<t, thread>> \notin new
             PROVE  Uses(t, thread)
  BY <1>1
<1>2. CASE thread_state'[t] = thread
  BY <1>1, <1>2 DEF Uses
<1>3. CASE turn' # NULL /\ running' = t /\ turn'.thread = thread
  <2>1. CASE Respond
    BY <1>3, <2>1, TurnBegins DEF Uses
  <2>2. CASE ~ Respond
    BY <1>3, <2>2, TurnGoesOn DEF Uses
  <2> QED
    BY <2>1, <2>2
<1>4. ASSUME NEW n \in DOMAIN checkpoint'[thread], events'[checkpoint'[thread][n]].session = t
      PROVE  Uses(t, thread)
  <2>1. CASE n \in DOMAIN checkpoint[thread] /\ checkpoint'[thread][n] = checkpoint[thread][n]
    <3>1. checkpoint[thread][n] \in 1..Len(events)
      BY <2>1, RecordedRange DEF TypeOK
    <3>2. events'[checkpoint[thread][n]] = events[checkpoint[thread][n]]
      BY <3>1, EventsKept
    <3> QED
      BY <1>4, <2>1, <3>2 DEF Uses
  <2>2. CASE /\ turn # NULL /\ thread = turn.thread /\ checkpoint'[thread][n] = served
    <3>1. served \in 1..Len(events)
      BY <2>2, RunningType
    <3>2. events'[served] = events[served]
      BY <3>1, EventsKept
    <3> QED
      BY <1>4, <2>2, <3>2 DEF Uses, running
  <2>3. UNCHANGED checkpoint \/ (turn # NULL /\ record_turn)
    BY CheckpointSteps DEF Skip, Respond, agent, RecordStreamed, RecordRecovered
  <2> QED
    BY <2>1, <2>2, <2>3, Recorded
<1> QED
  BY <1>2, <1>3, <1>4 DEF Uses

LEMMA ThreadsOwnedKept ==
  ASSUME TypeOK, ThreadsOwned, [Next]_vars
  PROVE  ThreadsOwned'
<1>1. PICK new \in {{}} \cup {{<<s, threads + 1>>} : s \in Sessions} :
           /\ new # {} => threads' = threads + 1
           /\ new = {} => threads' = threads
           /\ \A t \in Sessions, thread \in Threads :
                Uses(t, thread)' => Uses(t, thread) \/ <<t, thread>> \in new
  BY UsesSteps
<1>2. threads \in Nat /\ \A thread \in Threads : thread \in Nat
  BY SessionAssumption DEF TypeOK, Threads
<1> SUFFICES ASSUME NEW thread \in Threads \ {default}, NEW s \in Sessions, Uses(s, thread)'
             PROVE  thread <= threads' /\ \A t \in Sessions : Uses(t, thread)' => s = t
  BY DEF ThreadsOwned
<1>3. CASE new = {}
  <2>1. \A t \in Sessions : Uses(t, thread)' => Uses(t, thread)
    BY <1>1, <1>3
  <2> QED
    BY <1>1, <1>3, <2>1 DEF ThreadsOwned
<1>4. ASSUME NEW u \in Sessions, new = {<<u, threads + 1>>}
      PROVE  thread <= threads' /\ \A t \in Sessions : Uses(t, thread)' => s = t
  <2>1. threads' = threads + 1
    BY <1>1, <1>4
  <2>2. \A t \in Sessions :
          Uses(t, thread)' => Uses(t, thread) \/ (t = u /\ thread = threads + 1)
    BY <1>1, <1>4
  <2>3. \A t \in Sessions : Uses(t, thread) => thread <= threads
    BY DEF ThreadsOwned
  <2>4. \A t, v \in Sessions : Uses(t, thread) /\ Uses(v, thread) => t = v
    BY DEF ThreadsOwned
  <2> QED
    BY <1>2, <2>1, <2>2, <2>3, <2>4
<1> QED
  BY <1>3, <1>4

LEMMA OwnedThreadsKeepApart ==
  ASSUME TypeOK, ThreadsOwned
  PROVE  ThreadsKeepApart
<1>1. \A thread \in Threads \ {default}, s, t \in Sessions :
        Uses(s, thread) /\ Uses(t, thread) => s = t
  BY DEF ThreadsOwned
<1>2. ASSUME NEW s \in Sessions, NEW t \in Sessions, s # t, thread_state[s] = thread_state[t]
      PROVE  thread_state[s] = default
  BY <1>1, <1>2 DEF Uses, TypeOK
<1>3. ASSUME NEW thread \in Threads \ {default},
             NEW m \in DOMAIN checkpoint[thread], NEW n \in DOMAIN checkpoint[thread]
      PROVE  events[checkpoint[thread][m]].session = events[checkpoint[thread][n]].session
  <2>1. checkpoint[thread][m] \in 1..Len(events) /\ checkpoint[thread][n] \in 1..Len(events)
    BY RecordedRange DEF TypeOK
  <2>2. /\ events[checkpoint[thread][m]].session \in Sessions
        /\ events[checkpoint[thread][n]].session \in Sessions
    BY <2>1, EventType
  <2> QED
    BY <1>1, <2>2 DEF Uses
<1> QED
  BY <1>2, <1>3 DEF ThreadsKeepApart

(***************************************************************************)
(* Whatever pages load, tickets begin and turns fail while others run, no  *)
(* two sessions get into one history once their pages have loaded.         *)
(***************************************************************************)
THEOREM ThreadsApart == Spec => []ThreadsKeepApart
<1>1. Init => ThreadsOwned
  <2> SUFFICES ASSUME Init PROVE ThreadsOwned
    OBVIOUS
  <2>1. \A s \in Sessions, thread \in Threads \ {default} : ~ Uses(s, thread)
    BY DEF Init, Uses
  <2> QED
    BY <2>1 DEF ThreadsOwned
<1> QED
  BY <1>1, ThreadsOwnedKept, OwnedThreadsKeepApart, SessionTyped, PTL DEF Spec

-----------------------------------------------------------------------------
(***************************************************************************)
(* Carts.                                                                  *)
(***************************************************************************)

LEMMA TakenUpFinite ==
  ASSUME TypeOK, NEW s, NEW text
  PROVE  IsFiniteSet(TakenUp(s, text)) /\ Cardinality(TakenUp(s, text)) \in Nat
<1>1. IsFiniteSet(1..served) /\ TakenUp(s, text) \subseteq 1..served
  BY FS_Interval DEF TypeOK, TakenUp
<1> QED
  BY <1>1, FS_Subset, FS_CardinalityType

\* Taking up a submission adds to the count of its own text.
LEMMA TakenUpSteps ==
  ASSUME TypeOK, [Next]_vars, NEW s \in Sessions, NEW text \in Texts
  PROVE  /\ Cardinality(TakenUp(s, text)) \in Nat /\ Cardinality(TakenUp(s, text))' \in Nat
         /\ Cardinality(TakenUp(s, text)) <= Cardinality(TakenUp(s, text))'
         /\ Respond /\ s = running' /\ text = message' =>
              Cardinality(TakenUp(s, text))' = Cardinality(TakenUp(s, text)) + 1
<1>1. \A i \in 1..served : events'[i] = events[i]
  BY EventsKept
<1>2. TypeOK'
  BY NextTypeOK
<1>3. served \in Nat /\ (served' = served \/ served' = served + 1)
  BY CheckpointSteps DEF TypeOK, Skip, Respond, RecordStreamed, RecordRecovered
<1>4. TakenUp(s, text) \subseteq TakenUp(s, text)'
  BY <1>1, <1>3 DEF TakenUp
<1>5. /\ Cardinality(TakenUp(s, text)') \in Nat
      /\ Cardinality(TakenUp(s, text)) <= Cardinality(TakenUp(s, text)')
  <2> DEFINE taken == TakenUp(s, text)'
  <2>1. taken \subseteq 1..served' /\ served' \in Nat
    BY <1>2 DEF TypeOK, TakenUp
  <2>2. IsFiniteSet(1..served')
    BY <2>1, FS_Interval
  <2>3. TakenUp(s, text) \subseteq taken
    BY <1>4
  <2> HIDE DEF taken
  <2>4. IsFiniteSet(taken)
    BY <2>1, <2>2, FS_Subset
  <2>5. Cardinality(taken) \in Nat /\ Cardinality(TakenUp(s, text)) <= Cardinality(taken)
    BY <2>3, <2>4, FS_Subset, FS_CardinalityType
  <2> QED
    BY <2>5 DEF taken
<1>6. ASSUME Respond, s = running', text = message'
      PROVE  Cardinality(TakenUp(s, text)') = Cardinality(TakenUp(s, text)) + 1
  <2>1. served' = served + 1 /\ UNCHANGED events
    BY <1>6 DEF Respond
  <2>2. TakenUp(s, text)' = TakenUp(s, text) \cup {served + 1}
    BY <1>3, <1>6, <2>1 DEF TakenUp, running, message
  <2>3. served + 1 \notin TakenUp(s, text)
    BY <1>3 DEF TakenUp
  <2> QED
    BY <2>2, <2>3, TakenUpFinite, FS_AddElement
<1> QED
  BY <1>5, <1>6, TakenUpFinite

\* What the turn's steps do to its draft.
LEMMA DraftSteps ==
  ASSUME TypeOK, [Next]_vars, turn' # NULL, ~ Respond
  PROVE  \/ UNCHANGED turn
         \/ turn'.stage = "begun" /\ turn'.draft = turn.cart /\ turn'.attempt = "blocking"
         \/ /\ turn.stage = "begun" /\ turn'.stage = "ran" /\ turn'.attempt = turn.attempt
            /\ turn'.draft \in Turned(turn.draft, message)
         \/ turn'.stage = "shown" /\ turn'.draft = turn.draft /\ turn'.attempt = turn.attempt
<1>1. turn # NULL
  BY TurnGoesOn
<1>2. turn \in Turn
  BY <1>1, RunningType
<1>3. ASSUME NEW draft, turn' = AfterError(draft)
      PROVE  turn'.stage = "begun" /\ turn'.draft = turn.cart /\ turn'.attempt = "blocking"
  BY <1>1, <1>3, ErrorEnds
<1>4. ASSUME NEW draft, turn' = [turn EXCEPT !.draft = draft, !.stage = "ran"]
      PROVE  turn'.stage = "ran" /\ turn'.draft = draft /\ turn'.attempt = turn.attempt
  BY <1>2, <1>4, TurnUpdates
<1>5. ASSUME turn' = [turn EXCEPT !.stage = "shown"]
      PROVE  turn'.stage = "shown" /\ turn'.draft = turn.draft /\ turn'.attempt = turn.attempt
  BY <1>2, <1>5, TurnUpdates
<1>6. \/ UNCHANGED turn
      \/ \E draft : turn' = AfterError(draft)
      \/ RunGraph
      \/ turn' = [turn EXCEPT !.stage = "shown"]
  BY DEF Next, Serve, Customer, Load, Type, Submit, Reset, RemoveLine, Progress, Skip,
         GraphRaises, ResultFrame, RecordStreamed, AfterDone, RecordRecovered, RecordRaises, vars
<1> QED
  BY <1>3, <1>4, <1>5, <1>6 DEF RunGraph
\* A turn adds one line once at most.
LEMMA TurnedAdds ==
  ASSUME NEW c \in Cart, NEW text \in Texts, NEW draft \in Turned(c, text), NEW x \in Texts
  PROVE  draft[x] \in Nat /\ c[x] \in Nat /\ draft[x] <= c[x] + (IF x = text THEN 1 ELSE 0)
BY DEF Turned, Cart

LEMMA GivenOnceKept ==
  ASSUME TypeOK, AddedOnce, GivenOnce, [Next]_vars
  PROVE  GivenOnce'
<1> SUFFICES ASSUME NEW text \in Texts PROVE Given(text)'
  BY DEF GivenOnce
<1> SUFFICES ASSUME turn' # NULL
             PROVE  /\ turn'.stage = "begun" => turn'.draft = turn'.cart
                    /\ turn'.cart[text] + (IF text = message' THEN 1 ELSE 0) <=
                         Cardinality(TakenUp(running, text))'
                    /\ turn'.draft[text] <= Cardinality(TakenUp(running, text))'
  BY DEF Given
<1>1. CASE Respond
  <2>1. PICK s \in Sessions : s = running'
    BY <1>1, TurnBegins
  <2>2. message' \in Texts /\ turn'.cart = cart_state[s] /\ turn'.draft = cart_state[s]
    BY <1>1, <2>1, TurnBegins
  <2>3. Cardinality(TakenUp(running, text))' = Cardinality(TakenUp(s, text))'
    BY <2>1 DEF TakenUp
  <2>4. cart_state[s][text] \in Nat /\ cart_state[s][text] <= Cardinality(TakenUp(s, text))
    BY DEF TypeOK, Cart, AddedOnce
  <2>5. /\ Cardinality(TakenUp(s, text)) \in Nat /\ Cardinality(TakenUp(s, text))' \in Nat
        /\ Cardinality(TakenUp(s, text)) <= Cardinality(TakenUp(s, text))'
        /\ text = message' =>
             Cardinality(TakenUp(s, text))' = Cardinality(TakenUp(s, text)) + 1
    BY <1>1, <2>1, TakenUpSteps
  <2> QED
    BY <2>2, <2>3, <2>4, <2>5
<1>2. CASE ~ Respond
  <2>1. /\ turn # NULL /\ turn'.cart = turn.cart /\ running' = running /\ message' = message
    BY <1>2, TurnGoesOn
  <2>2. running \in Sessions /\ message \in Texts /\ turn.cart \in Cart /\ turn.draft \in Cart
    BY <2>1, RunningType DEF Turn
  <2> DEFINE took == Cardinality(TakenUp(running, text))
             takes == Cardinality(TakenUp(running, text))'
  <2>3. took \in Nat /\ takes \in Nat /\ took <= takes
    <3>1. PICK s \in Sessions : s = running
      BY <2>2
    <3>2. /\ Cardinality(TakenUp(s, text)) \in Nat /\ Cardinality(TakenUp(s, text))' \in Nat
          /\ Cardinality(TakenUp(s, text)) <= Cardinality(TakenUp(s, text))'
      BY TakenUpSteps
    <3>3. Cardinality(TakenUp(running, text))' = Cardinality(TakenUp(s, text))'
      BY <2>1, <3>1 DEF TakenUp
    <3> QED
      BY <3>1, <3>2, <3>3
  <2>4. /\ turn.stage = "begun" => turn.draft = turn.cart
        /\ turn.cart[text] + (IF text = message THEN 1 ELSE 0) <= took
        /\ turn.draft[text] <= took
    BY <2>1 DEF GivenOnce, Given
  <2> HIDE DEF took, takes
  <2>5. turn.cart[text] \in Nat /\ turn.draft[text] \in Nat
    BY <2>2 DEF Cart
  <2>6. turn'.stage = "begun" => turn'.draft = turn'.cart
    <3>1. CASE UNCHANGED turn
      BY <2>4, <3>1
    <3> QED
      BY <1>2, <2>1, <3>1, DraftSteps
  <2>7. turn'.draft[text] \in Nat /\ turn'.draft[text] <= took
    <3>1. CASE turn.stage = "begun" /\ turn'.draft \in Turned(turn.draft, message)
      <4>1. /\ turn'.draft[text] \in Nat
            /\ turn'.draft[text] <= turn.draft[text] + (IF text = message THEN 1 ELSE 0)
        BY <2>2, <3>1, TurnedAdds
      <4> QED
        BY <2>3, <2>4, <2>5, <3>1, <4>1
    <3>2. CASE turn'.draft = turn.draft
      BY <2>4, <2>5, <3>2
    <3>3. CASE turn'.draft = turn.cart
      BY <2>3, <2>4, <2>5, <3>3
    <3> QED
      BY <1>2, <3>1, <3>2, <3>3, DraftSteps
  <2>8. /\ turn'.cart[text] + (IF text = message' THEN 1 ELSE 0) <= takes
        /\ turn'.draft[text] <= takes
    BY <2>1, <2>3, <2>4, <2>5, <2>7
  <2> QED
    BY <2>6, <2>8 DEF takes
<1> QED
  BY <1>1, <1>2

\* On the panel and with a new ticket a customer only takes lines out.
LEMMA CustomerTakesOut ==
  ASSUME TypeOK, NEW u \in Sessions, Reset(u) \/ \E x \in Texts : RemoveLine(u, x),
         NEW s \in Sessions, NEW text \in Texts
  PROVE  cart_state'[s][text] \in {cart_state[s][text], 0}
<1>1. cart_state \in [Sessions -> Cart]
  BY DEF TypeOK
<1>2. CASE Reset(u)
  <2>1. cart_state' = [cart_state EXCEPT ![u] = EmptyCart] /\ EmptyCart[text] = 0
    BY <1>2 DEF Reset, EmptyCart
  <2> QED
    BY <1>1, <2>1
<1>3. ASSUME NEW x \in Texts, RemoveLine(u, x)
      PROVE  cart_state'[s][text] \in {cart_state[s][text], 0}
  <2>1. cart_state' = [cart_state EXCEPT ![u] = [cart_state[u] EXCEPT ![x] = 0]]
    BY <1>3 DEF RemoveLine
  <2>2. cart_state[u] \in [Texts -> Nat]
    BY <1>1 DEF Cart
  <2>3. [cart_state[u] EXCEPT ![x] = 0][text] \in {cart_state[u][text], 0}
    BY <2>2
  <2> QED
    BY <1>1, <2>1, <2>3
<1> QED
  BY <1>2, <1>3

\* A turn commits its cart and shows its reply, in one step.
Commit == ResultFrame \/ RecordRecovered

LEMMA CommitSteps ==
  ASSUME TypeOK, Commit, NEW s \in Sessions
  PROVE  /\ turn # NULL /\ running \in Sessions /\ turn.draft \in Cart /\ UNCHANGED served
         /\ cart_state'[s] = IF s = running THEN turn.draft ELSE cart_state[s]
         /\ s = running =>
              chat'[s] = Append(history, [event |-> served, reply |-> turn.draft])
<1>1. /\ turn # NULL /\ UNCHANGED served /\ ShowReply
      /\ cart_state' = [cart_state EXCEPT ![running] = turn.draft]
  BY DEF Commit, ResultFrame, RecordRecovered, CommitRecovered
<1>2. running \in Sessions /\ turn.draft \in Cart
  BY <1>1, RunningType DEF Turn
<1> QED
  BY <1>1, <1>2 DEF ShowReply, TypeOK

\* Otherwise a cart changes when a turn commits it.
LEMMA CartSteps ==
  ASSUME TypeOK, [Next]_vars
  PROVE  \/ UNCHANGED cart_state
         \/ \E u \in Sessions : Reset(u) \/ \E x \in Texts : RemoveLine(u, x)
         \/ Commit
BY DEF Next, Serve, Customer, Load, Type, Submit, Progress, Skip, Respond, RunGraph, GraphRaises,
       RecordStreamed, RecordRaises, Commit, vars, server

LEMMA AddedOnceKept ==
  ASSUME TypeOK, AddedOnce, GivenOnce, [Next]_vars
  PROVE  AddedOnce'
<1> SUFFICES ASSUME NEW s \in Sessions, NEW text \in Texts
             PROVE  cart_state'[s][text] <= Cardinality(TakenUp(s, text))'
  BY DEF AddedOnce
<1> DEFINE took == Cardinality(TakenUp(s, text))
           takes == Cardinality(TakenUp(s, text))'
<1>1. took \in Nat /\ takes \in Nat /\ took <= takes
  BY TakenUpSteps
<1>2. cart_state[s][text] \in Nat /\ cart_state[s][text] <= took
  BY DEF TypeOK, Cart, AddedOnce
<1>3. cart_state'[s][text] \in Nat /\ cart_state'[s][text] <= took
  <2>1. CASE UNCHANGED cart_state
    BY <1>2, <2>1
  <2>2. ASSUME NEW u \in Sessions, Reset(u) \/ \E x \in Texts : RemoveLine(u, x)
        PROVE  cart_state'[s][text] \in Nat /\ cart_state'[s][text] <= took
    <3>1. cart_state'[s][text] \in {cart_state[s][text], 0}
      BY <2>2, CustomerTakesOut
    <3> QED
      BY <1>1, <1>2, <3>1
  <2>3. CASE Commit
    <3>1. turn # NULL /\ turn.draft \in Cart
      BY <2>3, CommitSteps
    <3>2. CASE s = running
      <4>1. turn.draft[text] \in Nat /\ turn.draft[text] <= took
        BY <3>1, <3>2 DEF GivenOnce, Given, Cart
      <4> QED
        BY <2>3, <3>2, <4>1, CommitSteps
    <3>3. CASE s # running
      BY <1>2, <2>3, <3>3, CommitSteps
    <3> QED
      BY <3>2, <3>3
  <2> QED
    BY <2>1, <2>2, <2>3, CartSteps
<1> HIDE DEF took, takes
<1>4. cart_state'[s][text] <= takes
  BY <1>1, <1>3
<1> QED
  BY <1>4 DEF takes

(***************************************************************************)
(* However often turns fail, after their work on the cart or after their   *)
(* last frame, no message adds its line twice or to another's cart.        *)
(***************************************************************************)
THEOREM LinesAddedOnce == Spec => []AddedOnce
<1>1. Init => AddedOnce /\ GivenOnce
  <2> SUFFICES ASSUME Init PROVE AddedOnce /\ GivenOnce
    OBVIOUS
  <2>1. TypeOK
    BY InitTypeOK
  <2>2. \A s \in Sessions, text \in Texts : Cardinality(TakenUp(s, text)) \in Nat
    BY <2>1, TakenUpFinite
  <2> QED
    BY <2>2 DEF Init, AddedOnce, GivenOnce, Given, EmptyCart
<1>2. TypeOK /\ AddedOnce /\ GivenOnce /\ [Next]_vars => AddedOnce' /\ GivenOnce'
  BY AddedOnceKept, GivenOnceKept
<1> QED
  BY <1>1, <1>2, SessionTyped, PTL DEF Spec

-----------------------------------------------------------------------------
(***************************************************************************)
(* Chats.                                                                  *)
(***************************************************************************)

LEMMA BubblesNumbered ==
  ASSUME NEW bubbles \in Seq(Bubble), NEW n \in DOMAIN bubbles
  PROVE  bubbles[n].event \in Nat
<1>1. bubbles[n] \in Bubble
  OBVIOUS
<1> QED
  BY <1>1 DEF Bubble

\* What a bubble adds to a chat.
LEMMA BubbleShown ==
  ASSUME NEW bubbles \in Seq(Bubble), NEW i \in Nat \ {0}, NEW reply \in Cart \cup {NULL},
         NEW chats, chats = Append(bubbles, [event |-> i, reply |-> reply])
  PROVE  /\ chats # <<>>
         /\ chats[Len(chats)] = [event |-> i, reply |-> reply]
         /\ \A upto \in Nat : upto <= i /\ Past(bubbles, upto) => Past(chats, i)
<1> DEFINE bubble == [event |-> i, reply |-> reply]
<1>1. bubble \in Bubble /\ bubble.event = i
  BY DEF Bubble
<1>2. \A n \in DOMAIN bubbles : bubbles[n].event \in Nat
  BY BubblesNumbered
<1> HIDE DEF bubble
<1>3. /\ chats # <<>> /\ chats[Len(chats)] = bubble
      /\ \A n \in DOMAIN chats : chats[n] = bubble \/ (n \in DOMAIN bubbles /\ chats[n] = bubbles[n])
  BY <1>1 DEF bubble
<1>4. \A upto \in Nat : upto <= i /\ Past(bubbles, upto) => Past(chats, i)
  BY <1>1, <1>2, <1>3 DEF Past
<1> QED
  BY <1>3, <1>4 DEF bubble

LEMMA PastLonger ==
  ASSUME NEW bubbles \in Seq(Bubble), NEW i \in Nat, NEW j \in Nat, i <= j, Past(bubbles, i)
  PROVE  Past(bubbles, j)
BY BubblesNumbered DEF Past

\* How the chat of a session comes to be what it is.
LEMMA ChatSteps ==
  ASSUME TypeOK, [Next]_vars, NEW s \in Sessions
  PROVE  \/ chat'[s] = chat[s]
         \/ Reset(s) /\ chat'[s] = <<>>
         \/ Skip /\ s = events[served + 1].session /\ chat'[s] = events[served + 1].history
         \/ /\ Respond /\ s = events[served + 1].session
            /\ chat'[s] = Append(events[served + 1].history, [event |-> served + 1, reply |-> NULL])
         \/ /\ turn # NULL /\ s = running /\ UNCHANGED served
            /\ chat'[s] = Append(history, [event |-> served, reply |-> NULL])
         \/ Commit /\ s = running
<1>1. chat \in [Sessions -> Seq(Bubble)]
  BY DEF TypeOK
<1>2. ASSUME NEW u \in Sessions, Reset(u)
      PROVE  chat'[s] = chat[s] \/ (Reset(s) /\ chat'[s] = <<>>)
  BY <1>1, <1>2 DEF Reset
<1>3. CASE Skip \/ Respond
  <2>1. served + 1 \in 1..Len(events)
    BY <1>3 DEF Skip, Respond, TypeOK
  <2>2. events[served + 1].session \in Sessions
    BY <2>1, EventType
  <2> QED
    BY <1>1, <1>3, <2>2 DEF Skip, Respond
<1>4. CASE Progress
  BY <1>1, <1>4 DEF Progress, ShowWorking
<1>5. CASE Commit
  BY <1>1, <1>5 DEF Commit, ResultFrame, RecordRecovered, ShowReply
<1>6. \/ UNCHANGED chat \/ \E u \in Sessions : Reset(u)
      \/ Skip \/ Respond \/ Progress \/ Commit
  BY DEF Next, Serve, Customer, Load, Type, Submit, RemoveLine, RunGraph,
         GraphRaises, RecordStreamed, RecordRaises, Commit, vars, browser
<1> QED
  BY <1>2, <1>3, <1>4, <1>5, <1>6

LEMMA ServedSteps ==
  ASSUME TypeOK, [Next]_vars
  PROVE  /\ served \in Nat /\ served' \in Nat /\ served <= served'
         /\ served' <= Len(events) /\ served' \in {served, served + 1}
<1>1. served' = served \/ (served' = served + 1 /\ served < Len(events))
  BY CheckpointSteps DEF Skip, Respond, RecordStreamed, RecordRecovered
<1> QED
  BY <1>1 DEF TypeOK

LEMMA ChatsPastKept ==
  ASSUME TypeOK, ChatsPast, [Next]_vars
  PROVE  ChatsPast'
<1>1. served \in Nat /\ served' \in Nat /\ served <= served' /\ served' <= Len(events)
  BY ServedSteps
<1>2. ASSUME NEW s \in Sessions PROVE Past(chat'[s], served')
  <2>1. chat[s] \in Seq(Bubble) /\ Past(chat[s], served)
    BY DEF TypeOK, ChatsPast
  <2>2. CASE chat'[s] = chat[s]
    BY <1>1, <2>1, <2>2, PastLonger
  <2>3. CASE chat'[s] = <<>>
    BY <2>3 DEF Past
  <2>4. CASE Skip \/ Respond
    <3>1. served + 1 \in 1..Len(events) /\ served' = served + 1 /\ DOMAIN events = 1..Len(events)
      BY <2>4 DEF Skip, Respond, TypeOK
    <3>2. events[served + 1].history \in Seq(Bubble) /\ Past(events[served + 1].history, served)
      BY <3>1, EventType DEF ChatsPast
    <3>3. ASSUME chat'[s] = Append(events[served + 1].history, [event |-> served + 1, reply |-> NULL])
          PROVE  Past(chat'[s], served')
      <4> DEFINE bubbles == events[served + 1].history
                 shown == chat'[s]
      <4>1. /\ bubbles \in Seq(Bubble) /\ Past(bubbles, served)
            /\ shown = Append(bubbles, [event |-> served', reply |-> NULL])
            /\ served' \in Nat \ {0} /\ NULL \in Cart \cup {NULL} /\ served \in Nat
        BY <1>1, <3>1, <3>2, <3>3
      <4> HIDE DEF bubbles, shown
      <4>2. Past(shown, served')
        BY <1>1, <4>1, BubbleShown
      <4> QED
        BY <4>2 DEF shown
    <3>4. ASSUME chat'[s] = events[served + 1].history
          PROVE  Past(chat'[s], served')
      BY <1>1, <3>1, <3>2, <3>4, PastLonger
    <3>5. turn = NULL /\ ~ Commit
      BY <2>4 DEF Skip, Respond, Commit, ResultFrame, RecordRecovered
    <3> QED
      BY <2>2, <2>3, <3>3, <3>4, <3>5, ChatSteps
  <2>5. ASSUME turn # NULL, UNCHANGED served, NEW reply \in Cart \cup {NULL},
               chat'[s] = Append(history, [event |-> served, reply |-> reply])
        PROVE  Past(chat'[s], served')
    <3>1. served \in 1..Len(events) /\ history \in Seq(Bubble)
      BY <2>5, RunningType
    <3>2. Past(history, served)
      BY <3>1 DEF history, ChatsPast, TypeOK
    <3> DEFINE shown == chat'[s]
    <3>3. /\ shown = Append(history, [event |-> served, reply |-> reply])
          /\ served \in Nat \ {0} /\ served \in Nat /\ served <= served
      BY <2>5, <3>1
    <3> HIDE DEF shown
    <3>4. Past(shown, served)
      BY <3>1, <3>2, <3>3, BubbleShown
    <3> QED
      BY <2>5, <3>4 DEF shown
  <2>6. CASE Commit /\ s = running
    BY <2>5, <2>6, CommitSteps
  <2>7. NULL \in Cart \cup {NULL}
    OBVIOUS
  <2> QED
    BY <2>2, <2>3, <2>4, <2>5, <2>6, <2>7, ChatSteps
<1>3. ASSUME NEW i \in DOMAIN events' PROVE Past(events'[i].history, served')
  <2>1. /\ DOMAIN events = 1..Len(events) /\ DOMAIN events' = 1..Len(events')
        /\ \A k \in 1..Len(events) : events'[k] = events[k]
    BY EventsKept
  <2>2. CASE i \in 1..Len(events)
    <3>1. events[i].history \in Seq(Bubble) /\ Past(events[i].history, served)
      BY <2>1, <2>2, EventType DEF ChatsPast
    <3> QED
      BY <1>1, <2>1, <2>2, <3>1, PastLonger
  <2>3. ASSUME NEW s \in Sessions, Submit(s), i \notin 1..Len(events)
        PROVE  Past(events'[i].history, served')
    <3>1. events'[i].history = chat[s]
      BY <2>1, <2>3 DEF Submit, TypeOK
    <3>2. chat[s] \in Seq(Bubble) /\ Past(chat[s], served)
      BY DEF TypeOK, ChatsPast
    <3> QED
      BY <1>1, <3>1, <3>2, PastLonger
  <2>4. UNCHANGED events \/ \E s \in Sessions : Submit(s)
    BY DEF Next, Serve, Customer, Load, Type, Reset, RemoveLine, Progress, Skip, Respond, RunGraph,
           GraphRaises, ResultFrame, RecordStreamed, RecordRecovered, RecordRaises, vars
  <2> QED
    BY <2>1, <2>2, <2>3, <2>4
<1> QED
  BY <1>2, <1>3 DEF ChatsPast

LEMMA ReplyMatchesKept ==
  ASSUME TypeOK, ChatsPast, ReplyMatchesCart, [Next]_vars
  PROVE  ReplyMatchesCart'
<1> SUFFICES ASSUME NEW s \in Sessions, NEW text \in Texts,
                    chat'[s] # <<>>,
                    chat'[s][Len(chat'[s])].reply # NULL,
                    \A i \in (chat'[s][Len(chat'[s])].event + 1)..served' : events'[i].session # s
             PROVE  cart_state'[s][text] \in {chat'[s][Len(chat'[s])].reply[text], 0}
  BY DEF ReplyMatchesCart
<1> DEFINE shown == chat'[s]
           last == shown[Len(shown)]
<1>1. /\ served \in Nat /\ served' \in Nat /\ served <= served' /\ served' <= Len(events)
      /\ \A i \in 1..Len(events) : events'[i] = events[i]
  BY ServedSteps, EventsKept
<1>2. turn # NULL => served \in Nat \ {0} /\ history \in Seq(Bubble)
  BY RunningType
<1>3. CASE Commit /\ s = running
  <2>1. /\ turn # NULL /\ turn.draft \in Cart /\ cart_state'[s] = turn.draft
        /\ shown = Append(history, [event |-> served, reply |-> turn.draft])
    BY <1>3, CommitSteps
  <2>2. served \in Nat \ {0} /\ history \in Seq(Bubble) /\ turn.draft \in Cart \cup {NULL}
    BY <1>2, <2>1
  <2> HIDE DEF shown
  <2>3. last = [event |-> served, reply |-> turn.draft]
    BY <2>1, <2>2, BubbleShown
  <2>4. last.reply = turn.draft
    BY <2>3
  <2> QED
    BY <2>1, <2>4 DEF shown
<1>4. CASE shown = chat[s] /\ ~ (Commit /\ s = running)
  <2>1. last.event \in Nat /\ chat[s] \in Seq(Bubble)
    <3>1. chat[s] \in Seq(Bubble)
      BY DEF TypeOK
    <3>2. Len(chat[s]) \in DOMAIN chat[s]
      BY <1>4, <3>1
    <3> QED
      BY <1>4, <3>1, <3>2, BubblesNumbered
  <2>2. \A i \in (last.event + 1)..served : events[i].session # s
    BY <1>1, <2>1
  <2>3. cart_state[s][text] \in {last.reply[text], 0}
    BY <1>4, <2>2 DEF ReplyMatchesCart
  <2>4. cart_state'[s][text] \in {cart_state[s][text], 0}
    <3>1. CASE UNCHANGED cart_state
      BY <3>1
    <3>2. ASSUME NEW u \in Sessions, Reset(u) \/ \E x \in Texts : RemoveLine(u, x)
          PROVE  cart_state'[s][text] \in {cart_state[s][text], 0}
      BY <3>2, CustomerTakesOut
    <3>3. CASE Commit
      BY <1>4, <3>3, CommitSteps
    <3> QED
      BY <3>1, <3>2, <3>3, CartSteps
  <2> QED
    BY <2>3, <2>4
<1>5. CASE Skip /\ s = events[served + 1].session /\ shown = events[served + 1].history
  <2>1. served' = served + 1 /\ served + 1 \in 1..Len(events)
    BY <1>5 DEF Skip, TypeOK
  <2>2. shown \in Seq(Bubble) /\ Past(shown, served)
    BY <1>5, <2>1, EventType DEF ChatsPast, TypeOK
  <2>3. Len(shown) \in DOMAIN shown
    BY <2>2
  <2>4. last.event \in Nat /\ last.event <= served
    BY <2>2, <2>3, BubblesNumbered DEF Past
  <2>5. served + 1 \in (last.event + 1)..served'
    BY <1>1, <2>1, <2>4
  <2> QED
    BY <1>1, <1>5, <2>1, <2>5
<1>6. ASSUME NEW bubbles \in Seq(Bubble), NEW i \in Nat \ {0},
             shown = Append(bubbles, [event |-> i, reply |-> NULL])
      PROVE  FALSE
  <2>1. NULL \in Cart \cup {NULL}
    OBVIOUS
  <2> HIDE DEF shown
  <2>2. last = [event |-> i, reply |-> NULL]
    BY <1>6, <2>1, BubbleShown
  <2>3. last.reply = NULL
    BY <2>2
  <2> QED
    BY <2>3 DEF shown
<1>7. CASE Respond
           /\ shown = Append(events[served + 1].history, [event |-> served + 1, reply |-> NULL])
  <2>1. served + 1 \in 1..Len(events)
    BY <1>7 DEF Respond, TypeOK
  <2> QED
    BY <1>6, <1>7, <2>1, EventType
<1>8. CASE turn # NULL /\ shown = Append(history, [event |-> served, reply |-> NULL])
  BY <1>2, <1>6, <1>8
<1> QED
  BY <1>3, <1>4, <1>5, <1>7, <1>8, ChatSteps

(***************************************************************************)
(* Whatever the other sessions' turns and the failures of its own do, the  *)
(* cart beside a session's latest reply is the reply's.                    *)
(***************************************************************************)
THEOREM CartBesideReply == Spec => []ReplyMatchesCart
<1>1. Init => ChatsPast /\ ReplyMatchesCart
  BY DEF Init, ChatsPast, Past, ReplyMatchesCart
<1>2. TypeOK /\ ChatsPast /\ ReplyMatchesCart /\ [Next]_vars => ChatsPast' /\ ReplyMatchesCart'
  BY ChatsPastKept, ReplyMatchesKept
<1> QED
  BY <1>1, <1>2, SessionTyped, PTL DEF Spec

-----------------------------------------------------------------------------
(***************************************************************************)
(* What becomes of a message.                                              *)
(***************************************************************************)

\* One order more is an order for one submission.
LEMMA OrderAdded ==
  ASSUME NEW S, NEW received \in Seq(S), NEW x \in S, NEW i
  PROVE  /\ Cardinality(OrdersFor(i, received)) \in Nat
         /\ Cardinality(OrdersFor(i, Append(received, x))) =
              Cardinality(OrdersFor(i, received)) + (IF i = x THEN 1 ELSE 0)
<1> DEFINE n == Len(received)
           old == OrdersFor(i, received)
           new == OrdersFor(i, Append(received, x))
<1>1. n \in Nat /\ old \subseteq 1..n
  BY DEF OrdersFor
<1>2. new = IF i = x THEN old \cup {n + 1} ELSE old
  BY DEF OrdersFor
<1>3. n + 1 \notin old
  BY <1>1
<1> HIDE DEF n, old, new
<1>4. IsFiniteSet(old)
  <2>1. IsFiniteSet(1..n)
    BY <1>1, FS_Interval
  <2> QED
    BY <1>1, <2>1, FS_Subset
<1>5. Cardinality(old) \in Nat /\ Cardinality(old \cup {n + 1}) = Cardinality(old) + 1
  BY <1>3, <1>4, FS_CardinalityType, FS_AddElement
<1>6. Cardinality(new) = Cardinality(old) + (IF i = x THEN 1 ELSE 0)
  BY <1>2, <1>5
<1> QED
  BY <1>5, <1>6 DEF old, new

\* No order is for a submission that waits.
LEMMA WaitingUnsent ==
  ASSUME TypeOK, NEW i, i \notin 1..served
  PROVE  Cardinality(OrdersFor(i, orders)) = 0
<1>1. \A n \in DOMAIN orders : orders[n] \in 1..served
  BY DEF TypeOK
<1>2. OrdersFor(i, orders) = {}
  BY <1>1 DEF OrdersFor
<1> QED
  BY <1>2, FS_EmptySet

\* The orders of the running turn, one of them perhaps from this step.
LEMMA SentSteps ==
  ASSUME TypeOK, turn # NULL, NEW draft, Sends(draft) \/ UNCHANGED orders
  PROVE  LET before == Cardinality(OrdersFor(served, orders))
             after == Cardinality(OrdersFor(served, orders'))
         IN  /\ before \in Nat
             /\ \/ UNCHANGED orders
                \/ /\ after = before + 1
                   /\ UNCHANGED events => sents' = [sents EXCEPT ![served] = @ + 1]
<1>1. served \in 1..served /\ orders \in Seq(1..served) /\ served \in DOMAIN events
  BY RunningType DEF TypeOK
<1>2. \A i : /\ Cardinality(OrdersFor(i, orders)) \in Nat
             /\ Cardinality(OrdersFor(i, Append(orders, served))) =
                  Cardinality(OrdersFor(i, orders)) + (IF i = served THEN 1 ELSE 0)
  BY <1>1, OrderAdded
<1>3. ASSUME orders' = Append(orders, served), UNCHANGED events
      PROVE  sents' = [sents EXCEPT ![served] = @ + 1]
  <2> DEFINE old == [i \in DOMAIN events |-> Cardinality(OrdersFor(i, orders))]
             new == [i \in DOMAIN events |-> Cardinality(OrdersFor(i, Append(orders, served)))]
  <2>1. sents = old /\ sents' = new
    BY <1>3 DEF sents
  <2>2. \A i \in DOMAIN events : new[i] = old[i] + (IF i = served THEN 1 ELSE 0) /\ old[i] \in Nat
    BY <1>2
  <2>3. new = [old EXCEPT ![served] = @ + 1]
    <3>1. new = [i \in DOMAIN events |-> new[i]] /\ old = [i \in DOMAIN events |-> old[i]]
      OBVIOUS
    <3> HIDE DEF old, new
    <3> QED
      BY <1>1, <2>2, <3>1
  <2> QED
    BY <2>1, <2>3
<1> QED
  BY <1>2, <1>3 DEF Sends

LEMMA SentOnceKept ==
  ASSUME TypeOK, SentOnce, [Next]_vars
  PROVE  SentOnce'
<1> SUFFICES ASSUME turn' # NULL
             PROVE  Cardinality(OrdersFor(served', orders')) <=
                      (IF turn'.attempt = "blocking" THEN 1 ELSE 0) +
                      (IF turn'.stage = "begun" THEN 0 ELSE 1)
  BY DEF SentOnce
<1>1. CASE Respond
  <2>1. served' \notin 1..served /\ UNCHANGED orders
    BY <1>1 DEF Respond, agent, TypeOK
  <2> QED
    BY <2>1, WaitingUnsent
<1>2. CASE ~ Respond
  <2>1. turn # NULL /\ UNCHANGED served
    BY <1>2, TurnGoesOn
  <2>2. turn \in Turn
    BY <2>1, RunningType
  <2> DEFINE before == Cardinality(OrdersFor(served, orders))
             after == Cardinality(OrdersFor(served, orders'))
  <2>3. ASSUME NEW draft, Sends(draft) \/ UNCHANGED orders
        PROVE  before \in Nat /\ after \in {before, before + 1}
    BY <2>1, <2>3, SentSteps
  <2>4. before \in Nat
    <3>1. served \in 1..served /\ orders \in Seq(1..served)
      BY <2>1, RunningType DEF TypeOK
    <3> QED
      BY <3>1, OrderAdded
  <2>5. before <= (IF turn.attempt = "blocking" THEN 1 ELSE 0) + (IF turn.stage = "begun" THEN 0 ELSE 1)
    BY <2>1 DEF SentOnce
  <2> SUFFICES after <= (IF turn'.attempt = "blocking" THEN 1 ELSE 0) +
                        (IF turn'.stage = "begun" THEN 0 ELSE 1)
    BY <2>1
  <2>6. CASE UNCHANGED <<turn, orders>>
    BY <2>1, <2>5, <2>6
  <2> HIDE DEF before, after
  <2>7. CASE RunGraph
    <3>1. turn.stage = "begun" /\ after \in {before, before + 1}
      BY <2>3, <2>7 DEF RunGraph
    <3>2. turn'.stage = "ran" /\ turn'.attempt = turn.attempt
      BY <2>2, <2>7, TurnUpdates DEF RunGraph
    <3> QED
      BY <2>4, <2>5, <3>1, <3>2
  <2>8. CASE GraphRaises \/ RecordRaises
    <3>1. turn.stage = "begun" \/ after = before
      BY <2>8 DEF GraphRaises, RecordRaises, agent, before, after
    <3>2. after \in {before, before + 1}
      BY <2>3, <2>8 DEF GraphRaises, RecordRaises, agent
    <3>3. turn.attempt = "stream" /\ turn'.attempt = "blocking" /\ turn'.stage = "begun"
      BY <2>1, <2>8, ErrorEnds DEF GraphRaises, RecordRaises
    <3> QED
      BY <2>4, <2>5, <3>1, <3>2, <3>3
  <2>9. CASE ResultFrame
    <3>1. turn.stage = "ran" /\ after = before
      BY <2>9 DEF ResultFrame, agent, before, after
    <3>2. turn'.stage = "shown" /\ turn'.attempt = turn.attempt
      BY <2>2, <2>9, TurnUpdates DEF ResultFrame
    <3> QED
      BY <2>4, <2>5, <3>1, <3>2
  <2>10. \/ UNCHANGED <<turn, orders>>
         \/ RunGraph \/ GraphRaises \/ RecordRaises \/ ResultFrame
    BY <1>2 DEF Next, Serve, Customer, Load, Type, Submit, Reset, RemoveLine, Progress, Skip,
       RecordStreamed, AfterDone, RecordRecovered, vars, agent
  <2> QED
    BY <2>6, <2>7, <2>8, <2>9, <2>10
<1> QED
  BY <1>1, <1>2

\* Where the messages stand: those taken up before the last are done, those behind it
\* wait.
StageOf(t) == IF t = NULL THEN "done" ELSE IF t.attempt = "stream" THEN "first" ELSE "second"

LEMMA StagesAre ==
  ASSUME TypeOK
  PROVE  /\ DOMAIN stages = DOMAIN events /\ DOMAIN events = 1..Len(events) /\ Len(events) \in Nat
         /\ served \in 0..Len(events)
         /\ \A i \in DOMAIN events :
              stages[i] = IF i < served THEN "done"
                          ELSE IF i > served THEN "waiting" ELSE StageOf(turn)
<1>1. DOMAIN events = 1..Len(events) /\ Len(events) \in Nat /\ served \in 0..Len(events)
  BY DEF TypeOK
<1> QED
  BY <1>1 DEF stages, Stage, Ended, StageOf

\* A step that brings no message moves the last one taken up, and that alone.
LEMMA StageMoves ==
  ASSUME TypeOK, UNCHANGED events, served' \in DOMAIN events,
         served' = served \/ (turn = NULL /\ served' = served + 1)
  PROVE  stages' = [stages EXCEPT ![served'] = StageOf(turn')]
<1> DEFINE new == stages'
<1>1. \A i \in DOMAIN events :
        new[i] = IF i < served' THEN "done" ELSE IF i > served' THEN "waiting" ELSE StageOf(turn')
  BY DEF stages, Stage, Ended, StageOf, TypeOK
<1>2. \A i \in DOMAIN events : i \in Nat
  BY DEF TypeOK
<1>3. \A i \in DOMAIN events : new[i] = IF i = served' THEN StageOf(turn') ELSE stages[i]
  BY <1>1, <1>2, StagesAre DEF StageOf
<1>4. new = [i \in DOMAIN events |-> new[i]] /\ stages = [i \in DOMAIN events |-> stages[i]]
  BY DEF stages
<1> HIDE DEF new
<1>5. new = [stages EXCEPT ![served'] = StageOf(turn')]
  BY <1>3, <1>4
<1> QED
  BY <1>5 DEF new

LEMMA SubmitArrives ==
  ASSUME TypeOK, NEW s \in Sessions, Submit(s)
  PROVE  Promise!Arrive
<1>1. TypeOK' /\ UNCHANGED <<served, turn, orders>>
  BY NextTypeOK DEF Next, Customer, Submit, agent
<1> DEFINE n == Len(events)
<1>2. n \in Nat /\ DOMAIN events = 1..n /\ DOMAIN events' = 1..(n + 1) /\ served \in 0..n
  BY DEF Submit, TypeOK
<1>3. stages' = Append(stages, "waiting")
  <2>1. \A i \in 1..(n + 1) : stages'[i] = IF i = n + 1 THEN "waiting" ELSE stages[i]
    BY <1>1, <1>2 DEF stages, Stage, Ended
  <2>2. stages' = [i \in 1..(n + 1) |-> stages'[i]] /\ stages = [i \in 1..n |-> stages[i]]
    BY <1>2 DEF stages
  <2>3. stages \in Seq({"waiting", "done", "first", "second"})
    BY <1>2 DEF stages, Stage
  <2>4. Len(stages) = n
    BY <1>2, <2>2, <2>3
  <2> DEFINE new == stages'
             old == stages
  <2> HIDE DEF n, new, old
  <2>5. new = Append(old, "waiting")
    <3>1. /\ new = [i \in 1..(n + 1) |-> new[i]] /\ n \in Nat
          /\ \A i \in 1..(n + 1) : new[i] = IF i = n + 1 THEN "waiting" ELSE old[i]
          /\ old \in Seq({"waiting", "done", "first", "second"}) /\ Len(old) = n
      BY <1>2, <2>1, <2>2, <2>3, <2>4 DEF new, old
    <3>2. new \in Seq({"waiting", "done", "first", "second"}) /\ Len(new) = n + 1
      BY <3>1
    <3>3. "waiting" \in {"waiting", "done", "first", "second"}
      OBVIOUS
    <3> DEFINE grown == Append(old, "waiting")
    <3>4. /\ grown \in Seq({"waiting", "done", "first", "second"}) /\ Len(grown) = n + 1
          /\ \A i \in 1..n : grown[i] = old[i]
          /\ grown[n + 1] = "waiting"
      BY <3>1, <3>3, AppendProperties
    <3> HIDE DEF grown
    <3>5. \A i \in 1..Len(new) : new[i] = grown[i]
      BY <3>1, <3>2, <3>4
    <3>6. new = grown
      BY <3>2, <3>4, <3>5, SeqEqual
    <3> QED
      BY <3>6 DEF grown
  <2> QED
    BY <2>5 DEF new, old
<1>4. sents' = Append(sents, 0)
  <2>1. Cardinality(OrdersFor(n + 1, orders)) = 0
    BY <1>2, WaitingUnsent
  <2>2. sents' = [i \in 1..(n + 1) |-> Cardinality(OrdersFor(i, orders))]
    BY <1>1, <1>2 DEF sents
  <2>3. sents = [i \in 1..n |-> Cardinality(OrdersFor(i, orders))]
    BY <1>2 DEF sents
  <2>4. \A i \in 1..n : Cardinality(OrdersFor(i, orders)) \in Nat
    <3>1. CASE served \in 1..served
      BY <3>1, OrderAdded DEF TypeOK
    <3>2. CASE served \notin 1..served
      BY <1>2, <3>2, WaitingUnsent
    <3> QED
      BY <3>1, <3>2
  <2>5. sents \in Seq(Nat) /\ Len(sents) = n
    BY <1>2, <2>3, <2>4
  <2> QED
    BY <1>2, <2>1, <2>2, <2>3, <2>5
<1> QED
  BY <1>3, <1>4 DEF Promise!Arrive

LEMMA TakeUpTakes ==
  ASSUME TypeOK, Skip \/ Respond
  PROVE  Promise!PromiseNext
<1> DEFINE i == served + 1
<1>1. /\ turn = NULL /\ i \in DOMAIN events /\ served \in Nat /\ served' = i
      /\ UNCHANGED <<events, orders>>
  BY DEF Skip, Respond, TypeOK, agent
<1>2. stages[i] = "waiting" /\ \A j \in 1..(i - 1) : stages[j] = "done"
  BY <1>1, StagesAre DEF StageOf
<1>3. StageOf(turn') \in {"first", "done"}
  <2>1. CASE Skip
    BY <2>1 DEF Skip, StageOf
  <2>2. CASE Respond
    BY <2>2, TurnBegins DEF StageOf
  <2> QED
    BY <2>1, <2>2
<1>4. stages' = [stages EXCEPT ![i] = StageOf(turn')]
  BY <1>1, StageMoves
<1>5. UNCHANGED sents
  BY <1>1 DEF sents
<1> QED
  BY <1>1, <1>2, <1>3, <1>4, <1>5, StagesAre DEF Promise!PromiseNext, Promise!TakeUp

\* A step of the running turn moves its own message.
LEMMA TurnMoves ==
  ASSUME TypeOK, turn # NULL, UNCHANGED <<events, served>>
  PROVE  /\ served \in DOMAIN stages
         /\ stages[served] = StageOf(turn)
         /\ stages' = [stages EXCEPT ![served] = StageOf(turn')]
<1>1. served \in DOMAIN events
  BY RunningType, StagesAre
<1> QED
  BY <1>1, StagesAre, StageMoves

\* An attempt may send while the orders allow it one more.
LEMMA AttemptSends ==
  ASSUME TypeOK, SentOnce, turn # NULL, turn.stage = "begun", UNCHANGED <<events, served>>,
         NEW draft, Sends(draft) \/ UNCHANGED orders
  PROVE  UNCHANGED sents \/ Promise!Send(served)
<1>1. turn \in Turn /\ served \in DOMAIN events
  BY RunningType, StagesAre
<1>2. stages[served] = StageOf(turn) /\ StageOf(turn) \in {"first", "second"}
  BY TurnMoves DEF StageOf
<1>3. CASE UNCHANGED orders
  BY <1>3 DEF sents
<1>4. CASE sents' = [sents EXCEPT ![served] = @ + 1]
  <2>1. sents[served] = Cardinality(OrdersFor(served, orders))
    BY <1>1 DEF sents
  <2>2. sents[served] \in Nat /\ sents[served] <= IF turn.attempt = "blocking" THEN 1 ELSE 0
    BY <2>1, SentSteps DEF SentOnce
  <2>3. sents[served] < Promise!Attempts(served)
    BY <1>1, <1>2, <2>2 DEF Promise!Attempts, StageOf, Turn
  <2> QED
    BY <1>2, <1>4, <2>3 DEF Promise!Send
<1> QED
  BY <1>3, <1>4, SentSteps

\* What became of an exception.
LEMMA ErrorMoves ==
  ASSUME TypeOK, turn # NULL, UNCHANGED <<events, served>>,
         NEW draft, turn' = AfterError(draft),
         UNCHANGED sents \/ Promise!Send(served)
  PROVE  Promise!TryAgain(served) \/ Promise!Finish(served)
<1>1. /\ stages[served] = StageOf(turn)
      /\ stages' = [stages EXCEPT ![served] = StageOf(turn')]
  BY TurnMoves
<1>2. CASE turn.attempt = "stream" /\ turn' # NULL /\ turn'.attempt = "blocking"
  BY <1>1, <1>2 DEF StageOf, Promise!TryAgain
<1>3. CASE turn.attempt = "blocking" /\ turn' = NULL
  BY <1>1, <1>3 DEF StageOf, Promise!Finish
<1>4. turn' # NULL => turn.attempt = "stream" /\ turn'.attempt = "blocking"
  BY ErrorEnds
<1> QED
  BY <1>2, <1>3, <1>4, ErrorEnds

LEMMA TurnRefines ==
  ASSUME TypeOK, SentOnce,
         RunGraph \/ GraphRaises \/ ResultFrame \/ RecordStreamed \/ RecordRecovered \/ RecordRaises
  PROVE  \/ UNCHANGED <<stages, sents>>
         \/ Promise!Send(served) /\ UNCHANGED stages
         \/ Promise!TryAgain(served)
         \/ Promise!Finish(served)
<1>1. turn # NULL /\ UNCHANGED <<events, served>>
  BY DEF RunGraph, GraphRaises, ResultFrame, RecordStreamed, RecordRecovered, RecordRaises
<1>2. turn \in Turn
  BY <1>1, RunningType
<1>3. /\ served \in DOMAIN stages /\ stages[served] = StageOf(turn)
      /\ stages' = [stages EXCEPT ![served] = StageOf(turn')]
  BY <1>1, TurnMoves
<1>4. StageOf(turn') = StageOf(turn) => UNCHANGED stages
  BY <1>3 DEF stages
<1>5. UNCHANGED orders => UNCHANGED sents
  BY <1>1 DEF sents
<1>6. CASE RunGraph
  <2>1. turn' \in Turn /\ turn'.attempt = turn.attempt
    <3>1. TypeOK'
      BY <1>6, NextTypeOK DEF Next, Serve
    <3>2. turn' # NULL /\ turn'.attempt = turn.attempt
      BY <1>1, <1>2, <1>6, TurnUpdates, ReplacedTurn DEF RunGraph
    <3> QED
      BY <3>1, <3>2 DEF TypeOK
  <2>2. UNCHANGED stages
    BY <1>1, <1>4, <2>1, NullAssumption DEF StageOf
  <2>3. UNCHANGED sents \/ Promise!Send(served)
    BY <1>1, <1>6, AttemptSends DEF RunGraph
  <2> QED
    BY <2>2, <2>3
<1>7. CASE GraphRaises
  <2>1. PICK draft : (Sends(draft) \/ UNCHANGED orders) /\ turn' = AfterError(draft)
    BY <1>7 DEF GraphRaises
  <2>2. UNCHANGED sents \/ Promise!Send(served)
    BY <1>1, <1>7, <2>1, AttemptSends DEF GraphRaises
  <2> QED
    BY <1>1, <2>1, <2>2, ErrorMoves
<1>8. CASE RecordRaises
  <2>1. turn' = AfterError(turn.draft) /\ UNCHANGED sents
    BY <1>5, <1>8 DEF RecordRaises, agent
  <2> QED
    BY <1>1, <2>1, ErrorMoves
<1>9. CASE ResultFrame
  <2>1. turn' # NULL /\ turn'.attempt = turn.attempt
    BY <1>2, <1>9, TurnUpdates, ReplacedTurn DEF ResultFrame
  <2> QED
    BY <1>1, <1>4, <1>5, <1>9, <2>1 DEF ResultFrame, StageOf, agent
<1>10. CASE RecordStreamed \/ RecordRecovered
  <2>1. turn' = NULL /\ UNCHANGED sents
    BY <1>5, <1>10 DEF RecordStreamed, AfterDone, RecordRecovered
  <2> QED
    BY <1>1, <1>3, <2>1 DEF StageOf, Promise!Finish
<1> QED
  BY <1>6, <1>7, <1>8, <1>9, <1>10

(***************************************************************************)
(* Each message is taken up in its turn, gets two attempts at most and an  *)
(* order from each at most, whatever raises and wherever.                  *)
(***************************************************************************)
THEOREM SessionKeepsPromise == Spec => ImplementsPromise
<1>1. Init => Promise!PromiseInit /\ SentOnce
  BY DEF Init, stages, sents, Promise!PromiseInit, SentOnce
<1>2. TypeOK /\ SentOnce /\ [Next]_vars => [Promise!PromiseNext]_(Promise!promiseVars)
  <2> SUFFICES ASSUME TypeOK, SentOnce, [Next]_vars
               PROVE  Promise!PromiseNext \/ UNCHANGED <<stages, sents>>
    BY DEF Promise!promiseVars
  <2>1. ASSUME NEW s \in Sessions, Submit(s) PROVE Promise!PromiseNext
    BY <2>1, SubmitArrives DEF Promise!PromiseNext
  <2>2. CASE Skip \/ Respond
    BY <2>2, TakeUpTakes
  <2>3. CASE RunGraph \/ GraphRaises \/ ResultFrame \/ RecordStreamed \/ RecordRecovered \/ RecordRaises
    <3>1. turn # NULL /\ UNCHANGED <<events, served>>
      BY <2>3 DEF RunGraph, GraphRaises, ResultFrame, RecordStreamed, RecordRecovered, RecordRaises
    <3>2. served \in DOMAIN stages
      BY <3>1, TurnMoves
    <3> QED
      BY <2>3, <3>2, TurnRefines DEF Promise!PromiseNext
  <2>4. CASE UNCHANGED <<events, served, turn, orders>>
    BY <2>4 DEF stages, Stage, Ended, sents
  <2>5. \/ \E s \in Sessions : Submit(s)
        \/ Skip \/ Respond
        \/ RunGraph \/ GraphRaises \/ ResultFrame \/ RecordStreamed \/ RecordRecovered \/ RecordRaises
        \/ UNCHANGED <<events, served, turn, orders>>
    BY DEF Next, Serve, Customer, Load, Type, Reset, RemoveLine, Progress, vars, agent
  <2> QED
    BY <2>1, <2>2, <2>3, <2>4, <2>5
<1>3. TypeOK /\ SentOnce /\ [Next]_vars => SentOnce'
  BY SentOnceKept
<1> QED
  BY <1>1, <1>2, <1>3, SessionTyped, PTL DEF Spec, ImplementsPromise, Promise!Spec
=============================================================================
