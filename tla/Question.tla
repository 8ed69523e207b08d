------------------------------ MODULE Question ------------------------------
(***************************************************************************)
(* The question path's tool-calling loop (src/src/app/graph/subgraphs/     *)
(* qa_agent.py), the tools it runs (tools.py), and what the chat shows of  *)
(* it while it runs (stream_run in agent.py, stream_turn in turn.py).      *)
(*                                                                         *)
(* The model decides what to call and when to answer.  Three tools only    *)
(* look something up; escalate_to_human opens a ticket.  LangGraph's       *)
(* ToolNode answers every call of a message, in their order, and a call it *)
(* cannot make sense of with an error for the model; what a tool raises    *)
(* ends the loop.  So does running out of the steps LangGraph allows.      *)
(*                                                                         *)
(* Texts are left out, but for whether a message has one.                  *)
(***************************************************************************)
EXTENDS Integers, Sequences, FiniteSets

CONSTANTS
  NULL,
  Lookups,         \* the read-only tools
  RecursionLimit,  \* the steps LangGraph allows the loop
  MaxCalls,        \* bound of the runs: tool calls of one message
  MaxTurns,        \* bound of the runs: turns recorded in the thread
  MaxAsked         \* bound of the runs: questions asked

VARIABLES
  history,   \* the roles of the thread's recorded messages
  next,      \* the node of the loop that runs next, "END", or "idle"
  messages,  \* the loop's own messages
  steps,     \* steps the loop has taken
  answer,    \* NULL, "blank" or "text"
  shown,     \* the messages whose texts the chat's bubble shows, by number
  tickets,   \* tickets opened
  before,    \* tickets opened before this question
  asked      \* questions asked

loop == <<next, messages, steps, answer, shown, before>>
vars == <<history, loop, tickets, asked>>

ASSUME QuestionAssumption ==
  /\ "escalate_to_human" \notin Lookups
  /\ NULL \notin {"text", "blank"}
  /\ RecursionLimit \in Nat \ {0} /\ MaxCalls \in Nat
  /\ MaxTurns \in Nat /\ MaxAsked \in Nat

Tools == Lookups \cup {"escalate_to_human"}

\* What the model may ask for at once.
ToolCalls == UNION {[1..n -> Tools] : n \in 0..MaxCalls}

\* Seeded messages are "human" or "ai", the model's own "chunk", since they stream.
\* A tool's message answers a call of the last chunk.
Message(role, text, calls, answers) ==
  [role |-> role, text |-> text, calls |-> calls, answers |-> answers]

Said(role) == Message(role, TRUE, <<>>, 0)
Reply(text, calls) == Message("chunk", text, calls, 0)
ToolMessage(n) == Message("tool", TRUE, <<>>, n)

\* Mutant of add_messages: without a reducer a channel keeps the last value written.
LastWritten(old, new) == new

add_messages(old, new) == old \o new

Last(s) == s[Len(s)]

Drop(s, n) == [i \in 1..(Len(s) - n) |-> s[i + n]]

Escalations(calls) == Cardinality({n \in DOMAIN calls : calls[n] = "escalate_to_human"})

-----------------------------------------------------------------------------
\* Mutant of Recent: an odd number of messages, so a turn is cut in two.
RecentFive == Drop(history, IF Len(history) > 5 THEN Len(history) - 5 ELSE 0)

\* history[-6:]
Recent == Drop(history, IF Len(history) > 6 THEN Len(history) - 6 ELSE 0)

\* A turn that is no question: it is recorded like any other (record_turn).
OtherTurn ==
  /\ next = "idle"
  /\ Len(history) < 2 * MaxTurns
  /\ history' = history \o <<"human", "ai">>
  /\ UNCHANGED <<loop, tickets, asked>>

\* The graph enters the node; its messages channel is empty (build_qa_agent compiles
\* the loop without a checkpointer), and the caller has cleared the answer.
Ask ==
  /\ next = "idle"
  /\ asked < MaxAsked
  /\ Len(history) < 2 * MaxTurns
  /\ asked' = asked + 1
  /\ next' = "seed"
  /\ messages' = <<>>
  /\ steps' = 0
  /\ answer' = NULL
  /\ shown' = {}
  /\ before' = tickets
  /\ UNCHANGED <<history, tickets>>

\* Mutant of Step: the loop is not held to a number of steps.
StepOn(node) ==
  /\ next = node
  /\ steps' = steps + 1

Step(node) ==
  /\ next = node
  /\ steps < RecursionLimit
  /\ steps' = steps + 1

\* Mutant of _token_text: what the assistant said in earlier turns streams again.
AnyAssistantText(message) == message.role \in {"chunk", "ai"} /\ message.text

\* Every message a node writes passes by on the "messages" stream; only the text the
\* model is writing is for the customer.
_token_text(message) == message.role = "chunk" /\ message.text

\* stream_turn adds each token to the answer so far.
Stream(new) ==
  shown' = shown \cup {Len(messages) + i : i \in {n \in DOMAIN new : _token_text(new[n])}}

seed ==
  /\ Step("seed")
  /\ next' = "assistant"
  /\ LET prior == [i \in DOMAIN Recent |-> Said(Recent[i])]
         new == Append(prior, Said("human"))
     IN  /\ messages' = add_messages(messages, new)
         /\ Stream(new)
  /\ UNCHANGED <<history, answer, tickets, before, asked>>

\* Mutant of Route: the tool calls of a message that has text too are overlooked.
RouteOnText(reply) == IF reply.text THEN "finalize" ELSE "tools"

\* tools_condition: to the tools as long as the model calls any.
Route(reply) == IF reply.calls # <<>> THEN "tools" ELSE "finalize"

assistant ==
  /\ Step("assistant")
  /\ \E text \in BOOLEAN, calls \in ToolCalls :
       LET reply == Reply(text, calls)
       IN  /\ messages' = add_messages(messages, <<reply>>)
           /\ Stream(<<reply>>)
           /\ next' = Route(reply)
  /\ UNCHANGED <<history, answer, tickets, before, asked>>

\* All calls of the message, each answered by a message of its own.
tools ==
  /\ Step("tools")
  /\ next' = "assistant"
  /\ LET calls == Last(messages).calls
         new == [n \in DOMAIN calls |-> ToolMessage(n)]
     IN  /\ messages' = add_messages(messages, new)
         /\ Stream(new)
         /\ tickets' = tickets + Escalations(calls)
  /\ UNCHANGED <<history, answer, before, asked>>

\* The last message is the answer.
finalize ==
  /\ Step("finalize")
  /\ next' = "END"
  /\ answer' = IF Last(messages).text THEN "text" ELSE "blank"
  /\ UNCHANGED <<history, messages, shown, tickets, before, asked>>

\* The turn ends: its reply replaces what was streamed - the answer or, when that is
\* blank, the cart's summary (_compose_reply) - and it is recorded.
Answered ==
  /\ next = "END"
  /\ next' = "idle"
  /\ shown' = IF answer = "text" THEN {Len(messages)} ELSE {}
  /\ history' = history \o <<"human", "ai">>
  /\ UNCHANGED <<messages, steps, answer, tickets, before, asked>>

\* Mutant of Abandon: the loop begins again.
BeginAgain ==
  /\ next' = "seed"
  /\ messages' = <<>>
  /\ steps' = 0
  /\ UNCHANGED <<history, answer, shown, before, asked>>

\* The exception ends the turn; what was streamed stays until something replaces it.
Abandon ==
  /\ next' = "idle"
  /\ UNCHANGED <<history, messages, steps, answer, shown, before, asked>>

\* The model's call raises, or a tool does; the tools of one message run side by
\* side, so some tickets may have been opened.
Raise ==
  /\ next \in {"assistant", "tools"}
  /\ steps < RecursionLimit
  /\ tickets' \in IF next = "tools"
                  THEN tickets..(tickets + Escalations(Last(messages).calls))
                  ELSE {tickets}
  /\ Abandon

OutOfSteps ==
  /\ next \notin {"idle", "END"}
  /\ steps = RecursionLimit
  /\ UNCHANGED tickets
  /\ Abandon

-----------------------------------------------------------------------------
Init ==
  /\ history = <<>>
  /\ next = "idle"
  /\ messages = <<>>
  /\ steps = 0
  /\ answer = NULL
  /\ shown = {}
  /\ tickets = 0
  /\ before = 0
  /\ asked = 0

Run == seed \/ assistant \/ tools \/ finalize \/ Answered \/ Raise \/ OutOfSteps

Next == OtherTurn \/ Ask \/ Run

Spec == Init /\ [][Next]_vars

\* Calls of the model and of the tools return or raise; nobody has to ask.
FairSpec == Spec /\ WF_vars(Run)

-----------------------------------------------------------------------------
Texts == [role: {"human", "ai", "chunk", "tool"}, text: BOOLEAN, calls: ToolCalls,
          answers: 0..MaxCalls]

\* Each variable keeps to the values its comment names.
TypeOK ==
  /\ history \in Seq({"human", "ai"}) /\ Len(history) <= 2 * MaxTurns
  /\ next \in {"idle", "seed", "assistant", "tools", "finalize", "END"}
  /\ messages \in Seq(Texts)
  /\ steps \in 0..RecursionLimit
  /\ answer \in {NULL, "blank", "text"}
  /\ shown \subseteq DOMAIN messages
  /\ tickets \in Nat /\ before \in 0..tickets
  /\ asked \in 0..MaxAsked

\* Customer and assistant by turns up to the k-th message, the customer first and last,
\* and then what the model and the tools wrote.
Prompt(said, k) ==
  /\ k % 2 = 1
  /\ \A i \in 1..k : said[i].role = (IF i % 2 = 1 THEN "human" ELSE "ai")
  /\ \A i \in (k + 1)..Len(said) : said[i].role \in {"chunk", "tool"}

\* The conversation the model is shown, when it is to answer, begins with the customer
\* and has customer and assistant by turns up to the question, however long the thread
\* is: no half of an earlier turn is cut off.
PromptIsConversation ==
  next = "assistant" => \E k \in DOMAIN messages : Prompt(messages, k)

\* When the model is asked again, each call of each of its messages has its one answer
\* there, right behind the message and in the order of the calls.
CallsAreAnswered ==
  next = "assistant" =>
    \A i \in DOMAIN messages :
      /\ messages[i].role = "chunk" =>
           \A n \in DOMAIN messages[i].calls :
             i + n \in DOMAIN messages /\ messages[i + n] = ToolMessage(n)
      /\ messages[i].role = "tool" =>
           \E n \in 1..(i - 1) : /\ messages[i - n].role = "chunk"
                                 /\ n \in DOMAIN messages[i - n].calls

\* The calls that asked for a ticket and have their answer, each by its message and
\* its place there.
AnsweredEscalations(said) ==
  {call \in (DOMAIN said) \X (1..MaxCalls) :
     LET i == call[1]
         n == call[2]
     IN  /\ said[i].role = "chunk"
         /\ n \in DOMAIN said[i].calls
         /\ said[i].calls[n] = "escalate_to_human"
         /\ i + n \in DOMAIN said}

\* Every ticket a question has opened is in a message the model sees before it speaks
\* to the customer again, so that it can pass the reference on.
TicketsAreKnown ==
  next \in {"assistant", "finalize", "END"} =>
    tickets - before = Cardinality(AnsweredEscalations(messages))

\* While the answer is written the chat shows what the model writes for this question,
\* all of it, and nothing else: no earlier answers, no tool results.
ShowsOwnWords ==
  next # "idle" =>
    shown = {i \in DOMAIN messages : messages[i].role = "chunk" /\ messages[i].text}

\* The answer is the last thing the model said, with no call left to run, and the
\* customer has seen it streamed when it has a text.
AnswerIsTheModels ==
  next = "END" =>
    /\ Last(messages).role = "chunk"
    /\ Last(messages).calls = <<>>
    /\ answer = "text" => Len(messages) \in shown

\* Seen from the graph the loop is one node that answers or raises, and the tickets
\* of a question are bounded by the steps (OrderGraph's MaxTickets).
Node == INSTANCE QuestionNode WITH
  pending <- next # "idle",
  answer  <- IF next = "END" THEN NULL ELSE answer,
  tickets <- IF next = "idle" THEN tickets ELSE before,
  MaxTickets <- MaxCalls * ((RecursionLimit - 1) \div 2)

ImplementsNode == Node!Spec

\* A question comes to an end even when the model never stops calling tools.
QuestionEnds == next # "idle" ~> next = "idle"
=============================================================================
