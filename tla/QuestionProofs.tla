--------------------------- MODULE QuestionProofs ---------------------------
(***************************************************************************)
(* The question path keeps what QuestionMC checks on a short loop, for any *)
(* number of steps LangGraph allows, of calls and of turns recorded.       *)
(***************************************************************************)
EXTENDS Question, SequenceTheorems, FiniteSetTheorems, TLAPS

(***************************************************************************)
(* Types.                                                                  *)
(***************************************************************************)

LEMMA CallsType ==
  ASSUME NEW calls \in ToolCalls
  PROVE  \E c \in 0..MaxCalls : DOMAIN calls = 1..c /\ Len(calls) = c /\ calls \in Seq(Tools)
<1>1. PICK c \in 0..MaxCalls : calls \in [1..c -> Tools]
  BY DEF ToolCalls
<1>2. c \in Nat
  BY <1>1, QuestionAssumption
<1> QED
  BY <1>1, <1>2

LEMMA NoCallsType == <<>> \in ToolCalls
<1>1. <<>> \in [1..0 -> Tools] /\ 0 \in 0..MaxCalls
  BY QuestionAssumption
<1> QED
  BY <1>1 DEF ToolCalls

\* The messages the loop writes.
LEMMA MessageType ==
  /\ \A role \in {"human", "ai"} : Said(role) \in Texts
  /\ \A text \in BOOLEAN, calls \in ToolCalls : Reply(text, calls) \in Texts
  /\ \A n \in 1..MaxCalls : ToolMessage(n) \in Texts
BY NoCallsType, QuestionAssumption DEF Said, Reply, ToolMessage, Message, Texts

\* The calls of a message that escalate.
Escalating(calls) == {n \in DOMAIN calls : calls[n] = "escalate_to_human"}

LEMMA EscalationsType ==
  ASSUME NEW calls \in ToolCalls
  PROVE  /\ IsFiniteSet(Escalating(calls)) /\ Escalating(calls) \subseteq 1..MaxCalls
         /\ Escalations(calls) = Cardinality(Escalating(calls))
         /\ Escalations(calls) \in 0..MaxCalls
<1>1. PICK c \in 0..MaxCalls : DOMAIN calls = 1..c
  BY CallsType
<1>2. Escalating(calls) \subseteq 1..MaxCalls
  BY <1>1, QuestionAssumption DEF Escalating
<1>3. IsFiniteSet(1..MaxCalls) /\ Cardinality(1..MaxCalls) = MaxCalls
  BY FS_Interval, QuestionAssumption
<1>4. /\ IsFiniteSet(Escalating(calls)) /\ Cardinality(Escalating(calls)) \in Nat
      /\ Cardinality(Escalating(calls)) <= MaxCalls
  BY <1>2, <1>3, FS_Subset, FS_CardinalityType
<1>5. Escalations(calls) = Cardinality(Escalating(calls))
  BY DEF Escalations, Escalating
<1> QED
  BY <1>2, <1>4, <1>5, QuestionAssumption

\* The seeded messages: those of the recent turns and the question.
Seeds == Append([i \in DOMAIN Recent |-> Said(Recent[i])], Said("human"))

\* The recent messages are the history from an even place on, when it is even.
LEMMA RecentIs ==
  ASSUME NEW S, history \in Seq(S)
  PROVE  \E cut \in 0..Len(history) :
           /\ Recent = [i \in 1..(Len(history) - cut) |-> history[i + cut]]
           /\ Len(history) % 2 = 0 => cut % 2 = 0
<1> DEFINE cut == IF Len(history) > 6 THEN Len(history) - 6 ELSE 0
<1>1. Len(history) \in Nat
  OBVIOUS
<1>2. 0 % 2 = 0 /\ \A n \in Nat : n > 6 /\ n % 2 = 0 => (n - 6) % 2 = 0
  OBVIOUS
<1>3. cut \in 0..Len(history)
  BY <1>1
<1>4. Len(history) % 2 = 0 => cut % 2 = 0
  <2>1. CASE Len(history) > 6
    BY <1>1, <1>2, <2>1
  <2>2. CASE ~ (Len(history) > 6)
    BY <1>2, <2>2
  <2> QED
    BY <2>1, <2>2
<1>5. Recent = [i \in 1..(Len(history) - cut) |-> history[i + cut]]
  BY DEF Recent, Drop
<1> QED
  BY <1>3, <1>4, <1>5

\* The seed is a prompt: customer and assistant by turns.
LEMMA SeedsType ==
  ASSUME history \in Seq({"human", "ai"})
  PROVE  /\ Seeds \in Seq(Texts) /\ Len(Seeds) \in Nat \ {0}
         /\ \A i \in DOMAIN Seeds : Seeds[i].role \in {"human", "ai"}
<1>1. PICK cut \in 0..Len(history) :
             Recent = [i \in 1..(Len(history) - cut) |-> history[i + cut]]
  BY RecentIs
<1> DEFINE m == Len(history) - cut
           prior == [i \in DOMAIN Recent |-> Said(Recent[i])]
<1>2. m \in Nat /\ DOMAIN Recent = 1..m /\ \A i \in 1..m : Recent[i] \in {"human", "ai"}
  BY <1>1
<1> HIDE DEF m
<1>3. prior \in Seq(Texts) /\ Len(prior) = m /\ Said("human") \in Texts
  BY <1>2, MessageType
<1>4. \A i \in 1..m : prior[i].role \in {"human", "ai"}
  BY <1>2 DEF Said, Message
<1>5. Said("human").role = "human"
  BY DEF Said, Message
<1> HIDE DEF prior
<1>6. Seeds = Append(prior, Said("human"))
  BY DEF Seeds, prior
<1> QED
  BY <1>2, <1>3, <1>4, <1>5, <1>6, AppendProperties

\* A tool message for each call.
Answers(calls) == [n \in DOMAIN calls |-> ToolMessage(n)]

LEMMA AnswersType ==
  ASSUME NEW calls \in ToolCalls
  PROVE  /\ Answers(calls) \in Seq(Texts) /\ Len(Answers(calls)) \in 0..MaxCalls
         /\ DOMAIN calls = 1..Len(Answers(calls))
         /\ \A n \in DOMAIN calls : Answers(calls)[n] = ToolMessage(n)
<1>1. PICK c \in 0..MaxCalls : DOMAIN calls = 1..c
  BY CallsType
<1>2. \A n \in 1..c : ToolMessage(n) \in Texts
  BY <1>1, MessageType, QuestionAssumption
<1>3. c \in Nat
  BY <1>1, QuestionAssumption
<1>4. Answers(calls) \in Seq(Texts) /\ Len(Answers(calls)) = c
  BY <1>1, <1>2, <1>3 DEF Answers
<1> QED
  BY <1>1, <1>4 DEF Answers

\* A node writes its messages behind those there, and what of them streams is shown.
LEMMA Written ==
  ASSUME messages \in Seq(Texts), shown \subseteq DOMAIN messages, NEW new \in Seq(Texts),
         messages' = add_messages(messages, new), Stream(new)
  PROVE  /\ messages' \in Seq(Texts) /\ Len(messages) \in Nat /\ Len(new) \in Nat
         /\ Len(messages') = Len(messages) + Len(new)
         /\ DOMAIN messages = 1..Len(messages) /\ DOMAIN new = 1..Len(new)
         /\ DOMAIN messages' = 1..(Len(messages) + Len(new))
         /\ \A i \in 1..Len(messages) : messages'[i] = messages[i]
         /\ \A i \in 1..Len(new) : messages'[Len(messages) + i] = new[i]
         /\ shown' = shown \cup {i \in (Len(messages) + 1)..Len(messages') : _token_text(messages'[i])}
<1> DEFINE n == Len(messages)
           all == messages \o new
<1>1. messages' = all
  BY DEF add_messages
<1>2. /\ all \in Seq(Texts) /\ n \in Nat /\ Len(new) \in Nat /\ Len(all) = n + Len(new)
      /\ DOMAIN messages = 1..n /\ DOMAIN new = 1..Len(new) /\ DOMAIN all = 1..(n + Len(new))
      /\ \A i \in 1..n : all[i] = messages[i]
      /\ \A i \in 1..Len(new) : all[n + i] = new[i]
  OBVIOUS
<1>3. shown' = shown \cup {n + i : i \in {k \in DOMAIN new : _token_text(new[k])}}
  BY DEF Stream
<1> HIDE DEF n, all
<1>4. {n + i : i \in {k \in DOMAIN new : _token_text(new[k])}} =
        {i \in (n + 1)..(n + Len(new)) : _token_text(all[i])}
  <2>1. ASSUME NEW i \in (n + 1)..(n + Len(new)) PROVE i - n \in 1..Len(new) /\ all[i] = new[i - n]
    <3>1. i - n \in 1..Len(new) /\ n + (i - n) = i
      BY <1>2
    <3> QED
      BY <1>2, <3>1
  <2>2. ASSUME NEW k \in 1..Len(new) PROVE n + k \in (n + 1)..(n + Len(new)) /\ all[n + k] = new[k]
    BY <1>2
  <2>3. ASSUME NEW k \in DOMAIN new, _token_text(new[k])
        PROVE  n + k \in {i \in (n + 1)..(n + Len(new)) : _token_text(all[i])}
    BY <1>2, <2>2, <2>3 DEF _token_text
  <2>4. ASSUME NEW i \in (n + 1)..(n + Len(new)), _token_text(all[i])
        PROVE  i \in {n + k : k \in {m \in DOMAIN new : _token_text(new[m])}}
    <3>1. i - n \in DOMAIN new /\ _token_text(new[i - n]) /\ i = n + (i - n)
      BY <1>2, <2>1, <2>4 DEF _token_text
    <3> QED
      BY <3>1
  <2> QED
    BY <2>3, <2>4
<1> QED
  BY <1>1, <1>2, <1>3, <1>4 DEF n

-----------------------------------------------------------------------------
(***************************************************************************)
(* The inductive invariant.                                                *)
(***************************************************************************)

\* The history is turns, a customer's message and the assistant's in each, and has room
\* for the one that runs.
Paired ==
  /\ Len(history) % 2 = 0
  /\ \A i \in DOMAIN history : history[i] = (IF i % 2 = 1 THEN "human" ELSE "ai")
  /\ next # "idle" => Len(history) < 2 * MaxTurns

\* What each node of the loop finds: seed an empty loop; the later ones a message of the
\* model's, with calls for the tools and none for the others; and all but the end no
\* answer yet.
Found ==
  /\ next = "seed" => messages = <<>> /\ shown = {} /\ tickets = before
  /\ next \in {"tools", "finalize", "END"} =>
       messages # <<>> /\ Last(messages).role = "chunk"
  /\ next \in {"finalize", "END"} => Last(messages).calls = <<>>
  /\ next \notin {"idle", "END"} => answer = NULL
  /\ next = "END" => answer = IF Last(messages).text THEN "text" ELSE "blank"

LEMMA LastType ==
  ASSUME TypeOK, Found, next \in {"tools", "finalize", "END"}
  PROVE  /\ Len(messages) \in Nat \ {0} /\ Last(messages) = messages[Len(messages)]
         /\ Last(messages) \in Texts /\ Last(messages).calls \in ToolCalls
         /\ Last(messages).text \in BOOLEAN
<1>1. Len(messages) \in Nat \ {0} /\ messages[Len(messages)] \in Texts
  BY DEF TypeOK, Found
<1> QED
  BY <1>1 DEF Last, Texts

\* What the nodes that write add to the messages.
LEMMA SeedWrites ==
  ASSUME TypeOK, Found, seed
  PROVE  /\ messages' = add_messages(messages, Seeds) /\ Stream(Seeds) /\ Seeds \in Seq(Texts)
         /\ messages' = Seeds /\ shown' = {} /\ Len(Seeds) \in Nat \ {0}
<1>1. /\ messages' = add_messages(messages, Seeds) /\ Stream(Seeds)
      /\ messages = <<>> /\ shown = {}
  BY DEF seed, Step, Found, Seeds
<1>2. /\ Seeds \in Seq(Texts) /\ Len(Seeds) \in Nat \ {0}
      /\ \A i \in DOMAIN Seeds : Seeds[i].role \in {"human", "ai"}
  BY SeedsType DEF TypeOK
<1>3. messages' = Seeds
  BY <1>1, <1>2 DEF add_messages
<1>4. shown' = {}
  BY <1>1, <1>2 DEF Stream, _token_text
<1> QED
  BY <1>1, <1>2, <1>3, <1>4

LEMMA AssistantWrites ==
  ASSUME TypeOK, assistant
  PROVE  \E text \in BOOLEAN, calls \in ToolCalls :
           /\ messages' = add_messages(messages, <<Reply(text, calls)>>)
           /\ Stream(<<Reply(text, calls)>>)
           /\ <<Reply(text, calls)>> \in Seq(Texts) /\ Len(<<Reply(text, calls)>>) = 1
           /\ messages' \in Seq(Texts) /\ Last(messages') = Reply(text, calls)
           /\ Len(messages') = Len(messages) + 1 /\ messages' # <<>>
           /\ next' = IF calls # <<>> THEN "tools" ELSE "finalize"
<1>1. PICK text \in BOOLEAN, calls \in ToolCalls :
             /\ messages' = add_messages(messages, <<Reply(text, calls)>>)
             /\ Stream(<<Reply(text, calls)>>)
             /\ next' = Route(Reply(text, calls))
  BY DEF assistant
<1> DEFINE reply == Reply(text, calls)
<1>2. reply \in Texts /\ reply.calls = calls
  BY MessageType DEF Reply, Message
<1> HIDE DEF reply
<1>3. <<reply>> \in Seq(Texts) /\ Len(<<reply>>) = 1 /\ <<reply>>[1] = reply
  BY <1>2
<1>4. /\ messages' \in Seq(Texts) /\ Len(messages) \in Nat /\ Len(messages') = Len(messages) + 1
      /\ messages'[Len(messages) + 1] = reply
  <2> DEFINE new == <<reply>>
  <2>1. messages' = add_messages(messages, new) /\ Stream(new)
    BY <1>1 DEF reply
  <2>2. new \in Seq(Texts) /\ Len(new) = 1 /\ new[1] = reply
    BY <1>3
  <2> HIDE DEF new
  <2>3. messages \in Seq(Texts) /\ shown \subseteq DOMAIN messages
    BY DEF TypeOK
  <2>4. /\ messages' \in Seq(Texts) /\ Len(messages) \in Nat /\ Len(messages') = Len(messages) + 1
        /\ \A i \in 1..1 : messages'[Len(messages) + i] = new[i]
    BY <2>1, <2>2, <2>3, Written
  <2> QED
    BY <2>2, <2>4
<1>5. next' = IF calls # <<>> THEN "tools" ELSE "finalize"
  BY <1>1, <1>2 DEF Route, reply
<1> QED
  BY <1>1, <1>3, <1>4, <1>5 DEF Last, reply

LEMMA ToolsWrite ==
  ASSUME TypeOK, Found, tools
  PROVE  LET calls == Last(messages).calls
         IN  /\ messages' = add_messages(messages, Answers(calls)) /\ Stream(Answers(calls))
             /\ calls \in ToolCalls /\ Answers(calls) \in Seq(Texts)
             /\ tickets' = tickets + Escalations(calls)
<1>1. next = "tools"
  BY DEF tools, Step
<1> QED
  BY <1>1, LastType, AnswersType DEF tools, Answers

-----------------------------------------------------------------------------
LEMMA TurnAdded ==
  ASSUME TypeOK, Paired, Len(history) < 2 * MaxTurns, history' = history \o <<"human", "ai">>
  PROVE  /\ history' \in Seq({"human", "ai"}) /\ Len(history') <= 2 * MaxTurns
         /\ Len(history') % 2 = 0
         /\ \A i \in DOMAIN history' : history'[i] = (IF i % 2 = 1 THEN "human" ELSE "ai")
<1> DEFINE n == Len(history)
           new == <<"human", "ai">>
<1>1. /\ n \in Nat /\ history \in Seq({"human", "ai"}) /\ DOMAIN history = 1..n
      /\ n % 2 = 0 /\ n < 2 * MaxTurns /\ MaxTurns \in Nat
  BY QuestionAssumption DEF TypeOK, Paired
<1>2. new \in Seq({"human", "ai"}) /\ Len(new) = 2 /\ new[1] = "human" /\ new[2] = "ai"
  OBVIOUS
<1>3. history' = history \o new
  OBVIOUS
<1> HIDE DEF n, new
<1>4. /\ history' \in Seq({"human", "ai"}) /\ Len(history') = n + 2 /\ DOMAIN history' = 1..(n + 2)
      /\ \A i \in 1..n : history'[i] = history[i]
      /\ history'[n + 1] = "human" /\ history'[n + 2] = "ai"
  BY <1>1, <1>2, <1>3 DEF n
<1>5. \A m \in Nat : m % 2 = 0 => (m + 1) % 2 = 1 /\ (m + 2) % 2 = 0
  OBVIOUS
<1>6. (n + 1) % 2 = 1 /\ (n + 2) % 2 = 0 /\ n + 2 <= 2 * MaxTurns
  BY <1>1, <1>5
<1>7. ASSUME NEW i \in 1..(n + 2) PROVE history'[i] = (IF i % 2 = 1 THEN "human" ELSE "ai")
  <2>1. i \in 1..n \/ i = n + 1 \/ i = n + 2
    BY <1>1
  <2>2. CASE i \in 1..n
    BY <1>1, <1>4, <2>2 DEF Paired
  <2>3. CASE i = n + 1
    BY <1>4, <1>6, <2>3
  <2>4. CASE i = n + 2
    BY <1>4, <1>6, <2>4
  <2> QED
    BY <2>1, <2>2, <2>3, <2>4
<1> QED
  BY <1>4, <1>6, <1>7

Inv == TypeOK /\ Found /\ Paired

LEMMA InitInv == Init => Inv
<1> SUFFICES ASSUME Init PROVE Inv
  OBVIOUS
<1>1. <<>> \in Seq({"human", "ai"}) /\ <<>> \in Seq(Texts) /\ Len(<<>>) = 0 /\ DOMAIN <<>> = {}
  OBVIOUS
<1>2. 0 % 2 = 0 /\ 0 <= 2 * MaxTurns
  BY QuestionAssumption
<1> QED
  BY <1>1, <1>2, QuestionAssumption DEF Init, Inv, TypeOK, Found, Paired

\* A node that takes its step.
LEMMA StepType ==
  ASSUME TypeOK, NEW node, Step(node)
  PROVE  next = node /\ steps' \in 1..RecursionLimit
BY QuestionAssumption DEF Step, TypeOK

LEMMA OtherTurnInv == Inv /\ OtherTurn => Inv'
<1> SUFFICES ASSUME Inv, OtherTurn PROVE Inv'
  OBVIOUS
<1>1. TypeOK /\ Found /\ Paired
  BY DEF Inv
<1>2. TypeOK' /\ Paired'
  BY <1>1, TurnAdded DEF OtherTurn, loop, TypeOK, Paired
<1> QED
  BY <1>1, <1>2 DEF Inv, OtherTurn, loop, Found

LEMMA AskInv == Inv /\ Ask => Inv'
<1> SUFFICES ASSUME Inv, Ask PROVE Inv'
  OBVIOUS
<1>1. TypeOK /\ Found /\ Paired
  BY DEF Inv
<1>2. <<>> \in Seq(Texts) /\ DOMAIN <<>> = {} /\ {} \subseteq {}
  OBVIOUS
<1>3. TypeOK'
  BY <1>1, <1>2, QuestionAssumption DEF Ask, TypeOK
<1> QED
  BY <1>1, <1>3 DEF Inv, Ask, Found, Paired

LEMMA SeedInv == Inv /\ seed => Inv'
<1> SUFFICES ASSUME Inv, seed PROVE Inv'
  OBVIOUS
<1>1. TypeOK /\ Found /\ Paired
  BY DEF Inv
<1>2. messages' \in Seq(Texts) /\ shown' \subseteq DOMAIN messages'
  BY <1>1, SeedWrites
<1>3. next = "seed" /\ steps' \in 0..RecursionLimit /\ next' = "assistant"
  BY <1>1, StepType DEF seed
<1>4. TypeOK'
  BY <1>1, <1>2, <1>3 DEF seed, TypeOK
<1> QED
  BY <1>1, <1>3, <1>4 DEF Inv, seed, Found, Paired

LEMMA AssistantInv == Inv /\ assistant => Inv'
<1> SUFFICES ASSUME Inv, assistant PROVE Inv'
  OBVIOUS
<1>1. TypeOK /\ Found /\ Paired
  BY DEF Inv
<1>2. PICK text \in BOOLEAN, calls \in ToolCalls :
             /\ messages' = add_messages(messages, <<Reply(text, calls)>>)
             /\ Stream(<<Reply(text, calls)>>)
             /\ <<Reply(text, calls)>> \in Seq(Texts)
             /\ messages' \in Seq(Texts) /\ Last(messages') = Reply(text, calls)
             /\ messages' # <<>>
             /\ next' = IF calls # <<>> THEN "tools" ELSE "finalize"
  BY <1>1, AssistantWrites
<1>3. shown' \subseteq DOMAIN messages'
  <2>1. messages \in Seq(Texts) /\ shown \subseteq DOMAIN messages
    BY <1>1 DEF TypeOK
  <2> DEFINE new == <<Reply(text, calls)>>
  <2>2. messages' = add_messages(messages, new) /\ Stream(new) /\ new \in Seq(Texts)
    BY <1>2
  <2> HIDE DEF new
  <2> QED
    BY <2>1, <2>2, Written
<1>4. next = "assistant" /\ steps' \in 0..RecursionLimit
  BY <1>1, StepType DEF assistant
<1>5. TypeOK'
  BY <1>1, <1>2, <1>3, <1>4 DEF assistant, TypeOK
<1>6. Last(messages)' = Reply(text, calls) /\ Reply(text, calls).role = "chunk"
      /\ Reply(text, calls).calls = calls
  BY <1>2 DEF Reply, Message, Last
<1> QED
  BY <1>1, <1>2, <1>4, <1>5, <1>6 DEF Inv, assistant, Found, Paired

LEMMA ToolsInv == Inv /\ tools => Inv'
<1> SUFFICES ASSUME Inv, tools PROVE Inv'
  OBVIOUS
<1>1. TypeOK /\ Found /\ Paired
  BY DEF Inv
<1>2. next = "tools" /\ steps' \in 0..RecursionLimit /\ next' = "assistant"
  BY <1>1, StepType DEF tools
<1> DEFINE calls == Last(messages).calls
           new == Answers(calls)
<1>3. /\ messages' = add_messages(messages, new) /\ Stream(new) /\ new \in Seq(Texts)
      /\ calls \in ToolCalls /\ tickets' = tickets + Escalations(calls)
  BY <1>1, ToolsWrite
<1>4. messages \in Seq(Texts) /\ shown \subseteq DOMAIN messages /\ tickets \in Nat /\ before \in 0..tickets
  BY <1>1 DEF TypeOK
<1> HIDE DEF calls, new
<1>5. messages' \in Seq(Texts) /\ shown' \subseteq DOMAIN messages'
  BY <1>3, <1>4, Written
<1>6. tickets' \in Nat /\ before \in 0..tickets'
  BY <1>3, <1>4, EscalationsType, QuestionAssumption
<1>7. TypeOK'
  BY <1>1, <1>2, <1>5, <1>6 DEF tools, TypeOK
<1> QED
  BY <1>1, <1>2, <1>7 DEF Inv, tools, Found, Paired

LEMMA FinalizeInv == Inv /\ finalize => Inv'
<1> SUFFICES ASSUME Inv, finalize PROVE Inv'
  OBVIOUS
<1>1. TypeOK /\ Found /\ Paired
  BY DEF Inv
<1>2. next = "finalize" /\ steps' \in 0..RecursionLimit /\ next' = "END"
  BY <1>1, StepType DEF finalize
<1>3. TypeOK'
  BY <1>1, <1>2 DEF finalize, TypeOK
<1> QED
  BY <1>1, <1>2, <1>3 DEF Inv, finalize, Found, Paired, Last

LEMMA AnsweredInv == Inv /\ Answered => Inv'
<1> SUFFICES ASSUME Inv, Answered PROVE Inv'
  OBVIOUS
<1>1. TypeOK /\ Found /\ Paired
  BY DEF Inv
<1>2. next = "END" /\ next' = "idle"
  BY DEF Answered
<1>3. /\ history' \in Seq({"human", "ai"}) /\ Len(history') <= 2 * MaxTurns
      /\ Len(history') % 2 = 0
      /\ \A i \in DOMAIN history' : history'[i] = (IF i % 2 = 1 THEN "human" ELSE "ai")
  BY <1>1, <1>2, TurnAdded DEF Answered, Paired
<1>4. Len(messages) \in DOMAIN messages
  BY <1>1, <1>2, LastType DEF TypeOK
<1>5. TypeOK'
  BY <1>1, <1>2, <1>3, <1>4 DEF Answered, TypeOK
<1> QED
  BY <1>2, <1>3, <1>5 DEF Inv, Answered, Found, Paired

LEMMA AbandonInv == Inv /\ (Raise \/ OutOfSteps) => Inv'
<1> SUFFICES ASSUME Inv, Raise \/ OutOfSteps PROVE Inv'
  OBVIOUS
<1>1. TypeOK /\ Found /\ Paired
  BY DEF Inv
<1>2. next' = "idle" /\ UNCHANGED <<history, messages, steps, answer, shown, before, asked>>
  BY DEF Raise, OutOfSteps, Abandon
<1>3. tickets' \in Nat /\ tickets' >= tickets
  <2>1. CASE Raise /\ next = "tools"
    <3>1. Escalations(Last(messages).calls) \in Nat /\ tickets \in Nat
      BY <1>1, <2>1, LastType, EscalationsType, QuestionAssumption DEF TypeOK
    <3> QED
      BY <2>1, <3>1 DEF Raise
  <2>2. CASE tickets' = tickets
    BY <1>1, <2>2 DEF TypeOK
  <2> QED
    BY <2>1, <2>2 DEF Raise, OutOfSteps
<1>4. TypeOK'
  BY <1>1, <1>2, <1>3 DEF TypeOK
<1> QED
  BY <1>1, <1>2, <1>4 DEF Inv, Found, Paired

LEMMA NextInv == Inv /\ [Next]_vars => Inv'
<1>1. Inv /\ UNCHANGED vars => Inv'
  BY DEF Inv, vars, loop, TypeOK, Found, Paired, Last
<1> QED
  BY <1>1, OtherTurnInv, AskInv, SeedInv, AssistantInv, ToolsInv, FinalizeInv, AnsweredInv,
     AbandonInv DEF Next, Run

LEMMA InvHolds == Spec => []Inv
BY InitInv, NextInv, PTL DEF Spec

(***************************************************************************)
(* Every variable keeps to its values, whatever the model calls and        *)
(* however the loop ends.                                                  *)
(***************************************************************************)
THEOREM QuestionTyped == Spec => []TypeOK
<1>1. Inv => TypeOK
  BY DEF Inv
<1> QED
  BY <1>1, InvHolds, PTL

-----------------------------------------------------------------------------
(***************************************************************************)
(* The prompt and the answers to the calls.                                *)
(***************************************************************************)

LEMMA Parity ==
  /\ 0 % 2 = 0
  /\ \A i, c \in Nat : c % 2 = 0 => (i + c) % 2 = i % 2
  /\ \A n \in Nat : \A c \in 0..n : n % 2 = 0 /\ c % 2 = 0 => (n - c) % 2 = 0 /\ (n - c + 1) % 2 = 1
OBVIOUS

\* What seed writes is a prompt.
LEMMA SeedsPrompt ==
  ASSUME TypeOK, Paired
  PROVE  Len(Seeds) \in DOMAIN Seeds /\ Prompt(Seeds, Len(Seeds))
<1>1. Len(history) \in Nat /\ DOMAIN history = 1..Len(history) /\ Len(history) % 2 = 0
  BY DEF TypeOK, Paired
<1>2. PICK cut \in 0..Len(history) :
             /\ Recent = [i \in 1..(Len(history) - cut) |-> history[i + cut]]
             /\ cut % 2 = 0
  BY <1>1, RecentIs DEF TypeOK
<1> DEFINE m == Len(history) - cut
           prior == [i \in DOMAIN Recent |-> Said(Recent[i])]
<1>3. m \in Nat /\ (m + 1) % 2 = 1 /\ DOMAIN Recent = 1..m
  <2>1. m \in Nat /\ DOMAIN Recent = 1..m
    BY <1>1, <1>2
  <2>2. (Len(history) - cut + 1) % 2 = 1
    <3> DEFINE n == Len(history)
    <3>1. n \in Nat /\ cut \in 0..n /\ n % 2 = 0
      BY <1>1
    <3> HIDE DEF n
    <3>2. (n - cut + 1) % 2 = 1
      BY <1>2, <3>1, Parity
    <3> QED
      BY <3>2 DEF n
  <2> QED
    BY <2>1, <2>2
<1>4. ASSUME NEW i \in 1..m
      PROVE  Recent[i] = (IF i % 2 = 1 THEN "human" ELSE "ai")
  <2>1. i \in Nat /\ cut \in Nat /\ i + cut \in DOMAIN history
    BY <1>1, <1>2
  <2>2. (i + cut) % 2 = i % 2
    BY <1>2, <2>1, Parity
  <2>3. history[i + cut] = (IF (i + cut) % 2 = 1 THEN "human" ELSE "ai")
    BY <2>1 DEF Paired
  <2> QED
    BY <1>2, <2>2, <2>3
<1> HIDE DEF m
<1>5. ASSUME NEW i \in 1..m PROVE prior[i] = Said(IF i % 2 = 1 THEN "human" ELSE "ai")
  BY <1>3, <1>4
<1>6. \A role : Said(role).role = role
  BY DEF Said, Message
<1>7. prior \in Seq(Texts) /\ Len(prior) = m /\ Said("human") \in Texts
  <2>1. \A i \in 1..m : Recent[i] \in {"human", "ai"}
    BY <1>4
  <2>2. \A i \in 1..m : prior[i] \in Texts
    BY <1>3, <2>1, MessageType
  <2> QED
    BY <1>3, <2>2, MessageType
<1> HIDE DEF prior
<1>8. Seeds = Append(prior, Said("human"))
  BY DEF Seeds, prior
<1>9. /\ Seeds \in Seq(Texts) /\ Len(Seeds) = m + 1
      /\ \A i \in 1..m : Seeds[i] = prior[i]
      /\ Seeds[m + 1] = Said("human")
  BY <1>7, <1>8, AppendProperties
<1>10. \A i \in 1..(m + 1) : Seeds[i].role = (IF i % 2 = 1 THEN "human" ELSE "ai")
  BY <1>3, <1>5, <1>6, <1>9
<1> QED
  BY <1>3, <1>9, <1>10 DEF Prompt

\* Messages are written behind those there; once the loop runs, the model's and the
\* tools' alone.
Behind(said, longer) ==
  /\ DOMAIN said = 1..Len(said) /\ DOMAIN longer = 1..Len(longer)
  /\ Len(said) \in Nat /\ Len(longer) \in Nat /\ Len(said) <= Len(longer)
  /\ \A i \in 1..Len(said) : longer[i] = said[i]
  /\ \A i \in (Len(said) + 1)..Len(longer) : longer[i].role \in {"chunk", "tool"}

LEMMA AssistantBehind ==
  ASSUME TypeOK, assistant
  PROVE  /\ Behind(messages, messages') /\ Len(messages') = Len(messages) + 1
         /\ \E text \in BOOLEAN, calls \in ToolCalls :
              /\ messages'[Len(messages) + 1] = Reply(text, calls)
              /\ shown' = shown \cup {i \in {Len(messages) + 1} : text}
              /\ next' = IF calls # <<>> THEN "tools" ELSE "finalize"
<1>1. PICK text \in BOOLEAN, calls \in ToolCalls :
             /\ messages' = add_messages(messages, <<Reply(text, calls)>>)
             /\ Stream(<<Reply(text, calls)>>)
             /\ <<Reply(text, calls)>> \in Seq(Texts) /\ Len(<<Reply(text, calls)>>) = 1
             /\ next' = IF calls # <<>> THEN "tools" ELSE "finalize"
  BY AssistantWrites
<1> DEFINE reply == Reply(text, calls)
           new == <<reply>>
<1>2. new \in Seq(Texts) /\ messages' = add_messages(messages, new) /\ Stream(new) /\ Len(new) = 1
      /\ new[1] = reply /\ messages \in Seq(Texts) /\ shown \subseteq DOMAIN messages
  BY <1>1 DEF TypeOK
<1>3. reply.role = "chunk" /\ reply.text = text
  BY DEF Reply, Message
<1> HIDE DEF new, reply
<1>4. /\ Len(messages) \in Nat /\ Len(messages') = Len(messages) + 1
      /\ DOMAIN messages = 1..Len(messages) /\ DOMAIN messages' = 1..(Len(messages) + 1)
      /\ \A i \in 1..Len(messages) : messages'[i] = messages[i]
      /\ \A i \in 1..1 : messages'[Len(messages) + i] = new[i]
      /\ shown' = shown \cup {i \in (Len(messages) + 1)..Len(messages') : _token_text(messages'[i])}
  BY <1>2, Written
<1>5. messages'[Len(messages) + 1] = reply
  BY <1>2, <1>4
<1>6. \A i \in (Len(messages) + 1)..Len(messages') : i = Len(messages) + 1
  BY <1>4
<1>7. Behind(messages, messages')
  BY <1>3, <1>4, <1>5, <1>6 DEF Behind
<1>8. _token_text(messages'[Len(messages) + 1]) = text
  BY <1>3, <1>5 DEF _token_text
<1>9. {i \in (Len(messages) + 1)..Len(messages') : _token_text(messages'[i])} =
        {i \in {Len(messages) + 1} : text}
  BY <1>4, <1>6, <1>8
<1> QED
  BY <1>1, <1>4, <1>5, <1>7, <1>9 DEF reply

LEMMA ToolsBehind ==
  ASSUME TypeOK, Found, tools
  PROVE  LET calls == Last(messages).calls
         IN  /\ Behind(messages, messages') /\ calls \in ToolCalls
             /\ \A i \in (Len(messages) + 1)..Len(messages') : messages'[i].role = "tool"
             /\ Len(messages) \in Nat \ {0} /\ Last(messages) = messages[Len(messages)]
             /\ DOMAIN calls = 1..(Len(messages') - Len(messages))
             /\ \A n \in DOMAIN calls : messages'[Len(messages) + n] = ToolMessage(n)
             /\ shown' = shown /\ tickets' = tickets + Escalations(calls)
<1> DEFINE calls == Last(messages).calls
           new == Answers(calls)
<1>1. /\ messages' = add_messages(messages, new) /\ Stream(new) /\ new \in Seq(Texts)
      /\ calls \in ToolCalls /\ tickets' = tickets + Escalations(calls)
      /\ messages \in Seq(Texts) /\ shown \subseteq DOMAIN messages
  BY ToolsWrite DEF TypeOK
<1>2. Len(messages) \in Nat \ {0} /\ Last(messages) = messages[Len(messages)]
  BY LastType DEF tools, Step
<1> HIDE DEF calls
<1>3. DOMAIN calls = 1..Len(new) /\ \A n \in DOMAIN calls : new[n] = ToolMessage(n)
  BY <1>1, AnswersType
<1> HIDE DEF new
<1>4. /\ Len(new) \in Nat /\ Len(messages') = Len(messages) + Len(new)
      /\ DOMAIN messages = 1..Len(messages) /\ DOMAIN messages' = 1..(Len(messages) + Len(new))
      /\ \A i \in 1..Len(messages) : messages'[i] = messages[i]
      /\ \A i \in 1..Len(new) : messages'[Len(messages) + i] = new[i]
      /\ shown' = shown \cup {i \in (Len(messages) + 1)..Len(messages') : _token_text(messages'[i])}
  BY <1>1, Written
<1>5. \A n \in DOMAIN calls : messages'[Len(messages) + n] = ToolMessage(n)
  BY <1>3, <1>4
<1>6. \A n : ToolMessage(n).role = "tool"
  BY DEF ToolMessage, Message
<1>7. ASSUME NEW i \in (Len(messages) + 1)..Len(messages') PROVE messages'[i].role = "tool"
  <2>1. i - Len(messages) \in 1..Len(new) /\ Len(messages) + (i - Len(messages)) = i
    BY <1>2, <1>4
  <2> QED
    BY <1>3, <1>5, <1>6, <2>1
<1>8. shown' = shown
  BY <1>4, <1>7 DEF _token_text
<1>9. Behind(messages, messages')
  BY <1>2, <1>4, <1>7 DEF Behind
<1>10. DOMAIN calls = 1..(Len(messages') - Len(messages))
  BY <1>2, <1>3, <1>4
<1> QED
  BY <1>1, <1>2, <1>5, <1>7, <1>8, <1>9, <1>10 DEF calls

\* The prompt stays at the head of what the loop writes.
Prompted ==
  next \in {"assistant", "tools", "finalize", "END"} =>
    \E k \in DOMAIN messages : Prompt(messages, k)

LEMMA PromptKept ==
  ASSUME NEW said, NEW longer, Behind(said, longer), NEW k \in DOMAIN said, Prompt(said, k)
  PROVE  k \in DOMAIN longer /\ Prompt(longer, k)
<1>1. \A i \in (k + 1)..Len(longer) : i \in (k + 1)..Len(said) \/ i \in (Len(said) + 1)..Len(longer)
  BY DEF Behind
<1> QED
  BY <1>1 DEF Behind, Prompt

LEMMA PromptedKept == Inv /\ Prompted /\ [Next]_vars => Prompted'
<1> SUFFICES ASSUME Inv, Prompted, [Next]_vars PROVE Prompted'
  OBVIOUS
<1>1. TypeOK /\ Found /\ Paired
  BY DEF Inv
<1>2. CASE seed
  <2>1. messages' = Seeds
    BY <1>1, <1>2, SeedWrites
  <2> QED
    BY <1>1, <2>1, SeedsPrompt DEF Prompted
<1>3. CASE assistant \/ tools
  <2>1. Behind(messages, messages')
    BY <1>1, <1>3, AssistantBehind, ToolsBehind
  <2>2. next \in {"assistant", "tools"}
    BY <1>3 DEF assistant, tools, Step
  <2>3. PICK k \in DOMAIN messages : Prompt(messages, k)
    BY <2>2 DEF Prompted
  <2>4. k \in DOMAIN messages' /\ Prompt(messages', k)
    BY <2>1, <2>3, PromptKept
  <2> QED
    BY <2>4 DEF Prompted
<1>4. CASE UNCHANGED messages /\ (next' = "idle" \/ (next = "finalize" /\ next' = "END") \/ UNCHANGED next)
  BY <1>4 DEF Prompted
<1>5. CASE next' = "seed"
  BY <1>5 DEF Prompted
<1> QED
  BY <1>2, <1>3, <1>4, <1>5 DEF Next, Run, OtherTurn, Ask, finalize, Step, Answered, Raise, OutOfSteps,
     Abandon, vars, loop

(***************************************************************************)
(* However long the thread, the model is shown whole turns and then the    *)
(* question.                                                               *)
(***************************************************************************)
THEOREM PromptsAreConversations == Spec => []PromptIsConversation
<1>1. Init => Prompted
  BY DEF Init, Prompted
<1>2. Prompted => PromptIsConversation
  BY DEF Prompted, PromptIsConversation
<1> QED
  BY <1>1, <1>2, InvHolds, PromptedKept, PTL DEF Spec

\* The calls of a message are answered right behind it, and an answer is one to a call.
HasAnswers(said, i) ==
  /\ said[i].role = "chunk" =>
       \A n \in DOMAIN said[i].calls : i + n \in DOMAIN said /\ said[i + n] = ToolMessage(n)
  /\ said[i].role = "tool" =>
       \E n \in 1..(i - 1) : said[i - n].role = "chunk" /\ n \in DOMAIN said[i - n].calls

\* Only the calls of a message the tools are about to run wait.
CallsWait ==
  /\ next = "assistant" => \A i \in DOMAIN messages : HasAnswers(messages, i)
  /\ next = "tools" => \A i \in DOMAIN messages : i < Len(messages) => HasAnswers(messages, i)

LEMMA AnsweredStays ==
  ASSUME NEW said, NEW longer, Behind(said, longer), NEW i \in DOMAIN said, HasAnswers(said, i)
  PROVE  HasAnswers(longer, i)
<1>1. longer[i] = said[i] /\ \A n \in 1..(i - 1) : longer[i - n] = said[i - n]
  <2>1. \A n \in 1..(i - 1) : i - n \in 1..Len(said)
    BY DEF Behind
  <2> QED
    BY <2>1 DEF Behind
<1>2. \A j \in DOMAIN said : j \in DOMAIN longer /\ longer[j] = said[j]
  BY DEF Behind
<1> QED
  BY <1>1, <1>2 DEF HasAnswers

LEMMA CallsWaitKept == Inv /\ CallsWait /\ [Next]_vars => CallsWait'
<1> SUFFICES ASSUME Inv, CallsWait, [Next]_vars PROVE CallsWait'
  OBVIOUS
<1>1. TypeOK /\ Found /\ Paired
  BY DEF Inv
<1>2. CASE seed
  <2>1. messages' = Seeds /\ next' = "assistant"
    BY <1>1, <1>2, SeedWrites DEF seed
  <2>2. \A i \in DOMAIN Seeds : Seeds[i].role \in {"human", "ai"}
    BY <1>1, SeedsType DEF TypeOK
  <2> QED
    BY <2>1, <2>2 DEF CallsWait, HasAnswers
<1>3. CASE assistant
  <2>1. Behind(messages, messages') /\ Len(messages') = Len(messages) + 1 /\ next' # "assistant"
    BY <1>1, <1>3, AssistantBehind
  <2>2. next = "assistant"
    BY <1>3 DEF assistant, Step
  <2>3. \A i \in DOMAIN messages : HasAnswers(messages', i)
    BY <2>1, <2>2, AnsweredStays DEF CallsWait
  <2>4. \A i \in DOMAIN messages' : i < Len(messages') => i \in DOMAIN messages
    BY <2>1 DEF Behind
  <2> QED
    BY <2>1, <2>3, <2>4 DEF CallsWait
<1>4. CASE tools
  <2> DEFINE calls == Last(messages).calls
             m == Len(messages)
  <2>1. /\ Behind(messages, messages') /\ m \in Nat \ {0} /\ Last(messages) = messages[m]
        /\ DOMAIN calls = 1..(Len(messages') - m)
        /\ \A n \in DOMAIN calls : messages'[m + n] = ToolMessage(n)
    BY <1>1, <1>4, ToolsBehind
  <2>2. next = "tools" /\ next' = "assistant" /\ Last(messages).role = "chunk"
    BY <1>1, <1>4 DEF tools, Step, Found
  <2>3. messages'[m] = messages[m] /\ m \in DOMAIN messages' /\ DOMAIN messages' = 1..Len(messages')
        /\ Len(messages') \in Nat /\ m <= Len(messages') /\ DOMAIN messages = 1..m
    BY <2>1 DEF Behind
  <2>4. \A n : ToolMessage(n).role = "tool"
    BY DEF ToolMessage, Message
  <2>5. messages'[m].role = "chunk" /\ messages'[m].calls = calls
    BY <2>1, <2>2, <2>3
  <2> HIDE DEF calls, m
  <2>6. ASSUME NEW i \in DOMAIN messages' PROVE HasAnswers(messages', i)
    <3>1. CASE i < m
      <4>1. i \in DOMAIN messages /\ HasAnswers(messages, i)
        BY <2>2, <2>3, <3>1 DEF CallsWait, m
      <4> QED
        BY <2>1, <4>1, AnsweredStays
    <3>2. CASE i = m
      <4>1. \A n \in DOMAIN calls : m + n \in DOMAIN messages'
        BY <2>1, <2>3
      <4> QED
        BY <2>1, <2>5, <3>2, <4>1 DEF HasAnswers
    <3>3. CASE i > m
      <4> DEFINE n == i - m
      <4>1. n \in DOMAIN calls /\ n \in 1..(i - 1) /\ i - n = m /\ m + n = i
        BY <2>1, <2>3, <3>3
      <4>2. messages'[i] = ToolMessage(n)
        BY <2>1, <4>1
      <4> HIDE DEF n
      <4> QED
        BY <2>4, <2>5, <4>1, <4>2 DEF HasAnswers
    <3> QED
      BY <2>1, <2>3, <3>1, <3>2, <3>3
  <2> QED
    BY <2>2, <2>6 DEF CallsWait
<1>5. CASE next' \notin {"assistant", "tools"}
  BY <1>5 DEF CallsWait
<1>6. CASE UNCHANGED <<next, messages>>
  BY <1>6 DEF CallsWait
<1> QED
  BY <1>2, <1>3, <1>4, <1>5, <1>6 DEF Next, Run, OtherTurn, Ask, finalize, Answered, Raise, OutOfSteps,
     Abandon, vars, loop

(***************************************************************************)
(* The model never speaks on while one of its calls has no answer, or an   *)
(* answer no call.                                                         *)
(***************************************************************************)
THEOREM CallsGetAnswers == Spec => []CallsAreAnswered
<1>1. Init => CallsWait
  BY DEF Init, CallsWait
<1>2. CallsWait => CallsAreAnswered
  BY DEF CallsWait, CallsAreAnswered, HasAnswers
<1> QED
  BY <1>1, <1>2, InvHolds, CallsWaitKept, PTL DEF Spec

-----------------------------------------------------------------------------
(***************************************************************************)
(* Tickets.                                                                *)
(***************************************************************************)

KnownTickets ==
  next \in {"assistant", "tools", "finalize", "END"} =>
    tickets - before = Cardinality(AnsweredEscalations(messages))

LEMMA EscalationIs ==
  ASSUME NEW said, NEW i \in DOMAIN said, NEW n \in 1..MaxCalls
  PROVE  <<i, n>> \in AnsweredEscalations(said) <=>
           /\ said[i].role = "chunk" /\ n \in DOMAIN said[i].calls
           /\ said[i].calls[n] = "escalate_to_human" /\ i + n \in DOMAIN said
BY DEF AnsweredEscalations

LEMMA EscalationsFinite ==
  ASSUME NEW said \in Seq(Texts)
  PROVE  /\ AnsweredEscalations(said) \subseteq (DOMAIN said) \X (1..MaxCalls)
         /\ IsFiniteSet(AnsweredEscalations(said))
         /\ Cardinality(AnsweredEscalations(said)) \in Nat
<1>1. AnsweredEscalations(said) \subseteq (DOMAIN said) \X (1..MaxCalls)
  BY DEF AnsweredEscalations
<1>2. IsFiniteSet(DOMAIN said) /\ IsFiniteSet(1..MaxCalls)
  <2>1. DOMAIN said = 1..Len(said) /\ Len(said) \in Nat
    OBVIOUS
  <2> QED
    BY <2>1, FS_Interval, QuestionAssumption
<1>3. IsFiniteSet((DOMAIN said) \X (1..MaxCalls))
  BY <1>2, FS_Product
<1> QED
  BY <1>1, <1>3, FS_Subset, FS_CardinalityType

\* A new message of the model's has no answers yet, and all others had theirs.
LEMMA AssistantEscalations ==
  ASSUME Inv, CallsWait, assistant
  PROVE  AnsweredEscalations(messages') = AnsweredEscalations(messages)
<1>1. TypeOK /\ next = "assistant"
  BY DEF Inv, assistant, Step
<1>2. Behind(messages, messages') /\ Len(messages') = Len(messages) + 1
  BY <1>1, AssistantBehind
<1> DEFINE L == Len(messages)
           longer == messages'
<1>3. /\ L \in Nat /\ DOMAIN messages = 1..L /\ DOMAIN longer = 1..(L + 1)
      /\ \A i \in 1..L : longer[i] = messages[i]
  BY <1>2 DEF Behind
<1>4. \A i \in 1..L : HasAnswers(messages, i)
  BY <1>1, <1>3 DEF CallsWait
<1>5. /\ AnsweredEscalations(messages) \subseteq (1..L) \X (1..MaxCalls)
      /\ AnsweredEscalations(longer) \subseteq (1..(L + 1)) \X (1..MaxCalls)
  BY <1>3 DEF AnsweredEscalations
<1> HIDE DEF L, longer
<1>6. ASSUME NEW i \in 1..(L + 1), NEW n \in 1..MaxCalls
      PROVE  <<i, n>> \in AnsweredEscalations(longer) <=> <<i, n>> \in AnsweredEscalations(messages)
  <2>1. n \in Nat \ {0} /\ i \in Nat
    BY <1>3, QuestionAssumption
  <2>2. CASE i = L + 1
    <3>1. i + n \notin 1..(L + 1) /\ i \notin 1..L /\ i \in DOMAIN longer
      BY <1>3, <2>1, <2>2
    <3>2. <<i, n>> \notin AnsweredEscalations(longer)
      BY <1>3, <3>1, EscalationIs
    <3> QED
      BY <1>5, <3>1, <3>2
  <2>3. CASE i \in 1..L
    <3>1. i \in DOMAIN messages /\ i \in DOMAIN longer /\ longer[i] = messages[i]
      BY <1>3, <2>3
    <3>2. messages[i].role = "chunk" /\ n \in DOMAIN messages[i].calls => i + n \in DOMAIN messages
      BY <1>4, <2>3 DEF HasAnswers
    <3>3. i + n \in DOMAIN messages => i + n \in DOMAIN longer
      BY <1>3
    <3> QED
      BY <3>1, <3>2, <3>3, EscalationIs
  <2> QED
    BY <1>3, <2>2, <2>3
<1>7. AnsweredEscalations(longer) = AnsweredEscalations(messages)
  <2>1. \A i \in 1..L : i \in 1..(L + 1)
    BY <1>3
  <2>2. AnsweredEscalations(messages) \subseteq (1..(L + 1)) \X (1..MaxCalls)
    BY <1>5, <2>1
  <2> QED
    BY <1>5, <1>6, <2>2
<1> QED
  BY <1>7 DEF longer

\* The tools answer what the last message asked for.
LEMMA ToolsEscalations ==
  ASSUME Inv, CallsWait, tools
  PROVE  LET asked_for == {Len(messages)} \X Escalating(Last(messages).calls)
         IN  /\ AnsweredEscalations(messages') = AnsweredEscalations(messages) \cup asked_for
             /\ AnsweredEscalations(messages) \cap asked_for = {}
<1>1. TypeOK /\ Found /\ next = "tools"
  BY DEF Inv, tools, Step
<1> DEFINE calls == Last(messages).calls
           m == Len(messages)
           longer == messages'
<1>2. /\ Behind(messages, longer) /\ calls \in ToolCalls /\ m \in Nat \ {0}
      /\ DOMAIN calls = 1..(Len(longer) - m) /\ calls = messages[m].calls
      /\ messages[m].role = "chunk"
      /\ \A n \in DOMAIN calls : longer[m + n] = ToolMessage(n)
  BY <1>1, ToolsBehind DEF Found
<1>3. /\ DOMAIN messages = 1..m /\ DOMAIN longer = 1..Len(longer) /\ Len(longer) \in Nat /\ m <= Len(longer)
      /\ \A i \in 1..m : longer[i] = messages[i]
  BY <1>2 DEF Behind
<1>4. \A i \in 1..m : i < m => HasAnswers(messages, i)
  BY <1>1, <1>3 DEF CallsWait
<1>5. /\ AnsweredEscalations(messages) \subseteq (1..m) \X (1..MaxCalls)
      /\ AnsweredEscalations(longer) \subseteq (1..Len(longer)) \X (1..MaxCalls)
      /\ Escalating(calls) \subseteq 1..MaxCalls
  BY <1>2, <1>3, EscalationsType DEF AnsweredEscalations
<1>6. \A n : ToolMessage(n).role = "tool"
  BY DEF ToolMessage, Message
<1> HIDE DEF calls, m, longer
<1>7. \A n \in 1..MaxCalls : n \in Nat \ {0}
  BY QuestionAssumption
<1>8. ASSUME NEW n \in 1..MaxCalls PROVE <<m, n>> \notin AnsweredEscalations(messages)
  <2>1. m \in DOMAIN messages /\ m + n \notin DOMAIN messages
    BY <1>2, <1>3, <1>7
  <2> QED
    BY <2>1, EscalationIs
<1>9. ASSUME NEW i \in 1..Len(longer), NEW n \in 1..MaxCalls
      PROVE  <<i, n>> \in AnsweredEscalations(longer) <=>
               <<i, n>> \in AnsweredEscalations(messages) \/ (i = m /\ n \in Escalating(calls))
  <2>1. i \in DOMAIN longer /\ n \in Nat \ {0} /\ i \in Nat
    BY <1>3, <1>7
  <2>2. CASE i < m
    <3>1. i \in DOMAIN messages /\ longer[i] = messages[i] /\ i \in 1..m
      BY <1>2, <1>3, <2>2
    <3>2. messages[i].role = "chunk" /\ n \in DOMAIN messages[i].calls => i + n \in DOMAIN messages
      BY <1>4, <2>2, <3>1 DEF HasAnswers
    <3>3. i + n \in DOMAIN messages => i + n \in DOMAIN longer
      BY <1>2, <1>3
    <3>4. i # m
      BY <1>2, <2>1, <2>2
    <3> QED
      BY <2>1, <3>1, <3>2, <3>3, <3>4, EscalationIs
  <2>3. CASE i = m
    <3>1. longer[i] = messages[m] /\ (n \in DOMAIN calls => i + n \in DOMAIN longer)
      BY <1>2, <1>3, <2>1, <2>3
    <3>2. <<i, n>> \in AnsweredEscalations(longer) <=> n \in Escalating(calls)
      BY <1>2, <2>1, <3>1, EscalationIs DEF Escalating
    <3> QED
      BY <1>8, <2>3, <3>2
  <2>4. CASE i > m
    <3> DEFINE k == i - m
    <3>1. k \in DOMAIN calls /\ m + k = i /\ i # m /\ i \notin 1..m
      BY <1>2, <1>3, <2>1, <2>4
    <3>2. longer[i].role = "tool"
      BY <1>2, <1>6, <3>1
    <3>3. <<i, n>> \notin AnsweredEscalations(longer)
      BY <2>1, <3>2, EscalationIs
    <3> QED
      BY <1>5, <3>1, <3>3
  <2> QED
    BY <1>2, <2>1, <2>2, <2>3, <2>4
<1>10. AnsweredEscalations(longer) = AnsweredEscalations(messages) \cup ({m} \X Escalating(calls))
  <2>1. m \in 1..Len(longer) /\ \A i \in 1..m : i \in 1..Len(longer)
    BY <1>2, <1>3
  <2>2. AnsweredEscalations(messages) \cup ({m} \X Escalating(calls)) \subseteq (1..Len(longer)) \X (1..MaxCalls)
    BY <1>5, <2>1
  <2> QED
    BY <1>5, <1>9, <2>2
<1>11. AnsweredEscalations(messages) \cap ({m} \X Escalating(calls)) = {}
  BY <1>5, <1>8
<1> QED
  BY <1>10, <1>11 DEF longer, m, calls

LEMMA KnownTicketsKept == Inv /\ CallsWait /\ KnownTickets /\ [Next]_vars => KnownTickets'
<1> SUFFICES ASSUME Inv, CallsWait, KnownTickets, [Next]_vars,
                    next' \in {"assistant", "tools", "finalize", "END"}
             PROVE  tickets' - before' = Cardinality(AnsweredEscalations(messages'))
  BY DEF KnownTickets
<1>1. TypeOK /\ Found /\ Paired
  BY DEF Inv
<1>2. tickets \in Nat /\ before \in Nat /\ messages \in Seq(Texts)
  BY <1>1 DEF TypeOK
<1>3. CASE seed
  <2>1. messages' = Seeds /\ tickets = before /\ UNCHANGED <<tickets, before>>
    BY <1>1, <1>3, SeedWrites DEF seed, Step, Found
  <2>2. AnsweredEscalations(Seeds) = {}
    <3>1. \A i \in DOMAIN Seeds : Seeds[i].role \in {"human", "ai"}
      BY <1>1, SeedsType DEF TypeOK
    <3> QED
      BY <3>1 DEF AnsweredEscalations
  <2>3. tickets - before = 0
    BY <1>2, <2>1
  <2> QED
    BY <2>1, <2>2, <2>3, FS_EmptySet
<1>4. CASE assistant
  <2>1. AnsweredEscalations(messages') = AnsweredEscalations(messages)
    BY <1>4, AssistantEscalations
  <2> QED
    BY <1>4, <2>1 DEF KnownTickets, assistant, Step
<1>5. CASE tools
  <2> DEFINE old == AnsweredEscalations(messages)
             calls == Last(messages).calls
             new == {Len(messages)} \X Escalating(calls)
  <2>1. AnsweredEscalations(messages') = old \cup new /\ old \cap new = {}
    BY <1>5, ToolsEscalations
  <2>2. /\ next = "tools" /\ calls \in ToolCalls
        /\ tickets' = tickets + Escalations(calls) /\ UNCHANGED before
    BY <1>1, <1>5, ToolsBehind DEF tools, Step
  <2>3. tickets - before = Cardinality(old)
    BY <2>2 DEF KnownTickets
  <2>4. IsFiniteSet(old) /\ Cardinality(old) \in Nat
    BY <1>2, EscalationsFinite
  <2> HIDE DEF old, calls
  <2>5. /\ IsFiniteSet(Escalating(calls)) /\ Escalations(calls) = Cardinality(Escalating(calls))
        /\ Escalations(calls) \in Nat
    BY <2>2, EscalationsType, QuestionAssumption
  <2>6. IsFiniteSet(new) /\ Cardinality(new) = Escalations(calls)
    <3>1. IsFiniteSet({Len(messages)}) /\ Cardinality({Len(messages)}) = 1
      BY FS_Singleton
    <3>2. IsFiniteSet(new) /\ Cardinality(new) = 1 * Cardinality(Escalating(calls))
      BY <2>5, <3>1, FS_Product
    <3> QED
      BY <2>5, <3>2
  <2> HIDE DEF new
  <2>7. Cardinality(old \cup new) = Cardinality(old) + Cardinality(new)
    <3>1. Cardinality(old \cup new) = Cardinality(old) + Cardinality(new) - Cardinality({})
      BY <2>1, <2>4, <2>6, FS_Union
    <3> QED
      BY <2>4, <2>5, <2>6, <3>1, FS_EmptySet
  <2> QED
    BY <1>2, <2>1, <2>2, <2>3, <2>4, <2>5, <2>6, <2>7
<1>6. CASE finalize \/ UNCHANGED vars
  BY <1>6 DEF KnownTickets, finalize, Step, vars, loop
<1>7. CASE OtherTurn
  BY <1>7 DEF KnownTickets, OtherTurn, loop
<1> QED
  BY <1>3, <1>4, <1>5, <1>6, <1>7 DEF Next, Run, Ask, Answered, Raise, OutOfSteps, Abandon

(***************************************************************************)
(* Whatever the model calls, it has the answer to every call that opened a *)
(* ticket when it speaks, and to nothing that did not.                     *)
(***************************************************************************)
THEOREM TicketsGetKnown == Spec => []TicketsAreKnown
<1>1. Init => CallsWait /\ KnownTickets
  BY DEF Init, CallsWait, KnownTickets
<1>2. KnownTickets => TicketsAreKnown
  BY DEF KnownTickets, TicketsAreKnown
<1>3. Inv /\ CallsWait /\ KnownTickets /\ [Next]_vars => CallsWait' /\ KnownTickets'
  BY CallsWaitKept, KnownTicketsKept
<1> QED
  BY <1>1, <1>2, <1>3, InvHolds, PTL DEF Spec

-----------------------------------------------------------------------------
(***************************************************************************)
(* What the customer sees.                                                 *)
(***************************************************************************)

LEMMA ShowsKept == Inv /\ ShowsOwnWords /\ [Next]_vars => ShowsOwnWords'
<1> DEFINE Own(said) == {i \in DOMAIN said : said[i].role = "chunk" /\ said[i].text}
<1> SUFFICES ASSUME Inv, ShowsOwnWords, [Next]_vars, next' # "idle"
             PROVE  shown' = Own(messages')
  BY DEF ShowsOwnWords
<1>1. TypeOK /\ Found /\ Paired
  BY DEF Inv
<1>2. CASE Ask
  BY <1>2 DEF Ask
<1>3. CASE seed
  <2>1. messages' = Seeds /\ shown' = {}
    BY <1>1, <1>3, SeedWrites
  <2>2. \A i \in DOMAIN Seeds : Seeds[i].role \in {"human", "ai"}
    BY <1>1, SeedsType DEF TypeOK
  <2> QED
    BY <2>1, <2>2
<1>4. CASE assistant
  <2>1. PICK text \in BOOLEAN, calls \in ToolCalls :
             /\ messages'[Len(messages) + 1] = Reply(text, calls)
             /\ shown' = shown \cup {i \in {Len(messages) + 1} : text}
    BY <1>1, <1>4, AssistantBehind
  <2>2. Behind(messages, messages') /\ Len(messages') = Len(messages) + 1
    BY <1>1, <1>4, AssistantBehind
  <2>3. shown = Own(messages)
    BY <1>4 DEF ShowsOwnWords, assistant, Step
  <2>4. Reply(text, calls).role = "chunk" /\ Reply(text, calls).text = text
    BY DEF Reply, Message
  <2>5. /\ DOMAIN messages = 1..Len(messages) /\ Len(messages) \in Nat
        /\ DOMAIN messages' = 1..(Len(messages) + 1)
        /\ \A i \in DOMAIN messages : messages'[i] = messages[i]
    BY <2>2 DEF Behind
  <2>6. \A i : i \in DOMAIN messages' <=> i \in DOMAIN messages \/ i = Len(messages) + 1
    BY <2>5
  <2>7. Len(messages) + 1 \notin DOMAIN messages
    BY <2>5
  <2> DEFINE last == Len(messages) + 1
             longer == messages'
  <2> HIDE DEF last, longer
  <2>8. \A i : i \in shown \cup {k \in {last} : text} <=> i \in Own(longer)
    BY <2>1, <2>3, <2>4, <2>5, <2>6, <2>7 DEF last, longer
  <2> QED
    BY <2>1, <2>8 DEF last, longer
<1>5. CASE tools
  <2> DEFINE m == Len(messages)
             longer == messages'
  <2>1. /\ Behind(messages, longer) /\ shown' = shown
        /\ \A i \in (m + 1)..Len(longer) : longer[i].role = "tool"
    BY <1>1, <1>5, ToolsBehind
  <2>2. shown = Own(messages)
    BY <1>5 DEF ShowsOwnWords, tools, Step
  <2>3. /\ DOMAIN messages = 1..m /\ DOMAIN longer = 1..Len(longer) /\ m \in Nat /\ Len(longer) \in Nat
        /\ m <= Len(longer) /\ \A i \in 1..m : longer[i] = messages[i]
    BY <2>1 DEF Behind
  <2> HIDE DEF m, longer
  <2>4. \A i \in DOMAIN longer : i \in DOMAIN messages \/ i \in (m + 1)..Len(longer)
    BY <2>3
  <2>5. \A i \in DOMAIN messages : i \in DOMAIN longer /\ longer[i] = messages[i]
    BY <2>3
  <2>6. \A i : i \in shown <=> i \in Own(longer)
    BY <2>1, <2>2, <2>4, <2>5
  <2> QED
    BY <2>1, <2>6 DEF longer
<1>6. CASE finalize \/ UNCHANGED vars
  BY <1>6 DEF ShowsOwnWords, finalize, Step, vars, loop
<1>7. CASE OtherTurn
  BY <1>7 DEF ShowsOwnWords, OtherTurn, loop
<1> QED
  BY <1>2, <1>3, <1>4, <1>5, <1>6, <1>7 DEF Next, Run, Answered, Raise, OutOfSteps, Abandon

(***************************************************************************)
(* While the answer is written the chat shows the model's words for this   *)
(* question, all of them and no others.                                    *)
(***************************************************************************)
THEOREM OwnWordsShown == Spec => []ShowsOwnWords
<1>1. Init => ShowsOwnWords
  BY DEF Init, ShowsOwnWords
<1> QED
  BY <1>1, InvHolds, ShowsKept, PTL DEF Spec

(***************************************************************************)
(* The answer is the model's last word, with no call left to run, and the  *)
(* customer has seen it streamed.                                          *)
(***************************************************************************)
THEOREM AnswersAreTheModels == Spec => []AnswerIsTheModels
<1>1. Inv /\ ShowsOwnWords => AnswerIsTheModels
  <2> SUFFICES ASSUME Inv, ShowsOwnWords, next = "END" PROVE AnswerIsTheModels
    BY DEF AnswerIsTheModels
  <2>1. TypeOK /\ Found
    BY DEF Inv
  <2>2. Last(messages).role = "chunk" /\ Last(messages).calls = <<>>
    BY <2>1 DEF Found
  <2>3. ASSUME answer = "text" PROVE Len(messages) \in shown
    <3>1. /\ Len(messages) \in Nat \ {0} /\ Last(messages) = messages[Len(messages)]
          /\ messages \in Seq(Texts) /\ Last(messages).text \in BOOLEAN
      BY <2>1, LastType DEF TypeOK
    <3>2. Len(messages) \in DOMAIN messages
      BY <3>1
    <3>3. messages[Len(messages)].role = "chunk" /\ messages[Len(messages)].text
      BY <2>1, <2>2, <2>3, <3>1 DEF Found
    <3>4. shown = {i \in DOMAIN messages : messages[i].role = "chunk" /\ messages[i].text}
      BY DEF ShowsOwnWords
    <3> QED
      BY <3>2, <3>3, <3>4
  <2> QED
    BY <2>2, <2>3 DEF AnswerIsTheModels
<1> QED
  BY <1>1, InvHolds, OwnWordsShown, PTL

-----------------------------------------------------------------------------
(***************************************************************************)
(* The loop as one node.                                                   *)
(***************************************************************************)

\* A round is a step of the model's and one of the tools', and opens at most a ticket a
\* call.
InRound(r) ==
  /\ tickets <= before + MaxCalls * r
  /\ next = "seed" => r = 0 /\ steps = 0
  /\ next = "assistant" => steps = 2 * r + 1
  /\ next \in {"tools", "finalize"} => steps = 2 * r + 2
  /\ next = "END" => steps = 2 * r + 3

Bounded == next # "idle" => \E r \in Nat : InRound(r)

LEMMA Rounds ==
  ASSUME NEW r \in Nat, 2 * r + 1 <= RecursionLimit
  PROVE  MaxCalls * r <= MaxCalls * ((RecursionLimit - 1) \div 2)
<1>1. \A a \in Nat : 2 * r <= a => r <= a \div 2 /\ a \div 2 \in Nat
  OBVIOUS
<1>2. r <= (RecursionLimit - 1) \div 2 /\ (RecursionLimit - 1) \div 2 \in Nat
  BY <1>1, QuestionAssumption
<1>3. \A c, a, b \in Nat : a <= b => c * a <= c * b
  OBVIOUS
<1> QED
  BY <1>2, <1>3, QuestionAssumption

LEMMA NextRound == \A r \in Nat : MaxCalls * r \in Nat /\ MaxCalls * (r + 1) = MaxCalls * r + MaxCalls
BY QuestionAssumption

LEMMA BoundedKept == Inv /\ Bounded /\ [Next]_vars => Bounded'
<1> SUFFICES ASSUME Inv, Bounded, [Next]_vars, next' # "idle"
             PROVE  \E r \in Nat : InRound(r)'
  BY DEF Bounded
<1>1. TypeOK /\ Found /\ tickets \in Nat /\ before \in Nat
  BY DEF Inv, TypeOK
<1>2. CASE Ask
  <2>1. MaxCalls * 0 = 0
    BY QuestionAssumption
  <2>2. InRound(0)'
    BY <1>1, <1>2, <2>1 DEF Ask, InRound
  <2> QED
    BY <2>2
<1>3. CASE UNCHANGED <<next, steps, tickets, before>>
  BY <1>3 DEF Bounded, InRound
<1> SUFFICES ASSUME next # "idle" PROVE \E r \in Nat : InRound(r)'
  BY <1>2, <1>3 DEF Next, Run, OtherTurn, seed, assistant, tools, finalize, Step, Answered, Raise,
     OutOfSteps, loop, vars
<1>4. PICK r \in Nat : InRound(r)
  BY DEF Bounded
<1>5. CASE seed
  <2>1. next = "seed" /\ next' = "assistant" /\ steps' = steps + 1 /\ UNCHANGED <<tickets, before>>
    BY <1>5 DEF seed, Step
  <2>2. r = 0 /\ steps = 0
    BY <1>4, <2>1 DEF InRound
  <2> QED
    BY <1>4, <2>1, <2>2 DEF InRound
<1>6. CASE assistant
  <2>1. next' \in {"tools", "finalize"}
    BY <1>1, <1>6, AssistantBehind
  <2> QED
    BY <1>4, <1>6, <2>1 DEF InRound, assistant, Step
<1>7. CASE tools
  <2>1. /\ tickets' = tickets + Escalations(Last(messages).calls)
        /\ Escalations(Last(messages).calls) \in 0..MaxCalls
    BY <1>1, <1>7, ToolsBehind, EscalationsType
  <2> DEFINE e == Escalations(Last(messages).calls)
  <2> HIDE DEF e
  <2>2. tickets' = tickets + e /\ e \in 0..MaxCalls /\ MaxCalls \in Nat
    BY <2>1, QuestionAssumption DEF e
  <2>3. MaxCalls * (r + 1) = MaxCalls * r + MaxCalls /\ MaxCalls * r \in Nat
    BY NextRound
  <2>4. tickets' <= before + MaxCalls * (r + 1)
    BY <1>1, <1>4, <2>2, <2>3 DEF InRound
  <2>5. InRound(r + 1)'
    BY <1>4, <1>7, <2>4 DEF InRound, tools, Step
  <2> QED
    BY <2>5
<1>8. CASE finalize
  BY <1>4, <1>8 DEF InRound, finalize, Step
<1> QED
  BY <1>2, <1>3, <1>5, <1>6, <1>7, <1>8 DEF Next, Run, OtherTurn, Answered, Raise, OutOfSteps,
     Abandon, loop, vars

\* Wherever the loop ends, the tickets it has opened are within QuestionNode's bound.
LEMMA TicketsBounded ==
  ASSUME Inv, Bounded, next # "idle",
         Answered \/ Raise \/ OutOfSteps
  PROVE  tickets' \in before..(before + MaxCalls * ((RecursionLimit - 1) \div 2))
<1>1. /\ TypeOK /\ Found /\ tickets \in Nat /\ before \in Nat /\ before <= tickets
      /\ steps \in 0..RecursionLimit /\ RecursionLimit \in Nat \ {0} /\ MaxCalls \in Nat
  BY QuestionAssumption DEF Inv, TypeOK
<1>2. PICK r \in Nat : InRound(r)
  BY DEF Bounded
<1> DEFINE most == MaxCalls * ((RecursionLimit - 1) \div 2)
<1>3. most \in Nat
  <2>1. \A a \in Nat : a \div 2 \in Nat
    OBVIOUS
  <2>2. (RecursionLimit - 1) \div 2 \in Nat
    BY <1>1, <2>1
  <2>3. \A a, b \in Nat : a * b \in Nat
    OBVIOUS
  <2> QED
    BY <1>1, <2>2, <2>3
<1>4. /\ MaxCalls * r \in Nat /\ MaxCalls * (r + 1) = MaxCalls * r + MaxCalls
  BY <1>2, NextRound
<1>5. /\ 2 * r + 1 <= RecursionLimit => MaxCalls * r <= most
      /\ 2 * (r + 1) + 1 <= RecursionLimit => MaxCalls * (r + 1) <= most
  BY <1>2, Rounds
<1> HIDE DEF most
<1>6. tickets <= before + MaxCalls * r
  BY <1>2 DEF InRound
<1>7. CASE Answered
  <2>1. steps = 2 * r + 3 /\ tickets' = tickets
    BY <1>2, <1>7 DEF Answered, InRound
  <2> QED
    BY <1>1, <1>3, <1>4, <1>5, <1>6, <2>1 DEF most
<1>8. CASE Raise /\ next = "tools"
  <2>1. /\ steps = 2 * r + 2 /\ steps < RecursionLimit
        /\ tickets' \in tickets..(tickets + Escalations(Last(messages).calls))
    BY <1>2, <1>8 DEF Raise, InRound
  <2>2. Escalations(Last(messages).calls) \in 0..MaxCalls
    BY <1>1, <1>8, LastType, EscalationsType
  <2>3. tickets' \in Nat /\ tickets <= tickets' /\ tickets' <= tickets + MaxCalls
    BY <1>1, <2>1, <2>2
  <2>4. MaxCalls * (r + 1) <= most
    BY <1>1, <1>5, <2>1
  <2> QED
    BY <1>1, <1>3, <1>4, <1>6, <2>3, <2>4 DEF most
<1>9. CASE Raise /\ next = "assistant"
  <2>1. steps = 2 * r + 1 /\ tickets' = tickets
    BY <1>2, <1>9 DEF Raise, InRound
  <2> QED
    BY <1>1, <1>3, <1>4, <1>5, <1>6, <2>1 DEF most
<1>10. CASE OutOfSteps
  <2>1. tickets' = tickets /\ steps = RecursionLimit /\ next \notin {"idle", "END"}
    BY <1>10 DEF OutOfSteps
  <2>2. next \in {"seed", "assistant", "tools", "finalize"}
    BY <1>1, <2>1 DEF TypeOK
  <2>3. 2 * r + 1 <= RecursionLimit
    BY <1>1, <1>2, <2>1, <2>2 DEF InRound
  <2> QED
    BY <1>1, <1>3, <1>4, <1>5, <1>6, <2>1, <2>3 DEF most
<1> QED
  BY <1>7, <1>8, <1>9, <1>10 DEF Raise

LEMMA NodeSteps == Inv /\ Bounded /\ [Next]_vars => [Node!NodeNext]_(Node!nodeVars)
<1> SUFFICES ASSUME Inv, Bounded, [Next]_vars PROVE [Node!NodeNext]_(Node!nodeVars)
  OBVIOUS
<1>1. TypeOK /\ Found
  BY DEF Inv
<1>2. CASE Ask
  <2>1. Node!Enter
    BY <1>2 DEF Ask, Node!Enter
  <2> QED
    BY <2>1 DEF Node!NodeNext
<1>3. CASE Answered \/ Raise \/ OutOfSteps
  <2>1. next # "idle" /\ next' = "idle" /\ answer' = answer
    BY <1>3 DEF Answered, Raise, OutOfSteps, Abandon
  <2>2. tickets' \in before..(before + MaxCalls * ((RecursionLimit - 1) \div 2))
    BY <1>3, <2>1, TicketsBounded
  <2>3. answer \in {"text", "blank", NULL}
    BY <1>1 DEF TypeOK
  <2>4. Node!Leave(answer)
    BY <2>1, <2>2, <2>3 DEF Node!Leave
  <2> QED
    BY <2>3, <2>4 DEF Node!NodeNext
<1>4. CASE seed \/ assistant \/ tools
  <2>1. /\ next \in {"seed", "assistant", "tools"} /\ next' \in {"assistant", "tools", "finalize"}
        /\ UNCHANGED <<answer, before>>
    BY <1>1, <1>4, AssistantBehind DEF seed, assistant, tools, Step
  <2> QED
    BY <2>1 DEF Node!nodeVars
<1>5. CASE finalize
  <2>1. next = "finalize" /\ next' = "END" /\ answer = NULL /\ UNCHANGED before
    BY <1>1, <1>5 DEF finalize, Step, Found
  <2> QED
    BY <2>1 DEF Node!nodeVars
<1>6. CASE OtherTurn \/ UNCHANGED vars
  BY <1>6 DEF OtherTurn, vars, loop, Node!nodeVars
<1> QED
  BY <1>2, <1>3, <1>4, <1>5, <1>6 DEF Next, Run

(***************************************************************************)
(* Seen from the order graph the loop is one node that answers or raises   *)
(* once, and however it ends opens no more tickets than its steps allow.   *)
(***************************************************************************)
THEOREM NodeImplemented == Spec => ImplementsNode
<1>1. Init => Node!NodeInit
  BY DEF Init, Node!NodeInit
<1>2. Init => Bounded
  BY DEF Init, Bounded
<1> QED
  BY <1>1, <1>2, InvHolds, BoundedKept, NodeSteps, PTL DEF Spec, ImplementsNode, Node!Spec
=============================================================================
