# A TLA+ model of the wholesale order desk

The program is a chat agent with which a restaurant builds an order: a language
model reads the message, deterministic nodes resolve products, check stock and
rules, and change a cart; the desk then asks, drafts, submits, answers or hands
the customer to a human.  This directory models its core - the cart, the rules,
the resolution of phrases, the graph of nodes with what it keeps between
turns, the question loop, and the browser sessions around them - checks it with
TLC on small instances and proves its main safety properties with TLAPS for all
of them.  Paths below are those of the repository.

## 1. Inventory

| component | state | operations | talks to |
|---|---|---|---|
| domain types and policies (`src/domain/models.py`, `policies.py`) | none | enums, thresholds, flag sets | everything |
| cart aggregate (`src/domain/cart.py`) | `by_supplier`: dict of lists of lines | `apply` (add, set_quantity, remove) | graph nodes, panel |
| rules, gate, questions (`rules.py`, `gates.py`, `companions.py`, part of `nodes.py`) | none | `validate_rules`, `gate`, `build_clarifications`, coverage | graph nodes |
| SKU resolution (`src/domain/resolution.py`) | none | `resolve_skus` | catalog, graph |
| order graph (`src/app/graph/`) | `OrderState`, kept per thread by the checkpointer | one node per step, two routers, `run`, `stream_run`, `record_turn` | model, catalog, supplier, escalation |
| turn boundary (`src/app/turn.py`) | none | `handle_turn`, `stream_turn`, `_compose_reply` | agent, UI |
| question subgraph and tools (`src/app/graph/subgraphs/`) | its own message list | a model/tool loop bounded by LangGraph's recursion limit | catalog, supplier, escalation |
| supplier gateway (`mock_supplier_gateway.py`) | orders received, stock, prices | `check_inventory`, `get_price`, `submit_order` | nodes, tools |
| escalation gateway (`mock_escalation_gateway.py`) | tickets | `create_handoff` | node, tool |
| catalog repositories (`json_`, `faiss_catalog_repository.py`) | items, index | `get`, `find_candidates` | nodes, tools |
| Gradio session (`src/interfaces/gradio_app/`) | `cart_state`, `thread_state`, chat | `respond`, `reset`, panel clicks | turn boundary, cart |
| PII redaction (`redaction.py`) | none | `redact_normalize` | redact node, history |
| rendering, assets, config, bootstrap, observability, evaluations, scripts | none that a turn depends on | - | - |

What is hard here, and what makes each part correct:

- **Order graph.** The checkpointer keeps every field of `OrderState` between
  turns; a turn clears some, overwrites others and reads the rest.  The reply is
  chosen by precedence over fields, so a field left from an earlier turn speaks
  for this one.  A node may raise anywhere, with the writes of the nodes before
  it kept, and `submit_order` may have been received when its node raises; and
  `record_turn` may raise when the graph has ended, order and all.
  Correct: the reply is about this turn; nothing asked for vanishes; nothing
  unorderable lands; an order goes out only when the whole turn landed, once,
  and is the cart the customer is then shown.
- **Offers.** What is offered, what acceptance adds and what the gate sees are
  computed from previews of the cart taken at different points of one turn.
  Correct: accepting covers the lines; an offer is still open when it is read.
- **Cart.** The operations name lines by supplier and SKU and act on the first
  match; groups are opened before it is known whether anything goes in.  The
  panel's buttons lag behind the cart, so a click may step a line that is gone.
  Correct: every line is reachable, no empty group, a click touches one line, and
  the whole is a map of quantities.
- **Resolution.** Precedence of evidence, then a margin between scores in an
  order the index chose.  Correct: a near tie of plain scores is never settled,
  and a single winner is found wherever it stands.  Several candidates that the
  phrase names, or of its size with one score, are settled on all the same, and
  there the index's order decides.
- **Session.** One `respond` runs at a time, for all browsers; it works on the
  text and the chat as they were when the customer submitted and on the cart as
  it was when it started, while *New ticket*, `demo.load` and the panel go on
  changing them.  A stream that raises is followed by a silent second attempt
  at the whole turn, which may come after the first one's order, last frame or
  record.  Correct: a retry adds nothing twice and is recorded once; chat and
  cart agree; no customer gets another's cart or history; every message is served.
- **Question subgraph.** A loop driven by a language model, ended by a limit,
  whose tools may open tickets before it fails, and whose messages pass by on
  the stream the customer reads.  Correct: each call is answered before the
  model speaks, tickets are known to it, the chat shows its words only, and
  seen from the graph all of it is one node.

`PROJECT.json` lists these hazards at their lines with the properties for them.

## 2. Modules

    Values, Iteration                   None, missing keys; a loop as a recursive function
      Catalog      domain/models.py     the vocabulary and the catalog's functions
        Rules      policies, rules, gates, build_clarifications
        Resolution resolve_skus and its loop            ResolutionMC, ResolutionClaims
      CartMap      a cart as a map, and batches of edits
        CartPromise  the abstract cart machine
        Cart       cart.py, cart_ops.py: dict of lists  CartMC
      Coverage     (Rules + CartMap) companions still needed
        OrderGraph nodes, routing, turn boundary        OrderGraphMC, OrderGraphLids,
                                                        OrderGraphClaims
        OrderDesk  what the customer may rely on (abstract)
    MessagePromise what becomes of a message (abstract)
      Session      app.py, stream_turn, record_turn     SessionMC, SessionClaims
    QuestionNode   the question path as one node (abstract)
      Question     qa_agent.py, tools.py, stream_run    QuestionMC
    LoopProofs                                proofs: loops, and batches of edits on a map
    CartProofs                                proofs: all the safety of Cart, CartPromise
    OrderGraphProofs, OrderGraphSafety        proofs: types, Facts, safety, OrderDesk
    OrderGraphReplies                         proofs: the reply, offers and acceptances
    ResolutionProofs                          proofs: what a phrase is settled on, and offers
    SessionProofs, QuestionProofs             proofs: all their safety, and both refinements

**How the code maps.** `OrderGraph` has one action per node, with the code's
names; `node` is LangGraph's next node, `"END"` when the graph has finished and
`"idle"` between turns.  The other variables up to `handoff` are the fields of
`OrderState`.  `client` is what the caller holds: the cart and the kind of reply of
the last `TurnResult` as the panel has changed it since, and `panel`, the lines
whose buttons the panel shows.  `orders` and `tickets` are what the two gateways
received.  `run` is `_initial_state`: the four outputs are cleared, the
cart and the selection of suppliers are taken from the caller or, when it passes
none, from the checkpoint.  Each node is one atomic step, as in LangGraph, which
merges a node's writes when it has returned.

`NodeRaises` is a node that raises: its own writes are lost, those of the nodes
before it stay in the checkpoint, a new message starts at `START` again.
`draft` and `escalate` may raise after the gateway has heard them, the question
subgraph after any ticket it opened.  `handle_turn` records the turn and returns
the reply and the cart; `RecordRaises` is its `record_turn` that raises after the
graph has ended: what the turn has done stays done, an order included, and the
caller keeps its old cart and reply.  (`stream_turn`, where the reply may have been
shown by then, and the retry are in `Session`.)  `cart_panel` draws the panel from
the cart, `PanelEdit` and `PanelRemove` are its handlers between turns.  They act
on the lines the panel was drawn with, which a turn or another click may have
dropped since: `+` then brings the line back with one case, as `step_quantity`
does (`Cart` has the handlers on the real structure).
`SessionOver` is the end of a run's bounded session, so that deadlock checking
stays on.

`Session` takes the graph as `OrderDesk` promises it: a run turns the cart it was
given into another, may send one order, and may raise.  That is one step, since
nothing of a run can be seen from outside before it ends but the order, and a
raise may follow the order.  `turn` is the `respond` in progress: `attempt` is
the stream or the blocking turn after it, `stage` says whether the graph runs,
has ended, or its reply has been shown.  A cart tells how often the line of each
message was added; the steppers and amounts are `Cart`'s.  `checkpoint` has the
history of each thread, as submissions; the checkpointer's `draft_cart` is left
out because `respond` always passes the cart.  What Gradio does is external and
read off `build_app`: `respond` is one function with two triggers, so the default
concurrency limit of one holds for both and for all sessions, in the order of
submission; a trigger is not fired again by a browser whose last one is pending;
inputs that are components come with the event, a `gr.State` is read when the
function starts; the other callbacks are not queued behind it.  A browser that
goes away in the middle of a turn is left out.

`Question` has one action per node of the loop.  `messages` is the loop's own
channel, empty at each question because `build_qa_agent` compiles it without a
checkpointer; a message is its role, whether it has a text, its calls, and which
call it answers.  `history` is what `record_turn` has left in the thread.  `shown`
is the set of the messages, by number, whose text is in the chat's bubble: `stream_run` sees every
message any node writes, and `_token_text` picks.  `ToolNode` is LangGraph's:
the calls of a message run side by side, each answered in its place; a call that
makes no sense is answered with an error (an answer like any other here), what a
tool raises leaves the loop.  `RecursionLimit` is the number of steps LangGraph
leaves the loop.

**What the language model may do** is everything its schema allows: `intent`
any member of `Intent`; `parse` any list of operations from `ParsedOrders`, any
accepted offer names with or without an amount, any `place_order`.  `resolve`
picks for each phrase any outcome that `resolve_skus` has; `Resolution` models
that function and its invariant `OnlyKnownOutcomes` is the contract between the
two modules.  Accepted names that no companion has are never looked up, so only
`OfferNames` are enumerated.

**Abstractions.** A product is its SKU, a text the few things the code asks of
it, a question its kind and its line.  Confidences are hundredths; the code's
are floats, and 0.60 - 0.45 is a hair above or below 0.15 where the model has
exactly 15: the boundary itself can differ by rounding, nothing else can.  A list of
flags is a set (`_raise` adds a flag once).  In `OrderGraph` a cart is the map
of `CartMap`; that the dict of lists behaves as one is checked in `Cart`
(`KeepsPromise`).  The offers of `add_companions` are taken in catalog order
where the code takes them in the order of a dict; they set different SKUs, so the
result is the same.  Tickets are the calls of `create_handoff`; the mock derives
a ticket's id from its arguments, so two equal calls give one id there.
Prices appear in `Cart` only, where a property needs them.  `OrderGraph` has no
history, since only prompts read it; `Session` and `Question` have it.

`Mutant of ...` definitions are deliberate errors, each placed before the
definition it replaces.  They are used by no specification: replacing the
definition by its mutant must make TLC report the property that
`PROJECT.json` pairs with it, which shows that the property depends on that
piece of code.

## 3. Runs

| run | question | states |
|---|---|---|
| `CartMC` | types; every line reachable (`Addressable`); no empty group; clicks are local and keep the price; the dict of lists implements the map | 3.7 k |
| `CartMC_burst` | *violated*: a burst of `-` and `+` steps consistently | |
| `OrderGraphMC_turns` | two turns, the panel in between, failures in any node and in recording: types, counted carts, nothing dropped or guessed in silence, one order per turn, orders only when all landed, the reply tells this turn, the graph implements `OrderDesk` | 2.9 M |
| `OrderGraphLids` | one turn of two operations over the pairings of `kb/catalog.json`: what lands is orderable; offers and acceptances agree with the cart, also when one lid serves two sizes and two lids have one name | 0.4 M |
| `ResolutionMC` | which phrases are settled, on what, when the order does not matter; what is offered | 2.2 M |
| `ResolutionClaims` | *violated*: a size settles a phrase when it matches one candidate | |
| `SessionMC` | two browsers, two submissions: lines are added once, chat and cart agree, threads stay apart, turns are recorded once, every message ends, `MessagePromise` is implemented | 1.1 M |
| `QuestionMC` | the conversation the model is shown, calls and tickets, what streams, the answer; the loop ends and implements `QuestionNode` | 0.8 M |
| `OrderGraphClaims_*`, `SessionClaims_*` | *violated*: sentences of the documentation the code does not keep (section 6) | |

**Bounds, and why they are enough.**

- *Catalog* of the two-turn run: a container with a lid as companion from one
  supplier, a napkin with minimum order 2 from another; case packs 3, 2 and 1, so
  rounding and covering are inexact; stock of 2, 3 and unknown.
- *Catalog* of the one-turn run: what `kb/catalog.json` has in small, two sizes of
  container with one lid, and at another supplier a container and a lid of the same
  name, in other packs; a minimum order of two, and a product out of stock.
  Between them the two have every flag `validate_rules` raises.
- *Turns*: two.  What a turn leaves is read by the next one only; the states a
  turn may leave are all reached as the first one's.  `MaxTickets = 1`: the
  model only counts tickets.
- *Operations*: none or one in the two-turn run, each shape an amount can have
  (cases, units, none, zero, a new total, no new total, a removal); pairs in the
  one-turn run, from carts that are empty, have no lids, or have those of one supplier.
  Lines interact only through one SKU and through the coverage sum, which pairs show.
  Offers are accepted there without an amount (`LidAmounts`) and for all suppliers;
  stated amounts and selections are the two-turn run's.
- *Scores* 55 and 90: between `MIN_SCORE` and `CONFIDENCE_THRESHOLD`, and above; 90
  in the one-turn run, which is about what lands.
- *Panel*: `MaxCases = 3` stops the panel's `+`; `PanelInUse` lets it be used between
  turns only, not before the first (`StartCarts` stands for those edits) nor after
  the last, when nothing would read what it did.
- *Cart*: two suppliers that sell one SKU, batches of up to two operations,
  `MaxQuantity = 3`; `_apply_one` looks at one group and one line, so two of
  each show every confusion of them.
- *Resolution*: up to four candidates, one more than are offered; scores below
  `MIN_SCORE`, at it, and exactly `MARGIN` above it.

- *Session*: two browsers, two texts and two submissions, so one message waits
  while another is retried, by the same browser (Enter and Send) or another one,
  and one text can be submitted twice.  Two threads made: by both page loads, by
  a load and a *New ticket* in either order, or by two *New tickets*.  A
  submission meets what is in flight before it and what comes behind it; a third
  one would meet the same.
- *Question*: up to two calls per message; seven steps, `seed`, `assistant` and
  then twice tools and assistant with `finalize` as the last one, or one round
  more than fits; threads of up to four turns, one more than the six messages of
  the cut; two questions, so one follows what the other left.  One lookup stands
  for the three: they change nothing.

`VIEW MCView`, in `OrderGraphMC_turns` and the `OrderGraphClaims` runs, forgets,
between turns, `intent`, `cart_ops`, `accepted_companions`, `place_order` and
`status`: `redact`, `intent` and `parse` write them before any node or property
reads them (`_compose_reply` runs before `idle`; `OrderDesk`'s phase is `"closed"`
there).  After the last turn it forgets which lines the panel shows, since no click
follows.  The runs with a liveness property use no view and no symmetry.
`CHECK_DEADLOCK FALSE` is said of `Session` and `Question` only, where customers
may stop typing, and bounds stop them.

**Fairness.** `Session`'s `FairSpec` adds weak fairness of `Serve`, the steps of the
`respond` that is running or first in Gradio's queue, and `Question`'s of `Run`, the
nodes of the loop.  `OrderGraph` has no liveness property: its routes have no cycle,
and the one loop in it is `Question`'s.  Both rest on this: the calls of
the model and the gateways return or raise.  One that hangs is not covered, and
the code sets no timeout on any; in `Session` it would stop every browser.  No
fairness is assumed of what customers do, or between the outcomes of a step: a message ends although its stream always fails, a question
although the model always calls a tool.

## 4. The abstract specifications

`OrderDesk` knows a cart shown, the lines the panel has buttons for, a working cart,
the orders received and whether a turn is open.  A turn changes lines only to amounts
that can be ordered (in stock, minimum met), sends at most the working cart and
nothing after it, and shows it at its end.  A turn may fail before its order, in
sending it or after it: the cart shown is left alone, and the order may have been
received.  Between turns the customer drops and steps lines of the panel, which may
be older than the cart: a line that is gone can be stepped up from nothing.
`OrderGraph` implements it (`ImplementsDesk`).  In particular the order the supplier
gets in a turn that completes is the cart the customer is shown, and the only
divergence a failure causes is an order that arrived and was not confirmed.

`MessagePromise` knows of each message how far it is and how many orders were
sent for it: they are taken up one at a time in the order of submission, get
one attempt and at most one more, one order in each, and nothing is sent for a
message that is done.  `Session` implements it (`ImplementsPromise`).  That a second
attempt may send a second order is what the code does, and the finding
`OneOrderPerMessage` of section 6.

`QuestionNode` is the one step that `OrderGraph` takes for `rag_qa`: it answers,
with a text or without, or raises, and has opened a bounded number of tickets
either way.  `Question` implements it (`ImplementsNode`); the bound is the calls
of a message times the rounds the limit leaves.

## 5. What is proved

All for every catalog, stock, set of model outputs, batch of operations, number of
turns, tickets, sizes of carts, browsers, messages, threads, steps and calls.  The assumptions say
what types the constants have, and no more: `CatalogAssumption`,
`OrderGraphAssumption` and its `NullAssumption` (None and a missing key are no SKU,
None is no cart and no text, and starting carts are counted); `ValuesAssumption` and
`CartAssumption` (None and a missing key are no numbers, a missing key is no list of
lines, batches are sequences of operations); `SessionAssumption`
and its `NullAssumption` (there are finitely many sessions, None is no number, no
cart and no turn); `QuestionAssumption` (the limit is positive, None is no answer,
`escalate_to_human` is no lookup); `ResolutionAssumption` (scores are percentages, what
is remembered are SKUs).  One theorem, `AcceptanceCovers`, has a hypothesis besides:
`FlatCompanions`, no companion has companions of its own.

| theorem | statement |
|---|---|
| `IterateUnfolds`, `IterateKeeps` | a loop unfolds pass by pass; what each pass keeps, the loop keeps |
| `EditTakenType` | a batch of edits takes a cart to a cart |
| `CartTyped` | `Spec => []TypeOK` (`Cart`) |
| `LinesReached` | `Spec => []Addressable` |
| `GroupsHaveLines` | `Spec => []NoEmptyGroup` |
| `ClicksAreLocal` | `Spec => ClickIsLocal` |
| `CartKeepsPromise` | `Spec => KeepsPromise` |
| `TypeCorrect` | `Spec => []TypeOK` |
| `FactsHold` | `Spec => []Facts`, the inductive invariant |
| `CartsCounted` | `Spec => []CartsAreCounted` |
| `LandedIsOrderable` | `Spec => LandsOrderable` |
| `OrdersAreClean` | `Spec => OrdersOnlyWhenClean` |
| `NothingIsDropped` | `Spec => []NothingDropped` |
| `OneOrder` | `Spec => []OneOrderPerTurn` |
| `DeskImplemented` | `Spec => ImplementsDesk` |
| `SaidHolds` | `Spec => []Said`, what each path has left for the reply |
| `RepliesAreOfThisTurn` | `Spec => ReplyTellsThisTurn` |
| `OpenMeansTooFew` | an offer is open exactly while there are too few units of it, or no case |
| `AcceptanceCovers` | `Spec => []AcceptedMeansCovered`, if `FlatCompanions` |
| `OffersStayOpen` | `Spec => []OfferedMeansOpen` |
| `ResolutionTyped` | `Spec => []TypeOK` (`Resolution`) |
| `KnownOutcomesOnly` | `Spec => []OnlyKnownOutcomes` |
| `WinnerSettles` | `Spec => []SettledOnWinner` |
| `AnyOrderSettles` | `Spec => []OrderDoesNotMatter` |
| `BestOfferedFirst` | `Spec => []OffersBestFirst` |
| `SessionTyped` | `Spec => []TypeOK` (`Session`) |
| `TurnsRecordedOnce` | `Spec => []RecordedOnce` |
| `ThreadsApart` | `Spec => []ThreadsKeepApart` |
| `LinesAddedOnce` | `Spec => []AddedOnce` |
| `CartBesideReply` | `Spec => []ReplyMatchesCart` |
| `SessionKeepsPromise` | `Spec => ImplementsPromise` |
| `QuestionTyped` | `Spec => []TypeOK` (`Question`) |
| `PromptsAreConversations` | `Spec => []PromptIsConversation` |
| `CallsGetAnswers` | `Spec => []CallsAreAnswered` |
| `TicketsGetKnown` | `Spec => []TicketsAreKnown` |
| `OwnWordsShown` | `Spec => []ShowsOwnWords` |
| `AnswersAreTheModels` | `Spec => []AnswerIsTheModels` |
| `NodeImplemented` | `Spec => ImplementsNode` |

*Loops.* A loop of the code is `Iterate(start, step)[n]`, a recursive function
whose n-th value is the state after n passes.  The induction theorems of the
library cannot be used (they take an operator), so `LoopProofs` proves
induction over a *set* of naturals from the least-element principle, builds the
finite runs of a loop from it and shows that they agree with the recursive
function: no induction over data is left to the model checker for these loops.

*The cart.* `cart.py` walks the first match of a list, so each of its operations is
as good as the lists are: `Keyed` says that a list has its own supplier's lines, each
SKU once.  Append, requantify and delete keep that and leave the lines of other SKUs
as they are (`AppendKeeps`, `RequantifyKeeps`, `WithoutKeeps`), whatever the operation
and whether or not its line is there.  In the middle of a batch a group may be empty
(`Reachable`); the filter at the end of `apply` leaves none (`Tidy`), and `Tidy` is the
inductive invariant: `Addressable` and `NoEmptyGroup` are parts of it, and a click,
a batch of one, changes one key only (`ClicksAreLocal`).  `CartKeepsPromise` reads the
lists as a map, shows that one operation on the lists is one edit of the map
(`EditQuantities`), and runs the two loops side by side for batches of any length.

*Safety.* None of the properties is inductive: `apply` looks at flags, and only
who ran before it says what the flags mean.  `Facts` records that, per node:
after `check_inventory` an out-of-stock line carries its flag (`StockChecked`);
after `validate` a line has no amount and the flag for it, or too little and the
flag for that, or at least the minimum (`AmountChecked`); from `resolve` on, an
unknown product has a confidence the gate stops on (`ProductKnown`); `draft` is
reached past the gate only (`GateHeld`) and each node is on the path of its
intent (`PathTaken`).  With `TypeOK` it is inductive, one step per action.  The
carts then follow from a loop invariant of the edits that land: a line is as it
was, gone, or at least the minimum, also when a second operation adds to the
first one's result, because landing amounts are all positive.  `NothingDropped`
is the case split on why an operation does not land, each case a flag or a
confidence for which `QuestionKind` is not `"none"`; what lands although the gate
stops on its confidence is asked about by the same lemma.  `OneOrderPerTurn` needs
that orders are dated by the turns before and that `draft` is left when it has
sent.

*Refinement.* `DeskImplemented` maps each action to the desk's: `run` to its
opening, `apply` to a change of the working cart by amounts that can be ordered
(the loop invariant above), `draft` to an order or a stutter, `handle_turn` to
its end, a node that raises to a failure with or without an order, `record_turn`
that raises to a failure after whatever was sent, and the panel, however old, to the
customer's own edits.

*The reply.* The checkpoint makes `ReplyTellsThisTurn` a property of several
turns: `_compose_reply` takes the first output it finds, whoever left it.
`Said` follows the outputs from where `run` clears them (nothing said while
a node is to run), through the gate (`clarify` is reached only with a line that
is asked about, so there is a question), to the five ways a path ends, each with
its own outputs and no other; a confirmation comes with the one order dated by
this turn.  It is inductive with `TypeOK`, `Facts` and `OrdersDated`, after
failed turns too, since it claims nothing of what is left at `idle`.

*Offers and acceptances.* `LeastCover` says of `companion_case_count` what its rounding
is for: the cases cover the units, and one case less would not (nor would any other
smaller number).  The rest is about one preview of the cart, taken three times.
`AddOnsPreview`, a loop invariant over the catalog, says what `add_companions` makes of
it: each companion that is taken up has its cases, nothing else changes.
`check_inventory` changes nothing that a preview looks at, `validate` nothing when all is
counted in cases, and past the gate everything that was resolved lands, so the preview is
the cart (`AllLanded`).  `CoverageKept` and `OffersFit` say so per node, and are
inductive with `TypeOK`, `Facts` and `Said`.  `AcceptanceCovers` needs `FlatCompanions`:
`add_companions` computes what is short once, before it adds, so an add-on with a
companion of its own would leave that one short though it was accepted in the same
message (with a chain of three products TLC shows it).  The repository's
`kb/catalog.json` has no such chain, nor has the catalog of the runs.

*Resolution.* The code sorts the candidates and takes the first ones; the model asks
for the candidate with so many before it.  `Before` is a strict total order, so the
counts of those before are all different and below the number of candidates, and hence,
by cardinality, take each value once (`BestIs`).  With that the first and the runner-up
are what they are called (`FirstIs`, `RunnerUpIs`), the margin is the one between the
winner and all the others (`ClearIs`), and `resolve_skus` settles on a winner exactly
when there is one (`SettledIs`).  An exchange of two candidates carries winners to
winners (`ExchangeKeeps`), so a single winner is found wherever it stands; of several
(`Winners` says when there are) it is the first one (`WinnerSettles`).  The
invariant is that the candidates are distinct and in scope and that the line is what
`resolve_skus` makes of them; `KnownOutcomesOnly` is what `OrderGraph` assumes of it.

*Sessions.* Everything rests on what the turn in progress has still to do.  A turn
may fail before or after its work on the cart, after the frame that shows its
reply, and before or after its recording; the second attempt begins from what
that left.  `Unrecorded`: the history has the turn in progress nowhere, since a
turn ends with its record and an attempt that has recorded is not retried; with
the histories in order this is inductive (`TurnsRecordedOnce`).  `GivenOnce`: the
cart a turn was given has its line once less than the submissions taken up allow,
its draft as often at most; hence neither attempt can add it twice, whoever
commits (`LinesAddedOnce`, by cardinalities of the submissions taken up).
`ThreadsOwned`: a session *uses* the thread its page has, the one its turn was
given, and those its turns are recorded in; a thread past the default has been
created and one session uses it.  `thread_state` alone would not do: *New ticket*
changes it while a turn runs on with the old thread (`ThreadsApart`).
`ChatsPast`: no chat, on a page or sent along with a submission, shows a message
not taken up yet, so the reply to the latest message was written with its cart
(`CartBesideReply`).  `SentOnce`: an attempt has sent one order at most, none
before it has run; with it each step is one of `MessagePromise`'s or a stutter
(`SessionKeepsPromise`).

*The question loop.* `Found` says what a node finds: `seed` an empty loop, the
later ones a message of the model's as the last one, with calls for the tools and
none for the others.  `Paired`: the history is whole turns, so a cut at an even
place leaves whole turns; the prompt then stays at the head of the messages, which
only grow (`Prompted`).  `CallsWait`: every message but the one the tools are
about to run has its answers behind it.  So the set of answered escalations gains
nothing when the model speaks, and exactly its last message's when the tools have
run: `KnownTickets` counts them.  `Bounded`: a round of the model and the tools
takes two steps and opens at most `MaxCalls` tickets, also when it fails half way;
with the limit that gives `QuestionNode` its bound (`NodeImplemented`).

*Only model-checked:* the liveness properties `EveryMessageEnds` and `QuestionEnds`,
which are out of the prover's reach.  Some auxiliary invariants (`Facts`,
`Said`, `GivenOnce` ...) are in no run: they were found by proof, and the properties they
imply are those the runs check.

## 6. Where the code and its documentation disagree

Each is a run that TLC finds violated; `PROJECT.json` quotes the sentences.

- `AddedLineIsOffered`: `validate` previews the cart before units become cases;
  a container ordered in units counts as none and its lid is not offered when a
  case of lids is there.
- `NoOverOrderLands`: stock is compared with the amount of the operation, not
  with what the line becomes; repeated adds exceed it.
- `SteppedLineIsPriced`: a line of two cases, and `-`, `-`, `+` on the panel as it
  was drawn: the `+` brings the line back without price and name.
- `SizeNamesOne`: a size that several candidates have settles the phrase, on the best
  one or, between equals, on the one the index returned first; the catalog's suppliers
  sell identical products.
- `OneOrderPerMessage`: the stream fails after `draft` has submitted (or in
  `record_turn`, when the customer has already seen the confirmation), and the
  silent second attempt submits again.
- `LinesComeWithTheirMessage`: the last frame of a turn writes the cart computed
  from the one it began with, so what *New ticket* or the panel removed meanwhile
  comes back.

The passing properties state what holds beside these: `LandsOrderable` claims
stock as in-stock, not as enough; `AcceptedMeansCovered` and `OfferedMeansOpen`
are about operations counted in cases (`CountedInCases`), the second about turns
whose lines all landed.  `NothingDropped` says of a line resolved between 0.5 and 0.6
that it is asked about, not that it stays out: `apply` does not look at the
confidence, so it is in the cart while the gate asks which product was meant.
`SettledOnWinner` and `OrderDoesNotMatter` leave the ties by name and by size to
the index.

## 7. Not modelled

Texts (prompts, wording, redaction's regular expressions, tokens of names),
embeddings and the index, JSON loading, HTML and the page's script, tracing,
configuration, evaluations: none of them holds state a turn depends on, or it is
I/O.  `get_price` only decorates a line.  `item_memory` is never passed in
production; `Resolution` has it, `OrderGraph` does not.  `redact` keeps the `raw_message` field, so the
unredacted text is in the checkpoint although `README.md:196-198` says otherwise;
that is about a text, and no module has texts.

A browser that disconnects during a turn, a call that hangs, the launch of the
server and its layout are not modelled.  Stock is a constant: the mock reads its
table once, when it is built.  The rest of the catalog repositories - embeddings,
the FAISS index, the loading of the JSON file - is numerical or I/O; what it
returns is any list of scored SKUs in scope.

## 8. Plan

Done, in this order: Cart, Rules and Coverage, OrderGraph with OrderDesk,
Resolution, the proofs about OrderGraph, Session with MessagePromise, Question
with QuestionNode, the proofs about Session, Question, Cart and Resolution, and those
about offers.  Every safety property that a run checks is now a theorem.  What could
still be added:

1. **Exchanges to reorderings**: `AnyOrderSettles` is about exchanging two candidates;
   that every reordering is a series of exchanges is left to the reader.
2. **Offers in units**: a statement of what `AcceptedMeansCovered` becomes when lines are
   counted in units (`AddedLineIsOffered` of section 6 shows what does not hold).
3. **Chained companions**: the weakest condition on a catalog under which
   `AcceptanceCovers` holds.
