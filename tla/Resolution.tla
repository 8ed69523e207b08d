----------------------------- MODULE Resolution -----------------------------
(***************************************************************************)
(* resolve_skus of src/src/domain/resolution.py: which SKU a phrase means, *)
(* given the retriever's scored candidates and what was learned about the  *)
(* phrase.  The texts are abstracted to what the function asks of them: of *)
(* each candidate whether one of its names is contained in the phrase      *)
(* (named), whether its size is a word of the phrase (sized) and whether a *)
(* word that is not a size occurs in both (kin).                           *)
(*                                                                         *)
(* The machine resolves one phrase after the other; it is resolve_node's   *)
(* loop, with the retriever scoped to the selected suppliers.              *)
(***************************************************************************)
EXTENDS Catalog, FiniteSets

MIN_SCORE == 50
MARGIN == 15
MEMORY_CONFIDENCE == 95
ALIAS_CONFIDENCE == 90
AMBIGUOUS_CONFIDENCE == 40

CONSTANTS
  Scores,         \* similarity scores the retriever may give
  Remembered,     \* SKUs the memory may have for a phrase
  Evidence,       \* what the texts may tell of a candidate: [named, sized, kin]
  MaxCandidates   \* bound of the runs: candidates per phrase (find_candidates' k)

Candidate == [sku: SKUs, score: Scores, text: Evidence]

ASSUME ResolutionAssumption ==
  /\ Scores \subseteq Percent
  /\ Remembered \subseteq SKUs
  /\ Evidence \subseteq [named: BOOLEAN, sized: BOOLEAN, kin: BOOLEAN]
  /\ MaxCandidates \in Nat

VARIABLES
  scope,       \* the suppliers retrieval is scoped to
  candidates,  \* what the retriever returned for the phrase
  remembered,  \* the SKU the memory has for the phrase, or NULL
  line         \* the resolved line, or NULL before it is

vars == <<scope, candidates, remembered, line>>

-----------------------------------------------------------------------------
\* What resolution writes into a line.  options are the SKUs whose names are
\* offered.
Line(sku, supplier, confidence, options) ==
  [sku |-> sku, supplier |-> supplier, confidence |-> confidence, options |-> options]

\* Mutant of _resolved: two arguments are swapped.
ResolvedSwapped(sku, confidence) == Line(SupplierOf[sku], sku, confidence, <<>>)

_resolved(sku, confidence) == Line(sku, SupplierOf[sku], confidence, <<>>)

\* Position i comes before j when the candidates are sorted by score, best first
\* and otherwise as they were (Python's sort is stable, its max takes the first).
Before(found, i, j) ==
  found[i].score > found[j].score \/ (found[i].score = found[j].score /\ i < j)

\* The n-th best of a set of positions.
Best(found, positions, n) ==
  CHOOSE i \in positions : Cardinality({j \in positions : Before(found, j, i)}) = n - 1

\* The first candidate a name of which is contained in the phrase.
NamedAt(found) == {i \in DOMAIN found : found[i].text.named}
_exact_match(found) ==
  found[CHOOSE i \in NamedAt(found) : \A j \in NamedAt(found) : i <= j].sku

\* The best of the candidates of the phrase's size and family.
SizedAt(found) == {i \in DOMAIN found : found[i].text.sized /\ found[i].text.kin}
_size_match(found) == found[Best(found, SizedAt(found), 1)].sku

\* Mutant of Top: the candidates are not sorted.
TopAsFound(found) == found[1]

\* A clearly best candidate: strong, and well ahead of the runner-up.
Top(found) == found[Best(found, DOMAIN found, 1)]
RunnerUp(found) == IF Len(found) > 1 THEN found[Best(found, DOMAIN found, 2)].score ELSE 0

\* Mutants of ClearlyBest: one of its two conditions is forgotten.
BestIfAhead(found) == Top(found).score - RunnerUp(found) >= MARGIN
BestIfStrong(found) == Top(found).score >= MIN_SCORE

ClearlyBest(found) ==
  Top(found).score >= MIN_SCORE /\ Top(found).score - RunnerUp(found) >= MARGIN

\* Mutant of Options: the first three.
OptionsAsFound(found) ==
  [n \in 1..(IF Len(found) < 3 THEN Len(found) ELSE 3) |-> found[n].sku]

\* The names to offer: the three best.
Options(found) ==
  [n \in 1..(IF Len(found) < 3 THEN Len(found) ELSE 3) |-> found[Best(found, DOMAIN found, n)].sku]

resolve_skus(found, known) ==
  CASE known # NULL /\ known \in {found[i].sku : i \in DOMAIN found} ->
         _resolved(known, MEMORY_CONFIDENCE)
    [] known # NULL /\ known \notin {found[i].sku : i \in DOMAIN found} ->
         Line(known, NULL, MEMORY_CONFIDENCE, <<>>)
    [] known = NULL /\ found = <<>> -> Line(NULL, NULL, 0, <<>>)
    [] known = NULL /\ found # <<>> ->
         CASE NamedAt(found) # {} -> _resolved(_exact_match(found), ALIAS_CONFIDENCE)
           [] NamedAt(found) = {} /\ SizedAt(found) # {} ->
                _resolved(_size_match(found), ALIAS_CONFIDENCE)
           [] NamedAt(found) = {} /\ SizedAt(found) = {} /\ ClearlyBest(found) ->
                _resolved(Top(found).sku, Top(found).score)
           [] NamedAt(found) = {} /\ SizedAt(found) = {} /\ ~ ClearlyBest(found) ->
                Line(NULL, NULL, AMBIGUOUS_CONFIDENCE, Options(found))

-----------------------------------------------------------------------------
\* The retriever's hits, one after the other: at most k, each SKU once, of the
\* suppliers in scope, in the order of the index.
find_candidates ==
  /\ line = NULL
  /\ Len(candidates) < MaxCandidates
  /\ \E hit \in Candidate :
       /\ SupplierOf[hit.sku] \in scope
       /\ \A i \in DOMAIN candidates : candidates[i].sku # hit.sku
       /\ candidates' = Append(candidates, hit)
  /\ UNCHANGED <<scope, remembered, line>>

resolve_node ==
  /\ line = NULL
  /\ line' = resolve_skus(candidates, remembered)
  /\ UNCHANGED <<scope, candidates, remembered>>

\* The loop goes on to the next phrase.
NextPhrase ==
  /\ line # NULL
  /\ line' = NULL
  /\ candidates' = <<>>
  /\ remembered' \in Remembered \cup {NULL}
  /\ UNCHANGED scope

Init ==
  /\ scope \in (SUBSET Suppliers) \ {{}}
  /\ candidates = <<>>
  /\ remembered \in Remembered \cup {NULL}
  /\ line = NULL

Next == find_candidates \/ resolve_node \/ NextPhrase

Spec == Init /\ [][Next]_vars

-----------------------------------------------------------------------------
TypeOK ==
  /\ scope \subseteq Suppliers
  /\ candidates \in Seq(Candidate)
  /\ remembered \in SKUs \cup {NULL}
  /\ line \in {NULL} \cup [sku: SKUs \cup {NULL}, supplier: Suppliers \cup {NULL},
                           confidence: Percent, options: Seq(SKUs)]

\* Without a memory there are only the outcomes OrderGraph's resolve_node chooses
\* from: nothing found, nothing chosen but something to offer, or a SKU in scope
\* with its own supplier and no confidence between the weak and MIN_SCORE.
OnlyKnownOutcomes ==
  line # NULL /\ remembered = NULL =>
    \/ line.sku = NULL /\ line.supplier = NULL /\ line.confidence = 0 /\ line.options = <<>>
    \/ /\ line.sku = NULL /\ line.supplier = NULL /\ line.confidence = AMBIGUOUS_CONFIDENCE
       /\ line.options # <<>>
    \/ /\ line.sku # NULL
       /\ line.supplier = SupplierOf[line.sku]
       /\ line.supplier \in scope
       /\ line.confidence \in MIN_SCORE..100
       /\ line.options = <<>>

\* The candidates that the phrase could be settled on: any that is named; or else
\* of those of its size and family any that none of them outscores; or else, on
\* plain scores, the one that beats every other by the margin.
Winners(found) ==
  LET plain == NamedAt(found) = {} /\ SizedAt(found) = {}
  IN  {i \in DOMAIN found :
         \/ found[i].text.named
         \/ NamedAt(found) = {} /\ i \in SizedAt(found)
              /\ \A j \in SizedAt(found) : found[j].score <= found[i].score
         \/ plain /\ found[i].score >= MIN_SCORE /\ found[i].score >= MARGIN
              /\ \A j \in DOMAIN found \ {i} : found[i].score >= found[j].score + MARGIN}

\* A phrase is settled exactly when something wins, and on a winner.  On plain
\* scores there is one at most: a near tie is asked about.  A tie by name, or by
\* size with equal scores, is settled all the same, on the winner that the index
\* returned first.
SettledOnWinner ==
  line # NULL /\ remembered = NULL =>
    /\ line.sku # NULL <=> Winners(candidates) # {}
    /\ line.sku # NULL => \E i \in Winners(candidates) :
                            /\ candidates[i].sku = line.sku
                            /\ \A j \in Winners(candidates) : i <= j

\* With one winner, the order of the candidates does not matter: exchanging any
\* two of them (and so, every list being reachable, any reordering) gives the
\* same line.  The ties just named, of several winners, are the ones it decides.
Exchanged(found, i, j) == [found EXCEPT ![i] = found[j], ![j] = found[i]]
OrderDoesNotMatter ==
  line # NULL /\ remembered = NULL /\ Cardinality(Winners(candidates)) = 1 =>
    \A i, j \in DOMAIN candidates : resolve_skus(Exchanged(candidates, i, j), NULL) = line

\* What is offered is what was found, the best first and nothing twice.
OffersBestFirst ==
  line # NULL /\ line.options # <<>> =>
    /\ \A n \in DOMAIN line.options : \E i \in DOMAIN candidates : candidates[i].sku = line.options[n]
    /\ \A i \in DOMAIN candidates, n \in DOMAIN line.options :
         candidates[i].sku = line.options[n] =>
           \A m \in 1..(n - 1), j \in DOMAIN candidates :
             candidates[j].sku = line.options[m] =>
               j # i /\ candidates[j].score >= candidates[i].score
    /\ \A i \in DOMAIN candidates :
         candidates[i].sku \notin {line.options[n] : n \in DOMAIN line.options} =>
           \A j \in DOMAIN candidates, n \in DOMAIN line.options :
             candidates[j].sku = line.options[n] => candidates[j].score >= candidates[i].score
=============================================================================
