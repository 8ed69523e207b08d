-------------------------- MODULE ResolutionProofs --------------------------
(***************************************************************************)
(* What resolve_skus settles a phrase on and what it offers otherwise, for *)
(* any list of candidates, scores and evidence.  The code sorts and takes  *)
(* the first; the model asks for the one with so many before it.  The      *)
(* lemmas show that there always is one, and what it means to be it.       *)
(***************************************************************************)
EXTENDS Resolution, LoopProofs, FiniteSetTheorems, SequenceTheorems

(***************************************************************************)
(* The candidates in order.                                                *)
(***************************************************************************)

Found == Seq(Candidate)

\* The positions that come before i.
Ahead(found, positions, i) == {j \in positions : Before(found, j, i)}

LEMMA FoundIs ==
  ASSUME NEW found \in Found
  PROVE  /\ Len(found) \in Nat /\ DOMAIN found = 1..Len(found)
         /\ \A i \in DOMAIN found :
              found[i].sku \in SKUs /\ found[i].score \in Percent /\ found[i].score \in Int
<1>1. Len(found) \in Nat /\ DOMAIN found = 1..Len(found)
  BY DEF Found
<1>2. \A i \in DOMAIN found : found[i] \in Candidate
  BY DEF Found
<1>3. \A c \in Candidate : c.sku \in SKUs /\ c.score \in Scores
  BY DEF Candidate
<1>4. Scores \subseteq Percent /\ Percent \subseteq Int
  BY ResolutionAssumption DEF Percent
<1> QED
  BY <1>1, <1>2, <1>3, <1>4

\* Sorting is by a strict total order: two candidates never tie.
LEMMA BeforeIsOrder ==
  ASSUME NEW found \in Found
  PROVE  /\ \A i \in DOMAIN found : ~ Before(found, i, i)
         /\ \A i, j, k \in DOMAIN found :
              Before(found, i, j) /\ Before(found, j, k) => Before(found, i, k)
         /\ \A i, j \in DOMAIN found : i = j \/ Before(found, i, j) \/ Before(found, j, i)
<1>1. \A i \in DOMAIN found : i \in Int /\ found[i].score \in Int
  BY FoundIs
<1> QED
  BY <1>1 DEF Before

LEMMA PositionsFinite ==
  ASSUME NEW found \in Found, NEW positions \in SUBSET DOMAIN found
  PROVE  /\ IsFiniteSet(positions) /\ Cardinality(positions) \in Nat
         /\ \A i : IsFiniteSet(Ahead(found, positions, i))
         /\ \A i : Cardinality(Ahead(found, positions, i)) \in Nat
<1>1. IsFiniteSet(DOMAIN found)
  BY FoundIs, FS_Interval
<1>2. IsFiniteSet(positions)
  BY <1>1, FS_Subset
<1>3. \A i : Ahead(found, positions, i) \in SUBSET positions
  BY DEF Ahead
<1>4. \A i : IsFiniteSet(Ahead(found, positions, i))
  BY <1>2, <1>3, FS_Subset
<1> QED
  BY <1>2, <1>4, FS_CardinalityType

\* Whoever comes later has more before it, and never all.
LEMMA AheadGrows ==
  ASSUME NEW found \in Found, NEW positions \in SUBSET DOMAIN found, NEW j \in positions
  PROVE  /\ \A i \in positions : Before(found, i, j) =>
              Cardinality(Ahead(found, positions, i)) < Cardinality(Ahead(found, positions, j))
         /\ Cardinality(Ahead(found, positions, j)) < Cardinality(positions)
<1> DEFINE A(i) == Ahead(found, positions, i)
<1>1. ASSUME NEW S, NEW T, IsFiniteSet(T), NEW x \in T, S \subseteq T, x \notin S
      PROVE  Cardinality(S) < Cardinality(T)
  <2>1. IsFiniteSet(S) /\ Cardinality(S) <= Cardinality(T) /\ (Cardinality(T) = Cardinality(S) => T = S)
    BY <1>1, FS_Subset
  <2>2. Cardinality(S) \in Nat /\ Cardinality(T) \in Nat
    BY <1>1, <2>1, FS_CardinalityType
  <2> QED
    BY <1>1, <2>1, <2>2
<1>2. ASSUME NEW i \in positions, Before(found, i, j)
      PROVE  Cardinality(A(i)) < Cardinality(A(j))
  <2>1. A(i) \subseteq A(j) /\ i \in A(j) /\ i \notin A(i)
    BY <1>2, BeforeIsOrder DEF Ahead
  <2> QED
    BY <1>1, <2>1, PositionsFinite
<1>3. A(j) \subseteq positions /\ j \notin A(j)
  BY BeforeIsOrder DEF Ahead
<1> QED
  BY <1>1, <1>2, <1>3, PositionsFinite

LEMMA AheadOrders ==
  ASSUME NEW found \in Found, NEW positions \in SUBSET DOMAIN found,
         NEW i \in positions, NEW j \in positions
  PROVE  /\ Cardinality(Ahead(found, positions, i)) < Cardinality(Ahead(found, positions, j))
              <=> Before(found, i, j)
         /\ Cardinality(Ahead(found, positions, i)) = Cardinality(Ahead(found, positions, j))
              <=> i = j
<1>1. /\ Before(found, i, j) =>
           Cardinality(Ahead(found, positions, i)) < Cardinality(Ahead(found, positions, j))
      /\ Before(found, j, i) =>
           Cardinality(Ahead(found, positions, j)) < Cardinality(Ahead(found, positions, i))
  BY AheadGrows
<1>2. i = j \/ Before(found, i, j) \/ Before(found, j, i)
  BY BeforeIsOrder
<1>3. ~ Before(found, i, i)
  BY BeforeIsOrder
<1>4. /\ Cardinality(Ahead(found, positions, i)) \in Nat
      /\ Cardinality(Ahead(found, positions, j)) \in Nat
  BY PositionsFinite
<1> HIDE DEF Ahead
<1> QED
  BY <1>1, <1>2, <1>3, <1>4

\* So, counted, the positions are numbered from 0 without a gap: there is an n-th
\* best one for each n.
LEMMA BestIs ==
  ASSUME NEW found \in Found, NEW positions \in SUBSET DOMAIN found,
         NEW n \in 1..Cardinality(positions)
  PROVE  /\ Best(found, positions, n) \in positions
         /\ Cardinality(Ahead(found, positions, Best(found, positions, n))) = n - 1
<1> DEFINE size == Cardinality(positions)
           rank == [i \in positions |-> Cardinality(Ahead(found, positions, i)) + 1]
<1>1. size \in Nat /\ IsFiniteSet(positions)
  BY PositionsFinite
<1>2. \A i \in positions : rank[i] \in 1..size
  BY <1>1, AheadGrows, PositionsFinite
<1>3. \A i, j \in positions : rank[i] = rank[j] => i = j
  BY AheadOrders, PositionsFinite
<1>4. rank \in Injection(positions, 1..size)
  BY <1>2, <1>3 DEF Injection, IsInjective
<1>5. IsFiniteSet(1..size) /\ Cardinality(1..size) = size
  BY <1>1, FS_Interval
<1>6. rank \in Surjection(positions, 1..size)
  BY <1>4, <1>5, FS_Injection
<1>7. PICK i \in positions : rank[i] = n
  BY <1>6 DEF Surjection
<1>8. Cardinality(Ahead(found, positions, i)) = n - 1
  BY <1>7, PositionsFinite
<1>9. \E k \in positions : Cardinality({j \in positions : Before(found, j, k)}) = n - 1
  BY <1>8 DEF Ahead
<1> QED
  BY <1>9 DEF Best, Ahead

\* The first one beats all others, and is the only one that does.
LEMMA FirstIs ==
  ASSUME NEW found \in Found, NEW positions \in SUBSET DOMAIN found, positions # {}
  PROVE  /\ Best(found, positions, 1) \in positions
         /\ \A j \in positions \ {Best(found, positions, 1)} :
              Before(found, Best(found, positions, 1), j)
         /\ \A j \in positions : found[j].score <= found[Best(found, positions, 1)].score
<1> DEFINE b == Best(found, positions, 1)
<1>1. Cardinality(positions) \in Nat /\ Cardinality(positions) # 0
  BY PositionsFinite, FS_EmptySet
<1>2. 1 \in 1..Cardinality(positions)
  BY <1>1
<1>3. b \in positions /\ Cardinality(Ahead(found, positions, b)) = 0
  BY <1>2, BestIs
<1> HIDE DEF b
<1>4. ASSUME NEW j \in positions \ {b} PROVE Before(found, b, j)
  <2>1. ~ Cardinality(Ahead(found, positions, j)) < Cardinality(Ahead(found, positions, b))
    <3>1. Cardinality(Ahead(found, positions, j)) \in Nat
      BY PositionsFinite
    <3> QED
      BY <1>3, <3>1
  <2> QED
    BY <1>3, <2>1, AheadOrders, BeforeIsOrder
<1>5. \A j \in positions : found[j].score <= found[b].score
  BY <1>3, <1>4, FoundIs DEF Before
<1> QED
  BY <1>3, <1>4, <1>5 DEF b

\* The second one beats all others but the first.
LEMMA RunnerUpIs ==
  ASSUME NEW found \in Found, Len(found) > 1
  PROVE  \E second \in DOMAIN found \ {Best(found, DOMAIN found, 1)} :
           /\ RunnerUp(found) = found[second].score
           /\ \A j \in DOMAIN found \ {Best(found, DOMAIN found, 1)} :
                found[j].score <= found[second].score
<1> DEFINE all == DOMAIN found
           first == Best(found, all, 1)
           second == Best(found, all, 2)
<1>1. all \in SUBSET DOMAIN found /\ all = 1..Len(found) /\ Cardinality(all) = Len(found)
  BY FoundIs, FS_Interval
<1>2. 1 \in 1..Cardinality(all) /\ 2 \in 1..Cardinality(all)
  BY <1>1, FoundIs
<1>3. first \in all /\ Cardinality(Ahead(found, all, first)) = 0
  BY <1>1, <1>2, BestIs
<1>4. second \in all /\ Cardinality(Ahead(found, all, second)) = 1
  BY <1>1, <1>2, BestIs
<1>5. RunnerUp(found) = found[second].score
  BY DEF RunnerUp
<1> HIDE DEF all, first, second
<1>6. first # second
  BY <1>3, <1>4
<1>7. ASSUME NEW j \in all \ {first} PROVE found[j].score <= found[second].score
  <2>1. CASE j = second
    BY <1>1, <1>4, <2>1, FoundIs
  <2>2. CASE j # second
    <3>1. Cardinality(Ahead(found, all, j)) # 0 /\ Cardinality(Ahead(found, all, j)) # 1
      BY <1>1, <1>3, <1>4, <1>7, <2>2, AheadOrders
    <3>2. Cardinality(Ahead(found, all, second)) < Cardinality(Ahead(found, all, j))
      BY <1>1, <1>4, <3>1, PositionsFinite
    <3>3. Before(found, second, j)
      BY <1>1, <1>4, <3>2, AheadOrders
    <3> QED
      BY <1>1, <1>4, <3>3, FoundIs DEF Before
  <2> QED
    BY <2>1, <2>2
<1> QED
  BY <1>4, <1>5, <1>6, <1>7 DEF all, first, second

\* A candidate that is strong and ahead of every other one by the margin.
Clear(found, i) ==
  /\ i \in DOMAIN found
  /\ found[i].score >= MIN_SCORE /\ found[i].score >= MARGIN
  /\ \A j \in DOMAIN found \ {i} : found[i].score >= found[j].score + MARGIN

\* There is at most one, and ClearlyBest says that the first is it.
LEMMA ClearIs ==
  ASSUME NEW found \in Found, found # <<>>
  PROVE  /\ ClearlyBest(found) <=> Clear(found, Best(found, DOMAIN found, 1))
         /\ \A i : Clear(found, i) => i = Best(found, DOMAIN found, 1)
<1> DEFINE first == Best(found, DOMAIN found, 1)
<1>1. Len(found) \in Nat /\ DOMAIN found = 1..Len(found) /\ Len(found) # 0
  BY FoundIs DEF Found
<1>2. first \in DOMAIN found /\ \A j \in DOMAIN found : found[j].score <= found[first].score
  <2>1. DOMAIN found # {} /\ DOMAIN found \in SUBSET DOMAIN found
    BY <1>1
  <2> QED
    BY <2>1, FirstIs
<1>3. Top(found) = found[first]
  BY DEF Top
<1>4. RunnerUp(found) \in Int
  <2>1. CASE Len(found) > 1
    BY <2>1, RunnerUpIs, FoundIs
  <2>2. CASE ~ Len(found) > 1
    BY <2>2 DEF RunnerUp
  <2> QED
    BY <2>1, <2>2
<1> HIDE DEF first
<1>5. \A i \in DOMAIN found : found[i].score \in Int
  BY FoundIs
<1>6. CASE Len(found) > 1
  <2>1. PICK second \in DOMAIN found \ {first} :
               /\ RunnerUp(found) = found[second].score
               /\ \A j \in DOMAIN found \ {first} : found[j].score <= found[second].score
    BY <1>6, RunnerUpIs DEF first
  <2>2. ClearlyBest(found) <=> found[first].score >= 50 /\ found[first].score - found[second].score >= 15
    BY <1>3, <2>1 DEF ClearlyBest, MIN_SCORE, MARGIN
  <2>3. Clear(found, first) => ClearlyBest(found)
    BY <1>2, <1>5, <2>1, <2>2 DEF Clear, MIN_SCORE, MARGIN
  <2>4. ClearlyBest(found) => Clear(found, first)
    BY <1>2, <1>5, <2>1, <2>2 DEF Clear, MIN_SCORE, MARGIN
  <2>5. \A i : Clear(found, i) => i = first
    BY <1>2, <1>5 DEF Clear, MARGIN
  <2> QED
    BY <2>3, <2>4, <2>5 DEF first
<1>7. CASE ~ Len(found) > 1
  <2>1. DOMAIN found = {first}
    BY <1>1, <1>2, <1>7
  <2>2. ClearlyBest(found) <=> found[first].score >= 50 /\ found[first].score - 0 >= 15
    BY <1>3, <1>7 DEF ClearlyBest, RunnerUp, MIN_SCORE, MARGIN
  <2>3. Clear(found, first) <=> found[first].score >= 50 /\ found[first].score >= 15
    BY <2>1 DEF Clear, MIN_SCORE, MARGIN
  <2>4. \A i : Clear(found, i) => i = first
    BY <2>1 DEF Clear
  <2> QED
    BY <1>2, <1>5, <2>2, <2>3, <2>4 DEF first
<1> QED
  BY <1>6, <1>7

(***************************************************************************)
(* What resolve_skus makes of a phrase without a memory.                   *)
(***************************************************************************)

\* The confidence a winner is settled with.
Confidence(found, i) ==
  IF NamedAt(found) = {} /\ SizedAt(found) = {} THEN found[i].score ELSE ALIAS_CONFIDENCE

\* It is settled on a winner, or there is none.
LEMMA SettledIs ==
  ASSUME NEW found \in Found
  PROVE  /\ Winners(found) # {} =>
              \E i \in Winners(found) :
                /\ \A j \in Winners(found) : i <= j
                /\ resolve_skus(found, NULL) = _resolved(found[i].sku, Confidence(found, i))
         /\ Winners(found) = {} =>
              resolve_skus(found, NULL) =
                IF found = <<>> THEN Line(NULL, NULL, 0, <<>>)
                ELSE Line(NULL, NULL, AMBIGUOUS_CONFIDENCE, Options(found))
<1>1. /\ Len(found) \in Nat /\ DOMAIN found = 1..Len(found)
      /\ \A i \in DOMAIN found : i \in Int /\ found[i].score \in Int
  BY FoundIs
<1>2. CASE found = <<>>
  <2>1. resolve_skus(found, NULL) = Line(NULL, NULL, 0, <<>>)
    BY <1>2 DEF resolve_skus
  <2>2. Winners(found) = {}
    BY <1>2 DEF Winners
  <2> QED
    BY <1>2, <2>1, <2>2
<1>3. CASE found # <<>> /\ NamedAt(found) # {}
  <2>1. resolve_skus(found, NULL) = _resolved(_exact_match(found), ALIAS_CONFIDENCE)
    BY <1>3 DEF resolve_skus
  <2>2. NamedAt(found) \in SUBSET Nat
    BY <1>1 DEF NamedAt
  <2>3. \E i \in NamedAt(found) : \A j \in NamedAt(found) : i <= j
    BY <1>3, <2>2, LeastElement
  <2>4. PICK i \in NamedAt(found) : /\ \A j \in NamedAt(found) : i <= j
                                    /\ _exact_match(found) = found[i].sku
    BY <2>3 DEF _exact_match
  <2>5. i \in Winners(found) /\ Confidence(found, i) = ALIAS_CONFIDENCE
    BY <1>3, <2>4 DEF Winners, NamedAt, Confidence
  <2>6. Winners(found) \subseteq NamedAt(found)
    BY <1>3 DEF Winners, NamedAt
  <2> QED
    BY <2>1, <2>4, <2>5, <2>6
<1>4. CASE found # <<>> /\ NamedAt(found) = {} /\ SizedAt(found) # {}
  <2>1. resolve_skus(found, NULL) = _resolved(_size_match(found), ALIAS_CONFIDENCE)
    BY <1>4 DEF resolve_skus
  <2> DEFINE i == Best(found, SizedAt(found), 1)
  <2>2. SizedAt(found) \in SUBSET DOMAIN found
    BY DEF SizedAt
  <2>3. /\ i \in SizedAt(found)
        /\ \A j \in SizedAt(found) : found[j].score <= found[i].score
        /\ \A j \in SizedAt(found) \ {i} : Before(found, i, j)
    BY <1>4, <2>2, FirstIs
  <2>4. _size_match(found) = found[i].sku
    BY DEF _size_match
  <2> HIDE DEF i
  <2>5. i \in Winners(found) /\ Confidence(found, i) = ALIAS_CONFIDENCE
    BY <1>4, <2>2, <2>3 DEF Winners, Confidence
  <2>6. ASSUME NEW j \in Winners(found) PROVE i <= j
    <3>1. j \in SizedAt(found) /\ found[i].score <= found[j].score
      BY <1>4, <2>3 DEF Winners, NamedAt
    <3>2. i = j \/ Before(found, i, j)
      BY <2>3, <3>1
    <3> QED
      BY <1>1, <2>2, <2>3, <3>1, <3>2 DEF Before
  <2> QED
    BY <2>1, <2>4, <2>5, <2>6
<1>5. CASE found # <<>> /\ NamedAt(found) = {} /\ SizedAt(found) = {}
  <2>1. Winners(found) = {i \in DOMAIN found : Clear(found, i)}
    BY <1>5 DEF Winners, Clear, NamedAt
  <2> DEFINE i == Best(found, DOMAIN found, 1)
  <2>2. CASE ClearlyBest(found)
    <3>1. resolve_skus(found, NULL) = _resolved(Top(found).sku, Top(found).score)
      BY <1>5, <2>2 DEF resolve_skus
    <3>2. Clear(found, i)
      BY <1>5, <2>2, ClearIs
    <3>3. Top(found) = found[i]
      BY DEF Top
    <3>4. \A j \in Winners(found) : j = i
      BY <2>1, ClearIs
    <3> HIDE DEF i
    <3>5. i \in Winners(found) /\ Confidence(found, i) = found[i].score
      BY <1>5, <2>1, <3>2 DEF Clear, Confidence
    <3>6. \A j \in Winners(found) : i <= j
      BY <1>1, <3>4, <3>5 DEF Winners
    <3> QED
      BY <3>1, <3>3, <3>5, <3>6
  <2>3. CASE ~ ClearlyBest(found)
    <3>1. resolve_skus(found, NULL) = Line(NULL, NULL, AMBIGUOUS_CONFIDENCE, Options(found))
      BY <1>5, <2>3 DEF resolve_skus
    <3>2. Winners(found) = {}
      BY <1>5, <2>1, <2>3, ClearIs
    <3> QED
      BY <1>5, <3>1, <3>2
  <2> QED
    BY <2>2, <2>3
<1> QED
  BY <1>2, <1>3, <1>4, <1>5

(***************************************************************************)
(* Exchanging two candidates.                                              *)
(***************************************************************************)

LEMMA ExchangedIs ==
  ASSUME NEW found \in Found, NEW i \in DOMAIN found, NEW j \in DOMAIN found
  PROVE  LET swap == [k \in DOMAIN found |-> IF k = i THEN j ELSE IF k = j THEN i ELSE k]
         IN  /\ Exchanged(found, i, j) \in Found
             /\ DOMAIN Exchanged(found, i, j) = DOMAIN found
             /\ \A k \in DOMAIN found : Exchanged(found, i, j)[k] = found[swap[k]]
             /\ swap \in [DOMAIN found -> DOMAIN found]
             /\ \A k \in DOMAIN found : swap[swap[k]] = k
<1> DEFINE swap == [k \in DOMAIN found |-> IF k = i THEN j ELSE IF k = j THEN i ELSE k]
<1>1. /\ Len(found) \in Nat /\ DOMAIN found = 1..Len(found)
      /\ \A k \in DOMAIN found : found[k] \in Candidate
      /\ found \in [1..Len(found) -> Candidate]
  BY FoundIs DEF Found
<1>2. \A f \in [1..Len(found) -> Candidate] : f \in Found
  BY <1>1 DEF Found
<1>3. Exchanged(found, i, j) \in [1..Len(found) -> Candidate]
  BY <1>1 DEF Exchanged
<1>4. DOMAIN Exchanged(found, i, j) = DOMAIN found
  BY <1>1 DEF Exchanged
<1>5. \A k \in DOMAIN found : Exchanged(found, i, j)[k] = found[swap[k]]
  BY <1>1 DEF Exchanged
<1> QED
  BY <1>1, <1>2, <1>3, <1>4, <1>5

\* What wins is the same candidate, wherever it stands, with the same confidence.
LEMMA ExchangeKeeps ==
  ASSUME NEW found \in Found, NEW ex \in Found, NEW swap \in [DOMAIN found -> DOMAIN found],
         DOMAIN ex = DOMAIN found,
         \A k \in DOMAIN found : ex[k] = found[swap[k]],
         \A k \in DOMAIN found : swap[swap[k]] = k
  PROVE  /\ \A k \in DOMAIN found : k \in Winners(ex) <=> swap[k] \in Winners(found)
         /\ \A k \in DOMAIN found : Confidence(ex, k) = Confidence(found, swap[k])
<1> DEFINE all == DOMAIN found
<1>1. \A k \in all : swap[k] \in all
  OBVIOUS
<1>2. \A k \in all : k \in NamedAt(ex) <=> swap[k] \in NamedAt(found)
  BY <1>1 DEF NamedAt
<1>3. \A k \in all : k \in SizedAt(ex) <=> swap[k] \in SizedAt(found)
  BY <1>1 DEF SizedAt
<1>4. NamedAt(ex) \subseteq all /\ NamedAt(found) \subseteq all
  BY DEF NamedAt
<1>5. SizedAt(ex) \subseteq all /\ SizedAt(found) \subseteq all
  BY DEF SizedAt
<1>6. NamedAt(ex) = {} <=> NamedAt(found) = {}
  BY <1>1, <1>2, <1>4
<1>7. SizedAt(ex) = {} <=> SizedAt(found) = {}
  BY <1>1, <1>3, <1>5
<1>8. ASSUME NEW k \in all
      PROVE  (\A j \in SizedAt(ex) : ex[j].score <= ex[k].score)
               <=> (\A j \in SizedAt(found) : found[j].score <= found[swap[k]].score)
  BY <1>1, <1>3, <1>5
<1>9. ASSUME NEW k \in all
      PROVE  (\A j \in all \ {k} : ex[k].score >= ex[j].score + MARGIN)
               <=> (\A j \in all \ {swap[k]} : found[swap[k]].score >= found[j].score + MARGIN)
  BY <1>1
<1>10. \A k \in all : Confidence(ex, k) = Confidence(found, swap[k])
  BY <1>6, <1>7 DEF Confidence
<1>11. ASSUME NEW k \in all PROVE k \in Winners(ex) <=> swap[k] \in Winners(found)
  <2>1. ex[k] = found[swap[k]] /\ swap[k] \in all
    BY <1>1
  <2> QED
    BY <1>3, <1>6, <1>7, <1>8, <1>9, <2>1 DEF Winners
<1> QED
  BY <1>10, <1>11

\* A single winner makes the same line in any order.
LEMMA OrderIrrelevant ==
  ASSUME NEW found \in Found, Cardinality(Winners(found)) = 1,
         NEW i \in DOMAIN found, NEW j \in DOMAIN found
  PROVE  resolve_skus(Exchanged(found, i, j), NULL) = resolve_skus(found, NULL)
<1> DEFINE all == DOMAIN found
           ex == Exchanged(found, i, j)
           swap == [k \in all |-> IF k = i THEN j ELSE IF k = j THEN i ELSE k]
<1>1. /\ ex \in Found /\ DOMAIN ex = all /\ \A k \in all : ex[k] = found[swap[k]]
      /\ swap \in [all -> all] /\ \A k \in all : swap[swap[k]] = k
  BY ExchangedIs
<1> HIDE DEF ex, swap
<1>2. Winners(found) \subseteq all /\ Winners(ex) \subseteq DOMAIN ex
  BY DEF Winners
<1>3. IsFiniteSet(Winners(found))
  BY <1>2, PositionsFinite
<1>4. PICK w : Winners(found) = {w}
  BY <1>3, FS_Singleton
<1>5. /\ \A k \in all : k \in Winners(ex) <=> swap[k] \in Winners(found)
      /\ \A k \in all : Confidence(ex, k) = Confidence(found, swap[k])
  BY <1>1, ExchangeKeeps
<1>6. Winners(ex) = {swap[w]} /\ swap[w] \in all /\ swap[swap[w]] = w /\ w \in all
  BY <1>1, <1>2, <1>4, <1>5
<1>7. resolve_skus(found, NULL) = _resolved(found[w].sku, Confidence(found, w))
  BY <1>4, SettledIs
<1>8. resolve_skus(ex, NULL) = _resolved(ex[swap[w]].sku, Confidence(ex, swap[w]))
  BY <1>1, <1>6, SettledIs
<1>9. ex[swap[w]] = found[w] /\ Confidence(ex, swap[w]) = Confidence(found, w)
  BY <1>1, <1>5, <1>6
<1> QED
  BY <1>7, <1>8, <1>9 DEF ex

(***************************************************************************)
(* What is offered.                                                        *)
(***************************************************************************)

\* The retriever gives a SKU once.
Distinct(found) == \A i, j \in DOMAIN found : found[i].sku = found[j].sku => i = j

LEMMA OptionsAre ==
  ASSUME NEW found \in Found, found # <<>>
  PROVE  \E m \in Nat \ {0} :
           /\ Options(found) \in [1..m -> SKUs]
           /\ \A n \in 1..m :
                /\ Best(found, DOMAIN found, n) \in DOMAIN found
                /\ Options(found)[n] = found[Best(found, DOMAIN found, n)].sku
                /\ Cardinality(Ahead(found, DOMAIN found, Best(found, DOMAIN found, n))) = n - 1
<1> DEFINE all == DOMAIN found
           m == IF Len(found) < 3 THEN Len(found) ELSE 3
<1>1. Len(found) \in Nat /\ all = 1..Len(found) /\ Len(found) # 0
  BY FoundIs DEF Found
<1>2. Cardinality(all) = Len(found)
  BY <1>1, FS_Interval
<1>3. m \in Nat \ {0} /\ \A n \in 1..m : n \in 1..Cardinality(all)
  BY <1>1, <1>2
<1>4. \A n \in 1..m : /\ Best(found, all, n) \in all
                      /\ Cardinality(Ahead(found, all, Best(found, all, n))) = n - 1
  BY <1>3, BestIs
<1>5. Options(found) = [n \in 1..m |-> found[Best(found, all, n)].sku]
  BY DEF Options
<1> HIDE DEF m
<1>6. \A n \in 1..m : found[Best(found, all, n)].sku \in SKUs
  BY <1>4, FoundIs
<1> QED
  BY <1>3, <1>4, <1>5, <1>6

LEMMA OptionsType ==
  ASSUME NEW found \in Found, found # <<>>
  PROVE  Options(found) \in Seq(SKUs) /\ Options(found) # <<>>
<1>1. PICK m \in Nat \ {0} : Options(found) \in [1..m -> SKUs]
  BY OptionsAre
<1>2. \A f \in [1..m -> SKUs] : f \in Seq(SKUs)
  OBVIOUS
<1>3. 1 \in 1..m /\ DOMAIN (<<>>) = {}
  OBVIOUS
<1> QED
  BY <1>1, <1>2, <1>3

\* The property of an offer, of the candidates it was made from.
Offered(found, options) ==
  /\ \A n \in DOMAIN options : \E i \in DOMAIN found : found[i].sku = options[n]
  /\ \A i \in DOMAIN found, n \in DOMAIN options :
       found[i].sku = options[n] =>
         \A m \in 1..(n - 1), j \in DOMAIN found :
           found[j].sku = options[m] => j # i /\ found[j].score >= found[i].score
  /\ \A i \in DOMAIN found :
       found[i].sku \notin {options[n] : n \in DOMAIN options} =>
         \A j \in DOMAIN found, n \in DOMAIN options :
           found[j].sku = options[n] => found[j].score >= found[i].score

LEMMA OptionsOffered ==
  ASSUME NEW found \in Found, found # <<>>, Distinct(found)
  PROVE  Offered(found, Options(found))
<1> DEFINE all == DOMAIN found
           ahead(i) == Cardinality(Ahead(found, all, i))
           at(n) == Best(found, all, n)
           options == Options(found)
<1>1. PICK m \in Nat \ {0} :
             /\ options \in [1..m -> SKUs]
             /\ \A n \in 1..m : /\ at(n) \in all /\ options[n] = found[at(n)].sku
                               /\ ahead(at(n)) = n - 1
  BY OptionsAre
<1> HIDE DEF options, at
<1>2. DOMAIN options = 1..m /\ \A n \in 1..m : options[n] = found[at(n)].sku /\ at(n) \in all
  BY <1>1
<1>3. \A i \in all : ahead(i) \in Nat
  BY PositionsFinite
<1>4. \A i, j \in all : (ahead(i) < ahead(j) <=> Before(found, i, j)) /\ (ahead(i) = ahead(j) <=> i = j)
  BY AheadOrders
<1>5. \A i, j \in all : Before(found, i, j) => found[i].score >= found[j].score
  BY FoundIs DEF Before
<1>6. \A i \in all, n \in 1..m : found[i].sku = options[n] => i = at(n)
  BY <1>2 DEF Distinct
<1> HIDE DEF ahead
<1>7. \A n \in DOMAIN options : \E i \in all : found[i].sku = options[n]
  BY <1>2
<1>8. ASSUME NEW i \in all, NEW n \in DOMAIN options, found[i].sku = options[n],
             NEW k \in 1..(n - 1), NEW j \in all, found[j].sku = options[k]
      PROVE  j # i /\ found[j].score >= found[i].score
  <2>1. n \in 1..m /\ k \in 1..m /\ k < n
    BY <1>2
  <2>2. i = at(n) /\ j = at(k)
    BY <1>6, <1>8, <2>1
  <2>3. ahead(i) = n - 1 /\ ahead(j) = k - 1
    BY <1>1, <2>1, <2>2
  <2>4. ahead(j) < ahead(i) /\ ahead(j) # ahead(i)
    BY <2>1, <2>3
  <2> QED
    BY <1>4, <1>5, <2>4
<1>9. ASSUME NEW i \in all, found[i].sku \notin {options[n] : n \in DOMAIN options},
             NEW j \in all, NEW n \in DOMAIN options, found[j].sku = options[n]
      PROVE  found[j].score >= found[i].score
  <2>1. n \in 1..m /\ j = at(n) /\ ahead(j) = n - 1
    BY <1>1, <1>2, <1>6, <1>9
  <2>2. \A k \in 1..m : i # at(k)
    BY <1>2, <1>9
  <2>3. \A k \in 1..m : ahead(i) # k - 1
    BY <1>1, <1>2, <1>4, <2>2
  <2>4. ~ ahead(i) < m
    <3>1. SUFFICES ASSUME ahead(i) < m PROVE FALSE
      OBVIOUS
    <3>2. ahead(i) + 1 \in 1..m /\ ahead(i) = (ahead(i) + 1) - 1
      BY <1>3, <3>1
    <3> QED
      BY <2>3, <3>2
  <2>5. ahead(j) < ahead(i)
    BY <1>3, <2>1, <2>4
  <2> QED
    BY <1>4, <1>5, <2>5
<1> QED
  BY <1>7, <1>8, <1>9 DEF Offered, options

(***************************************************************************)
(* The machine.                                                            *)
(***************************************************************************)

\* A line was resolved from the candidates as they are, which come from the scope,
\* each SKU once.
Inv ==
  /\ scope \subseteq Suppliers
  /\ candidates \in Found
  /\ Distinct(candidates)
  /\ \A i \in DOMAIN candidates : SupplierOf[candidates[i].sku] \in scope
  /\ remembered \in SKUs \cup {NULL}
  /\ line # NULL => line = resolve_skus(candidates, remembered)

LEMMA InvHolds == Spec => []Inv
<1>1. Init => Inv
  <2> SUFFICES ASSUME Init PROVE Inv
    OBVIOUS
  <2>1. candidates \in Found /\ DOMAIN candidates = {}
    BY DEF Init, Found
  <2> QED
    BY <2>1, ResolutionAssumption DEF Init, Inv, Distinct
<1>2. Inv /\ [Next]_vars => Inv'
  <2> SUFFICES ASSUME Inv, [Next]_vars PROVE Inv'
    OBVIOUS
  <2>1. CASE find_candidates
    <3>1. PICK hit \in Candidate :
                 /\ SupplierOf[hit.sku] \in scope
                 /\ \A i \in DOMAIN candidates : candidates[i].sku # hit.sku
                 /\ candidates' = Append(candidates, hit)
      BY <2>1 DEF find_candidates
    <3> DEFINE n == Len(candidates)
    <3>2. /\ candidates \in Seq(Candidate) /\ n \in Nat /\ DOMAIN candidates = 1..n
      BY FoundIs DEF Inv, Found
    <3>3. /\ candidates' \in Found /\ DOMAIN candidates' = 1..(n + 1)
          /\ \A i \in 1..n : candidates'[i] = candidates[i]
          /\ candidates'[n + 1] = hit
      BY <3>1, <3>2, AppendProperties DEF Found
    <3> HIDE DEF n
    <3>4. \A i \in 1..(n + 1) : i \in 1..n \/ i = n + 1
      BY <3>2
    <3>5. Distinct(candidates)'
      BY <3>1, <3>2, <3>3, <3>4 DEF Inv, Distinct
    <3>6. \A i \in DOMAIN candidates' : SupplierOf[candidates'[i].sku] \in scope'
      BY <2>1, <3>1, <3>2, <3>3, <3>4 DEF Inv, find_candidates
    <3> QED
      BY <2>1, <3>3, <3>5, <3>6 DEF Inv, find_candidates
  <2>2. CASE resolve_node
    BY <2>2 DEF Inv, Distinct, resolve_node
  <2>3. CASE NextPhrase
    <3>1. candidates' \in Found /\ DOMAIN candidates' = {}
      BY <2>3 DEF NextPhrase, Found
    <3> QED
      BY <2>3, <3>1, ResolutionAssumption DEF Inv, Distinct, NextPhrase
  <2>4. CASE UNCHANGED vars
    BY <2>4 DEF Inv, Distinct, vars
  <2> QED
    BY <2>1, <2>2, <2>3, <2>4 DEF Next
<1> QED
  BY <1>1, <1>2, PTL DEF Spec

(***************************************************************************)
(* Every state of the loop over the phrases has its types.                 *)
(***************************************************************************)

Lines == [sku: SKUs \cup {NULL}, supplier: Suppliers \cup {NULL}, confidence: Percent, options: Seq(SKUs)]

LEMMA ResolvedIs ==
  ASSUME NEW sku \in SKUs, NEW confidence \in Percent
  PROVE  /\ _resolved(sku, confidence) \in Lines
         /\ _resolved(sku, confidence).sku = sku
         /\ _resolved(sku, confidence).supplier = SupplierOf[sku]
         /\ _resolved(sku, confidence).confidence = confidence
         /\ _resolved(sku, confidence).options = <<>>
<1>1. SupplierOf[sku] \in Suppliers
  BY CatalogAssumption
<1>2. <<>> \in Seq(SKUs)
  OBVIOUS
<1> QED
  BY <1>1, <1>2 DEF _resolved, Line, Lines

LEMMA WinnerIs ==
  ASSUME NEW found \in Found, NEW i \in Winners(found)
  PROVE  /\ i \in DOMAIN found /\ found[i].sku \in SKUs
         /\ Confidence(found, i) \in Percent /\ Confidence(found, i) \in MIN_SCORE..100
<1>1. i \in DOMAIN found /\ found[i].sku \in SKUs /\ found[i].score \in Percent
  BY FoundIs DEF Winners
<1>2. CASE NamedAt(found) = {} /\ SizedAt(found) = {}
  <2>1. found[i].score >= MIN_SCORE
    BY <1>2 DEF Winners, NamedAt
  <2> QED
    BY <1>1, <1>2, <2>1 DEF Confidence, MIN_SCORE, Percent
<1>3. CASE ~ (NamedAt(found) = {} /\ SizedAt(found) = {})
  BY <1>1, <1>3 DEF Confidence, MIN_SCORE, ALIAS_CONFIDENCE, Percent
<1> QED
  BY <1>1, <1>2, <1>3

(***************************************************************************)
(* A line resolve_skus makes is of the types it declares, whatever the     *)
(* candidates and the memory.                                              *)
(***************************************************************************)
THEOREM ResolutionTyped == Spec => []TypeOK
<1>1. ASSUME Inv PROVE TypeOK
  <2>1. /\ candidates \in Found /\ remembered \in SKUs \cup {NULL}
        /\ line # NULL => line = resolve_skus(candidates, remembered)
    BY <1>1 DEF Inv
  <2>2. 0 \in Percent /\ MEMORY_CONFIDENCE \in Percent /\ AMBIGUOUS_CONFIDENCE \in Percent
    BY DEF Percent, MEMORY_CONFIDENCE, AMBIGUOUS_CONFIDENCE
  <2>3. ASSUME line # NULL, remembered # NULL PROVE line \in Lines
    <3>1. remembered \in SKUs
      BY <2>1, <2>3
    <3>2. CASE remembered \in {candidates[i].sku : i \in DOMAIN candidates}
      <4>1. line = _resolved(remembered, MEMORY_CONFIDENCE)
        BY <2>1, <2>3, <3>2 DEF resolve_skus
      <4> QED
        BY <2>2, <3>1, <4>1, ResolvedIs
    <3>3. CASE remembered \notin {candidates[i].sku : i \in DOMAIN candidates}
      <4>1. line = Line(remembered, NULL, MEMORY_CONFIDENCE, <<>>)
        BY <2>1, <2>3, <3>3 DEF resolve_skus
      <4> QED
        BY <2>2, <3>1, <4>1 DEF Line, Lines
    <3> QED
      BY <3>2, <3>3
  <2>4. ASSUME line # NULL, remembered = NULL PROVE line \in Lines
    <3>1. line = resolve_skus(candidates, NULL)
      BY <2>1, <2>4
    <3>2. CASE Winners(candidates) # {}
      <4>1. PICK i \in Winners(candidates) :
                   line = _resolved(candidates[i].sku, Confidence(candidates, i))
        BY <2>1, <3>1, <3>2, SettledIs
      <4> QED
        BY <2>1, <4>1, WinnerIs, ResolvedIs
    <3>3. CASE Winners(candidates) = {} /\ candidates = <<>>
      <4>1. line = Line(NULL, NULL, 0, <<>>)
        BY <2>1, <3>1, <3>3, SettledIs
      <4> QED
        BY <2>2, <4>1 DEF Line, Lines
    <3>4. CASE Winners(candidates) = {} /\ candidates # <<>>
      <4>1. line = Line(NULL, NULL, AMBIGUOUS_CONFIDENCE, Options(candidates))
        BY <2>1, <3>1, <3>4, SettledIs
      <4>2. Options(candidates) \in Seq(SKUs)
        BY <2>1, <3>4, OptionsType
      <4> QED
        BY <2>2, <4>1, <4>2 DEF Line, Lines
    <3> QED
      BY <3>2, <3>3, <3>4
  <2> QED
    BY <1>1, <2>1, <2>3, <2>4 DEF Inv, TypeOK, Found, Lines
<1> QED
  BY <1>1, InvHolds, PTL

\* The three outcomes there are without a memory.
LEMMA Outcomes ==
  ASSUME Inv, line # NULL, remembered = NULL
  PROVE  \/ \E i \in Winners(candidates) :
              /\ \A j \in Winners(candidates) : i <= j
              /\ line = _resolved(candidates[i].sku, Confidence(candidates, i))
         \/ /\ Winners(candidates) = {}
            /\ line = Line(NULL, NULL, 0, <<>>)
         \/ /\ Winners(candidates) = {} /\ candidates # <<>>
            /\ line = Line(NULL, NULL, AMBIGUOUS_CONFIDENCE, Options(candidates))
<1>1. candidates \in Found /\ line = resolve_skus(candidates, NULL)
  BY DEF Inv
<1> QED
  BY <1>1, SettledIs

(***************************************************************************)
(* Without a memory, resolve_skus leaves only the lines that OrderGraph's  *)
(* resolve_node chooses from: the contract between the two modules.        *)
(***************************************************************************)
THEOREM KnownOutcomesOnly == Spec => []OnlyKnownOutcomes
<1>1. ASSUME Inv PROVE OnlyKnownOutcomes
  <2> SUFFICES ASSUME line # NULL, remembered = NULL
               PROVE  OnlyKnownOutcomes
    BY DEF OnlyKnownOutcomes
  <2>1. candidates \in Found /\ \A i \in DOMAIN candidates : SupplierOf[candidates[i].sku] \in scope
    BY <1>1 DEF Inv
  <2>2. ASSUME NEW i \in Winners(candidates),
               line = _resolved(candidates[i].sku, Confidence(candidates, i))
        PROVE  OnlyKnownOutcomes
    <3>1. /\ i \in DOMAIN candidates /\ candidates[i].sku \in SKUs
          /\ Confidence(candidates, i) \in Percent
          /\ Confidence(candidates, i) \in MIN_SCORE..100
      BY <2>1, WinnerIs
    <3>2. /\ line.sku = candidates[i].sku /\ line.supplier = SupplierOf[line.sku]
          /\ line.confidence = Confidence(candidates, i) /\ line.options = <<>>
      BY <2>2, <3>1, ResolvedIs
    <3>3. line.sku # NULL /\ line.supplier \in scope
      BY <2>1, <3>1, <3>2, NullAssumption
    <3> QED
      BY <3>1, <3>2, <3>3 DEF OnlyKnownOutcomes
  <2>3. CASE line = Line(NULL, NULL, 0, <<>>)
    BY <2>3 DEF Line, OnlyKnownOutcomes
  <2>4. CASE candidates # <<>> /\ line = Line(NULL, NULL, AMBIGUOUS_CONFIDENCE, Options(candidates))
    <3>1. Options(candidates) # <<>>
      BY <2>1, <2>4, OptionsType
    <3> QED
      BY <2>4, <3>1 DEF Line, OnlyKnownOutcomes
  <2> QED
    BY <1>1, <2>2, <2>3, <2>4, Outcomes
<1> QED
  BY <1>1, InvHolds, PTL

(***************************************************************************)
(* A phrase is settled exactly when a candidate wins, and on the first of  *)
(* the winners.  Plain scores that nearly tie have none; a tie by name, or *)
(* by size with equal scores, has several, and there the order of the      *)
(* index does decide.                                                      *)
(***************************************************************************)
THEOREM WinnerSettles == Spec => []SettledOnWinner
<1>1. ASSUME Inv PROVE SettledOnWinner
  <2> SUFFICES ASSUME line # NULL, remembered = NULL
               PROVE  SettledOnWinner
    BY DEF SettledOnWinner
  <2>1. candidates \in Found
    BY <1>1 DEF Inv
  <2>2. ASSUME NEW i \in Winners(candidates),
               \A j \in Winners(candidates) : i <= j,
               line = _resolved(candidates[i].sku, Confidence(candidates, i))
        PROVE  SettledOnWinner
    <3>1. candidates[i].sku \in SKUs /\ Confidence(candidates, i) \in Percent
      BY <2>1, WinnerIs
    <3>2. line.sku = candidates[i].sku /\ line.sku # NULL
      BY <2>2, <3>1, ResolvedIs, NullAssumption
    <3> QED
      BY <2>2, <3>2 DEF SettledOnWinner
  <2>3. ASSUME NEW confidence, NEW options, line = Line(NULL, NULL, confidence, options),
               Winners(candidates) = {}
        PROVE  SettledOnWinner
    BY <2>3 DEF Line, SettledOnWinner
  <2> QED
    BY <1>1, <2>2, <2>3, Outcomes
<1> QED
  BY <1>1, InvHolds, PTL

(***************************************************************************)
(* With one winner any order of the candidates gives the same line; with   *)
(* several, by name or by size, WinnerSettles says which one the order     *)
(* picks.                                                                  *)
(***************************************************************************)
THEOREM AnyOrderSettles == Spec => []OrderDoesNotMatter
<1>1. Inv => OrderDoesNotMatter
  BY OrderIrrelevant DEF Inv, OrderDoesNotMatter
<1> QED
  BY <1>1, InvHolds, PTL

(***************************************************************************)
(* What is offered was found, is offered once and best first, and nothing  *)
(* better was left out.                                                    *)
(***************************************************************************)
THEOREM BestOfferedFirst == Spec => []OffersBestFirst
<1>1. ASSUME Inv PROVE OffersBestFirst
  <2> SUFFICES ASSUME line # NULL, line.options # <<>>
               PROVE  Offered(candidates, line.options)
    BY DEF OffersBestFirst, Offered
  <2>1. /\ candidates \in Found /\ Distinct(candidates)
        /\ remembered \in SKUs \cup {NULL} /\ line = resolve_skus(candidates, remembered)
    BY <1>1 DEF Inv
  <2>2. remembered = NULL
    <3>1. SUFFICES ASSUME remembered # NULL PROVE line.options = <<>>
      OBVIOUS
    <3>2. \/ line = _resolved(remembered, MEMORY_CONFIDENCE)
          \/ line = Line(remembered, NULL, MEMORY_CONFIDENCE, <<>>)
      BY <2>1, <3>1 DEF resolve_skus
    <3> QED
      BY <3>2 DEF _resolved, Line
  <2>3. candidates # <<>> /\ line.options = Options(candidates)
    BY <1>1, <2>2, Outcomes DEF _resolved, Line
  <2> QED
    BY <2>1, <2>3, OptionsOffered
<1> QED
  BY <1>1, InvHolds, PTL
=============================================================================
