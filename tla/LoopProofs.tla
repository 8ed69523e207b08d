----------------------------- MODULE LoopProofs -----------------------------
(***************************************************************************)
(* Iterate is well defined, and induction for the loops written with it;   *)
(* then the loop the proofs about carts share, that over a batch of edits. *)
(*                                                                         *)
(* A recursive function is a CHOOSE of a function that satisfies its       *)
(* equation, so the equation has to be proved before it can be used: by    *)
(* building the value table of the first n passes for every n              *)
(* (RunExists), by showing that two such tables agree (RunsAgree), and by  *)
(* taking their diagonal (IterateUnfolds).  The induction principle used   *)
(* is the least-element property of Nat for a SET of counterexamples,      *)
(* which needs no operator parameter.                                      *)
(***************************************************************************)
EXTENDS CartMap, WellFoundedInduction, TLAPS

(***************************************************************************)
(* A nonempty set of naturals has a least element: what every induction    *)
(* below uses, on the set of the numbers at which its claim fails.         *)
(***************************************************************************)
LEMMA LeastElement ==
  ASSUME NEW T \in SUBSET Nat, T # {}
  PROVE  \E m \in T : \A k \in T : m <= k
<1> DEFINE R == OpToRel(<, Nat)
<1>1. R = {ss \in Nat \X Nat : ss[1] < ss[2]}
  BY DEF OpToRel
<1>2. IsWellFoundedOn(R, Nat)
  BY NatLessThanWellFounded
<1>3. T \subseteq Nat
  OBVIOUS
<1> HIDE DEF R
<1>4. PICK x \in T : \A y \in T : ~ (<<y, x>> \in R)
  BY <1>2, <1>3, WFMin
<1>5. \A y \in T : <<y, x>> \in Nat \X Nat /\ <<y, x>>[1] = y /\ <<y, x>>[2] = x
  BY <1>3
<1>6. \A y \in T : ~ (y < x)
  BY <1>1, <1>4, <1>5
<1> QED
  BY <1>3, <1>6

(***************************************************************************)
(* Induction for a set of naturals: the passes of a loop at which a claim  *)
(* holds are all of them when it holds before the first and each pass      *)
(* keeps it.                                                               *)
(***************************************************************************)
LEMMA SetInduction ==
  ASSUME NEW T \in SUBSET Nat, 0 \in T,
         \A n \in Nat : n \in T => n + 1 \in T
  PROVE  \A n \in Nat : n \in T
<1> DEFINE Failing == {n \in Nat : n \notin T}
<1> SUFFICES ASSUME Failing # {} PROVE FALSE
  OBVIOUS
<1>1. Failing \in SUBSET Nat
  OBVIOUS
<1>2. PICK m \in Failing : \A k \in Failing : m <= k
  BY <1>1, LeastElement
<1>3. m \in Nat /\ m # 0 /\ m - 1 \in Nat /\ (m - 1) + 1 = m
  BY <1>2
<1>4. m - 1 \notin Failing
  BY <1>2, <1>3
<1> QED
  BY <1>2, <1>3, <1>4

\* run is the table of the first n passes of the loop.
RunOf(S, start, step, n, run) ==
  /\ run \in [0..n -> S]
  /\ run[0] = start
  /\ \A i \in 1..n : run[i] = step[i][run[i - 1]]

(***************************************************************************)
(* However many passes a loop makes, their table exists.                   *)
(***************************************************************************)
LEMMA RunExists ==
  ASSUME NEW S, NEW start \in S, NEW step \in [Nat -> [S -> S]]
  PROVE  \A n \in Nat : \E run \in [0..n -> S] : RunOf(S, start, step, n, run)
<1> DEFINE T == {n \in Nat : \E run \in [0..n -> S] : RunOf(S, start, step, n, run)}
<1>1. T \in SUBSET Nat
  OBVIOUS
<1>2. 0 \in T
  <2> DEFINE z == [i \in 0..0 |-> start]
  <2>1. z \in [0..0 -> S] /\ z[0] = start
    OBVIOUS
  <2>2. RunOf(S, start, step, 0, z)
    BY <2>1 DEF RunOf
  <2> QED
    BY <2>1, <2>2
<1>3. ASSUME NEW n \in Nat, n \in T PROVE n + 1 \in T
  <2>1. PICK run \in [0..n -> S] : RunOf(S, start, step, n, run)
    BY <1>3
  <2> DEFINE longer == [i \in 0..(n + 1) |-> IF i = n + 1 THEN step[n + 1][run[n]] ELSE run[i]]
  <2>2. longer \in [0..(n + 1) -> S]
    <3>1. step[n + 1][run[n]] \in S
      OBVIOUS
    <3>2. \A i \in 0..(n + 1) : i # n + 1 => i \in 0..n
      OBVIOUS
    <3> QED
      BY <3>1, <3>2
  <2>3. longer[0] = start
    BY <2>1 DEF RunOf
  <2>4. ASSUME NEW i \in 1..(n + 1) PROVE longer[i] = step[i][longer[i - 1]]
    <3>1. i - 1 \in 0..n /\ i - 1 # n + 1 /\ i \in 0..(n + 1) /\ i - 1 \in 0..(n + 1)
      OBVIOUS
    <3>2. longer[i - 1] = run[i - 1]
      BY <3>1
    <3>3. CASE i = n + 1
      BY <3>1, <3>2, <3>3
    <3>4. CASE i # n + 1
      <4>1. i \in 1..n
        BY <3>4
      <4>2. run[i] = step[i][run[i - 1]]
        BY <2>1, <4>1 DEF RunOf
      <4> QED
        BY <3>1, <3>2, <3>4, <4>2
    <3> QED
      BY <3>3, <3>4
  <2> HIDE DEF longer
  <2>5. RunOf(S, start, step, n + 1, longer)
    BY <2>2, <2>3, <2>4 DEF RunOf
  <2> QED
    BY <2>2, <2>5
<1> HIDE DEF T
<1>4. \A n \in Nat : n \in T
  BY <1>1, <1>2, <1>3, SetInduction
<1> QED
  BY <1>4 DEF T

(***************************************************************************)
(* Two tables of the same loop agree on the passes both of them cover.     *)
(***************************************************************************)
LEMMA RunsAgree ==
  ASSUME NEW S, NEW start \in S, NEW step \in [Nat -> [S -> S]],
         NEW n \in Nat, NEW m \in Nat, n <= m,
         NEW g, NEW h, RunOf(S, start, step, n, g), RunOf(S, start, step, m, h)
  PROVE  \A i \in 0..n : g[i] = h[i]
<1> DEFINE Differ == {i \in 0..n : g[i] # h[i]}
<1> SUFFICES ASSUME Differ # {} PROVE FALSE
  OBVIOUS
<1>1. Differ \in SUBSET Nat
  OBVIOUS
<1>2. PICK j \in Differ : \A k \in Differ : j <= k
  BY <1>1, LeastElement
<1>3. j # 0
  BY <1>2 DEF RunOf
<1>4. j \in 1..n /\ j \in 1..m /\ j - 1 \in 0..n /\ g[j - 1] = h[j - 1]
  BY <1>2, <1>3
<1>5. g[j] = step[j][g[j - 1]] /\ h[j] = step[j][h[j - 1]]
  BY <1>4 DEF RunOf
<1> QED
  BY <1>2, <1>4, <1>5

(***************************************************************************)
(* Iterate satisfies its own recursion equation and stays in S, for a loop *)
(* whose start is in S and whose passes map S to S.                        *)
(***************************************************************************)
THEOREM IterateUnfolds ==
  ASSUME NEW S, NEW start \in S, NEW step \in [Nat -> [S -> S]]
  PROVE  /\ Iterate(start, step) \in [Nat -> S]
         /\ Iterate(start, step)[0] = start
         /\ \A n \in Nat : Iterate(start, step)[n + 1]
                             = step[n + 1][Iterate(start, step)[n]]
<1> DEFINE A(n) == CHOOSE run \in [0..n -> S] : RunOf(S, start, step, n, run)
<1> DEFINE F == [n \in Nat |-> A(n)[n]]
<1>1. \A n \in Nat : A(n) \in [0..n -> S] /\ RunOf(S, start, step, n, A(n))
  BY RunExists
<1> HIDE DEF A
<1>2. F \in [Nat -> S]
  BY <1>1
<1>3. F[0] = start
  BY <1>1 DEF RunOf
<1>4. ASSUME NEW n \in Nat, n # 0 PROVE F[n] = step[n][F[n - 1]]
  <2>1. n - 1 \in Nat /\ n - 1 <= n /\ n - 1 \in 0..(n - 1) /\ n \in 1..n
    BY <1>4
  <2>2. A(n)[n] = step[n][A(n)[n - 1]]
    BY <1>1, <2>1 DEF RunOf
  <2>3. A(n - 1)[n - 1] = A(n)[n - 1]
    <3>1. RunOf(S, start, step, n - 1, A(n - 1)) /\ RunOf(S, start, step, n, A(n))
      BY <1>1, <2>1
    <3>2. \A i \in 0..(n - 1) : A(n - 1)[i] = A(n)[i]
      BY <2>1, <3>1, RunsAgree
    <3> QED
      BY <2>1, <3>2
  <2> QED
    BY <1>4, <2>1, <2>2, <2>3
<1> HIDE DEF F
<1>5. F = [n \in Nat |-> IF n = 0 THEN start ELSE step[n][F[n - 1]]]
  BY <1>2, <1>3, <1>4
<1> DEFINE G == Iterate(start, step)
<1>6. G = [n \in Nat |-> IF n = 0 THEN start ELSE step[n][G[n - 1]]]
  BY <1>5, Zenon DEF Iterate
<1> HIDE DEF G
<1>7. G[0] = start /\ \A n \in Nat : n # 0 => G[n] = step[n][G[n - 1]]
  BY <1>6
<1>8. \A n \in Nat : G[n] = F[n]
  <2> DEFINE T == {i \in Nat : G[i] = F[i]}
  <2>1. T \in SUBSET Nat /\ 0 \in T
    BY <1>3, <1>7
  <2>2. ASSUME NEW n \in Nat, n \in T PROVE n + 1 \in T
    <3>1. n + 1 \in Nat /\ n + 1 # 0 /\ (n + 1) - 1 = n
      OBVIOUS
    <3> QED
      BY <1>4, <1>7, <2>2, <3>1
  <2> HIDE DEF T
  <2>3. \A n \in Nat : n \in T
    BY <2>1, <2>2, SetInduction
  <2> QED
    BY <2>3 DEF T
<1>9. G = F
  BY <1>2, <1>6, <1>8
<1>10. \A n \in Nat : n + 1 \in Nat /\ n + 1 # 0 /\ (n + 1) - 1 = n
  OBVIOUS
<1> QED
  BY <1>2, <1>7, <1>9, <1>10 DEF G

(***************************************************************************)
(* A loop never leaves a set that its start is in and that every pass      *)
(* keeps: the loop-invariant rule for Iterate.                             *)
(***************************************************************************)
THEOREM IterateKeeps ==
  ASSUME NEW S, NEW start \in S, NEW step \in [Nat -> [S -> S]],
         NEW I \in SUBSET S, start \in I,
         \A n \in Nat : \A s \in I : step[n][s] \in I
  PROVE  \A n \in Nat : Iterate(start, step)[n] \in I
<1> DEFINE T == {n \in Nat : Iterate(start, step)[n] \in I}
<1>1. T \in SUBSET Nat
  OBVIOUS
<1>2. 0 \in T
  BY IterateUnfolds
<1>3. ASSUME NEW n \in Nat, n \in T PROVE n + 1 \in T
  BY <1>3, IterateUnfolds
<1> HIDE DEF T
<1>4. \A n \in Nat : n \in T
  BY <1>1, <1>2, <1>3, SetInduction
<1> QED
  BY <1>4 DEF T

(***************************************************************************)
(* Two loops with the same first passes have the same first values.        *)
(***************************************************************************)
SamePasses(step, other, m) == \A i \in 1..m : step[i] = other[i]

LEMMA IterateAgrees ==
  ASSUME NEW S, NEW start \in S, NEW step \in [Nat -> [S -> S]], NEW other \in [Nat -> [S -> S]],
         NEW m \in Nat, SamePasses(step, other, m)
  PROVE  Iterate(start, step)[m] \in S /\ Iterate(start, step)[m] = Iterate(start, other)[m]
<1> DEFINE one == Iterate(start, step)
           two == Iterate(start, other)
           T == {i \in Nat : i <= m => one[i] = two[i]}
<1>1. /\ one \in [Nat -> S] /\ one[0] = start
      /\ \A i \in Nat : one[i + 1] = step[i + 1][one[i]]
  BY IterateUnfolds
<1>2. /\ two \in [Nat -> S] /\ two[0] = start
      /\ \A i \in Nat : two[i + 1] = other[i + 1][two[i]]
  BY IterateUnfolds
<1> HIDE DEF one, two
<1>3. T \in SUBSET Nat /\ 0 \in T
  BY <1>1, <1>2
<1>4. ASSUME NEW i \in Nat, i \in T PROVE i + 1 \in T
  <2> SUFFICES ASSUME i + 1 <= m PROVE one[i + 1] = two[i + 1]
    OBVIOUS
  <2>1. one[i] = two[i] /\ i + 1 \in 1..m
    BY <1>4
  <2>2. step[i + 1] = other[i + 1]
    BY <2>1 DEF SamePasses
  <2> QED
    BY <1>1, <1>2, <2>1, <2>2
<1> HIDE DEF T
<1>5. \A i \in Nat : i \in T
  BY <1>3, <1>4, SetInduction
<1> QED
  BY <1>1, <1>5 DEF T, one, two

-----------------------------------------------------------------------------
\* An edit makes a quantity of a quantity.
LEMMA EditedQuantityType ==
  ASSUME NEW old \in OptionalInt \cup {Absent}, NEW quantity \in OptionalInt,
         NEW op \in {"add", "set_quantity", "remove"}
  PROVE  EditedQuantity(old, op, quantity) \in OptionalInt \cup {Absent}
BY ValuesAssumption DEF EditedQuantity, OptionalInt, OrZero

\* An edit makes a cart of a cart.
LEMMA EditOneType ==
  ASSUME NEW keys, NEW cart \in CartMaps(keys), NEW edit \in Edits(keys)
  PROVE  EditOne(cart, edit) \in CartMaps(keys)
<1>1. edit.key \in keys /\ edit.quantity \in OptionalInt
        /\ edit.op \in {"add", "set_quantity", "remove"}
  BY DEF Edits
<1>2. cart[edit.key] \in OptionalInt \cup {Absent}
  BY <1>1 DEF CartMaps
<1>3. EditedQuantity(cart[edit.key], edit.op, edit.quantity) \in OptionalInt \cup {Absent}
  BY <1>1, <1>2, EditedQuantityType
<1> QED
  BY <1>1, <1>3 DEF EditOne, CartMaps

\* The passes of the loop are functions from carts to carts.
LEMMA EditPassType ==
  ASSUME NEW keys, NEW edits, NEW taken, \A n \in taken : edits[n] \in Edits(keys)
  PROVE  EditPass(keys, edits, taken) \in [Nat -> [CartMaps(keys) -> CartMaps(keys)]]
<1>1. \A n \in Nat : \A cart \in CartMaps(keys) :
        (IF n \in taken THEN EditOne(cart, edits[n]) ELSE cart) \in CartMaps(keys)
  BY EditOneType
<1> QED
  BY <1>1 DEF EditPass

\* What every taken edit preserves, the batch does.
LEMMA EditTakenKeeps ==
  ASSUME NEW keys, NEW edits, Len(edits) \in Nat, NEW taken,
         \A n \in taken : edits[n] \in Edits(keys),
         NEW Good \in SUBSET CartMaps(keys), NEW cart \in Good,
         \A n \in taken : \A c \in Good : EditOne(c, edits[n]) \in Good
  PROVE  EditTaken(cart, edits, taken) \in Good
<1> DEFINE pass == EditPass(keys, edits, taken)
<1>1. pass \in [Nat -> [CartMaps(keys) -> CartMaps(keys)]]
  BY EditPassType
<1>2. cart \in CartMaps(keys) /\ DOMAIN cart = keys
  BY DEF CartMaps
<1>3. ASSUME NEW n \in Nat, NEW c \in Good PROVE pass[n][c] \in Good
  BY DEF EditPass
<1> HIDE DEF pass
<1>4. \A n \in Nat : Iterate(cart, pass)[n] \in Good
  BY <1>1, <1>2, <1>3, IterateKeeps
<1>5. EditTaken(cart, edits, taken) = Iterate(cart, pass)[Len(edits)]
  BY <1>2 DEF EditTaken, pass
<1> QED
  BY <1>4, <1>5

\* A batch makes a cart of a cart.
LEMMA EditTakenType ==
  ASSUME NEW keys, NEW edits, Len(edits) \in Nat, NEW taken,
         \A n \in taken : edits[n] \in Edits(keys), NEW cart \in CartMaps(keys)
  PROVE  EditTaken(cart, edits, taken) \in CartMaps(keys)
BY EditTakenKeeps, EditOneType

\* A batch of m edits, and one with an edit more at its end, which is taken too.
OneMore(keys, edits, taken, more, wider, m) ==
  /\ Len(edits) = m /\ Len(more) = m + 1
  /\ \A n \in 1..m : more[n] = edits[n]
  /\ taken \subseteq 1..m /\ wider = taken \cup {m + 1}
  /\ \A n \in wider : more[n] \in Edits(keys)

\* The longer batch is that edit after the shorter one.
LEMMA EditTakenExtends ==
  ASSUME NEW keys, NEW edits, NEW taken, NEW more, NEW wider, NEW m \in Nat,
         OneMore(keys, edits, taken, more, wider, m), NEW cart \in CartMaps(keys)
  PROVE  EditTaken(cart, more, wider) = EditOne(EditTaken(cart, edits, taken), more[m + 1])
<1> DEFINE pass == EditPass(keys, edits, taken)
           longer == EditPass(keys, more, wider)
<1>1. \A n \in taken : edits[n] \in Edits(keys)
  BY DEF OneMore
<1>2. pass \in [Nat -> [CartMaps(keys) -> CartMaps(keys)]]
  BY <1>1, EditPassType
<1>3. longer \in [Nat -> [CartMaps(keys) -> CartMaps(keys)]]
  BY EditPassType DEF OneMore
<1>4. DOMAIN cart = keys
  BY DEF CartMaps
<1>5. ASSUME NEW n \in 1..m PROVE pass[n] = longer[n]
  <2>1. n \in Nat /\ (n \in wider <=> n \in taken) /\ more[n] = edits[n]
    BY DEF OneMore
  <2> QED
    BY <2>1 DEF EditPass
<1>6. \A c \in CartMaps(keys) : longer[m + 1][c] = EditOne(c, more[m + 1])
  BY DEF EditPass, OneMore
<1> HIDE DEF pass, longer
<1>7. Iterate(cart, pass)[m] = Iterate(cart, longer)[m]
  <2>1. SamePasses(pass, longer, m)
    BY <1>5 DEF SamePasses
  <2> DEFINE S == CartMaps(keys)
  <2>2. cart \in S /\ pass \in [Nat -> [S -> S]] /\ longer \in [Nat -> [S -> S]]
    BY <1>2, <1>3
  <2> HIDE DEF S
  <2> QED
    BY <2>1, <2>2, IterateAgrees
<1>8. /\ Iterate(cart, longer) \in [Nat -> CartMaps(keys)]
      /\ Iterate(cart, longer)[m + 1] = longer[m + 1][Iterate(cart, longer)[m]]
  BY <1>3, IterateUnfolds
<1>9. Iterate(cart, longer)[m + 1] = EditOne(Iterate(cart, longer)[m], more[m + 1])
  BY <1>6, <1>8
<1> QED
  BY <1>4, <1>7, <1>9 DEF EditTaken, OneMore, pass, longer
=============================================================================
