----------------------------- MODULE CartProofs -----------------------------
(***************************************************************************)
(* The dict of lists is a map: for any suppliers, SKUs, prices and batches *)
(* every line of the cart can be reached, no group is empty, a click       *)
(* changes its own line only, and Cart implements CartPromise.             *)
(***************************************************************************)
EXTENDS Cart, LoopProofs, SequenceTheorems

(***************************************************************************)
(* Lists of lines.                                                         *)
(***************************************************************************)

Has(items, sku) == Matches(items, sku) # {}

LineOf(items, sku) == items[FirstMatch(items, sku)]

\* A supplier's list as it should be: its own lines, each SKU once.
Keyed(s) ==
  {items \in Seq(Line) :
     /\ \A i \in DOMAIN items : items[i].supplier = s
     /\ \A i, j \in DOMAIN items : items[i].sku = items[j].sku => i = j}

LEMMA FirstMatchType ==
  ASSUME NEW items \in Seq(Line), NEW sku, Has(items, sku)
  PROVE  /\ FirstMatch(items, sku) \in DOMAIN items
         /\ LineOf(items, sku) \in Line /\ LineOf(items, sku).sku = sku
<1>1. Matches(items, sku) \in SUBSET Nat /\ Matches(items, sku) # {}
  BY DEF Matches, Has
<1>2. \E m \in Matches(items, sku) : \A k \in Matches(items, sku) : m <= k
  BY <1>1, LeastElement
<1>3. FirstMatch(items, sku) \in Matches(items, sku)
  BY <1>2 DEF FirstMatch
<1>4. FirstMatch(items, sku) \in DOMAIN items /\ items[FirstMatch(items, sku)].sku = sku
  BY <1>3 DEF Matches
<1> QED
  BY <1>4 DEF LineOf

\* In such a list the line of a SKU is the one that has it.
LEMMA LineIs ==
  ASSUME NEW s, NEW items \in Keyed(s), NEW i \in DOMAIN items, NEW sku, items[i].sku = sku
  PROVE  Has(items, sku) /\ FirstMatch(items, sku) = i /\ LineOf(items, sku) = items[i]
<1>1. Has(items, sku)
  BY DEF Has, Matches
<1>2. FirstMatch(items, sku) \in DOMAIN items /\ LineOf(items, sku).sku = sku
  BY <1>1, FirstMatchType DEF Keyed
<1>3. FirstMatch(items, sku) = i
  BY <1>2 DEF Keyed, LineOf
<1> QED
  BY <1>1, <1>3 DEF LineOf

LEMMA HasIs ==
  ASSUME NEW items, NEW sku
  PROVE  Has(items, sku) <=> \E i \in DOMAIN items : items[i].sku = sku
BY DEF Has, Matches

\* The three ways a list changes: a line of a SKU that is not there goes behind the
\* others,
LEMMA AppendKeeps ==
  ASSUME NEW s, NEW items \in Keyed(s), NEW line \in Line, line.supplier = s,
         ~ Has(items, line.sku)
  PROVE  LET new == Append(items, line)
         IN  /\ new \in Keyed(s)
             /\ \A sku : Has(new, sku) <=> Has(items, sku) \/ sku = line.sku
             /\ \A sku : Has(items, sku) => LineOf(new, sku) = LineOf(items, sku)
             /\ LineOf(new, line.sku) = line
<1> DEFINE n == Len(items)
           new == Append(items, line)
<1>1. items \in Seq(Line) /\ n \in Nat /\ DOMAIN items = 1..n
  BY DEF Keyed
<1>2. /\ new \in Seq(Line) /\ DOMAIN new = 1..(n + 1)
      /\ \A i \in 1..n : new[i] = items[i]
      /\ new[n + 1] = line
  BY <1>1, AppendProperties
<1> HIDE DEF new, n
<1>3. \A i \in 1..(n + 1) : i \in 1..n \/ i = n + 1
  BY <1>1
<1>4. \A i \in 1..n : i \in 1..(n + 1) /\ i # n + 1
  BY <1>1
<1>5. n + 1 \in 1..(n + 1)
  BY <1>1
<1>6. \A i \in 1..n : items[i].sku # line.sku
  BY <1>1, HasIs
<1>7. new \in Keyed(s)
  BY <1>1, <1>2, <1>3, <1>4, <1>6 DEF Keyed
<1>8. \A sku : Has(new, sku) <=> Has(items, sku) \/ sku = line.sku
  BY <1>1, <1>2, <1>3, <1>4, <1>5, HasIs
<1>9. ASSUME NEW sku, Has(items, sku) PROVE LineOf(new, sku) = LineOf(items, sku)
  <2>1. PICK i \in 1..n : items[i].sku = sku
    BY <1>1, <1>9, HasIs
  <2> QED
    BY <1>1, <1>2, <1>4, <1>7, <2>1, LineIs
<1>10. LineOf(new, line.sku) = line
  BY <1>2, <1>5, <1>7, LineIs
<1> QED
  BY <1>7, <1>8, <1>9, <1>10 DEF new

\* a line gets another quantity,
Requantified(line, quantity) == [line EXCEPT !.quantity = quantity]

WithLine(items, key, line) == [items EXCEPT ![FirstMatch(items, key)] = line]

LEMMA RequantifyKeeps ==
  ASSUME NEW s, NEW items \in Keyed(s), NEW key, Has(items, key), NEW quantity \in OptionalInt
  PROVE  LET line == Requantified(LineOf(items, key), quantity)
             new == WithLine(items, key, line)
         IN  /\ new \in Keyed(s) /\ line \in Line
             /\ \A sku : Has(new, sku) <=> Has(items, sku)
             /\ \A sku : Has(items, sku) /\ sku # key => LineOf(new, sku) = LineOf(items, sku)
             /\ LineOf(new, key) = line
<1> DEFINE n == Len(items)
           i == FirstMatch(items, key)
           old == LineOf(items, key)
           line == Requantified(old, quantity)
           new == WithLine(items, key, line)
<1>1. items \in Seq(Line) /\ n \in Nat /\ DOMAIN items = 1..n
  BY DEF Keyed
<1>2. i \in 1..n /\ old \in Line /\ old.sku = key /\ old = items[i] /\ old.supplier = s
  BY <1>1, FirstMatchType DEF LineOf, Keyed
<1>3. line \in Line /\ line.sku = key /\ line.supplier = s
  BY <1>2 DEF Line, Requantified
<1> HIDE DEF line
<1>4. /\ new \in Seq(Line) /\ DOMAIN new = 1..n
      /\ \A j \in 1..n : new[j] = IF j = i THEN line ELSE items[j]
  BY <1>1, <1>2, <1>3, ExceptSeq DEF WithLine
<1> HIDE DEF new, n, i, old
<1>5. \A j \in 1..n : new[j].sku = items[j].sku /\ new[j].supplier = items[j].supplier
  BY <1>1, <1>2, <1>3, <1>4 DEF Keyed
<1>6. new \in Keyed(s)
  BY <1>1, <1>4, <1>5 DEF Keyed
<1>7. \A sku : Has(new, sku) <=> Has(items, sku)
  BY <1>1, <1>4, <1>5, HasIs
<1>8. ASSUME NEW sku, Has(items, sku), sku # key PROVE LineOf(new, sku) = LineOf(items, sku)
  <2>1. PICK j \in 1..n : items[j].sku = sku
    BY <1>1, <1>8, HasIs
  <2>2. j # i
    BY <1>2, <1>8, <2>1
  <2> QED
    BY <1>1, <1>4, <1>5, <1>6, <2>1, <2>2, LineIs
<1>9. LineOf(new, key) = line
  <2>1. i \in DOMAIN new /\ new[i] = line /\ new[i].sku = key
    BY <1>2, <1>3, <1>4
  <2> QED
    BY <1>6, <2>1, LineIs
<1> QED
  BY <1>3, <1>6, <1>7, <1>8, <1>9 DEF line, new, i, old

\* and a line goes.
LEMMA WithoutIs ==
  ASSUME NEW items \in Seq(Line), NEW i \in 1..Len(items)
  PROVE  LET new == Without(items, i)
         IN  /\ new \in Seq(Line) /\ DOMAIN new = 1..(Len(items) - 1)
             /\ \A j \in 1..(Len(items) - 1) : new[j] = IF j < i THEN items[j] ELSE items[j + 1]
<1> DEFINE n == Len(items)
           front == SubSeq(items, 1, i - 1)
           back == SubSeq(items, i + 1, n)
<1>1. n \in Nat /\ i \in 1..n /\ DOMAIN items = 1..n /\ \A j \in 1..n : items[j] \in Line
  OBVIOUS
<1> HIDE DEF n
<1>2. /\ front \in Seq(Line) /\ Len(front) = i - 1
      /\ \A j \in 1..(i - 1) : front[j] = items[j]
  <2>1. 1 \in Int /\ i - 1 \in Int /\ \A j \in 1..(i - 1) : items[j] \in Line
    BY <1>1
  <2>2. /\ front \in Seq(Line) /\ Len(front) = IF 1 <= i - 1 THEN (i - 1) - 1 + 1 ELSE 0
        /\ \A j \in 1..((i - 1) - 1 + 1) : front[j] = items[1 + j - 1]
    BY <2>1, SubSeqProperties
  <2> QED
    BY <1>1, <2>2
<1>3. /\ back \in Seq(Line) /\ Len(back) = n - i
      /\ \A j \in 1..(n - i) : back[j] = items[j + i]
  <2>1. i + 1 \in Int /\ n \in Int /\ \A j \in (i + 1)..n : items[j] \in Line
    BY <1>1
  <2>2. /\ back \in Seq(Line) /\ Len(back) = IF i + 1 <= n THEN n - (i + 1) + 1 ELSE 0
        /\ \A j \in 1..(n - (i + 1) + 1) : back[j] = items[(i + 1) + j - 1]
    BY <2>1, SubSeqProperties
  <2>3. \A j \in 1..(n - i) : j \in 1..(n - (i + 1) + 1) /\ (i + 1) + j - 1 = j + i
    BY <1>1
  <2>4. Len(back) = n - i
    BY <1>1, <2>2
  <2> QED
    BY <2>2, <2>3, <2>4
<1> HIDE DEF front, back
<1>4. /\ front \o back \in Seq(Line) /\ Len(front \o back) = (i - 1) + (n - i)
      /\ \A j \in 1..((i - 1) + (n - i)) :
           (front \o back)[j] = IF j <= i - 1 THEN front[j] ELSE back[j - (i - 1)]
  <2>1. /\ front \o back \in Seq(Line) /\ Len(front \o back) = Len(front) + Len(back)
        /\ \A j \in 1..(Len(front) + Len(back)) :
             (front \o back)[j] = IF j <= Len(front) THEN front[j] ELSE back[j - Len(front)]
    BY <1>2, <1>3, ConcatProperties
  <2> QED
    BY <1>2, <1>3, <2>1
<1> DEFINE new == front \o back
<1>5. /\ new \in Seq(Line) /\ Len(new) = n - 1
      /\ \A j \in 1..(n - 1) : new[j] = IF j <= i - 1 THEN front[j] ELSE back[j - (i - 1)]
  BY <1>1, <1>4
<1> HIDE DEF new
<1>6. DOMAIN new = 1..(n - 1)
  BY <1>1, <1>5
<1>7. ASSUME NEW j \in 1..(n - 1) PROVE new[j] = IF j < i THEN items[j] ELSE items[j + 1]
  <2>1. CASE j < i
    <3>1. j \in 1..(i - 1) /\ j <= i - 1
      BY <1>1, <2>1
    <3> QED
      BY <1>2, <1>5, <2>1, <3>1
  <2>2. CASE ~ (j < i)
    <3>1. j - (i - 1) \in 1..(n - i) /\ (j - (i - 1)) + i = j + 1 /\ ~ (j <= i - 1)
      BY <1>1, <2>2
    <3> QED
      BY <1>3, <1>5, <2>2, <3>1
  <2> QED
    BY <2>1, <2>2
<1> QED
  BY <1>5, <1>6, <1>7 DEF new, front, back, n, Without

LEMMA WithoutKeeps ==
  ASSUME NEW s, NEW items \in Keyed(s), NEW key, Has(items, key)
  PROVE  LET new == Without(items, FirstMatch(items, key))
         IN  /\ new \in Keyed(s)
             /\ \A sku : Has(new, sku) <=> Has(items, sku) /\ sku # key
             /\ \A sku : Has(items, sku) /\ sku # key => LineOf(new, sku) = LineOf(items, sku)
<1> DEFINE n == Len(items)
           i == FirstMatch(items, key)
           new == Without(items, i)
<1>1. items \in Seq(Line) /\ n \in Nat /\ DOMAIN items = 1..n
  BY DEF Keyed
<1>2. i \in 1..n /\ items[i].sku = key
  BY <1>1, FirstMatchType DEF LineOf
<1>3. /\ new \in Seq(Line) /\ DOMAIN new = 1..(n - 1)
      /\ \A j \in 1..(n - 1) : new[j] = IF j < i THEN items[j] ELSE items[j + 1]
  BY <1>1, <1>2, WithoutIs
<1> HIDE DEF new, n, i
\* Each line of the new list is one of the old one's, at a place of its own.
<1> DEFINE from == [j \in 1..(n - 1) |-> IF j < i THEN j ELSE j + 1]
<1>4. /\ \A j \in 1..(n - 1) : from[j] \in 1..n /\ from[j] # i /\ new[j] = items[from[j]]
      /\ \A j, k \in 1..(n - 1) : from[j] = from[k] => j = k
      /\ \A j \in 1..n : j # i => \E k \in 1..(n - 1) : from[k] = j
  <2>1. \A j \in 1..(n - 1) : from[j] \in 1..n /\ from[j] # i /\ new[j] = items[from[j]]
    BY <1>1, <1>2, <1>3
  <2>2. \A j, k \in 1..(n - 1) : from[j] = from[k] => j = k
    BY <1>1, <1>2
  <2>3. ASSUME NEW j \in 1..n, j # i PROVE \E k \in 1..(n - 1) : from[k] = j
    <3>1. CASE j < i
      <4>1. j \in 1..(n - 1)
        BY <1>1, <1>2, <3>1
      <4> QED
        BY <3>1, <4>1
    <3>2. CASE ~ (j < i)
      <4>1. j - 1 \in 1..(n - 1) /\ ~ (j - 1 < i) /\ (j - 1) + 1 = j
        BY <1>1, <1>2, <2>3, <3>2
      <4> QED
        BY <4>1
    <3> QED
      BY <3>1, <3>2
  <2> QED
    BY <2>1, <2>2, <2>3
<1> HIDE DEF from
<1>5. \A j \in 1..n : items[j].sku = key => j = i
  BY <1>1, <1>2 DEF Keyed
<1>6. new \in Keyed(s)
  <2>1. /\ \A j \in 1..n : items[j].supplier = s
        /\ \A j, k \in 1..n : items[j].sku = items[k].sku => j = k
    BY <1>1 DEF Keyed
  <2>2. \A j \in 1..(n - 1) : new[j].supplier = s
    BY <1>4, <2>1
  <2>3. \A j, k \in 1..(n - 1) : new[j].sku = new[k].sku => j = k
    BY <1>4, <2>1
  <2> QED
    BY <1>3, <2>2, <2>3 DEF Keyed
<1>7. ASSUME NEW sku, Has(items, sku), sku # key
      PROVE  Has(new, sku) /\ LineOf(new, sku) = LineOf(items, sku)
  <2>1. PICK j \in 1..n : items[j].sku = sku
    BY <1>1, <1>7, HasIs
  <2>2. PICK k \in 1..(n - 1) : new[k] = items[j]
    BY <1>2, <1>4, <1>7, <2>1
  <2>3. LineOf(items, sku) = items[j]
    BY <1>1, <2>1, LineIs
  <2>4. k \in DOMAIN new /\ new[k].sku = sku
    BY <1>3, <2>1, <2>2
  <2>5. Has(new, sku) /\ LineOf(new, sku) = new[k]
    BY <1>6, <2>4, LineIs
  <2> QED
    BY <2>2, <2>3, <2>5
<1>8. ASSUME NEW sku, Has(new, sku) PROVE Has(items, sku) /\ sku # key
  <2>1. PICK j \in 1..(n - 1) : new[j].sku = sku
    BY <1>3, <1>8, HasIs
  <2>2. from[j] \in DOMAIN items /\ from[j] # i /\ items[from[j]].sku = sku
    BY <1>1, <1>4, <2>1
  <2> QED
    BY <1>1, <1>5, <2>2, HasIs
<1> QED
  BY <1>6, <1>7, <1>8 DEF new, i

\* What an operation makes of the line it names, and whether there is one then.
EditedLine(old, op) ==
  CASE op.op = "add" -> [old EXCEPT !.quantity = OrZero(@) + OrZero(op.item.quantity)]
    [] op.op = "set_quantity" /\ op.item.quantity # NULL ->
         [old EXCEPT !.quantity = op.item.quantity]
    [] OTHER -> old

Keeps(op, had) ==
  \/ op.op = "add"
  \/ op.op = "set_quantity" /\ (had \/ op.item.quantity # NULL)

LEMMA EditedLinesKeep ==
  ASSUME NEW s, NEW items \in Keyed(s), NEW op \in Op, op.item.supplier = s
  PROVE  LET new == EditedLines(items, op)
             key == op.item.sku
         IN  /\ new \in Keyed(s)
             /\ \A sku : sku # key => (Has(new, sku) <=> Has(items, sku))
             /\ \A sku : Has(items, sku) /\ sku # key => LineOf(new, sku) = LineOf(items, sku)
             /\ Has(new, key) <=> Keeps(op, Has(items, key))
             /\ Has(new, key) =>
                  LineOf(new, key) = IF Has(items, key) THEN EditedLine(LineOf(items, key), op) ELSE op.item
<1> DEFINE new == EditedLines(items, op)
           key == op.item.sku
           q == op.item.quantity
<1>1. /\ op.item \in Line /\ op.op \in {"add", "set_quantity", "remove"} /\ q \in OptionalInt
      /\ items \in Seq(Line)
  BY DEF Op, Line, Keyed
<1>2. CASE ~ Has(items, key) /\ (op.op = "add" \/ (op.op = "set_quantity" /\ q # NULL))
  <2>1. new = Append(items, op.item)
    BY <1>2 DEF EditedLines, Has
  <2>2. Keeps(op, Has(items, key))
    BY <1>2 DEF Keeps
  <2> QED
    BY <1>1, <1>2, <2>1, <2>2, AppendKeeps
<1>3. CASE Has(items, key) /\ (op.op = "add" \/ (op.op = "set_quantity" /\ q # NULL))
  <2> DEFINE i == FirstMatch(items, key)
             old == LineOf(items, key)
             amount == IF op.op = "add" THEN OrZero(old.quantity) + OrZero(q) ELSE q
             line == Requantified(old, amount)
  <2>1. old \in Line /\ old.quantity \in OptionalInt /\ amount \in OptionalInt /\ i \in DOMAIN items
    <3>1. old \in Line /\ i \in DOMAIN items
      BY <1>1, <1>3, FirstMatchType
    <3>2. old.quantity \in OptionalInt
      BY <3>1 DEF Line
    <3>3. OrZero(old.quantity) \in Int /\ OrZero(q) \in Int
      BY <1>1, <3>2 DEF OptionalInt, OrZero
    <3>4. OrZero(old.quantity) + OrZero(q) \in OptionalInt
      BY <3>3 DEF OptionalInt
    <3> QED
      BY <1>1, <3>1, <3>2, <3>4
  <2>2. new = WithLine(items, key, line)
    BY <1>3, <2>1 DEF EditedLines, Has, LineOf, Requantified, WithLine
  <2>3. line = EditedLine(old, op)
    BY <1>3 DEF EditedLine, Requantified
  <2>4. Keeps(op, Has(items, key))
    BY <1>3 DEF Keeps
  <2> HIDE DEF amount
  <2>5. /\ new \in Keyed(s)
        /\ \A sku : Has(new, sku) <=> Has(items, sku)
        /\ \A sku : Has(items, sku) /\ sku # key => LineOf(new, sku) = LineOf(items, sku)
        /\ LineOf(new, key) = line
    BY <1>3, <2>1, <2>2, RequantifyKeeps
  <2> HIDE DEF new, key, line, old
  <2> QED
    BY <1>3, <2>3, <2>4, <2>5 DEF new, key, old
<1>4. CASE op.op = "remove" /\ Has(items, key)
  <2>1. new = Without(items, FirstMatch(items, key))
    BY <1>4 DEF EditedLines, Has
  <2>2. ~ Keeps(op, Has(items, key))
    BY <1>4 DEF Keeps
  <2>3. /\ new \in Keyed(s)
        /\ \A sku : Has(new, sku) <=> Has(items, sku) /\ sku # key
        /\ \A sku : Has(items, sku) /\ sku # key => LineOf(new, sku) = LineOf(items, sku)
    BY <1>4, <2>1, WithoutKeeps
  <2> HIDE DEF new, key
  <2> QED
    BY <2>2, <2>3 DEF new, key
<1>5. CASE (op.op = "set_quantity" /\ q = NULL) \/ (op.op = "remove" /\ ~ Has(items, key))
  <2>1. new = items
    BY <1>5 DEF EditedLines, Has
  <2>2. Keeps(op, Has(items, key)) <=> Has(items, key)
    BY <1>5 DEF Keeps
  <2>3. Has(items, key) => EditedLine(LineOf(items, key), op) = LineOf(items, key)
    BY <1>5 DEF EditedLine
  <2> QED
    BY <2>1, <2>2, <2>3
<1> QED
  BY <1>1, <1>2, <1>3, <1>4, <1>5

(***************************************************************************)
(* Dicts of lists.                                                         *)
(***************************************************************************)

\* Dicts all of whose lines can be reached.
Reachable == {dict \in Dicts : \A s \in Groups(dict) : dict[s] \in Keyed(s)}

HasLine(dict, key) == key[1] \in Groups(dict) /\ Has(dict[key[1]], key[2])

LEMMA LineKeysIs ==
  ASSUME NEW dict, NEW key \in Suppliers \X SKUs
  PROVE  key \in LineKeys(dict) <=> HasLine(dict, key)
BY DEF LineKeys, HasLine, Has

LEMMA LineAtIs == \A dict, key : LineAt(dict, key) = LineOf(dict[key[1]], key[2])
BY DEF LineAt, LineOf

\* A list and an operation make a list, whatever is in them.
LEMMA EditedLinesType ==
  ASSUME NEW items \in Seq(Line), NEW op \in Op
  PROVE  EditedLines(items, op) \in Seq(Line)
<1> DEFINE key == op.item.sku
           q == op.item.quantity
           i == FirstMatch(items, key)
<1>1. op.item \in Line /\ op.op \in {"add", "set_quantity", "remove"} /\ q \in OptionalInt
  BY DEF Op, Line
<1>2. CASE ~ Has(items, key)
  <2>1. EditedLines(items, op) \in {items, Append(items, op.item)}
    BY <1>1, <1>2 DEF EditedLines, Has
  <2> QED
    BY <1>1, <2>1, AppendProperties
<1>3. CASE Has(items, key)
  <2>1. i \in 1..Len(items) /\ items[i] \in Line
    BY <1>3, FirstMatchType DEF LineOf
  <2>2. items[i].quantity \in OptionalInt
    BY <2>1 DEF Line
  <2>3. OrZero(items[i].quantity) + OrZero(q) \in OptionalInt
    BY <1>1, <2>2 DEF OptionalInt, OrZero
  <2>4. \A amount \in OptionalInt : [items EXCEPT ![i].quantity = amount] \in Seq(Line)
    <3>1. \A amount \in OptionalInt : [items[i] EXCEPT !.quantity = amount] \in Line
      BY <2>1 DEF Line
    <3> QED
      BY <2>1, <3>1
  <2>5. Without(items, i) \in Seq(Line)
    BY <2>1, WithoutIs
  <2>6. CASE op.op = "add"
    <3>1. EditedLines(items, op) = [items EXCEPT ![i].quantity = OrZero(items[i].quantity) + OrZero(q)]
      BY <1>3, <2>1, <2>6 DEF EditedLines, Has
    <3> QED
      BY <2>3, <2>4, <3>1
  <2>7. CASE op.op = "set_quantity"
    <3>1. EditedLines(items, op) \in {items, [items EXCEPT ![i].quantity = q]}
      BY <1>3, <2>7 DEF EditedLines, Has
    <3> QED
      BY <1>1, <2>4, <3>1
  <2>8. CASE op.op = "remove"
    <3>1. EditedLines(items, op) = Without(items, i)
      BY <1>3, <2>8 DEF EditedLines, Has
    <3> QED
      BY <2>5, <3>1
  <2> QED
    BY <1>1, <2>6, <2>7, <2>8
<1> QED
  BY <1>2, <1>3

LEMMA EditType ==
  ASSUME NEW dict \in Dicts, NEW op \in Op
  PROVE  LET s == op.item.supplier
             open == IF dict[s] = Absent THEN <<>> ELSE dict[s]
         IN  /\ s \in Suppliers /\ open \in Seq(Line)
             /\ _apply_one(dict, op) \in Dicts
             /\ _apply_one(dict, op)[s] = EditedLines(open, op)
             /\ \A t \in Suppliers : t # s => _apply_one(dict, op)[t] = dict[t]
<1> DEFINE s == op.item.supplier
           open == IF dict[s] = Absent THEN <<>> ELSE dict[s]
           new == EditedLines(open, op)
<1>1. s \in Suppliers
  BY DEF Op, Line
<1>2. open \in Seq(Line)
  BY <1>1 DEF Dicts
<1>3. new \in Seq(Line)
  BY <1>2, EditedLinesType
<1> HIDE DEF open
<1>4. SetDefault(dict, s) = [dict EXCEPT ![s] = open]
  BY <1>1 DEF SetDefault, open
<1>5. _apply_one(dict, op) = [dict EXCEPT ![s] = new]
  BY <1>1, <1>4 DEF _apply_one, Dicts
<1> HIDE DEF new, s
<1>6. [dict EXCEPT ![s] = new] \in Dicts
  BY <1>1, <1>3 DEF Dicts
<1> QED
  BY <1>1, <1>2, <1>5, <1>6 DEF new, open, s, Dicts

\* A line of the cart, whose group may have to be opened first.
LEMMA EditKeeps ==
  ASSUME NEW dict \in Reachable, NEW op \in Op
  PROVE  LET new == _apply_one(dict, op)
             key == <<op.item.supplier, op.item.sku>>
         IN  /\ new \in Reachable /\ key \in Suppliers \X SKUs
             /\ \A other \in Suppliers \X SKUs : other # key =>
                  /\ HasLine(new, other) <=> HasLine(dict, other)
                  /\ HasLine(dict, other) => LineAt(new, other) = LineAt(dict, other)
             /\ HasLine(new, key) <=> Keeps(op, HasLine(dict, key))
             /\ HasLine(new, key) =>
                  LineAt(new, key) = IF HasLine(dict, key) THEN EditedLine(LineAt(dict, key), op) ELSE op.item
<1> DEFINE s == op.item.supplier
           sku == op.item.sku
           open == IF dict[s] = Absent THEN <<>> ELSE dict[s]
           lines == EditedLines(open, op)
           new == _apply_one(dict, op)
           key == <<s, sku>>
<1>1. /\ dict \in Dicts /\ s \in Suppliers /\ sku \in SKUs /\ open \in Seq(Line)
      /\ new \in Dicts /\ new[s] = lines /\ \A t \in Suppliers : t # s => new[t] = dict[t]
  BY EditType DEF Reachable, Op, Line
<1>2. <<>> \in Keyed(s) /\ \A k : ~ Has(<<>>, k)
  BY DEF Keyed, Has, Matches
<1>3. open \in Keyed(s)
  BY <1>1, <1>2 DEF Reachable, Groups
<1>4. /\ \A k : HasLine(dict, <<s, k>>) <=> Has(open, k)
      /\ \A k : HasLine(dict, <<s, k>>) => LineAt(dict, <<s, k>>) = LineOf(open, k)
  BY <1>1, <1>2, LineAtIs DEF HasLine, Groups
<1>5. /\ lines \in Keyed(s)
      /\ \A k : k # sku => (Has(lines, k) <=> Has(open, k))
      /\ \A k : Has(open, k) /\ k # sku => LineOf(lines, k) = LineOf(open, k)
      /\ Has(lines, sku) <=> Keeps(op, Has(open, sku))
      /\ Has(lines, sku) =>
           LineOf(lines, sku) = IF Has(open, sku) THEN EditedLine(LineOf(open, sku), op) ELSE op.item
  BY <1>3, EditedLinesKeep
<1> HIDE DEF new, lines, open
<1>6. new[s] # Absent
  BY <1>1, <1>5, CartAssumption DEF Keyed
<1>7. /\ \A k : HasLine(new, <<s, k>>) <=> Has(lines, k)
      /\ \A k : LineAt(new, <<s, k>>) = LineOf(lines, k)
  BY <1>1, <1>6, LineAtIs DEF HasLine, Groups
<1>8. new \in Reachable
  BY <1>1, <1>5 DEF Reachable, Groups
<1>9. ASSUME NEW t \in Suppliers, NEW k \in SKUs, <<t, k>> # key
      PROVE  /\ HasLine(new, <<t, k>>) <=> HasLine(dict, <<t, k>>)
             /\ HasLine(dict, <<t, k>>) => LineAt(new, <<t, k>>) = LineAt(dict, <<t, k>>)
  <2>1. CASE t = s
    BY <1>4, <1>5, <1>7, <1>9, <2>1
  <2>2. CASE t # s
    BY <1>1, <2>2, LineAtIs DEF HasLine, Groups
  <2> QED
    BY <2>1, <2>2
<1>10. /\ HasLine(new, key) <=> Keeps(op, HasLine(dict, key))
       /\ HasLine(new, key) =>
            LineAt(new, key) = IF HasLine(dict, key) THEN EditedLine(LineAt(dict, key), op) ELSE op.item
  <2>1. HasLine(new, key) <=> Has(lines, sku)
    BY <1>7
  <2>2. HasLine(dict, key) <=> Has(open, sku)
    BY <1>4
  <2>3. LineAt(new, key) = LineOf(lines, sku)
    BY <1>7
  <2>4. HasLine(dict, key) => LineAt(dict, key) = LineOf(open, sku)
    BY <1>4
  <2> HIDE DEF key, sku
  <2>5. Keeps(op, HasLine(dict, key)) <=> Keeps(op, Has(open, sku))
    BY <2>2 DEF Keeps
  <2> QED
    BY <1>5, <2>1, <2>2, <2>3, <2>4, <2>5
<1>11. key \in Suppliers \X SKUs
  BY <1>1
<1>12. ASSUME NEW other \in Suppliers \X SKUs, other # key
       PROVE  /\ HasLine(new, other) <=> HasLine(dict, other)
              /\ HasLine(dict, other) => LineAt(new, other) = LineAt(dict, other)
  <2>1. PICK t \in Suppliers, k \in SKUs : other = <<t, k>>
    OBVIOUS
  <2> QED
    BY <1>9, <1>12, <2>1
<1> QED
  BY <1>8, <1>10, <1>11, <1>12 DEF new

\* No empty group is left, and no line is touched.
Tidy == {dict \in Reachable : \A s \in Groups(dict) : dict[s] # <<>>}

LEMMA DropKeeps ==
  ASSUME NEW dict \in Reachable
  PROVE  LET new == DropEmptyGroups(dict)
         IN  /\ new \in Tidy
             /\ \A key \in Suppliers \X SKUs :
                  /\ HasLine(new, key) <=> HasLine(dict, key)
                  /\ HasLine(dict, key) => LineAt(new, key) = LineAt(dict, key)
<1> DEFINE new == DropEmptyGroups(dict)
<1>1. dict \in Dicts /\ \A s \in Suppliers : new[s] = IF dict[s] = <<>> THEN Absent ELSE dict[s]
  BY DEF Reachable, DropEmptyGroups
<1>2. new \in Dicts
  BY <1>1 DEF Dicts, DropEmptyGroups
<1>3. <<>> # Absent
  <2>1. <<>> \in Seq(Line)
    OBVIOUS
  <2> QED
    BY <2>1, CartAssumption
<1> HIDE DEF new
<1>4. Groups(new) = {s \in Groups(dict) : dict[s] # <<>>} /\ \A s \in Groups(new) : new[s] = dict[s]
  BY <1>1, <1>3 DEF Groups
<1>5. new \in Tidy
  BY <1>2, <1>4 DEF Tidy, Reachable
<1>6. \A k : ~ Has(<<>>, k)
  BY DEF Has, Matches
<1>7. ASSUME NEW key \in Suppliers \X SKUs
      PROVE  /\ HasLine(new, key) <=> HasLine(dict, key)
             /\ HasLine(dict, key) => LineAt(new, key) = LineAt(dict, key)
  BY <1>4, <1>6, LineAtIs DEF HasLine
<1> QED
  BY <1>5, <1>7 DEF new

(***************************************************************************)
(* Batches.                                                                *)
(***************************************************************************)

LEMMA ApplyPassType ==
  ASSUME NEW ops \in Seq(Op)
  PROVE  ApplyPass(ops) \in [Nat -> [Dicts -> Dicts]]
<1>1. ASSUME NEW n \in Nat, NEW dict \in Dicts
      PROVE  (IF n \in 1..Len(ops) THEN _apply_one(dict, ops[n]) ELSE dict) \in Dicts
  BY EditType
<1> QED
  BY <1>1 DEF ApplyPass

LEMMA PassesKeep ==
  ASSUME NEW dict \in Reachable, NEW ops \in Seq(Op)
  PROVE  \A n \in Nat : Iterate(dict, ApplyPass(ops))[n] \in Reachable
<1> DEFINE pass == ApplyPass(ops)
<1>1. pass \in [Nat -> [Dicts -> Dicts]] /\ dict \in Dicts /\ Reachable \in SUBSET Dicts
  BY ApplyPassType DEF Reachable
<1>2. ASSUME NEW n \in Nat, NEW d \in Reachable PROVE pass[n][d] \in Reachable
  <2>1. pass[n][d] = IF n \in 1..Len(ops) THEN _apply_one(d, ops[n]) ELSE d
    BY <1>1 DEF ApplyPass
  <2>2. n \in 1..Len(ops) => ops[n] \in Op
    OBVIOUS
  <2>3. \A op \in Op : _apply_one(d, op) \in Reachable
    BY EditKeeps
  <2> QED
    BY <1>2, <2>1, <2>2, <2>3
<1> HIDE DEF pass
<1>3. \A n \in Nat : Iterate(dict, pass)[n] \in Reachable
  BY <1>1, <1>2, IterateKeeps
<1> QED
  BY <1>3 DEF pass

LEMMA ApplyKeeps ==
  ASSUME NEW dict \in Reachable, NEW ops \in Seq(Op)
  PROVE  Cart_apply(dict, ops) \in Tidy
<1>1. Iterate(dict, ApplyPass(ops))[Len(ops)] \in Reachable
  BY PassesKeep
<1> QED
  BY <1>1, DropKeeps DEF Cart_apply

LEMMA ApplyOne ==
  ASSUME NEW dict \in Reachable, NEW op \in Op
  PROVE  Cart_apply(dict, <<op>>) = DropEmptyGroups(_apply_one(dict, op))
<1> DEFINE ops == <<op>>
           pass == ApplyPass(ops)
<1>1. ops \in Seq(Op) /\ Len(ops) = 1 /\ ops[1] = op /\ dict \in Dicts
  BY DEF Reachable
<1> HIDE DEF ops
<1>2. pass \in [Nat -> [Dicts -> Dicts]] /\ pass[1][dict] = _apply_one(dict, op)
  BY <1>1, ApplyPassType DEF ApplyPass
<1> HIDE DEF pass
<1>3. Iterate(dict, pass)[0] = dict /\ Iterate(dict, pass)[0 + 1] = pass[0 + 1][Iterate(dict, pass)[0]]
  BY <1>1, <1>2, IterateUnfolds
<1>4. Iterate(dict, pass)[1] = _apply_one(dict, op)
  BY <1>2, <1>3
<1> QED
  BY <1>1, <1>4 DEF Cart_apply, ops, pass

\* What a batch of one does: its line is edited, the others are as they were.
LEMMA OneEdit ==
  ASSUME NEW dict \in Reachable, NEW op \in Op
  PROVE  LET new == Cart_apply(dict, <<op>>)
             key == <<op.item.supplier, op.item.sku>>
         IN  /\ new \in Tidy
             /\ \A other \in Suppliers \X SKUs : other # key =>
                  /\ HasLine(new, other) <=> HasLine(dict, other)
                  /\ HasLine(dict, other) => LineAt(new, other) = LineAt(dict, other)
             /\ HasLine(new, key) <=> Keeps(op, HasLine(dict, key))
             /\ HasLine(new, key) =>
                  LineAt(new, key) = IF HasLine(dict, key) THEN EditedLine(LineAt(dict, key), op) ELSE op.item
<1> DEFINE edited == _apply_one(dict, op)
           new == Cart_apply(dict, <<op>>)
           key == <<op.item.supplier, op.item.sku>>
<1>1. /\ edited \in Reachable /\ key \in Suppliers \X SKUs
      /\ \A other \in Suppliers \X SKUs : other # key =>
           /\ HasLine(edited, other) <=> HasLine(dict, other)
           /\ HasLine(dict, other) => LineAt(edited, other) = LineAt(dict, other)
      /\ HasLine(edited, key) <=> Keeps(op, HasLine(dict, key))
      /\ HasLine(edited, key) =>
           LineAt(edited, key) = IF HasLine(dict, key) THEN EditedLine(LineAt(dict, key), op) ELSE op.item
  BY EditKeeps
<1>2. new = DropEmptyGroups(edited)
  BY ApplyOne
<1> HIDE DEF edited, new, key
<1>3. /\ new \in Tidy
      /\ \A other \in Suppliers \X SKUs :
           /\ HasLine(new, other) <=> HasLine(edited, other)
           /\ HasLine(edited, other) => LineAt(new, other) = LineAt(edited, other)
  BY <1>1, <1>2, DropKeeps
<1>4. /\ \A other \in Suppliers \X SKUs : other # key =>
           /\ HasLine(new, other) <=> HasLine(dict, other)
           /\ HasLine(dict, other) => LineAt(new, other) = LineAt(dict, other)
      /\ HasLine(new, key) <=> Keeps(op, HasLine(dict, key))
      /\ HasLine(new, key) =>
           LineAt(new, key) = IF HasLine(dict, key) THEN EditedLine(LineAt(dict, key), op) ELSE op.item
  BY <1>1, <1>3
<1> QED
  BY <1>3, <1>4 DEF new, key

(***************************************************************************)
(* The panel's operations.                                                 *)
(***************************************************************************)

PanelOp(op, key, quantity) == [op |-> op, item |-> BareLine(key[1], key[2], quantity)]

LEMMA PanelOpType ==
  ASSUME NEW key \in Suppliers \X SKUs, NEW op \in {"set_quantity", "remove"},
         NEW quantity \in OptionalInt
  PROVE  /\ PanelOp(op, key, quantity) \in Op
         /\ PanelOp(op, key, quantity).op = op
         /\ PanelOp(op, key, quantity).item.quantity = quantity
         /\ <<PanelOp(op, key, quantity).item.supplier, PanelOp(op, key, quantity).item.sku>> = key
BY DEF PanelOp, BareLine, Op, Line

\* What a button's line holds; both of the panel's functions then end in a batch of
\* one such operation.
LEMMA CurrentIs ==
  ASSUME NEW dict \in Reachable, NEW key \in Suppliers \X SKUs
  PROVE  /\ _current_quantity(dict, key[1], key[2]) =
              IF HasLine(dict, key) THEN OrZero(LineAt(dict, key).quantity) ELSE 0
         /\ _current_quantity(dict, key[1], key[2]) \in Int
         /\ HasLine(dict, key) => LineAt(dict, key) \in Line
<1>1. _current_quantity(dict, key[1], key[2]) =
        IF HasLine(dict, key) THEN OrZero(LineAt(dict, key).quantity) ELSE 0
  BY DEF _current_quantity, HasLine, Has, LineAt
<1>2. HasLine(dict, key) => LineAt(dict, key) \in Line
  BY FirstMatchType, LineAtIs DEF HasLine, Reachable, Groups, Keyed
<1>3. HasLine(dict, key) => OrZero(LineAt(dict, key).quantity) \in Int
  BY <1>2 DEF Line, OptionalInt, OrZero
<1> QED
  BY <1>1, <1>2, <1>3

LEMMA StepOp ==
  ASSUME NEW dict \in Reachable, NEW key \in Suppliers \X SKUs, NEW delta \in {-1, 1}
  PROVE  \E op \in Op :
           /\ step_line_quantity(dict, key[1], key[2], delta) = Cart_apply(dict, <<op>>)
           /\ <<op.item.supplier, op.item.sku>> = key
           /\ LET quantity == _current_quantity(dict, key[1], key[2]) + delta
              IN  IF quantity < 1 THEN op.op = "remove"
                  ELSE op.op = "set_quantity" /\ op.item.quantity = quantity
<1> DEFINE quantity == _current_quantity(dict, key[1], key[2]) + delta
<1>1. quantity \in Int /\ quantity \in OptionalInt /\ NULL \in OptionalInt
  <2>1. _current_quantity(dict, key[1], key[2]) \in Int /\ delta \in Int
    BY CurrentIs
  <2> QED
    BY <2>1 DEF OptionalInt
<1>2. step_line_quantity(dict, key[1], key[2], delta) =
        IF quantity < 1
        THEN Cart_apply(dict, <<PanelOp("remove", key, NULL)>>)
        ELSE Cart_apply(dict, <<PanelOp("set_quantity", key, quantity)>>)
  BY DEF step_line_quantity, set_line_quantity, remove_line, PanelOp
<1> HIDE DEF quantity
<1>3. CASE quantity < 1
  <2>1. step_line_quantity(dict, key[1], key[2], delta) = Cart_apply(dict, <<PanelOp("remove", key, NULL)>>)
    BY <1>2, <1>3
  <2> QED
    BY <1>1, <1>3, <2>1, PanelOpType DEF quantity
<1>4. CASE ~ (quantity < 1)
  <2>1. step_line_quantity(dict, key[1], key[2], delta) =
          Cart_apply(dict, <<PanelOp("set_quantity", key, quantity)>>)
    BY <1>2, <1>4
  <2> QED
    BY <1>1, <1>4, <2>1, PanelOpType DEF quantity
<1> QED
  BY <1>3, <1>4

LEMMA RemoveOp ==
  ASSUME NEW dict \in Reachable, NEW key \in Suppliers \X SKUs
  PROVE  \E op \in Op :
           /\ remove_line(dict, key[1], key[2]) = Cart_apply(dict, <<op>>)
           /\ <<op.item.supplier, op.item.sku>> = key /\ op.op = "remove"
<1> DEFINE op == PanelOp("remove", key, NULL)
<1>1. NULL \in OptionalInt
  BY DEF OptionalInt
<1>2. op \in Op /\ op.op = "remove" /\ <<op.item.supplier, op.item.sku>> = key
  BY <1>1, PanelOpType
<1>3. remove_line(dict, key[1], key[2]) = Cart_apply(dict, <<op>>)
  BY DEF remove_line, PanelOp
<1> HIDE DEF op
<1> QED
  BY <1>2, <1>3

(***************************************************************************)
(* The inductive invariant, and what it gives at once.                     *)
(***************************************************************************)

Inv == by_supplier \in Tidy /\ rendered \subseteq Suppliers \X SKUs

LEMMA InitInv == Init => Inv
<1> SUFFICES ASSUME Init PROVE Inv
  OBVIOUS
<1>1. by_supplier \in Dicts /\ Groups(by_supplier) = {}
  BY DEF Init, Dicts, Groups
<1> QED
  BY <1>1 DEF Init, Inv, Tidy, Reachable

\* A click is a batch of one operation on its line.
Click(key) == Remove(key) \/ \E delta \in {-1, 1} : Step(key, delta)

LEMMA ClickOp ==
  ASSUME Inv, NEW key \in Suppliers \X SKUs, Click(key)
  PROVE  \E op \in Op : /\ by_supplier' = Cart_apply(by_supplier, <<op>>)
                        /\ <<op.item.supplier, op.item.sku>> = key
                        /\ op.op \in {"set_quantity", "remove"}
<1>1. by_supplier \in Reachable
  BY DEF Inv, Tidy
<1>2. CASE Remove(key)
  <2>1. PICK op \in Op : /\ remove_line(by_supplier, key[1], key[2]) = Cart_apply(by_supplier, <<op>>)
                         /\ <<op.item.supplier, op.item.sku>> = key /\ op.op = "remove"
    BY <1>1, RemoveOp
  <2> QED
    BY <1>2, <2>1 DEF Remove
<1>3. ASSUME NEW delta \in {-1, 1}, Step(key, delta)
      PROVE  \E op \in Op : /\ by_supplier' = Cart_apply(by_supplier, <<op>>)
                            /\ <<op.item.supplier, op.item.sku>> = key
                            /\ op.op \in {"set_quantity", "remove"}
  <2>1. PICK op \in Op :
               /\ step_line_quantity(by_supplier, key[1], key[2], delta) = Cart_apply(by_supplier, <<op>>)
               /\ <<op.item.supplier, op.item.sku>> = key
               /\ op.op \in {"set_quantity", "remove"}
    BY <1>1, StepOp
  <2> QED
    BY <1>3, <2>1 DEF Step
<1> QED
  BY <1>2, <1>3 DEF Click

LEMMA NextInv == Inv /\ [Next]_vars => Inv'
<1> SUFFICES ASSUME Inv, [Next]_vars PROVE Inv'
  OBVIOUS
<1>1. by_supplier \in Reachable /\ by_supplier \in Tidy /\ rendered \subseteq Suppliers \X SKUs
  BY DEF Inv, Tidy
<1>2. ASSUME NEW ops \in OpLists, Apply(ops) PROVE Inv'
  BY <1>1, <1>2, ApplyKeeps, CartAssumption DEF Apply, Inv
<1>3. ASSUME NEW key \in Suppliers \X SKUs, Click(key) PROVE Inv'
  <2>1. PICK op \in Op : by_supplier' = Cart_apply(by_supplier, <<op>>)
    BY <1>3, ClickOp
  <2>2. UNCHANGED rendered
    BY <1>3 DEF Click, Remove, Step
  <2> QED
    BY <1>1, <2>1, <2>2, OneEdit DEF Inv
<1>4. ASSUME NEW key \in Suppliers \X SKUs, NEW delta \in {-1, 1}, Step(key, delta) \/ Remove(key)
      PROVE  Inv'
  BY <1>3, <1>4 DEF Click
<1>5. CASE cart_panel
  BY <1>1, <1>5 DEF cart_panel, Inv, LineKeys
<1>6. CASE UNCHANGED vars
  BY <1>1, <1>6 DEF vars, Inv
<1> QED
  BY <1>2, <1>3, <1>4, <1>5, <1>6 DEF Next, Click

LEMMA InvHolds == Spec => []Inv
BY InitInv, NextInv, PTL DEF Spec

(***************************************************************************)
(* The cart is a dict of lists of lines, and the panel's buttons are those *)
(* of lines.                                                               *)
(***************************************************************************)
THEOREM CartTyped == Spec => []TypeOK
<1>1. Inv => TypeOK
  BY DEF Inv, TypeOK, Tidy, Reachable
<1> QED
  BY <1>1, InvHolds, PTL

(***************************************************************************)
(* Whatever is added, set, removed and clicked, each SKU is once in its    *)
(* supplier's group and nowhere else, so that every line can be reached.   *)
(***************************************************************************)
THEOREM LinesReached == Spec => []Addressable
<1>1. Inv => Addressable
  BY DEF Inv, Addressable, Tidy, Reachable, Keyed
<1> QED
  BY <1>1, InvHolds, PTL

(***************************************************************************)
(* No edit leaves an empty group.                                          *)
(***************************************************************************)
THEOREM GroupsHaveLines == Spec => []NoEmptyGroup
<1>1. Inv => NoEmptyGroup
  BY DEF Inv, NoEmptyGroup, Tidy
<1> QED
  BY <1>1, InvHolds, PTL

(***************************************************************************)
(* Clicks.                                                                 *)
(***************************************************************************)

LEMMA ClickKeepsOthers ==
  ASSUME Inv, NEW key \in Suppliers \X SKUs, Click(key)
  PROVE  /\ LineKeys(by_supplier) \ {key} = LineKeys(by_supplier') \ {key}
         /\ \A other \in LineKeys(by_supplier) \ {key} :
              LineAt(by_supplier', other) = LineAt(by_supplier, other)
         /\ key \in LineKeys(by_supplier) \cap LineKeys(by_supplier') =>
              LineAt(by_supplier', key).unit_price = LineAt(by_supplier, key).unit_price
<1>1. by_supplier \in Reachable
  BY DEF Inv, Tidy
<1>2. PICK op \in Op : /\ by_supplier' = Cart_apply(by_supplier, <<op>>)
                       /\ <<op.item.supplier, op.item.sku>> = key
                       /\ op.op \in {"set_quantity", "remove"}
  BY ClickOp
<1> DEFINE old == by_supplier
           new == Cart_apply(by_supplier, <<op>>)
<1>3. /\ \A other \in Suppliers \X SKUs : other # key =>
           /\ HasLine(new, other) <=> HasLine(old, other)
           /\ HasLine(old, other) => LineAt(new, other) = LineAt(old, other)
      /\ HasLine(new, key) /\ HasLine(old, key) => LineAt(new, key) = EditedLine(LineAt(old, key), op)
  BY <1>1, <1>2, OneEdit
<1>4. HasLine(old, key) => LineAt(old, key) \in Line
  BY <1>1, CurrentIs
<1>5. \A line \in Line : EditedLine(line, op).unit_price = line.unit_price
  BY <1>2 DEF EditedLine, Line
<1>6. new = by_supplier' /\ old = by_supplier
  BY <1>2
<1> HIDE DEF old, new
<1>7. /\ LineKeys(old) \subseteq Suppliers \X SKUs /\ LineKeys(new) \subseteq Suppliers \X SKUs
      /\ \A other \in Suppliers \X SKUs : /\ other \in LineKeys(old) <=> HasLine(old, other)
                                          /\ other \in LineKeys(new) <=> HasLine(new, other)
  BY LineKeysIs DEF LineKeys
<1>8. LineKeys(old) \ {key} = LineKeys(new) \ {key}
  BY <1>3, <1>7
<1>9. \A other \in LineKeys(old) \ {key} : LineAt(new, other) = LineAt(old, other)
  BY <1>3, <1>7
<1>10. key \in LineKeys(old) \cap LineKeys(new) => LineAt(new, key).unit_price = LineAt(old, key).unit_price
  BY <1>3, <1>4, <1>5, <1>7
<1> QED
  BY <1>6, <1>8, <1>9, <1>10

(***************************************************************************)
(* However late the panel is, a click changes the line it is on and no     *)
(* other, and keeps that line's price.                                     *)
(***************************************************************************)
THEOREM ClicksAreLocal == Spec => ClickIsLocal
<1>1. Inv /\ [Next]_vars =>
        [\A key \in Suppliers \X SKUs :
           (Remove(key) \/ \E delta \in {-1, 1} : Step(key, delta)) =>
             /\ LineKeys(by_supplier) \ {key} = LineKeys(by_supplier') \ {key}
             /\ \A other \in LineKeys(by_supplier) \ {key} :
                  LineAt(by_supplier', other) = LineAt(by_supplier, other)
             /\ key \in LineKeys(by_supplier) \cap LineKeys(by_supplier') =>
                  LineAt(by_supplier', key).unit_price = LineAt(by_supplier, key).unit_price]_vars
  BY ClickKeepsOthers DEF Click
<1> QED
  BY <1>1, InvHolds, PTL DEF Spec, ClickIsLocal

(***************************************************************************)
(* The map of quantities.                                                  *)
(***************************************************************************)

EditOf(op) == [op |-> op.op, key |-> <<op.item.supplier, op.item.sku>>, quantity |-> op.item.quantity]

QuantityAt(dict, key) == IF HasLine(dict, key) THEN LineAt(dict, key).quantity ELSE Absent

LEMMA QuantitiesType ==
  ASSUME NEW dict \in Reachable
  PROVE  /\ Quantities(dict) \in CartMaps(Suppliers \X SKUs)
         /\ DOMAIN Quantities(dict) = Suppliers \X SKUs
         /\ \A key \in Suppliers \X SKUs :
              /\ Quantities(dict)[key] = QuantityAt(dict, key)
              /\ HasLine(dict, key) => LineAt(dict, key) \in Line /\ LineAt(dict, key).quantity \in OptionalInt
<1>1. ASSUME NEW key \in Suppliers \X SKUs
      PROVE  /\ Quantities(dict)[key] = QuantityAt(dict, key)
             /\ HasLine(dict, key) => LineAt(dict, key) \in Line /\ LineAt(dict, key).quantity \in OptionalInt
             /\ QuantityAt(dict, key) \in OptionalInt \cup {Absent}
  <2>1. HasLine(dict, key) => LineAt(dict, key) \in Line
    BY CurrentIs
  <2>2. HasLine(dict, key) => LineAt(dict, key).quantity \in OptionalInt
    BY <2>1 DEF Line
  <2> QED
    BY <2>1, <2>2, LineKeysIs DEF Quantities, QuantityAt
<1>2. Quantities(dict) = [key \in Suppliers \X SKUs |-> QuantityAt(dict, key)]
  BY LineKeysIs DEF Quantities, QuantityAt
<1> QED
  BY <1>1, <1>2 DEF CartMaps

\* An edit of the lists is an edit of the map.
LEMMA EditQuantities ==
  ASSUME NEW dict \in Reachable, NEW op \in Op
  PROVE  /\ EditOf(op) \in Edits(Suppliers \X SKUs)
         /\ Quantities(_apply_one(dict, op)) = EditOne(Quantities(dict), EditOf(op))
<1> DEFINE new == _apply_one(dict, op)
           key == <<op.item.supplier, op.item.sku>>
           edited == EditOne(Quantities(dict), EditOf(op))
<1>1. /\ new \in Reachable /\ key \in Suppliers \X SKUs
      /\ \A other \in Suppliers \X SKUs : other # key =>
           /\ HasLine(new, other) <=> HasLine(dict, other)
           /\ HasLine(dict, other) => LineAt(new, other) = LineAt(dict, other)
      /\ HasLine(new, key) <=> Keeps(op, HasLine(dict, key))
      /\ HasLine(new, key) =>
           LineAt(new, key) = IF HasLine(dict, key) THEN EditedLine(LineAt(dict, key), op) ELSE op.item
  BY EditKeeps
<1>2. /\ op.item \in Line /\ op.op \in {"add", "set_quantity", "remove"}
      /\ op.item.quantity \in OptionalInt
  BY DEF Op, Line
<1>3. EditOf(op) \in Edits(Suppliers \X SKUs)
  BY <1>1, <1>2 DEF EditOf, Edits
<1>4. EditOf(op).key = key /\ EditOf(op).op = op.op /\ EditOf(op).quantity = op.item.quantity
  BY DEF EditOf
<1>5. /\ edited \in [Suppliers \X SKUs -> OptionalInt \cup {Absent}]
      /\ edited[key] = EditedQuantity(Quantities(dict)[key], op.op, op.item.quantity)
      /\ \A other \in Suppliers \X SKUs : other # key => edited[other] = Quantities(dict)[other]
  <2>1. edited \in CartMaps(Suppliers \X SKUs)
    BY <1>3, QuantitiesType, EditOneType
  <2>2. edited = [Quantities(dict) EXCEPT ![key] = EditedQuantity(@, op.op, op.item.quantity)]
    BY <1>4 DEF EditOne
  <2> HIDE DEF edited, key
  <2> QED
    BY <1>1, <2>1, <2>2, QuantitiesType DEF CartMaps
<1> HIDE DEF new, edited, key
<1>6. QuantityAt(new, key) = EditedQuantity(QuantityAt(dict, key), op.op, op.item.quantity)
  <2> DEFINE old == LineAt(dict, key)
             q == op.item.quantity
  <2>1. HasLine(dict, key) => old \in Line /\ old.quantity \in OptionalInt /\ old.quantity # Absent
    BY <1>1, QuantitiesType, ValuesAssumption DEF OptionalInt
  <2>2. CASE HasLine(dict, key)
    <3>1. EditedLine(old, op).quantity = EditedQuantity(old.quantity, op.op, q) \/ op.op = "remove"
      BY <1>2, <2>1, <2>2 DEF EditedLine, EditedQuantity, Line
    <3>2. op.op = "remove" <=> ~ Keeps(op, HasLine(dict, key))
      BY <1>2, <2>2 DEF Keeps
    <3>3. op.op = "remove" => EditedQuantity(old.quantity, op.op, q) = Absent
      BY DEF EditedQuantity
    <3> HIDE DEF old, q
    <3> QED
      BY <1>1, <2>2, <3>1, <3>2, <3>3 DEF QuantityAt, old, q
  <2>3. CASE ~ HasLine(dict, key)
    <3>1. QuantityAt(new, key) = IF Keeps(op, FALSE) THEN op.item.quantity ELSE Absent
      BY <1>1, <2>3 DEF QuantityAt, Keeps
    <3>2. EditedQuantity(Absent, op.op, op.item.quantity) = IF Keeps(op, FALSE) THEN op.item.quantity ELSE Absent
      BY <1>2 DEF EditedQuantity, Keeps
    <3> QED
      BY <2>3, <3>1, <3>2 DEF QuantityAt
  <2> QED
    BY <2>2, <2>3
<1>7. \A other \in Suppliers \X SKUs : other # key => QuantityAt(new, other) = QuantityAt(dict, other)
  BY <1>1 DEF QuantityAt
<1>8. /\ Quantities(new) \in [Suppliers \X SKUs -> OptionalInt \cup {Absent}]
      /\ \A other \in Suppliers \X SKUs : Quantities(new)[other] = QuantityAt(new, other)
      /\ \A other \in Suppliers \X SKUs : Quantities(dict)[other] = QuantityAt(dict, other)
  BY <1>1, QuantitiesType DEF CartMaps
<1>9. \A other \in Suppliers \X SKUs : Quantities(new)[other] = edited[other]
  BY <1>1, <1>5, <1>6, <1>7, <1>8
<1>10. Quantities(new) = edited
  BY <1>5, <1>8, <1>9
<1> QED
  BY <1>3, <1>10 DEF new, edited

LEMMA DropQuantities ==
  ASSUME NEW dict \in Reachable
  PROVE  Quantities(DropEmptyGroups(dict)) = Quantities(dict)
<1> DEFINE new == DropEmptyGroups(dict)
<1>1. /\ new \in Reachable
      /\ \A key \in Suppliers \X SKUs : QuantityAt(new, key) = QuantityAt(dict, key)
  BY DropKeeps DEF Tidy, QuantityAt
<1> HIDE DEF new
<1>2. /\ Quantities(new) \in [Suppliers \X SKUs -> OptionalInt \cup {Absent}]
      /\ Quantities(dict) \in [Suppliers \X SKUs -> OptionalInt \cup {Absent}]
      /\ \A key \in Suppliers \X SKUs : Quantities(new)[key] = Quantities(dict)[key]
  BY <1>1, QuantitiesType DEF CartMaps
<1>3. Quantities(new) = Quantities(dict)
  BY <1>2
<1> QED
  BY <1>3 DEF new

\* The loop over the lists and the loop over the map go side by side.
LEMMA ApplyQuantities ==
  ASSUME NEW dict \in Reachable, NEW ops \in Seq(Op)
  PROVE  Quantities(Cart_apply(dict, ops)) = EditAll(Quantities(dict), EditsOf(ops))
<1> DEFINE keys == Suppliers \X SKUs
           edits == EditsOf(ops)
           n == Len(ops)
           listPass == ApplyPass(ops)
           lists == Iterate(dict, listPass)
           pass == EditPass(keys, edits, 1..n)
           map == Iterate(Quantities(dict), pass)
<1>1. /\ n \in Nat /\ DOMAIN ops = 1..n /\ \A i \in 1..n : ops[i] \in Op
  OBVIOUS
<1>2. /\ Len(edits) = n /\ \A i \in 1..n : edits[i] = EditOf(ops[i]) /\ edits[i] \in Edits(keys)
  <2>1. edits = [i \in 1..n |-> EditOf(ops[i])]
    BY <1>1 DEF EditsOf, EditOf
  <2>2. \A i \in 1..n : EditOf(ops[i]) \in Edits(keys)
    BY <1>1, EditQuantities
  <2> HIDE DEF edits, keys
  <2> QED
    BY <1>1, <2>1, <2>2
<1>3. Quantities(dict) \in CartMaps(keys) /\ DOMAIN Quantities(dict) = keys
  BY QuantitiesType
<1>4. \A i \in Nat : lists[i] \in Reachable
  BY PassesKeep
<1>5. /\ lists[0] = dict /\ lists \in [Nat -> Dicts]
      /\ \A i \in Nat : lists[i + 1] = listPass[i + 1][lists[i]]
  <2>1. listPass \in [Nat -> [Dicts -> Dicts]] /\ dict \in Dicts
    BY ApplyPassType DEF Reachable
  <2> HIDE DEF keys, edits, n, listPass, pass, map
  <2> QED
    BY <2>1, IterateUnfolds
<1> HIDE DEF keys, edits, n
<1>6. pass \in [Nat -> [CartMaps(keys) -> CartMaps(keys)]]
  BY <1>2, EditPassType
<1> HIDE DEF lists, listPass
<1>7. /\ map[0] = Quantities(dict) /\ map \in [Nat -> CartMaps(keys)]
      /\ \A i \in Nat : map[i + 1] = pass[i + 1][map[i]]
  <2> HIDE DEF pass
  <2> QED
    BY <1>3, <1>6, IterateUnfolds
<1> HIDE DEF map
<1> DEFINE T == {i \in Nat : Quantities(lists[i]) = map[i]}
<1>8. T \in SUBSET Nat /\ 0 \in T
  BY <1>5, <1>7
<1>9. ASSUME NEW i \in Nat, i \in T PROVE i + 1 \in T
  <2>1. lists[i] \in Dicts /\ map[i] \in CartMaps(keys) /\ Quantities(lists[i]) = map[i]
    BY <1>4, <1>7, <1>9 DEF Reachable
  <2>2. lists[i + 1] = IF i + 1 \in 1..n THEN _apply_one(lists[i], ops[i + 1]) ELSE lists[i]
    <3>1. \A k \in Nat, d \in Dicts :
            listPass[k][d] = IF k \in 1..n THEN _apply_one(d, ops[k]) ELSE d
      BY DEF ApplyPass, n, listPass
    <3>2. i + 1 \in Nat
      OBVIOUS
    <3>3. lists[i + 1] = listPass[i + 1][lists[i]]
      BY <1>5
    <3> QED
      BY <2>1, <3>1, <3>2, <3>3, Zenon
  <2>3. map[i + 1] = IF i + 1 \in 1..n THEN EditOne(map[i], edits[i + 1]) ELSE map[i]
    <3>1. \A k \in Nat, cart \in CartMaps(keys) :
            pass[k][cart] = IF k \in 1..n THEN EditOne(cart, edits[k]) ELSE cart
      BY DEF EditPass
    <3> HIDE DEF pass
    <3>2. i + 1 \in Nat
      OBVIOUS
    <3>3. map[i + 1] = pass[i + 1][map[i]]
      BY <1>7
    <3> QED
      BY <2>1, <3>1, <3>2, <3>3, Zenon
  <2>4. i + 1 \in 1..n => Quantities(_apply_one(lists[i], ops[i + 1])) = EditOne(map[i], edits[i + 1])
    BY <1>1, <1>2, <1>4, <2>1, EditQuantities
  <2> QED
    BY <2>1, <2>2, <2>3, <2>4
<1> HIDE DEF T
<1>10. \A i \in Nat : i \in T
  BY <1>8, <1>9, SetInduction
<1>11. Quantities(lists[n]) = map[n] /\ lists[n] \in Reachable
  BY <1>1, <1>4, <1>10 DEF T
<1>12. Cart_apply(dict, ops) = DropEmptyGroups(lists[n])
  BY DEF Cart_apply, lists, listPass, n
<1>13. EditAll(Quantities(dict), edits) = map[n]
  BY <1>2, <1>3 DEF EditAll, EditTaken, map
<1> QED
  BY <1>11, <1>12, <1>13, DropQuantities DEF edits

(***************************************************************************)
(* The refinement.                                                         *)
(***************************************************************************)

\* CartPromise's operators are CartMap's.
LEMMA PromiseOperators ==
  /\ \A keys : Promise!EmptyCart(keys) = EmptyCart(keys)
  /\ \A cart, edits : Promise!EditAll(cart, edits) = EditAll(cart, edits)
  /\ \A quantity : Promise!OrZero(quantity) = OrZero(quantity)
<1>1. \A start, step : Promise!Iterate(start, step) = Iterate(start, step)
  BY Zenon DEF Promise!Iterate, Iterate
<1>2. \A quantity : Promise!OrZero(quantity) = OrZero(quantity)
  BY DEF Promise!OrZero, OrZero
<1>3. \A old, op, quantity : Promise!EditedQuantity(old, op, quantity) = EditedQuantity(old, op, quantity)
  BY <1>2, Zenon DEF Promise!EditedQuantity, EditedQuantity
<1>4. \A cart, edit : Promise!EditOne(cart, edit) = EditOne(cart, edit)
  BY <1>3, Zenon DEF Promise!EditOne, EditOne
<1>5. \A keys : Promise!CartMaps(keys) = CartMaps(keys)
  BY Zenon DEF Promise!CartMaps, CartMaps, Promise!OptionalInt, OptionalInt
<1>6. \A keys, edits, taken : Promise!EditPass(keys, edits, taken) = EditPass(keys, edits, taken)
  BY <1>4, <1>5, Zenon DEF Promise!EditPass, EditPass
<1>7. \A cart, edits : Promise!EditAll(cart, edits) = EditAll(cart, edits)
  BY <1>1, <1>6, Zenon DEF Promise!EditAll, EditAll, Promise!EditTaken, EditTaken
<1>8. \A keys : Promise!EmptyCart(keys) = EmptyCart(keys)
  BY Zenon DEF Promise!EmptyCart, EmptyCart
<1> QED
  BY <1>2, <1>7, <1>8

\* What a batch of one does to the map.
LEMMA OneQuantity ==
  ASSUME NEW dict \in Reachable, NEW op \in Op
  PROVE  Quantities(Cart_apply(dict, <<op>>)) = EditOne(Quantities(dict), EditOf(op))
<1>1. _apply_one(dict, op) \in Reachable
  BY EditKeeps
<1> QED
  BY <1>1, ApplyOne, DropQuantities, EditQuantities

LEMMA PromiseSteps == Inv /\ [Next]_vars => [Promise!PromiseNext]_(Quantities(by_supplier))
<1> SUFFICES ASSUME Inv, [Next]_vars PROVE [Promise!PromiseNext]_(Quantities(by_supplier))
  OBVIOUS
<1>1. by_supplier \in Reachable
  BY DEF Inv, Tidy
<1> DEFINE old == Quantities(by_supplier)
<1>2. ASSUME NEW ops \in OpLists, Apply(ops) PROVE Promise!PromiseNext
  <2>1. Quantities(by_supplier') = EditAll(old, EditsOf(ops))
    BY <1>1, <1>2, ApplyQuantities, CartAssumption DEF Apply
  <2>2. Promise!Batch(EditsOf(ops))
    BY <2>1, PromiseOperators DEF Promise!Batch
  <2> QED
    BY <2>2 DEF Promise!PromiseNext
<1>3. ASSUME NEW key \in Suppliers \X SKUs, NEW delta \in {-1, 1}, Step(key, delta)
      PROVE  Promise!PromiseNext
  <2> DEFINE quantity == _current_quantity(by_supplier, key[1], key[2]) + delta
  <2>1. PICK op \in Op :
               /\ step_line_quantity(by_supplier, key[1], key[2], delta) = Cart_apply(by_supplier, <<op>>)
               /\ <<op.item.supplier, op.item.sku>> = key
               /\ IF quantity < 1 THEN op.op = "remove"
                  ELSE op.op = "set_quantity" /\ op.item.quantity = quantity
    BY <1>1, StepOp
  <2>2. Quantities(by_supplier') = EditOne(old, EditOf(op))
    BY <1>1, <1>3, <2>1, OneQuantity DEF Step
  <2>3. Promise!QuantityOf(key) + delta = quantity
    <3>1. HasLine(by_supplier, key) => LineAt(by_supplier, key).quantity # Absent
      BY <1>1, QuantitiesType, ValuesAssumption DEF OptionalInt
    <3>2. old[key] = QuantityAt(by_supplier, key)
      BY <1>1, QuantitiesType
    <3>3. Promise!QuantityOf(key) = _current_quantity(by_supplier, key[1], key[2])
      BY <1>1, <3>1, <3>2, CurrentIs, PromiseOperators DEF Promise!QuantityOf, QuantityAt
    <3> QED
      BY <3>3
  <2>4. quantity \in Int /\ quantity # NULL
    <3>1. _current_quantity(by_supplier, key[1], key[2]) \in Int /\ delta \in Int
      BY <1>1, CurrentIs
    <3> QED
      BY <3>1, ValuesAssumption
  <2> HIDE DEF quantity, old
  <2>5. EditOne(old, EditOf(op)) = [old EXCEPT ![key] = IF quantity < 1 THEN Absent ELSE quantity]
    <3>1. EditOf(op).key = key /\ EditOf(op).op = op.op /\ EditOf(op).quantity = op.item.quantity
      BY <2>1 DEF EditOf
    <3>2. EditedQuantity(old[key], op.op, op.item.quantity) = IF quantity < 1 THEN Absent ELSE quantity
      BY <2>1, <2>4 DEF EditedQuantity
    <3> QED
      BY <3>1, <3>2 DEF EditOne
  <2>6. Promise!Nudge(key, delta)
    BY <2>2, <2>3, <2>5 DEF Promise!Nudge, old
  <2> QED
    BY <2>6 DEF Promise!PromiseNext
<1>4. ASSUME NEW key \in Suppliers \X SKUs, Remove(key) PROVE Promise!PromiseNext
  <2>1. PICK op \in Op : /\ remove_line(by_supplier, key[1], key[2]) = Cart_apply(by_supplier, <<op>>)
                         /\ <<op.item.supplier, op.item.sku>> = key /\ op.op = "remove"
    BY <1>1, RemoveOp
  <2>2. Quantities(by_supplier') = EditOne(old, EditOf(op))
    BY <1>1, <1>4, <2>1, OneQuantity DEF Remove
  <2>3. EditOne(old, EditOf(op)) = [old EXCEPT ![key] = Absent]
    BY <2>1 DEF EditOne, EditOf, EditedQuantity
  <2>4. Promise!Drop(key)
    BY <2>2, <2>3 DEF Promise!Drop
  <2> QED
    BY <2>4 DEF Promise!PromiseNext
<1>5. CASE cart_panel \/ UNCHANGED vars
  BY <1>5 DEF cart_panel, vars
<1> QED
  BY <1>2, <1>3, <1>4, <1>5 DEF Next

(***************************************************************************)
(* The dict of lists is the map of quantities it promises to be: a batch   *)
(* is its edits one after the other, a click a step of one line.           *)
(***************************************************************************)
THEOREM CartKeepsPromise == Spec => KeepsPromise
<1>1. Init => Promise!PromiseInit
  <2> SUFFICES ASSUME Init PROVE Quantities(by_supplier) = EmptyCart(Suppliers \X SKUs)
    BY PromiseOperators DEF Promise!PromiseInit
  <2>1. LineKeys(by_supplier) = {}
    BY DEF Init, LineKeys, Groups
  <2> QED
    BY <2>1 DEF Quantities, EmptyCart
<1> QED
  BY <1>1, InvHolds, PromiseSteps, PTL DEF Spec, KeepsPromise, Promise!Spec
=============================================================================
