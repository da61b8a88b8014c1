------------------------------ MODULE IdTblProofs ------------------------------
(***************************************************************************)
(* The array of CIdTbl stays ordered, whatever its operations are called   *)
(* with and however many items it holds, and implements the map from       *)
(* identifiers to entries that its callers think of: first the array, then *)
(* what it means as a map, then the loop of Clean, then the refinement.    *)
(***************************************************************************)
EXTENDS IdTbl, SequenceTheorems, FiniteSetTheorems, TLAPS

\* The order of identifiers is strict and total.
LEMMA LessTransitive ==
  ASSUME NEW a \in TrafficId, NEW b \in TrafficId, NEW c \in TrafficId, Less(a, b), Less(b, c)
  PROVE  Less(a, c)
<1>1. \A j \in {1, 2, 3, 4} : a[j] \in Nat /\ b[j] \in Nat /\ c[j] \in Nat
  BY DEF TrafficId
<1>2. QED
  BY <1>1 DEF Less

LEMMA LessStrict ==
  ASSUME NEW a \in TrafficId
  PROVE  ~Less(a, a)
<1>1. \A j \in {1, 2, 3, 4} : a[j] \in Nat
  BY DEF TrafficId
<1>2. QED
  BY <1>1 DEF Less

LEMMA LessTotal ==
  ASSUME NEW a \in TrafficId, NEW b \in TrafficId
  PROVE  a = b \/ Less(a, b) \/ Less(b, a)
<1>1. \A j \in {1, 2, 3, 4} : a[j] \in Nat /\ b[j] \in Nat
  BY DEF TrafficId
<1>2. a = <<a[1], a[2], a[3], a[4]>> /\ b = <<b[1], b[2], b[3], b[4]>>
  BY DEF TrafficId
<1>3. QED
  BY <1>1, <1>2 DEF Less

-----------------------------------------------------------------------------
(* An ordered array as a map.                                              *)

Entry(item) == [reverse |-> item.reverse, LastTraffic |-> item.LastTraffic]
EntryType   == [reverse : Reverses, LastTraffic : Times]

LEMMA EntryTyped == \A item \in Item : Entry(item) \in EntryType
BY DEF Item, Entry, EntryType

LEMMA ItemFacts ==
  ASSUME NEW items \in Seq(Item)
  PROVE  /\ Len(items) \in Nat /\ DOMAIN items = 1 .. Len(items)
         /\ \A i \in 1 .. Len(items) : items[i] \in Item /\ items[i].id \in TrafficId
<1>1. Len(items) \in Nat /\ DOMAIN items = 1 .. Len(items)
  OBVIOUS
<1>2. \A i \in 1 .. Len(items) : items[i] \in Item
  BY <1>1, ElementOfSeq
<1>3. \A x \in Item : x.id \in Ids
  BY DEF Item
<1>4. QED
  BY <1>1, <1>2, <1>3, IdAssumption

\* The items stand in the order of their ids, whichever way one asks.
LEMMA OrderedIds ==
  ASSUME NEW items \in Seq(Item), Ordered(items),
         NEW i \in 1 .. Len(items), NEW j \in 1 .. Len(items)
  PROVE  /\ Less(items[i].id, items[j].id) <=> i < j
         /\ items[i].id = items[j].id <=> i = j
<1>1. /\ i \in Int /\ j \in Int
      /\ items[i].id \in TrafficId /\ items[j].id \in TrafficId
      /\ i < j => Less(items[i].id, items[j].id)
      /\ j < i => Less(items[j].id, items[i].id)
  BY ItemFacts DEF Ordered
<1>2. i < j \/ i = j \/ j < i
  BY <1>1
<1>3. ~(Less(items[i].id, items[j].id) /\ Less(items[j].id, items[i].id))
  BY <1>1, LessTransitive, LessStrict
<1>4. ~Less(items[i].id, items[i].id) /\ ~Less(items[j].id, items[j].id)
  BY <1>1, LessStrict
<1>5. QED
  BY <1>1, <1>2, <1>3, <1>4

LEMMA MapOfFacts ==
  ASSUME NEW items \in Seq(Item), Ordered(items)
  PROVE  /\ DOMAIN MapOf(items) = {items[i].id : i \in 1 .. Len(items)}
         /\ \A i \in 1 .. Len(items) : MapOf(items)[items[i].id] = Entry(items[i])
<1>1. DOMAIN items = 1 .. Len(items)
  BY ItemFacts
<1>2. DOMAIN MapOf(items) = {items[i].id : i \in 1 .. Len(items)}
  BY <1>1 DEF MapOf
<1>3. ASSUME NEW i \in 1 .. Len(items)
      PROVE  MapOf(items)[items[i].id] = Entry(items[i])
  <2>1. (CHOOSE j \in DOMAIN items : items[j].id = items[i].id) = i
    <3>1. \A j \in DOMAIN items : items[j].id = items[i].id <=> j = i
      BY <1>1, OrderedIds
    <3>2. i \in DOMAIN items
      BY <1>1
    <3>3. QED
      BY <3>1, <3>2
  <2>2. items[i].id \in {items[j].id : j \in DOMAIN items}
    BY <1>1
  <2>3. QED
    BY <2>1, <2>2 DEF MapOf, Entry
<1>4. QED
  BY <1>2, <1>3

\* A function with the ids and the entries of the items is their map.
LEMMA MapOfIs ==
  ASSUME NEW items \in Seq(Item), Ordered(items), NEW D, NEW f \in [D -> EntryType],
         \A i \in 1 .. Len(items) : items[i].id \in D /\ f[items[i].id] = Entry(items[i]),
         \A k \in D : \E i \in 1 .. Len(items) : k = items[i].id
  PROVE  MapOf(items) = f
<1>1. MapOf(items) = [x \in DOMAIN MapOf(items) |-> MapOf(items)[x]]
  BY DEF MapOf
<1>2. DOMAIN MapOf(items) = D
  <2>1. DOMAIN MapOf(items) = {items[i].id : i \in 1 .. Len(items)}
    BY MapOfFacts
  <2>2. QED
    BY <2>1
<1>3. ASSUME NEW x \in D PROVE MapOf(items)[x] = f[x]
  <2>1. PICK i \in 1 .. Len(items) : x = items[i].id
    OBVIOUS
  <2>2. MapOf(items)[items[i].id] = Entry(items[i])
    BY MapOfFacts
  <2>3. QED
    BY <2>1, <2>2
<1>4. QED
  BY <1>1, <1>2, <1>3

LEMMA CardinalityOf ==
  ASSUME NEW items \in Seq(Item), Ordered(items)
  PROVE  /\ IsFiniteSet(DOMAIN MapOf(items))
         /\ Cardinality(DOMAIN MapOf(items)) = Len(items)
<1> DEFINE n == Len(items)
           D == DOMAIN MapOf(items)
           f == [i \in 1 .. n |-> items[i].id]
<1>1. n \in Nat /\ D = {items[i].id : i \in 1 .. n}
  BY ItemFacts, MapOfFacts
<1>2. f \in [1 .. n -> D]
  BY <1>1
<1>3. \A i, j \in 1 .. n : f[i] = f[j] => i = j
  BY OrderedIds
<1>4. \A x \in D : \E i \in 1 .. n : f[i] = x
  BY <1>1
<1>5. ExistsBijection(1 .. n, D)
  BY <1>2, <1>3, <1>4 DEF ExistsBijection, Bijection, Injection, Surjection, IsInjective
<1>6. IsFiniteSet(1 .. n) /\ Cardinality(1 .. n) = n
  <2>1. 1 \in Int /\ n \in Int /\ (IF 1 > n THEN 0 ELSE n - 1 + 1) = n
    BY <1>1
  <2>2. QED
    BY <2>1, FS_Interval
<1>7. QED
  BY <1>5, <1>6, FS_Bijection

\* What FindItem's index is: the number of keys below the one it looked for.
LEMMA PositionOf ==
  ASSUME NEW items \in Seq(Item), Ordered(items), NEW k \in TrafficId,
         NEW Idx \in 0 .. Len(items),
         \A i \in 1 .. Len(items) : Less(items[i].id, k) <=> i <= Idx
  PROVE  Position(MapOf(items), k) = Idx
<1> DEFINE n == Len(items)
           D == {x \in DOMAIN MapOf(items) : Less(x, k)}
           f == [i \in 1 .. Idx |-> items[i].id]
<1>1. n \in Nat /\ Idx \in Nat /\ Idx <= n /\ DOMAIN MapOf(items) = {items[i].id : i \in 1 .. n}
  <2>1. n \in Nat
    BY ItemFacts
  <2>2. DOMAIN MapOf(items) = {items[i].id : i \in 1 .. n}
    BY MapOfFacts
  <2>3. QED
    BY <2>1, <2>2
<1>2. f \in [1 .. Idx -> D]
  BY <1>1
<1>3. \A i, j \in 1 .. Idx : f[i] = f[j] => i = j
  BY <1>1, OrderedIds
<1>4. \A x \in D : \E i \in 1 .. Idx : f[i] = x
  BY <1>1
<1>5. ExistsBijection(1 .. Idx, D)
  BY <1>2, <1>3, <1>4 DEF ExistsBijection, Bijection, Injection, Surjection, IsInjective
<1>6. IsFiniteSet(1 .. Idx) /\ Cardinality(1 .. Idx) = Idx
  <2>1. 1 \in Int /\ Idx \in Int /\ (IF 1 > Idx THEN 0 ELSE Idx - 1 + 1) = Idx
    BY <1>1
  <2>2. QED
    BY <2>1, FS_Interval
<1>7. Cardinality(D) = Idx
  BY <1>5, <1>6, FS_Bijection
<1>8. QED
  BY <1>7 DEF Position

LEMMA FindsPosition ==
  ASSUME NEW items \in Seq(Item), Ordered(items), NEW k \in TrafficId,
         NEW found \in BOOLEAN, NEW Idx, Finds(items, k, found, Idx)
  PROVE  /\ Idx \in Nat /\ Idx <= Len(items)
         /\ Position(MapOf(items), k) = Idx
         /\ found <=> k \in DOMAIN MapOf(items)
<1> DEFINE n == Len(items)
<1>1. /\ n \in Nat /\ Idx \in 0 .. n
      /\ \A i \in 1 .. Idx : Less(items[i].id, k)
      /\ \A i \in 1 .. n : items[i].id \in TrafficId
      /\ found => Idx < n /\ items[Idx + 1].id = k
      /\ ~found => \A i \in (Idx + 1) .. n : Less(k, items[i].id)
  BY ItemFacts DEF Finds
<1>2. DOMAIN MapOf(items) = {items[i].id : i \in 1 .. n}
  BY MapOfFacts
<1>3. ASSUME NEW i \in 1 .. n, Idx < i
      PROVE  /\ ~Less(items[i].id, k)
             /\ found \/ items[i].id # k
  <2>1. CASE found
    <3>1. Idx + 1 \in 1 .. n /\ ~(i < Idx + 1)
      BY <1>1, <1>3, <2>1
    <3>2. QED
      BY <1>1, <2>1, <3>1, OrderedIds
  <2>2. CASE ~found
    <3>1. i \in (Idx + 1) .. n
      BY <1>1, <1>3
    <3>2. Less(k, items[i].id)
      BY <1>1, <2>2, <3>1
    <3>3. QED
      BY <1>1, <3>2, LessTransitive, LessStrict
  <2>3. QED
    BY <2>1, <2>2
<1>4. \A i \in 1 .. n : Less(items[i].id, k) <=> i <= Idx
  BY <1>1, <1>3
<1>5. Position(MapOf(items), k) = Idx
  BY <1>1, <1>4, PositionOf
<1>6. found => k \in DOMAIN MapOf(items)
  <2>1. found => Idx + 1 \in 1 .. n
    BY <1>1
  <2>2. QED
    BY <1>1, <1>2, <2>1
<1>7. ASSUME ~found PROVE k \notin DOMAIN MapOf(items)
  <2>1. \A i \in 1 .. n : items[i].id # k
    <3>1. ASSUME NEW i \in 1 .. n PROVE items[i].id # k
      <4>1. CASE i <= Idx
        BY <1>1, <4>1, LessStrict
      <4>2. CASE Idx < i
        BY <1>3, <1>7, <4>2
      <4>3. QED
        BY <1>1, <4>1, <4>2
    <3>2. QED
      BY <3>1
  <2>2. QED
    BY <1>2, <2>1
<1>8. QED
  BY <1>1, <1>5, <1>6, <1>7

\* What an index means: the key at that index of the array.
LEMMA AtOf ==
  ASSUME NEW items \in Seq(Item), Ordered(items), NEW Idx \in Nat
  PROVE  /\ Held(MapOf(items), Idx) <=> Idx < Len(items)
         /\ Idx < Len(items) => At(MapOf(items), Idx) = items[Idx + 1].id
<1> DEFINE n == Len(items)
           M == MapOf(items)
<1>1. n \in Nat /\ DOMAIN M = {items[i].id : i \in 1 .. n}
      /\ \A i \in 1 .. n : items[i].id \in TrafficId
  BY ItemFacts, MapOfFacts
<1>2. Held(M, Idx) <=> Idx < n
  BY CardinalityOf DEF Held
<1>3. ASSUME NEW i \in 1 .. n PROVE Position(M, items[i].id) = i - 1
  <2>1. i - 1 \in 0 .. n
    BY <1>1
  <2>2. \A j \in 1 .. n : Less(items[j].id, items[i].id) <=> j <= i - 1
    <3>1. \A j \in 1 .. n : Less(items[j].id, items[i].id) <=> j < i
      BY OrderedIds
    <3>2. QED
      BY <1>1, <3>1
  <2>3. QED
    BY <1>1, <2>1, <2>2, PositionOf
<1>4. ASSUME Idx < n PROVE At(M, Idx) = items[Idx + 1].id
  <2>1. Idx + 1 \in 1 .. n /\ Idx + 1 - 1 = Idx
    BY <1>1, <1>4
  <2>2. items[Idx + 1].id \in DOMAIN M /\ Position(M, items[Idx + 1].id) = Idx
    BY <1>1, <1>3, <2>1
  <2>3. ASSUME NEW k \in DOMAIN M, Position(M, k) = Idx PROVE k = items[Idx + 1].id
    <3>1. PICK i \in 1 .. n : k = items[i].id
      BY <1>1
    <3>2. i - 1 = Idx
      BY <1>3, <2>3, <3>1
    <3>3. i = Idx + 1
      BY <1>1, <3>2
    <3>4. QED
      BY <3>1, <3>3
  <2> HIDE DEF M
  <2>4. QED
    BY <2>2, <2>3 DEF At
<1>5. QED
  BY <1>2, <1>4

-----------------------------------------------------------------------------
(* What memmove does to the array.                                         *)

\* Making room at a position moves the items from there on up by one.
LEMMA InsertedFacts ==
  ASSUME NEW S, m_Tbl \in Seq(S), NEW Idx \in 0 .. m_Elements, NEW item \in S
  PROVE  /\ Inserted(Idx, item) \in Seq(S)
         /\ Len(Inserted(Idx, item)) = m_Elements + 1
         /\ \A i \in 1 .. (m_Elements + 1) :
              Inserted(Idx, item)[i] =
                IF i <= Idx THEN m_Tbl[i] ELSE IF i = Idx + 1 THEN item ELSE m_Tbl[i - 1]
<1> DEFINE left  == SubSeq(m_Tbl, 1, Idx)
           right == SubSeq(m_Tbl, Idx + 1, m_Elements)
<1>1. m_Elements \in Nat /\ Idx \in Nat /\ Idx <= m_Elements /\ Len(m_Tbl) = m_Elements
  BY DEF m_Elements
<1>2. /\ left \in Seq(S) /\ Len(left) = Idx
      /\ \A i \in 1 .. Idx : left[i] = m_Tbl[i]
  BY <1>1
<1>3. /\ right \in Seq(S) /\ Len(right) = m_Elements - Idx
      /\ \A i \in 1 .. (m_Elements - Idx) : right[i] = m_Tbl[Idx + i]
  BY <1>1
<1>4. Inserted(Idx, item) = (left \o <<item>>) \o right
  <2>1. Idx + 1 - 1 = Idx
    BY <1>1
  <2>2. QED
    BY <1>1, <2>1 DEF Inserted, Seqs!InsertAt
<1> HIDE DEF left, right
<1> DEFINE head == left \o <<item>>
<1>5. /\ head \in Seq(S) /\ Len(head) = Idx + 1
      /\ \A i \in 1 .. Idx : head[i] = m_Tbl[i]
      /\ head[Idx + 1] = item
  <2>1. <<item>> \in Seq(S) /\ Len(<<item>>) = 1 /\ <<item>>[1] = item
    OBVIOUS
  <2>2. \A i \in 1 .. (Len(left) + Len(<<item>>)) :
          head[i] = IF i <= Len(left) THEN left[i] ELSE <<item>>[i - Len(left)]
    BY <1>2, <2>1, ConcatProperties
  <2>3. head \in Seq(S) /\ Len(head) = Len(left) + Len(<<item>>)
    BY <1>2, <2>1, ConcatProperties
  <2>4. (Idx + 1) - Idx = 1 /\ ~(Idx + 1 <= Idx) /\ Idx + 1 \in 1 .. (Idx + 1)
    BY <1>1
  <2>5. QED
    BY <1>1, <1>2, <2>1, <2>2, <2>3, <2>4
<1> HIDE DEF head
<1>6. /\ head \o right \in Seq(S) /\ Len(head \o right) = m_Elements + 1
      /\ \A i \in 1 .. (m_Elements + 1) :
           (head \o right)[i] = IF i <= Idx + 1 THEN head[i] ELSE right[i - (Idx + 1)]
  <2>1. Len(head) + Len(right) = m_Elements + 1
    BY <1>1, <1>3, <1>5
  <2>2. /\ head \o right \in Seq(S) /\ Len(head \o right) = Len(head) + Len(right)
        /\ \A i \in 1 .. (Len(head) + Len(right)) :
             (head \o right)[i] = IF i <= Len(head) THEN head[i] ELSE right[i - Len(head)]
    <3>1. head \in Seq(S) /\ right \in Seq(S)
      BY <1>3, <1>5
    <3>2. QED
      BY <3>1, ConcatProperties
  <2>3. QED
    BY <1>5, <2>1, <2>2
<1>7. ASSUME NEW i \in 1 .. (m_Elements + 1)
      PROVE  (head \o right)[i] =
                IF i <= Idx THEN m_Tbl[i] ELSE IF i = Idx + 1 THEN item ELSE m_Tbl[i - 1]
  <2>1. CASE i <= Idx + 1
    BY <1>1, <1>5, <1>6, <2>1
  <2>2. CASE i > Idx + 1
    <3>1. i - (Idx + 1) \in 1 .. (m_Elements - Idx) /\ Idx + (i - (Idx + 1)) = i - 1
      BY <1>1, <2>2
    <3>2. right[i - (Idx + 1)] = m_Tbl[i - 1]
      BY <1>3, <3>1
    <3>3. QED
      BY <1>1, <1>6, <2>2, <3>2
  <2>3. i <= Idx + 1 \/ i > Idx + 1
    BY <1>1
  <2>4. QED
    BY <2>1, <2>2, <2>3
<1>8. QED
  BY <1>4, <1>6, <1>7 DEF head

\* Taking an item out moves those behind it down by one.
LEMMA RemovedFacts ==
  ASSUME NEW S, m_Tbl \in Seq(S), NEW Idx \in 0 .. (m_Elements - 1)
  PROVE  /\ Removed(Idx) \in Seq(S)
         /\ Len(Removed(Idx)) = m_Elements - 1
         /\ \A i \in 1 .. (m_Elements - 1) :
              Removed(Idx)[i] = IF i <= Idx THEN m_Tbl[i] ELSE m_Tbl[i + 1]
<1> DEFINE left  == SubSeq(m_Tbl, 1, Idx)
           right == SubSeq(m_Tbl, Idx + 2, m_Elements)
<1>1. m_Elements \in Nat /\ Idx \in Nat /\ Idx < m_Elements /\ Len(m_Tbl) = m_Elements
  BY DEF m_Elements
<1>2. /\ left \in Seq(S) /\ Len(left) = Idx
      /\ \A i \in 1 .. Idx : left[i] = m_Tbl[i]
  BY <1>1
<1>3. /\ right \in Seq(S) /\ Len(right) = m_Elements - Idx - 1
      /\ \A i \in 1 .. (m_Elements - Idx - 1) : right[i] = m_Tbl[Idx + 1 + i]
  BY <1>1
<1>4. Removed(Idx) = left \o right
  <2>1. Idx + 1 - 1 = Idx /\ Idx + 1 + 1 = Idx + 2
    BY <1>1
  <2>2. QED
    BY <1>1, <2>1 DEF Removed, Seqs!RemoveAt
<1> HIDE DEF left, right
<1>5. /\ left \o right \in Seq(S) /\ Len(left \o right) = m_Elements - 1
      /\ \A i \in 1 .. (m_Elements - 1) :
           (left \o right)[i] = IF i <= Idx THEN left[i] ELSE right[i - Idx]
  <2>1. Len(left) + Len(right) = m_Elements - 1
    BY <1>1, <1>2, <1>3
  <2>2. /\ left \o right \in Seq(S) /\ Len(left \o right) = Len(left) + Len(right)
        /\ \A i \in 1 .. (Len(left) + Len(right)) :
             (left \o right)[i] = IF i <= Len(left) THEN left[i] ELSE right[i - Len(left)]
    <3>1. left \in Seq(S) /\ right \in Seq(S)
      BY <1>2, <1>3
    <3>2. QED
      BY <3>1, ConcatProperties
  <2>3. QED
    BY <1>2, <2>1, <2>2
<1>6. ASSUME NEW i \in 1 .. (m_Elements - 1)
      PROVE  (left \o right)[i] = IF i <= Idx THEN m_Tbl[i] ELSE m_Tbl[i + 1]
  <2>1. CASE i <= Idx
    BY <1>1, <1>2, <1>5, <2>1
  <2>2. CASE i > Idx
    <3>1. i - Idx \in 1 .. (m_Elements - Idx - 1) /\ Idx + 1 + (i - Idx) = i + 1
      BY <1>1, <2>2
    <3>2. right[i - Idx] = m_Tbl[i + 1]
      BY <1>3, <3>1
    <3>3. QED
      BY <1>1, <1>5, <2>2, <3>2
  <2>3. i <= Idx \/ i > Idx
    BY <1>1
  <2>4. QED
    BY <2>1, <2>2, <2>3
<1>7. QED
  BY <1>4, <1>5, <1>6

-----------------------------------------------------------------------------
(* The invariant: the items have their type, fit, and stand in order.      *)

IInv == TypeOK /\ ArrayOrdered

LEMMA TableFacts ==
  ASSUME TypeOK
  PROVE  /\ m_Elements \in Nat /\ Len(m_Tbl) = m_Elements /\ DOMAIN m_Tbl = 1 .. m_Elements
         /\ \A i \in 1 .. m_Elements : m_Tbl[i] \in Item /\ m_Tbl[i].id \in TrafficId
<1>1. m_Tbl \in Seq(Item)
  BY DEF TypeOK
<1>2. m_Elements \in Nat /\ Len(m_Tbl) = m_Elements /\ DOMAIN m_Tbl = 1 .. m_Elements
  BY <1>1 DEF m_Elements
<1>3. \A i \in 1 .. m_Elements : m_Tbl[i] \in Item
  BY <1>1, <1>2, ElementOfSeq
<1>4. \A x \in Item : x.id \in TrafficId
  <2>1. \A x \in Item : x.id \in Ids
    BY DEF Item
  <2>2. QED
    BY <2>1, IdAssumption
<1>5. QED
  BY <1>2, <1>3, <1>4

\* An item put where FindItem says leaves the array ordered.
LEMMA InsertedOrdered ==
  ASSUME IInv, NEW Idx \in 0 .. m_Elements, NEW item \in Item,
         Finds(m_Tbl, item.id, FALSE, Idx)
  PROVE  Ordered(Inserted(Idx, item))
<1> DEFINE new == Inserted(Idx, item)
<1>0. TypeOK /\ Idx \in Int /\ m_Elements \in Nat
  BY TableFacts DEF IInv
<1>1. /\ Len(new) = m_Elements + 1 /\ new \in Seq(Item)
      /\ \A i \in 1 .. (m_Elements + 1) :
              new[i] = IF i <= Idx THEN m_Tbl[i] ELSE IF i = Idx + 1 THEN item ELSE m_Tbl[i - 1]
  <2>1. m_Tbl \in Seq(Item)
    BY <1>0 DEF TypeOK
  <2>2. QED
    BY <2>1, InsertedFacts
<1>2. /\ \A i \in 1 .. Idx : Less(m_Tbl[i].id, item.id)
      /\ \A i \in (Idx + 1) .. m_Elements : Less(item.id, m_Tbl[i].id)
      /\ \A i, j \in 1 .. m_Elements : i < j => Less(m_Tbl[i].id, m_Tbl[j].id)
  BY <1>0, TableFacts DEF IInv, ArrayOrdered, Ordered, Finds
<1>3. DOMAIN new = 1 .. (m_Elements + 1)
  BY <1>0, <1>1
<1> HIDE DEF new
<1>4. ASSUME NEW i \in 1 .. (m_Elements + 1), NEW j \in 1 .. (m_Elements + 1), i < j
      PROVE  Less(new[i].id, new[j].id)
  <2>1. CASE j <= Idx
    BY <1>0, <1>1, <1>2, <1>4, <2>1
  <2>2. CASE j = Idx + 1
    BY <1>0, <1>1, <1>2, <1>4, <2>2
  <2>3. CASE j > Idx + 1 /\ i <= Idx
    BY <1>0, <1>1, <1>2, <1>4, <2>3
  <2>4. CASE j > Idx + 1 /\ i = Idx + 1
    BY <1>0, <1>1, <1>2, <1>4, <2>4
  <2>5. CASE j > Idx + 1 /\ i > Idx + 1
    BY <1>0, <1>1, <1>2, <1>4, <2>5
  <2>6. QED
    BY <1>0, <2>1, <2>2, <2>3, <2>4, <2>5
<1>5. QED
  BY <1>3, <1>4 DEF Ordered, new

\* An item taken out leaves the others in order.
LEMMA RemovedOrdered ==
  ASSUME IInv, NEW Idx \in 0 .. (m_Elements - 1)
  PROVE  Ordered(Removed(Idx))
<1> DEFINE new == Removed(Idx)
<1>0. TypeOK /\ Idx \in Int /\ m_Elements \in Nat
  BY TableFacts DEF IInv
<1>1. /\ Len(new) = m_Elements - 1 /\ new \in Seq(Item)
      /\ \A i \in 1 .. (m_Elements - 1) :
              new[i] = IF i <= Idx THEN m_Tbl[i] ELSE m_Tbl[i + 1]
  <2>1. m_Tbl \in Seq(Item)
    BY <1>0 DEF TypeOK
  <2>2. QED
    BY <2>1, RemovedFacts
<1>2. \A i, j \in 1 .. m_Elements : i < j => Less(m_Tbl[i].id, m_Tbl[j].id)
  BY <1>0, TableFacts DEF IInv, ArrayOrdered, Ordered
<1>3. DOMAIN new = 1 .. (m_Elements - 1)
  BY <1>0, <1>1
<1> HIDE DEF new
<1>4. ASSUME NEW i \in 1 .. (m_Elements - 1), NEW j \in 1 .. (m_Elements - 1), i < j
      PROVE  Less(new[i].id, new[j].id)
  <2>1. CASE j <= Idx
    BY <1>0, <1>1, <1>2, <1>4, <2>1
  <2>2. CASE i <= Idx /\ j > Idx
    BY <1>0, <1>1, <1>2, <1>4, <2>2
  <2>3. CASE i > Idx
    BY <1>0, <1>1, <1>2, <1>4, <2>3
  <2>4. QED
    BY <1>0, <2>1, <2>2, <2>3
<1>5. QED
  BY <1>3, <1>4 DEF Ordered, new

\* Items replaced by items of the same id leave the array ordered.
LEMMA SameIdsOrdered ==
  ASSUME IInv, NEW new \in Seq(Item), Len(new) = m_Elements,
         \A i \in 1 .. m_Elements : new[i].id = m_Tbl[i].id
  PROVE  Ordered(new)
<1>1. TypeOK
  BY DEF IInv
<1>2. DOMAIN new = 1 .. m_Elements /\ DOMAIN m_Tbl = 1 .. m_Elements
  BY <1>1, TableFacts
<1>3. QED
  BY <1>2 DEF IInv, ArrayOrdered, Ordered

-----------------------------------------------------------------------------
LEMMA InitInv == Init => IInv
<1> SUFFICES ASSUME Init PROVE IInv
  OBVIOUS
<1>1. m_Tbl \in Seq(Item) /\ m_Elements = 0 /\ DOMAIN m_Tbl = {}
  BY DEF Init, m_Elements
<1>2. TypeOK
  BY <1>1 DEF Init, TypeOK, NotCleaning
<1>3. QED
  BY <1>1, <1>2 DEF IInv, ArrayOrdered, Ordered

\* A step that changes the array only in what is said here keeps the invariant.
LEMMA ArrayInv ==
  ASSUME IInv, m_Tbl' \in Seq(Item), Ordered(m_Tbl)', Len(m_Tbl') <= m_Size,
         UNCHANGED m_Size,
         DOMAIN cleaning' = {"on", "rev", "Idx", "before"},
         cleaning'.on \in BOOLEAN, cleaning'.Idx \in Nat
  PROVE  IInv'
BY DEF IInv, TypeOK, ArrayOrdered, m_Elements

\* The same, for the operations that take out the item at Idx.
LEMMA RemovedInv ==
  ASSUME IInv, NEW Idx \in 0 .. (m_Elements - 1), m_Tbl' = Removed(Idx), UNCHANGED m_Size,
         DOMAIN cleaning' = {"on", "rev", "Idx", "before"},
         cleaning'.on \in BOOLEAN, cleaning'.Idx \in Nat
  PROVE  IInv'
<1>1. m_Tbl \in Seq(Item) /\ m_Elements \in Nat /\ m_Size \in Nat /\ m_Elements <= m_Size
  BY TableFacts DEF IInv, TypeOK
<1>2. Removed(Idx) \in Seq(Item) /\ Len(Removed(Idx)) = m_Elements - 1
  BY <1>1, RemovedFacts
<1>3. Ordered(Removed(Idx))
  BY RemovedOrdered
<1>4. Ordered(m_Tbl)'
  BY <1>3 DEF Ordered
<1>5. QED
  BY <1>1, <1>2, <1>4, ArrayInv

\* The same, for the operations that change items but not their ids.
LEMMA SameIdsInv ==
  ASSUME IInv, m_Tbl' \in Seq(Item), Len(m_Tbl') = m_Elements,
         \A i \in 1 .. m_Elements : m_Tbl'[i].id = m_Tbl[i].id,
         UNCHANGED <<m_Size, cleaning>>
  PROVE  IInv'
<1>1. Ordered(m_Tbl)'
  BY SameIdsOrdered DEF Ordered
<1>2. QED
  BY <1>1, ArrayInv DEF IInv, TypeOK

LEMMA InsertNewInv ==
  ASSUME IInv, NEW item \in Item, InsertNew(item)
  PROVE  IInv'
<1>1. PICK Idx \in 0 .. m_Elements : Finds(m_Tbl, item.id, FALSE, Idx) /\ m_Tbl' = Inserted(Idx, item)
  BY DEF InsertNew
<1>2. m_Tbl \in Seq(Item) /\ m_Elements \in Nat /\ m_Size \in Nat /\ m_Elements <= m_Size
  BY TableFacts DEF IInv, TypeOK
<1>3. Inserted(Idx, item) \in Seq(Item) /\ Len(Inserted(Idx, item)) = m_Elements + 1
  BY <1>2, InsertedFacts
<1>4. Ordered(Inserted(Idx, item))
  BY <1>1, InsertedOrdered
<1>5. m_Size' \in Nat /\ m_Elements + 1 <= m_Size'
  <2>1. m_Size' = IncreaseSize
    BY DEF InsertNew
  <2>2. QED
    BY <1>2, <2>1, StepAssumption DEF IncreaseSize
<1>6. TypeOK'
  <2>1. m_Elements' = m_Elements + 1
    BY <1>1, <1>3 DEF m_Elements
  <2>2. QED
    BY <1>1, <1>3, <1>5, <2>1 DEF InsertNew, IInv, TypeOK
<1>7. QED
  BY <1>1, <1>4, <1>6 DEF IInv, ArrayOrdered, Ordered

\* Overwriting an item by one with its id changes no id and keeps the type.
LEMMA OverwriteFacts ==
  ASSUME TypeOK, NEW Idx \in Int, 0 <= Idx, NEW item \in Item,
         Idx < m_Elements => item.id = m_Tbl[Idx + 1].id
  PROVE  LET new == [m_Tbl EXCEPT ![Idx + 1] = item]
         IN  /\ new \in Seq(Item) /\ Len(new) = m_Elements
             /\ \A i \in 1 .. m_Elements : new[i].id = m_Tbl[i].id
<1> DEFINE new == [m_Tbl EXCEPT ![Idx + 1] = item]
<1>1. /\ m_Tbl \in Seq(Item) /\ m_Elements \in Nat /\ Len(m_Tbl) = m_Elements
      /\ DOMAIN m_Tbl = 1 .. m_Elements
      /\ \A i \in 1 .. m_Elements : m_Tbl[i] \in Item
  BY TableFacts DEF TypeOK
<1>2. DOMAIN new = 1 .. m_Elements
      /\ \A i \in 1 .. m_Elements : new[i] = IF i = Idx + 1 THEN item ELSE m_Tbl[i]
  BY <1>1
<1>3. new \in [1 .. m_Elements -> Item]
  <2>1. \A i \in 1 .. m_Elements : new[i] \in Item
    BY <1>1, <1>2
  <2>2. new = [i \in 1 .. m_Elements |-> new[i]]
    BY <1>1
  <2> HIDE DEF new
  <2>3. QED
    BY <2>1, <2>2
<1>4. \A i \in 1 .. m_Elements : new[i].id = m_Tbl[i].id
  BY <1>1, <1>2
<1> HIDE DEF new
<1>5. new \in Seq(Item) /\ Len(new) = m_Elements
  BY <1>1, <1>2, <1>3
<1>6. QED
  BY <1>4, <1>5 DEF new

\* Setting an item's time is overwriting it.
LEMMA TimedFacts ==
  ASSUME TypeOK, NEW Idx \in Int, 0 <= Idx, Idx < m_Elements, NEW now \in Times
  PROVE  LET new == [m_Tbl EXCEPT ![Idx + 1].LastTraffic = now]
         IN  /\ new \in Seq(Item) /\ Len(new) = m_Elements
             /\ \A i \in 1 .. m_Elements : new[i].id = m_Tbl[i].id
<1>1. Idx + 1 \in 1 .. m_Elements /\ m_Tbl[Idx + 1] \in Item
  BY TableFacts
<1>2. PICK item : item = [m_Tbl[Idx + 1] EXCEPT !.LastTraffic = now]
  OBVIOUS
<1>3. item \in Item /\ item.id = m_Tbl[Idx + 1].id
  BY <1>1, <1>2 DEF Item
<1>4. [m_Tbl EXCEPT ![Idx + 1].LastTraffic = now] = [m_Tbl EXCEPT ![Idx + 1] = item]
  BY <1>2
<1>5. QED
  BY <1>3, <1>4, OverwriteFacts

LEMMA InsertAgainInv ==
  ASSUME IInv, NEW item \in Item, InsertAgain(item)
  PROVE  IInv'
<1>1. PICK Idx \in 0 .. m_Elements :
        /\ Finds(m_Tbl, item.id, TRUE, Idx)
        /\ m_Tbl' = [m_Tbl EXCEPT ![Idx + 1].LastTraffic = item.LastTraffic]
  BY DEF InsertAgain
<1>2. Idx \in Int /\ 0 <= Idx /\ Idx < m_Elements /\ item.LastTraffic \in Times
  BY <1>1, TableFacts DEF IInv, Finds, Item, m_Elements
<1>3. m_Tbl' \in Seq(Item) /\ Len(m_Tbl') = m_Elements
      /\ \A i \in 1 .. m_Elements : m_Tbl'[i].id = m_Tbl[i].id
  BY <1>1, <1>2, TimedFacts DEF IInv
<1>4. QED
  BY <1>3, SameIdsInv DEF InsertAgain

LEMMA UpdateInv ==
  ASSUME IInv, NEW Idx \in Positions, NEW now \in Times, UpdateLastTrafficTime(Idx, now)
  PROVE  IInv'
<1>1. Idx \in Int /\ 0 <= Idx
  BY DEF Positions
<1>2. CASE Idx < m_Elements
  <2>1. m_Tbl' = [m_Tbl EXCEPT ![Idx + 1].LastTraffic = now]
    BY <1>2 DEF UpdateLastTrafficTime
  <2>2. m_Tbl' \in Seq(Item) /\ Len(m_Tbl') = m_Elements
        /\ \A i \in 1 .. m_Elements : m_Tbl'[i].id = m_Tbl[i].id
    BY <1>1, <1>2, <2>1, TimedFacts DEF IInv
  <2>3. QED
    BY <2>2, SameIdsInv DEF UpdateLastTrafficTime
<1>3. CASE ~(Idx < m_Elements)
  BY <1>3 DEF UpdateLastTrafficTime, IInv, TypeOK, ArrayOrdered, Ordered, m_Elements
<1>4. QED
  BY <1>2, <1>3

LEMMA ModifyInv ==
  ASSUME IInv, NEW Idx \in Positions, NEW item \in Item, Modify(Idx, item)
  PROVE  IInv'
<1>1. Idx \in Int /\ 0 <= Idx
  BY DEF Positions
<1>2. CASE Idx < m_Elements /\ m_Tbl[Idx + 1].id = item.id
  <2>1. m_Tbl' = [m_Tbl EXCEPT ![Idx + 1] = item]
    BY <1>2 DEF Modify, Seqs!ReplaceAt
  <2>2. m_Tbl' \in Seq(Item) /\ Len(m_Tbl') = m_Elements
        /\ \A i \in 1 .. m_Elements : m_Tbl'[i].id = m_Tbl[i].id
    BY <1>1, <1>2, <2>1, OverwriteFacts DEF IInv
  <2>3. QED
    BY <2>2, SameIdsInv DEF Modify
<1>3. CASE ~(Idx < m_Elements /\ m_Tbl[Idx + 1].id = item.id)
  BY <1>3 DEF Modify, IInv, TypeOK, ArrayOrdered, Ordered, m_Elements
<1>4. QED
  BY <1>2, <1>3

LEMMA InvStep == IInv /\ [Next]_vars => IInv'
<1> SUFFICES ASSUME IInv, [Next]_vars PROVE IInv'
  OBVIOUS
<1>0. /\ m_Tbl \in Seq(Item) /\ m_Elements \in Nat /\ m_Size \in Nat /\ m_Elements <= m_Size
      /\ Ordered(m_Tbl) /\ Len(m_Tbl) = m_Elements
      /\ DOMAIN cleaning = {"on", "rev", "Idx", "before"}
      /\ cleaning.on \in BOOLEAN /\ cleaning.Idx \in Nat
  BY TableFacts DEF IInv, TypeOK, ArrayOrdered
<1>1. ASSUME NEW item \in Item, InsertNew(item) \/ InsertAgain(item) PROVE IInv'
  BY <1>1, InsertNewInv, InsertAgainInv
<1>2. ASSUME NEW k \in Ids, DeleteTraffic(k) PROVE IInv'
  <2>1. PICK Idx \in 0 .. m_Elements :
          \/ Finds(m_Tbl, k, TRUE, Idx) /\ m_Tbl' = Removed(Idx)
          \/ Finds(m_Tbl, k, FALSE, Idx) /\ UNCHANGED m_Tbl
    BY <1>2 DEF DeleteTraffic
  <2>2. UNCHANGED <<m_Size, cleaning>>
    BY <1>2 DEF DeleteTraffic
  <2>3. CASE Finds(m_Tbl, k, TRUE, Idx) /\ m_Tbl' = Removed(Idx)
    <3>1. Idx \in 0 .. (m_Elements - 1)
      BY <1>0, <2>3 DEF Finds
    <3>2. QED
      BY <1>0, <2>2, <2>3, <3>1, RemovedInv
  <2>4. CASE UNCHANGED m_Tbl
    BY <2>2, <2>4 DEF IInv, TypeOK, ArrayOrdered, Ordered, m_Elements
  <2>5. QED
    BY <2>1, <2>3, <2>4
<1>3. ASSUME NEW k \in Ids, Find(k) PROVE IInv'
  BY <1>3 DEF Find, IInv, TypeOK, ArrayOrdered, Ordered, m_Elements
<1>4. ASSUME NEW Idx \in Positions, NEW now \in Times, UpdateLastTrafficTime(Idx, now) PROVE IInv'
  BY <1>4, UpdateInv
<1>5. ASSUME NEW Idx \in Positions, Get(Idx) PROVE IInv'
  BY <1>5 DEF Get, IInv, TypeOK, ArrayOrdered, Ordered, m_Elements
<1>6. ASSUME NEW Idx \in Positions, Remove(Idx) PROVE IInv'
  <2>1. CASE Idx < m_Elements
    <3>1. Idx \in Int /\ 0 <= Idx
      BY DEF Positions
    <3>2. Idx \in 0 .. (m_Elements - 1)
      BY <1>0, <2>1, <3>1
    <3>3. QED
      BY <1>0, <1>6, <2>1, <3>2, RemovedInv DEF Remove
  <2>2. CASE ~(Idx < m_Elements)
    BY <1>6, <2>2 DEF Remove, IInv, TypeOK, ArrayOrdered, Ordered, m_Elements
  <2>3. QED
    BY <2>1, <2>2
<1>7. ASSUME NEW Idx \in Positions, NEW item \in Item, Modify(Idx, item) PROVE IInv'
  BY <1>7, ModifyInv
<1>8. CASE RemoveAll
  <2>1. m_Tbl' \in Seq(Item) /\ Len(m_Tbl') = 0 /\ DOMAIN m_Tbl' = {}
    BY <1>8 DEF RemoveAll
  <2>2. Ordered(m_Tbl)'
    BY <2>1 DEF Ordered
  <2>3. QED
    BY <1>0, <1>8, <2>1, <2>2, ArrayInv DEF RemoveAll
<1>9. ASSUME NEW rev \in Reverses, CleanBegin(rev) PROVE IInv'
  <2>1. cleaning' = [on |-> TRUE, rev |-> rev, Idx |-> 0, before |-> AsTable]
        /\ UNCHANGED <<m_Tbl, m_Size>>
    BY <1>9 DEF CleanBegin
  <2>2. DOMAIN cleaning' = {"on", "rev", "Idx", "before"}
        /\ cleaning'.on \in BOOLEAN /\ cleaning'.Idx \in Nat
    BY <2>1
  <2>3. QED
    BY <2>1, <2>2 DEF IInv, TypeOK, ArrayOrdered, Ordered, m_Elements
<1>10. CASE CleanRemove
  <2>1. cleaning.Idx \in 0 .. (m_Elements - 1)
    BY <1>0, <1>10 DEF CleanRemove, CleanTurn
  <2>2. m_Tbl' = Removed(cleaning.Idx) /\ UNCHANGED m_Size
    BY <1>10 DEF CleanRemove
  <2>3. DOMAIN cleaning' = {"on", "rev", "Idx", "before"}
        /\ cleaning'.on \in BOOLEAN /\ cleaning'.Idx \in Nat
    BY <1>0, <1>10 DEF CleanRemove
  <2>4. QED
    BY <2>1, <2>2, <2>3, RemovedInv
<1>11. CASE CleanPass
  <2>1. DOMAIN cleaning' = {"on", "rev", "Idx", "before"}
        /\ cleaning'.on \in BOOLEAN /\ cleaning'.Idx \in Nat
    BY <1>0, <1>11 DEF CleanPass
  <2>2. QED
    BY <1>11, <2>1 DEF CleanPass, IInv, TypeOK, ArrayOrdered, Ordered, m_Elements
<1>12. CASE CleanEnd
  <2>1. cleaning' = NotCleaning /\ UNCHANGED <<m_Tbl, m_Size>>
    BY <1>12 DEF CleanEnd
  <2>2. DOMAIN cleaning' = {"on", "rev", "Idx", "before"}
        /\ cleaning'.on \in BOOLEAN /\ cleaning'.Idx \in Nat
    BY <2>1 DEF NotCleaning
  <2>3. QED
    BY <2>1, <2>2 DEF IInv, TypeOK, ArrayOrdered, Ordered, m_Elements
<1>13. ASSUME NEW Idx \in Positions, GetId(Idx) PROVE IInv'
  BY <1>13 DEF GetId, IInv, TypeOK, ArrayOrdered, Ordered, m_Elements
<1>14. CASE Elements
  BY <1>14 DEF Elements, IInv, TypeOK, ArrayOrdered, Ordered, m_Elements
<1>15. ASSUME NEW other \in Others, Assign(other) PROVE IInv'
  <2>1. /\ other.items \in Seq(Item) /\ Ordered(other.items)
        /\ other.size \in Nat /\ Len(other.items) <= other.size
    BY OtherAssumption
  <2>2. m_Tbl' = other.items /\ m_Size' = other.size /\ UNCHANGED cleaning
    BY <1>15 DEF Assign
  <2>3. Ordered(m_Tbl)'
    BY <2>1, <2>2 DEF Ordered
  <2>4. QED
    BY <1>0, <2>1, <2>2, <2>3 DEF IInv, TypeOK, ArrayOrdered, m_Elements
<1>16. CASE UNCHANGED vars
  BY <1>16 DEF vars, IInv, TypeOK, ArrayOrdered, Ordered, m_Elements
<1>17. QED
  BY <1>1, <1>2, <1>3, <1>4, <1>5, <1>6, <1>7, <1>8, <1>9, <1>10, <1>11, <1>12, <1>13, <1>14,
     <1>15, <1>16 DEF Next

\* The variables keep their types and the items fit the room allocated for them.
THEOREM TableTyped == Spec => []TypeOK
<1>1. IInv => TypeOK
  BY DEF IInv
<1>2. QED
  BY <1>1, InitInv, InvStep, PTL DEF Spec

\* UtilTemplates.h:491: the elements are always ordered by Id, and no two of
\* them have the same, so that the search of every later operation works.
THEOREM TableOrdered == Spec => []ArrayOrdered
<1>1. IInv => ArrayOrdered
  BY DEF IInv
<1>2. QED
  BY <1>1, InitInv, InvStep, PTL DEF Spec

-----------------------------------------------------------------------------
(* What the operations on the array do to the map.                         *)

LEMMA AsTableFacts ==
  ASSUME IInv
  PROVE  /\ m_Tbl \in Seq(Item) /\ Ordered(m_Tbl)
         /\ m_Elements \in Nat /\ Len(m_Tbl) = m_Elements
         /\ DOMAIN AsTable = {m_Tbl[i].id : i \in 1 .. m_Elements}
         /\ \A i \in 1 .. m_Elements : AsTable[m_Tbl[i].id] = Entry(m_Tbl[i])
         /\ AsTable \in [DOMAIN AsTable -> EntryType]
<1>1. /\ m_Tbl \in Seq(Item) /\ Ordered(m_Tbl) /\ m_Elements \in Nat /\ Len(m_Tbl) = m_Elements
      /\ \A i \in 1 .. m_Elements : m_Tbl[i] \in Item
  BY TableFacts DEF IInv, TypeOK, ArrayOrdered
<1>2. /\ DOMAIN AsTable = {m_Tbl[i].id : i \in 1 .. m_Elements}
      /\ \A i \in 1 .. m_Elements : AsTable[m_Tbl[i].id] = Entry(m_Tbl[i])
  BY <1>1, MapOfFacts DEF AsTable
<1>3. AsTable \in [DOMAIN AsTable -> EntryType]
  <2>1. \A k \in DOMAIN AsTable : AsTable[k] \in EntryType
    BY <1>1, <1>2, EntryTyped
  <2>2. AsTable = [k \in DOMAIN AsTable |-> AsTable[k]]
    BY DEF AsTable, MapOf
  <2>3. QED
    BY <2>1, <2>2
<1>4. QED
  BY <1>1, <1>2, <1>3

\* A new item is a new entry.
LEMMA InsertedMap ==
  ASSUME IInv, NEW item \in Item, NEW Idx \in 0 .. m_Elements, Finds(m_Tbl, item.id, FALSE, Idx)
  PROVE  /\ item.id \notin DOMAIN AsTable
         /\ MapOf(Inserted(Idx, item)) = Put(AsTable, item.id, Entry(item))
<1> DEFINE new == Inserted(Idx, item)
           D   == DOMAIN AsTable \cup {item.id}
           f   == Put(AsTable, item.id, Entry(item))
<1>1. /\ m_Tbl \in Seq(Item) /\ Ordered(m_Tbl) /\ m_Elements \in Nat /\ Len(m_Tbl) = m_Elements
      /\ DOMAIN AsTable = {m_Tbl[i].id : i \in 1 .. m_Elements}
      /\ \A i \in 1 .. m_Elements : AsTable[m_Tbl[i].id] = Entry(m_Tbl[i])
  BY AsTableFacts
<1>2. item.id \notin DOMAIN AsTable
  <2>1. item.id \in TrafficId
    BY IdAssumption DEF Item
  <2>2. QED
    BY <1>1, <2>1, FindsPosition DEF AsTable
<1>3. /\ new \in Seq(Item) /\ Len(new) = m_Elements + 1
      /\ \A i \in 1 .. (m_Elements + 1) :
           new[i] = IF i <= Idx THEN m_Tbl[i] ELSE IF i = Idx + 1 THEN item ELSE m_Tbl[i - 1]
  <2>1. m_Tbl \in Seq(Item)
    BY <1>1
  <2> HIDE DEF D, f
  <2>2. QED
    BY ONLY <2>1, InsertedFacts, Idx \in 0 .. m_Elements, item \in Item DEF new
<1>4. Ordered(new)
  BY InsertedOrdered
<1>5. /\ f \in [D -> EntryType] /\ f[item.id] = Entry(item)
      /\ \A k \in DOMAIN AsTable : f[k] = AsTable[k]
  BY <1>1, <1>2, EntryTyped DEF Put
<1>dom. DOMAIN AsTable \subseteq D /\ item.id \in D /\ \A k \in D : k = item.id \/ k \in DOMAIN AsTable
  OBVIOUS
<1> HIDE DEF f, new, D
<1>6. ASSUME NEW i \in 1 .. Len(new) PROVE new[i].id \in D /\ f[new[i].id] = Entry(new[i])
  <2>1. i \in 1 .. (m_Elements + 1)
    BY <1>3
  <2>2. CASE i <= Idx
    BY <1>1, <1>3, <1>5, <2>1, <2>2, <1>dom
  <2>3. CASE i = Idx + 1
    BY <1>1, <1>3, <1>5, <2>1, <2>3, <1>dom
  <2>4. CASE i > Idx + 1
    <3>1. i - 1 \in 1 .. m_Elements /\ new[i] = m_Tbl[i - 1]
      BY <1>1, <1>3, <2>1, <2>4
    <3>2. QED
      BY <1>1, <1>5, <3>1, <1>dom
  <2>5. QED
    BY <1>1, <2>1, <2>2, <2>3, <2>4
<1>7. ASSUME NEW k \in D PROVE \E i \in 1 .. Len(new) : k = new[i].id
  <2>1. CASE k = item.id
    <3>1. Idx + 1 \in 1 .. (m_Elements + 1) /\ ~(Idx + 1 <= Idx)
      BY <1>1
    <3>2. QED
      BY <1>3, <2>1, <3>1
  <2>2. CASE k \in DOMAIN AsTable
    <3>1. PICK i \in 1 .. m_Elements : k = m_Tbl[i].id
      BY <1>1, <2>2
    <3>2. CASE i <= Idx
      BY <1>1, <1>3, <3>1, <3>2
    <3>3. CASE i > Idx
      <4>1. i + 1 \in 1 .. (m_Elements + 1) /\ i + 1 - 1 = i /\ i + 1 > Idx + 1
        BY <1>1, <3>3
      <4>2. new[i + 1] = m_Tbl[i]
        BY <1>1, <1>3, <4>1
      <4>3. QED
        BY <1>3, <3>1, <4>1, <4>2
    <3>4. QED
      BY <1>1, <3>2, <3>3
  <2>3. QED
    BY <1>dom, <2>1, <2>2
<1>8. MapOf(new) = f
  BY <1>3, <1>4, <1>5, <1>6, <1>7, MapOfIs
<1>9. QED
  BY <1>2, <1>8 DEF f, new

\* The entry of the item taken out goes.
LEMMA RemovedMap ==
  ASSUME IInv, NEW Idx \in 0 .. (m_Elements - 1)
  PROVE  MapOf(Removed(Idx)) = Without(AsTable, {m_Tbl[Idx + 1].id})
<1> DEFINE new == Removed(Idx)
           gone == m_Tbl[Idx + 1].id
           D   == DOMAIN AsTable \ {gone}
           f   == Without(AsTable, {gone})
<1>1. /\ m_Tbl \in Seq(Item) /\ Ordered(m_Tbl) /\ m_Elements \in Nat /\ Len(m_Tbl) = m_Elements
      /\ DOMAIN AsTable = {m_Tbl[i].id : i \in 1 .. m_Elements}
      /\ \A i \in 1 .. m_Elements : AsTable[m_Tbl[i].id] = Entry(m_Tbl[i])
  BY AsTableFacts
<1>2. /\ new \in Seq(Item) /\ Len(new) = m_Elements - 1
      /\ \A i \in 1 .. (m_Elements - 1) : new[i] = IF i <= Idx THEN m_Tbl[i] ELSE m_Tbl[i + 1]
  BY <1>1, RemovedFacts
<1>3. Ordered(new)
  BY RemovedOrdered
<1>4. f \in [D -> EntryType] /\ \A k \in D : f[k] = AsTable[k]
  <2>1. AsTable \in [DOMAIN AsTable -> EntryType]
    BY AsTableFacts
  <2>2. f = [x \in D |-> AsTable[x]]
    BY DEF Without
  <2> HIDE DEF f
  <2>3. QED
    BY <2>1, <2>2
<1>dom. \A k : k \in D <=> k \in DOMAIN AsTable /\ k # gone
  OBVIOUS
<1>5. Idx + 1 \in 1 .. m_Elements
  BY <1>1
<1>6. \A i \in 1 .. m_Elements : m_Tbl[i].id = gone <=> i = Idx + 1
  BY <1>1, <1>5, OrderedIds
<1> HIDE DEF f, new, gone, D
<1>7. ASSUME NEW i \in 1 .. Len(new) PROVE new[i].id \in D /\ f[new[i].id] = Entry(new[i])
  <2>1. PICK j \in 1 .. m_Elements : new[i] = m_Tbl[j] /\ j # Idx + 1
    <3>1. i \in 1 .. (m_Elements - 1)
      BY <1>2
    <3>2. CASE i <= Idx
      BY <1>1, <1>2, <3>1, <3>2
    <3>3. CASE i > Idx
      <4>1. i + 1 \in 1 .. m_Elements /\ new[i] = m_Tbl[i + 1] /\ i + 1 # Idx + 1
        BY <1>1, <1>2, <3>1, <3>3
      <4>2. QED
        BY <4>1
    <3>4. QED
      BY <1>1, <3>1, <3>2, <3>3
  <2>2. QED
    BY <1>1, <1>4, <1>6, <2>1, <1>dom
<1>8. ASSUME NEW k \in D PROVE \E i \in 1 .. Len(new) : k = new[i].id
  <2>1. PICK j \in 1 .. m_Elements : k = m_Tbl[j].id /\ j # Idx + 1
    BY <1>1, <1>6, <1>dom
  <2>2. CASE j <= Idx
    <3>1. j \in 1 .. (m_Elements - 1)
      BY <1>1, <2>2
    <3>2. QED
      BY <1>2, <2>1, <2>2, <3>1
  <2>3. CASE j > Idx + 1
    <3>1. j - 1 \in 1 .. (m_Elements - 1) /\ j - 1 + 1 = j /\ j - 1 > Idx
      BY <1>1, <2>3
    <3>2. new[j - 1] = m_Tbl[j]
      BY <1>1, <1>2, <3>1
    <3>3. QED
      BY <1>2, <2>1, <3>1, <3>2
  <2>4. QED
    BY <1>1, <2>1, <2>2, <2>3
<1>9. MapOf(new) = f
  BY <1>2, <1>3, <1>4, <1>7, <1>8, MapOfIs
<1>10. QED
  BY <1>9 DEF f, new, gone

\* An item overwritten by one with its id is an entry replaced.
LEMMA OverwrittenMap ==
  ASSUME IInv, NEW Idx \in Nat, Idx < m_Elements, NEW item \in Item, item.id = m_Tbl[Idx + 1].id
  PROVE  MapOf([m_Tbl EXCEPT ![Idx + 1] = item]) = Put(AsTable, item.id, Entry(item))
<1> DEFINE new == [m_Tbl EXCEPT ![Idx + 1] = item]
           D   == DOMAIN AsTable \cup {item.id}
           f   == Put(AsTable, item.id, Entry(item))
<1>1. /\ m_Tbl \in Seq(Item) /\ Ordered(m_Tbl) /\ m_Elements \in Nat /\ Len(m_Tbl) = m_Elements
      /\ DOMAIN AsTable = {m_Tbl[i].id : i \in 1 .. m_Elements}
      /\ \A i \in 1 .. m_Elements : AsTable[m_Tbl[i].id] = Entry(m_Tbl[i])
  BY AsTableFacts
<1>2. /\ new \in Seq(Item) /\ Len(new) = m_Elements
      /\ \A i \in 1 .. m_Elements : new[i].id = m_Tbl[i].id
  BY <1>1, OverwriteFacts DEF IInv
<1>3. Ordered(new)
  BY <1>2, SameIdsOrdered
<1>4. Idx + 1 \in 1 .. m_Elements
  BY <1>1
<1>5. \A i \in 1 .. m_Elements : new[i] = IF i = Idx + 1 THEN item ELSE m_Tbl[i]
  BY <1>1, <1>4
<1>6. /\ f \in [D -> EntryType]
      /\ \A k \in D : f[k] = IF k = item.id THEN Entry(item) ELSE AsTable[k]
  BY <1>1, EntryTyped DEF Put
<1>dom. \A k : k \in D <=> k \in DOMAIN AsTable \/ k = item.id
  OBVIOUS
<1>7. \A i \in 1 .. m_Elements : m_Tbl[i].id = item.id <=> i = Idx + 1
  BY <1>1, <1>4, OrderedIds
<1> HIDE DEF f, new, D
<1>8. ASSUME NEW i \in 1 .. Len(new) PROVE new[i].id \in D /\ f[new[i].id] = Entry(new[i])
  <2>1. i \in 1 .. m_Elements
    BY <1>2
  <2>2. CASE i = Idx + 1
    BY <1>5, <1>6, <2>1, <2>2, <1>dom
  <2>3. CASE i # Idx + 1
    BY <1>1, <1>5, <1>6, <1>7, <2>1, <2>3, <1>dom
  <2>4. QED
    BY <2>2, <2>3
<1>9. ASSUME NEW k \in D PROVE \E i \in 1 .. Len(new) : k = new[i].id
  <2>1. k \in DOMAIN AsTable
    BY <1>1, <1>4, <1>dom
  <2>2. PICK i \in 1 .. m_Elements : k = m_Tbl[i].id
    BY <1>1, <2>1
  <2>3. QED
    BY <1>2, <2>2
<1>10. MapOf(new) = f
  BY <1>2, <1>3, <1>6, <1>8, <1>9, MapOfIs
<1>11. QED
  BY <1>10 DEF f, new

\* Setting an item's time touches its entry.
LEMMA TimedMap ==
  ASSUME IInv, NEW Idx \in Nat, Idx < m_Elements, NEW now \in Times
  PROVE  LET k == m_Tbl[Idx + 1].id
         IN  /\ k \in DOMAIN AsTable
             /\ MapOf([m_Tbl EXCEPT ![Idx + 1].LastTraffic = now])
                  = Put(AsTable, k, [AsTable[k] EXCEPT !.LastTraffic = now])
<1> DEFINE k == m_Tbl[Idx + 1].id
<1>1. Idx + 1 \in 1 .. m_Elements /\ m_Tbl[Idx + 1] \in Item
  BY TableFacts DEF IInv
<1>2. k \in DOMAIN AsTable /\ AsTable[k] = Entry(m_Tbl[Idx + 1])
  BY <1>1, AsTableFacts
<1>3. PICK item : item = [m_Tbl[Idx + 1] EXCEPT !.LastTraffic = now]
  OBVIOUS
<1>4. item \in Item /\ item.id = k
  BY <1>1, <1>3 DEF Item
<1>5. Entry(item) = [AsTable[k] EXCEPT !.LastTraffic = now]
  BY <1>1, <1>2, <1>3 DEF Entry, Item
<1>6. [m_Tbl EXCEPT ![Idx + 1].LastTraffic = now] = [m_Tbl EXCEPT ![Idx + 1] = item]
  BY <1>3
<1>7. MapOf([m_Tbl EXCEPT ![Idx + 1] = item]) = Put(AsTable, item.id, Entry(item))
  BY <1>4, OverwrittenMap
<1>8. QED
  BY <1>2, <1>4, <1>5, <1>6, <1>7

-----------------------------------------------------------------------------
(* The loop of Clean.                                                      *)

\* How far it has got: what is gone was to go and stands before the item it
\* looks at next, what it has stepped over was to stay, and the item it looks at
\* next is one to remove whenever it matches.
CleanInv ==
  cleaning.on =>
    LET before == cleaning.before
        toGo   == Cleaned(before, cleaning.rev)
    IN  /\ cleaning.rev \in Reverses
        /\ IsFiniteSet(DOMAIN before)
        /\ DOMAIN before \subseteq TrafficId
        /\ before = [k \in DOMAIN before |-> before[k]]
        /\ \A i \in 1 .. m_Elements :
             m_Tbl[i].id \in DOMAIN before /\ before[m_Tbl[i].id] = Entry(m_Tbl[i])
        /\ \A k \in DOMAIN before \ DOMAIN AsTable :
             /\ k \in toGo
             /\ \A i \in 1 .. m_Elements : cleaning.Idx < i => Less(k, m_Tbl[i].id)
        /\ \A i \in 1 .. m_Elements : i <= cleaning.Idx => m_Tbl[i].id \notin toGo
        /\ CleanTurn /\ Matches => m_Tbl[cleaning.Idx + 1].id \in toGo

\* The first entry that matches is a run of its own.
LEMMA FirstRun ==
  ASSUME NEW tbl, NEW rev, IsFiniteSet(DOMAIN tbl), DOMAIN tbl \subseteq TrafficId,
         NEW b \in DOMAIN tbl, tbl[b].reverse = rev,
         \A x \in DOMAIN tbl : ~Less(x, b)
  PROVE  b \in Cleaned(tbl, rev)
<1>1. Run(tbl, rev, b) = {b}
  <2>1. \A x \in Run(tbl, rev, b) : x = b
    BY DEF Run, Matching
  <2>2. b \in Run(tbl, rev, b)
    <3>1. ~\E y \in DOMAIN tbl : Less(y, b)
      OBVIOUS
    <3>2. QED
      BY <3>1 DEF Run, Matching
  <2>3. QED
    BY <2>1, <2>2
<1>2. Cardinality({b}) = 1
  BY FS_Singleton
<1>3. Cardinality(Run(tbl, rev, b)) % 2 = 1
  BY <1>1, <1>2
<1>4. QED
  BY <1>3 DEF Cleaned, Matching

\* From an entry to the next: the run of a neighbour that matches goes on if
\* the entry matches, and starts anew if it does not.
LEMMA NextRun ==
  ASSUME NEW tbl, NEW rev, IsFiniteSet(DOMAIN tbl), DOMAIN tbl \subseteq TrafficId,
         NEW a \in DOMAIN tbl, NEW b \in DOMAIN tbl, Less(a, b),
         \A x \in DOMAIN tbl : ~(Less(a, x) /\ Less(x, b)),
         tbl[b].reverse = rev
  PROVE  b \in Cleaned(tbl, rev) <=> a \notin Cleaned(tbl, rev)
<1>1. a \in TrafficId /\ b \in TrafficId /\ \A x \in DOMAIN tbl : x \in TrafficId
  OBVIOUS
<1>2. \A x \in DOMAIN tbl : Less(x, b) <=> x = a \/ Less(x, a)
  BY <1>1, LessTotal, LessTransitive
<1>3. ~Less(b, b) /\ ~Less(b, a) /\ a # b
  BY <1>1, LessTransitive, LessStrict
<1>4. CASE tbl[a].reverse = rev
  <2>1. Run(tbl, rev, b) = Run(tbl, rev, a) \cup {b}
    <3>1. ASSUME NEW x \in Matching(tbl, rev)
          PROVE  x \in Run(tbl, rev, b) <=> x \in Run(tbl, rev, a) \/ x = b
      <4>1. x \in DOMAIN tbl /\ x \in TrafficId /\ tbl[x].reverse = rev
        BY <1>1 DEF Matching
      <4>2. x \in Run(tbl, rev, b)
              <=> /\ x = b \/ x = a \/ Less(x, a)
                  /\ \A y \in DOMAIN tbl : Less(x, y) /\ Less(y, b) => tbl[y].reverse = rev
        BY <1>2, <4>1 DEF Run
      <4>3. x \in Run(tbl, rev, a)
              <=> /\ x = a \/ Less(x, a)
                  /\ \A y \in DOMAIN tbl : Less(x, y) /\ Less(y, a) => tbl[y].reverse = rev
        BY <4>1 DEF Run
      <4>4. CASE x = b
        <5>1. \A y \in DOMAIN tbl : ~(Less(b, y) /\ Less(y, b))
          BY <1>1, <1>3, LessTransitive
        <5>2. QED
          BY <4>2, <4>4, <5>1
      <4>5. CASE x # b
        <5>1. \A y \in DOMAIN tbl :
                Less(x, y) /\ Less(y, b) => y = a \/ (Less(x, y) /\ Less(y, a))
          BY <1>2
        <5>2. \A y \in DOMAIN tbl : Less(x, y) /\ Less(y, a) => Less(y, b)
          BY <1>2
        <5>3. QED
          BY <1>4, <4>2, <4>3, <4>5, <5>1, <5>2
      <4>6. QED
        BY <4>4, <4>5
    <3>2. b \in Matching(tbl, rev)
      BY DEF Matching
    <3>3. Run(tbl, rev, b) \subseteq Matching(tbl, rev) /\ Run(tbl, rev, a) \subseteq Matching(tbl, rev)
      BY DEF Run
    <3>4. QED
      BY <3>1, <3>2, <3>3
  <2>2. b \notin Run(tbl, rev, a)
    BY <1>3 DEF Run
  <2>3. IsFiniteSet(Run(tbl, rev, a))
    <3>1. Run(tbl, rev, a) \in SUBSET (DOMAIN tbl)
      BY DEF Run, Matching
    <3>2. QED
      BY <3>1, FS_Subset
  <2>4. /\ Cardinality(Run(tbl, rev, a)) \in Nat
        /\ Cardinality(Run(tbl, rev, b)) = Cardinality(Run(tbl, rev, a)) + 1
    BY <2>1, <2>2, <2>3, FS_CardinalityType, FS_AddElement
  <2>5. \A n \in Nat : (n + 1) % 2 = 1 <=> n % 2 # 1
    OBVIOUS
  <2>6. Cardinality(Run(tbl, rev, b)) % 2 = 1 <=> Cardinality(Run(tbl, rev, a)) % 2 # 1
    BY <2>4, <2>5
  <2>7. a \in Matching(tbl, rev) /\ b \in Matching(tbl, rev)
    BY <1>4 DEF Matching
  <2>8. QED
    BY <2>6, <2>7 DEF Cleaned
<1>5. CASE tbl[a].reverse # rev
  <2>1. a \notin Cleaned(tbl, rev)
    BY <1>5 DEF Cleaned, Matching
  <2>2. Run(tbl, rev, b) = {b}
    <3>1. b \in Run(tbl, rev, b)
      <4>1. \A y \in DOMAIN tbl : ~(Less(b, y) /\ Less(y, b))
        BY <1>1, <1>3, LessTransitive
      <4>2. QED
        BY <4>1 DEF Run, Matching
    <3>2. ASSUME NEW x \in Run(tbl, rev, b), x # b PROVE FALSE
      <4>1. x \in DOMAIN tbl /\ tbl[x].reverse = rev /\ Less(x, b)
        BY <3>2 DEF Run, Matching
      <4>2. Less(x, a)
        BY <1>2, <1>5, <4>1
      <4>3. tbl[a].reverse = rev
        BY <4>2 DEF Run
      <4>4. QED
        BY <1>5, <4>3
    <3>3. QED
      BY <3>1, <3>2
  <2>3. Cardinality({b}) = 1
    BY FS_Singleton
  <2>4. Cardinality(Run(tbl, rev, b)) % 2 = 1
    BY <2>2, <2>3
  <2>5. QED
    BY <2>1, <2>4 DEF Cleaned, Matching
<1>6. QED
  BY <1>4, <1>5

\* Behind the item Clean looks at, neighbours in the array were neighbours in
\* the map it started from: of two, the second is to go just when it matches
\* and the first is to stay.
LEMMA Neighbours ==
  ASSUME IInv, CleanInv, cleaning.on, NEW i \in Nat, cleaning.Idx < i, i < m_Elements
  PROVE  m_Tbl[i + 1].id \in Cleaned(cleaning.before, cleaning.rev)
           <=> /\ m_Tbl[i + 1].reverse = cleaning.rev
               /\ m_Tbl[i].id \notin Cleaned(cleaning.before, cleaning.rev)
<1> DEFINE before == cleaning.before
           rev == cleaning.rev
           a == m_Tbl[i].id
           b == m_Tbl[i + 1].id
<1>1. /\ m_Tbl \in Seq(Item) /\ Ordered(m_Tbl) /\ m_Elements \in Nat /\ Len(m_Tbl) = m_Elements
      /\ DOMAIN AsTable = {m_Tbl[j].id : j \in 1 .. m_Elements}
      /\ cleaning.Idx \in Nat
  BY AsTableFacts DEF IInv, TypeOK
<1>2. i \in 1 .. m_Elements /\ i + 1 \in 1 .. m_Elements
  BY <1>1
<1>3. /\ IsFiniteSet(DOMAIN before) /\ DOMAIN before \subseteq TrafficId
      /\ a \in DOMAIN before /\ b \in DOMAIN before
      /\ before[b] = Entry(m_Tbl[i + 1])
      /\ \A k \in DOMAIN before \ DOMAIN AsTable : Less(k, a)
  BY <1>2 DEF CleanInv
<1>4. Less(a, b)
  BY <1>1, <1>2, OrderedIds
<1>5. ASSUME NEW x \in DOMAIN before, Less(a, x), Less(x, b) PROVE FALSE
  <2>1. CASE x \in DOMAIN AsTable
    <3>1. PICK j \in 1 .. m_Elements : x = m_Tbl[j].id
      BY <1>1, <2>1
    <3>2. i < j /\ j < i + 1
      BY <1>1, <1>2, <1>5, <3>1, OrderedIds
    <3>3. QED
      BY <3>2
  <2>2. CASE x \notin DOMAIN AsTable
    <3>1. Less(x, a) /\ x \in TrafficId /\ a \in TrafficId
      BY <1>3, <2>2
    <3>2. QED
      BY <1>5, <3>1, LessTransitive, LessStrict
  <2>3. QED
    BY <2>1, <2>2
<1>6. before[b].reverse = m_Tbl[i + 1].reverse
  BY <1>3 DEF Entry
<1> HIDE DEF before, rev, a, b
<1>7. CASE before[b].reverse = rev
  <2>1. b \in Cleaned(before, rev) <=> a \notin Cleaned(before, rev)
    BY <1>3, <1>4, <1>5, <1>7, NextRun
  <2>2. QED
    BY <1>6, <1>7, <2>1 DEF before, rev, a, b
<1>8. CASE before[b].reverse # rev
  <2>1. b \notin Cleaned(before, rev)
    BY <1>8 DEF Cleaned, Matching
  <2>2. QED
    BY <1>6, <1>8, <2>1 DEF before, rev, a, b
<1>9. QED
  BY <1>7, <1>8

LEMMA PrimedTable == AsTable' = MapOf(m_Tbl')
BY DEF AsTable, MapOf

\* The loop begins at the first item, with nothing gone.
LEMMA CleanBeginInv ==
  ASSUME IInv, NEW rev \in Reverses, CleanBegin(rev)
  PROVE  CleanInv'
<1>1. /\ m_Tbl \in Seq(Item) /\ Ordered(m_Tbl) /\ m_Elements \in Nat /\ Len(m_Tbl) = m_Elements
      /\ DOMAIN AsTable = {m_Tbl[i].id : i \in 1 .. m_Elements}
      /\ \A i \in 1 .. m_Elements : AsTable[m_Tbl[i].id] = Entry(m_Tbl[i])
      /\ AsTable = [k \in DOMAIN AsTable |-> AsTable[k]]
  <2>1. AsTable = [k \in DOMAIN AsTable |-> AsTable[k]]
    BY DEF AsTable, MapOf
  <2>2. QED
    BY <2>1, AsTableFacts
<1>2. /\ cleaning'.on /\ cleaning'.rev = rev /\ cleaning'.Idx = 0 /\ cleaning'.before = AsTable
      /\ m_Tbl' = m_Tbl /\ m_Elements' = m_Elements
  BY DEF CleanBegin, m_Elements
<1>3. AsTable' = AsTable
  BY <1>2, PrimedTable DEF AsTable
<1>4. IsFiniteSet(DOMAIN AsTable) /\ DOMAIN AsTable \subseteq TrafficId
  <2>1. IsFiniteSet(DOMAIN AsTable)
    BY <1>1, CardinalityOf DEF AsTable
  <2>2. \A i \in 1 .. m_Elements : m_Tbl[i].id \in TrafficId
    BY <1>1, ItemFacts
  <2>3. QED
    BY <1>1, <2>1, <2>2
<1>5. ASSUME 0 < m_Elements, m_Tbl[1].reverse = rev
      PROVE  m_Tbl[1].id \in Cleaned(AsTable, rev)
  <2>1. 1 \in 1 .. m_Elements
    BY <1>1, <1>5
  <2>2. m_Tbl[1].id \in DOMAIN AsTable /\ AsTable[m_Tbl[1].id].reverse = rev
    <3>1. m_Tbl[1].id \in DOMAIN AsTable /\ AsTable[m_Tbl[1].id] = Entry(m_Tbl[1])
      BY <1>1, <2>1
    <3>2. QED
      BY <1>5, <3>1 DEF Entry
  <2>3. ASSUME NEW x \in DOMAIN AsTable PROVE ~Less(x, m_Tbl[1].id)
    <3>1. PICK j \in 1 .. m_Elements : x = m_Tbl[j].id
      BY <1>1
    <3>2. ~(j < 1)
      BY <1>1
    <3>3. QED
      BY <1>1, <2>1, <3>1, <3>2, OrderedIds
  <2>4. QED
    BY <1>4, <2>2, <2>3, FirstRun
<1>6. (CleanTurn /\ Matches)' => 0 < m_Elements /\ m_Tbl[1].reverse = rev
  BY <1>1, <1>2 DEF CleanTurn, Matches
<1>7. QED
  BY <1>1, <1>2, <1>3, <1>4, <1>5, <1>6 DEF CleanInv

\* An item that does not match is stepped over.
LEMMA CleanPassInv ==
  ASSUME IInv, CleanInv, CleanPass
  PROVE  CleanInv'
<1> DEFINE Idx == cleaning.Idx
           before == cleaning.before
           toGo == Cleaned(before, cleaning.rev)
<1>1. /\ m_Tbl \in Seq(Item) /\ m_Elements \in Nat /\ Idx \in Nat
      /\ cleaning.on /\ Idx < m_Elements /\ m_Tbl[Idx + 1].reverse # cleaning.rev
  BY AsTableFacts DEF IInv, TypeOK, CleanPass, CleanTurn, Matches
<1>2. /\ cleaning'.on /\ cleaning'.rev = cleaning.rev /\ cleaning'.Idx = Idx + 1
      /\ cleaning'.before = before
      /\ m_Tbl' = m_Tbl /\ m_Elements' = m_Elements
  <2>1. "on" \in DOMAIN cleaning /\ "Idx" \in DOMAIN cleaning
        /\ "rev" \in DOMAIN cleaning /\ "before" \in DOMAIN cleaning
    BY DEF IInv, TypeOK
  <2>2. QED
    BY <1>1, <2>1 DEF CleanPass, m_Elements
<1>3. AsTable' = AsTable
  BY <1>2, PrimedTable DEF AsTable
<1>4. /\ cleaning.rev \in Reverses
      /\ IsFiniteSet(DOMAIN before) /\ DOMAIN before \subseteq TrafficId
      /\ before = [k \in DOMAIN before |-> before[k]]
      /\ \A i \in 1 .. m_Elements :
           m_Tbl[i].id \in DOMAIN before /\ before[m_Tbl[i].id] = Entry(m_Tbl[i])
      /\ \A k \in DOMAIN before \ DOMAIN AsTable :
           k \in toGo /\ \A i \in 1 .. m_Elements : Idx < i => Less(k, m_Tbl[i].id)
      /\ \A i \in 1 .. m_Elements : i <= Idx => m_Tbl[i].id \notin toGo
  BY <1>1 DEF CleanInv
<1>5. m_Tbl[Idx + 1].id \notin toGo
  <2>1. Idx + 1 \in 1 .. m_Elements
    BY <1>1
  <2>2. before[m_Tbl[Idx + 1].id] = Entry(m_Tbl[Idx + 1])
    BY <1>4, <2>1
  <2>3. before[m_Tbl[Idx + 1].id].reverse # cleaning.rev
    BY <1>1, <2>2 DEF Entry
  <2>4. QED
    BY <2>3 DEF Cleaned, Matching
<1>6. ASSUME NEW i \in 1 .. m_Elements, i <= Idx + 1 PROVE m_Tbl[i].id \notin toGo
  <2>1. i <= Idx \/ i = Idx + 1
    BY <1>1, <1>6
  <2>2. QED
    BY <1>4, <1>5, <2>1
<1>7. ASSUME Idx + 1 < m_Elements, m_Tbl[Idx + 1 + 1].reverse = cleaning.rev
      PROVE  m_Tbl[Idx + 1 + 1].id \in toGo
  <2>1. Idx + 1 \in Nat /\ Idx < Idx + 1
    BY <1>1
  <2>2. QED
    BY <1>1, <1>5, <1>7, <2>1, Neighbours
<1>8. (CleanTurn /\ Matches)' => Idx + 1 < m_Elements /\ m_Tbl[Idx + 1 + 1].reverse = cleaning.rev
  BY <1>2 DEF CleanTurn, Matches
<1>9. \A k \in DOMAIN before \ DOMAIN AsTable :
        \A i \in 1 .. m_Elements : Idx + 1 < i => Less(k, m_Tbl[i].id)
  BY <1>1, <1>4
<1> HIDE DEF Idx, before, toGo
<1>10. Cleaned(cleaning'.before, cleaning'.rev) = toGo
  BY <1>2 DEF toGo
<1>11. QED
  BY <1>2, <1>3, <1>4, <1>6, <1>7, <1>8, <1>9, <1>10 DEF CleanInv

\* An item that matches is taken out, and the one that moves into its place
\* is not looked at: it was to stay.
LEMMA CleanRemoveInv ==
  ASSUME IInv, CleanInv, CleanRemove
  PROVE  CleanInv'
<1> DEFINE Idx == cleaning.Idx
           before == cleaning.before
           toGo == Cleaned(before, cleaning.rev)
           new == Removed(Idx)
           k0 == m_Tbl[Idx + 1].id
<1>1. /\ m_Tbl \in Seq(Item) /\ Ordered(m_Tbl) /\ m_Elements \in Nat /\ Len(m_Tbl) = m_Elements
      /\ Idx \in Nat /\ cleaning.on /\ Idx < m_Elements
      /\ CleanTurn /\ Matches
  BY AsTableFacts DEF IInv, TypeOK, CleanRemove, CleanTurn
<1>2. /\ cleaning'.on /\ cleaning'.rev = cleaning.rev /\ cleaning'.Idx = Idx + 1
      /\ cleaning'.before = before
      /\ m_Tbl' = new
  <2>1. "on" \in DOMAIN cleaning /\ "Idx" \in DOMAIN cleaning
        /\ "rev" \in DOMAIN cleaning /\ "before" \in DOMAIN cleaning
    BY DEF IInv, TypeOK
  <2>2. QED
    BY <1>1, <2>1 DEF CleanRemove
<1>3. Idx \in 0 .. (m_Elements - 1) /\ Idx + 1 \in 1 .. m_Elements
  BY <1>1
<1>4. /\ Len(new) = m_Elements - 1
      /\ \A i \in 1 .. (m_Elements - 1) : new[i] = IF i <= Idx THEN m_Tbl[i] ELSE m_Tbl[i + 1]
  BY <1>1, <1>3, RemovedFacts
<1>5. m_Elements' = m_Elements - 1
  BY <1>2, <1>4 DEF m_Elements
<1>6. DOMAIN AsTable' = DOMAIN AsTable \ {k0}
  <2>1. MapOf(new) = Without(AsTable, {k0})
    BY <1>3, RemovedMap
  <2>2. QED
    BY <1>2, <2>1, PrimedTable DEF Without
<1>7. /\ cleaning.rev \in Reverses
      /\ IsFiniteSet(DOMAIN before) /\ DOMAIN before \subseteq TrafficId
      /\ before = [k \in DOMAIN before |-> before[k]]
      /\ \A i \in 1 .. m_Elements :
           m_Tbl[i].id \in DOMAIN before /\ before[m_Tbl[i].id] = Entry(m_Tbl[i])
      /\ \A k \in DOMAIN before \ DOMAIN AsTable :
           k \in toGo /\ \A i \in 1 .. m_Elements : Idx < i => Less(k, m_Tbl[i].id)
      /\ \A i \in 1 .. m_Elements : i <= Idx => m_Tbl[i].id \notin toGo
      /\ k0 \in toGo
  BY <1>1 DEF CleanInv
<1>8. \A i \in 1 .. m_Elements : Idx + 1 < i => Less(k0, m_Tbl[i].id)
  BY <1>1, <1>3, OrderedIds
<1>9. Idx + 1 < m_Elements => m_Tbl[Idx + 1 + 1].id \notin toGo
  <2>1. Idx + 1 \in Nat /\ Idx < Idx + 1
    BY <1>1
  <2>2. QED
    BY <1>1, <1>7, <2>1, Neighbours
<1>10. ASSUME Idx + 2 < m_Elements, m_Tbl[Idx + 2 + 1].reverse = cleaning.rev
       PROVE  m_Tbl[Idx + 2 + 1].id \in toGo
  <2>1. Idx + 2 \in Nat /\ Idx < Idx + 2 /\ Idx + 1 + 1 = Idx + 2 /\ Idx + 1 < m_Elements
    BY <1>1, <1>10
  <2>2. m_Tbl[Idx + 2].id \notin toGo
    BY <1>9, <2>1
  <2>3. QED
    BY <1>1, <1>10, <2>1, <2>2, Neighbours
<1> HIDE DEF Idx, before, toGo, new, k0
<1>11. ASSUME NEW i \in 1 .. (m_Elements - 1)
       PROVE  /\ new[i].id \in DOMAIN before /\ before[new[i].id] = Entry(new[i])
              /\ i <= Idx + 1 => new[i].id \notin toGo
              /\ Idx + 1 < i =>
                   /\ Less(k0, new[i].id)
                   /\ \A k \in DOMAIN before \ DOMAIN AsTable : Less(k, new[i].id)
  <2>1. CASE i <= Idx
    <3>1. new[i] = m_Tbl[i] /\ i \in 1 .. m_Elements /\ ~(Idx + 1 < i)
      BY <1>1, <1>4, <2>1
    <3>2. QED
      BY <1>7, <2>1, <3>1
  <2>2. CASE i = Idx + 1
    <3>1. new[i] = m_Tbl[Idx + 1 + 1] /\ Idx + 1 + 1 \in 1 .. m_Elements
          /\ Idx + 1 < m_Elements /\ ~(Idx + 1 < i)
      BY <1>1, <1>4, <2>2
    <3>2. QED
      BY <1>7, <1>9, <3>1
  <2>3. CASE Idx + 1 < i
    <3>1. new[i] = m_Tbl[i + 1] /\ i + 1 \in 1 .. m_Elements
          /\ Idx < i + 1 /\ Idx + 1 < i + 1 /\ ~(i <= Idx + 1)
      BY <1>1, <1>4, <2>3
    <3>2. QED
      BY <1>7, <1>8, <3>1
  <2>4. QED
    BY <1>1, <2>1, <2>2, <2>3
<1>12. (CleanTurn /\ Matches)' => new[Idx + 1 + 1].id \in toGo
  <2>1. (CleanTurn /\ Matches)' => Idx + 1 < m_Elements - 1 /\ new[Idx + 1 + 1].reverse = cleaning.rev
    BY <1>2, <1>5 DEF CleanTurn, Matches
  <2>2. ASSUME Idx + 1 < m_Elements - 1 PROVE new[Idx + 1 + 1] = m_Tbl[Idx + 2 + 1] /\ Idx + 2 < m_Elements
    <3>1. Idx + 1 + 1 \in 1 .. (m_Elements - 1) /\ ~(Idx + 1 + 1 <= Idx)
          /\ Idx + 1 + 1 + 1 = Idx + 2 + 1 /\ Idx + 2 < m_Elements
      BY <1>1, <2>2
    <3>2. QED
      BY <1>4, <3>1
  <2>3. QED
    BY <1>10, <2>1, <2>2
<1>13. \A k \in DOMAIN before \ DOMAIN AsTable' :
         k \in toGo /\ \A i \in 1 .. (m_Elements - 1) : Idx + 1 < i => Less(k, new[i].id)
  BY <1>6, <1>7, <1>11
<1>14. Cleaned(cleaning'.before, cleaning'.rev) = toGo
  BY <1>2 DEF toGo
<1>15. QED
  BY <1>2, <1>5, <1>7, <1>11, <1>12, <1>13, <1>14 DEF CleanInv

-----------------------------------------------------------------------------
(* The array implements the map.                                           *)

FullInv == IInv /\ CleanInv

\* The map the array stands for: while Clean is under way, the one it started from.
Represented == IF cleaning.on THEN cleaning.before ELSE AsTable

\* TrafficMap's operators are those of TrafficTable.
LEMMA MapOps ==
  ASSUME NEW tbl, NEW k, NEW e
  PROVE  /\ Map!Put(tbl, k, e) = Put(tbl, k, e)
         /\ Map!Without(tbl, k) = Without(tbl, k)
         /\ Map!Position(tbl, k) = Position(tbl, k)
         /\ Map!Held(tbl, k) = Held(tbl, k)
         /\ Map!At(tbl, k) = At(tbl, k)
         /\ Map!Clean(tbl, k) = Clean(tbl, k)
         /\ Map!Empty = Empty
         /\ Map!Positions = Positions
<1>1. \A S : Map!Cardinality(S) = Cardinality(S)
  BY DEF Map!Cardinality, Cardinality
<1>2. Map!Put(tbl, k, e) = Put(tbl, k, e)
  BY DEF Map!Put, Put
<1>3. Map!Without(tbl, k) = Without(tbl, k)
  BY DEF Map!Without, Without
<1>4. \A x : Map!Position(tbl, x) = Position(tbl, x)
  BY <1>1 DEF Map!Position, Position, Map!Less, Less
<1>5. Map!Held(tbl, k) = Held(tbl, k)
  BY <1>1 DEF Map!Held, Held
<1>6. Map!At(tbl, k) = At(tbl, k)
  BY <1>1 DEF Map!At, At, Map!Position, Position, Map!Less, Less
<1>7. Map!Clean(tbl, k) = Clean(tbl, k)
  BY <1>1 DEF Map!Clean, Clean, Map!Without, Without, Map!Cleaned, Cleaned, Map!Matching, Matching,
         Map!Run, Run, Map!Less, Less
<1>8. Map!Empty = Empty /\ Map!Positions = Positions
  BY <1>1 DEF Map!Empty, Empty, Map!Positions, Positions
<1>9. QED
  BY <1>2, <1>3, <1>4, <1>5, <1>6, <1>7, <1>8

LEMMA InitMap == Init => Map!Init
<1> SUFFICES ASSUME Init PROVE Map!Init
  OBVIOUS
<1>1. AsTable = Empty
  BY DEF Init, AsTable, MapOf, Empty
<1>2. cleaning.on = FALSE /\ reply = <<>>
  BY DEF Init, NotCleaning
<1>3. QED
  BY <1>1, <1>2, MapOps DEF Map!Init

\* Between two operations the map is the array's, before and after.
LEMMA IdleMap ==
  ASSUME Idle, UNCHANGED cleaning
  PROVE  Represented = AsTable /\ Represented' = MapOf(m_Tbl') /\ cleaning.on = FALSE /\ cleaning'.on = FALSE
BY PrimedTable DEF Idle, Represented

LEMMA InsertMaps ==
  ASSUME IInv, NEW item \in Item, InsertNew(item) \/ InsertAgain(item)
  PROVE  Map!Insert(item.id, item.reverse, item.LastTraffic)
<1> DEFINE k == item.id
<1>1. /\ m_Tbl \in Seq(Item) /\ Ordered(m_Tbl) /\ m_Elements \in Nat /\ Len(m_Tbl) = m_Elements
      /\ k \in TrafficId
  BY AsTableFacts, IdAssumption DEF Item
<1>2. /\ Represented = AsTable /\ Represented' = MapOf(m_Tbl')
      /\ reply' = <<"InsertTraffic", k, item.reverse, item.LastTraffic, TRUE>>
  BY IdleMap DEF InsertNew, InsertAgain
<1>3. CASE InsertNew(item)
  <2>1. PICK Idx \in 0 .. m_Elements : Finds(m_Tbl, k, FALSE, Idx) /\ m_Tbl' = Inserted(Idx, item)
    BY <1>3 DEF InsertNew
  <2>2. k \notin DOMAIN AsTable /\ MapOf(m_Tbl') = Put(AsTable, k, Entry(item))
    BY <2>1, InsertedMap
  <2>3. QED
    BY <1>2, <2>2, MapOps DEF Map!Insert, Represented, Entry
<1>4. CASE InsertAgain(item)
  <2>1. PICK Idx \in 0 .. m_Elements :
          Finds(m_Tbl, k, TRUE, Idx)
          /\ m_Tbl' = [m_Tbl EXCEPT ![Idx + 1].LastTraffic = item.LastTraffic]
    BY <1>4 DEF InsertAgain
  <2>2. Idx \in Nat /\ Idx < m_Elements /\ m_Tbl[Idx + 1].id = k /\ item.LastTraffic \in Times
    BY <1>1, <2>1 DEF Finds, Item
  <2>3. /\ k \in DOMAIN AsTable
        /\ MapOf(m_Tbl') = Put(AsTable, k, [AsTable[k] EXCEPT !.LastTraffic = item.LastTraffic])
    BY <2>1, <2>2, TimedMap
  <2>4. QED
    BY <1>2, <2>3, MapOps DEF Map!Insert, Map!Touched, Represented
<1>5. QED
  BY <1>3, <1>4

LEMMA DeleteMaps ==
  ASSUME IInv, NEW k \in Ids, DeleteTraffic(k)
  PROVE  Map!Delete(k)
<1>1. /\ m_Tbl \in Seq(Item) /\ Ordered(m_Tbl) /\ m_Elements \in Nat /\ Len(m_Tbl) = m_Elements
      /\ k \in TrafficId
  BY AsTableFacts, IdAssumption
<1>2. /\ Represented = AsTable /\ Represented' = MapOf(m_Tbl')
      /\ reply' = <<"DeleteTraffic", k, TRUE>>
  BY IdleMap DEF DeleteTraffic
<1>3. PICK Idx \in 0 .. m_Elements :
        \/ Finds(m_Tbl, k, TRUE, Idx) /\ m_Tbl' = Removed(Idx)
        \/ Finds(m_Tbl, k, FALSE, Idx) /\ UNCHANGED m_Tbl
  BY DEF DeleteTraffic
<1>4. MapOf(m_Tbl') = Without(AsTable, {k})
  <2>1. CASE Finds(m_Tbl, k, TRUE, Idx) /\ m_Tbl' = Removed(Idx)
    <3>1. Idx \in 0 .. (m_Elements - 1) /\ m_Tbl[Idx + 1].id = k
      BY <1>1, <2>1 DEF Finds
    <3>2. QED
      BY <2>1, <3>1, RemovedMap
  <2>2. CASE Finds(m_Tbl, k, FALSE, Idx) /\ UNCHANGED m_Tbl
    <3>1. k \notin DOMAIN AsTable
      BY <1>1, <2>2, FindsPosition DEF AsTable
    <3>2. AsTable = [x \in DOMAIN AsTable |-> AsTable[x]]
      BY DEF AsTable, MapOf
    <3>3. MapOf(m_Tbl') = AsTable
      BY <2>2 DEF AsTable
    <3>4. DOMAIN AsTable \ {k} = DOMAIN AsTable
      BY <3>1
    <3>5. QED
      BY <3>2, <3>3, <3>4 DEF Without
  <2>3. QED
    BY <1>3, <2>1, <2>2
<1>5. QED
  BY <1>2, <1>4, MapOps DEF Map!Delete, Represented

\* An index the caller gives means the same to the array and to the map.
LEMMA IndexFacts ==
  ASSUME IInv, NEW Idx \in Positions
  PROVE  /\ Idx \in Nat
         /\ Held(AsTable, Idx) <=> Idx < m_Elements
         /\ Idx < m_Elements =>
              /\ At(AsTable, Idx) = m_Tbl[Idx + 1].id
              /\ m_Tbl[Idx + 1].id \in DOMAIN AsTable
              /\ AsTable[m_Tbl[Idx + 1].id] = Entry(m_Tbl[Idx + 1])
<1>1. /\ m_Tbl \in Seq(Item) /\ Ordered(m_Tbl) /\ m_Elements \in Nat /\ Len(m_Tbl) = m_Elements
  BY AsTableFacts
<1>2. Idx \in Nat
  BY DEF Positions
<1>3. /\ Held(AsTable, Idx) <=> Idx < m_Elements
      /\ Idx < m_Elements => At(AsTable, Idx) = m_Tbl[Idx + 1].id
  BY <1>1, <1>2, AtOf DEF AsTable
<1>4. ASSUME Idx < m_Elements
      PROVE  /\ m_Tbl[Idx + 1].id \in DOMAIN AsTable
             /\ AsTable[m_Tbl[Idx + 1].id] = Entry(m_Tbl[Idx + 1])
  <2>1. Idx + 1 \in 1 .. m_Elements
    BY <1>1, <1>2, <1>4
  <2>2. QED
    BY <2>1, AsTableFacts
<1>5. QED
  BY <1>2, <1>3, <1>4

LEMMA UpdateMaps ==
  ASSUME IInv, NEW Idx \in Positions, NEW now \in Times, UpdateLastTrafficTime(Idx, now)
  PROVE  Map!UpdateLastTrafficTime(Idx, now)
<1>1. /\ Represented = AsTable /\ Represented' = MapOf(m_Tbl')
      /\ reply' = <<"UpdateLastTrafficTime", Idx, now>>
      /\ m_Tbl' = IF Idx < m_Elements THEN [m_Tbl EXCEPT ![Idx + 1].LastTraffic = now] ELSE m_Tbl
  BY IdleMap DEF UpdateLastTrafficTime
<1>2. CASE Idx < m_Elements
  <2>1. Idx \in Nat /\ Held(AsTable, Idx) /\ At(AsTable, Idx) = m_Tbl[Idx + 1].id
    BY <1>2, IndexFacts
  <2>2. MapOf(m_Tbl')
          = Put(AsTable, m_Tbl[Idx + 1].id, [AsTable[m_Tbl[Idx + 1].id] EXCEPT !.LastTraffic = now])
    BY <1>1, <1>2, <2>1, TimedMap
  <2>3. QED
    BY <1>1, <2>1, <2>2, MapOps DEF Map!UpdateLastTrafficTime, Map!Touched, Represented
<1>3. CASE ~(Idx < m_Elements)
  <2>1. ~Held(AsTable, Idx) /\ MapOf(m_Tbl') = AsTable
    BY <1>1, <1>3, IndexFacts DEF AsTable
  <2>2. QED
    BY <1>1, <2>1, MapOps DEF Map!UpdateLastTrafficTime, Represented
<1>4. QED
  BY <1>2, <1>3

LEMMA ModifyMaps ==
  ASSUME IInv, NEW Idx \in Positions, NEW item \in Item, Modify(Idx, item)
  PROVE  Map!Modify(Idx, item.id, item.reverse, item.LastTraffic)
<1> DEFINE hit == Idx < m_Elements /\ m_Tbl[Idx + 1].id = item.id
<1>1. /\ Represented = AsTable /\ Represented' = MapOf(m_Tbl')
      /\ reply' = <<"Modify", Idx, item.id, item.reverse, item.LastTraffic, hit>>
      /\ m_Tbl' = IF hit THEN [m_Tbl EXCEPT ![Idx + 1] = item] ELSE m_Tbl
  BY IdleMap DEF Modify, Seqs!ReplaceAt
<1>2. hit = (Held(AsTable, Idx) /\ At(AsTable, Idx) = item.id)
  BY IndexFacts
<1>3. CASE hit
  <2>1. MapOf(m_Tbl') = Put(AsTable, item.id, Entry(item))
    BY <1>1, <1>3, IndexFacts, OverwrittenMap
  <2>2. Held(AsTable, Idx) /\ At(AsTable, Idx) = item.id /\ hit = TRUE
    BY <1>2, <1>3
  <2> HIDE DEF hit
  <2>3. Map!Held(AsTable, Idx) /\ Map!At(AsTable, Idx) = item.id
        /\ Map!Put(AsTable, item.id, Entry(item)) = Put(AsTable, item.id, Entry(item))
    BY <2>2, MapOps
  <2>4. reply' = <<"Modify", Idx, item.id, item.reverse, item.LastTraffic, TRUE>>
    BY <1>1, <2>2
  <2>5. QED
    BY <1>1, <2>1, <2>3, <2>4 DEF Map!Modify, Represented, Entry
<1>4. CASE ~hit
  <2> HIDE DEF hit
  <2>1. MapOf(m_Tbl') = AsTable
    BY <1>1, <1>4 DEF AsTable
  <2>2. QED
    BY <1>1, <1>2, <1>4, <2>1, MapOps DEF Map!Modify, Represented
<1>5. QED
  BY <1>3, <1>4

LEMMA RemoveMaps ==
  ASSUME IInv, NEW Idx \in Positions, Remove(Idx)
  PROVE  Map!Remove(Idx)
<1>1. /\ Represented = AsTable /\ Represented' = MapOf(m_Tbl')
      /\ reply' = <<"Remove", Idx, Idx < m_Elements>>
      /\ m_Tbl' = IF Idx < m_Elements THEN Removed(Idx) ELSE m_Tbl
  BY IdleMap DEF Remove
<1>2. (Idx < m_Elements) = Held(AsTable, Idx)
  BY IndexFacts DEF Held
<1>3. CASE Idx < m_Elements
  <2>1. Idx \in 0 .. (m_Elements - 1) /\ At(AsTable, Idx) = m_Tbl[Idx + 1].id
    BY <1>3, IndexFacts, AsTableFacts
  <2>2. MapOf(m_Tbl') = Without(AsTable, {At(AsTable, Idx)})
    BY <1>1, <1>3, <2>1, RemovedMap
  <2>3. Map!Held(AsTable, Idx) /\ Map!At(AsTable, Idx) = At(AsTable, Idx)
        /\ Map!Without(AsTable, {At(AsTable, Idx)}) = Without(AsTable, {At(AsTable, Idx)})
    BY <1>2, <1>3, MapOps
  <2>4. reply' = <<"Remove", Idx, TRUE>>
    BY <1>1, <1>3
  <2>5. QED
    BY <1>1, <2>2, <2>3, <2>4 DEF Map!Remove, Represented
<1>4. CASE ~(Idx < m_Elements)
  <2>1. MapOf(m_Tbl') = AsTable
    BY <1>1, <1>4 DEF AsTable
  <2>2. QED
    BY <1>1, <1>2, <1>4, <2>1, MapOps DEF Map!Remove, Represented
<1>5. QED
  BY <1>3, <1>4

LEMMA RemoveAllMaps == RemoveAll => Map!RemoveAll
<1> SUFFICES ASSUME RemoveAll PROVE Map!RemoveAll
  OBVIOUS
<1>1. Represented' = MapOf(m_Tbl') /\ reply' = <<"RemoveAll", TRUE>> /\ m_Tbl' = <<>>
  BY IdleMap DEF RemoveAll
<1>2. MapOf(<<>>) = Empty
  BY DEF MapOf, Empty
<1>3. QED
  BY <1>1, <1>2, MapOps DEF Map!RemoveAll, Represented

\* The operations that change nothing answer what the map holds.
LEMMA AnswersMap ==
  ASSUME IInv
  PROVE  /\ \A k \in Ids : Find(k) => Map!Find(k)
         /\ \A Idx \in Positions : Get(Idx) => Map!Get(Idx)
         /\ \A Idx \in Positions : GetId(Idx) => Map!GetId(Idx)
         /\ Elements => Map!Elements
<1>0. /\ m_Tbl \in Seq(Item) /\ Ordered(m_Tbl) /\ m_Elements \in Nat /\ Len(m_Tbl) = m_Elements
  BY AsTableFacts
<1>1. ASSUME Idle, UNCHANGED <<m_Tbl, cleaning>>
      PROVE  Represented = AsTable /\ Represented' = AsTable
  BY <1>1, IdleMap DEF AsTable
<1>2. ASSUME NEW k \in Ids, Find(k) PROVE Map!Find(k)
  <2>1. PICK i \in 0 .. m_Elements, found \in BOOLEAN :
          Finds(m_Tbl, k, found, i) /\ reply' = <<"FindItem", k, found, i>>
    BY <1>2 DEF Find
  <2>2. Position(AsTable, k) = i /\ found = (k \in DOMAIN AsTable)
    BY <1>0, <2>1, IdAssumption, FindsPosition DEF AsTable
  <2>3. Represented = AsTable /\ Represented' = AsTable
    BY <1>1, <1>2 DEF Find
  <2>4. QED
    BY <2>1, <2>2, <2>3, MapOps DEF Map!Find, Represented
<1>3. ASSUME NEW Idx \in Positions, Get(Idx) PROVE Map!Get(Idx)
  <2>1. Represented = AsTable /\ Represented' = AsTable
    BY <1>1, <1>3 DEF Get
  <2>2. CASE Idx < m_Elements
    <3>1. reply' = <<"GetItem", Idx, TRUE, m_Tbl[Idx + 1].id, Entry(m_Tbl[Idx + 1])>>
      BY <1>3, <2>2 DEF Get, Entry
    <3>2. QED
      BY <2>1, <2>2, <3>1, IndexFacts, MapOps DEF Map!Get, Represented
  <2>3. CASE ~(Idx < m_Elements)
    <3>1. reply' = <<"GetItem", Idx, FALSE>>
      BY <1>3, <2>3 DEF Get
    <3>2. QED
      BY <2>1, <2>3, <3>1, IndexFacts, MapOps DEF Map!Get, Represented
  <2>4. QED
    BY <2>2, <2>3
<1>4. ASSUME NEW Idx \in Positions, GetId(Idx) PROVE Map!GetId(Idx)
  <2>1. Represented = AsTable /\ Represented' = AsTable
    BY <1>1, <1>4 DEF GetId
  <2>2. reply' = IF Idx < m_Elements THEN <<"GetId", Idx, TRUE, m_Tbl[Idx + 1].id>>
                                     ELSE <<"GetId", Idx, FALSE>>
    BY <1>4 DEF GetId
  <2>3. QED
    BY <2>1, <2>2, IndexFacts, MapOps DEF Map!GetId, Represented
<1>5. ASSUME Elements PROVE Map!Elements
  <2>1. Represented = AsTable /\ Represented' = AsTable
    BY <1>1, <1>5 DEF Elements
  <2>2. Cardinality(DOMAIN AsTable) = m_Elements
    BY <1>0, CardinalityOf DEF AsTable
  <2>3. reply' = <<"Elements", m_Elements>>
    BY <1>5 DEF Elements
  <2>4. Map!Cardinality(DOMAIN AsTable) = Cardinality(DOMAIN AsTable)
    BY DEF Map!Cardinality, Cardinality
  <2>5. QED
    BY <2>1, <2>2, <2>3, <2>4 DEF Map!Elements, Represented
<1>6. QED
  BY <1>2, <1>3, <1>4, <1>5

LEMMA AssignMaps ==
  ASSUME NEW other \in Others, Assign(other)
  PROVE  Map!Assign(MapOf(other.items))
<1>1. Represented' = MapOf(m_Tbl') /\ m_Tbl' = other.items
      /\ reply' = <<"operator =", MapOf(other.items)>>
  BY IdleMap DEF Assign
<1>2. QED
  BY <1>1 DEF Map!Assign, Represented

\* A turn of Clean's loop is no step of the map; its end is the whole of Clean.
LEMMA CleanTurnsMap ==
  ASSUME IInv, CleanInv
  PROVE  /\ \A rev \in Reverses : CleanBegin(rev) => UNCHANGED <<Represented, reply>>
         /\ CleanRemove \/ CleanPass => UNCHANGED <<Represented, reply>>
         /\ CleanEnd => cleaning.rev \in Reverses /\ Map!CleanAll(cleaning.rev)
<1>0. "on" \in DOMAIN cleaning /\ "Idx" \in DOMAIN cleaning
      /\ "rev" \in DOMAIN cleaning /\ "before" \in DOMAIN cleaning
      /\ cleaning.Idx \in Nat /\ m_Elements \in Nat
  BY AsTableFacts DEF IInv, TypeOK
<1>1. \A rev \in Reverses : CleanBegin(rev) => UNCHANGED <<Represented, reply>>
  BY DEF CleanBegin, Idle, Represented
<1>2. ASSUME CleanRemove \/ CleanPass PROVE UNCHANGED <<Represented, reply>>
  <2>1. cleaning.on /\ cleaning' = [cleaning EXCEPT !.Idx = @ + 1] /\ reply' = reply
    BY <1>2 DEF CleanRemove, CleanPass, CleanTurn
  <2>2. cleaning'.on = cleaning.on /\ cleaning'.before = cleaning.before
    BY <1>0, <2>1
  <2>3. QED
    BY <2>1, <2>2 DEF Represented
<1>3. ASSUME CleanEnd PROVE cleaning.rev \in Reverses /\ Map!CleanAll(cleaning.rev)
  <2> DEFINE before == cleaning.before
             toGo == Cleaned(before, cleaning.rev)
  <2>1. /\ cleaning.on /\ cleaning.Idx >= m_Elements /\ cleaning'.on = FALSE /\ m_Tbl' = m_Tbl
        /\ reply' = <<"Clean", cleaning.rev, TRUE>>
    BY <1>3 DEF CleanEnd, NotCleaning
  <2>2. /\ cleaning.rev \in Reverses
        /\ before = [k \in DOMAIN before |-> before[k]]
        /\ \A i \in 1 .. m_Elements :
             m_Tbl[i].id \in DOMAIN before /\ before[m_Tbl[i].id] = Entry(m_Tbl[i])
        /\ \A k \in DOMAIN before \ DOMAIN AsTable : k \in toGo
        /\ \A i \in 1 .. m_Elements : i <= cleaning.Idx => m_Tbl[i].id \notin toGo
    BY <2>1 DEF CleanInv
  <2>3. /\ DOMAIN AsTable = {m_Tbl[i].id : i \in 1 .. m_Elements}
        /\ \A i \in 1 .. m_Elements : AsTable[m_Tbl[i].id] = Entry(m_Tbl[i])
        /\ AsTable = [k \in DOMAIN AsTable |-> AsTable[k]]
    <3>1. AsTable = [k \in DOMAIN AsTable |-> AsTable[k]]
      BY DEF AsTable, MapOf
    <3>2. QED
      BY <3>1, AsTableFacts
  <2>4. Represented = before /\ Represented' = AsTable
    BY <2>1, PrimedTable DEF Represented, AsTable
  <2> HIDE DEF before, toGo
  <2>5. \A i \in 1 .. m_Elements : m_Tbl[i].id \notin toGo
    BY <1>0, <2>1, <2>2
  <2>6. DOMAIN AsTable = DOMAIN before \ toGo
    BY <2>2, <2>3, <2>5
  <2>7. \A k \in DOMAIN AsTable : AsTable[k] = before[k]
    BY <2>2, <2>3
  <2>8. AsTable = Without(before, toGo)
    BY <2>3, <2>6, <2>7 DEF Without
  <2>9. AsTable = Clean(before, cleaning.rev)
    BY <2>8 DEF Clean, toGo
  <2>10. QED
    BY <2>1, <2>2, <2>4, <2>9, MapOps DEF Map!CleanAll, Represented
<1>4. QED
  BY <1>1, <1>2, <1>3

-----------------------------------------------------------------------------
LEMMA InitFullInv == Init => FullInv
BY InitInv DEF FullInv, Init, CleanInv, NotCleaning

LEMMA FullInvStep == FullInv /\ [Next]_vars => FullInv'
<1> SUFFICES ASSUME IInv, CleanInv, [Next]_vars PROVE CleanInv'
  BY InvStep DEF FullInv
<1>1. ASSUME NEW rev \in Reverses, CleanBegin(rev) PROVE CleanInv'
  BY <1>1, CleanBeginInv
<1>2. CASE CleanRemove
  BY <1>2, CleanRemoveInv
<1>3. CASE CleanPass
  BY <1>3, CleanPassInv
<1>4. CASE CleanEnd
  BY <1>4 DEF CleanEnd, NotCleaning, CleanInv
<1>5. CASE UNCHANGED vars
  BY <1>5 DEF vars, CleanInv, AsTable, MapOf, m_Elements, CleanTurn, Matches
<1>6. ASSUME Idle, UNCHANGED cleaning PROVE CleanInv'
  BY <1>6 DEF Idle, CleanInv
<1>7. /\ \A item \in Item : InsertNew(item) \/ InsertAgain(item) => Idle /\ UNCHANGED cleaning
      /\ \A k \in Ids : DeleteTraffic(k) \/ Find(k) => Idle /\ UNCHANGED cleaning
      /\ \A Idx \in Positions, now \in Times :
           UpdateLastTrafficTime(Idx, now) => Idle /\ UNCHANGED cleaning
      /\ \A Idx \in Positions : Get(Idx) \/ GetId(Idx) \/ Remove(Idx) => Idle /\ UNCHANGED cleaning
      /\ \A Idx \in Positions, item \in Item : Modify(Idx, item) => Idle /\ UNCHANGED cleaning
      /\ \A other \in Others : Assign(other) => Idle /\ UNCHANGED cleaning
      /\ Elements \/ RemoveAll => Idle /\ UNCHANGED cleaning
  BY DEF InsertNew, InsertAgain, DeleteTraffic, Find, UpdateLastTrafficTime, Get, GetId,
     Remove, Modify, Assign, Elements, RemoveAll
<1>8. QED
  BY <1>1, <1>2, <1>3, <1>4, <1>5, <1>6, <1>7 DEF Next

LEMMA StepMaps == FullInv /\ [Next]_vars => [Map!Next]_<<Represented, reply>>
<1> SUFFICES ASSUME IInv, CleanInv, [Next]_vars PROVE Map!Next \/ UNCHANGED <<Represented, reply>>
  BY DEF FullInv
<1>0. Map!Positions = Positions
  BY MapOps
<1>1. ASSUME NEW item \in Item, InsertNew(item) \/ InsertAgain(item) PROVE Map!Next
  <2>1. item.id \in Ids /\ item.reverse \in Reverses /\ item.LastTraffic \in Times
    BY DEF Item
  <2>2. Map!Insert(item.id, item.reverse, item.LastTraffic)
    BY <1>1, InsertMaps
  <2>3. QED
    BY <2>1, <2>2 DEF Map!Next
<1>2. ASSUME NEW k \in Ids, DeleteTraffic(k) \/ Find(k) PROVE Map!Next
  <2>1. Map!Delete(k) \/ Map!Find(k)
    BY <1>2, DeleteMaps, AnswersMap
  <2>2. QED
    BY <2>1 DEF Map!Next
<1>3. ASSUME NEW Idx \in Positions, NEW now \in Times, UpdateLastTrafficTime(Idx, now) PROVE Map!Next
  <2>1. Map!UpdateLastTrafficTime(Idx, now)
    BY <1>3, UpdateMaps
  <2>2. QED
    BY <1>0, <2>1 DEF Map!Next
<1>4. ASSUME NEW Idx \in Positions, Get(Idx) \/ GetId(Idx) \/ Remove(Idx) PROVE Map!Next
  <2>1. Map!Get(Idx) \/ Map!GetId(Idx) \/ Map!Remove(Idx)
    BY <1>4, RemoveMaps, AnswersMap
  <2>2. QED
    BY <1>0, <2>1 DEF Map!Next
<1>5. ASSUME NEW Idx \in Positions, NEW item \in Item, Modify(Idx, item) PROVE Map!Next
  <2>1. item.id \in Ids /\ item.reverse \in Reverses /\ item.LastTraffic \in Times
    BY DEF Item
  <2>2. Map!Modify(Idx, item.id, item.reverse, item.LastTraffic)
    BY <1>5, ModifyMaps
  <2>3. QED
    BY <1>0, <2>1, <2>2 DEF Map!Next
<1>6. ASSUME NEW other \in Others, Assign(other) PROVE Map!Next
  <2>1. Map!Assign(MapOf(other.items)) /\ MapOf(other.items) \in {MapOf(x.items) : x \in Others}
    BY <1>6, AssignMaps
  <2>2. QED
    BY <2>1 DEF Map!Next
<1>7. CASE Elements \/ RemoveAll
  BY <1>7, RemoveAllMaps, AnswersMap DEF Map!Next
<1>8. ASSUME NEW rev \in Reverses, CleanBegin(rev) PROVE UNCHANGED <<Represented, reply>>
  BY <1>8, CleanTurnsMap
<1>9. CASE CleanRemove \/ CleanPass
  BY <1>9, CleanTurnsMap
<1>10. CASE CleanEnd
  BY <1>10, CleanTurnsMap DEF Map!Next
<1>11. CASE UNCHANGED vars
  BY <1>11 DEF vars, Represented, AsTable, MapOf
<1>12. QED
  BY <1>1, <1>2, <1>3, <1>4, <1>5, <1>6, <1>7, <1>8, <1>9, <1>10, <1>11 DEF Next

\* CIdTbl and CNATSimTrafficTable implement the map their callers think of:
\* each operation changes and answers what TrafficMap says, and the turns of
\* Clean's loop amount to one removal of the entries of Cleaned.
THEOREM ArrayImplementsMap == Spec => ImplementsMap
<1>1. [Map!Next]_<<Represented, reply>> => [Map!Next]_(Map!vars)
  BY DEF Map!vars, Represented
<1>2. QED
  BY <1>1, InitFullInv, FullInvStep, InitMap, StepMaps, PTL DEF Spec, ImplementsMap, Map!Spec
================================================================================
