------------------------------ MODULE EditorProofs ------------------------------
(***************************************************************************)
(* The canvas shows the document, with every element's type and addresses  *)
(* and a line for every link, for any number of elements, dialogs and      *)
(* tests (CanvasShows); a test marks only the elements it chose            *)
(* (MarksFit).                                                             *)
(***************************************************************************)
EXTENDS Editor, TopologyProofs, SequenceTheorems

-----------------------------------------------------------------------------
(* Items of a list.                                                        *)

\* A list of so many items.
IsList(items, N) == N \in Nat /\ items = [n \in 1 .. N |-> items[n]]

LEMMA ListFacts ==
  ASSUME NEW items, NEW N \in Nat, IsList(items, N)
  PROVE  Len(items) = N /\ DOMAIN items = 1 .. N
<1>1. N \in Nat /\ items = [n \in 1 .. N |-> items[n]]
  BY DEF IsList
<1>2. PICK S : S = {items[n] : n \in 1 .. N}
  OBVIOUS
<1>3. items \in [1 .. N -> S]
  BY <1>1, <1>2
<1>4. items \in Seq(S)
  BY <1>1, <1>3
<1>5. DOMAIN items = 1 .. N
  BY <1>1
<1>6. QED
  BY <1>1, <1>4, <1>5

\* One more at the end.
LongerBy(longer, items, N, item) ==
  /\ IsList(longer, N + 1) /\ longer[N + 1] = item
  /\ \A n \in 1 .. N : longer[n] = items[n]

LEMMA ListAppend ==
  ASSUME NEW items, NEW N \in Nat, IsList(items, N), NEW item
  PROVE  LongerBy(Append(items, item), items, N, item)
<1> SUFFICES ASSUME NEW longer, longer = Append(items, item)
             PROVE  LongerBy(longer, items, N, item)
  OBVIOUS
<1>1. N \in Nat /\ Len(items) = N /\ DOMAIN items = 1 .. N
  BY ListFacts DEF IsList
<1>2. PICK S : S = {items[n] : n \in 1 .. N} \cup {item}
  OBVIOUS
<1>3. items \in [1 .. N -> S]
  BY <1>2 DEF IsList
<1>4. items \in Seq(S) /\ item \in S
  BY <1>1, <1>2, <1>3
<1>5. longer \in Seq(S) /\ Len(longer) = N + 1
  BY <1>1, <1>4
<1>6. longer = [n \in 1 .. N + 1 |-> longer[n]]
  <2>1. longer \in [1 .. Len(longer) -> S]
    BY <1>5, LenProperties
  <2>2. QED
    BY <1>5, <2>1
<1>7. longer[N + 1] = item /\ \A n \in 1 .. N : longer[n] = items[n]
  BY <1>1, <1>4
<1>8. QED
  BY <1>1, <1>6, <1>7 DEF IsList, LongerBy

\* One less: those behind move up.
LEMMA ListRemove ==
  ASSUME NEW items, NEW N \in Nat, IsList(items, N), NEW i \in 1 .. N,
         NEW shorter, shorter = RemoveAt(items, i)
  PROVE  /\ IsList(shorter, N - 1)
         /\ \A n \in 1 .. (N - 1) : shorter[n] = items[IF n < i THEN n ELSE n + 1]
<1>1. N \in Nat /\ Len(items) = N /\ DOMAIN items = 1 .. N
  BY ListFacts DEF IsList
<1>2. PICK S : S = {items[n] : n \in 1 .. N}
  OBVIOUS
<1>3. items \in [1 .. N -> S]
  BY <1>2 DEF IsList
<1>4. items \in Seq(S)
  BY <1>1, <1>2, <1>3
<1>5. PICK front, back : front = SubSeq(items, 1, i - 1) /\ back = SubSeq(items, i + 1, N)
  OBVIOUS
<1>6. front \in Seq(S) /\ Len(front) = i - 1 /\ \A n \in 1 .. (i - 1) : front[n] = items[n]
  <2>1. \A n \in 1 .. (i - 1) : items[n] \in S
    BY <1>1, <1>2
  <2>2. /\ front \in Seq(S) /\ Len(front) = IF 1 <= i - 1 THEN (i - 1) - 1 + 1 ELSE 0
        /\ \A n \in 1 .. ((i - 1) - 1 + 1) : front[n] = items[1 + n - 1]
    BY <1>1, <1>5, <2>1, SubSeqProperties
  <2>3. Len(front) = i - 1
    BY <1>1, <2>2
  <2>4. ASSUME NEW n \in 1 .. (i - 1) PROVE front[n] = items[n]
    <3>1. n \in 1 .. ((i - 1) - 1 + 1) /\ 1 + n - 1 = n
      BY <1>1
    <3>2. QED
      BY <2>2, <3>1
  <2>5. QED
    BY <2>2, <2>3, <2>4
<1>7. back \in Seq(S) /\ Len(back) = N - i /\ \A n \in 1 .. (N - i) : back[n] = items[i + n]
  <2>1. \A n \in (i + 1) .. N : items[n] \in S
    BY <1>1, <1>2
  <2>2. /\ back \in Seq(S) /\ Len(back) = IF i + 1 <= N THEN N - (i + 1) + 1 ELSE 0
        /\ \A n \in 1 .. (N - (i + 1) + 1) : back[n] = items[(i + 1) + n - 1]
    BY <1>1, <1>5, <2>1, SubSeqProperties
  <2>3. Len(back) = N - i
    BY <1>1, <2>2
  <2>4. ASSUME NEW n \in 1 .. (N - i) PROVE back[n] = items[i + n]
    <3>1. n \in 1 .. (N - (i + 1) + 1) /\ (i + 1) + n - 1 = i + n
      BY <1>1
    <3>2. QED
      BY <2>2, <3>1
  <2>5. QED
    BY <2>2, <2>3, <2>4
<1>8. shorter = front \o back
  BY <1>1, <1>5 DEF RemoveAt
<1>9. /\ shorter \in Seq(S) /\ Len(shorter) = (i - 1) + (N - i)
      /\ \A n \in 1 .. ((i - 1) + (N - i)) : shorter[n] = IF n <= i - 1 THEN front[n] ELSE back[n - (i - 1)]
  <2>1. /\ front \o back \in Seq(S) /\ Len(front \o back) = Len(front) + Len(back)
        /\ \A n \in 1 .. Len(front) + Len(back) :
             (front \o back)[n] = IF n <= Len(front) THEN front[n] ELSE back[n - Len(front)]
    BY <1>6, <1>7, ConcatProperties
  <2>2. QED
    BY <1>6, <1>7, <1>8, <2>1
<1>10. (i - 1) + (N - i) = N - 1 /\ N - 1 \in Nat
  BY <1>1
<1>11. shorter = [n \in 1 .. (N - 1) |-> shorter[n]]
  BY <1>9, <1>10
<1>12. ASSUME NEW n \in 1 .. (N - 1)
       PROVE  shorter[n] = items[IF n < i THEN n ELSE n + 1]
  <2>1. shorter[n] = IF n <= i - 1 THEN front[n] ELSE back[n - (i - 1)]
    BY <1>9, <1>10
  <2>2. CASE n < i
    <3>1. n \in 1 .. (i - 1) /\ n <= i - 1
      BY <2>2
    <3>2. QED
      BY <1>6, <2>1, <2>2, <3>1
  <2>3. CASE ~(n < i)
    <3>1. PICK k : k = n - (i - 1)
      OBVIOUS
    <3>2. k \in 1 .. (N - i) /\ i + k = n + 1 /\ ~(n <= i - 1)
      BY <1>1, <2>3, <3>1
    <3>3. QED
      BY <1>7, <2>1, <2>3, <3>1, <3>2
  <2>4. QED
    BY <2>2, <2>3
<1>13. QED
  BY <1>10, <1>11, <1>12 DEF IsList

-----------------------------------------------------------------------------
(* The document and its file, of simulated elements only.                  *)

\* A file that fits, of simulated elements.
SimulatedFile(file) ==
  /\ FileFits(file)
  /\ \A p \in 1 .. Len(file.elements) : file.elements[p].Type \in Simulated
  /\ \A n \in DOMAIN file.links : ~(file.links[n].from >= Len(file.elements))

\* The invariant of the document and its file.  In Topology the file need not fit, since it
\* may leave out elements.
SimulatedInv ==
  /\ DocInv /\ Fits /\ ~skewed
  /\ \A x \in InDocument : element[x].Type \in Simulated
  /\ SimulatedFile(disk)
  /\ DOMAIN saved = 1 .. Len(disk.elements)

\* With no place left out, the k-th place is k.
LEMMA NthAll ==
  ASSUME NEW N \in Nat, NEW k \in 1 .. N
  PROVE  Nth(1 .. N, k) = k
<1>1. PICK S : S = 1 .. N
  OBVIOUS
<1>2. \A m \in S : Cardinality(Before(S, m)) = m - 1
  <2> SUFFICES ASSUME NEW m \in S PROVE Cardinality(Before(S, m)) = m - 1
    OBVIOUS
  <2>1. PICK l : l = m - 1
    OBVIOUS
  <2>2. l \in Nat /\ m \in Nat
    BY <1>1, <2>1
  <2>3. Before(S, m) = 1 .. l
    BY <1>1, <2>1 DEF Before
  <2>4. Cardinality(1 .. l) = l
    BY <2>2, FS_Interval
  <2>5. QED
    BY <2>1, <2>3, <2>4
<1>3. \E n \in S : Cardinality(Before(S, n)) = k - 1
  BY <1>1, <1>2
<1>4. Nth(S, k) \in S /\ Cardinality(Before(S, Nth(S, k))) = k - 1
  BY <1>3 DEF Nth
<1>5. PICK n : n = Nth(S, k)
  OBVIOUS
<1>6. n \in 1 .. N /\ n - 1 = k - 1
  BY <1>1, <1>2, <1>4, <1>5
<1>7. n = k
  BY <1>6
<1>8. QED
  BY <1>1, <1>5, <1>7

\* A document of simulated elements is written as it is, so it can be opened again.
LEMMA WrittenFits ==
  ASSUME DocumentType, Fits, \A x \in InDocument : element[x].Type \in Simulated
  PROVE  /\ SimulatedFile(WriteDocument)
         /\ DOMAIN Those(Simulated) = 1 .. Len(WriteDocument.elements)
<1>1. PICK file, places, n : /\ file = WriteDocument /\ places = PlacesOf(Simulated)
                           /\ n = Cardinality(places) /\ WrittenAs(file, places, n)
  BY Written
<1>2. /\ Count \in Nat /\ DOMAIN mArrayElements = 1 .. Count
      /\ \A p \in 1 .. Count : mArrayElements[p] \in InDocument
  BY Places
<1>3. places = 1 .. Count
  BY <1>1, <1>2 DEF PlacesOf
<1>4. n = Count
  <2>1. Cardinality(1 .. Count) = Count
    BY <1>2, FS_Interval
  <2>2. QED
    BY <1>1, <1>3, <2>1
<1>5. \A k \in 1 .. Count : Nth(places, k) = k
  BY <1>2, <1>3, NthAll
<1>6. /\ Len(file.elements) = Count
      /\ file.elements = [k \in 1 .. Count |-> [Type  |-> element[mArrayElements[Nth(places, k)]].Type,
                                                Index |-> element[mArrayElements[Nth(places, k)]].Index]]
      /\ \E lines, S : /\ lines = [k \in 1 .. Count |-> LineOf(mArrayElements[Nth(places, k)])]
                       /\ S = {k \in 1 .. Count : lines[k].to # <<>>}
                       /\ file.links = AtPlaces(lines, S)
  BY <1>1, <1>4 DEF WrittenAs
<1>7. \A k \in 1 .. Count : /\ file.elements[k].Type = element[mArrayElements[k]].Type
                            /\ file.elements[k].Index = element[mArrayElements[k]].Index
  BY <1>5, <1>6
<1>8. \A k \in 1 .. Count : /\ file.elements[k].Type \in Simulated
                            /\ file.elements[k].Index + 1 = k
  <2> SUFFICES ASSUME NEW k \in 1 .. Count
               PROVE  file.elements[k].Type \in Simulated /\ file.elements[k].Index + 1 = k
    OBVIOUS
  <2>1. element[mArrayElements[k]].Index = k - 1 /\ k \in Nat
    BY PlaceOfIndex
  <2>2. element[mArrayElements[k]].Type \in Simulated
    BY <1>2
  <2>3. QED
    BY <1>7, <2>1, <2>2
<1>9. PICK lines, S : /\ lines = [k \in 1 .. Count |-> LineOf(mArrayElements[Nth(places, k)])]
                      /\ S = {k \in 1 .. Count : lines[k].to # <<>>}
                      /\ file.links = AtPlaces(lines, S)
  BY <1>6
<1>10. \A k \in 1 .. Count : lines[k] = LineOf(mArrayElements[k])
  BY <1>5, <1>9
<1>11. /\ S \in SUBSET Nat /\ S \in SUBSET (1 .. Count) /\ IsFiniteSet(S)
  <2>1. S \in SUBSET Nat /\ S \in SUBSET (1 .. Count)
    BY <1>9
  <2>2. IsFiniteSet(1 .. Count)
    BY <1>2, FS_Interval
  <2>3. QED
    BY <2>1, <2>2, FS_Subset
<1>12. ASSUME NEW m \in DOMAIN file.links
       PROVE  \E p \in 1 .. Count : file.links[m] = LineOf(mArrayElements[p])
  <2>0. /\ DOMAIN AtPlaces(lines, S) = 1 .. Cardinality(S)
        /\ \A k \in 1 .. Cardinality(S) : AtPlaces(lines, S)[k] = lines[Nth(S, k)]
    BY <1>11, AtPlacesFacts
  <2>1. m \in 1 .. Cardinality(S) /\ file.links[m] = lines[Nth(S, m)]
    BY <1>9, <2>0
  <2>2. Nth(S, m) \in S
    BY <1>11, <2>1, NthFacts
  <2>3. QED
    BY <1>10, <1>11, <2>1, <2>2
<1>13. ASSUME NEW p \in 1 .. Count, NEW k \in DOMAIN LineOf(mArrayElements[p]).to
       PROVE  ~(LineOf(mArrayElements[p]).to[k].index >= Count)
  <2>1. PICK x : x = mArrayElements[p]
    OBVIOUS
  <2>2. k \in DOMAIN element[x].links /\ LineOf(x).to[k].index = element[element[x].links[k].to].Index
    BY <2>1 DEF LineOf
  <2>3. LeadsInside(x)
    BY <2>1, Targets
  <2>4. PICK q \in 1 .. Count : element[element[x].links[k].to].Index = q - 1
    BY <2>2, <2>3 DEF LeadsInside
  <2>5. LineOf(x).to[k].index = q - 1
    BY <2>2, <2>4
  <2>6. ~(q - 1 >= Count)
    BY <1>2
  <2>7. QED
    BY <2>1, <2>5, <2>6
<1>14. FileFits(file)
  <2>1. ASSUME NEW m \in DOMAIN file.links, NEW k \in DOMAIN file.links[m].to
        PROVE  ~(file.links[m].to[k].index >= Len(file.elements))
    <3>1. PICK p \in 1 .. Count : file.links[m] = LineOf(mArrayElements[p])
      BY <1>12
    <3>2. QED
      BY <1>6, <1>13, <2>1, <3>1
  <2>2. QED
    BY <1>6, <1>8, <2>1 DEF FileFits
<1>15. DOMAIN Those(Simulated) = 1 .. Count
  BY <1>1, <1>4, Kinds
<1>16. ASSUME NEW m \in DOMAIN file.links PROVE ~(file.links[m].from >= Len(file.elements))
  <2>1. PICK p \in 1 .. Count : file.links[m] = LineOf(mArrayElements[p])
    BY <1>12
  <2>2. LineOf(mArrayElements[p]).from = p - 1
    BY PlaceOfIndex DEF LineOf
  <2>3. ~(p - 1 >= Count)
    BY <1>2
  <2>4. QED
    BY <1>6, <2>1, <2>2, <2>3
<1>17. QED
  BY <1>1, <1>6, <1>8, <1>14, <1>15, <1>16 DEF SimulatedFile

-----------------------------------------------------------------------------
(* What the editing commands do to the array.                              *)

\* One more object, at the end.
InsertedAs(x, type) ==
  /\ x \in Elements /\ x \notin InDocument
  /\ Count' = Count + 1 /\ mArrayElements'[Count + 1] = x
  /\ \A n \in 1 .. Count : mArrayElements'[n] = mArrayElements[n]
  /\ element'[x].Type = type
  /\ \A y \in Elements : y # x => element'[y] = element[y]

LEMMA Inserted ==
  ASSUME DocumentType, NEW type, InsertElement(type)
  PROVE  InsertedAs(mArrayElements'[Count + 1], type)
<1>1. PICK x : x = CHOOSE z \in Elements : z \notin InDocument
  OBVIOUS
<1>2. /\ Count < MaxElements /\ mArrayElements' = Append(mArrayElements, x)
      /\ element' = [element EXCEPT ![x] = NewElement(type, Count)]
  BY <1>1 DEF InsertElement
<1>3. x \in Elements /\ x \notin InDocument
  BY <1>1, <1>2, ObjectLeft
<1>4. mArrayElements \in Seq(Elements) /\ element \in [Elements -> ElementRecords] /\ Count \in Nat
  BY Places DEF DocumentType
<1>5. /\ Len(mArrayElements') = Count + 1 /\ mArrayElements'[Count + 1] = x
      /\ \A n \in 1 .. Count : mArrayElements'[n] = mArrayElements[n]
  BY <1>2, <1>3, <1>4 DEF Count
<1>6. element'[x].Type = type /\ \A y \in Elements : y # x => element'[y] = element[y]
  BY <1>2, <1>3, <1>4 DEF NewElement
<1>7. QED
  BY <1>3, <1>5, <1>6 DEF InsertedAs, Count

\* One less, those behind it a place further to the front.
DeletedAs(i) ==
  /\ i \in 1 .. Count /\ Count' = Count - 1
  /\ \A n \in 1 .. (Count - 1) : mArrayElements'[n] = mArrayElements[IF n < i THEN n ELSE n + 1]
  /\ \A y \in Elements : y # mArrayElements[i] => element'[y].Type = element[y].Type

LEMMA Deleted ==
  ASSUME DocumentType, NEW i \in Indices, OnDeleteitem(i)
  PROVE  DeletedAs(i + 1)
<1>1. PICK x : x = GetItemData(i)
  OBVIOUS
<1> DEFINE Later(y) == \E j \in Indices : j > i /\ GetItemData(j) = y
           Stands(y)  == CHOOSE j \in Indices : GetItemData(j) = y
           OneUp(y)  == IF Later(y) THEN Stands(y) - 1 ELSE element[y].Index
<1>2. mArrayElements' = [n \in 1 .. (Count - 1) |-> GetItemData(IF n <= i THEN n - 1 ELSE n)]
  BY DEF OnDeleteitem
<1>3. element' = [y \in Elements |->
           IF y = x THEN Freed
           ELSE [element[y] EXCEPT !.links = Unlink(@, x), !.Index = OneUp(y)]]
  BY <1>1 DEF OnDeleteitem
<1> HIDE DEF OneUp, Later, Stands
<1>4. Count \in Nat /\ Indices = 0 .. (Count - 1) /\ element \in [Elements -> ElementRecords]
  BY Places DEF DocumentType
<1>5. i \in Nat /\ i + 1 \in 1 .. Count /\ x = mArrayElements[i + 1] /\ Count - 1 \in Nat
  BY <1>1, <1>4 DEF GetItemData
<1>6. Count' = Count - 1
  <2>1. Len(mArrayElements') = Count - 1
    BY <1>2, <1>5
  <2>2. QED
    BY <2>1 DEF Count
<1>7. ASSUME NEW n \in 1 .. (Count - 1)
      PROVE  mArrayElements'[n] = mArrayElements[IF n < i + 1 THEN n ELSE n + 1]
  <2>1. mArrayElements'[n] = mArrayElements[(IF n <= i THEN n - 1 ELSE n) + 1]
    BY <1>2 DEF GetItemData
  <2>2. (IF n <= i THEN n - 1 ELSE n) + 1 = IF n < i + 1 THEN n ELSE n + 1
    BY <1>5
  <2>3. QED
    BY <2>1, <2>2
<1>8. ASSUME NEW y \in Elements, y # x PROVE element'[y].Type = element[y].Type
  <2>1. element'[y] = [element[y] EXCEPT !.links = Unlink(@, x), !.Index = OneUp(y)]
    BY <1>3, <1>8
  <2>2. element[y] \in ElementRecords
    BY <1>4
  <2>3. QED
    BY <2>1, <2>2 DEF ElementRecords
<1>9. QED
  BY <1>5, <1>6, <1>7, <1>8 DEF DeletedAs

\* A link changes no element but in its links.
LEMMA Linked ==
  ASSUME DocumentType, NEW i, NEW j, NEW ci, NEW cj, ValidateLink(i, j, ci, cj)
  PROVE  /\ mArrayElements' = mArrayElements
         /\ \A z \in Elements : element'[z].Type = element[z].Type /\ element'[z].Index = element[z].Index
<1>1. PICK x, y : /\ x = GetItemData(i) /\ y = GetItemData(j)
                  /\ element' = [element EXCEPT ![x] = Joined(x, y, cj), ![y] = Joined(y, x, ci)]
                  /\ mArrayElements' = mArrayElements
  BY DEF ValidateLink
<1>2. element \in [Elements -> ElementRecords]
  BY DEF DocumentType
<1>3. ASSUME NEW z \in Elements
      PROVE  element'[z].Type = element[z].Type /\ element'[z].Index = element[z].Index
  <2>1. element[z] \in ElementRecords
    BY <1>2
  <2>2. /\ z # x /\ z # y => element'[z] = element[z]
        /\ z = x /\ z # y => element'[z] = Joined(z, y, cj)
        /\ z = y => element'[z] = Joined(z, x, ci)
    BY <1>1, <1>2
  <2>3. \A w, c : Joined(z, w, c).Type = element[z].Type /\ Joined(z, w, c).Index = element[z].Index
    BY <2>1 DEF Joined, ElementRecords
  <2>4. QED
    BY <2>2, <2>3
<1>4. QED
  BY <1>1, <1>3

LEMMA LinkValidated ==
  ASSUME NEW i, NEW j, Link(i, j)
  PROVE  \E ci, cj \in Connectors : ValidateLink(i, j, ci, cj)
<1>1. PICK sides : /\ sides \in {NatConnectDlg, {<<"ePublic", "ePublic">>}}
                   /\ \E side \in sides : ValidateLink(i, j, side[1], side[2])
  <2>1. PICK c : c = (IsNAT(GetItemData(i)) /\ IsNAT(GetItemData(j)))
    OBVIOUS
  <2>2. \E side \in IF c THEN NatConnectDlg ELSE {<<"ePublic", "ePublic">>} :
          ValidateLink(i, j, side[1], side[2])
    BY <2>1 DEF Link
  <2>3. QED
    BY <2>2
<1>2. PICK side \in sides : ValidateLink(i, j, side[1], side[2])
  BY <1>1
<1>3. side[1] \in Connectors /\ side[2] \in Connectors
  BY <1>1, <1>2 DEF NatConnectDlg, Connectors
<1>4. QED
  BY <1>2, <1>3

-----------------------------------------------------------------------------
(* The steps of the document and its file.                                 *)

\* The entries of the array after a step.
LEMMA EntriesAfter ==
  ASSUME Count' \in Nat
  PROVE  \A y \in InDocument' : \E n \in 1 .. Count' : y = mArrayElements'[n]
<1>1. Len(mArrayElements') \in Nat /\ Len(mArrayElements') = Count'
  BY DEF Count
<1>2. InDocument' = {mArrayElements'[n] : n \in 1 .. Len(mArrayElements')}
  BY <1>1, EntriesNext
<1>3. QED
  BY <1>1, <1>2

LEMMA InsertSimulated ==
  ASSUME SimulatedInv, NEW type \in Types, InsertElement(type), saved' = saved
  PROVE  SimulatedInv'
<1>1. DocInv' /\ DocumentType
  BY InsertFits DEF SimulatedInv, DocInv
<1>2. ~skewed' /\ ~asserted' /\ disk' = disk
  BY DEF InsertElement, Editing, SimulatedInv
<1>3. Fits'
  BY <1>1, <1>2 DEF DocInv
<1>4. PICK x : x = mArrayElements'[Count + 1] /\ InsertedAs(x, type)
  BY <1>1, Inserted
<1>5. type \in Simulated
  BY EditorAssumption
<1>6. ASSUME NEW y \in InDocument' PROVE element'[y].Type \in Simulated
  <2>1. Count \in Nat /\ Count' = Count + 1
    BY <1>1, <1>4, Places DEF InsertedAs
  <2>2. PICK n \in 1 .. Count + 1 : y = mArrayElements'[n]
    BY <2>1, EntriesAfter
  <2>3. CASE n = Count + 1
    BY <1>4, <1>5, <2>2, <2>3 DEF InsertedAs
  <2>4. CASE n # Count + 1
    <3>1. n \in 1 .. Count /\ y = mArrayElements[n]
      BY <1>4, <2>1, <2>2, <2>4 DEF InsertedAs
    <3>2. y \in InDocument /\ y \in Elements
      BY <1>1, <3>1, Places
    <3>3. element'[y] = element[y]
      BY <1>4, <3>2 DEF InsertedAs
    <3>4. QED
      BY <3>2, <3>3 DEF SimulatedInv
  <2>5. QED
    BY <2>3, <2>4
<1>7. QED
  BY <1>1, <1>2, <1>3, <1>6 DEF SimulatedInv

LEMMA DeleteSimulated ==
  ASSUME SimulatedInv, NEW i \in Indices, OnDeleteitem(i), saved' = saved
  PROVE  SimulatedInv'
<1>1. DocInv' /\ DocumentType /\ Fits
  BY DeleteFits DEF SimulatedInv, DocInv
<1>2. ~skewed' /\ ~asserted' /\ disk' = disk
  BY DEF OnDeleteitem, Editing, SimulatedInv
<1>3. Fits'
  BY <1>1, <1>2 DEF DocInv
<1>4. PICK p : p = i + 1 /\ DeletedAs(p)
  BY <1>1, Deleted
<1>5. Count \in Nat /\ p \in 1 .. Count /\ Count' = Count - 1
  BY <1>1, <1>4, Places DEF DeletedAs
<1>6. ASSUME NEW y \in InDocument' PROVE element'[y].Type \in Simulated
  <2>1. PICK n \in 1 .. (Count - 1) : y = mArrayElements'[n]
    BY <1>5, EntriesAfter
  <2>2. PICK m : m = IF n < p THEN n ELSE n + 1
    OBVIOUS
  <2>3. m \in 1 .. Count /\ m # p
    BY <1>5, <2>2
  <2>4. y = mArrayElements[m]
    BY <1>4, <2>1, <2>2 DEF DeletedAs
  <2>5. y \in InDocument /\ y \in Elements /\ y # mArrayElements[p]
    BY <1>1, <1>5, <2>3, <2>4, Places, PlaceOfIndex
  <2>6. QED
    BY <1>4, <2>5 DEF DeletedAs, SimulatedInv
<1>7. QED
  BY <1>1, <1>2, <1>3, <1>6 DEF SimulatedInv

LEMMA LinkSimulated ==
  ASSUME SimulatedInv, NEW i \in Indices, NEW j \in Indices, NEW ci \in Connectors, NEW cj \in Connectors,
         ValidateLink(i, j, ci, cj), saved' = saved
  PROVE  SimulatedInv'
<1>1. DocInv' /\ DocumentType
  BY LinkFits DEF SimulatedInv, DocInv
<1>2. ~skewed' /\ ~asserted' /\ disk' = disk
  BY DEF ValidateLink, Editing, SimulatedInv
<1>3. Fits'
  BY <1>1, <1>2 DEF DocInv
<1>4. /\ mArrayElements' = mArrayElements
      /\ \A z \in Elements : element'[z].Type = element[z].Type
  BY <1>1, Linked
<1>5. InDocument' = InDocument /\ InDocument \subseteq Elements
  BY <1>1, <1>4, Places DEF InDocument, Indices, Count, GetItemData
<1>6. QED
  BY <1>1, <1>2, <1>3, <1>4, <1>5 DEF SimulatedInv

\* A document is saved as it is, or not at all.
LEMMA CloseSimulated ==
  ASSUME SimulatedInv, NEW saving \in BOOLEAN, CloseDocument(saving)
  PROVE  SimulatedInv'
<1>1. PICK file : file = IF saving THEN WriteDocument ELSE disk
  OBVIOUS
<1>2. OnCloseDocument(file) /\ file \in {disk, WriteDocument}
  BY <1>1 DEF CloseDocument
<1>3. DocInv' /\ DocumentType /\ Fits
  BY <1>2, CloseFits DEF SimulatedInv, DocInv
<1>4. ~skewed' /\ ~asserted' /\ disk' = file /\ mArrayElements' = <<>>
  BY <1>2 DEF OnCloseDocument, Editing, SimulatedInv
<1>5. Fits'
  BY <1>3, <1>4 DEF DocInv
<1>6. InDocument' = {}
  BY <1>4 DEF InDocument, Indices, Count
<1>7. SimulatedFile(file) /\ DOMAIN saved' = 1 .. Len(file.elements)
  <2>1. CASE saving
    <3>1. SimulatedFile(WriteDocument) /\ DOMAIN Those(Simulated) = 1 .. Len(WriteDocument.elements)
      BY <1>3, WrittenFits DEF SimulatedInv
    <3>2. saved' = [n \in DOMAIN Those(Simulated) |-> WriteElement(Those(Simulated)[n])]
      BY <2>1 DEF CloseDocument
    <3>3. QED
      BY <1>1, <2>1, <3>1, <3>2
  <2>2. CASE ~saving
    <3>1. saved' = saved /\ file = disk
      BY <1>1, <2>2 DEF CloseDocument
    <3>2. QED
      BY <3>1 DEF SimulatedInv
  <2>3. QED
    BY <2>1, <2>2
<1>8. SimulatedFile(disk)'
  BY <1>4, <1>7 DEF SimulatedFile, FileFits
<1>9. QED
  BY <1>3, <1>4, <1>5, <1>6, <1>7, <1>8 DEF SimulatedInv

\* No document is on the disk.
LEMMA EmptyFile ==
  ASSUME disk' = NoDocument, saved' = <<>>
  PROVE  SimulatedFile(disk)' /\ DOMAIN saved' = 1 .. Len(disk'.elements)
<1>1. disk'.elements = <<>> /\ disk'.links = <<>>
  BY DEF NoDocument
<1>2. QED
  BY <1>1 DEF SimulatedFile, FileFits

LEMMA NewSimulated ==
  ASSUME SimulatedInv, NewDocument
  PROVE  SimulatedInv'
<1>1. DocInv' /\ SimulatedFile(disk)' /\ DOMAIN saved' = 1 .. Len(disk'.elements)
  <2>1. disk' = NoDocument /\ saved' = <<>>
    BY DEF NewDocument, OnNewDocument
  <2>2. QED
    BY <2>1, NewFits, EmptyFile DEF SimulatedInv, NewDocument
<1>2. UNCHANGED <<mArrayElements, element, skewed, asserted>> /\ ~asserted
  BY DEF NewDocument, OnNewDocument
<1>3. ~skewed' /\ Fits'
  BY <1>1, <1>2 DEF SimulatedInv, DocInv
<1>4. \A x \in InDocument' : element'[x].Type \in Simulated
  BY <1>2 DEF SimulatedInv, InDocument, Indices, Count, GetItemData
<1>5. QED
  BY <1>1, <1>3, <1>4 DEF SimulatedInv

\* What is opened fits: nothing is asserted, and no index is wrong.
OpenedAs(m) ==
  /\ m \in Nat /\ m = Len(disk.elements) /\ DOMAIN saved = 1 .. m
  /\ ~skewed' /\ ~asserted'
  /\ Count' = m /\ mArrayElements' = [p \in 1 .. m |-> p]
  /\ \A p \in 1 .. m : p \in Elements /\ element'[p].Type = disk.elements[p].Type
  /\ DOMAIN disk.elements = 1 .. m

LEMMA Opened ==
  ASSUME SimulatedInv, OnOpenDocument
  PROVE  OpenedAs(Len(disk.elements))
<1>1. PICK m : m = Len(disk.elements)
  OBVIOUS
<1>2. FileInv(disk) /\ FileFits(disk) /\ DOMAIN saved = 1 .. m
  BY <1>1 DEF SimulatedInv, DocInv, SimulatedFile
<1>3. disk.elements \in Seq([Type : ElementTypes, Index : Nat]) /\ m <= MaxElements
  BY <1>1, <1>2 DEF FileInv
<1>4. m \in Nat /\ DOMAIN disk.elements = 1 .. m
  BY <1>1, <1>3
<1>5. /\ asserted' = (\E index \in Mentioned : index >= m)
      /\ skewed' = (\E p \in 1 .. m : disk.elements[p].Index + 1 # p)
      /\ mArrayElements' = [p \in 1 .. m |-> p]
      /\ element' = [x \in Elements |->
           IF x > m THEN Freed
           ELSE [Type |-> disk.elements[x].Type, Index |-> disk.elements[x].Index,
                 links |-> ReadLinks(disk.links, x)]]
  BY <1>1 DEF OnOpenDocument
<1>6. \A p \in 1 .. m : p \in Elements /\ ~(p > m)
  BY <1>3, <1>4, TopologyAssumption DEF Elements
<1>7. \A p \in 1 .. m : element'[p].Type = disk.elements[p].Type
  BY <1>5, <1>6
<1>8. ~skewed'
  BY <1>1, <1>2, <1>5 DEF FileFits
<1>9. ~asserted'
  <2>1. \A n \in DOMAIN disk.links : /\ n \in DOMAIN disk.links
                                     /\ \A k \in DOMAIN disk.links[n].to : ~(disk.links[n].to[k].index >= m)
    BY <1>1, <1>2 DEF FileFits
  <2>2. ASSUME NEW n \in DOMAIN disk.links PROVE ~(disk.links[n].from >= m)
    BY <1>1 DEF SimulatedInv, SimulatedFile
  <2>3. QED
    BY <1>5, <2>1, <2>2 DEF Mentioned
<1>10. Count' = m
  <2>1. Len(mArrayElements') = m
    BY <1>4, <1>5
  <2>2. QED
    BY <2>1 DEF Count
<1>11. QED
  BY <1>1, <1>2, <1>4, <1>5, <1>6, <1>7, <1>8, <1>9, <1>10 DEF OpenedAs

LEMMA OpenSimulated ==
  ASSUME SimulatedInv, OpenDocument
  PROVE  SimulatedInv'
<1>1. OnOpenDocument /\ disk' = NoDocument /\ saved' = <<>>
  BY DEF OpenDocument, OnOpenDocument
<1>2. DocInv' /\ SimulatedFile(disk)' /\ DOMAIN saved' = 1 .. Len(disk'.elements)
  BY <1>1, OpenFits, EmptyFile DEF SimulatedInv
<1>3. PICK m : OpenedAs(m)
  BY <1>1, Opened
<1>4. ~skewed' /\ Fits'
  BY <1>2, <1>3 DEF DocInv, OpenedAs
<1>5. ASSUME NEW y \in InDocument' PROVE element'[y].Type \in Simulated
  <2>1. PICK n \in 1 .. m : y = mArrayElements'[n]
    BY <1>3, EntriesAfter DEF OpenedAs
  <2>2. y = n /\ element'[y].Type = disk.elements[n].Type
    BY <1>3, <2>1 DEF OpenedAs
  <2>3. disk.elements[n].Type \in Simulated
    BY <1>3, <2>1 DEF OpenedAs, SimulatedInv, SimulatedFile
  <2>4. QED
    BY <2>2, <2>3
<1>6. QED
  BY <1>2, <1>4, <1>5 DEF SimulatedInv

\* What leaves the document alone, whether it asserts or not.
LEMMA ReadOnlySimulated ==
  ASSUME SimulatedInv, UNCHANGED <<mArrayElements, element, disk, skewed, saved>>
  PROVE  SimulatedInv'
<1>1. /\ DocumentType' = DocumentType /\ Fits' = Fits
  BY DEF DocumentType, Fits, Count, InDocument, Indices, GetItemData, LinkedTo, Links
<1>2. DocInv'
  BY <1>1 DEF SimulatedInv, DocInv
<1>3. SimulatedFile(disk)'
  BY DEF SimulatedInv, SimulatedFile, FileFits
<1>4. \A x \in InDocument' : element'[x].Type \in Simulated
  BY DEF SimulatedInv, InDocument, Indices, Count, GetItemData
<1>5. QED
  BY <1>1, <1>2, <1>3, <1>4 DEF SimulatedInv

-----------------------------------------------------------------------------
(* The canvas.                                                             *)

\* An item that shows an element of a type with its contents.
Shows(item, type, d) ==
  /\ item = [text |-> item.text, image |-> item.image, marked |-> item.marked, checked |-> item.checked]
  /\ item.text = Name(type, d) /\ item.image = type

\* An item for each element, at its place.
Mirror ==
  /\ data = [x \in Elements |-> data[x]]
  /\ IsList(mListCtrlCanvas, Count)
  /\ \A n \in 1 .. Count :
       Shows(mListCtrlCanvas[n], element[mArrayElements[n]].Type, data[mArrayElements[n]])

\* What the handlers do to an item.
LEMMA NewShows ==
  ASSUME NEW type, NEW d
  PROVE  Shows(NewItem(type, d), type, d)
BY DEF Shows, NewItem

LEMMA StillShows ==
  ASSUME NEW item, NEW type, NEW d, Shows(item, type, d)
  PROVE  /\ \A e : Shows([item EXCEPT !.text = Name(type, e)], type, e)
         /\ \A check : Shows([item EXCEPT !.checked = check], type, d)
         /\ \A mark : Shows([item EXCEPT !.image = type, !.marked = mark], type, d)
<1>1. item = [text |-> item.text, image |-> item.image, marked |-> item.marked, checked |-> item.checked]
  BY DEF Shows
<1>2. PICK t, i, m, c : item = [text |-> t, image |-> i, marked |-> m, checked |-> c]
  BY <1>1
<1>3. t = Name(type, d) /\ i = type
  BY <1>2 DEF Shows
<1>4. ASSUME NEW e PROVE Shows([item EXCEPT !.text = Name(type, e)], type, e)
  <2>1. [item EXCEPT !.text = Name(type, e)] = [text |-> Name(type, e), image |-> i, marked |-> m, checked |-> c]
    BY <1>2
  <2>2. QED
    BY <1>3, <2>1 DEF Shows
<1>5. ASSUME NEW check PROVE Shows([item EXCEPT !.checked = check], type, d)
  <2>1. [item EXCEPT !.checked = check] = [text |-> t, image |-> i, marked |-> m, checked |-> check]
    BY <1>2
  <2>2. QED
    BY <1>3, <2>1 DEF Shows
<1>6. ASSUME NEW mark PROVE Shows([item EXCEPT !.image = type, !.marked = mark], type, d)
  <2>1. [item EXCEPT !.image = type, !.marked = mark] =
          [text |-> t, image |-> type, marked |-> mark, checked |-> c]
    <3>1. PICK other : other = [item EXCEPT !.image = type]
      OBVIOUS
    <3>2. other = [text |-> t, image |-> type, marked |-> m, checked |-> c]
      BY <1>2, <3>1
    <3>3. [other EXCEPT !.marked = mark] = [text |-> t, image |-> type, marked |-> mark, checked |-> c]
      BY <3>2
    <3>4. [item EXCEPT !.image = type, !.marked = mark] = [other EXCEPT !.marked = mark]
      BY <3>1, Zenon
    <3>5. QED
      BY <3>3, <3>4
  <2>2. QED
    BY <1>3, <2>1 DEF Shows
<1>7. QED
  BY <1>4, <1>5, <1>6

\* A step that leaves the elements as they are in all the canvas shows.
LEMMA SameMirror ==
  ASSUME DocumentType, Mirror, mArrayElements' = mArrayElements,
         \A x \in Elements : element'[x].Type = element[x].Type,
         data' = data, mListCtrlCanvas' = mListCtrlCanvas
  PROVE  Mirror'
<1>1. Count' = Count /\ \A n \in 1 .. Count : mArrayElements[n] \in Elements
  BY Places DEF Count
<1>2. IsList(mListCtrlCanvas', Count')
  BY <1>1 DEF Mirror
<1>3. ASSUME NEW n \in 1 .. Count
      PROVE  Shows(mListCtrlCanvas'[n], element'[mArrayElements'[n]].Type, data'[mArrayElements'[n]])
  <2>1. Shows(mListCtrlCanvas[n], element[mArrayElements[n]].Type, data[mArrayElements[n]])
    BY DEF Mirror
  <2>2. element'[mArrayElements[n]].Type = element[mArrayElements[n]].Type
    BY <1>1
  <2>3. QED
    BY <2>1, <2>2
<1>4. QED
  BY <1>1, <1>2, <1>3 DEF Mirror

\* A dialog, or a link, gives an element other contents, and its item their text.
LEMMA EditMirror ==
  ASSUME DocumentType, Fits, Mirror, NEW q \in 1 .. Count, NEW d,
         mArrayElements' = mArrayElements,
         \A x \in Elements : element'[x].Type = element[x].Type,
         data' = [data EXCEPT ![mArrayElements[q]] = d],
         mListCtrlCanvas' = [mListCtrlCanvas EXCEPT
           ![q].text = Name(element[mArrayElements[q]].Type, d)]
  PROVE  Mirror'
<1>1. /\ Count' = Count /\ Count \in Nat
      /\ \A n \in 1 .. Count : mArrayElements[n] \in Elements
      /\ \A n \in 1 .. Count : mArrayElements[n] = mArrayElements[q] => n = q
  BY Places, PlaceOfIndex DEF Count
<1>2. PICK y, type : y = mArrayElements[q] /\ type = element[y].Type
  OBVIOUS
<1>3. DOMAIN mListCtrlCanvas = 1 .. Count
  BY Places, ListFacts DEF Mirror
<1>4. IsList(mListCtrlCanvas', Count')
  BY <1>1, <1>3 DEF IsList
<1>5. data' = [x \in Elements |-> data'[x]]
  BY DEF Mirror
<1>6. /\ data'[y] = d /\ \A x \in Elements : x # y => data'[x] = data[x]
      /\ mListCtrlCanvas'[q] = [mListCtrlCanvas[q] EXCEPT !.text = Name(type, d)]
      /\ \A n \in 1 .. Count : n # q => mListCtrlCanvas'[n] = mListCtrlCanvas[n]
  BY <1>1, <1>2, <1>3 DEF Mirror
<1>7. ASSUME NEW n \in 1 .. Count
      PROVE  Shows(mListCtrlCanvas'[n], element'[mArrayElements'[n]].Type, data'[mArrayElements'[n]])
  <2>1. Shows(mListCtrlCanvas[n], element[mArrayElements[n]].Type, data[mArrayElements[n]])
    BY DEF Mirror
  <2>2. element'[mArrayElements[n]].Type = element[mArrayElements[n]].Type
    BY <1>1
  <2>3. CASE n = q
    <3>1. Shows(mListCtrlCanvas[q], type, data[y])
      BY <1>2, <2>1, <2>3
    <3>2. Shows([mListCtrlCanvas[q] EXCEPT !.text = Name(type, d)], type, d)
      BY <3>1, StillShows
    <3>3. QED
      BY <1>2, <1>6, <2>2, <2>3, <3>2
  <2>4. CASE n # q
    <3>1. mListCtrlCanvas'[n] = mListCtrlCanvas[n] /\ data'[mArrayElements[n]] = data[mArrayElements[n]]
      BY <1>1, <1>2, <1>6, <2>4
    <3>2. QED
      BY <2>1, <2>2, <3>1
  <2>5. QED
    BY <2>3, <2>4
<1>8. QED
  BY <1>1, <1>4, <1>5, <1>7 DEF Mirror

\* Marks and checks are not what the canvas mirrors.
LEMMA MarkMirror ==
  ASSUME DocumentType, Mirror, UNCHANGED <<mArrayElements, element, data>>,
         DOMAIN mListCtrlCanvas' = DOMAIN mListCtrlCanvas,
         mListCtrlCanvas' = [n \in DOMAIN mListCtrlCanvas |-> mListCtrlCanvas'[n]],
         \A n \in 1 .. Count :
           \/ mListCtrlCanvas'[n] = mListCtrlCanvas[n]
           \/ \E check : mListCtrlCanvas'[n] = [mListCtrlCanvas[n] EXCEPT !.checked = check]
           \/ \E mark : mListCtrlCanvas'[n] =
                [mListCtrlCanvas[n] EXCEPT !.image = element[mArrayElements[n]].Type, !.marked = mark]
  PROVE  Mirror'
<1>1. Count' = Count /\ DOMAIN mListCtrlCanvas = 1 .. Count /\ Count \in Nat
  BY Places, ListFacts DEF Mirror, Count, IsList
<1>2. IsList(mListCtrlCanvas', Count')
  BY <1>1 DEF IsList
<1>3. ASSUME NEW n \in 1 .. Count
      PROVE  Shows(mListCtrlCanvas'[n], element[mArrayElements[n]].Type, data[mArrayElements[n]])
  <2>1. PICK item, type, d : /\ item = mListCtrlCanvas[n] /\ type = element[mArrayElements[n]].Type
                             /\ d = data[mArrayElements[n]]
    OBVIOUS
  <2>2. Shows(item, type, d)
    BY <2>1 DEF Mirror
  <2>3. /\ \A check : Shows([item EXCEPT !.checked = check], type, d)
        /\ \A mark : Shows([item EXCEPT !.image = type, !.marked = mark], type, d)
    BY <2>2, StillShows
  <2>4. QED
    BY <2>1, <2>2, <2>3
<1>4. QED
  BY <1>1, <1>2, <1>3 DEF Mirror

-----------------------------------------------------------------------------
(* The steps of the editor.                                                *)

\* The element at an index is the one at the place behind it.
LEMMA PlaceOf ==
  ASSUME DocumentType, NEW i \in Indices
  PROVE  /\ i + 1 \in 1 .. Count /\ GetItemData(i) = mArrayElements[i + 1]
         /\ GetItemData(i) \in Elements /\ GetItemData(i) \in InDocument
<1>1. /\ Count \in Nat /\ Indices = 0 .. (Count - 1)
      /\ \A n \in 1 .. Count : mArrayElements[n] \in InDocument /\ mArrayElements[n] \in Elements
  BY Places
<1>2. i + 1 \in 1 .. Count /\ GetItemData(i) = mArrayElements[i + 1]
  BY <1>1 DEF GetItemData
<1>3. QED
  BY <1>1, <1>2

\* A new item at the end for the new element.
LEMMA DragMirror ==
  ASSUME SimulatedInv, Mirror, NEW type \in Types, NEW dropped \in BOOLEAN, DragElement(type, dropped)
  PROVE  SimulatedInv' /\ Mirror'
<1>0. DocumentType /\ Count \in Nat
  BY Places DEF SimulatedInv, DocInv
<1>1. saved' = saved /\ OnLButtonUp(type, dropped)
  BY DEF DragElement
<1>2. CASE ~dropped
  <2>1. UNCHANGED <<topoVars, data, mListCtrlCanvas>>
    BY <1>1, <1>2 DEF OnLButtonUp
  <2>2. UNCHANGED <<mArrayElements, element, disk, skewed, asserted>>
    BY <2>1 DEF topoVars, docVars
  <2>3. QED
    BY <1>0, <1>1, <2>1, <2>2, ReadOnlySimulated, SameMirror
<1>3. CASE dropped
  <2>1. PICK d : d = NextElement(type)
    OBVIOUS
  <2>2. PICK x : x = mArrayElements'[Count + 1]
    OBVIOUS
  <2>3. /\ InsertElement(type)
        /\ data' = [data EXCEPT ![x] = d]
        /\ mListCtrlCanvas' = Append(mListCtrlCanvas, NewItem(type, d))
    <3>1. OnLButtonUp(type, TRUE)
      BY <1>1, <1>3
    <3>2. \/ /\ InsertElement(type)
             /\ data' = [data EXCEPT ![x] = d]
             /\ mListCtrlCanvas' = Append(mListCtrlCanvas, NewItem(type, d))
          \/ FALSE
      BY <2>1, <2>2, <3>1 DEF OnLButtonUp
    <3>3. QED
      BY <3>2
  <2>4. SimulatedInv'
    BY <1>1, <2>3, InsertSimulated
  <2>5. InsertedAs(x, type)
    BY <1>0, <2>2, <2>3, Inserted
  <2>6. /\ IsList(mListCtrlCanvas', Count + 1)
        /\ mListCtrlCanvas'[Count + 1] = NewItem(type, d)
        /\ \A n \in 1 .. Count : mListCtrlCanvas'[n] = mListCtrlCanvas[n]
    <3>1. IsList(mListCtrlCanvas, Count)
      BY DEF Mirror
    <3>2. LongerBy(Append(mListCtrlCanvas, NewItem(type, d)), mListCtrlCanvas, Count, NewItem(type, d))
      BY <1>0, <3>1, ListAppend, Zenon
    <3>3. LongerBy(mListCtrlCanvas', mListCtrlCanvas, Count, NewItem(type, d))
      BY <2>3, <3>2
    <3>4. QED
      BY <3>3 DEF LongerBy
  <2>7. data' = [y \in Elements |-> data'[y]] /\ data'[x] = d
        /\ \A y \in Elements : y # x => data'[y] = data[y]
    BY <2>3, <2>5 DEF Mirror, InsertedAs
  <2>8. Count' = Count + 1
    BY <2>5 DEF InsertedAs
  <2>9. ASSUME NEW n \in 1 .. Count + 1
        PROVE  Shows(mListCtrlCanvas'[n], element'[mArrayElements'[n]].Type, data'[mArrayElements'[n]])
    <3>1. CASE n = Count + 1
      <4>1. Shows(NewItem(type, d), type, d)
        BY NewShows
      <4>2. mArrayElements'[n] = x /\ element'[x].Type = type
        BY <2>2, <2>5, <3>1 DEF InsertedAs
      <4>3. QED
        BY <2>6, <2>7, <3>1, <4>1, <4>2
    <3>2. CASE n # Count + 1
      <4>1. n \in 1 .. Count
        BY <1>0, <3>2
      <4>2. PICK y : y = mArrayElements[n]
        OBVIOUS
      <4>3. y \in InDocument /\ y \in Elements
        BY <1>0, <4>1, <4>2, Places
      <4>4. y # x /\ mArrayElements'[n] = y /\ element'[y] = element[y]
        BY <2>5, <4>1, <4>2, <4>3 DEF InsertedAs
      <4>5. Shows(mListCtrlCanvas[n], element[y].Type, data[y])
        BY <4>1, <4>2 DEF Mirror
      <4>6. QED
        BY <2>6, <2>7, <4>1, <4>3, <4>4, <4>5
    <3>3. QED
      BY <3>1, <3>2
  <2>10. Mirror'
    BY <2>6, <2>7, <2>8, <2>9 DEF Mirror
  <2>11. QED
    BY <2>4, <2>10
<1>4. QED
  BY <1>2, <1>3

\* The item of the element that is deleted goes with it.
LEMMA DeleteMirror ==
  ASSUME SimulatedInv, Mirror, NEW i \in Indices, DeleteItem(i)
  PROVE  SimulatedInv' /\ Mirror'
<1>0. DocumentType /\ Fits /\ Count \in Nat
  BY Places DEF SimulatedInv, DocInv
<1>1. PICK p, x : p = i + 1 /\ x = GetItemData(i)
  OBVIOUS
<1>2. /\ OnDeleteitem(i) /\ saved' = saved /\ data' = [data EXCEPT ![x] = NoData]
      /\ mListCtrlCanvas' = RemoveAt(mListCtrlCanvas, p)
  BY <1>1 DEF DeleteItem
<1>3. SimulatedInv'
  BY <1>2, DeleteSimulated
<1>4. DeletedAs(p) /\ p \in 1 .. Count /\ x = mArrayElements[p]
  BY <1>0, <1>1, <1>2, Deleted, PlaceOf
<1>5. /\ IsList(mListCtrlCanvas', Count - 1)
      /\ \A n \in 1 .. (Count - 1) :
           mListCtrlCanvas'[n] = mListCtrlCanvas[IF n < p THEN n ELSE n + 1]
  <2>1. IsList(mListCtrlCanvas, Count)
    BY DEF Mirror
  <2>2. QED
    BY <1>0, <1>2, <1>4, <2>1, ListRemove
<1>6. data' = [y \in Elements |-> data'[y]] /\ \A y \in Elements : y # x => data'[y] = data[y]
  BY <1>2 DEF Mirror
<1>7. Count' = Count - 1
  BY <1>4 DEF DeletedAs
<1>8. ASSUME NEW n \in 1 .. (Count - 1)
      PROVE  Shows(mListCtrlCanvas'[n], element'[mArrayElements'[n]].Type, data'[mArrayElements'[n]])
  <2>1. PICK m : m = IF n < p THEN n ELSE n + 1
    OBVIOUS
  <2>2. m \in 1 .. Count /\ m # p
    BY <1>0, <1>4, <2>1
  <2>3. PICK y : y = mArrayElements[m]
    OBVIOUS
  <2>4. y \in Elements /\ y # x
    BY <1>0, <1>4, <2>2, <2>3, Places, PlaceOfIndex
  <2>5. mListCtrlCanvas'[n] = mListCtrlCanvas[m] /\ mArrayElements'[n] = y
    BY <1>4, <1>5, <2>1, <2>3 DEF DeletedAs
  <2>6. element'[y].Type = element[y].Type /\ data'[y] = data[y]
    BY <1>4, <1>6, <2>4 DEF DeletedAs
  <2>7. Shows(mListCtrlCanvas[m], element[y].Type, data[y])
    BY <2>2, <2>3 DEF Mirror
  <2>8. QED
    BY <2>5, <2>6, <2>7
<1>9. Mirror'
  BY <1>5, <1>6, <1>7, <1>8 DEF Mirror
<1>10. QED
  BY <1>3, <1>9

\* A link of two NATs changes the address of the one at its end, and its text.
LEMMA LinkMirror ==
  ASSUME SimulatedInv, Mirror, NEW i \in Indices, NEW j \in Indices, Link(i, j)
  PROVE  SimulatedInv' /\ Mirror'
<1>0. DocumentType /\ Fits
  BY DEF SimulatedInv, DocInv
<1>1. PICK x, y : x = GetItemData(i) /\ y = GetItemData(j)
  OBVIOUS
<1>2. /\ saved' = saved
      /\ \/ IsNAT(x) /\ IsNAT(y) /\ LinkNATs(x, y)
         \/ UNCHANGED <<data, mListCtrlCanvas>>
  BY <1>1 DEF Link
<1>3. PICK ci \in Connectors, cj \in Connectors : ValidateLink(i, j, ci, cj)
  BY LinkValidated
<1>4. SimulatedInv'
  BY <1>2, <1>3, LinkSimulated
<1>5. /\ mArrayElements' = mArrayElements
      /\ \A z \in Elements : element'[z].Type = element[z].Type
  BY <1>0, <1>3, Linked
<1>6. CASE UNCHANGED <<data, mListCtrlCanvas>>
  BY <1>0, <1>4, <1>5, <1>6, SameMirror
<1>7. CASE IsNAT(x) /\ IsNAT(y) /\ LinkNATs(x, y)
  <2>1. PICK ip : /\ data' = [data EXCEPT ![y].IPsB = <<ip>>]
                  /\ mListCtrlCanvas' = [mListCtrlCanvas EXCEPT
                       ![element[y].Index + 1].text = Name("eNAT", data'[y])]
    BY <1>7 DEF LinkNATs
  <2>2. PICK q : q = j + 1
    OBVIOUS
  <2>3. q \in 1 .. Count /\ y = mArrayElements[q] /\ y \in Elements
    BY <1>0, <1>1, <2>2, PlaceOf
  <2>4. element[y].Index + 1 = q
    <3>1. element[mArrayElements[q]].Index = q - 1
      BY <1>0, <2>3, PlaceOfIndex
    <3>2. QED
      BY <2>3, <3>1
  <2>5. PICK d : d = [data[y] EXCEPT !.IPsB = <<ip>>]
    OBVIOUS
  <2>6. data' = [data EXCEPT ![y] = d] /\ data'[y] = d
    BY <2>1, <2>3, <2>5 DEF Mirror
  <2>7. mListCtrlCanvas' = [mListCtrlCanvas EXCEPT
           ![q].text = Name(element[mArrayElements[q]].Type, d)]
    BY <1>7, <2>1, <2>3, <2>4, <2>6 DEF IsNAT
  <2>8. Mirror'
    BY <1>0, <1>5, <2>3, <2>6, <2>7, EditMirror
  <2>9. QED
    BY <1>4, <2>8
<1>8. QED
  BY <1>2, <1>6, <1>7

\* A dialog changes the contents of an element, and its text.
LEMMA DialogMirror ==
  ASSUME SimulatedInv, Mirror, NEW i \in Indices, OnNMDblclkListCanvas(i)
  PROVE  SimulatedInv' /\ Mirror'
<1>0. DocumentType /\ Fits
  BY DEF SimulatedInv, DocInv
<1>1. PICK x, q : x = GetItemData(i) /\ q = i + 1
  OBVIOUS
<1>2. q \in 1 .. Count /\ x = mArrayElements[q]
  BY <1>0, <1>1, PlaceOf
<1>3. PICK answer : /\ data' = [data EXCEPT ![x] = answer]
                    /\ mListCtrlCanvas' = [mListCtrlCanvas EXCEPT
                         ![q].text = Name(element[x].Type, answer)]
                    /\ UNCHANGED <<topoVars, saved>>
  BY <1>1 DEF OnNMDblclkListCanvas
<1>4. UNCHANGED <<mArrayElements, element, disk, skewed, asserted>>
  BY <1>3 DEF topoVars, docVars
<1>5. Mirror'
  BY <1>0, <1>2, <1>3, <1>4, EditMirror
<1>6. QED
  BY <1>3, <1>4, <1>5, ReadOnlySimulated

\* No document, no items.
LEMMA CloseMirror ==
  ASSUME SimulatedInv, Mirror, NEW saving \in BOOLEAN, CloseDocument(saving)
  PROVE  SimulatedInv' /\ Mirror'
<1>1. SimulatedInv'
  BY CloseSimulated
<1>2. mArrayElements' = <<>>
  BY DEF CloseDocument, OnCloseDocument
<1>3. mListCtrlCanvas' = <<>> /\ data' = [x \in Elements |-> NoData]
  BY DEF CloseDocument
<1>4. Count' = 0
  BY <1>2 DEF Count
<1>5. IsList(mListCtrlCanvas', 0)
  BY <1>3 DEF IsList
<1>6. data' = [x \in Elements |-> data'[x]]
  BY <1>3
<1>7. QED
  BY <1>1, <1>4, <1>5, <1>6 DEF Mirror

LEMMA NewMirror ==
  ASSUME SimulatedInv, Mirror, NewDocument
  PROVE  SimulatedInv' /\ Mirror'
<1>1. SimulatedInv'
  BY NewSimulated
<1>2. UNCHANGED <<mArrayElements, element, data, mListCtrlCanvas>>
  BY DEF NewDocument, OnNewDocument
<1>3. DocumentType
  BY DEF SimulatedInv, DocInv
<1>4. QED
  BY <1>1, <1>2, <1>3, SameMirror

\* The n-th element of the file is the object n, and its contents are in the n-th item.
LEMMA OpenMirror ==
  ASSUME SimulatedInv, Mirror, OpenDocument
  PROVE  SimulatedInv' /\ Mirror'
<1>1. SimulatedInv'
  BY OpenSimulated
<1>2. PICK m : OpenedAs(m)
  BY Opened DEF OpenDocument
<1>3. PICK contents : contents = [n \in DOMAIN saved |-> ReadElement(disk.elements[n].Type, saved[n])]
  OBVIOUS
<1>4. /\ data' = [x \in Elements |-> IF x \in DOMAIN saved THEN contents[x] ELSE NoData]
      /\ mListCtrlCanvas' = OnInitialUpdate(disk.elements, contents)
  BY <1>3 DEF OpenDocument
<1>5. mListCtrlCanvas' = [n \in 1 .. m |-> NewItem(disk.elements[n].Type, contents[n])]
  BY <1>2, <1>4 DEF OpenedAs, OnInitialUpdate
<1>6. IsList(mListCtrlCanvas', m)
  BY <1>2, <1>5 DEF OpenedAs, IsList
<1>7. data' = [x \in Elements |-> data'[x]]
  BY <1>4
<1>8. ASSUME NEW n \in 1 .. m
      PROVE  Shows(mListCtrlCanvas'[n], element'[mArrayElements'[n]].Type, data'[mArrayElements'[n]])
  <2>1. mArrayElements'[n] = n /\ n \in Elements /\ element'[n].Type = disk.elements[n].Type
    BY <1>2 DEF OpenedAs
  <2>2. data'[n] = contents[n]
    BY <1>2, <1>4, <2>1 DEF OpenedAs
  <2>3. Shows(NewItem(disk.elements[n].Type, contents[n]), disk.elements[n].Type, contents[n])
    BY NewShows
  <2>4. QED
    BY <1>5, <2>1, <2>2, <2>3
<1>9. Count' = m
  BY <1>2 DEF OpenedAs
<1>10. Mirror'
  BY <1>6, <1>7, <1>8, <1>9 DEF Mirror
<1>11. QED
  BY <1>1, <1>10

\* Marks and checks.
LEMMA CheckMirror ==
  ASSUME SimulatedInv, Mirror, NEW check \in BOOLEAN, OnMarkall(check)
  PROVE  SimulatedInv' /\ Mirror'
<1>1. UNCHANGED <<mArrayElements, element, disk, skewed, saved, data>>
  BY DEF OnMarkall, topoVars, docVars
<1>2. mListCtrlCanvas' = [n \in DOMAIN mListCtrlCanvas |->
                            [mListCtrlCanvas[n] EXCEPT !.checked = check]]
  BY DEF OnMarkall
<1>3. DOMAIN mListCtrlCanvas = 1 .. Count
  BY Places, ListFacts DEF SimulatedInv, DocInv, Mirror
<1>4. \A n \in 1 .. Count : mListCtrlCanvas'[n] = [mListCtrlCanvas[n] EXCEPT !.checked = check]
  BY <1>2, <1>3
<1>5. /\ DOMAIN mListCtrlCanvas' = DOMAIN mListCtrlCanvas
      /\ mListCtrlCanvas' = [n \in DOMAIN mListCtrlCanvas |-> mListCtrlCanvas'[n]]
  BY <1>2
<1>6. Mirror'
  BY <1>1, <1>4, <1>5, MarkMirror DEF SimulatedInv, DocInv
<1>7. QED
  BY <1>1, <1>6, ReadOnlySimulated

LEMMA CleanMirror ==
  ASSUME SimulatedInv, Mirror, OnCleantrafficmarks
  PROVE  SimulatedInv' /\ Mirror'
<1>1. UNCHANGED <<mArrayElements, element, disk, skewed, saved, data>>
  BY DEF OnCleantrafficmarks, topoVars, docVars
<1>2. mListCtrlCanvas' = [n \in DOMAIN mListCtrlCanvas |->
        [mListCtrlCanvas[n] EXCEPT !.image = element[mArrayElements[n]].Type, !.marked = FALSE]]
  BY DEF OnCleantrafficmarks
<1>3. DOMAIN mListCtrlCanvas = 1 .. Count
  BY Places, ListFacts DEF SimulatedInv, DocInv, Mirror
<1>4. \A n \in 1 .. Count :
        mListCtrlCanvas'[n] =
          [mListCtrlCanvas[n] EXCEPT !.image = element[mArrayElements[n]].Type, !.marked = FALSE]
  BY <1>2, <1>3
<1>5. /\ DOMAIN mListCtrlCanvas' = DOMAIN mListCtrlCanvas
      /\ mListCtrlCanvas' = [n \in DOMAIN mListCtrlCanvas |-> mListCtrlCanvas'[n]]
  BY <1>2
<1>6. Mirror'
  BY <1>1, <1>4, <1>5, MarkMirror DEF SimulatedInv, DocInv
<1>7. QED
  BY <1>1, <1>6, ReadOnlySimulated

\* Where a part that reports puts its mark: at the item of its index, if there is one.
MarkedAs(index) ==
  LET q == index + 1
  IN  \/ mListCtrlCanvas' = mListCtrlCanvas
      \/ /\ q \in 1 .. Count
         /\ mListCtrlCanvas' = [mListCtrlCanvas EXCEPT
              ![q].image = element[mArrayElements[q]].Type, ![q].marked = TRUE]

LEMMA Marked ==
  ASSUME DocumentType, NEW index \in Nat, OnUpdate(index)
  PROVE  MarkedAs(index)
<1>1. Count \in Nat
  BY Places
<1>2. CASE index < Count /\ mListCtrlCanvas[index + 1].checked
  <2>1. index + 1 \in 1 .. Count
    BY <1>1, <1>2
  <2>2. GetItemData(index) = mArrayElements[index + 1]
    BY DEF GetItemData
  <2>3. mListCtrlCanvas' = [mListCtrlCanvas EXCEPT
          ![index + 1].image = element[GetItemData(index)].Type, ![index + 1].marked = TRUE]
    BY <1>2 DEF OnUpdate
  <2>4. QED
    BY <2>1, <2>2, <2>3 DEF MarkedAs
<1>3. CASE ~(index < Count /\ mListCtrlCanvas[index + 1].checked)
  BY <1>3 DEF OnUpdate, MarkedAs
<1>4. QED
  BY <1>2, <1>3

-----------------------------------------------------------------------------
(* The indices under which the parts of a test report.                     *)

\* Each is a number, and until elements come or go, that of an element that takes part.
ReportsAs(index, run) == \E p \in Involved(run) \cap InDocument : element[p].Index = index

ReportsInv(t) ==
  \A index \in reports[t] :
    index \in Nat /\ (thread[t].phase = "running" /\ ~edited => ReportsAs(index, thread[t]))

\* The elements of some types are elements of the document.
LEMMA ThoseInDocument ==
  ASSUME DocumentType, NEW types, NEW a \in DOMAIN Those(types)
  PROVE  /\ Those(types)[a] \in InDocument /\ element[Those(types)[a]].Type \in types
         /\ element[Those(types)[a]].Index \in Nat
<1>1. PICK those, places, n : /\ those = Those(types) /\ places = PlacesOf(types)
                              /\ n = Cardinality(places)
  OBVIOUS
<1>2. KnownAs(those, places, n)
  BY <1>1, Known
<1>3. a \in 1 .. n /\ those[a] = mArrayElements[Nth(places, a)] /\ Nth(places, a) \in places
  BY <1>1, <1>2 DEF KnownAs
<1>4. Nth(places, a) \in 1 .. Count
  BY <1>2, <1>3 DEF KnownAs
<1>5. those[a] \in InDocument /\ those[a] \in Elements
  BY <1>3, <1>4, Places
<1>6. element[those[a]].Type \in types
  BY <1>1, <1>3 DEF PlacesOf
<1>7. element[those[a]].Index \in Nat
  <2>1. element[those[a]] \in ElementRecords
    BY <1>5 DEF DocumentType
  <2>2. QED
    BY <2>1 DEF ElementRecords
<1>8. QED
  BY <1>1, <1>5, <1>6, <1>7

\* A thread that does not run, or under which elements came or went.
LEMMA IdleReports ==
  ASSUME NEW t \in Testers, ReportsInv(t), reports'[t] = reports[t],
         thread'[t].phase # "running" \/ edited'
  PROVE  ReportsInv(t)'
BY DEF ReportsInv

\* A thread that is not concerned, under a step that leaves the elements as they are.
LEMMA OtherReports ==
  ASSUME DocumentType, NEW t \in Testers, ReportsInv(t), mArrayElements' = mArrayElements,
         \A x \in Elements : element'[x].Index = element[x].Index,
         reports'[t] = reports[t], thread'[t] = thread[t],
         thread[t].phase = "running" => (edited => edited')
  PROVE  ReportsInv(t)'
<1>1. InDocument' = InDocument /\ InDocument \subseteq Elements
  BY Places DEF InDocument, Indices, Count, GetItemData
<1>2. ASSUME NEW index, NEW run, ReportsAs(index, run)
      PROVE  \E p \in Involved(run) \cap InDocument' : element'[p].Index = index
  BY <1>1, <1>2 DEF ReportsAs
<1>3. QED
  BY <1>1, <1>2 DEF ReportsInv, ReportsAs

\* The parts are started: each takes the index that its element has now.
LEMMA RunReports ==
  ASSUME SimulatedInv, ChosenInv, reports = [u \in Testers |-> reports[u]],
         NEW t \in Testers, RunTest(t)
  PROVE  ReportsInv(t)'
<1>1. PICK run, clients : run = thread'[t] /\ clients = thread[t].clients
  OBVIOUS
<1>2. PICK nats, servers : nats = Those({"eNAT"}) /\ servers = Those({"eSTUNServer"})
  OBVIOUS
<1>3. /\ UNCHANGED <<mArrayElements, element, edited>> /\ thread[t].phase = "testing"
      /\ reports' = [reports EXCEPT ![t] = Reports(run.parts, run.clients)]
  BY <1>1 DEF RunTest, Run, docVars
<1>4. run.clients = clients /\ run.parts = [nats |-> nats, servers |-> servers]
  <2>1. thread' = [thread EXCEPT ![t] =
           [phase      |-> "running",
            clients    |-> @.clients, server |-> @.server, files |-> @.files,
            fromClient |-> [n \in DOMAIN @.clients |-> NameOf("eSTUNClient", @.clients[n].Index)],
            toServer   |-> NameOf("eSTUNServer", @.server.Index),
            parts      |-> [nats |-> nats, servers |-> servers]]]
    BY <1>2 DEF RunTest, Run
  <2>2. thread = [u \in Testers |-> thread[u]]
    BY DEF ChosenInv
  <2>3. PICK from, to, server, files :
          run = [phase      |-> "running",
                 clients    |-> clients, server |-> server, files |-> files,
                 fromClient |-> from, toServer |-> to,
                 parts      |-> [nats |-> nats, servers |-> servers]]
    BY <1>1, <2>1, <2>2
  <2>4. QED
    BY <2>3
<1>5. DocumentType
  BY DEF SimulatedInv, DocInv
<1>6. /\ \A n \in DOMAIN nats : nats[n] \in InDocument /\ element[nats[n]].Index \in Nat
      /\ \A n \in DOMAIN servers : servers[n] \in InDocument /\ element[servers[n]].Index \in Nat
  BY <1>2, <1>5, ThoseInDocument
<1>7. \A x \in InDocument : element[x].Index \in Nat
  <2>1. \A x \in InDocument : element[x] \in ElementRecords
    BY <1>5, Places DEF DocumentType
  <2>2. QED
    BY <2>1 DEF ElementRecords
<1>8. PICK There : There = [n \in DOMAIN clients |->
        \E x \in InDocument : element[x].Type = "eSTUNClient" /\ element[x].Index = clients[n].Index]
  OBVIOUS
<1>9. reports'[t] = {element[nats[n]].Index : n \in DOMAIN nats} \cup
                    {element[servers[n]].Index : n \in DOMAIN servers} \cup
                    {IF There[n] THEN clients[n].Index ELSE 0 : n \in DOMAIN clients}
  BY <1>3, <1>4, <1>8 DEF Reports
<1>10. Involved(run) = {nats[n] : n \in DOMAIN nats} \cup {servers[n] : n \in DOMAIN servers} \cup
                       {clients[n].object : n \in DOMAIN clients}
  BY <1>4 DEF Involved, Range
<1>11. ASSUME NEW n \in DOMAIN clients, ~edited
       PROVE  /\ There[n] /\ clients[n].object \in InDocument
              /\ element[clients[n].object].Index = clients[n].Index
  <2>1. PICK choice : choice = clients[n]
    OBVIOUS
  <2>2. choice \in Among(Listed(Clients))
    BY <1>1, <1>3, <1>11, <2>1 DEF ChosenInv, RunInv
  <2>3. PICK a \in DOMAIN Those(Clients) : /\ choice.object = Those(Clients)[a]
                                           /\ choice.Index = element[Those(Clients)[a]].Index
    BY <2>2 DEF Among, Listed
  <2>4. PICK x : x = Those(Clients)[a]
    OBVIOUS
  <2>5. x \in InDocument /\ element[x].Type \in Clients
    BY <1>5, <2>4, ThoseInDocument
  <2>6. element[x].Type = "eSTUNClient"
    BY <2>5 DEF SimulatedInv, Clients, Simulated
  <2>7. There[n] /\ choice.object = x /\ choice.Index = element[x].Index
    BY <1>8, <2>1, <2>3, <2>4, <2>5, <2>6
  <2>8. QED
    BY <2>1, <2>5, <2>7
<1>12. ASSUME NEW index \in reports'[t] PROVE index \in Nat
  <2>1. CASE \E n \in DOMAIN clients : index = IF There[n] THEN clients[n].Index ELSE 0
    <3>1. PICK n \in DOMAIN clients : index = IF There[n] THEN clients[n].Index ELSE 0
      BY <2>1
    <3>2. There[n] => clients[n].Index \in Nat
      BY <1>7, <1>8
    <3>3. QED
      BY <3>1, <3>2
  <2>2. QED
    BY <1>6, <1>9, <1>12, <2>1
<1>13. ASSUME NEW index \in reports'[t], ~edited
       PROVE  \E p \in Involved(run) \cap InDocument : element[p].Index = index
  <2>1. CASE \E n \in DOMAIN clients : index = IF There[n] THEN clients[n].Index ELSE 0
    <3>1. PICK n \in DOMAIN clients : index = IF There[n] THEN clients[n].Index ELSE 0
      BY <2>1
    <3>2. QED
      BY <1>10, <1>11, <1>13, <3>1
  <2>2. CASE \E n \in DOMAIN nats : index = element[nats[n]].Index
    BY <1>6, <1>10, <2>2
  <2>3. CASE \E n \in DOMAIN servers : index = element[servers[n]].Index
    BY <1>6, <1>10, <2>3
  <2>4. QED
    BY <1>9, <1>13, <2>1, <2>2, <2>3
<1>14. InDocument' = InDocument
  BY <1>3 DEF InDocument, Indices, Count, GetItemData
<1>15. QED
  BY <1>1, <1>3, <1>12, <1>13, <1>14 DEF ReportsInv, ReportsAs

-----------------------------------------------------------------------------
(* The invariant of the editor.                                            *)

EditorInv ==
  /\ SimulatedInv /\ Mirror /\ ChosenInv
  /\ reports = [t \in Testers |-> reports[t]]
  /\ \A t \in Testers : ReportsInv(t)

\* Every step is one of Topology, or leaves it alone, or marks an item.
LEMMA EditorTopology ==
  ASSUME [EditorNext]_editorVars
  PROVE  [TopologyNext]_topoVars \/ \E t \in Testers : \E index \in reports[t] : Advise(t, index)
<1>1. ASSUME NEW type \in Types, NEW dropped \in BOOLEAN, DragElement(type, dropped)
      PROVE  [TopologyNext]_topoVars
  BY <1>1 DEF DragElement, OnLButtonUp, TopologyNext
<1>2. ASSUME NEW i \in Indices, DeleteItem(i) \/ OnNMDblclkListCanvas(i)
      PROVE  [TopologyNext]_topoVars
  BY <1>2 DEF DeleteItem, OnNMDblclkListCanvas, TopologyNext
<1>3. ASSUME NEW i \in Indices, NEW j \in Indices, Link(i, j) PROVE TopologyNext
  BY <1>3, LinkValidated DEF TopologyNext
<1>4. CASE (\E check \in BOOLEAN : OnMarkall(check)) \/ OnCleantrafficmarks \/ UNCHANGED editorVars
  BY <1>4 DEF OnMarkall, OnCleantrafficmarks, editorVars
<1>5. ASSUME NEW saving \in BOOLEAN, CloseDocument(saving) PROVE TopologyNext
  <2>1. \E file \in {disk, WriteDocument} : OnCloseDocument(file)
    BY <1>5 DEF CloseDocument
  <2>2. QED
    BY <2>1 DEF TopologyNext
<1>6. CASE NewDocument \/ OpenDocument
  BY <1>6 DEF NewDocument, OpenDocument, TopologyNext
<1>7. ASSUME NEW t \in Testers,
             OnBnClickedButtonRunTest(t) \/ CancelTest(t) \/ TestGoesOn(t) \/ RunTest(t) \/ EndTest(t)
      PROVE  TopologyNext
  BY <1>7 DEF OnBnClickedButtonRunTest, CancelTest, TestGoesOn, RunTest, EndTest, TopologyNext
<1>8. ASSUME NEW t \in Testers, thread[t].phase = "dialog", NEW answer \in TestDlg(t),
             ConfirmTest(t, answer.clients, answer.server)
      PROVE  TopologyNext
  BY <1>8 DEF ConfirmTest, TopologyNext
<1>9. QED
  BY <1>1, <1>2, <1>3, <1>4, <1>5, <1>6, <1>7, <1>8 DEF EditorNext

\* What a step may do to the reports of a thread that it does not start.
OtherwiseInv(t) ==
  /\ reports'[t] = reports[t] \/ reports'[t] = {}
  /\ \/ thread'[t].phase # "running" \/ edited'
     \/ /\ thread'[t] = thread[t] /\ (edited => edited') /\ mArrayElements' = mArrayElements
        /\ \A x \in Elements : element'[x].Index = element[x].Index

LEMMA OtherwiseReports ==
  ASSUME DocumentType, NEW t \in Testers, ReportsInv(t), OtherwiseInv(t)
  PROVE  ReportsInv(t)'
<1>1. CASE reports'[t] = {}
  BY <1>1 DEF ReportsInv
<1>2. CASE reports'[t] = reports[t] /\ (thread'[t].phase # "running" \/ edited')
  BY <1>2, IdleReports
<1>3. CASE /\ reports'[t] = reports[t] /\ thread'[t] = thread[t] /\ (edited => edited')
           /\ mArrayElements' = mArrayElements
           /\ \A x \in Elements : element'[x].Index = element[x].Index
  BY <1>3, OtherReports
<1>4. QED
  BY <1>1, <1>2, <1>3 DEF OtherwiseInv

\* Elements come and go: the test is void then.
LEMMA EditReports ==
  ASSUME UNCHANGED <<thread, reports>>, edited' = (edited \/ Tested), NEW t \in Testers
  PROVE  OtherwiseInv(t)
BY DEF OtherwiseInv, Tested

\* No element comes or goes.
LEMMA KeepReports ==
  ASSUME UNCHANGED <<thread, reports, edited, mArrayElements>>,
         \A x \in Elements : element'[x].Index = element[x].Index, NEW t \in Testers
  PROVE  OtherwiseInv(t)
BY DEF OtherwiseInv

\* A thread goes on, and the others do not.
LEMMA ThreadReports ==
  ASSUME thread = [u \in Testers |-> thread[u]], reports = [u \in Testers |-> reports[u]],
         NEW t \in Testers,
         OnBnClickedButtonRunTest(t) \/ CancelTest(t) \/ TestGoesOn(t) \/ RunTest(t) \/ EndTest(t) \/
         (\E answer \in TestDlg(t) : ConfirmTest(t, answer.clients, answer.server))
  PROVE  /\ reports' = [u \in Testers |-> reports'[u]]
         /\ \A u \in Testers : u # t \/ ~RunTest(t) => OtherwiseInv(u)
<1>1. /\ UNCHANGED <<mArrayElements, element>>
      /\ edited' = edited \/ edited' = (Tested /\ edited)
  BY DEF OnBnClickedButtonRunTest, CancelTest, TestGoesOn, RunTest, EndTest, ConfirmTest,
         StartTest, Cancel, SetTesting, Stray, Run, End, Confirm, docVars
<1>2. \A u \in Testers : u # t => thread'[u] = thread[u] /\ reports'[u] = reports[u]
  BY DEF OnBnClickedButtonRunTest, CancelTest, TestGoesOn, RunTest, EndTest, ConfirmTest,
         StartTest, Cancel, SetTesting, Stray, Run, End, Confirm, fileVars
<1>3. reports' = [u \in Testers |-> reports'[u]]
  BY DEF OnBnClickedButtonRunTest, CancelTest, TestGoesOn, RunTest, EndTest, ConfirmTest, fileVars
<1>4. ASSUME NEW u \in Testers, u # t PROVE OtherwiseInv(u)
  <2>1. thread[u].phase # "none" => (edited => edited')
    BY <1>1 DEF Tested
  <2>2. thread[u].phase = "running" => thread[u].phase # "none"
    OBVIOUS
  <2>3. QED
    BY <1>1, <1>2, <1>4, <2>1, <2>2 DEF OtherwiseInv
<1>5. ASSUME ~RunTest(t) PROVE OtherwiseInv(t)
  <2>1. thread'[t].phase # "running"
    BY <1>5 DEF OnBnClickedButtonRunTest, CancelTest, TestGoesOn, EndTest, ConfirmTest,
                StartTest, Cancel, SetTesting, Stray, End, Confirm, NoThread
  <2>2. reports'[t] = reports[t] \/ reports'[t] = {}
    BY <1>5 DEF OnBnClickedButtonRunTest, CancelTest, TestGoesOn, EndTest, ConfirmTest, fileVars
  <2>3. QED
    BY <2>1, <2>2 DEF OtherwiseInv
<1>6. QED
  BY <1>3, <1>4, <1>5

\* The user edits, or a part reports: no thread goes on.
LEMMA UserReports ==
  ASSUME DocumentType,
         \/ \E type \in Types, dropped \in BOOLEAN : DragElement(type, dropped)
         \/ \E i \in Indices : DeleteItem(i) \/ OnNMDblclkListCanvas(i)
         \/ \E i, j \in Indices : Link(i, j)
         \/ \E check \in BOOLEAN : OnMarkall(check)
         \/ OnCleantrafficmarks
         \/ \E saving \in BOOLEAN : CloseDocument(saving)
         \/ NewDocument \/ OpenDocument
         \/ \E u \in Testers : \E index \in reports[u] : Advise(u, index)
         \/ UNCHANGED editorVars
  PROVE  reports' = reports /\ \A t \in Testers : OtherwiseInv(t)
<1>1. ASSUME NEW type \in Types, NEW dropped \in BOOLEAN, DragElement(type, dropped)
      PROVE  reports' = reports /\ \A t \in Testers : OtherwiseInv(t)
  <2>1. /\ UNCHANGED <<thread, reports>>
        /\ edited' = (edited \/ Tested) \/ UNCHANGED <<edited, mArrayElements, element>>
    BY <1>1 DEF DragElement, OnLButtonUp, InsertElement, fileVars, testVars, topoVars, docVars
  <2>2. QED
    BY <2>1, EditReports, KeepReports
<1>2. ASSUME NEW i \in Indices, DeleteItem(i) \/ OnNMDblclkListCanvas(i)
      PROVE  reports' = reports /\ \A t \in Testers : OtherwiseInv(t)
  <2>1. /\ UNCHANGED <<thread, reports>>
        /\ edited' = (edited \/ Tested) \/ UNCHANGED <<edited, mArrayElements, element>>
    BY <1>2 DEF DeleteItem, OnDeleteitem, OnNMDblclkListCanvas, fileVars, testVars, topoVars, docVars
  <2>2. QED
    BY <2>1, EditReports, KeepReports
<1>3. ASSUME NEW i \in Indices, NEW j \in Indices, Link(i, j)
      PROVE  reports' = reports /\ \A t \in Testers : OtherwiseInv(t)
  <2>1. PICK ci \in Connectors, cj \in Connectors : ValidateLink(i, j, ci, cj)
    BY <1>3, LinkValidated
  <2>2. \A x \in Elements : element'[x].Index = element[x].Index
    BY <2>1, Linked
  <2>3. UNCHANGED <<thread, reports, edited, mArrayElements>>
    BY <1>3, <2>1 DEF Link, ValidateLink, fileVars, testVars
  <2>4. QED
    BY <2>2, <2>3, KeepReports
<1>4. CASE \/ \E check \in BOOLEAN : OnMarkall(check)
           \/ OnCleantrafficmarks
           \/ \E u \in Testers : \E index \in reports[u] : Advise(u, index)
           \/ UNCHANGED editorVars
  <2>1. UNCHANGED <<thread, reports, edited, mArrayElements, element>>
    BY <1>4 DEF OnMarkall, OnCleantrafficmarks, Advise, editorVars, fileVars, topoVars, docVars, testVars
  <2>2. QED
    BY <2>1, KeepReports
<1>5. ASSUME NEW saving \in BOOLEAN, CloseDocument(saving)
      PROVE  reports' = reports /\ \A t \in Testers : OtherwiseInv(t)
  <2>1. UNCHANGED <<thread, reports>> /\ edited' = (edited \/ Tested)
    BY <1>5 DEF CloseDocument, OnCloseDocument, fileVars, testVars
  <2>2. QED
    BY <2>1, EditReports
<1>6. CASE NewDocument \/ OpenDocument
  <2>1. UNCHANGED <<thread, reports>> /\ ~Tested
    BY <1>6 DEF NewDocument, OpenDocument, OnNewDocument, OnOpenDocument, fileVars
  <2>2. \A t \in Testers : thread'[t].phase # "running"
    BY <2>1 DEF Tested
  <2>3. QED
    BY <2>1, <2>2 DEF OtherwiseInv
<1>7. QED
  BY <1>1, <1>2, <1>3, <1>4, <1>5, <1>6

LEMMA ReportsStep ==
  ASSUME EditorInv, [EditorNext]_editorVars
  PROVE  /\ reports' = [t \in Testers |-> reports'[t]]
         /\ \A t \in Testers : ReportsInv(t)'
<1>1. /\ DocumentType /\ SimulatedInv /\ ChosenInv
      /\ thread = [t \in Testers |-> thread[t]] /\ reports = [t \in Testers |-> reports[t]]
      /\ \A t \in Testers : ReportsInv(t)
  BY DEF EditorInv, SimulatedInv, DocInv, ChosenInv
<1>2. CASE \/ \E type \in Types, dropped \in BOOLEAN : DragElement(type, dropped)
           \/ \E i \in Indices : DeleteItem(i) \/ OnNMDblclkListCanvas(i)
           \/ \E i, j \in Indices : Link(i, j)
           \/ \E check \in BOOLEAN : OnMarkall(check)
           \/ OnCleantrafficmarks
           \/ \E saving \in BOOLEAN : CloseDocument(saving)
           \/ NewDocument \/ OpenDocument
           \/ \E u \in Testers : \E index \in reports[u] : Advise(u, index)
           \/ UNCHANGED editorVars
  <2>1. reports' = reports /\ \A t \in Testers : OtherwiseInv(t)
    BY <1>1, <1>2, UserReports
  <2>2. QED
    BY <1>1, <2>1, OtherwiseReports
<1>3. ASSUME NEW t \in Testers,
             OnBnClickedButtonRunTest(t) \/ CancelTest(t) \/ TestGoesOn(t) \/ RunTest(t) \/ EndTest(t) \/
             (\E answer \in TestDlg(t) : ConfirmTest(t, answer.clients, answer.server))
      PROVE  /\ reports' = [u \in Testers |-> reports'[u]]
             /\ \A u \in Testers : ReportsInv(u)'
  <2>1. /\ reports' = [u \in Testers |-> reports'[u]]
        /\ \A u \in Testers : u # t \/ ~RunTest(t) => OtherwiseInv(u)
    BY <1>1, <1>3, ThreadReports
  <2>2. RunTest(t) => ReportsInv(t)'
    BY <1>1, RunReports
  <2>3. ASSUME NEW u \in Testers PROVE ReportsInv(u)'
    BY <1>1, <2>1, <2>2, OtherwiseReports
  <2>4. QED
    BY <2>1, <2>3
<1>4. QED
  BY <1>2, <1>3 DEF EditorNext

-----------------------------------------------------------------------------
(* What is marked.                                                         *)

\* No item is marked anew, unless there is another array.
MarksKept ==
  mArrayElements' = mArrayElements =>
    \A n \in 1 .. Count : mListCtrlCanvas'[n].marked \in {mListCtrlCanvas[n].marked, FALSE}

\* A text is not a mark.
LEMMA TextMarks ==
  ASSUME Mirror, DOMAIN mListCtrlCanvas = 1 .. Count, NEW q \in 1 .. Count, NEW text,
         mListCtrlCanvas' = [mListCtrlCanvas EXCEPT ![q].text = text]
  PROVE  MarksKept
<1>1. ASSUME NEW n \in 1 .. Count PROVE mListCtrlCanvas'[n].marked = mListCtrlCanvas[n].marked
  <2>1. PICK item, type, d : item = mListCtrlCanvas[n] /\ Shows(item, type, d)
    BY DEF Mirror
  <2>2. item = [text |-> item.text, image |-> item.image, marked |-> item.marked, checked |-> item.checked]
    BY <2>1 DEF Shows
  <2>3. [item EXCEPT !.text = text].marked = item.marked
    BY <2>2
  <2>4. mListCtrlCanvas'[n] = item \/ mListCtrlCanvas'[n] = [item EXCEPT !.text = text]
    BY <2>1
  <2>5. QED
    BY <2>1, <2>3, <2>4
<1>2. QED
  BY <1>1 DEF MarksKept

LEMMA EditMarks ==
  ASSUME SimulatedInv, Mirror,
         \/ \E type \in Types, dropped \in BOOLEAN : DragElement(type, dropped)
         \/ \E i \in Indices : DeleteItem(i) \/ OnNMDblclkListCanvas(i)
         \/ \E i, j \in Indices : Link(i, j)
  PROVE  MarksKept
<1>1. /\ DocumentType /\ Fits /\ Count \in Nat /\ DOMAIN mListCtrlCanvas = 1 .. Count
  BY Places, ListFacts DEF SimulatedInv, DocInv, Mirror
<1>2. ASSUME NEW type \in Types, NEW dropped \in BOOLEAN, DragElement(type, dropped) PROVE MarksKept
  <2>1. CASE mListCtrlCanvas' = mListCtrlCanvas
    BY <2>1 DEF MarksKept
  <2>2. CASE InsertElement(type)
    <3>1. Count' = Count + 1
      BY <1>1, <2>2, Inserted DEF InsertedAs
    <3>2. mArrayElements' # mArrayElements
      BY <1>1, <3>1 DEF Count
    <3>3. QED
      BY <3>2 DEF MarksKept
  <2>3. QED
    BY <1>2, <2>1, <2>2 DEF DragElement, OnLButtonUp
<1>3. ASSUME NEW i \in Indices, DeleteItem(i) PROVE MarksKept
  <2>1. Count' = Count - 1
    BY <1>1, <1>3, Deleted DEF DeleteItem, DeletedAs
  <2>2. mArrayElements' # mArrayElements
    BY <1>1, <2>1 DEF Count
  <2>3. QED
    BY <2>2 DEF MarksKept
<1>4. ASSUME NEW i \in Indices, OnNMDblclkListCanvas(i) PROVE MarksKept
  <2>1. PICK text : mListCtrlCanvas' = [mListCtrlCanvas EXCEPT ![i + 1].text = text]
    BY <1>4 DEF OnNMDblclkListCanvas
  <2>2. PICK q : q = i + 1
    OBVIOUS
  <2>3. q \in 1 .. Count
    BY <1>1, <2>2, PlaceOf
  <2>4. QED
    BY <1>1, <2>1, <2>2, <2>3, TextMarks
<1>5. ASSUME NEW i \in Indices, NEW j \in Indices, Link(i, j) PROVE MarksKept
  <2>1. CASE mListCtrlCanvas' = mListCtrlCanvas
    BY <2>1 DEF MarksKept
  <2>2. CASE LinkNATs(GetItemData(i), GetItemData(j))
    <3>1. PICK q, text : /\ q = element[GetItemData(j)].Index + 1
                         /\ mListCtrlCanvas' = [mListCtrlCanvas EXCEPT ![q].text = text]
      BY <2>2 DEF LinkNATs
    <3>2. element[GetItemData(j)].Index = j
      BY <1>1, ItemAt
    <3>3. q \in 1 .. Count
      BY <1>1, <3>1, <3>2, PlaceOf
    <3>4. QED
      BY <1>1, <3>1, <3>3, TextMarks
  <2>3. QED
    BY <1>5, <2>1, <2>2 DEF Link
<1>6. QED
  BY <1>2, <1>3, <1>4, <1>5

LEMMA OtherMarks ==
  ASSUME SimulatedInv, Mirror,
         \/ \E check \in BOOLEAN : OnMarkall(check)
         \/ OnCleantrafficmarks
         \/ \E saving \in BOOLEAN : CloseDocument(saving)
         \/ NewDocument \/ OpenDocument
         \/ UNCHANGED mListCtrlCanvas
  PROVE  MarksKept
<1>1. Count \in Nat /\ DOMAIN mListCtrlCanvas = 1 .. Count
  BY Places, ListFacts DEF SimulatedInv, DocInv, Mirror
<1>2. ASSUME NEW n \in 1 .. Count
      PROVE  mListCtrlCanvas[n] = [text    |-> mListCtrlCanvas[n].text,
                                   image   |-> mListCtrlCanvas[n].image,
                                   marked  |-> mListCtrlCanvas[n].marked,
                                   checked |-> mListCtrlCanvas[n].checked]
  BY DEF Mirror, Shows
<1>3. ASSUME NEW check \in BOOLEAN, OnMarkall(check) PROVE MarksKept
  <2>1. ASSUME NEW n \in 1 .. Count PROVE mListCtrlCanvas'[n].marked = mListCtrlCanvas[n].marked
    <3>1. mListCtrlCanvas'[n] = [mListCtrlCanvas[n] EXCEPT !.checked = check]
      BY <1>1, <1>3 DEF OnMarkall
    <3>2. QED
      BY <1>2, <3>1
  <2>2. QED
    BY <2>1 DEF MarksKept
<1>4. CASE OnCleantrafficmarks
  <2>1. ASSUME NEW n \in 1 .. Count PROVE mListCtrlCanvas'[n].marked = FALSE
    <3>1. PICK image : mListCtrlCanvas'[n] = [mListCtrlCanvas[n] EXCEPT !.image = image, !.marked = FALSE]
      BY <1>1, <1>4 DEF OnCleantrafficmarks
    <3>2. PICK item : item = [mListCtrlCanvas[n] EXCEPT !.image = image]
      OBVIOUS
    <3>3. DOMAIN item = {"text", "image", "marked", "checked"}
      BY <1>2, <3>2
    <3>4. mListCtrlCanvas'[n] = [item EXCEPT !.marked = FALSE]
      BY <3>1, <3>2, Zenon
    <3>5. QED
      BY <3>3, <3>4
  <2>2. QED
    BY <2>1 DEF MarksKept
<1>5. ASSUME NEW saving \in BOOLEAN, CloseDocument(saving) PROVE MarksKept
  <2>1. mArrayElements' = mArrayElements => Count = 0
    BY <1>5 DEF CloseDocument, OnCloseDocument, Count
  <2>2. Count = 0 => 1 .. Count = {}
    OBVIOUS
  <2>3. QED
    BY <2>1, <2>2 DEF MarksKept
<1>6. CASE NewDocument \/ UNCHANGED mListCtrlCanvas
  BY <1>6 DEF NewDocument, MarksKept
<1>7. CASE OpenDocument
  <2>1. PICK m : OpenedAs(m)
    BY <1>7, Opened DEF OpenDocument
  <2>2. PICK contents : mListCtrlCanvas' = OnInitialUpdate(disk.elements, contents)
    BY <1>7 DEF OpenDocument
  <2>3. \A n \in 1 .. m : mListCtrlCanvas'[n].marked = FALSE
    BY <2>1, <2>2 DEF OpenedAs, OnInitialUpdate, NewItem
  <2>4. mArrayElements' = mArrayElements => m = Count
    BY <2>1 DEF OpenedAs, Count
  <2>5. QED
    BY <2>3, <2>4 DEF MarksKept
<1>8. QED
  BY <1>3, <1>4, <1>5, <1>6, <1>7

-----------------------------------------------------------------------------
(* The editor.                                                             *)

LEMMA EditorStart == EditorInit => EditorInv
<1> SUFFICES ASSUME EditorInit PROVE EditorInv
  OBVIOUS
<1>1. TopologyInit
  BY DEF EditorInit
<1>2. DocInv /\ ChosenInv
  BY <1>1, DocInit, ChosenInit
<1>3. mArrayElements = <<>> /\ disk = NoDocument /\ ~skewed /\ ~asserted
  BY <1>1 DEF TopologyInit
<1>4. Count = 0 /\ InDocument = {}
  BY <1>3 DEF Count, InDocument, Indices
<1>5. Fits
  BY <1>2, <1>3 DEF DocInv
<1>6. SimulatedFile(disk) /\ DOMAIN saved = 1 .. Len(disk.elements)
  <2>1. disk.elements = <<>> /\ disk.links = <<>> /\ saved = <<>>
    BY <1>3 DEF NoDocument, EditorInit
  <2>2. QED
    BY <2>1 DEF SimulatedFile, FileFits
<1>7. SimulatedInv
  BY <1>2, <1>3, <1>4, <1>5, <1>6 DEF SimulatedInv
<1>8. Mirror
  <2>1. data = [x \in Elements |-> data[x]] /\ mListCtrlCanvas = <<>>
    BY DEF EditorInit
  <2>2. IsList(mListCtrlCanvas, 0)
    BY <2>1 DEF IsList
  <2>3. QED
    BY <1>4, <2>1, <2>2 DEF Mirror
<1>9. reports = [t \in Testers |-> reports[t]] /\ \A t \in Testers : ReportsInv(t)
  BY DEF EditorInit, ReportsInv
<1>10. QED
  BY <1>2, <1>7, <1>8, <1>9 DEF EditorInv

\* A part reports: the item of its index is marked, if there is one.
LEMMA AdviseMirror ==
  ASSUME EditorInv, NEW t \in Testers, NEW index \in reports[t], Advise(t, index)
  PROVE  SimulatedInv' /\ Mirror' /\ MarkedAs(index) /\ ChosenInv'
<1>1. /\ UNCHANGED <<mArrayElements, element, disk, skewed, saved, data, thread, edited>>
      /\ OnUpdate(index)
  BY DEF Advise, testVars
<1>2. /\ SimulatedInv /\ Mirror /\ ChosenInv /\ DocumentType /\ index \in Nat
  BY DEF EditorInv, SimulatedInv, DocInv, ReportsInv
<1>3. MarkedAs(index)
  BY <1>1, <1>2, Marked
<1>4. Mirror'
  <2>1. DOMAIN mListCtrlCanvas = 1 .. Count
    BY <1>2, Places, ListFacts DEF Mirror
  <2>2. CASE mListCtrlCanvas' = mListCtrlCanvas
    BY <1>1, <1>2, <2>2, SameMirror
  <2>3. CASE mListCtrlCanvas' # mListCtrlCanvas
    <3>1. PICK q, type : /\ q = index + 1 /\ q \in 1 .. Count /\ type = element[mArrayElements[q]].Type
                         /\ mListCtrlCanvas' = [mListCtrlCanvas EXCEPT
                              ![q].image = type, ![q].marked = TRUE]
      BY <1>3, <2>3 DEF MarkedAs
    <3>2. mListCtrlCanvas'[q] = [mListCtrlCanvas[q] EXCEPT !.image = type, !.marked = TRUE]
      <4>1. PICK others : others = [mListCtrlCanvas EXCEPT ![q].image = type]
        OBVIOUS
      <4>2. /\ others[q] = [mListCtrlCanvas[q] EXCEPT !.image = type]
            /\ DOMAIN others = 1 .. Count
        BY <2>1, <3>1, <4>1
      <4>3. mListCtrlCanvas' = [others EXCEPT ![q].marked = TRUE]
        BY <3>1, <4>1, Zenon
      <4>4. mListCtrlCanvas'[q] = [others[q] EXCEPT !.marked = TRUE]
        BY <3>1, <4>2, <4>3
      <4>5. QED
        BY <4>2, <4>4, Zenon
    <3>3. \A n \in 1 .. Count : n # q => mListCtrlCanvas'[n] = mListCtrlCanvas[n]
      BY <2>1, <3>1
    <3>4. /\ DOMAIN mListCtrlCanvas' = DOMAIN mListCtrlCanvas
          /\ mListCtrlCanvas' = [n \in DOMAIN mListCtrlCanvas |-> mListCtrlCanvas'[n]]
      BY <3>1
    <3>5. \A n \in 1 .. Count :
            \/ mListCtrlCanvas'[n] = mListCtrlCanvas[n]
            \/ \E mark : mListCtrlCanvas'[n] =
                 [mListCtrlCanvas[n] EXCEPT !.image = element[mArrayElements[n]].Type, !.marked = mark]
      BY <3>1, <3>2, <3>3
    <3>6. QED
      BY <1>1, <1>2, <3>4, <3>5, MarkMirror
  <2>4. QED
    BY <2>2, <2>3
<1>5. ChosenInv'
  <2>1. \A u \in Testers : ~edited => RunInv(u)'
    BY <1>1, <1>2, OtherChosen
  <2>2. QED
    BY <1>1, <1>2, <2>1 DEF ChosenInv
<1>6. QED
  BY <1>1, <1>2, <1>3, <1>4, <1>5, ReadOnlySimulated

\* Every step keeps the document fitting and the canvas its mirror.
LEMMA MirrorStep ==
  ASSUME EditorInv, [EditorNext]_editorVars
  PROVE  SimulatedInv' /\ Mirror'
<1>1. SimulatedInv /\ Mirror /\ DocumentType
  BY DEF EditorInv, SimulatedInv, DocInv
<1>2. CASE \/ \E type \in Types, dropped \in BOOLEAN : DragElement(type, dropped)
           \/ \E i \in Indices : DeleteItem(i) \/ OnNMDblclkListCanvas(i)
           \/ \E i, j \in Indices : Link(i, j)
  BY <1>1, <1>2, DragMirror, DeleteMirror, DialogMirror, LinkMirror
<1>3. CASE \/ \E check \in BOOLEAN : OnMarkall(check)
           \/ OnCleantrafficmarks
           \/ \E saving \in BOOLEAN : CloseDocument(saving)
           \/ NewDocument \/ OpenDocument
  BY <1>1, <1>3, CheckMirror, CleanMirror, CloseMirror, NewMirror, OpenMirror
<1>4. CASE \/ UNCHANGED editorVars
           \/ \E t \in Testers :
                \/ OnBnClickedButtonRunTest(t) \/ CancelTest(t) \/ TestGoesOn(t) \/ RunTest(t) \/ EndTest(t)
                \/ \E answer \in TestDlg(t) : ConfirmTest(t, answer.clients, answer.server)
  <2>1. UNCHANGED <<mArrayElements, element, disk, skewed, saved, data, mListCtrlCanvas>>
    BY <1>4 DEF editorVars, topoVars, docVars, OnBnClickedButtonRunTest, CancelTest, TestGoesOn, RunTest, EndTest,
                ConfirmTest, StartTest, Cancel, SetTesting, Stray, Run, End, Confirm
  <2>2. QED
    BY <1>1, <2>1, SameMirror, ReadOnlySimulated
<1>5. CASE \E t \in Testers : \E index \in reports[t] : Advise(t, index)
  BY <1>5, AdviseMirror
<1>6. QED
  BY <1>2, <1>3, <1>4, <1>5 DEF EditorNext

LEMMA EditorStep == EditorInv /\ [EditorNext]_editorVars => EditorInv'
<1> SUFFICES ASSUME EditorInv, [EditorNext]_editorVars PROVE EditorInv'
  OBVIOUS
<1>1. SimulatedInv' /\ Mirror'
  BY MirrorStep
<1>2. /\ reports' = [t \in Testers |-> reports'[t]]
      /\ \A t \in Testers : ReportsInv(t)'
  BY ReportsStep
<1>3. ChosenInv'
  <2>1. CASE [TopologyNext]_topoVars
    BY <2>1, ChosenStep DEF EditorInv, SimulatedInv
  <2>2. CASE \E t \in Testers : \E index \in reports[t] : Advise(t, index)
    BY <2>2, AdviseMirror
  <2>3. QED
    BY <2>1, <2>2, EditorTopology
<1>4. QED
  BY <1>1, <1>2, <1>3 DEF EditorInv

\* The canvas shows the document: an item for every element at its place, of its type
\* and with the addresses it has now, and lines between the items of linked elements.
THEOREM CanvasShows == EditorSpec => []CanvasMirrors
<1>1. ASSUME EditorInv PROVE CanvasMirrors
  <2>1. /\ DocumentType /\ Fits /\ Count \in Nat /\ DOMAIN mArrayElements = 1 .. Count
        /\ Len(mListCtrlCanvas) = Count /\ DOMAIN mListCtrlCanvas = 1 .. Count
        /\ \A n \in 1 .. Count : mArrayElements[n] \in InDocument
    BY <1>1, Places, ListFacts DEF EditorInv, SimulatedInv, DocInv, Mirror
  <2>2. ASSUME NEW n \in 1 .. Count
        PROVE  /\ mListCtrlCanvas[n].text = Name(element[mArrayElements[n]].Type, data[mArrayElements[n]])
               /\ mListCtrlCanvas[n].image = element[mArrayElements[n]].Type
    BY <1>1 DEF EditorInv, Mirror, Shows
  <2>3. ASSUME NEW line \in Drawn
        PROVE  /\ line[2] \in DOMAIN mListCtrlCanvas
               /\ mArrayElements[line[2]] \in LinkedTo(mArrayElements[line[1]])
    <3>1. PICK n \in 1 .. Count :
            line \in {<<n, element[link.to].Index + 1>> : link \in Range(element[mArrayElements[n]].links)}
      BY <2>1, <2>3 DEF Drawn
    <3>2. PICK link \in Range(element[mArrayElements[n]].links) : line = <<n, element[link.to].Index + 1>>
      BY <3>1
    <3>3. PICK x, y : x = mArrayElements[n] /\ y = link.to
      OBVIOUS
    <3>4. y \in LinkedTo(x)
      BY <3>2, <3>3 DEF LinkedTo, Range
    <3>5. y \in InDocument
      BY <2>1, <3>3, <3>4 DEF Fits
    <3>6. element[y].Index \in Indices /\ GetItemData(element[y].Index) = y
      BY <2>1, <3>5, ItemAt
    <3>7. element[y].Index + 1 \in 1 .. Count /\ mArrayElements[element[y].Index + 1] = y
      BY <2>1, <3>6, PlaceOf
    <3>8. line[1] = n /\ line[2] = element[y].Index + 1
      BY <3>2, <3>3
    <3>9. QED
      BY <2>1, <3>3, <3>4, <3>7, <3>8
  <2>4. QED
    BY <2>1, <2>2, <2>3 DEF CanvasMirrors
<1>2. QED
  BY <1>1, EditorStart, EditorStep, PTL DEF EditorSpec

\* A mark goes to an element that takes part in a test: a part reports under the index its
\* element had when the parts were started, and until elements come or go it still has it.
THEOREM MarksFit == EditorSpec => MarksInvolved
<1>1. ASSUME EditorInv, [EditorNext]_editorVars
      PROVE  \A n \in DOMAIN mListCtrlCanvas :
               /\ mArrayElements' = mArrayElements /\ ~edited /\ ~overlapped /\ NoReal
               /\ ~mListCtrlCanvas[n].marked /\ mListCtrlCanvas'[n].marked
               => \E t \in Testers : thread[t].phase = "running" /\ mArrayElements[n] \in Involved(thread[t])
  <2>1. /\ SimulatedInv /\ Mirror /\ DocumentType /\ Fits
        /\ DOMAIN mListCtrlCanvas = 1 .. Count
    BY <1>1, Places, ListFacts DEF EditorInv, SimulatedInv, DocInv, Mirror
  <2>2. SUFFICES ASSUME NEW n \in 1 .. Count, mArrayElements' = mArrayElements, ~edited,
                        ~mListCtrlCanvas[n].marked, mListCtrlCanvas'[n].marked
                 PROVE  \E t \in Testers : /\ thread[t].phase = "running"
                                           /\ mArrayElements[n] \in Involved(thread[t])
    BY <2>1
  <2>3. ~MarksKept
    BY <2>2 DEF MarksKept
  <2>4. PICK t \in Testers : \E index \in reports[t] : Advise(t, index)
    <3>1. CASE UNCHANGED mListCtrlCanvas
      BY <2>1, <2>3, <3>1, OtherMarks
    <3>2. CASE \E t \in Testers :
                 \/ OnBnClickedButtonRunTest(t) \/ CancelTest(t) \/ TestGoesOn(t) \/ RunTest(t) \/ EndTest(t)
                 \/ \E answer \in TestDlg(t) : ConfirmTest(t, answer.clients, answer.server)
      BY <3>1, <3>2 DEF OnBnClickedButtonRunTest, CancelTest, TestGoesOn, RunTest, EndTest, ConfirmTest
    <3>3. CASE UNCHANGED editorVars
      BY <3>1, <3>3 DEF editorVars
    <3>4. QED
      BY <1>1, <2>1, <2>3, <3>2, <3>3, EditMarks, OtherMarks DEF EditorNext
  <2>5. PICK index \in reports[t] : Advise(t, index)
    BY <2>4
  <2>6. MarkedAs(index)
    BY <1>1, <2>5, AdviseMirror
  <2>7. n = index + 1
    BY <2>1, <2>2, <2>6 DEF MarkedAs
  <2>8. thread[t].phase = "running" /\ ReportsAs(index, thread[t]) /\ index \in Nat
    BY <1>1, <2>2, <2>5 DEF EditorInv, ReportsInv, Advise
  <2>9. PICK p \in Involved(thread[t]) \cap InDocument : element[p].Index = index
    BY <2>8 DEF ReportsAs
  <2>10. GetItemData(index) = p
    BY <2>1, <2>9, ItemAt
  <2>11. mArrayElements[n] = p
    BY <2>7, <2>10 DEF GetItemData
  <2>12. QED
    BY <2>8, <2>9, <2>11
<1>2. QED
  BY <1>1, EditorStart, EditorStep, PTL DEF EditorSpec, MarksInvolved
=================================================================================
