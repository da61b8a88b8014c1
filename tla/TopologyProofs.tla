----------------------------- MODULE TopologyProofs -----------------------------
(***************************************************************************)
(* For any number of elements, links and test threads: a test keeps its     *)
(* document open (TestsKeepDocument); the array, the indices and the links  *)
(* of a document fit whatever is done to it (LinksStayMutual); a test uses  *)
(* the parts that were chosen for it, with their files (ChosenAreTested);   *)
(* and these files add up to routes (RoutesAddUp).                          *)
(***************************************************************************)
EXTENDS Topology, FiniteSetTheorems, TLAPS

-----------------------------------------------------------------------------
(* A test and its document.                                                *)

\* A thread that has raised the flag holds it, and with the flag the document.  The
\* flag being one for all threads, this can only be said of a thread that is alone.
TestInv ==
  /\ thread = [t \in Testers |-> thread[t]]
  /\ ~overlapped =>
       /\ \A t, u \in Testers :
            thread[t].phase # "none" /\ thread[u].phase # "none" => t = u
       /\ \A t \in Testers :
            thread[t].phase \in {"testing", "running"} => open /\ mTesting

LEMMA TopologyInitInv == TopologyInit => TestInv
BY DEF TopologyInit, TestInv, NoThread

\* Editing leaves the tests alone, and the document open.
LEMMA EditInv ==
  ASSUME TestInv, UNCHANGED testVars, open' = open
  PROVE  TestInv'
BY DEF TestInv, testVars

LEMMA DocumentInv ==
  ASSUME TestInv,
         OnNewDocument \/ OnOpenDocument \/ \E saved : OnCloseDocument(saved)
  PROVE  TestInv'
<1>1. CASE OnNewDocument \/ OnOpenDocument
  <2>1. /\ \A t \in Testers : thread[t].phase = "none"
        /\ thread' = thread /\ overlapped' = overlapped
    BY <1>1 DEF OnNewDocument, OnOpenDocument, Tested
  <2>2. QED
    BY <2>1 DEF TestInv
<1>2. CASE \E saved : OnCloseDocument(saved)
  <2>1. ~mTesting /\ UNCHANGED testVars
    BY <1>2 DEF OnCloseDocument, MayClose
  <2>2. QED
    BY <2>1 DEF TestInv, testVars
<1>3. QED
  BY <1>1, <1>2

\* A step of one tester to another phase.
LEMMA StartInv ==
  ASSUME TestInv, NEW t \in Testers, StartTest(t)
  PROVE  TestInv'
<1>1. /\ thread[t].phase = "none" /\ overlapped' = Tested
      /\ UNCHANGED <<open, mTesting>>
      /\ \A u \in Testers : u # t => thread'[u] = thread[u]
      /\ thread'[t].phase = "dialog" /\ thread' = [u \in Testers |-> thread'[u]]
  BY DEF StartTest, TestInv, docVars
<1>2. ~Tested => \A u \in Testers : thread[u].phase = "none"
  BY DEF Tested
<1>3. QED
  BY <1>1, <1>2 DEF TestInv

LEMMA PhaseInv ==
  ASSUME TestInv, NEW t \in Testers,
         \/ Cancel(t)
         \/ \E clients, server : Confirm(t, clients, server)
         \/ SetTesting(t)
         \/ Run(t)
         \/ End(t)
         \/ Stray(t)
  PROVE  TestInv'
<1>1. /\ UNCHANGED <<open, overlapped>> /\ thread[t].phase # "none"
      /\ thread' = [u \in Testers |-> thread'[u]]
      /\ \A u \in Testers : u # t => thread'[u] = thread[u]
  BY DEF Cancel, Confirm, SetTesting, Run, End, Stray, TestInv, docVars
<1>2. \/ thread'[t].phase \in {"none", "files", "stray"}
      \/ thread'[t].phase = "testing" /\ open /\ mTesting' = TRUE
      \/ /\ thread'[t].phase = "running" /\ thread[t].phase = "testing"
         /\ mTesting' = mTesting
  BY DEF Cancel, Confirm, SetTesting, Run, End, Stray, Editing, TestInv, NoThread
<1>3. SUFFICES ASSUME ~overlapped
      PROVE  /\ \A u, v \in Testers :
                  thread'[u].phase # "none" /\ thread'[v].phase # "none" => u = v
             /\ \A u \in Testers :
                  thread'[u].phase \in {"testing", "running"} => open' /\ mTesting'
  BY <1>1 DEF TestInv
<1>4. \A u \in Testers : u # t => thread'[u].phase = "none"
  BY <1>1, <1>3 DEF TestInv
<1>5. QED
  BY <1>1, <1>2, <1>3, <1>4 DEF TestInv

LEMMA TopologyStep == TestInv /\ [TopologyNext]_topoVars => TestInv'
<1> SUFFICES ASSUME TestInv, [TopologyNext]_topoVars PROVE TestInv'
  OBVIOUS
<1>1. CASE \/ \E i, j \in Indices, ci, cj \in Connectors : ValidateLink(i, j, ci, cj)
           \/ \E type \in Types : InsertElement(type)
           \/ \E i \in Indices : OnDeleteitem(i)
  BY <1>1, EditInv DEF ValidateLink, InsertElement, OnDeleteitem
<1>2. CASE \/ \E saved \in {disk, WriteDocument} : OnCloseDocument(saved)
           \/ OnNewDocument \/ OnOpenDocument
  BY <1>2, DocumentInv
<1>3. CASE \E t \in Testers : \/ StartTest(t) \/ Cancel(t) \/ SetTesting(t)
                                \/ Run(t) \/ End(t) \/ Stray(t)
  BY <1>3, StartInv, PhaseInv
<1>4. CASE \E t \in Testers : \E clients, server : Confirm(t, clients, server)
  BY <1>4, PhaseInv
<1>5. CASE UNCHANGED topoVars
  BY <1>5, EditInv DEF topoVars, docVars
<1>6. QED
  BY <1>1, <1>2, <1>3, <1>4, <1>5 DEF TopologyNext

\* A document cannot be closed under a test from the raising of its flag to its end,
\* unless two tests overlapped: CanCloseFrame and OnCloseDocument ask mTesting alone,
\* which is not set yet while the dialog is shown and the files are written.
THEOREM TestsKeepDocument == TopologySpec => []TestKeepsDocument
<1>1. TestInv => TestKeepsDocument
  BY DEF TestInv, TestKeepsDocument
<1>2. QED
  BY <1>1, TopologyInitInv, TopologyStep, PTL DEF TopologySpec

-----------------------------------------------------------------------------
(* Entries of a sequence at some of its places.                            *)

\* The place of the k-th of them.
Nth(S, k) == CHOOSE n \in S : Cardinality(Before(S, n)) = k - 1

\* The places are numbered without gaps: the number of those before a place tells
\* which one it is.
LEMMA Ranks ==
  ASSUME NEW S \in SUBSET Nat, IsFiniteSet(S)
  PROVE  /\ Cardinality(S) \in Nat
         /\ \A n \in S : Cardinality(Before(S, n)) \in 0 .. (Cardinality(S) - 1)
         /\ \A n, o \in S : n # o => Cardinality(Before(S, n)) # Cardinality(Before(S, o))
         /\ \A r \in 0 .. (Cardinality(S) - 1) : \E n \in S : Cardinality(Before(S, n)) = r
<1>1. Cardinality(S) \in Nat
  BY FS_CardinalityType
<1>2. ASSUME NEW n \in S
      PROVE  /\ IsFiniteSet(Before(S, n)) /\ Cardinality(Before(S, n)) \in Nat
             /\ Cardinality(Before(S, n) \cup {n}) = Cardinality(Before(S, n)) + 1
             /\ Cardinality(Before(S, n)) \in 0 .. (Cardinality(S) - 1)
  <2>1. Before(S, n) \in SUBSET S /\ n \notin Before(S, n)
    BY DEF Before
  <2>2. IsFiniteSet(Before(S, n)) /\ Cardinality(Before(S, n)) \in Nat
    BY <2>1, FS_Subset, FS_CardinalityType
  <2>3. Cardinality(Before(S, n) \cup {n}) = Cardinality(Before(S, n)) + 1
    BY <2>1, <2>2, FS_AddElement
  <2>4. Before(S, n) \cup {n} \in SUBSET S
    BY <2>1
  <2>5. Cardinality(Before(S, n) \cup {n}) <= Cardinality(S)
    BY <2>4, FS_Subset
  <2>6. QED
    BY <1>1, <2>2, <2>3, <2>5
<1>0. \A n \in S : n \in Nat /\ Cardinality(Before(S, n)) \in Nat
  BY <1>2
<1>3. ASSUME NEW n \in S, NEW o \in S, n < o
      PROVE  Cardinality(Before(S, n)) < Cardinality(Before(S, o))
  <2>1. n \in Nat /\ o \in Nat /\ IsFiniteSet(Before(S, o))
    BY <1>0, <1>2
  <2>2. \A m \in Before(S, n) : m \in Before(S, o)
    <3> SUFFICES ASSUME NEW m \in Before(S, n) PROVE m \in Before(S, o)
      OBVIOUS
    <3>1. m \in S /\ m < n /\ m \in Nat
      BY <1>0 DEF Before
    <3>2. QED
      BY <1>3, <2>1, <3>1 DEF Before
  <2>3. n \in Before(S, o)
    BY <1>3 DEF Before
  <2>4. Before(S, n) \cup {n} \in SUBSET Before(S, o)
    BY <2>2, <2>3
  <2>5. Cardinality(Before(S, n) \cup {n}) <= Cardinality(Before(S, o))
    BY <2>1, <2>4, FS_Subset
  <2>6. Cardinality(Before(S, n) \cup {n}) = Cardinality(Before(S, n)) + 1
    BY <1>2
  <2>7. QED
    BY <1>0, <2>5, <2>6
<1>4. ASSUME NEW n \in S, NEW o \in S, n # o
      PROVE  Cardinality(Before(S, n)) # Cardinality(Before(S, o))
  <2>1. /\ n \in Nat /\ o \in Nat
        /\ Cardinality(Before(S, n)) \in Nat /\ Cardinality(Before(S, o)) \in Nat
    BY <1>0
  <2>2. CASE n < o
    <3>1. Cardinality(Before(S, n)) < Cardinality(Before(S, o))
      BY <1>3, <2>2
    <3>2. QED
      BY <2>1, <3>1
  <2>3. CASE o < n
    <3>1. Cardinality(Before(S, o)) < Cardinality(Before(S, n))
      BY <1>3, <2>3
    <3>2. QED
      BY <2>1, <3>1
  <2>4. QED
    BY <1>4, <2>1, <2>2, <2>3
<1>5. PICK f : f = [n \in S |-> Cardinality(Before(S, n))]
  OBVIOUS
<1>6. PICK T : T = 0 .. (Cardinality(S) - 1)
  OBVIOUS
<1>7. IsFiniteSet(T) /\ Cardinality(T) = Cardinality(S)
  BY <1>1, <1>6, FS_Interval
<1>8. f \in Injection(S, T)
  BY <1>2, <1>4, <1>5, <1>6 DEF Injection, IsInjective
<1>9. f \in Surjection(S, T)
  BY <1>7, <1>8, FS_Injection
<1>10. \A r \in T : \E n \in S : f[n] = r
  BY <1>9 DEF Surjection
<1>11. QED
  BY <1>1, <1>2, <1>4, <1>5, <1>6, <1>10

\* The k-th place is one of them, and every place is the k-th for one k.
LEMMA NthFacts ==
  ASSUME NEW S \in SUBSET Nat, IsFiniteSet(S)
  PROVE  /\ Cardinality(S) \in Nat
         /\ \A k \in 1 .. Cardinality(S) : Nth(S, k) \in S
         /\ \A k, l \in 1 .. Cardinality(S) : Nth(S, k) = Nth(S, l) => k = l
         /\ \A n \in S : \E k \in 1 .. Cardinality(S) : Nth(S, k) = n
<1>1. Cardinality(S) \in Nat
  BY Ranks
<1>2. ASSUME NEW k \in 1 .. Cardinality(S)
      PROVE  Nth(S, k) \in S /\ Cardinality(Before(S, Nth(S, k))) = k - 1
  <2>1. k - 1 \in 0 .. (Cardinality(S) - 1)
    BY <1>1
  <2>2. \E n \in S : Cardinality(Before(S, n)) = k - 1
    BY <2>1, Ranks
  <2>3. QED
    BY <2>2 DEF Nth
<1>3. ASSUME NEW n \in S PROVE \E k \in 1 .. Cardinality(S) : Nth(S, k) = n
  <2>1. PICK k : k = Cardinality(Before(S, n)) + 1
    OBVIOUS
  <2>2. k \in 1 .. Cardinality(S) /\ Cardinality(Before(S, n)) = k - 1
    BY <1>1, <2>1, Ranks
  <2>3. Nth(S, k) \in S /\ Cardinality(Before(S, Nth(S, k))) = k - 1
    BY <1>2, <2>2
  <2>4. Nth(S, k) = n
    BY <2>2, <2>3, Ranks
  <2>5. QED
    BY <2>2, <2>4
<1>4. \A k, l \in 1 .. Cardinality(S) : Nth(S, k) = Nth(S, l) => k = l
  <2> SUFFICES ASSUME NEW k \in 1 .. Cardinality(S), NEW l \in 1 .. Cardinality(S), Nth(S, k) = Nth(S, l)
               PROVE  k = l
    OBVIOUS
  <2>1. k - 1 = l - 1
    BY <1>2
  <2>2. QED
    BY <1>1, <2>1
<1>5. QED
  BY <1>1, <1>2, <1>3, <1>4

\* What AtPlaces returns.
LEMMA AtPlacesFacts ==
  ASSUME NEW seq, NEW S \in SUBSET Nat, IsFiniteSet(S)
  PROVE  /\ Len(AtPlaces(seq, S)) = Cardinality(S) /\ DOMAIN AtPlaces(seq, S) = 1 .. Cardinality(S)
         /\ AtPlaces(seq, S) = [k \in 1 .. Cardinality(S) |-> seq[Nth(S, k)]]
         /\ \A k \in 1 .. Cardinality(S) : AtPlaces(seq, S)[k] = seq[Nth(S, k)]
<1>1. AtPlaces(seq, S) = [k \in 1 .. Cardinality(S) |-> seq[Nth(S, k)]]
  BY DEF AtPlaces, Nth
<1>2. Cardinality(S) \in Nat
  BY FS_CardinalityType
<1>3. Len(AtPlaces(seq, S)) = Cardinality(S)
  BY <1>1, <1>2
<1>4. QED
  BY <1>1, <1>3

-----------------------------------------------------------------------------
(* Reading the lines of a file.                                            *)

\* A sequence of one sequence is flat.
LEMMA FlattenOne ==
  ASSUME NEW seqs, Len(seqs) = 1
  PROVE  FlattenSeq(seqs) = seqs[1]
<1> DEFINE flatten == CHOOSE f : f = [i \in 1 .. Len(seqs) |-> IF i = 1 THEN seqs[i] ELSE f[i - 1] \o seqs[i]]
<1>1. \E f : f = [i \in 1 .. Len(seqs) |-> IF i = 1 THEN seqs[i] ELSE f[i - 1] \o seqs[i]]
  <2>1. [i \in 1 .. 1 |-> seqs[i]] =
        [i \in 1 .. 1 |-> IF i = 1 THEN seqs[i] ELSE [j \in 1 .. 1 |-> seqs[j]][i - 1] \o seqs[i]]
    OBVIOUS
  <2>2. QED
    BY <2>1
<1>2. flatten = [i \in 1 .. Len(seqs) |-> IF i = 1 THEN seqs[i] ELSE flatten[i - 1] \o seqs[i]]
  BY <1>1
<1>3. FlattenSeq(seqs) = flatten[Len(seqs)]
  BY DEF FlattenSeq
<1> HIDE DEF flatten
<1>4. flatten[1] = seqs[1]
  BY <1>2
<1>5. QED
  BY <1>3, <1>4

\* An element without a line gets no links.
LEMMA ReadNone ==
  ASSUME NEW lines, NEW p, \A n \in DOMAIN lines : lines[n].from + 1 # p
  PROVE  ReadLinks(lines, p) = <<>>
<1>1. {n \in DOMAIN lines : lines[n].from + 1 = p} = {}
  OBVIOUS
<1>2. PICK those : those = AtPlaces(lines, {n \in DOMAIN lines : lines[n].from + 1 = p})
  OBVIOUS
<1>3. DOMAIN those = 1 .. 0
  BY <1>1, <1>2, FS_EmptySet DEF AtPlaces
<1> DEFINE Read(to) == [k \in DOMAIN to |-> [to |-> to[k].index + 1, connector |-> to[k].connector]]
           seqs == [n \in DOMAIN those |-> Read(those[n].to)]
<1>4. ReadLinks(lines, p) = FlattenSeq(seqs)
  BY <1>2 DEF ReadLinks
<1>5. seqs = <<>>
  BY <1>3
<1> HIDE DEF seqs
<1>6. QED
  BY <1>4, <1>5 DEF FlattenSeq

\* An element with one line gets the links of that line.
LEMMA ReadOne ==
  ASSUME NEW lines, NEW p, DOMAIN lines \subseteq Nat, NEW n \in DOMAIN lines, lines[n].from + 1 = p,
         \A o \in DOMAIN lines : lines[o].from + 1 = p => o = n
  PROVE  ReadLinks(lines, p) =
           [k \in DOMAIN lines[n].to |-> [to |-> lines[n].to[k].index + 1, connector |-> lines[n].to[k].connector]]
<1>1. {o \in DOMAIN lines : lines[o].from + 1 = p} = {n}
  OBVIOUS
<1>2. PICK those : those = AtPlaces(lines, {o \in DOMAIN lines : lines[o].from + 1 = p})
  OBVIOUS
<1>3. /\ {n} \in SUBSET Nat /\ IsFiniteSet({n}) /\ Cardinality({n}) = 1
  BY FS_Singleton
<1>4. /\ DOMAIN those = 1 .. 1 /\ those[1] = lines[n]
  <2>1. PICK S : S = {n}
    OBVIOUS
  <2>2. S \in SUBSET Nat /\ IsFiniteSet(S) /\ Cardinality(S) = 1
    BY <1>3, <2>1
  <2>3. AtPlaces(lines, S) = [k \in 1 .. 1 |-> lines[Nth(S, k)]]
    BY <2>2 DEF AtPlaces, Nth
  <2>4. Nth(S, 1) \in S
    BY <2>2, NthFacts
  <2>5. those = AtPlaces(lines, S)
    BY <1>1, <1>2, <2>1
  <2>6. QED
    BY <2>1, <2>3, <2>4, <2>5
<1> DEFINE Read(to) == [k \in DOMAIN to |-> [to |-> to[k].index + 1, connector |-> to[k].connector]]
           seqs == [m \in DOMAIN those |-> Read(those[m].to)]
<1>5. ReadLinks(lines, p) = FlattenSeq(seqs)
  BY <1>2 DEF ReadLinks
<1>6. Len(seqs) = 1 /\ seqs[1] = Read(lines[n].to)
  BY <1>4
<1> HIDE DEF seqs, Read
<1>7. ReadLinks(lines, p) = Read(lines[n].to)
  BY <1>5, <1>6, FlattenOne
<1>8. QED
  BY <1>7 DEF Read

-----------------------------------------------------------------------------
(* The document: its array, indices and links, and the file they are saved in. *)

LinkRecords    == [to : Nat, connector : Connectors]
ElementTypes   == Simulated \cup Real \cup {"freed"}
ElementRecords == [Type : ElementTypes, Index : Nat, links : Seq(LinkRecords)]

DocumentType ==
  /\ mArrayElements \in Seq(Elements) /\ Count <= MaxElements
  /\ element \in [Elements -> ElementRecords]

\* The array, the indices and the links fit.
Fits ==
  /\ \A n \in DOMAIN mArrayElements : element[mArrayElements[n]].Index = n - 1
  /\ \A x \in InDocument : LinkedTo(x) \subseteq InDocument
  /\ \A x, y \in InDocument : Cardinality(Links(x, y)) = Cardinality(Links(y, x))

\* The entries of an array of links that lead somewhere.
Leading(links, y) == {k \in DOMAIN links : links[k].to = y}

\* What a file gives when it is opened: links of the right type, and links from both
\* ends if its indices fit.
FileFits(file) ==
  /\ \A p \in 1 .. Len(file.elements) : file.elements[p].Index + 1 = p
  /\ \A n \in DOMAIN file.links : \A k \in DOMAIN file.links[n].to :
       ~(file.links[n].to[k].index >= Len(file.elements))

FileInv(file) ==
  /\ file.elements \in Seq([Type : ElementTypes, Index : Nat]) /\ Len(file.elements) <= MaxElements
  /\ \A p \in 1 .. Len(file.elements) : ReadLinks(file.links, p) \in Seq(LinkRecords)
  /\ FileFits(file) =>
       /\ \A p \in 1 .. Len(file.elements) : \A k \in DOMAIN ReadLinks(file.links, p) :
            ReadLinks(file.links, p)[k].to \in 1 .. Len(file.elements)
       /\ \A p, q \in 1 .. Len(file.elements) :
            Cardinality(Leading(ReadLinks(file.links, p), q)) =
              Cardinality(Leading(ReadLinks(file.links, q), p))

\* The inductive invariant.  A file need not fit: real hosts are left out of it, and the
\* indices of those behind them stay.  Then skewed or asserted is set when it is opened.
DocInv ==
  /\ DocumentType
  /\ ~skewed /\ ~asserted => Fits
  /\ FileInv(disk)

\* The places of the array.
LEMMA Places ==
  ASSUME DocumentType
  PROVE  /\ Count \in Nat /\ DOMAIN mArrayElements = 1 .. Count /\ Indices = 0 .. (Count - 1)
         /\ \A n \in 1 .. Count : mArrayElements[n] \in InDocument
         /\ \A x \in InDocument : \E n \in 1 .. Count : x = mArrayElements[n]
         /\ InDocument \subseteq Elements
<1>1. /\ Count \in Nat /\ DOMAIN mArrayElements = 1 .. Count /\ Indices = 0 .. (Count - 1)
      /\ \A n \in 1 .. Count : mArrayElements[n] \in Elements
  BY DEF DocumentType, Count, Indices
<1>2. \A n \in 1 .. Count : mArrayElements[n] \in InDocument
  <2> SUFFICES ASSUME NEW n \in 1 .. Count PROVE mArrayElements[n] \in InDocument
    OBVIOUS
  <2>1. n - 1 \in Indices /\ GetItemData(n - 1) = mArrayElements[n]
    BY <1>1 DEF GetItemData
  <2>2. QED
    BY <2>1 DEF InDocument
<1>3. \A x \in InDocument : \E n \in 1 .. Count : x = mArrayElements[n]
  <2> SUFFICES ASSUME NEW i \in Indices PROVE \E n \in 1 .. Count : GetItemData(i) = mArrayElements[n]
    BY DEF InDocument
  <2>1. i + 1 \in 1 .. Count
    BY <1>1
  <2>2. QED
    BY <2>1 DEF GetItemData
<1>4. QED
  BY <1>1, <1>2, <1>3

\* The elements of some types stand at some of the places.
LEMMA Kinds ==
  ASSUME DocumentType, NEW types
  PROVE  /\ PlacesOf(types) \in SUBSET Nat /\ PlacesOf(types) \subseteq 1 .. Count
         /\ IsFiniteSet(PlacesOf(types))
         /\ Cardinality(PlacesOf(types)) \in Nat /\ Cardinality(PlacesOf(types)) <= Count
         /\ Those(types) = [k \in 1 .. Cardinality(PlacesOf(types)) |-> mArrayElements[Nth(PlacesOf(types), k)]]
<1>1. PlacesOf(types) \in SUBSET (1 .. Count) /\ Count \in Nat
  BY Places DEF PlacesOf
<1>2. IsFiniteSet(1 .. Count) /\ Cardinality(1 .. Count) = Count
  BY <1>1, FS_Interval
<1>3. IsFiniteSet(PlacesOf(types)) /\ Cardinality(PlacesOf(types)) <= Count
  BY <1>1, <1>2, FS_Subset
<1>4. Cardinality(PlacesOf(types)) \in Nat
  BY <1>3, FS_CardinalityType
<1>5. Those(types) = [k \in 1 .. Cardinality(PlacesOf(types)) |-> mArrayElements[Nth(PlacesOf(types), k)]]
  BY DEF Those, AtPlaces, Nth
<1>6. QED
  BY <1>1, <1>3, <1>4, <1>5

\* The line of an element with links, and what is read of it.
LineOf(x) ==
  [from |-> element[x].Index,
   to   |-> [k \in DOMAIN element[x].links |->
               [index     |-> element[element[x].links[k].to].Index,
                connector |-> element[x].links[k].connector]]]
Resolved(x) ==
  [k \in DOMAIN element[x].links |->
     [to        |-> element[element[x].links[k].to].Index + 1,
      connector |-> element[x].links[k].connector]]

\* The file of n elements kept: in the order of the array, with a line for each
\* element that has links.
WrittenAs(file, kept, n) ==
  /\ n \in Nat /\ n <= Count /\ Len(file.elements) = n
  /\ \A k \in 1 .. n : Nth(kept, k) \in kept
  /\ \A k, l \in 1 .. n : Nth(kept, k) = Nth(kept, l) => k = l
  /\ \A m \in kept : m \in 1 .. Count /\ \E k \in 1 .. n : Nth(kept, k) = m
  /\ file.elements = [k \in 1 .. n |-> [Type  |-> element[mArrayElements[Nth(kept, k)]].Type,
                                        Index |-> element[mArrayElements[Nth(kept, k)]].Index]]
  /\ \E lines, S : /\ lines = [k \in 1 .. n |-> LineOf(mArrayElements[Nth(kept, k)])]
                   /\ S = {k \in 1 .. n : lines[k].to # <<>>}
                   /\ file.links = AtPlaces(lines, S)

\* So a document is written, the elements that are not simulated left out.
LEMMA Written ==
  ASSUME DocumentType
  PROVE  WrittenAs(WriteDocument, PlacesOf(Simulated), Cardinality(PlacesOf(Simulated)))
<1> SUFFICES ASSUME NEW file, file = WriteDocument,
                    NEW kept, kept = PlacesOf(Simulated), NEW n, n = Cardinality(kept)
             PROVE  WrittenAs(file, kept, n)
  OBVIOUS
<1>1. /\ kept \in SUBSET Nat /\ kept \subseteq 1 .. Count /\ IsFiniteSet(kept) /\ n \in Nat /\ n <= Count
      /\ Those(Simulated) = [k \in 1 .. n |-> mArrayElements[Nth(kept, k)]]
  BY Kinds
<1>2. /\ \A k \in 1 .. n : Nth(kept, k) \in kept
      /\ \A k, l \in 1 .. n : Nth(kept, k) = Nth(kept, l) => k = l
      /\ \A m \in kept : \E k \in 1 .. n : Nth(kept, k) = m
  BY <1>1, NthFacts
<1>3. file.elements = [k \in 1 .. n |-> [Type  |-> element[mArrayElements[Nth(kept, k)]].Type,
                                         Index |-> element[mArrayElements[Nth(kept, k)]].Index]]
  BY <1>1 DEF WriteDocument
<1>4. Len(file.elements) = n
  BY <1>1, <1>3
<1>5. \E lines, S : /\ lines = [k \in 1 .. n |-> LineOf(mArrayElements[Nth(kept, k)])]
                    /\ S = {k \in 1 .. n : lines[k].to # <<>>}
                    /\ file.links = AtPlaces(lines, S)
  <2>1. PICK all : all = Those(Simulated)
    OBVIOUS
  <2>2. PICK lines : lines = [k \in DOMAIN all |-> LineOf(all[k])]
    OBVIOUS
  <2>3. file.links = AtPlaces(lines, {k \in DOMAIN lines : lines[k].to # <<>>})
    BY <2>1, <2>2 DEF WriteDocument, LineOf
  <2>4. lines = [k \in 1 .. n |-> LineOf(mArrayElements[Nth(kept, k)])]
    BY <1>1, <2>1, <2>2
  <2>5. DOMAIN lines = 1 .. n
    BY <2>4
  <2>6. QED
    BY <2>3, <2>4, <2>5
<1>6. QED
  BY <1>1, <1>2, <1>3, <1>4, <1>5 DEF WrittenAs

\* A place with an element is known by the index of the element.
LEMMA PlaceOfIndex ==
  ASSUME DocumentType, Fits
  PROVE  /\ \A p \in 1 .. Count : element[mArrayElements[p]].Index = p - 1
         /\ \A p, q \in 1 .. Count : mArrayElements[p] = mArrayElements[q] => p = q
<1>1. Count \in Nat /\ DOMAIN mArrayElements = 1 .. Count
  BY Places
<1>2. \A p \in 1 .. Count : element[mArrayElements[p]].Index = p - 1
  BY <1>1 DEF Fits
<1>3. ASSUME NEW p \in 1 .. Count, NEW q \in 1 .. Count, mArrayElements[p] = mArrayElements[q]
      PROVE  p = q
  <2>1. p - 1 = q - 1
    BY <1>2, <1>3
  <2>2. QED
    BY <1>1, <2>1
<1>4. QED
  BY <1>2, <1>3

\* An element of the document, all of whose links lead to elements of the document.
LeadsInside(x) ==
  /\ x \in Elements /\ x \in InDocument
  /\ element[x].links \in Seq(LinkRecords)
  /\ \A k \in DOMAIN element[x].links :
       \E q \in 1 .. Count : /\ element[x].links[k].to = mArrayElements[q]
                             /\ element[element[x].links[k].to].Index = q - 1

\* The elements at the places of the array are such.
LEMMA Targets ==
  ASSUME DocumentType, Fits, NEW p \in 1 .. Count
  PROVE  LeadsInside(mArrayElements[p])
<1> SUFFICES ASSUME NEW x, x = mArrayElements[p] PROVE LeadsInside(x)
  OBVIOUS
<1>1. x \in InDocument /\ x \in Elements
  BY Places
<1>2. element[x].links \in Seq(LinkRecords)
  BY <1>1 DEF DocumentType, ElementRecords
<1>3. ASSUME NEW k \in DOMAIN element[x].links
      PROVE  \E q \in 1 .. Count : /\ element[x].links[k].to = mArrayElements[q]
                                   /\ element[element[x].links[k].to].Index = q - 1
  <2>1. element[x].links[k].to \in LinkedTo(x)
    BY DEF LinkedTo
  <2>2. element[x].links[k].to \in InDocument
    BY <1>1, <2>1 DEF Fits
  <2>3. PICK q \in 1 .. Count : element[x].links[k].to = mArrayElements[q]
    BY <2>2, Places
  <2>4. QED
    BY <2>3, PlaceOfIndex
<1>4. QED
  BY <1>1, <1>2, <1>3 DEF LeadsInside

\* What is read from a saved document for each place: the links of the element there,
\* their targets by index, if it was saved.
LEMMA ReadBack ==
  ASSUME DocumentType, Fits, NEW file, file = WriteDocument,
         NEW kept, kept = PlacesOf(Simulated)
  PROVE  /\ \A p : p \notin kept => ReadLinks(file.links, p) = <<>>
         /\ \A p \in kept : ReadLinks(file.links, p) = Resolved(mArrayElements[p])
         /\ \A p \in kept : element[mArrayElements[p]].links # <<>> =>
              \E j \in DOMAIN file.links : file.links[j] = LineOf(mArrayElements[p])
<1>1. PICK n : n = Cardinality(kept) /\ WrittenAs(file, kept, n)
  BY Written
<1>2. /\ n \in Nat /\ n <= Count
      /\ \A k \in 1 .. n : Nth(kept, k) \in kept
      /\ \A k, l \in 1 .. n : Nth(kept, k) = Nth(kept, l) => k = l
      /\ \A m \in kept : m \in 1 .. Count /\ \E k \in 1 .. n : Nth(kept, k) = m
  BY <1>1 DEF WrittenAs
<1>3. PICK lines, S : /\ lines = [k \in 1 .. n |-> LineOf(mArrayElements[Nth(kept, k)])]
                      /\ S = {k \in 1 .. n : lines[k].to # <<>>}
                      /\ file.links = AtPlaces(lines, S)
  BY <1>1 DEF WrittenAs
<1>4. S \in SUBSET Nat /\ IsFiniteSet(S) /\ S \subseteq 1 .. n
  <2>1. S \in SUBSET (1 .. n) /\ S \in SUBSET Nat
    BY <1>2, <1>3
  <2>2. IsFiniteSet(1 .. n)
    BY <1>2, FS_Interval
  <2>3. QED
    BY <2>1, <2>2, FS_Subset
<1>5. PICK m : m = Cardinality(S)
  OBVIOUS
<1>6. /\ m \in Nat
      /\ \A j \in 1 .. m : Nth(S, j) \in S
      /\ \A j, l \in 1 .. m : Nth(S, j) = Nth(S, l) => j = l
      /\ \A k \in S : \E j \in 1 .. m : Nth(S, j) = k
  BY <1>4, <1>5, NthFacts
<1>7. /\ DOMAIN file.links = 1 .. m
      /\ \A j \in 1 .. m : file.links[j] = lines[Nth(S, j)]
  BY <1>3, <1>5 DEF AtPlaces, Nth
<1>8. ASSUME NEW k \in 1 .. n
      PROVE  /\ Nth(kept, k) \in 1 .. Count
             /\ lines[k] = LineOf(mArrayElements[Nth(kept, k)])
             /\ lines[k].from + 1 = Nth(kept, k)
  <2>1. Nth(kept, k) \in 1 .. Count /\ Nth(kept, k) \in Nat
    BY <1>2
  <2>2. element[mArrayElements[Nth(kept, k)]].Index = Nth(kept, k) - 1
    BY <2>1, PlaceOfIndex
  <2>3. PICK x : x = mArrayElements[Nth(kept, k)]
    OBVIOUS
  <2>4. lines[k] = LineOf(x)
    BY <1>3, <2>3
  <2>5. LineOf(x).from = element[x].Index
    BY DEF LineOf
  <2>6. lines[k].from + 1 = Nth(kept, k)
    BY <2>1, <2>2, <2>3, <2>4, <2>5
  <2>7. QED
    BY <2>1, <2>3, <2>4, <2>6
<1>9. \A j \in 1 .. m : /\ Nth(S, j) \in 1 .. n
                        /\ file.links[j].from + 1 = Nth(kept, Nth(S, j))
  BY <1>4, <1>6, <1>7, <1>8
<1>10. ASSUME NEW p, p \notin kept PROVE ReadLinks(file.links, p) = <<>>
  <2>1. \A j \in DOMAIN file.links : file.links[j].from + 1 # p
    BY <1>2, <1>7, <1>9, <1>10
  <2>2. QED
    BY <2>1, ReadNone
<1>11. ASSUME NEW p \in kept, NEW x, x = mArrayElements[p]
       PROVE  /\ ReadLinks(file.links, p) = Resolved(x)
              /\ element[x].links # <<>> => \E j \in DOMAIN file.links : file.links[j] = LineOf(x)
  <2>1. PICK k \in 1 .. n : Nth(kept, k) = p
    BY <1>2
  <2>2. lines[k] = LineOf(x) /\ lines[k].from + 1 = p
    BY <1>8, <1>11, <2>1
  <2>3. \A j \in DOMAIN file.links : file.links[j].from + 1 = p => Nth(S, j) = k
    BY <1>2, <1>7, <1>9, <2>1
  <2>4. CASE element[x].links = <<>>
    <3>1. lines[k].to = <<>>
      BY <2>2, <2>4 DEF LineOf
    <3>2. k \notin S
      BY <1>3, <3>1
    <3>3. \A j \in DOMAIN file.links : file.links[j].from + 1 # p
      BY <1>6, <1>7, <2>3, <3>2
    <3>4. ReadLinks(file.links, p) = <<>>
      BY <3>3, ReadNone
    <3>5. Resolved(x) = <<>>
      BY <2>4 DEF Resolved
    <3>6. QED
      BY <2>4, <3>4, <3>5
  <2>5. CASE element[x].links # <<>>
    <3>0. p \in 1 .. Count
      BY <1>2
    <3>1. element[x].links \in Seq(LinkRecords)
      BY <1>11, <3>0, Targets DEF LeadsInside
    <3>2. Len(element[x].links) \in Nat /\ DOMAIN element[x].links = 1 .. Len(element[x].links)
          /\ Len(element[x].links) # 0
      BY <2>5, <3>1
    <3>3. lines[k].to # <<>>
      <4>1. DOMAIN lines[k].to = 1 .. Len(element[x].links)
        BY <2>2, <3>2 DEF LineOf
      <4>2. 1 \in DOMAIN lines[k].to
        BY <3>2, <4>1
      <4>3. QED
        BY <4>2
    <3>4. k \in S
      BY <1>3, <3>3
    <3>5. PICK j \in 1 .. m : Nth(S, j) = k
      BY <1>6, <3>4
    <3>6. file.links[j] = LineOf(x) /\ file.links[j].from + 1 = p
      BY <1>7, <2>2, <3>5
    <3>7. \A o \in DOMAIN file.links : file.links[o].from + 1 = p => o = j
      BY <1>6, <1>7, <2>3, <3>5
    <3>8. j \in DOMAIN file.links /\ DOMAIN file.links \subseteq Nat
      BY <1>7
    <3>9. PICK links : links = file.links
      OBVIOUS
    <3>10. ReadLinks(links, p) =
             [l \in DOMAIN links[j].to |-> [to        |-> links[j].to[l].index + 1,
                                            connector |-> links[j].to[l].connector]]
      BY <3>6, <3>7, <3>8, <3>9, ReadOne
    <3>11. ReadLinks(file.links, p) = Resolved(x)
      <4>1. PICK to : to = LineOf(x).to
        OBVIOUS
      <4>2. to = [l \in DOMAIN element[x].links |->
                    [index     |-> element[element[x].links[l].to].Index,
                     connector |-> element[x].links[l].connector]]
        BY <4>1 DEF LineOf
      <4>3. ReadLinks(file.links, p) =
              [l \in DOMAIN to |-> [to |-> to[l].index + 1, connector |-> to[l].connector]]
        BY <3>6, <3>9, <3>10, <4>1
      <4>4. QED
        BY <4>2, <4>3 DEF Resolved
    <3>12. QED
      BY <3>6, <3>8, <3>11
  <2>6. QED
    BY <2>4, <2>5
<1>12. QED
  BY <1>10, <1>11

\* What is read of the line of an element are its links, place for place.
LEMMA ResolvedLinks ==
  ASSUME DocumentType, Fits, NEW p \in 1 .. Count
  PROVE  /\ Resolved(mArrayElements[p]) \in Seq(LinkRecords)
         /\ \A q \in 1 .. Count :
              Leading(Resolved(mArrayElements[p]), q) = Links(mArrayElements[p], mArrayElements[q])
<1>1. PICK x : x = mArrayElements[p]
  OBVIOUS
<1>2. /\ element[x].links \in Seq(LinkRecords)
      /\ \A k \in DOMAIN element[x].links :
           \E q \in 1 .. Count : /\ element[x].links[k].to = mArrayElements[q]
                                 /\ element[element[x].links[k].to].Index = q - 1
  BY <1>1, Targets DEF LeadsInside
<1>3. PICK l : l = Len(element[x].links)
  OBVIOUS
<1>4. l \in Nat /\ DOMAIN element[x].links = 1 .. l /\ Count \in Nat
      /\ \A k \in 1 .. l : element[x].links[k].connector \in Connectors
  <2>1. l \in Nat /\ DOMAIN element[x].links = 1 .. l
    BY <1>2, <1>3
  <2>2. \A k \in 1 .. l : element[x].links[k] \in LinkRecords
    BY <1>2, <1>3
  <2>3. QED
    BY <2>1, <2>2, Places DEF LinkRecords
<1>5. PICK read : read = Resolved(x)
  OBVIOUS
<1>6. /\ DOMAIN read = 1 .. l
      /\ read = [k \in 1 .. l |-> read[k]]
      /\ \A k \in 1 .. l : read[k] = [to        |-> element[element[x].links[k].to].Index + 1,
                                      connector |-> element[x].links[k].connector]
  BY <1>4, <1>5 DEF Resolved
<1>7. ASSUME NEW k \in 1 .. l PROVE read[k] \in LinkRecords
  <2>1. PICK q \in 1 .. Count : element[element[x].links[k].to].Index = q - 1
    BY <1>2, <1>4
  <2>2. element[element[x].links[k].to].Index + 1 \in Nat
    BY <2>1
  <2>3. QED
    BY <1>4, <1>6, <2>2 DEF LinkRecords
<1>8. read \in Seq(LinkRecords)
  BY <1>4, <1>6, <1>7
<1>9. ASSUME NEW q \in 1 .. Count, NEW k \in 1 .. l
      PROVE  read[k].to = q <=> element[x].links[k].to = mArrayElements[q]
  <2>1. PICK r \in 1 .. Count : /\ element[x].links[k].to = mArrayElements[r]
                                /\ element[element[x].links[k].to].Index = r - 1
    BY <1>2, <1>4
  <2>2. read[k].to = r - 1 + 1
    BY <1>6, <2>1
  <2>3. read[k].to = r
    BY <2>2
  <2>4. mArrayElements[r] = mArrayElements[q] => r = q
    BY PlaceOfIndex
  <2>5. QED
    BY <2>1, <2>3, <2>4
<1>10. ASSUME NEW q \in 1 .. Count
       PROVE  Leading(read, q) = Links(x, mArrayElements[q])
  BY <1>4, <1>6, <1>9 DEF Leading, Links
<1>11. QED
  BY <1>1, <1>5, <1>8, <1>10

\* A saved document is a file that can be opened; if all its indices fit, which
\* nothing left out before another element makes sure of, so do its links.
LEMMA WriteInv == DocumentType /\ Fits => FileInv(WriteDocument)
<1> SUFFICES ASSUME DocumentType, Fits, NEW file, file = WriteDocument
             PROVE  FileInv(file)
  OBVIOUS
<1>1. PICK kept, n : kept = PlacesOf(Simulated) /\ n = Cardinality(kept) /\ WrittenAs(file, kept, n)
  BY Written
<1>2. /\ n \in Nat /\ n <= Count /\ Len(file.elements) = n /\ Count \in Nat
      /\ \A k \in 1 .. n : Nth(kept, k) \in kept
      /\ \A m \in kept : m \in 1 .. Count /\ \E k \in 1 .. n : Nth(kept, k) = m
      /\ file.elements = [k \in 1 .. n |-> [Type  |-> element[mArrayElements[Nth(kept, k)]].Type,
                                            Index |-> element[mArrayElements[Nth(kept, k)]].Index]]
  BY <1>1, Places DEF WrittenAs
<1>3. /\ \A p : p \notin kept => ReadLinks(file.links, p) = <<>>
      /\ \A p \in kept : ReadLinks(file.links, p) = Resolved(mArrayElements[p])
      /\ \A p \in kept : element[mArrayElements[p]].links # <<>> =>
           \E j \in DOMAIN file.links : file.links[j] = LineOf(mArrayElements[p])
  BY <1>1, ReadBack
<1>4. file.elements \in Seq([Type : ElementTypes, Index : Nat]) /\ Len(file.elements) <= MaxElements
  <2>1. ASSUME NEW k \in 1 .. n
        PROVE  file.elements[k] \in [Type : ElementTypes, Index : Nat]
    <3>1. Nth(kept, k) \in 1 .. Count
      BY <1>2
    <3>2. PICK x : x = mArrayElements[Nth(kept, k)]
      OBVIOUS
    <3>3. x \in Elements
      BY <3>1, <3>2, Places
    <3>4. element[x] \in ElementRecords
      BY <3>3 DEF DocumentType
    <3>5. QED
      BY <1>2, <3>2, <3>4 DEF ElementRecords
  <2>2. file.elements = [k \in 1 .. n |-> file.elements[k]]
    BY <1>2
  <2>3. file.elements \in Seq([Type : ElementTypes, Index : Nat])
    BY <1>2, <2>1, <2>2
  <2>4. MaxElements \in Nat /\ Count <= MaxElements
    BY TopologyAssumption DEF DocumentType
  <2>5. QED
    BY <1>2, <2>3, <2>4
<1>5. ASSUME NEW p \in 1 .. n PROVE ReadLinks(file.links, p) \in Seq(LinkRecords)
  <2>1. CASE p \in kept
    <3>1. p \in 1 .. Count
      BY <1>2, <2>1
    <3>2. Resolved(mArrayElements[p]) \in Seq(LinkRecords)
      BY <3>1, ResolvedLinks
    <3>3. QED
      BY <1>3, <2>1, <3>2
  <2>2. CASE p \notin kept
    <3>1. ReadLinks(file.links, p) = <<>>
      BY <1>3, <2>2
    <3>2. QED
      BY <3>1
  <2>3. QED
    BY <2>1, <2>2
<1>6. ASSUME FileFits(file)
      PROVE  /\ \A p \in 1 .. n : \A k \in DOMAIN ReadLinks(file.links, p) :
                  ReadLinks(file.links, p)[k].to \in 1 .. n
             /\ \A p, q \in 1 .. n :
                  Cardinality(Leading(ReadLinks(file.links, p), q)) =
                    Cardinality(Leading(ReadLinks(file.links, q), p))
  <2>1. ASSUME NEW p \in 1 .. n
        PROVE  /\ p \in kept /\ p \in 1 .. Count
               /\ ReadLinks(file.links, p) = Resolved(mArrayElements[p])
    <3>1. file.elements[p].Index + 1 = p
      BY <1>2, <1>6 DEF FileFits
    <3>2. PICK m : m = Nth(kept, p)
      OBVIOUS
    <3>3. m \in kept /\ m \in 1 .. Count
      BY <1>2, <3>2
    <3>4. file.elements[p].Index = m - 1
      <4>1. file.elements[p].Index = element[mArrayElements[m]].Index
        BY <1>2, <3>2
      <4>2. QED
        BY <3>3, <4>1, PlaceOfIndex
    <3>5. m = p
      BY <3>1, <3>3, <3>4
    <3>6. QED
      BY <1>3, <3>3, <3>5
  <2>2. ASSUME NEW p \in 1 .. n, NEW k \in DOMAIN ReadLinks(file.links, p)
        PROVE  ReadLinks(file.links, p)[k].to \in 1 .. n
    <3>1. PICK x : x = mArrayElements[p]
      OBVIOUS
    <3>2. ReadLinks(file.links, p) = Resolved(x) /\ p \in kept /\ p \in 1 .. Count
      BY <2>1, <3>1
    <3>3. /\ k \in DOMAIN element[x].links
          /\ Resolved(x)[k].to = element[element[x].links[k].to].Index + 1
      BY <2>2, <3>2 DEF Resolved
    <3>4. PICK q \in 1 .. Count : element[element[x].links[k].to].Index = q - 1
      BY <3>1, <3>2, <3>3, Targets DEF LeadsInside
    <3>5. element[x].links # <<>>
      BY <3>3
    <3>6. PICK j \in DOMAIN file.links : file.links[j] = LineOf(x)
      BY <1>3, <3>1, <3>2, <3>5
    <3>7. LineOf(x).to[k].index = q - 1 /\ k \in DOMAIN LineOf(x).to
      BY <3>3, <3>4 DEF LineOf
    <3>8. q - 1 < n
      BY <1>2, <1>6, <3>6, <3>7 DEF FileFits
    <3>9. Resolved(x)[k].to = q
      BY <3>3, <3>4
    <3>10. q \in 1 .. n
      BY <1>2, <3>8
    <3>11. QED
      BY <3>2, <3>9, <3>10
  <2>3. ASSUME NEW p \in 1 .. n, NEW q \in 1 .. n
        PROVE  Cardinality(Leading(ReadLinks(file.links, p), q)) =
                 Cardinality(Leading(ReadLinks(file.links, q), p))
    <3>1. /\ Leading(ReadLinks(file.links, p), q) = Links(mArrayElements[p], mArrayElements[q])
          /\ Leading(ReadLinks(file.links, q), p) = Links(mArrayElements[q], mArrayElements[p])
      BY <2>1, ResolvedLinks
    <3>2. mArrayElements[p] \in InDocument /\ mArrayElements[q] \in InDocument
      BY <2>1, Places
    <3>3. QED
      BY <3>1, <3>2 DEF Fits
  <2>4. QED
    BY <2>2, <2>3
<1>7. QED
  BY <1>2, <1>4, <1>5, <1>6 DEF FileInv

-----------------------------------------------------------------------------
(* The steps of the document.                                              *)

LEMMA DocInit == TopologyInit => DocInv
<1> SUFFICES ASSUME TopologyInit PROVE DocInv
  OBVIOUS
<1>1. mArrayElements = <<>> /\ element = [x \in Elements |-> Freed] /\ disk = NoDocument
  BY DEF TopologyInit
<1>2. Freed \in ElementRecords
  BY DEF Freed, NewElement, ElementRecords, ElementTypes
<1>3. DocumentType /\ Count = 0
  BY <1>1, <1>2, TopologyAssumption DEF DocumentType, Count
<1>4. InDocument = {}
  BY <1>3, Places
<1>5. Fits
  BY <1>1, <1>4 DEF Fits
<1>6. FileInv(NoDocument)
  BY TopologyAssumption DEF FileInv, NoDocument
<1>7. QED
  BY <1>1, <1>3, <1>5, <1>6 DEF DocInv

\* A link more leads to its end.
LEMMA LeadingAppend ==
  ASSUME NEW links \in Seq(LinkRecords), NEW link \in LinkRecords, NEW y
  PROVE  /\ IsFiniteSet(Leading(links, y)) /\ Cardinality(Leading(links, y)) \in Nat
         /\ link.to = y =>
              Cardinality(Leading(Append(links, link), y)) = Cardinality(Leading(links, y)) + 1
         /\ link.to # y => Leading(Append(links, link), y) = Leading(links, y)
<1>1. PICK l : l = Len(links)
  OBVIOUS
<1>2. l \in Nat /\ DOMAIN links = 1 .. l
  BY <1>1
<1>3. PICK more : more = Append(links, link)
  OBVIOUS
<1>4. /\ DOMAIN more = 1 .. (l + 1)
      /\ \A k \in 1 .. l : more[k] = links[k]
      /\ more[l + 1] = link
  BY <1>1, <1>2, <1>3
<1>5. IsFiniteSet(Leading(links, y)) /\ Cardinality(Leading(links, y)) \in Nat
  <2>1. IsFiniteSet(1 .. l)
    BY <1>2, FS_Interval
  <2>2. Leading(links, y) \in SUBSET (1 .. l)
    BY <1>2 DEF Leading
  <2>3. IsFiniteSet(Leading(links, y))
    BY <2>1, <2>2, FS_Subset
  <2>4. QED
    BY <2>3, FS_CardinalityType
<1>6. \A k : k \in 1 .. (l + 1) <=> k \in 1 .. l \/ k = l + 1
  BY <1>2
<1>7. CASE link.to = y
  <2>1. Leading(more, y) = Leading(links, y) \cup {l + 1} /\ l + 1 \notin Leading(links, y)
    BY <1>2, <1>4, <1>6, <1>7 DEF Leading
  <2>2. Cardinality(Leading(links, y) \cup {l + 1}) = Cardinality(Leading(links, y)) + 1
    BY <1>5, <2>1, FS_AddElement
  <2>3. QED
    BY <1>3, <1>5, <1>7, <2>1, <2>2
<1>8. CASE link.to # y
  <2>1. Leading(more, y) = Leading(links, y)
    BY <1>2, <1>4, <1>6, <1>8 DEF Leading
  <2>2. QED
    BY <1>3, <1>5, <1>8, <2>1
<1>9. QED
  BY <1>7, <1>8

\* Without the links to one element there are as many to any other as before.
LEMMA LeadingUnlink ==
  ASSUME NEW links \in Seq(LinkRecords), NEW x
  PROVE  /\ Unlink(links, x) \in Seq(LinkRecords)
         /\ \A k \in DOMAIN Unlink(links, x) : /\ Unlink(links, x)[k].to # x
                                               /\ \E l \in DOMAIN links : Unlink(links, x)[k] = links[l]
         /\ \A y : y # x =>
              Cardinality(Leading(Unlink(links, x), y)) = Cardinality(Leading(links, y))
<1>1. PICK S : S = {k \in DOMAIN links : links[k].to # x}
  OBVIOUS
<1>2. DOMAIN links = 1 .. Len(links) /\ Len(links) \in Nat
  OBVIOUS
<1>3. S \in SUBSET Nat /\ IsFiniteSet(S)
  <2>1. S \in SUBSET (1 .. Len(links)) /\ S \in SUBSET Nat
    BY <1>1, <1>2
  <2>2. IsFiniteSet(1 .. Len(links))
    BY <1>2, FS_Interval
  <2>3. QED
    BY <2>1, <2>2, FS_Subset
<1>4. PICK n : n = Cardinality(S)
  OBVIOUS
<1>5. /\ n \in Nat
      /\ \A k \in 1 .. n : Nth(S, k) \in S
      /\ \A k, l \in 1 .. n : Nth(S, k) = Nth(S, l) => k = l
      /\ \A m \in S : \E k \in 1 .. n : Nth(S, k) = m
  BY <1>3, <1>4, NthFacts
<1>6. PICK left : left = Unlink(links, x)
  OBVIOUS
<1>7. left = [k \in 1 .. n |-> links[Nth(S, k)]]
  BY <1>1, <1>4, <1>6 DEF Unlink, AtPlaces, Nth
<1>8. \A k \in 1 .. n : /\ left[k] = links[Nth(S, k)] /\ Nth(S, k) \in DOMAIN links
                        /\ left[k] \in LinkRecords /\ left[k].to # x
  <2> SUFFICES ASSUME NEW k \in 1 .. n
               PROVE  /\ left[k] = links[Nth(S, k)] /\ Nth(S, k) \in DOMAIN links
                      /\ left[k] \in LinkRecords /\ left[k].to # x
    OBVIOUS
  <2>1. PICK m : m = Nth(S, k)
    OBVIOUS
  <2>2. m \in DOMAIN links /\ links[m].to # x
    BY <1>1, <1>5, <2>1
  <2>3. links[m] \in LinkRecords
    BY <2>2
  <2>4. QED
    BY <1>7, <2>1, <2>2, <2>3
<1>9. left \in Seq(LinkRecords) /\ DOMAIN left = 1 .. n
  <2>1. left = [k \in 1 .. n |-> left[k]]
    BY <1>7
  <2>2. QED
    BY <1>5, <1>8, <2>1
<1>10. ASSUME NEW y, y # x
       PROVE  Cardinality(Leading(left, y)) = Cardinality(Leading(links, y))
  <2>1. PICK A, B : A = Leading(left, y) /\ B = Leading(links, y)
    OBVIOUS
  <2>2. A = {k \in 1 .. n : links[Nth(S, k)].to = y} /\ B = {k \in DOMAIN links : links[k].to = y}
    BY <1>8, <1>9, <2>1 DEF Leading
  <2>3. IsFiniteSet(A)
    <3>1. IsFiniteSet(1 .. n) /\ A \in SUBSET (1 .. n)
      BY <1>5, <2>2, FS_Interval
    <3>2. QED
      BY <3>1, FS_Subset
  <2>4. PICK f : f = [k \in A |-> Nth(S, k)]
    OBVIOUS
  <2>5. f \in [A -> B]
    BY <1>8, <2>2, <2>4
  <2>6. f \in Injection(A, B)
    BY <1>5, <2>2, <2>4, <2>5 DEF Injection, IsInjective
  <2>7. f \in Surjection(A, B)
    <3>1. ASSUME NEW m \in B PROVE \E k \in A : f[k] = m
      <4>1. m \in S
        BY <1>1, <1>10, <2>2
      <4>2. PICK k \in 1 .. n : Nth(S, k) = m
        BY <1>5, <4>1
      <4>3. k \in A
        BY <2>2, <4>2
      <4>4. QED
        BY <2>4, <4>2, <4>3
    <3>2. QED
      BY <2>5, <3>1 DEF Surjection
  <2>8. ExistsBijection(A, B)
    BY <2>6, <2>7 DEF ExistsBijection, Bijection
  <2>9. QED
    BY <2>1, <2>3, <2>8, FS_Bijection
<1>11. QED
  BY <1>6, <1>8, <1>9, <1>10

\* A document that is closed, or a new one, has no elements.
LEMMA CloseFits ==
  ASSUME DocInv, NEW saved \in {disk, WriteDocument}, OnCloseDocument(saved)
  PROVE  DocInv'
<1>1. Fits /\ DocumentType /\ FileInv(disk)
  BY DEF OnCloseDocument, Editing, DocInv
<1>2. FileInv(saved)
  BY <1>1, WriteInv
<1>3. mArrayElements' = <<>> /\ element' = [x \in Elements |-> Freed] /\ disk' = saved
  BY DEF OnCloseDocument
<1>4. Freed \in ElementRecords
  BY DEF Freed, NewElement, ElementRecords, ElementTypes
<1>5. DocumentType' /\ Len(mArrayElements') = 0
  BY <1>3, <1>4, TopologyAssumption DEF DocumentType, Count
<1>6. InDocument' = {}
  BY <1>5 DEF InDocument, Indices, Count
<1>7. Fits'
  BY <1>3, <1>6 DEF Fits
<1>8. QED
  BY <1>2, <1>3, <1>5, <1>7 DEF DocInv

\* A new document is as empty as the one that was closed.
LEMMA NewFits ==
  ASSUME DocInv, OnNewDocument
  PROVE  DocInv'
<1>1. FileInv(NoDocument)
  BY TopologyAssumption DEF FileInv, NoDocument
<1>2. UNCHANGED <<mArrayElements, element, asserted, skewed>> /\ disk' = NoDocument
  BY DEF OnNewDocument
<1>3. /\ DocumentType' = DocumentType /\ Fits' = Fits
  BY <1>2 DEF DocumentType, Fits, Count, InDocument, Indices, GetItemData, LinkedTo, Links
<1>4. QED
  BY <1>1, <1>2, <1>3 DEF DocInv

\* A file that is opened without an assertion, with the indices of its places, gives
\* the links it was saved with.
LEMMA OpenFits ==
  ASSUME DocInv, OnOpenDocument
  PROVE  DocInv'
<1>1. PICK m, links : m = Len(disk.elements) /\ links = disk.links
  OBVIOUS
<1>2. /\ disk.elements \in Seq([Type : ElementTypes, Index : Nat]) /\ m <= MaxElements
      /\ \A p \in 1 .. m : ReadLinks(links, p) \in Seq(LinkRecords)
      /\ FileFits(disk) =>
           /\ \A p \in 1 .. m : \A k \in DOMAIN ReadLinks(links, p) : ReadLinks(links, p)[k].to \in 1 .. m
           /\ \A p, q \in 1 .. m : Cardinality(Leading(ReadLinks(links, p), q)) =
                                     Cardinality(Leading(ReadLinks(links, q), p))
  BY <1>1 DEF DocInv, FileInv
<1>3. /\ asserted' = (\E index \in Mentioned : index >= m)
      /\ skewed' = (\E p \in 1 .. m : disk.elements[p].Index + 1 # p)
      /\ mArrayElements' = [p \in 1 .. m |-> p]
      /\ element' = [x \in Elements |->
           IF x > m THEN Freed
           ELSE [Type |-> disk.elements[x].Type, Index |-> disk.elements[x].Index, links |-> ReadLinks(links, x)]]
      /\ disk' = NoDocument
  BY <1>1 DEF OnOpenDocument
<1>4. m \in Nat /\ MaxElements \in Nat /\ DOMAIN disk.elements = 1 .. m
      /\ \A p \in 1 .. m : p \in Elements /\ ~(p > m)
  BY <1>1, <1>2, TopologyAssumption DEF Elements
<1>0. \A p \in 1 .. m : disk.elements[p] \in [Type : ElementTypes, Index : Nat]
  <2>1. PICK Saved, elements : /\ Saved = [Type : ElementTypes, Index : Nat]
                               /\ elements = disk.elements
    OBVIOUS
  <2>2. elements \in Seq(Saved) /\ m = Len(elements)
    BY <1>1, <1>2, <2>1
  <2>3. \A p \in 1 .. m : elements[p] \in Saved
    BY <2>2
  <2>4. QED
    BY <2>1, <2>3
<1>5. \A p \in 1 .. m : /\ element'[p].Type = disk.elements[p].Type
                        /\ element'[p].Index = disk.elements[p].Index
                        /\ element'[p].links = ReadLinks(links, p)
  BY <1>3, <1>4
<1>6. DocumentType'
  <2>1. ASSUME NEW x \in Elements PROVE element'[x] \in ElementRecords
    <3>1. CASE x > m
      <4>1. element'[x] = Freed
        BY <1>3, <3>1
      <4>2. QED
        BY <4>1 DEF Freed, NewElement, ElementRecords, ElementTypes
    <3>2. CASE ~(x > m)
      <4>1. x \in 1 .. m
        BY <1>4, <3>2 DEF Elements
      <4>2. disk.elements[x] \in [Type : ElementTypes, Index : Nat]
        BY <1>0, <4>1
      <4>3. ReadLinks(links, x) \in Seq(LinkRecords)
        BY <1>2, <4>1
      <4>4. element'[x] = [Type |-> disk.elements[x].Type, Index |-> disk.elements[x].Index,
                           links |-> ReadLinks(links, x)]
        BY <1>3, <3>2
      <4>5. QED
        BY <4>2, <4>3, <4>4 DEF ElementRecords
    <3>3. QED
      BY <3>1, <3>2
  <2>2. element' \in [Elements -> ElementRecords]
    BY <1>3, <2>1
  <2>3. mArrayElements' \in Seq(Elements) /\ Len(mArrayElements') = m
    BY <1>3, <1>4
  <2>4. QED
    BY <1>2, <2>2, <2>3 DEF DocumentType, Count
<1>7. FileInv(disk')
  BY <1>3, TopologyAssumption DEF FileInv, NoDocument
<1>8. ASSUME ~skewed', ~asserted' PROVE Fits'
  <2>1. \A p \in 1 .. m : disk.elements[p].Index + 1 = p
    BY <1>3, <1>8
  <2>2. \A n \in DOMAIN links : \A k \in DOMAIN links[n].to : links[n].to[k].index \in Mentioned
    BY <1>1 DEF Mentioned
  <2>3. \A n \in DOMAIN links : \A k \in DOMAIN links[n].to : ~(links[n].to[k].index >= m)
    BY <1>3, <1>8, <2>2
  <2>4. FileFits(disk)
    BY <1>1, <2>1, <2>3 DEF FileFits
  <2>5. InDocument' = 1 .. m
    <3>1. Indices' = 0 .. (m - 1) /\ \A i \in 0 .. (m - 1) : mArrayElements'[i + 1] = i + 1
      BY <1>3, <1>4 DEF Indices, Count
    <3>2. InDocument' = {mArrayElements'[i + 1] : i \in 0 .. (m - 1)}
      BY <3>1 DEF InDocument, GetItemData
    <3>3. \A p \in 1 .. m : p - 1 \in 0 .. (m - 1) /\ mArrayElements'[(p - 1) + 1] = p
      BY <1>4, <3>1
    <3>4. QED
      BY <1>4, <3>1, <3>2, <3>3
  <2>6. \A n \in DOMAIN mArrayElements' : element'[mArrayElements'[n]].Index = n - 1
    <3>1. ASSUME NEW p \in 1 .. m PROVE element'[p].Index = p - 1
      <4>1. disk.elements[p].Index \in Nat
        BY <1>0
      <4>2. QED
        BY <1>5, <2>1, <4>1
    <3>2. QED
      BY <1>3, <3>1
  <2>7. \A x \in InDocument' : LinkedTo(x)' \subseteq InDocument'
    BY <1>2, <1>5, <2>4, <2>5 DEF LinkedTo
  <2>8. \A x, y \in InDocument' : Cardinality(Links(x, y)') = Cardinality(Links(y, x)')
    <3>1. \A x, y \in InDocument' : Links(x, y)' = Leading(ReadLinks(links, x), y)
      BY <1>5, <2>5 DEF Links, Leading
    <3>2. QED
      BY <1>2, <2>4, <2>5, <3>1
  <2>9. QED
    BY <2>6, <2>7, <2>8 DEF Fits
<1>9. QED
  BY <1>6, <1>7, <1>8 DEF DocInv

\* The user's link: one entry more at each of its ends.
LEMMA LinkFits ==
  ASSUME DocInv, NEW i \in Indices, NEW j \in Indices, NEW ci \in Connectors, NEW cj \in Connectors,
         ValidateLink(i, j, ci, cj)
  PROVE  DocInv'
<1>1. PICK x, y : x = GetItemData(i) /\ y = GetItemData(j)
  OBVIOUS
<1>2. /\ Fits /\ DocumentType /\ element[x].Index # element[y].Index
      /\ element' = [element EXCEPT ![x] = Joined(x, y, cj), ![y] = Joined(y, x, ci)]
      /\ UNCHANGED <<mArrayElements, disk, asserted, skewed>>
  BY <1>1 DEF ValidateLink, Editing, Linkable, DocInv
<1>3. x \in InDocument /\ y \in InDocument /\ x \in Elements /\ y \in Elements /\ x # y
      /\ InDocument \subseteq Elements
  <2>1. x \in InDocument /\ y \in InDocument
    BY <1>1 DEF InDocument
  <2>2. QED
    BY <1>2, <2>1, Places
<1>4. /\ element' \in [Elements -> ElementRecords]
      /\ \A z \in Elements : /\ element'[z].Type = element[z].Type
                             /\ element'[z].Index = element[z].Index
      /\ element'[x].links = Append(element[x].links, [to |-> y, connector |-> cj])
      /\ element'[y].links = Append(element[y].links, [to |-> x, connector |-> ci])
      /\ \A z \in Elements : z # x /\ z # y => element'[z].links = element[z].links
  <2>1. element \in [Elements -> ElementRecords]
    BY <1>2 DEF DocumentType
  <2>2. x \in Nat /\ y \in Nat
    BY <1>3 DEF Elements
  <2>3. [to |-> y, connector |-> cj] \in LinkRecords /\ [to |-> x, connector |-> ci] \in LinkRecords
    BY <2>2 DEF LinkRecords
  <2>4. Joined(x, y, cj) \in ElementRecords /\ Joined(y, x, ci) \in ElementRecords
    <3>1. element[x] \in ElementRecords /\ element[y] \in ElementRecords
      BY <1>3, <2>1
    <3>2. PICK ex, ey : ex = element[x] /\ ey = element[y]
      OBVIOUS
    <3>3. /\ Append(ex.links, [to |-> y, connector |-> cj]) \in Seq(LinkRecords)
          /\ Append(ey.links, [to |-> x, connector |-> ci]) \in Seq(LinkRecords)
      <4>1. ex.links \in Seq(LinkRecords) /\ ey.links \in Seq(LinkRecords)
        BY <3>1, <3>2 DEF ElementRecords
      <4>2. QED
        BY <2>3, <4>1
    <3>4. QED
      BY <3>1, <3>2, <3>3 DEF Joined, ElementRecords
  <2>5. element' \in [Elements -> ElementRecords]
    BY <1>2, <2>1, <2>4
  <2>6. /\ element'[x] = Joined(x, y, cj) /\ element'[y] = Joined(y, x, ci)
        /\ \A z \in Elements : z # x /\ z # y => element'[z] = element[z]
    BY <1>2, <1>3, <2>1
  <2>7. /\ Joined(x, y, cj).Type = element[x].Type /\ Joined(x, y, cj).Index = element[x].Index
        /\ Joined(x, y, cj).links = Append(element[x].links, [to |-> y, connector |-> cj])
        /\ Joined(y, x, ci).Type = element[y].Type /\ Joined(y, x, ci).Index = element[y].Index
        /\ Joined(y, x, ci).links = Append(element[y].links, [to |-> x, connector |-> ci])
    <3>1. element[x] \in ElementRecords /\ element[y] \in ElementRecords
      BY <1>3, <2>1
    <3>2. QED
      BY <3>1 DEF Joined, ElementRecords
  <2>8. QED
    BY <2>5, <2>6, <2>7
<1>5. InDocument' = InDocument /\ Count' = Count
  BY <1>2 DEF InDocument, Indices, Count, GetItemData
<1>6. DocumentType'
  BY <1>2, <1>4, <1>5 DEF DocumentType
<1>0. PICK toY, toX : toY = [to |-> y, connector |-> cj] /\ toX = [to |-> x, connector |-> ci]
  OBVIOUS
<1>7. /\ toY \in LinkRecords /\ toX \in LinkRecords /\ toY.to = y /\ toX.to = x
      /\ element'[x].links = Append(element[x].links, toY)
      /\ element'[y].links = Append(element[y].links, toX)
  <2>1. x \in Nat /\ y \in Nat
    BY <1>3 DEF Elements
  <2>2. toY \in LinkRecords /\ toX \in LinkRecords /\ toY.to = y /\ toX.to = x
    BY <1>0, <2>1 DEF LinkRecords
  <2>3. QED
    BY <1>0, <1>4, <2>2
<1>8. ASSUME NEW z \in InDocument
      PROVE  /\ z \in Elements /\ element[z].links \in Seq(LinkRecords)
             /\ \A k \in DOMAIN element[z].links : element[z].links[k].to \in InDocument
  <2>1. z \in Elements /\ element[z].links \in Seq(LinkRecords)
    BY <1>2, <1>3 DEF DocumentType, ElementRecords
  <2>2. LinkedTo(z) \subseteq InDocument
    BY <1>2 DEF Fits
  <2>3. QED
    BY <2>1, <2>2 DEF LinkedTo
<1>9. \A z \in InDocument : LinkedTo(z)' \subseteq InDocument'
  <2> SUFFICES ASSUME NEW z \in InDocument, NEW k \in DOMAIN element'[z].links
               PROVE  element'[z].links[k].to \in InDocument
    BY <1>5 DEF LinkedTo
  <2>1. CASE z = x
    <3>1. element'[z].links = Append(element[x].links, toY) /\ element[x].links \in Seq(LinkRecords)
      BY <1>3, <1>4, <1>7, <1>8, <2>1
    <3>2. \/ k \in DOMAIN element[x].links /\ element'[z].links[k] = element[x].links[k]
          \/ element'[z].links[k] = toY
      BY <3>1
    <3>3. QED
      BY <1>3, <1>7, <1>8, <3>2
  <2>2. CASE z = y
    <3>1. element'[z].links = Append(element[y].links, toX) /\ element[y].links \in Seq(LinkRecords)
      BY <1>3, <1>4, <1>7, <1>8, <2>2
    <3>2. \/ k \in DOMAIN element[y].links /\ element'[z].links[k] = element[y].links[k]
          \/ element'[z].links[k] = toX
      BY <3>1
    <3>3. QED
      BY <1>3, <1>7, <1>8, <3>2
  <2>3. CASE z # x /\ z # y
    <3>1. element'[z].links = element[z].links
      BY <1>4, <1>8, <2>3
    <3>2. QED
      BY <1>8, <3>1
  <2>4. QED
    BY <2>1, <2>2, <2>3
<1>10. /\ \A b : b # y => Leading(element'[x].links, b) = Leading(element[x].links, b)
       /\ \A b : b # x => Leading(element'[y].links, b) = Leading(element[y].links, b)
       /\ \A a \in InDocument : \A b : a # x /\ a # y =>
            Leading(element'[a].links, b) = Leading(element[a].links, b)
       /\ Cardinality(Leading(element'[x].links, y)) = Cardinality(Leading(element[x].links, y)) + 1
       /\ Cardinality(Leading(element'[y].links, x)) = Cardinality(Leading(element[y].links, x)) + 1
  <2>1. /\ element'[x].links = Append(element[x].links, toY)
        /\ element'[y].links = Append(element[y].links, toX)
        /\ element[x].links \in Seq(LinkRecords) /\ element[y].links \in Seq(LinkRecords)
    BY <1>3, <1>4, <1>7, <1>8
  <2>2. QED
    BY <1>4, <1>7, <1>8, <2>1, LeadingAppend
<1>11. \A a, b \in InDocument :
         Cardinality(Leading(element[a].links, b)) = Cardinality(Leading(element[b].links, a))
  BY <1>2 DEF Fits, Links, Leading
<1>12. \A a, b \in InDocument :
         Cardinality(Leading(element'[a].links, b)) = Cardinality(Leading(element'[b].links, a))
  <2> SUFFICES ASSUME NEW a \in InDocument, NEW b \in InDocument
               PROVE  Cardinality(Leading(element'[a].links, b)) = Cardinality(Leading(element'[b].links, a))
    OBVIOUS
  <2>1. CASE (a = x /\ b = y) \/ (a = y /\ b = x)
    BY <1>10, <1>11, <2>1
  <2>2. CASE ~(a = x /\ b = y) /\ ~(a = y /\ b = x)
    <3>1. Leading(element'[a].links, b) = Leading(element[a].links, b)
      BY <1>10, <2>2
    <3>2. Leading(element'[b].links, a) = Leading(element[b].links, a)
      BY <1>10, <2>2
    <3>3. QED
      BY <1>11, <3>1, <3>2
  <2>3. QED
    BY <2>1, <2>2
<1>13. \A n \in DOMAIN mArrayElements' : element'[mArrayElements'[n]].Index = n - 1
  BY <1>2, <1>3, <1>4, Places DEF Fits
<1>14. Fits'
  BY <1>5, <1>9, <1>12, <1>13 DEF Fits, Links, Leading
<1>15. QED
  BY <1>2, <1>6, <1>14 DEF DocInv

\* There is an object left while the array is shorter than its bound.
LEMMA ObjectLeft ==
  ASSUME DocumentType, Count < MaxElements
  PROVE  \E x \in Elements : x \notin InDocument
<1> SUFFICES ASSUME Elements \subseteq InDocument PROVE FALSE
  OBVIOUS
<1>1. MaxElements \in Nat /\ Count \in Nat
  BY TopologyAssumption, Places
<1>2. PICK S : S = 1 .. Count
  OBVIOUS
<1>3. IsFiniteSet(S) /\ Cardinality(S) = Count
  BY <1>1, <1>2, FS_Interval
<1>4. PICK f : f = [n \in S |-> mArrayElements[n]]
  OBVIOUS
<1>5. f \in Surjection(S, Elements)
  <2>1. f \in [S -> Elements]
    BY <1>2, <1>4, Places
  <2>2. \A x \in Elements : \E n \in S : f[n] = x
    BY <1>2, <1>4, Places
  <2>3. QED
    BY <2>1, <2>2 DEF Surjection
<1>6. Cardinality(Elements) <= Count
  BY <1>3, <1>5, FS_Surjection
<1>7. Cardinality(Elements) = MaxElements
  BY <1>1, FS_Interval DEF Elements
<1>8. QED
  BY <1>1, <1>6, <1>7

\* Counted from zero or from one, the entries of a sequence are the same.
LEMMA Entries ==
  ASSUME NEW seq, Len(seq) \in Nat
  PROVE  {seq[i + 1] : i \in 0 .. (Len(seq) - 1)} = {seq[n] : n \in 1 .. Len(seq)}
<1>1. \A n \in 1 .. Len(seq) : n - 1 \in 0 .. (Len(seq) - 1) /\ (n - 1) + 1 = n
  OBVIOUS
<1>2. \A i \in 0 .. (Len(seq) - 1) : i + 1 \in 1 .. Len(seq)
  OBVIOUS
<1>3. QED
  BY <1>1, <1>2

\* So after a step the document has the entries of the new array.
LEMMA EntriesNext ==
  ASSUME Len(mArrayElements') \in Nat
  PROVE  InDocument' = {mArrayElements'[n] : n \in 1 .. Len(mArrayElements')}
<1>1. InDocument' = {mArrayElements'[i + 1] : i \in 0 .. (Len(mArrayElements') - 1)}
  BY DEF InDocument, Indices, GetItemData, Count
<1>2. QED
  BY <1>1, Entries

\* A new element stands at the end, without links.
LEMMA InsertFits ==
  ASSUME DocInv, NEW type \in Types, InsertElement(type)
  PROVE  DocInv'
<1>1. PICK x : x = CHOOSE z \in Elements : z \notin InDocument
  OBVIOUS
<1>2. /\ Fits /\ DocumentType /\ Count < MaxElements
      /\ mArrayElements' = Append(mArrayElements, x)
      /\ element' = [element EXCEPT ![x] = NewElement(type, Count)]
      /\ UNCHANGED <<disk, asserted, skewed>>
  BY <1>1 DEF InsertElement, Editing, DocInv
<1>3. x \in Elements /\ x \notin InDocument
  BY <1>1, <1>2, ObjectLeft
<1>4. /\ Count \in Nat /\ DOMAIN mArrayElements = 1 .. Count /\ MaxElements \in Nat
      /\ \A n \in 1 .. Count : mArrayElements[n] \in InDocument
      /\ InDocument \subseteq Elements
      /\ \A z \in InDocument : \E n \in 1 .. Count : z = mArrayElements[n]
  BY <1>2, Places, TopologyAssumption
<1>5. /\ mArrayElements' \in Seq(Elements) /\ Count' = Count + 1
      /\ DOMAIN mArrayElements' = 1 .. (Count + 1)
      /\ \A n \in 1 .. Count : mArrayElements'[n] = mArrayElements[n]
      /\ mArrayElements'[Count + 1] = x
  <2>1. mArrayElements \in Seq(Elements) /\ Count = Len(mArrayElements)
    BY <1>2 DEF DocumentType, Count
  <2>2. QED
    BY <1>2, <1>3, <1>4, <2>1 DEF Count
<1>6. /\ element' \in [Elements -> ElementRecords]
      /\ element'[x].Index = Count /\ element'[x].links = <<>>
      /\ \A z \in Elements : z # x => element'[z] = element[z]
  <2>1. PICK new : new = NewElement(type, Count)
    OBVIOUS
  <2>2. new \in ElementRecords /\ new.Index = Count /\ new.links = <<>>
    <3>1. type \in ElementTypes
      BY TopologyAssumption DEF ElementTypes
    <3>2. QED
      BY <1>4, <2>1, <3>1 DEF NewElement, ElementRecords
  <2>3. element \in [Elements -> ElementRecords]
    BY <1>2 DEF DocumentType
  <2>4. QED
    BY <1>2, <1>3, <2>1, <2>2, <2>3
<1>7. DocumentType'
  BY <1>2, <1>4, <1>5, <1>6 DEF DocumentType
<1>8. InDocument' = InDocument \cup {x}
  <2>1. /\ \A n \in 1 .. (Count + 1) : mArrayElements'[n] \in InDocument'
        /\ \A z \in InDocument' : \E n \in 1 .. (Count + 1) : z = mArrayElements'[n]
    <3>1. InDocument' = {mArrayElements'[n] : n \in 1 .. (Count + 1)}
      BY <1>4, <1>5, EntriesNext DEF Count
    <3>2. QED
      BY <3>1
  <2>2. \A n : n \in 1 .. (Count + 1) <=> n \in 1 .. Count \/ n = Count + 1
    BY <1>4
  <2>3. QED
    BY <1>4, <1>5, <2>1, <2>2
<1>9. \A n \in DOMAIN mArrayElements' : element'[mArrayElements'[n]].Index = n - 1
  <2>1. \A n \in 1 .. Count : element'[mArrayElements'[n]].Index = n - 1
    <3> SUFFICES ASSUME NEW n \in 1 .. Count PROVE element'[mArrayElements'[n]].Index = n - 1
      OBVIOUS
    <3>1. mArrayElements'[n] = mArrayElements[n] /\ element'[mArrayElements[n]] = element[mArrayElements[n]]
      BY <1>3, <1>4, <1>5, <1>6
    <3>2. QED
      BY <1>2, <1>4, <3>1 DEF Fits
  <2>2. element'[mArrayElements'[Count + 1]].Index = (Count + 1) - 1
    BY <1>4, <1>5, <1>6
  <2>3. QED
    BY <1>4, <1>5, <2>1, <2>2
<1>10. \A z \in InDocument : /\ element'[z] = element[z]
                             /\ LinkedTo(z) \subseteq InDocument
  BY <1>2, <1>3, <1>4, <1>6 DEF Fits
<1>11. \A z \in InDocument' : LinkedTo(z)' \subseteq InDocument'
  <2>1. LinkedTo(x)' = {}
    BY <1>6 DEF LinkedTo
  <2>2. \A z \in InDocument : LinkedTo(z)' = LinkedTo(z)
    BY <1>10 DEF LinkedTo
  <2>3. QED
    BY <1>8, <1>10, <2>1, <2>2
<1>12. \A a, b \in InDocument' : Cardinality(Links(a, b)') = Cardinality(Links(b, a)')
  <2>1. \A b : Links(x, b)' = {}
    BY <1>6 DEF Links
  <2>2. \A a \in InDocument : Links(a, x)' = {}
    <3> SUFFICES ASSUME NEW a \in InDocument PROVE Links(a, x)' = {}
      OBVIOUS
    <3>1. x \notin LinkedTo(a) /\ element'[a] = element[a]
      BY <1>3, <1>10
    <3>2. QED
      BY <3>1 DEF Links, LinkedTo
  <2>3. \A a \in InDocument : \A b : Links(a, b)' = Links(a, b)
    BY <1>10 DEF Links
  <2>4. \A a, b \in InDocument : Cardinality(Links(a, b)) = Cardinality(Links(b, a))
    BY <1>2 DEF Fits
  <2>5. QED
    BY <1>8, <2>1, <2>2, <2>3, <2>4
<1>13. Fits'
  BY <1>9, <1>11, <1>12 DEF Fits
<1>14. QED
  BY <1>2, <1>7, <1>13 DEF DocInv

\* Behind a deleted element the others move up with their indices, and the links to
\* it go.
LEMMA DeleteFits ==
  ASSUME DocInv, NEW i \in Indices, OnDeleteitem(i)
  PROVE  DocInv'
<1>1. PICK x : x = GetItemData(i)
  OBVIOUS
<1> DEFINE Behind(y) == \E j \in Indices : j > i /\ GetItemData(j) = y
           Place(y)  == CHOOSE j \in Indices : GetItemData(j) = y
           OneUp(y)  == IF Behind(y) THEN Place(y) - 1 ELSE element[y].Index
<1>2. /\ Fits /\ DocumentType
      /\ mArrayElements' = [n \in 1 .. (Count - 1) |-> GetItemData(IF n <= i THEN n - 1 ELSE n)]
      /\ UNCHANGED <<disk, asserted, skewed>>
  BY DEF OnDeleteitem, Editing, DocInv
<1>3. element' = [y \in Elements |->
           IF y = x THEN Freed
           ELSE [element[y] EXCEPT !.links = Unlink(@, x), !.Index = OneUp(y)]]
  BY <1>1 DEF OnDeleteitem
<1> HIDE DEF OneUp, Behind, Place
<1>4. /\ Count \in Nat /\ DOMAIN mArrayElements = 1 .. Count /\ Indices = 0 .. (Count - 1)
      /\ \A n \in 1 .. Count : mArrayElements[n] \in InDocument
      /\ InDocument \subseteq Elements
      /\ \A z \in InDocument : \E n \in 1 .. Count : z = mArrayElements[n]
      /\ \A p \in 1 .. Count : element[mArrayElements[p]].Index = p - 1
      /\ \A p, q \in 1 .. Count : mArrayElements[p] = mArrayElements[q] => p = q
  BY <1>2, Places, PlaceOfIndex
<1>5. /\ i \in Nat /\ i + 1 \in 1 .. Count /\ x = mArrayElements[i + 1] /\ Count - 1 \in Nat
      /\ x \in InDocument
  BY <1>1, <1>4 DEF GetItemData
<1>6. /\ DOMAIN mArrayElements' = 1 .. (Count - 1) /\ Len(mArrayElements') = Count - 1
      /\ \A n \in 1 .. (Count - 1) : mArrayElements'[n] = mArrayElements[IF n <= i THEN n ELSE n + 1]
  <2>1. DOMAIN mArrayElements' = 1 .. (Count - 1) /\ Len(mArrayElements') = Count - 1
    BY <1>2, <1>5
  <2>2. ASSUME NEW n \in 1 .. (Count - 1)
        PROVE  mArrayElements'[n] = mArrayElements[IF n <= i THEN n ELSE n + 1]
    <3>1. mArrayElements'[n] = mArrayElements[(IF n <= i THEN n - 1 ELSE n) + 1]
      BY <1>2 DEF GetItemData
    <3>2. (IF n <= i THEN n - 1 ELSE n) + 1 = IF n <= i THEN n ELSE n + 1
      BY <1>5
    <3>3. QED
      BY <3>1, <3>2
  <2>3. QED
    BY <2>1, <2>2
\* The places before and after.
<1>7. ASSUME NEW n \in 1 .. (Count - 1)
      PROVE  \E p \in 1 .. Count : /\ p = IF n <= i THEN n ELSE n + 1
                                   /\ mArrayElements'[n] = mArrayElements[p] /\ p # i + 1
                                   /\ n = IF p > i + 1 THEN p - 1 ELSE p
  <2>1. PICK p : p = IF n <= i THEN n ELSE n + 1
    OBVIOUS
  <2>2. p \in 1 .. Count /\ p # i + 1 /\ n = IF p > i + 1 THEN p - 1 ELSE p
    BY <1>4, <1>5, <2>1
  <2>3. QED
    BY <1>6, <2>1, <2>2
<1>8. ASSUME NEW p \in 1 .. Count, p # i + 1
      PROVE  \E n \in 1 .. (Count - 1) : /\ n = IF p > i + 1 THEN p - 1 ELSE p
                                         /\ mArrayElements'[n] = mArrayElements[p]
  <2>1. PICK n : n = IF p > i + 1 THEN p - 1 ELSE p
    OBVIOUS
  <2>2. n \in 1 .. (Count - 1) /\ p = IF n <= i THEN n ELSE n + 1
    BY <1>4, <1>5, <1>8, <2>1
  <2>3. QED
    BY <1>6, <2>1, <2>2
<1>9. InDocument' = InDocument \ {x}
  <2>1. InDocument' = {mArrayElements'[n] : n \in 1 .. (Count - 1)}
    BY <1>5, <1>6, EntriesNext
  <2>2. ASSUME NEW n \in 1 .. (Count - 1)
        PROVE  mArrayElements'[n] \in InDocument /\ mArrayElements'[n] # x
    <3>1. PICK p \in 1 .. Count : mArrayElements'[n] = mArrayElements[p] /\ p # i + 1
      BY <1>7
    <3>2. QED
      BY <1>4, <1>5, <3>1
  <2>3. ASSUME NEW z \in InDocument, z # x
        PROVE  \E n \in 1 .. (Count - 1) : z = mArrayElements'[n]
    <3>1. PICK p \in 1 .. Count : z = mArrayElements[p]
      BY <1>4
    <3>2. p # i + 1
      BY <1>5, <2>3, <3>1
    <3>3. QED
      BY <1>8, <3>1, <3>2
  <2>4. QED
    BY <2>1, <2>2, <2>3
\* The indices.
<1>10. ASSUME NEW p \in 1 .. Count, p # i + 1
       PROVE  OneUp(mArrayElements[p]) = IF p > i + 1 THEN p - 2 ELSE p - 1
  <2>1. PICK y : y = mArrayElements[p]
    OBVIOUS
  <2>2. \A j \in Indices : GetItemData(j) = y <=> j = p - 1
    <3> SUFFICES ASSUME NEW j \in Indices PROVE GetItemData(j) = y <=> j = p - 1
      OBVIOUS
    <3>1. j + 1 \in 1 .. Count /\ j \in Int
      BY <1>4
    <3>2. mArrayElements[j + 1] = mArrayElements[p] <=> j + 1 = p
      BY <1>4, <3>1
    <3>3. QED
      BY <1>4, <2>1, <3>1, <3>2 DEF GetItemData
  <2>3. p - 1 \in Indices
    BY <1>4
  <2>4. Behind(y) <=> p > i + 1
    <3>1. Behind(y) <=> p - 1 > i
      BY <2>2, <2>3 DEF Behind
    <3>2. QED
      BY <1>5, <3>1
  <2>5. Place(y) = p - 1
    BY <2>2, <2>3 DEF Place
  <2>6. element[y].Index = p - 1
    BY <1>4, <2>1
  <2>7. CASE p > i + 1
    BY <2>1, <2>4, <2>5, <2>7 DEF OneUp
  <2>8. CASE ~(p > i + 1)
    BY <2>1, <2>4, <2>6, <2>8 DEF OneUp
  <2>9. QED
    BY <2>7, <2>8
<1>11. ASSUME NEW y \in Elements PROVE OneUp(y) \in Nat
  <2>1. CASE Behind(y)
    <3>1. PICK j \in Indices : j > i /\ GetItemData(j) = y
      BY <2>1 DEF Behind
    <3>2. PICK p : p = j + 1
      OBVIOUS
    <3>3. p \in 1 .. Count /\ p > i + 1 /\ p # i + 1 /\ mArrayElements[p] = y
      BY <1>4, <1>5, <3>1, <3>2 DEF GetItemData
    <3>4. OneUp(y) = p - 2
      BY <1>10, <3>3
    <3>5. QED
      BY <1>5, <3>3, <3>4
  <2>2. CASE ~Behind(y)
    <3>1. element[y].Index \in Nat
      BY <1>2 DEF DocumentType, ElementRecords
    <3>2. QED
      BY <2>2, <3>1 DEF OneUp
  <2>3. QED
    BY <2>1, <2>2
<1>12. ASSUME NEW y \in Elements, y # x
       PROVE  /\ element[y].links \in Seq(LinkRecords)
              /\ element'[y] \in ElementRecords
              /\ element'[y].links = Unlink(element[y].links, x)
              /\ element'[y].Index = OneUp(y)
  <2>1. element[y] \in ElementRecords
    BY <1>2 DEF DocumentType
  <2>2. PICK ey, links, up : ey = element[y] /\ links = Unlink(ey.links, x) /\ up = OneUp(y)
    OBVIOUS
  <2>3. ey.links \in Seq(LinkRecords)
    BY <2>1, <2>2 DEF ElementRecords
  <2>4. links \in Seq(LinkRecords) /\ up \in Nat
    BY <1>11, <2>2, <2>3, LeadingUnlink
  <2>5. element'[y] = [ey EXCEPT !.links = links, !.Index = up]
    BY <1>3, <1>12, <2>2
  <2>6. QED
    BY <2>1, <2>2, <2>3, <2>4, <2>5 DEF ElementRecords
<1>13. element'[x] = Freed
  BY <1>3, <1>4, <1>5
<1>14. DocumentType'
  <2>1. Freed \in ElementRecords
    BY DEF Freed, NewElement, ElementRecords, ElementTypes
  <2>2. element' \in [Elements -> ElementRecords]
    <3>1. \A y \in Elements : element'[y] \in ElementRecords
      BY <1>12, <1>13, <2>1
    <3>2. element' = [y \in Elements |-> element'[y]]
      BY <1>3
    <3>3. QED
      BY <3>1, <3>2
  <2>3. mArrayElements' \in Seq(Elements)
    <3>1. \A n \in 1 .. (Count - 1) : mArrayElements'[n] \in Elements
      BY <1>4, <1>7
    <3>2. mArrayElements' = [n \in 1 .. (Count - 1) |-> mArrayElements'[n]]
      BY <1>2
    <3>3. QED
      BY <1>5, <3>1, <3>2
  <2>4. Len(mArrayElements') <= MaxElements
    BY <1>2, <1>4, <1>6, TopologyAssumption DEF DocumentType
  <2>5. QED
    BY <2>2, <2>3, <2>4 DEF DocumentType, Count
<1>15. \A n \in DOMAIN mArrayElements' : element'[mArrayElements'[n]].Index = n - 1
  <2> SUFFICES ASSUME NEW n \in 1 .. (Count - 1) PROVE element'[mArrayElements'[n]].Index = n - 1
    BY <1>6
  <2>1. PICK p \in 1 .. Count : /\ mArrayElements'[n] = mArrayElements[p] /\ p # i + 1
                                /\ n = IF p > i + 1 THEN p - 1 ELSE p
    BY <1>7
  <2>2. mArrayElements[p] \in Elements /\ mArrayElements[p] # x
    BY <1>4, <1>5, <2>1
  <2>3. element'[mArrayElements[p]].Index = IF p > i + 1 THEN p - 2 ELSE p - 1
    BY <1>10, <1>12, <2>1, <2>2
  <2>4. (IF p > i + 1 THEN p - 2 ELSE p - 1) = n - 1
    BY <1>5, <2>1
  <2>5. QED
    BY <2>1, <2>3, <2>4
<1>16. \A y \in InDocument' : LinkedTo(y)' \subseteq InDocument'
  <2> SUFFICES ASSUME NEW y \in InDocument, y # x, NEW k \in DOMAIN element'[y].links
               PROVE  element'[y].links[k].to \in InDocument /\ element'[y].links[k].to # x
    BY <1>9 DEF LinkedTo
  <2>1. /\ element[y].links \in Seq(LinkRecords)
        /\ element'[y].links = Unlink(element[y].links, x)
    BY <1>4, <1>12
  <2>2. PICK links : links = element[y].links
    OBVIOUS
  <2>3. PICK l \in DOMAIN links : Unlink(links, x)[k] = links[l] /\ Unlink(links, x)[k].to # x
    BY <2>1, <2>2, LeadingUnlink
  <2>4. links[l].to \in LinkedTo(y)
    BY <2>2, <2>3 DEF LinkedTo
  <2>5. LinkedTo(y) \subseteq InDocument
    BY <1>2 DEF Fits
  <2>6. QED
    BY <2>1, <2>2, <2>3, <2>4, <2>5
<1>17. \A a, b \in InDocument' : Cardinality(Links(a, b)') = Cardinality(Links(b, a)')
  <2>1. \A a \in InDocument : \A b : a # x /\ b # x =>
          Cardinality(Leading(element'[a].links, b)) = Cardinality(Leading(element[a].links, b))
    BY <1>4, <1>12, LeadingUnlink
  <2>2. \A a, b \in InDocument :
          Cardinality(Leading(element[a].links, b)) = Cardinality(Leading(element[b].links, a))
    BY <1>2 DEF Fits, Links, Leading
  <2>3. \A a, b \in InDocument : a # x /\ b # x =>
          Cardinality(Leading(element'[a].links, b)) = Cardinality(Leading(element'[b].links, a))
    BY <2>1, <2>2
  <2>4. QED
    BY <1>9, <2>3 DEF Links, Leading
<1>18. Fits'
  BY <1>15, <1>16, <1>17 DEF Fits
<1>19. QED
  BY <1>2, <1>14, <1>18 DEF DocInv

\* The test threads do not write the document.
LEMMA ReadOnlyFits ==
  ASSUME DocInv, UNCHANGED docVars
  PROVE  DocInv'
<1>1. /\ mArrayElements' = mArrayElements /\ element' = element /\ disk' = disk
      /\ asserted' = asserted /\ skewed' = skewed
  BY DEF docVars
<1>2. DocumentType' = DocumentType /\ Fits' = Fits
  BY <1>1 DEF DocumentType, Fits, Count, InDocument, Indices, GetItemData, LinkedTo, Links
<1>3. QED
  BY <1>1, <1>2 DEF DocInv

\* So every step keeps the invariant.
LEMMA DocStep == DocInv /\ [TopologyNext]_topoVars => DocInv'
<1> SUFFICES ASSUME DocInv, [TopologyNext]_topoVars PROVE DocInv'
  OBVIOUS
<1>1. CASE \E i, j \in Indices, ci, cj \in Connectors : ValidateLink(i, j, ci, cj)
  BY <1>1, LinkFits
<1>2. CASE \E type \in Types : InsertElement(type)
  BY <1>2, InsertFits
<1>3. CASE \E i \in Indices : OnDeleteitem(i)
  BY <1>3, DeleteFits
<1>4. CASE \E saved \in {disk, WriteDocument} : OnCloseDocument(saved)
  BY <1>4, CloseFits
<1>5. CASE OnNewDocument
  BY <1>5, NewFits
<1>6. CASE OnOpenDocument
  BY <1>6, OpenFits
<1>7. CASE \E t \in Testers : \/ StartTest(t) \/ Cancel(t) \/ SetTesting(t)
                                \/ Run(t) \/ End(t) \/ Stray(t)
  <2>1. UNCHANGED docVars
    BY <1>7 DEF StartTest, Cancel, SetTesting, Run, End, Stray
  <2>2. QED
    BY <2>1, ReadOnlyFits
<1>8. CASE \E t \in Testers : \E clients, server : Confirm(t, clients, server)
  <2>1. UNCHANGED docVars
    BY <1>8 DEF Confirm
  <2>2. QED
    BY <2>1, ReadOnlyFits
<1>9. CASE UNCHANGED topoVars
  <2>1. UNCHANGED docVars
    BY <1>9 DEF topoVars
  <2>2. QED
    BY <2>1, ReadOnlyFits
<1>10. QED
  BY <1>1, <1>2, <1>3, <1>4, <1>5, <1>6, <1>7, <1>8, <1>9 DEF TopologyNext

\* The document and its file keep their types and the invariant, with their indices and
\* links, over every interleaving of the editing commands and the test threads.
THEOREM DocumentFits == TopologySpec => []DocInv
BY DocInit, DocStep, PTL DEF TopologySpec

\* The array, the indices and the links of a document fit, whatever the user inserts,
\* links, deletes, saves and opens again, as long as no file gave indices that do not:
\* OnDeleteitem moves the indices up with the elements, ValidateLink and Unlink keep a
\* link at both its ends or at neither, and a file gives back what was saved.
THEOREM LinksStayMutual == TopologySpec => []LinksMutual
<1>1. DocInv => LinksMutual
  <2> SUFFICES ASSUME DocInv, ~skewed, ~asserted
               PROVE  /\ \A i \in Indices : Item(i).Index = i
                      /\ \A x \in InDocument : LinkedTo(x) \subseteq InDocument
                      /\ \A x, y \in InDocument : Cardinality(Links(x, y)) = Cardinality(Links(y, x))
    BY DEF LinksMutual
  <2>1. Fits /\ DocumentType
    BY DEF DocInv
  <2>2. ASSUME NEW i \in Indices PROVE Item(i).Index = i
    <3>1. i + 1 \in 1 .. Count /\ i \in Int
      BY <2>1, Places
    <3>2. PICK p : p = i + 1
      OBVIOUS
    <3>3. element[mArrayElements[p]].Index = p - 1
      BY <2>1, <3>1, <3>2, PlaceOfIndex
    <3>4. QED
      BY <3>1, <3>2, <3>3 DEF Item, GetItemData
  <2>3. QED
    BY <2>1, <2>2 DEF Fits
<1>2. QED
  BY <1>1, DocInit, DocStep, PTL DEF TopologySpec

-----------------------------------------------------------------------------
(* The clients and servers of a test.                                      *)

\* The files number the elements of a type as the array orders them.
Filed(files) ==
  /\ files.clients = Those(Clients)
  /\ Objects(files.servers) = Those(Servers)
  /\ Objects(files.nats) = Those({"eNAT"})

Among(list) == {list[a] : a \in DOMAIN list}

\* What a test is told, and starts.
Told(run) ==
  /\ run.fromClient = [n \in DOMAIN run.clients |-> NameOf("eSTUNClient", run.clients[n].Index)]
  /\ run.toServer = NameOf("eSTUNServer", run.server.Index)
  /\ run.parts.nats = Those({"eNAT"}) /\ run.parts.servers = Those({"eSTUNServer"})

\* Until elements come or go, what the dialog shows, what the files number and what the
\* test is told is what the document still has.
RunInv(t) ==
  /\ thread[t].phase = "dialog" =>
       thread[t].clients = Listed(Clients) /\ thread[t].servers = Listed(Servers)
  /\ thread[t].phase \in {"files", "testing", "running"} =>
       /\ Filed(thread[t].files)
       /\ \A n \in DOMAIN thread[t].clients : thread[t].clients[n] \in Among(Listed(Clients))
       /\ thread[t].server \in Among(Listed(Servers))
  /\ thread[t].phase = "running" => Told(thread[t])

ChosenInv ==
  /\ thread = [t \in Testers |-> thread[t]]
  /\ ~edited => \A t \in Testers : RunInv(t)

\* The elements of some types and where they stand.
KnownAs(those, places, n) ==
  /\ n \in Nat /\ those = [k \in 1 .. n |-> mArrayElements[Nth(places, k)]]
  /\ \A k \in 1 .. n : /\ Nth(places, k) \in places /\ Nth(places, k) \in 1 .. Count
                       /\ those[k] \in Elements
  /\ \A k, l \in 1 .. n : Nth(places, k) = Nth(places, l) => k = l

LEMMA Known ==
  ASSUME DocumentType, NEW types
  PROVE  KnownAs(Those(types), PlacesOf(types), Cardinality(PlacesOf(types)))
<1> SUFFICES ASSUME NEW those, those = Those(types), NEW places, places = PlacesOf(types),
                    NEW n, n = Cardinality(places)
             PROVE  KnownAs(those, places, n)
  OBVIOUS
<1>1. /\ places \in SUBSET Nat /\ places \subseteq 1 .. Count /\ IsFiniteSet(places) /\ n \in Nat
      /\ those = [k \in 1 .. n |-> mArrayElements[Nth(places, k)]]
  BY Kinds
<1>2. /\ \A k \in 1 .. n : Nth(places, k) \in places
      /\ \A k, l \in 1 .. n : Nth(places, k) = Nth(places, l) => k = l
  BY <1>1, NthFacts
<1>3. ASSUME NEW k \in 1 .. n PROVE Nth(places, k) \in 1 .. Count /\ those[k] \in Elements
  <2>1. PICK p : p = Nth(places, k)
    OBVIOUS
  <2>2. p \in 1 .. Count
    BY <1>1, <1>2, <2>1
  <2>3. mArrayElements[p] \in Elements
    BY <2>2, Places
  <2>4. QED
    BY <1>1, <2>1, <2>2, <2>3
<1>4. QED
  BY <1>1, <1>2, <1>3 DEF KnownAs

\* Links do not change what elements there are.
LEMMA SameElements ==
  ASSUME DocumentType, mArrayElements' = mArrayElements,
         \A x \in Elements : /\ element'[x].Type = element[x].Type
                             /\ element'[x].Index = element[x].Index
  PROVE  /\ \A types : Those(types)' = Those(types) /\ Listed(types)' = Listed(types)
         /\ \A type, index : NameOf(type, index)' = NameOf(type, index)
<1>1. DOMAIN mArrayElements = 1 .. Count /\ \A n \in 1 .. Count : mArrayElements[n] \in Elements
  BY Places
<1>2. \A types : PlacesOf(types)' = PlacesOf(types)
  BY <1>1 DEF PlacesOf
<1>3. \A types : Those(types)' = Those(types)
  BY <1>2 DEF Those
<1>4. ASSUME NEW types PROVE Listed(types)' = Listed(types)
  <2>1. PICK those, n : those = Those(types) /\ n = Cardinality(PlacesOf(types))
    OBVIOUS
  <2>2. DOMAIN those = 1 .. n /\ \A k \in 1 .. n : those[k] \in Elements
    BY <2>1, Known DEF KnownAs
  <2>3. Those(types)' = those
    BY <1>3, <2>1
  <2>4. Listed(types) = [k \in 1 .. n |-> [object |-> those[k], Index |-> element[those[k]].Index]]
    BY <2>1, <2>2 DEF Listed
  <2>5. Listed(types)' = [k \in 1 .. n |-> [object |-> those[k], Index |-> element'[those[k]].Index]]
    BY <2>2, <2>3 DEF Listed
  <2>6. QED
    BY <2>2, <2>4, <2>5
<1>5. ASSUME NEW type, NEW index PROVE NameOf(type, index)' = NameOf(type, index)
  <2>1. PICK those, n : those = Those({type}) /\ n = Cardinality(PlacesOf({type}))
    OBVIOUS
  <2>2. DOMAIN those = 1 .. n /\ \A k \in 1 .. n : those[k] \in Elements
    BY <2>1, Known DEF KnownAs
  <2>3. Those({type})' = those
    BY <1>3, <2>1
  <2>4. {k \in DOMAIN those : element'[those[k]].Index = index} =
          {k \in DOMAIN those : element[those[k]].Index = index}
    BY <2>2
  <2>5. PICK found : found = {k \in DOMAIN those : element[those[k]].Index = index}
    OBVIOUS
  <2>6. NameOf(type, index) = IF found = {} THEN 1 ELSE CHOOSE k \in found : \A l \in found : l <= k
    BY <2>1, <2>5 DEF NameOf
  <2>7. PICK found2 : found2 = {k \in DOMAIN Those({type})' : element'[Those({type})'[k]].Index = index}
    OBVIOUS
  <2>8. NameOf(type, index)' = IF found2 = {} THEN 1 ELSE CHOOSE k \in found2 : \A l \in found2 : l <= k
    BY <2>7 DEF NameOf
  <2>9. found2 = found
    BY <2>3, <2>4, <2>5, <2>7
  <2>10. QED
    BY <2>6, <2>8, <2>9
<1>6. QED
  BY <1>3, <1>4, <1>5

\* The name of an element counts to its own place among those of its type.
LEMMA NameFound ==
  ASSUME DocumentType, Fits, NEW type, NEW those, those = Those({type}), NEW a \in DOMAIN those
  PROVE  NameOf(type, element[those[a]].Index) = a
<1>1. PICK places, m : places = PlacesOf({type}) /\ m = Cardinality(places)
  OBVIOUS
<1>2. /\ m \in Nat /\ those = [k \in 1 .. m |-> mArrayElements[Nth(places, k)]]
      /\ \A k \in 1 .. m : Nth(places, k) \in 1 .. Count
      /\ \A k, l \in 1 .. m : Nth(places, k) = Nth(places, l) => k = l
  BY <1>1, Known DEF KnownAs
<1>3. ASSUME NEW k \in 1 .. m
      PROVE  element[those[k]].Index = Nth(places, k) - 1 /\ Nth(places, k) \in Int
  <2>1. PICK p : p = Nth(places, k)
    OBVIOUS
  <2>2. p \in 1 .. Count /\ those[k] = mArrayElements[p]
    BY <1>2, <2>1
  <2>3. element[mArrayElements[p]].Index = p - 1
    BY <2>2, PlaceOfIndex
  <2>4. QED
    BY <2>1, <2>2, <2>3
<1>4. PICK found : found = {n \in DOMAIN those : element[those[n]].Index = element[those[a]].Index}
  OBVIOUS
<1>5. found = {a} /\ a \in Int
  <2>1. a \in 1 .. m /\ DOMAIN those = 1 .. m
    BY <1>2
  <2>2. \A k \in 1 .. m : element[those[k]].Index = element[those[a]].Index => k = a
    <3> SUFFICES ASSUME NEW k \in 1 .. m, element[those[k]].Index = element[those[a]].Index
                 PROVE  k = a
      OBVIOUS
    <3>1. Nth(places, k) - 1 = Nth(places, a) - 1
      BY <1>3, <2>1
    <3>2. Nth(places, k) = Nth(places, a)
      BY <1>3, <2>1, <3>1
    <3>3. QED
      BY <1>2, <2>1, <3>2
  <2>3. a \in found /\ \A k \in found : k = a
    BY <1>4, <2>1, <2>2
  <2>4. a \in Int
    BY <1>2, <2>1
  <2>5. QED
    BY <2>3, <2>4
<1>6. NameOf(type, element[those[a]].Index) =
        IF found = {} THEN 1 ELSE CHOOSE n \in found : \A l \in found : l <= n
  BY <1>4 DEF NameOf
<1>7. QED
  BY <1>5, <1>6

\* A place is the one that its number of places before tells.
LEMMA NthOfRank ==
  ASSUME NEW S \in SUBSET Nat, IsFiniteSet(S), NEW p \in S
  PROVE  /\ Cardinality(Before(S, p)) \in Nat
         /\ Cardinality(Before(S, p)) + 1 \in 1 .. Cardinality(S)
         /\ Nth(S, Cardinality(Before(S, p)) + 1) = p
<1>1. PICK c : c = Cardinality(Before(S, p))
  OBVIOUS
<1>2. c \in 0 .. (Cardinality(S) - 1) /\ Cardinality(S) \in Nat
  BY <1>1, Ranks
<1>3. (c + 1) - 1 = c /\ c \in Nat /\ c + 1 \in 1 .. Cardinality(S)
  BY <1>2
<1>4. Nth(S, c + 1) = CHOOSE n \in S : Cardinality(Before(S, n)) = c
  BY <1>3 DEF Nth
<1>5. \A n \in S : Cardinality(Before(S, n)) = c => n = p
  BY <1>1, Ranks
<1>6. Nth(S, c + 1) = p
  BY <1>1, <1>4, <1>5
<1>7. QED
  BY <1>1, <1>3, <1>6

\* The number of places of two kinds before one is that of each kind together.
LEMMA BeforeTwo ==
  ASSUME NEW S \in SUBSET Nat, IsFiniteSet(S), NEW R \in SUBSET Nat, IsFiniteSet(R), S \cap R = {},
         NEW p
  PROVE  Cardinality(Before(S \cup R, p)) = Cardinality(Before(S, p)) + Cardinality(Before(R, p))
<1>1. PICK A, B : A = Before(S, p) /\ B = Before(R, p)
  OBVIOUS
<1>2. A \in SUBSET S /\ B \in SUBSET R /\ A \cap B = {} /\ Before(S \cup R, p) = A \cup B
  BY <1>1 DEF Before
<1>3. IsFiniteSet(A) /\ IsFiniteSet(B)
  BY <1>2, FS_Subset
<1>4. Cardinality(A \cup B) = Cardinality(A) + Cardinality(B) - Cardinality(A \cap B)
  BY <1>3, FS_Union
<1>5. Cardinality(A) \in Nat /\ Cardinality(B) \in Nat /\ Cardinality(A \cap B) = 0
  BY <1>2, <1>3, FS_CardinalityType, FS_EmptySet
<1>6. Cardinality(A \cup B) = Cardinality(A) + Cardinality(B)
  BY <1>4, <1>5
<1>7. QED
  BY <1>1, <1>2, <1>6

\* The two counts of a simulated element: with the real hosts of its kind, whose number
\* before it makes the difference, and without.
LEMMA CountedTwice ==
  ASSUME DocumentType, Fits, NEW type, NEW types, type \in types, type \notin Real,
         \A other \in types : other = type \/ other \in Real,
         NEW p \in PlacesOf({type})
  PROVE  FiledBehind(Those(types), NameOf(type, p - 1), types, p - 1, mArrayElements[p])
<1>1. PICK S, T, R : S = PlacesOf({type}) /\ T = PlacesOf(types) /\ R = PlacesOf(types \cap Real)
  OBVIOUS
<1>2. /\ S \in SUBSET Nat /\ IsFiniteSet(S) /\ T \in SUBSET Nat /\ IsFiniteSet(T)
      /\ R \in SUBSET Nat /\ IsFiniteSet(R)
      /\ p \in 1 .. Count /\ Count \in Nat
  BY <1>1, Kinds, Places
<1>3. T = S \cup R /\ S \cap R = {} /\ p \in S /\ p \in T
  BY <1>1 DEF PlacesOf
<1>4. PICK s, r, t : /\ s = Cardinality(Before(S, p)) /\ r = Cardinality(Before(R, p))
                     /\ t = Cardinality(Before(T, p))
  OBVIOUS
<1>5. /\ s \in Nat /\ s + 1 \in 1 .. Cardinality(S) /\ Nth(S, s + 1) = p
      /\ t \in Nat /\ t + 1 \in 1 .. Cardinality(T) /\ Nth(T, t + 1) = p
  BY <1>2, <1>3, <1>4, NthOfRank
<1>6. t = s + r /\ r \in Nat
  <2>1. t = s + r
    BY <1>2, <1>3, <1>4, BeforeTwo
  <2>2. Before(R, p) \in SUBSET R
    BY DEF Before
  <2>3. QED
    BY <1>2, <1>4, <2>1, <2>2, FS_Subset, FS_CardinalityType
<1>7. NameOf(type, p - 1) = s + 1
  <2>1. PICK those : those = Those({type})
    OBVIOUS
  <2>2. s + 1 \in DOMAIN those /\ those[s + 1] = mArrayElements[p]
    BY <1>1, <1>5, <2>1, Kinds
  <2>3. element[mArrayElements[p]].Index = p - 1
    BY <1>2, PlaceOfIndex
  <2>4. QED
    BY <2>1, <2>2, <2>3, NameFound
<1>8. RealsAhead(types, p - 1) = r
  <2>1. (p - 1) + 1 = p
    BY <1>2
  <2>2. QED
    BY <1>1, <1>4, <2>1 DEF RealsAhead
<1>9. (s + 1) + r = t + 1
  BY <1>5, <1>6
<1>10. t + 1 \in DOMAIN Those(types) /\ Those(types)[t + 1] = mArrayElements[p]
  BY <1>1, <1>5, Kinds
<1>11. QED
  BY <1>7, <1>8, <1>9, <1>10 DEF FiledBehind

\* So an element of a list shown that is of the simulated type.
LEMMA ShownTwice ==
  ASSUME DocumentType, Fits, NEW type, NEW types, type \in types, type \notin Real,
         \A other \in types : other = type \/ other \in Real, type \in Simulated, Simulated \cap Real = {},
         NEW choice, choice \in Among(Listed(types)), element[choice.object].Type \in Simulated
  PROVE  FiledBehind(Those(types), NameOf(type, choice.Index), types, choice.Index, choice.object)
<1>1. PICK those, places, m : /\ those = Those(types) /\ places = PlacesOf(types)
                              /\ m = Cardinality(places)
  OBVIOUS
<1>2. KnownAs(those, places, m)
  BY <1>1, Known
<1>3. PICK a \in DOMAIN those : choice.object = those[a] /\ choice.Index = element[those[a]].Index
  BY <1>1 DEF Among, Listed
<1>4. PICK p : p = Nth(places, a)
  OBVIOUS
<1>5. p \in places /\ p \in 1 .. Count /\ those[a] = mArrayElements[p]
  BY <1>2, <1>3, <1>4 DEF KnownAs
<1>6. element[mArrayElements[p]].Type \in types /\ p \in DOMAIN mArrayElements
  BY <1>1, <1>5 DEF PlacesOf
<1>7. element[mArrayElements[p]].Type = type
  BY <1>3, <1>5, <1>6
<1>8. p \in PlacesOf({type})
  BY <1>6, <1>7 DEF PlacesOf
<1>9. element[mArrayElements[p]].Index = p - 1
  BY <1>5, PlaceOfIndex
<1>10. QED
  BY <1>3, <1>5, <1>8, <1>9, CountedTwice

\* The files that are written.
LEMMA FilesWritten ==
  ASSUME DocumentType
  PROVE  Filed(CreateConfigFiles)
<1>1. PICK servers, nats, files : /\ servers = Those(Servers) /\ nats = Those({"eNAT"})
                                  /\ files = CreateConfigFiles
  OBVIOUS
<1>2. /\ servers = [n \in DOMAIN servers |-> servers[n]]
      /\ nats = [n \in DOMAIN nats |-> nats[n]]
  BY <1>1, Known DEF KnownAs
<1>3. /\ files.clients = Those(Clients)
      /\ files.servers = [n \in DOMAIN servers |->
                           [object |-> servers[n], NATPublicIPs |-> NATPublicIPs(servers[n])]]
      /\ files.nats = [n \in DOMAIN nats |->
                        [object |-> nats[n], PrivateIPs |-> PrivateIPs(nats[n]),
                         PublicIPs |-> PublicIPs(nats[n])]]
  BY <1>1 DEF CreateConfigFiles
<1>4. Objects(files.servers) = servers
  BY <1>2, <1>3 DEF Objects
<1>5. Objects(files.nats) = nats
  BY <1>2, <1>3 DEF Objects
<1>6. QED
  BY <1>1, <1>3, <1>4, <1>5 DEF Filed

\* What a test was told when it started, of a document that still is the one its files
\* were written for.
LEMMA ToldRight ==
  ASSUME DocumentType, Fits, NEW t \in Testers, RunInv(t), thread[t].phase = "running",
         NEW servers, servers = Objects(thread[t].files.servers)
  PROVE  /\ \A n \in DOMAIN thread[t].clients :
              LET chosen == thread[t].clients[n]
              IN  element[chosen.object].Type \in Simulated =>
                    FiledBehind(thread[t].files.clients, thread[t].fromClient[n], Clients,
                                chosen.Index, chosen.object)
         /\ element[thread[t].server.object].Type \in Simulated =>
              FiledBehind(servers, thread[t].toServer, Servers, thread[t].server.Index,
                          thread[t].server.object)
         /\ \A n \in DOMAIN thread[t].parts.servers :
              LET part == thread[t].parts.servers[n]
              IN  FiledBehind(servers, n, Servers, element[part].Index, part)
         /\ thread[t].parts.nats = Objects(thread[t].files.nats)
<1>1. PICK run : run = thread[t]
  OBVIOUS
<1>2. /\ run.files.clients = Those(Clients) /\ servers = Those(Servers)
      /\ Objects(run.files.nats) = Those({"eNAT"})
      /\ \A n \in DOMAIN run.clients : run.clients[n] \in Among(Listed(Clients))
      /\ run.server \in Among(Listed(Servers))
      /\ run.fromClient = [n \in DOMAIN run.clients |-> NameOf("eSTUNClient", run.clients[n].Index)]
      /\ run.toServer = NameOf("eSTUNServer", run.server.Index)
      /\ run.parts.nats = Those({"eNAT"}) /\ run.parts.servers = Those({"eSTUNServer"})
  BY <1>1 DEF RunInv, Filed, Told
<1>3. /\ "eSTUNClient" \in Clients /\ "eSTUNServer" \in Servers
      /\ "eSTUNClient" \in Simulated /\ "eSTUNServer" \in Simulated /\ Simulated \cap Real = {}
      /\ "eSTUNClient" \notin Real /\ "eSTUNServer" \notin Real
      /\ \A other \in Clients : other = "eSTUNClient" \/ other \in Real
      /\ \A other \in Servers : other = "eSTUNServer" \/ other \in Real
  BY DEF Clients, Servers, Simulated, Real
<1>4. ASSUME NEW n \in DOMAIN run.clients, element[run.clients[n].object].Type \in Simulated
      PROVE  FiledBehind(run.files.clients, run.fromClient[n], Clients,
                         run.clients[n].Index, run.clients[n].object)
  <2>1. PICK choice : choice = run.clients[n]
    OBVIOUS
  <2>2. choice \in Among(Listed(Clients)) /\ run.fromClient[n] = NameOf("eSTUNClient", choice.Index)
    BY <1>2, <2>1
  <2>3. FiledBehind(Those(Clients), NameOf("eSTUNClient", choice.Index), Clients, choice.Index, choice.object)
    BY <1>3, <1>4, <2>1, <2>2, ShownTwice
  <2>4. QED
    BY <1>2, <2>1, <2>2, <2>3
<1>5. ASSUME element[run.server.object].Type \in Simulated
      PROVE  FiledBehind(servers, run.toServer, Servers, run.server.Index, run.server.object)
  <2>1. PICK choice : choice = run.server
    OBVIOUS
  <2>2. FiledBehind(Those(Servers), NameOf("eSTUNServer", choice.Index), Servers, choice.Index, choice.object)
    BY <1>2, <1>3, <1>5, <2>1, ShownTwice
  <2>3. QED
    BY <1>2, <2>1, <2>2
<1>6. ASSUME NEW n \in DOMAIN run.parts.servers
      PROVE  FiledBehind(servers, n, Servers, element[run.parts.servers[n]].Index, run.parts.servers[n])
  <2>1. PICK those, places, m : /\ those = Those({"eSTUNServer"}) /\ places = PlacesOf({"eSTUNServer"})
                                /\ m = Cardinality(places)
    OBVIOUS
  <2>2. KnownAs(those, places, m) /\ n \in DOMAIN those /\ run.parts.servers[n] = those[n]
    BY <1>2, <2>1, Known
  <2>3. PICK p : p = Nth(places, n)
    OBVIOUS
  <2>4. p \in places /\ p \in 1 .. Count /\ those[n] = mArrayElements[p]
    BY <2>2, <2>3 DEF KnownAs
  <2>5. element[those[n]].Index = p - 1
    BY <2>4, PlaceOfIndex
  <2>6. NameOf("eSTUNServer", p - 1) = n
    BY <2>1, <2>2, <2>5, NameFound
  <2>7. FiledBehind(Those(Servers), NameOf("eSTUNServer", p - 1), Servers, p - 1, mArrayElements[p])
    BY <1>3, <2>1, <2>4, CountedTwice
  <2>8. QED
    BY <1>2, <2>2, <2>4, <2>5, <2>6, <2>7
<1>7. QED
  BY <1>1, <1>2, <1>4, <1>5, <1>6

LEMMA ChosenInit == TopologyInit => ChosenInv
BY DEF TopologyInit, ChosenInv, RunInv, NoThread

\* No thread, nothing to keep.
LEMMA IdleChosen ==
  ASSUME ChosenInv, UNCHANGED thread, ~edited' => ~Tested
  PROVE  ChosenInv'
<1>1. ~edited' => \A t \in Testers : thread'[t].phase = "none"
  BY DEF Tested, ChosenInv
<1>2. ~edited' => \A t \in Testers : RunInv(t)'
  BY <1>1 DEF RunInv
<1>3. QED
  BY <1>2 DEF ChosenInv

\* A step that leaves the elements as they are, and all threads but one.
LEMMA OtherChosen ==
  ASSUME ChosenInv, DocumentType, mArrayElements' = mArrayElements,
         \A x \in Elements : /\ element'[x].Type = element[x].Type
                             /\ element'[x].Index = element[x].Index,
         NEW u \in Testers, ~edited, thread'[u] = thread[u]
  PROVE  RunInv(u)'
<1>1. /\ \A types : Those(types)' = Those(types) /\ Listed(types)' = Listed(types)
      /\ \A type, index : NameOf(type, index)' = NameOf(type, index)
  BY SameElements
<1>2. RunInv(u)
  BY DEF ChosenInv
<1>3. QED
  BY <1>1, <1>2 DEF RunInv, Told, Filed

\* The start of a thread: the dialog shows what there is.
LEMMA StartChosen ==
  ASSUME ChosenInv, DocumentType, NEW t \in Testers, StartTest(t)
  PROVE  ChosenInv'
<1>1. /\ UNCHANGED <<mArrayElements, element>> /\ edited' = (Tested /\ edited)
      /\ thread' = [thread EXCEPT ![t] = [phase |-> "dialog", clients |-> Listed(Clients),
                                          servers |-> Listed(Servers)]]
  BY DEF StartTest, docVars
<1>2. /\ thread' = [u \in Testers |-> thread'[u]]
      /\ \A u \in Testers : u # t => thread'[u] = thread[u]
      /\ thread'[t] = [phase |-> "dialog", clients |-> Listed(Clients), servers |-> Listed(Servers)]
  BY <1>1 DEF ChosenInv
<1>3. /\ \A types : Those(types)' = Those(types) /\ Listed(types)' = Listed(types)
  BY <1>1, SameElements
<1>4. RunInv(t)'
  BY <1>2, <1>3 DEF RunInv
<1>5. ASSUME ~edited', NEW u \in Testers, u # t PROVE RunInv(u)'
  <2>1. CASE ~edited
    BY <1>1, <1>2, <1>5, <2>1, OtherChosen
  <2>2. CASE edited
    <3>1. thread'[u].phase = "none"
      BY <1>1, <1>2, <1>5, <2>2 DEF Tested
    <3>2. QED
      BY <3>1 DEF RunInv
  <2>3. QED
    BY <2>1, <2>2
<1>6. QED
  BY <1>2, <1>4, <1>5 DEF ChosenInv

\* The end of a thread, or of its document.
LEMMA StopChosen ==
  ASSUME ChosenInv, DocumentType, NEW t \in Testers, Cancel(t) \/ End(t) \/ Stray(t)
  PROVE  ChosenInv'
<1>1. /\ UNCHANGED <<mArrayElements, element, edited>>
      /\ \/ thread' = [thread EXCEPT ![t] = NoThread]
         \/ thread' = [thread EXCEPT ![t] = [phase |-> "stray"]]
  BY DEF Cancel, End, Stray, docVars
<1>2. /\ thread' = [u \in Testers |-> thread'[u]]
      /\ \A u \in Testers : u # t => thread'[u] = thread[u]
      /\ thread'[t].phase \in {"none", "stray"}
  BY <1>1 DEF ChosenInv, NoThread
<1>3. RunInv(t)'
  BY <1>2 DEF RunInv
<1>4. ASSUME ~edited, NEW u \in Testers, u # t PROVE RunInv(u)'
  BY <1>1, <1>2, <1>4, OtherChosen
<1>5. QED
  BY <1>1, <1>2, <1>3, <1>4 DEF ChosenInv

\* The user's choice in the dialog, upon which the files are written.
LEMMA ConfirmChosen ==
  ASSUME ChosenInv, DocumentType, NEW t \in Testers, NEW answer \in TestDlg(t),
         Confirm(t, answer.clients, answer.server)
  PROVE  ChosenInv'
<1>1. /\ UNCHANGED <<mArrayElements, element, edited>> /\ thread[t].phase = "dialog"
      /\ thread' = [thread EXCEPT ![t] = [phase |-> "files", clients |-> answer.clients,
                                          server |-> answer.server, files |-> CreateConfigFiles]]
  BY DEF Confirm, docVars
<1>2. /\ thread' = [u \in Testers |-> thread'[u]]
      /\ \A u \in Testers : u # t => thread'[u] = thread[u]
      /\ thread'[t].phase = "files" /\ thread'[t].clients = answer.clients
      /\ thread'[t].server = answer.server /\ thread'[t].files = CreateConfigFiles
  BY <1>1 DEF ChosenInv
<1>3. /\ \A types : Those(types)' = Those(types) /\ Listed(types)' = Listed(types)
  BY <1>1, SameElements
<1>4. ASSUME ~edited PROVE RunInv(t)'
  <2>1. thread[t].clients = Listed(Clients) /\ thread[t].servers = Listed(Servers)
    BY <1>1, <1>4 DEF ChosenInv, RunInv
  <2>2. answer.server \in Among(Listed(Servers))
    BY <2>1 DEF TestDlg, Among
  <2>3. \A n \in DOMAIN answer.clients : answer.clients[n] \in Among(Listed(Clients))
    <3>1. PICK list : list = Listed(Clients)
      OBVIOUS
    <3>2. answer.clients \in {<<list[a]>> : a \in DOMAIN list} \cup
                             {<<list[p[1]], list[p[2]]>> :
                                p \in {p \in (DOMAIN list) \X (DOMAIN list) : p[1] < p[2]}}
      BY <2>1, <3>1 DEF TestDlg
    <3>3. CASE \E a \in DOMAIN list : answer.clients = <<list[a]>>
      BY <3>1, <3>3 DEF Among
    <3>4. CASE \E a, b \in DOMAIN list : answer.clients = <<list[a], list[b]>>
      BY <3>1, <3>4 DEF Among
    <3>5. QED
      BY <3>2, <3>3, <3>4
  <2>4. Filed(CreateConfigFiles)
    BY FilesWritten
  <2>5. /\ thread'[t].files.clients = Those(Clients)'
        /\ Objects(thread'[t].files.servers) = Those(Servers)'
        /\ Objects(thread'[t].files.nats) = Those({"eNAT"})'
    BY <1>2, <1>3, <2>4 DEF Filed
  <2>6. /\ \A n \in DOMAIN thread'[t].clients : thread'[t].clients[n] \in Among(Listed(Clients)')
        /\ thread'[t].server \in Among(Listed(Servers)')
    BY <1>2, <1>3, <2>2, <2>3
  <2>7. QED
    BY <1>2, <2>5, <2>6 DEF RunInv, Filed
<1>5. ASSUME ~edited, NEW u \in Testers, u # t PROVE RunInv(u)'
  BY <1>1, <1>2, <1>5, OtherChosen
<1>6. QED
  BY <1>1, <1>2, <1>4, <1>5 DEF ChosenInv

\* The raising of the flag changes nothing else.
LEMMA SetTestingChosen ==
  ASSUME ChosenInv, DocumentType, NEW t \in Testers, SetTesting(t)
  PROVE  ChosenInv'
<1>1. /\ UNCHANGED <<mArrayElements, element, edited>> /\ thread[t].phase = "files"
      /\ thread' = [thread EXCEPT ![t] = [phase |-> "testing", clients |-> @.clients,
                                          server |-> @.server, files |-> @.files]]
  BY DEF SetTesting, docVars
<1>2. /\ thread' = [u \in Testers |-> thread'[u]]
      /\ \A u \in Testers : u # t => thread'[u] = thread[u]
      /\ thread'[t].phase = "testing" /\ thread'[t].clients = thread[t].clients
      /\ thread'[t].server = thread[t].server /\ thread'[t].files = thread[t].files
  BY <1>1 DEF ChosenInv
<1>3. \A types : Those(types)' = Those(types) /\ Listed(types)' = Listed(types)
  BY <1>1, SameElements
<1>4. ASSUME ~edited PROVE RunInv(t)'
  <2>1. RunInv(t)
    BY <1>4 DEF ChosenInv
  <2>2. QED
    BY <1>1, <1>2, <1>3, <2>1 DEF RunInv, Filed
<1>5. ASSUME ~edited, NEW u \in Testers, u # t PROVE RunInv(u)'
  BY <1>1, <1>2, <1>5, OtherChosen
<1>6. QED
  BY <1>1, <1>2, <1>4, <1>5 DEF ChosenInv

\* The start of the parts, with the names counted anew.
LEMMA RunChosen ==
  ASSUME ChosenInv, DocumentType, NEW t \in Testers, Run(t)
  PROVE  ChosenInv'
<1>1. /\ UNCHANGED <<mArrayElements, element, edited>> /\ thread[t].phase = "testing"
      /\ thread' = [thread EXCEPT ![t] =
           [phase      |-> "running",
            clients    |-> @.clients, server |-> @.server, files |-> @.files,
            fromClient |-> [n \in DOMAIN @.clients |-> NameOf("eSTUNClient", @.clients[n].Index)],
            toServer   |-> NameOf("eSTUNServer", @.server.Index),
            parts      |-> [nats |-> Those({"eNAT"}), servers |-> Those({"eSTUNServer"})]]]
  BY DEF Run, docVars
<1>2. PICK run : run = thread'[t]
  OBVIOUS
<1>3. PICK clients, server, files : /\ clients = thread[t].clients /\ server = thread[t].server
                                    /\ files = thread[t].files
  OBVIOUS
<1>4. /\ thread' = [u \in Testers |-> thread'[u]]
      /\ \A u \in Testers : u # t => thread'[u] = thread[u]
  BY <1>1 DEF ChosenInv
<1>5. /\ run.phase = "running" /\ run.clients = clients /\ run.server = server /\ run.files = files
      /\ run.fromClient = [n \in DOMAIN clients |-> NameOf("eSTUNClient", clients[n].Index)]
      /\ run.toServer = NameOf("eSTUNServer", server.Index)
      /\ run.parts.nats = Those({"eNAT"}) /\ run.parts.servers = Those({"eSTUNServer"})
  <2>1. run = [phase      |-> "running",
               clients    |-> clients, server |-> server, files |-> files,
               fromClient |-> [n \in DOMAIN clients |-> NameOf("eSTUNClient", clients[n].Index)],
               toServer   |-> NameOf("eSTUNServer", server.Index),
               parts      |-> [nats |-> Those({"eNAT"}), servers |-> Those({"eSTUNServer"})]]
    BY <1>1, <1>2, <1>3 DEF ChosenInv
  <2>2. QED
    BY <2>1
<1>6. /\ \A types : Those(types)' = Those(types) /\ Listed(types)' = Listed(types)
      /\ \A type, index : NameOf(type, index)' = NameOf(type, index)
  BY <1>1, SameElements
<1>7. ASSUME ~edited PROVE RunInv(t)'
  <2>1. /\ Filed(files) /\ server \in Among(Listed(Servers))
        /\ \A n \in DOMAIN clients : clients[n] \in Among(Listed(Clients))
    BY <1>1, <1>3, <1>7 DEF ChosenInv, RunInv
  <2>2. Filed(files)'
    BY <1>6, <2>1 DEF Filed
  <2>3. Told(run)'
    BY <1>2, <1>5, <1>6 DEF Told
  <2>4. QED
    BY <1>2, <1>5, <1>6, <2>1, <2>2, <2>3 DEF RunInv
<1>8. ASSUME ~edited, NEW u \in Testers, u # t PROVE RunInv(u)'
  BY <1>1, <1>4, <1>8, OtherChosen
<1>9. QED
  BY <1>1, <1>4, <1>7, <1>8 DEF ChosenInv

\* So every step keeps what the threads know.
LEMMA ChosenStep == ChosenInv /\ DocInv /\ [TopologyNext]_topoVars => ChosenInv'
<1> SUFFICES ASSUME ChosenInv, DocInv, [TopologyNext]_topoVars PROVE ChosenInv'
  OBVIOUS
<1>0. DocumentType
  BY DEF DocInv
<1>1. CASE \E i, j \in Indices, ci, cj \in Connectors : ValidateLink(i, j, ci, cj)
  <2>1. UNCHANGED <<mArrayElements, thread, edited>>
    BY <1>1 DEF ValidateLink, testVars
  <2>2. \A x \in Elements : /\ element'[x].Type = element[x].Type
                            /\ element'[x].Index = element[x].Index
    <3>1. PICK i \in Indices, j \in Indices, ci \in Connectors, cj \in Connectors : ValidateLink(i, j, ci, cj)
      BY <1>1
    <3>2. PICK x, y : /\ x = GetItemData(i) /\ y = GetItemData(j)
                      /\ element' = [element EXCEPT ![x] = Joined(x, y, cj), ![y] = Joined(y, x, ci)]
      BY <3>1 DEF ValidateLink
    <3>3. element \in [Elements -> ElementRecords]
      BY <1>0 DEF DocumentType
    <3>4. ASSUME NEW z \in Elements
          PROVE  element'[z].Type = element[z].Type /\ element'[z].Index = element[z].Index
      <4>1. element[z] \in ElementRecords
        BY <3>3
      <4>2. /\ z # x /\ z # y => element'[z] = element[z]
            /\ z = x /\ z # y => element'[z] = Joined(z, y, cj)
            /\ z = y => element'[z] = Joined(z, x, ci)
        BY <3>2, <3>3
      <4>3. \A w, c : Joined(z, w, c).Type = element[z].Type /\ Joined(z, w, c).Index = element[z].Index
        BY <4>1 DEF Joined, ElementRecords
      <4>4. QED
        BY <4>2, <4>3
    <3>5. QED
      BY <3>4
  <2>3. \A u \in Testers : ~edited => RunInv(u)'
    BY <1>0, <2>1, <2>2, OtherChosen
  <2>4. QED
    BY <2>1, <2>3 DEF ChosenInv
<1>2. CASE \/ \E type \in Types : InsertElement(type)
           \/ \E i \in Indices : OnDeleteitem(i)
           \/ \E saved \in {disk, WriteDocument} : OnCloseDocument(saved)
  <2>1. UNCHANGED thread /\ edited' = (edited \/ Tested)
    BY <1>2 DEF InsertElement, OnDeleteitem, OnCloseDocument, testVars
  <2>2. QED
    BY <2>1, IdleChosen
<1>3. CASE OnNewDocument \/ OnOpenDocument
  <2>1. UNCHANGED thread /\ ~Tested
    BY <1>3 DEF OnNewDocument, OnOpenDocument
  <2>2. QED
    BY <2>1, IdleChosen
<1>4. CASE \E t \in Testers : \/ StartTest(t) \/ Cancel(t) \/ SetTesting(t)
                                \/ Run(t) \/ End(t) \/ Stray(t)
  BY <1>0, <1>4, StartChosen, StopChosen, SetTestingChosen, RunChosen
<1>5. CASE \E t \in Testers : \E answer \in TestDlg(t) : Confirm(t, answer.clients, answer.server)
  BY <1>0, <1>5, ConfirmChosen
<1>6. CASE UNCHANGED topoVars
  <2>1. UNCHANGED <<mArrayElements, element, thread, edited>>
    BY <1>6 DEF topoVars, docVars, testVars
  <2>2. \A u \in Testers : ~edited => RunInv(u)'
    BY <1>0, <2>1, OtherChosen
  <2>3. QED
    BY <2>1, <2>2 DEF ChosenInv
<1>7. QED
  BY <1>1, <1>2, <1>3, <1>4, <1>5, <1>6 DEF TopologyNext

\* No test is started on a document whose indices do not fit, and no other document is
\* opened under it.
SoundInv == Tested => ~skewed /\ ~asserted

LEMMA SoundStep == SoundInv /\ [TopologyNext]_topoVars => SoundInv'
<1> SUFFICES ASSUME SoundInv, [TopologyNext]_topoVars PROVE SoundInv'
  OBVIOUS
<1>1. CASE UNCHANGED <<skewed, asserted>> /\ (Tested' => Tested \/ (~skewed /\ ~asserted))
  BY <1>1 DEF SoundInv
<1>2. CASE \/ \E i, j \in Indices, ci, cj \in Connectors : ValidateLink(i, j, ci, cj)
           \/ \E type \in Types : InsertElement(type)
           \/ \E i \in Indices : OnDeleteitem(i)
           \/ \E saved \in {disk, WriteDocument} : OnCloseDocument(saved)
           \/ UNCHANGED topoVars
  BY <1>1, <1>2 DEF ValidateLink, InsertElement, OnDeleteitem, OnCloseDocument,
                    topoVars, docVars, testVars, Tested
<1>3. CASE OnNewDocument \/ OnOpenDocument
  BY <1>3 DEF OnNewDocument, OnOpenDocument, SoundInv, Tested
<1>4. CASE \E t \in Testers : \/ StartTest(t) \/ Cancel(t) \/ SetTesting(t)
                                \/ Run(t) \/ End(t) \/ Stray(t)
                                \/ \E clients, server : Confirm(t, clients, server)
  <2>1. UNCHANGED <<skewed, asserted>>
    BY <1>4 DEF StartTest, Cancel, SetTesting, Run, End, Stray, Confirm, docVars
  <2>2. Tested \/ (~skewed /\ ~asserted)
    BY <1>4 DEF StartTest, Cancel, SetTesting, Run, End, Stray, Confirm, Editing, Tested
  <2>3. QED
    BY <1>1, <2>1, <2>2
<1>5. QED
  BY <1>2, <1>3, <1>4 DEF TopologyNext

\* CreateConfigFiles counts the clients and servers with the real hosts, ThreadTest
\* without.  Until an element comes or goes, the two counts of a simulated client or server
\* differ by exactly the real hosts of its kind before it: where there are none the test
\* uses the client and the server the user chose, and each part it starts reads its own
\* file.  After elements came or went nothing is said.
THEOREM ChosenAreTested == TopologySpec => []ChosenIsTested
<1>1. ChosenInv /\ DocInv /\ SoundInv => ChosenIsTested
  <2> SUFFICES ASSUME ChosenInv, DocInv, SoundInv, ~edited, NEW t \in Testers, thread[t].phase = "running"
               PROVE  LET run     == thread[t]
                          servers == Objects(run.files.servers)
                      IN  /\ \A n \in DOMAIN run.clients :
                               LET chosen == run.clients[n]
                               IN  element[chosen.object].Type \in Simulated =>
                                     FiledBehind(run.files.clients, run.fromClient[n], Clients,
                                                 chosen.Index, chosen.object)
                          /\ element[run.server.object].Type \in Simulated =>
                               FiledBehind(servers, run.toServer, Servers, run.server.Index,
                                           run.server.object)
                          /\ \A n \in DOMAIN run.parts.servers :
                               LET part == run.parts.servers[n]
                               IN  FiledBehind(servers, n, Servers, element[part].Index, part)
                          /\ run.parts.nats = Objects(run.files.nats)
    BY DEF ChosenIsTested
  <2>1. Tested
    BY DEF Tested
  <2>2. DocumentType /\ Fits /\ RunInv(t)
    BY <2>1 DEF ChosenInv, DocInv, SoundInv
  <2>3. QED
    BY <2>2, ToldRight
<1>2. TopologyInit => SoundInv
  BY DEF TopologyInit, SoundInv
<1>3. QED
  BY <1>1, <1>2, DocInit, DocStep, ChosenInit, ChosenStep, SoundStep, PTL DEF TopologySpec

-----------------------------------------------------------------------------
(* Ways over steps.                                                        *)

\* What holds of a number but not of all smaller ones has a first one: this is how
\* proofs go on by induction below.
LEMMA Least ==
  ASSUME NEW S \in SUBSET Nat, IsFiniteSet(S), S # {}
  PROVE  \E m \in S : \A n \in S : n \in Nat /\ m <= n
<1>1. Cardinality(S) \in Nat /\ Cardinality(S) # 0
  BY Ranks, FS_EmptySet
<1>2. 0 \in 0 .. (Cardinality(S) - 1)
  BY <1>1
<1>3. PICK m \in S : Cardinality(Before(S, m)) = 0
  BY <1>2, Ranks
<1>4. Before(S, m) = {}
  <2>1. Before(S, m) \in SUBSET S
    BY DEF Before
  <2>2. IsFiniteSet(Before(S, m))
    BY <2>1, FS_Subset
  <2>3. QED
    BY <1>3, <2>2, FS_EmptySet
<1>5. \A n \in S : n \in Nat
  OBVIOUS
<1>6. ASSUME NEW n \in S PROVE m <= n
  <2>1. n \in Nat /\ m \in Nat
    BY <1>5
  <2>2. ~(n < m)
    BY <1>4 DEF Before
  <2>3. QED
    BY <2>1, <2>2
<1>7. QED
  BY <1>5, <1>6

\* So a property of the numbers up to a bound holds if it is inductive; the property is
\* the set of the numbers that have it.
LEMMA UpTo ==
  ASSUME NEW N \in Nat, NEW P, 0 \in P,
         \A n \in 1 .. N : n - 1 \in P => n \in P
  PROVE  0 .. N \subseteq P
<1> SUFFICES ASSUME NEW S, S = {n \in 0 .. N : n \notin P}, S # {} PROVE FALSE
  OBVIOUS
<1>0. S \in SUBSET (0 .. N) /\ S \in SUBSET Nat
  OBVIOUS
<1>1. IsFiniteSet(0 .. N)
  BY FS_Interval
<1>2. IsFiniteSet(S)
  BY <1>0, <1>1, FS_Subset
<1>3. PICK m \in S : \A n \in S : n \in Nat /\ m <= n
  BY <1>0, <1>2, Least
<1>4. m \in 0 .. N /\ m \notin P /\ m # 0
  OBVIOUS
<1>5. m \in 1 .. N /\ m - 1 \in 0 .. N /\ ~(m <= m - 1)
  BY <1>4
<1>6. m - 1 \notin S
  BY <1>3, <1>5
<1>7. QED
  BY <1>4, <1>5, <1>6

\* The sets that Near goes through.
Spread(nodes, steps, start, near, N) ==
  near = [n \in 0 .. N |->
            IF n = 0 THEN start
            ELSE near[n - 1] \cup {j \in nodes : \E i \in near[n - 1] : <<i, j>> \in steps}]

\* Each of them is the one before with what a step leads to from there.
Grows(nodes, steps, start, near, N) ==
  /\ near[0] = start
  /\ \A n \in 1 .. N : /\ near[n - 1] \subseteq near[n]
                      /\ \A i : i \in near[n] <=> \/ i \in near[n - 1]
                                                \/ /\ i \in nodes
                                                   /\ \E h \in near[n - 1] : <<h, i>> \in steps

LEMMA SpreadAt ==
  ASSUME NEW N \in Nat, NEW nodes, NEW steps, NEW start, NEW near, Spread(nodes, steps, start, near, N)
  PROVE  Grows(nodes, steps, start, near, N)
<1>1. PICK body : body = [n \in 0 .. N |->
        IF n = 0 THEN start
        ELSE near[n - 1] \cup {j \in nodes : \E i \in near[n - 1] : <<i, j>> \in steps}]
  OBVIOUS
<1>2. near = body
  BY <1>1 DEF Spread
<1>3. 0 \in 0 .. N /\ near[0] = start
  BY <1>1, <1>2
<1>4. ASSUME NEW n \in 1 .. N
      PROVE  near[n] = near[n - 1] \cup {j \in nodes : \E i \in near[n - 1] : <<i, j>> \in steps}
  <2>1. n \in 0 .. N /\ n # 0
    OBVIOUS
  <2>2. QED
    BY <1>1, <1>2, <2>1
<1>5. QED
  BY <1>3, <1>4 DEF Grows

\* There are such sets, for any number of steps: by induction on it.
LEMMA SpreadExists ==
  ASSUME NEW N \in Nat, NEW nodes, NEW steps, NEW start
  PROVE  \E near : Spread(nodes, steps, start, near, N)
<1>1. PICK P : P = {n \in 0 .. N : \E near : Spread(nodes, steps, start, near, n)}
  OBVIOUS
<1>2. 0 \in P
  <2>1. PICK near : near = [n \in 0 .. 0 |-> start]
    OBVIOUS
  <2>2. Spread(nodes, steps, start, near, 0)
    BY <2>1 DEF Spread
  <2>3. QED
    BY <1>1, <2>2
<1>3. ASSUME NEW n \in 1 .. N, n - 1 \in P PROVE n \in P
  <2>1. PICK near : Spread(nodes, steps, start, near, n - 1)
    BY <1>1, <1>3
  <2>2. PICK new : new = near[n - 1] \cup {j \in nodes : \E i \in near[n - 1] : <<i, j>> \in steps}
    OBVIOUS
  <2>3. PICK more : more = [m \in 0 .. n |-> IF m = n THEN new ELSE near[m]]
    OBVIOUS
  <2>4. near = [m \in 0 .. (n - 1) |->
                  IF m = 0 THEN start
                  ELSE near[m - 1] \cup {j \in nodes : \E i \in near[m - 1] : <<i, j>> \in steps}]
    BY <2>1 DEF Spread
  <2>5. ASSUME NEW m \in 0 .. n
        PROVE  more[m] = IF m = 0 THEN start
                         ELSE more[m - 1] \cup {j \in nodes : \E i \in more[m - 1] : <<i, j>> \in steps}
    <3>1. CASE m = n
      <4>1. more[m] = new /\ m # 0 /\ m - 1 \in 0 .. n /\ m - 1 # n
        BY <2>3, <3>1
      <4>2. more[m - 1] = near[n - 1]
        BY <2>3, <3>1, <4>1
      <4>3. QED
        BY <2>2, <4>1, <4>2
    <3>2. CASE m # n
      <4>1. m \in 0 .. (n - 1) /\ more[m] = near[m]
        BY <2>3, <3>2
      <4>2. CASE m = 0
        BY <2>4, <4>1, <4>2
      <4>3. CASE m # 0
        <5>1. m - 1 \in 0 .. n /\ m - 1 # n
          BY <4>1, <4>3
        <5>2. more[m - 1] = near[m - 1]
          BY <2>3, <5>1
        <5>3. QED
          BY <2>4, <4>1, <4>3, <5>2
      <4>4. QED
        BY <4>2, <4>3
    <3>3. QED
      BY <3>1, <3>2
  <2>6. more = [m \in 0 .. n |-> more[m]]
    BY <2>3
  <2>7. Spread(nodes, steps, start, more, n)
    BY <2>5, <2>6 DEF Spread
  <2>8. n \in 0 .. N
    OBVIOUS
  <2>9. QED
    BY <1>1, <2>7, <2>8
<1>4. 0 .. N \subseteq P
  BY <1>2, <1>3, UpTo
<1>5. N \in P
  BY <1>4
<1>6. QED
  BY <1>1, <1>5

\* So Near is the last of them.
LEMMA NearSpread ==
  ASSUME Count \in Nat, NEW nodes, NEW steps, NEW start
  PROVE  \E near : /\ Spread(nodes, steps, start, near, Count)
                   /\ Near(nodes, steps, start) = near[Count]
<1> DEFINE all == CHOOSE near : near = [n \in 0 .. Count |->
            IF n = 0 THEN start
            ELSE near[n - 1] \cup {j \in nodes : \E i \in near[n - 1] : <<i, j>> \in steps}]
<1>1. \E near : near = [n \in 0 .. Count |->
            IF n = 0 THEN start
            ELSE near[n - 1] \cup {j \in nodes : \E i \in near[n - 1] : <<i, j>> \in steps}]
  <2>1. PICK near : Spread(nodes, steps, start, near, Count)
    BY SpreadExists
  <2>2. QED
    BY <2>1 DEF Spread
<1>2. all = [n \in 0 .. Count |->
            IF n = 0 THEN start
            ELSE all[n - 1] \cup {j \in nodes : \E i \in all[n - 1] : <<i, j>> \in steps}]
  BY <1>1
<1>3. Near(nodes, steps, start) = all[Count]
  BY DEF Near
<1> HIDE DEF all
<1>4. QED
  BY <1>2, <1>3 DEF Spread

\* A way of so many steps.
IsWay(steps, way, l) ==
  way = [m \in 0 .. l |-> way[m]] /\ \A m \in 1 .. l : <<way[m - 1], way[m]>> \in steps

\* What is in Near is at the end of a way from the start.
LEMMA NearWay ==
  ASSUME Count \in Nat, NEW nodes, NEW steps, NEW start, NEW j \in Near(nodes, steps, start)
  PROVE  \E l \in 0 .. Count : \E way : IsWay(steps, way, l) /\ way[0] \in start /\ way[l] = j
<1>1. PICK near : Spread(nodes, steps, start, near, Count) /\ Near(nodes, steps, start) = near[Count]
  BY NearSpread
<1>2. /\ near[0] = start
      /\ \A n \in 1 .. Count : /\ near[n - 1] \subseteq near[n]
                               /\ \A i : i \in near[n] <=> \/ i \in near[n - 1]
                                                         \/ /\ i \in nodes
                                                            /\ \E h \in near[n - 1] : <<h, i>> \in steps
  <2>1. Grows(nodes, steps, start, near, Count)
    BY <1>1, SpreadAt
  <2>2. QED
    BY <2>1 DEF Grows
<1>3. PICK P : P = {n \in 0 .. Count : \A i \in near[n] : \E l \in 0 .. n : \E way :
                      IsWay(steps, way, l) /\ way[0] \in start /\ way[l] = i}
  OBVIOUS
<1>4. 0 \in P
  <2> SUFFICES ASSUME NEW i \in near[0]
               PROVE  \E l \in 0 .. 0 : \E way : IsWay(steps, way, l) /\ way[0] \in start /\ way[l] = i
    BY <1>3
  <2>1. i \in start
    BY <1>2
  <2>2. PICK way : way = [m \in 0 .. 0 |-> i]
    OBVIOUS
  <2>3. IsWay(steps, way, 0) /\ way[0] = i
    BY <2>2 DEF IsWay
  <2>4. QED
    BY <2>1, <2>3
<1>5. ASSUME NEW n \in 1 .. Count, n - 1 \in P PROVE n \in P
  <2> SUFFICES ASSUME NEW i \in near[n]
               PROVE  \E l \in 0 .. n : \E way : IsWay(steps, way, l) /\ way[0] \in start /\ way[l] = i
    BY <1>3
  <2>1. /\ near[n - 1] \subseteq near[n]
        /\ \A k : k \in near[n] <=> \/ k \in near[n - 1]
                                  \/ /\ k \in nodes
                                     /\ \E h \in near[n - 1] : <<h, k>> \in steps
    BY <1>2
  <2>2. CASE i \in near[n - 1]
    <3>1. PICK l \in 0 .. (n - 1) : \E way : IsWay(steps, way, l) /\ way[0] \in start /\ way[l] = i
      BY <1>3, <1>5, <2>2
    <3>2. l \in 0 .. n
      BY <3>1
    <3>3. QED
      BY <3>1, <3>2
  <2>3. CASE \E h \in near[n - 1] : <<h, i>> \in steps
    <3>1. PICK h \in near[n - 1] : <<h, i>> \in steps
      BY <2>3
    <3>2. PICK l \in 0 .. (n - 1) : \E way : IsWay(steps, way, l) /\ way[0] \in start /\ way[l] = h
      BY <1>3, <1>5, <3>1
    <3>3. PICK way : IsWay(steps, way, l) /\ way[0] \in start /\ way[l] = h
      BY <3>2
    <3>4. PICK on : on = [m \in 0 .. (l + 1) |-> IF m = l + 1 THEN i ELSE way[m]]
      OBVIOUS
    <3>5. l + 1 \in 0 .. n /\ l \in Nat
      BY <3>2
    <3>6. on[0] \in start /\ on[l + 1] = i
      BY <3>3, <3>4, <3>5
    <3>7. ASSUME NEW m \in 1 .. (l + 1) PROVE <<on[m - 1], on[m]>> \in steps
      <4>1. m - 1 \in 0 .. (l + 1) /\ m - 1 # l + 1
        BY <3>5
      <4>2. on[m - 1] = way[m - 1]
        BY <3>4, <4>1
      <4>3. CASE m = l + 1
        BY <3>1, <3>3, <3>4, <3>5, <4>2, <4>3
      <4>4. CASE m # l + 1
        <5>1. m \in 1 .. l /\ on[m] = way[m]
          BY <3>4, <3>5, <4>4
        <5>2. QED
          BY <3>3, <4>2, <5>1 DEF IsWay
      <4>5. QED
        BY <4>3, <4>4
    <3>8. IsWay(steps, on, l + 1)
      <4>1. on = [m \in 0 .. (l + 1) |-> on[m]]
        BY <3>4
      <4>2. QED
        BY <3>7, <4>1 DEF IsWay
    <3>9. QED
      BY <3>5, <3>6, <3>8
  <2>4. QED
    BY <2>1, <2>2, <2>3
<1>6. 0 .. Count \subseteq P
  BY <1>4, <1>5, UpTo
<1>7. Count \in P
  BY <1>6
<1>8. QED
  BY <1>1, <1>3, <1>7

\* And a way that is not longer than there are elements stays in Near.
LEMMA WayNear ==
  ASSUME Count \in Nat, NEW nodes, NEW steps, NEW start,
         NEW l \in 0 .. Count, NEW way, IsWay(steps, way, l), way[0] \in start,
         \A m \in 1 .. l : way[m] \in nodes
  PROVE  \A m \in 0 .. l : way[m] \in Near(nodes, steps, start)
<1>1. PICK near : Spread(nodes, steps, start, near, Count) /\ Near(nodes, steps, start) = near[Count]
  BY NearSpread
<1>2. /\ near[0] = start
      /\ \A n \in 1 .. Count : /\ near[n - 1] \subseteq near[n]
                               /\ \A i : i \in near[n] <=> \/ i \in near[n - 1]
                                                         \/ /\ i \in nodes
                                                            /\ \E h \in near[n - 1] : <<h, i>> \in steps
  <2>1. Grows(nodes, steps, start, near, Count)
    BY <1>1, SpreadAt
  <2>2. QED
    BY <2>1 DEF Grows
<1>3. PICK P : P = {n \in 0 .. Count : \A m \in 0 .. l : m <= n => way[m] \in near[n]}
  OBVIOUS
<1>4. 0 \in P
  <2>1. \A m \in 0 .. l : m <= 0 => way[m] \in near[0]
    BY <1>2
  <2>2. QED
    BY <1>3, <2>1
<1>5. ASSUME NEW n \in 1 .. Count, n - 1 \in P PROVE n \in P
  <2>1. /\ near[n - 1] \subseteq near[n]
        /\ \A k : k \in near[n] <=> \/ k \in near[n - 1]
                                  \/ /\ k \in nodes
                                     /\ \E h \in near[n - 1] : <<h, k>> \in steps
    BY <1>2
  <2>2. \A m \in 0 .. l : m <= n - 1 => way[m] \in near[n - 1]
    BY <1>3, <1>5
  <2>3. ASSUME NEW m \in 0 .. l, m <= n PROVE way[m] \in near[n]
    <3>1. CASE m <= n - 1
      BY <2>1, <2>2, <3>1
    <3>2. CASE ~(m <= n - 1)
      <4>1. m \in 1 .. l /\ m - 1 \in 0 .. l /\ m - 1 <= n - 1
        BY <2>3, <3>2
      <4>2. way[m - 1] \in near[n - 1]
        BY <2>2, <4>1
      <4>3. <<way[m - 1], way[m]>> \in steps /\ way[m] \in nodes
        BY <4>1 DEF IsWay
      <4>4. QED
        BY <2>1, <4>2, <4>3
    <3>3. QED
      BY <3>1, <3>2
  <2>4. n \in 0 .. Count
    OBVIOUS
  <2>5. QED
    BY <1>3, <2>3, <2>4
<1>6. 0 .. Count \subseteq P
  BY <1>4, <1>5, UpTo
<1>7. Count \in P
  BY <1>6
<1>8. \A m \in 0 .. l : m <= Count
  OBVIOUS
<1>9. QED
  BY <1>1, <1>3, <1>7, <1>8

-----------------------------------------------------------------------------
(* The routes of a document.                                               *)

\* Elements and their indices.
LEMMA ItemAt ==
  ASSUME DocumentType, Fits
  PROVE  /\ \A x \in InDocument : element[x].Index \in Indices /\ GetItemData(element[x].Index) = x
         /\ \A i \in Indices : GetItemData(i) \in InDocument /\ element[GetItemData(i)].Index = i
<1>1. /\ Count \in Nat /\ Indices = 0 .. (Count - 1)
      /\ \A n \in 1 .. Count : mArrayElements[n] \in InDocument
      /\ \A x \in InDocument : \E n \in 1 .. Count : x = mArrayElements[n]
      /\ \A p \in 1 .. Count : element[mArrayElements[p]].Index = p - 1
  BY Places, PlaceOfIndex
<1>2. ASSUME NEW x \in InDocument
      PROVE  element[x].Index \in Indices /\ GetItemData(element[x].Index) = x
  <2>1. PICK n \in 1 .. Count : x = mArrayElements[n]
    BY <1>1
  <2>2. element[x].Index = n - 1 /\ n - 1 \in Indices /\ (n - 1) + 1 = n
    BY <1>1, <2>1
  <2>3. QED
    BY <2>1, <2>2 DEF GetItemData
<1>3. ASSUME NEW i \in Indices
      PROVE  GetItemData(i) \in InDocument /\ element[GetItemData(i)].Index = i
  <2>1. PICK n : n = i + 1
    OBVIOUS
  <2>2. n \in 1 .. Count /\ n - 1 = i
    BY <1>1, <2>1
  <2>3. QED
    BY <1>1, <2>1, <2>2 DEF GetItemData
<1>4. QED
  BY <1>2, <1>3

\* A link that is there from one end is there from the other.
LEMMA BothEnds ==
  ASSUME DocumentType, Fits, NEW x \in InDocument, NEW y \in InDocument
  PROVE  /\ IsFiniteSet(Links(x, y))
         /\ y \in LinkedTo(x) => x \in LinkedTo(y)
<1>1. \A a, b \in InDocument : IsFiniteSet(Links(a, b))
  <2> SUFFICES ASSUME NEW a \in InDocument, NEW b \in InDocument PROVE IsFiniteSet(Links(a, b))
    OBVIOUS
  <2>1. element[a].links \in Seq(LinkRecords)
    BY Places DEF DocumentType, ElementRecords
  <2>2. Links(a, b) \in SUBSET (1 .. Len(element[a].links)) /\ Len(element[a].links) \in Nat
    BY <2>1 DEF Links
  <2>3. IsFiniteSet(1 .. Len(element[a].links))
    BY <2>2, FS_Interval
  <2>4. QED
    BY <2>2, <2>3, FS_Subset
<1>2. \A a, b : b \in LinkedTo(a) <=> Links(a, b) # {}
  BY DEF LinkedTo, Links
<1>3. Cardinality(Links(x, y)) = Cardinality(Links(y, x))
  BY DEF Fits
<1>4. Links(x, y) # {} => Links(y, x) # {}
  BY <1>1, <1>3, FS_EmptySet
<1>5. QED
  BY <1>1, <1>2, <1>4

\* A step of the search goes over a link.
LEMMA StepLink ==
  ASSUME DocumentType, Fits, NEW i, NEW j, <<i, j>> \in Steps,
         NEW x, x = GetItemData(i), NEW y, y = GetItemData(j)
  PROVE  /\ i \in Indices /\ j \in Indices /\ x \in InDocument /\ y \in InDocument
         /\ y \in LinkedTo(x) /\ x \in LinkedTo(y)
         /\ IsNAT(x) /\ IsNAT(y) => LinksBy(x, y, "ePrivate") # {}
<1>1. i \in Indices /\ j \in Indices
  BY DEF Steps
<1>2. PICK k \in DOMAIN Item(i).links : /\ element[Item(i).links[k].to].Index = j
                                        /\ Leads(i, Item(i).links[k])
  BY DEF Steps
<1>3. x \in InDocument /\ y \in InDocument
  BY <1>1, ItemAt
<1>4. /\ k \in DOMAIN element[x].links /\ element[element[x].links[k].to].Index = j
      /\ Leads(i, element[x].links[k])
  BY <1>2 DEF Item
<1>5. element[x].links[k].to = y
  <2>1. element[x].links[k].to \in LinkedTo(x)
    BY <1>4 DEF LinkedTo
  <2>2. element[x].links[k].to \in InDocument
    BY <1>3, <2>1 DEF Fits
  <2>3. QED
    BY <1>4, <2>2, ItemAt
<1>6. y \in LinkedTo(x)
  BY <1>4, <1>5 DEF LinkedTo
<1>7. x \in LinkedTo(y)
  BY <1>3, <1>6, BothEnds
<1>8. ASSUME IsNAT(x), IsNAT(y) PROVE LinksBy(x, y, "ePrivate") # {}
  <2>1. element[x].links[k].connector = "ePrivate"
    BY <1>4, <1>5, <1>8 DEF Leads
  <2>2. k \in LinksBy(x, y, "ePrivate")
    BY <1>4, <1>5, <2>1 DEF LinksBy, Links
  <2>3. QED
    BY <2>2
<1>9. QED
  BY <1>1, <1>3, <1>6, <1>7, <1>8

\* What is left of a way from some place on, which is a way.
Rest(way, a, l) == [m \in 0 .. (l - a) |-> way[a + m]]

LEMMA RestOfWay ==
  ASSUME NEW steps, NEW l \in Nat, NEW way, IsWay(steps, way, l), NEW a \in 0 .. l
  PROVE  IsWay(steps, Rest(way, a, l), l - a)
<1>1. PICK rest : rest = Rest(way, a, l)
  OBVIOUS
<1>2. ASSUME NEW m \in 1 .. (l - a) PROVE <<rest[m - 1], rest[m]>> \in steps
  <2>1. PICK n : n = a + m
    OBVIOUS
  <2>2. n \in 1 .. l /\ n - 1 = a + (m - 1) /\ m - 1 \in 0 .. (l - a) /\ m \in 0 .. (l - a)
    BY <2>1
  <2>3. rest[m - 1] = way[n - 1] /\ rest[m] = way[n]
    BY <1>1, <2>1, <2>2 DEF Rest
  <2>4. QED
    BY <2>2, <2>3 DEF IsWay
<1>3. rest = [m \in 0 .. (l - a) |-> rest[m]]
  BY <1>1 DEF Rest
<1>4. QED
  BY <1>1, <1>2, <1>3 DEF IsWay

\* Reachable is what a way of at least one step leads to.
LEMMA WayReaches ==
  ASSUME DocumentType, NEW l \in 1 .. (Count + 1), NEW way, IsWay(Steps, way, l),
         NEW a \in 0 .. (l - 1)
  PROVE  IsReachable(way[l], way[a])
<1>1. Count \in Nat /\ l \in Nat /\ a + 1 \in 0 .. l
  BY Places
<1>2. PICK b, r : b = a + 1 /\ r = l - b
  OBVIOUS
<1>3. b \in 0 .. l /\ r \in 0 .. Count /\ b + r = l /\ b + 0 = b
  BY <1>1, <1>2
<1>4. PICK rest : rest = Rest(way, b, l)
  OBVIOUS
<1>a. IsWay(Steps, rest, r)
  BY <1>1, <1>2, <1>3, <1>4, RestOfWay
<1>b. \A m \in 0 .. r : rest[m] = way[b + m]
  BY <1>2, <1>4 DEF Rest
<1>5. PICK start : start = {j \in Indices : <<way[a], j>> \in Steps}
  OBVIOUS
<1>6. rest[0] \in start
  <2>1. b \in 1 .. l /\ b - 1 = a
    BY <1>1, <1>2
  <2>2. <<way[a], way[b]>> \in Steps
    BY <2>1 DEF IsWay
  <2>3. rest[0] = way[b]
    BY <1>3, <1>b
  <2>4. QED
    BY <1>5, <2>2, <2>3 DEF Steps
<1>7. \A m \in 1 .. r : rest[m] \in Indices
  <2> SUFFICES ASSUME NEW m \in 1 .. r PROVE rest[m] \in Indices
    OBVIOUS
  <2>1. <<rest[m - 1], rest[m]>> \in Steps
    BY <1>a DEF IsWay
  <2>2. QED
    BY <2>1 DEF Steps
<1>8. \A m \in 0 .. r : rest[m] \in Near(Indices, Steps, start)
  BY <1>1, <1>3, <1>a, <1>6, <1>7, WayNear
<1>9. rest[r] = way[l]
  BY <1>3, <1>b
<1>10. r \in 0 .. r
  BY <1>3
<1>11. QED
  BY <1>5, <1>8, <1>9, <1>10 DEF IsReachable

\* Of the ways to what is reachable there is a shortest.
LEMMA ShortestWay ==
  ASSUME DocumentType, NEW from, NEW to, IsReachable(to, from), from # to
  PROVE  \E l \in 1 .. (Count + 1) :
           /\ \E way : IsWay(Steps, way, l) /\ way[0] = from /\ way[l] = to
           /\ \A k \in 0 .. (l - 1) : ~ \E way : IsWay(Steps, way, k) /\ way[0] = from /\ way[k] = to
<1>1. Count \in Nat
  BY Places
<1>2. PICK start : start = {j \in Indices : <<from, j>> \in Steps}
  OBVIOUS
<1>3. to \in Near(Indices, Steps, start)
  BY <1>2 DEF IsReachable
<1>4. PICK r \in 0 .. Count : \E way : IsWay(Steps, way, r) /\ way[0] \in start /\ way[r] = to
  BY <1>1, <1>3, NearWay
<1>5. PICK rest : IsWay(Steps, rest, r) /\ rest[0] \in start /\ rest[r] = to
  BY <1>4
<1>6. PICK all : all = [m \in 0 .. (r + 1) |-> IF m = 0 THEN from ELSE rest[m - 1]]
  OBVIOUS
<1>7. all[0] = from /\ all[r + 1] = to /\ r + 1 \in 0 .. (Count + 1)
  <2>1. r \in Nat /\ r + 1 \in 0 .. (Count + 1)
    BY <1>1
  <2>2. 0 \in 0 .. (r + 1) /\ r + 1 \in 0 .. (r + 1) /\ r + 1 # 0 /\ (r + 1) - 1 = r
    BY <2>1
  <2>3. all[0] = from /\ all[r + 1] = rest[(r + 1) - 1]
    BY <1>6, <2>2
  <2>4. QED
    BY <1>5, <2>1, <2>2, <2>3
<1>8. IsWay(Steps, all, r + 1)
  <2>1. ASSUME NEW m \in 1 .. (r + 1) PROVE <<all[m - 1], all[m]>> \in Steps
    <3>1. all[m] = rest[m - 1] /\ m - 1 \in 0 .. (r + 1)
      BY <1>4, <1>6
    <3>2. CASE m = 1
      BY <1>2, <1>5, <1>7, <3>1, <3>2
    <3>3. CASE m # 1
      <4>1. PICK k : k = m - 1
        OBVIOUS
      <4>2. k \in 1 .. r /\ all[k] = rest[k - 1]
        BY <1>4, <1>6, <3>3, <4>1
      <4>3. <<rest[k - 1], rest[k]>> \in Steps
        BY <1>5, <4>2 DEF IsWay
      <4>4. QED
        BY <3>1, <4>1, <4>2, <4>3
    <3>4. QED
      BY <3>2, <3>3
  <2>2. all = [m \in 0 .. (r + 1) |-> all[m]]
    BY <1>6
  <2>3. QED
    BY <2>1, <2>2 DEF IsWay
<1>9. PICK S : S = {k \in 0 .. (Count + 1) : \E way : IsWay(Steps, way, k) /\ way[0] = from /\ way[k] = to}
  OBVIOUS
<1>10. S \in SUBSET Nat /\ S \in SUBSET (0 .. (Count + 1)) /\ S # {}
  BY <1>1, <1>7, <1>8, <1>9
<1>11. IsFiniteSet(S)
  <2>1. IsFiniteSet(0 .. (Count + 1))
    BY <1>1, FS_Interval
  <2>2. QED
    BY <1>10, <2>1, FS_Subset
<1>12. PICK l \in S : \A k \in S : k \in Nat /\ l <= k
  BY <1>10, <1>11, Least
<1>13. l # 0
  BY <1>9
<1>14. l \in 1 .. (Count + 1)
  BY <1>1, <1>9, <1>13
<1>15. \A k \in 0 .. (l - 1) : k \notin S
  BY <1>12, <1>14
<1>16. \A k \in 0 .. (l - 1) : k \in 0 .. (Count + 1)
  BY <1>1, <1>14
<1>17. QED
  BY <1>9, <1>14, <1>15, <1>16

\* A client or a server has one neighbour at most.
LEMMA OneNeighbour ==
  ASSUME DocumentType, NEW x \in InDocument, Len(element[x].links) <= 1,
         NEW y \in LinkedTo(x), NEW z \in LinkedTo(x)
  PROVE  y = z
<1>1. element[x].links \in Seq(LinkRecords)
  BY Places DEF DocumentType, ElementRecords
<1>2. PICK k \in DOMAIN element[x].links : element[x].links[k].to = y
  BY DEF LinkedTo
<1>3. PICK l \in DOMAIN element[x].links : element[x].links[l].to = z
  BY DEF LinkedTo
<1>4. k = l
  BY <1>1, <1>2, <1>3
<1>5. QED
  BY <1>2, <1>3, <1>4

\* A way that comes back to where it was two steps before can do without them.
LEMMA Shortcut ==
  ASSUME NEW steps, NEW l \in Nat, NEW way, IsWay(steps, way, l), NEW m \in 1 .. (l - 1),
         way[m - 1] = way[m + 1]
  PROVE  \E short : IsWay(steps, short, l - 2) /\ short[0] = way[0] /\ short[l - 2] = way[l]
<1>1. PICK d : d = l - 2
  OBVIOUS
<1>2. d \in Nat /\ d + 2 = l /\ m \in 1 .. (d + 1) /\ d \in 0 .. d /\ 0 \in 0 .. d
  BY <1>1
<1>3. PICK short : short = [k \in 0 .. d |-> IF k < m THEN way[k] ELSE way[k + 2]]
  OBVIOUS
<1>4. short[0] = way[0]
  BY <1>2, <1>3
<1>5. short[d] = way[l]
  <2>1. CASE d < m
    <3>1. d = m - 1 /\ m + 1 = l
      BY <1>2, <2>1
    <3>2. short[d] = way[m - 1]
      BY <1>2, <1>3, <2>1, <3>1
    <3>3. QED
      BY <3>1, <3>2
  <2>2. CASE ~(d < m)
    BY <1>2, <1>3, <2>2
  <2>3. QED
    BY <2>1, <2>2
<1>6. ASSUME NEW k \in 1 .. d PROVE <<short[k - 1], short[k]>> \in steps
  <2>1. k \in 0 .. d /\ k - 1 \in 0 .. d /\ k \in 1 .. l /\ k + 2 \in 1 .. l
    BY <1>2
  <2>2. <<way[k - 1], way[k]>> \in steps /\ <<way[(k + 2) - 1], way[k + 2]>> \in steps
    BY <2>1 DEF IsWay
  <2>3. CASE k < m
    <3>1. k - 1 < m
      BY <1>2, <2>3
    <3>2. short[k] = way[k] /\ short[k - 1] = way[k - 1]
      BY <1>3, <2>1, <2>3, <3>1
    <3>3. QED
      BY <2>2, <3>2
  <2>4. CASE k = m
    <3>1. k - 1 < m /\ ~(k < m)
      BY <1>2, <2>4
    <3>2. short[k] = way[k + 2] /\ short[k - 1] = way[k - 1]
      BY <1>3, <2>1, <3>1
    <3>3. (k + 2) - 1 = m + 1 /\ k - 1 = m - 1
      BY <2>4, <1>2
    <3>4. way[k - 1] = way[(k + 2) - 1]
      BY <3>3
    <3>5. QED
      BY <2>2, <3>2, <3>4
  <2>5. CASE k > m
    <3>1. ~(k < m) /\ ~(k - 1 < m) /\ (k - 1) + 2 = (k + 2) - 1
      BY <1>2, <2>5
    <3>2. short[k] = way[k + 2] /\ short[k - 1] = way[(k - 1) + 2]
      BY <1>3, <2>1, <3>1
    <3>3. QED
      BY <2>2, <3>1, <3>2
  <2>6. k < m \/ k = m \/ k > m
    BY <1>2
  <2>7. QED
    BY <2>3, <2>4, <2>5, <2>6
<1>7. short = [k \in 0 .. d |-> short[k]]
  BY <1>3
<1>8. IsWay(steps, short, d)
  BY <1>6, <1>7 DEF IsWay
<1>9. QED
  BY <1>1, <1>4, <1>5, <1>8

\* Between the ends of a shortest way there are NATs only.
LEMMA BetweenNATs ==
  ASSUME DocumentType, Fits,
         \A x \in InDocument : ~IsNAT(x) => Len(element[x].links) <= 1,
         NEW l \in Nat, NEW way, IsWay(Steps, way, l),
         \A k \in 0 .. (l - 1) :
           ~ \E short : IsWay(Steps, short, k) /\ short[0] = way[0] /\ short[k] = way[l],
         NEW m \in 1 .. (l - 1)
  PROVE  IsNAT(GetItemData(way[m]))
<1> SUFFICES ASSUME ~IsNAT(GetItemData(way[m])) PROVE FALSE
  OBVIOUS
<1>1. PICK p, n : p = m - 1 /\ n = m + 1
  OBVIOUS
<1>2. m \in 1 .. l /\ n \in 1 .. l /\ n - 1 = m
  BY <1>1
<1>3. <<way[p], way[m]>> \in Steps /\ <<way[m], way[n]>> \in Steps
  <2>1. <<way[m - 1], way[m]>> \in Steps /\ <<way[n - 1], way[n]>> \in Steps
    BY <1>2 DEF IsWay
  <2>2. QED
    BY <1>1, <1>2, <2>1
<1>4. PICK i, j, k : i = way[p] /\ j = way[m] /\ k = way[n]
  OBVIOUS
<1>5. PICK x, y, z : x = GetItemData(i) /\ y = GetItemData(j) /\ z = GetItemData(k)
  OBVIOUS
<1>6. i \in Indices /\ k \in Indices /\ y \in InDocument /\ x \in LinkedTo(y)
  BY <1>3, <1>4, <1>5, StepLink
<1>7. k \in Indices /\ z \in LinkedTo(y)
  BY <1>3, <1>4, <1>5, StepLink
<1>8. Len(element[y].links) <= 1
  BY <1>4, <1>5, <1>6
<1>9. x = z
  BY <1>6, <1>7, <1>8, OneNeighbour
<1>10. i = k
  <2>1. \A h \in Indices : element[GetItemData(h)].Index = h
    BY ItemAt
  <2>2. element[x].Index = i /\ element[z].Index = k
    BY <1>5, <1>6, <1>7, <2>1
  <2>3. QED
    BY <1>9, <2>2
<1>11. way[m - 1] = way[m + 1]
  BY <1>1, <1>4, <1>10
<1>12. \E short : IsWay(Steps, short, l - 2) /\ short[0] = way[0] /\ short[l - 2] = way[l]
  BY <1>11, Shortcut
<1>13. l - 2 \in 0 .. (l - 1)
  OBVIOUS
<1>14. QED
  BY <1>12, <1>13

\* A NAT linked by its private side stands in the file of the other one as a private
\* host, whom the other one sees with its public side.
LEMMA Behind ==
  ASSUME DocumentType, Fits, Proper, NEW x \in InDocument, NEW y \in InDocument,
         IsNAT(x), IsNAT(y), LinksBy(x, y, "ePrivate") # {}
  PROVE  x \in PrivateIPs(y)
<1>1. Cardinality(LinksBy(x, y, "ePrivate")) = Cardinality(LinksBy(y, x, "ePublic"))
  BY DEF Proper
<1>2. \A a, b \in InDocument : \A c : IsFiniteSet(LinksBy(a, b, c))
  <2> SUFFICES ASSUME NEW a \in InDocument, NEW b \in InDocument, NEW c
               PROVE  IsFiniteSet(LinksBy(a, b, c))
    OBVIOUS
  <2>1. IsFiniteSet(Links(a, b)) /\ LinksBy(a, b, c) \in SUBSET Links(a, b)
    BY BothEnds DEF LinksBy
  <2>2. QED
    BY <2>1, FS_Subset
<1>3. LinksBy(y, x, "ePublic") # {}
  BY <1>1, <1>2, FS_EmptySet
<1>4. PICK k \in DOMAIN element[y].links : /\ element[y].links[k].to = x
                                          /\ element[y].links[k].connector = "ePublic"
  BY <1>3 DEF LinksBy, Links
<1>5. element[y].links[k] = [to |-> x, connector |-> "ePublic"]
  <2>1. element[y].links \in Seq(LinkRecords)
    BY Places DEF DocumentType, ElementRecords
  <2>2. element[y].links[k] \in LinkRecords
    BY <2>1
  <2>3. PICK link : link = element[y].links[k]
    OBVIOUS
  <2>4. link \in [to : Nat, connector : Connectors]
    BY <2>2, <2>3 DEF LinkRecords
  <2>5. link = [to |-> link.to, connector |-> link.connector]
    BY <2>4
  <2>6. QED
    BY <1>4, <2>3, <2>5
<1>6. x \in LinkedTo(y)
  BY <1>4 DEF LinkedTo
<1>7. [to |-> x, connector |-> "ePublic"] \in {element[y].links[h] : h \in DOMAIN element[y].links}
  BY <1>5
<1>8. QED
  BY <1>6, <1>7 DEF PrivateIPs

\* What a NAT lists as a public host it reaches over NATs that list it too.
LEMMA Route ==
  ASSUME DocumentType, Fits, Proper, NEW n \in InDocument, NEW s \in InDocument,
         IsNAT(n), s \in PublicIPs(n)
  PROVE  Carriers(n, s) \cap NATPublicIPs(s) # {}
<1>1. PICK from, to : from = element[n].Index /\ to = element[s].Index
  OBVIOUS
<1>2. element[s].Type = "eSTUNServer" /\ ~IsNAT(s) /\ from # to /\ IsReachable(to, from)
  BY <1>1 DEF PublicIPs, IsNAT
<1>3. PICK l \in 1 .. (Count + 1) :
        /\ \E way : IsWay(Steps, way, l) /\ way[0] = from /\ way[l] = to
        /\ \A k \in 0 .. (l - 1) : ~ \E way : IsWay(Steps, way, k) /\ way[0] = from /\ way[k] = to
  BY <1>2, ShortestWay
<1>4. PICK way : IsWay(Steps, way, l) /\ way[0] = from /\ way[l] = to
  BY <1>3
<1>5. Count \in Nat /\ l \in Nat /\ l - 1 \in 0 .. Count /\ l - 1 \in Nat
  BY Places
<1>6. PICK y : y = [m \in 0 .. l |-> GetItemData(way[m])]
  OBVIOUS
<1>7. \A m \in 0 .. l : y[m] = GetItemData(way[m])
  BY <1>6
<1>8. GetItemData(from) = n /\ GetItemData(to) = s
  BY <1>1, ItemAt
<1>9. y[0] = n /\ y[l] = s
  BY <1>4, <1>5, <1>7, <1>8
<1>10. ASSUME NEW m \in 1 .. l
       PROVE  /\ way[m - 1] \in Indices /\ way[m] \in Indices
              /\ y[m - 1] \in InDocument /\ y[m] \in InDocument
              /\ y[m] \in LinkedTo(y[m - 1]) /\ y[m - 1] \in LinkedTo(y[m])
              /\ IsNAT(y[m - 1]) /\ IsNAT(y[m]) => LinksBy(y[m - 1], y[m], "ePrivate") # {}
  <2>1. PICK h : h = m - 1
    OBVIOUS
  <2>2. h \in 0 .. l /\ m \in 0 .. l
    BY <1>5, <2>1
  <2>3. PICK i, j : i = way[h] /\ j = way[m]
    OBVIOUS
  <2>4. <<i, j>> \in Steps
    BY <1>4, <2>1, <2>3 DEF IsWay
  <2>5. y[h] = GetItemData(i) /\ y[m] = GetItemData(j)
    BY <1>7, <2>2, <2>3
  <2>6. PICK a, b : a = GetItemData(i) /\ b = GetItemData(j)
    OBVIOUS
  <2>7. /\ i \in Indices /\ j \in Indices /\ a \in InDocument /\ b \in InDocument
        /\ b \in LinkedTo(a) /\ a \in LinkedTo(b)
        /\ IsNAT(a) /\ IsNAT(b) => LinksBy(a, b, "ePrivate") # {}
    BY <2>4, <2>6, StepLink
  <2>8. y[h] = a /\ y[m] = b
    BY <2>5, <2>6
  <2>9. QED
    BY <2>1, <2>3, <2>7, <2>8
<1>11. ASSUME NEW m \in 0 .. (l - 1) PROVE IsNAT(y[m])
  <2>1. CASE m = 0
    BY <1>9, <2>1
  <2>2. CASE m # 0
    <3>1. m \in 1 .. (l - 1) /\ m \in 0 .. l
      BY <1>5, <2>2
    <3>2. \A x \in InDocument : ~IsNAT(x) => Len(element[x].links) <= 1
      BY DEF Proper
    <3>3. IsNAT(GetItemData(way[m]))
      BY <1>3, <1>4, <1>5, <3>1, <3>2, BetweenNATs
    <3>4. QED
      BY <1>7, <3>1, <3>3
  <2>3. QED
    BY <2>1, <2>2
<1>12. ASSUME NEW m \in 0 .. (l - 1) PROVE y[m] \in InDocument /\ s \in PublicIPs(y[m])
  <2>1. PICK k : k = m + 1
    OBVIOUS
  <2>2. k \in 1 .. l /\ k - 1 = m /\ m \in 0 .. l
    BY <1>5, <2>1
  <2>3. y[m] \in InDocument /\ way[m] \in Indices
    BY <1>10, <2>2
  <2>4. element[y[m]].Index = way[m]
    BY <1>7, <2>2, <2>3, ItemAt
  <2>5. way[m] # to
    BY <1>2, <1>7, <1>8, <1>11, <2>2
  <2>6. IsReachable(to, way[m])
    BY <1>4, WayReaches
  <2>7. QED
    BY <1>1, <1>2, <2>3, <2>4, <2>5, <2>6 DEF PublicIPs
<1>13. PICK lists : lists = {p \in InDocument \X InDocument :
                               IsNAT(p[2]) /\ p[1] \in PrivateIPs(p[2]) /\ s \in PublicIPs(p[2])}
  OBVIOUS
<1>14. ASSUME NEW m \in 1 .. (l - 1) PROVE <<y[m - 1], y[m]>> \in lists
  <2>1. m \in 1 .. l /\ m \in 0 .. (l - 1) /\ m - 1 \in 0 .. (l - 1)
    BY <1>5
  <2>2. IsNAT(y[m - 1]) /\ IsNAT(y[m]) /\ y[m - 1] \in InDocument /\ y[m] \in InDocument
    BY <1>11, <1>12, <2>1
  <2>3. LinksBy(y[m - 1], y[m], "ePrivate") # {}
    BY <1>10, <2>1, <2>2
  <2>4. y[m - 1] \in PrivateIPs(y[m])
    BY <2>2, <2>3, Behind
  <2>5. s \in PublicIPs(y[m])
    BY <1>12, <2>1
  <2>6. QED
    BY <1>13, <2>2, <2>4, <2>5
<1>15. PICK w : w = [m \in 0 .. (l - 1) |-> y[m]]
  OBVIOUS
<1>16. \A m \in 0 .. (l - 1) : w[m] = y[m]
  BY <1>15
<1>17. IsWay(lists, w, l - 1)
  <2>1. ASSUME NEW m \in 1 .. (l - 1) PROVE <<w[m - 1], w[m]>> \in lists
    <3>1. m \in 0 .. (l - 1) /\ m - 1 \in 0 .. (l - 1)
      BY <1>5
    <3>2. w[m - 1] = y[m - 1] /\ w[m] = y[m]
      BY <1>16, <3>1
    <3>3. QED
      BY <1>14, <3>2
  <2>2. w = [m \in 0 .. (l - 1) |-> w[m]]
    BY <1>15
  <2>3. QED
    BY <2>1, <2>2 DEF IsWay
<1>18. w[0] \in {n} /\ l - 1 \in 0 .. (l - 1) /\ w[l - 1] = y[l - 1]
  BY <1>5, <1>9, <1>16
<1>19. \A m \in 1 .. (l - 1) : w[m] \in InDocument
  <2> SUFFICES ASSUME NEW m \in 1 .. (l - 1) PROVE w[m] \in InDocument
    OBVIOUS
  <2>1. m \in 0 .. (l - 1)
    BY <1>5
  <2>2. QED
    BY <1>12, <1>16, <2>1
<1>20. \A m \in 0 .. (l - 1) : w[m] \in Near(InDocument, lists, {n})
  BY <1>5, <1>17, <1>18, <1>19, WayNear
<1>21. y[l - 1] \in Carriers(n, s)
  BY <1>13, <1>18, <1>20 DEF Carriers
<1>22. y[l - 1] \in NATPublicIPs(s)
  <2>1. l \in 1 .. l
    BY <1>5
  <2>2. y[l - 1] \in LinkedTo(y[l])
    BY <1>10, <2>1
  <2>3. IsNAT(y[l - 1])
    BY <1>11, <1>18
  <2>4. QED
    BY <1>9, <2>2, <2>3 DEF NATPublicIPs
<1>23. QED
  BY <1>21, <1>22

\* The files of a proper document add up to routes: whatever NAT lists a server as a
\* public host, CreateConfigFiles gives the NATs of the shortest way there files that
\* list the one before and the server, and gives the server the last of them.
THEOREM RoutesAddUp == TopologySpec => []RoutesComplete
<1>1. DocInv => RoutesComplete
  <2> SUFFICES ASSUME DocInv, Proper, NEW n \in InDocument, NEW s \in InDocument,
                      IsNAT(n), s \in PublicIPs(n)
               PROVE  Carriers(n, s) \cap NATPublicIPs(s) # {}
    BY DEF RoutesComplete
  <2>1. DocumentType /\ Fits
    BY DEF DocInv, Proper
  <2>2. QED
    BY <2>1, Route
<1>2. QED
  BY <1>1, DocInit, DocStep, PTL DEF TopologySpec
=================================================================================
