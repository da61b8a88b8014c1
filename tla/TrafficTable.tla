------------------------------ MODULE TrafficTable ------------------------------
(***************************************************************************)
(* The translation table of src/Source/NATSimTrafficTable.cpp, as a        *)
(* function from traffic identifiers to entries, and what is asked of the  *)
(* ordered array behind it.  Module IdTbl shows that the array implements  *)
(* the operators on the function, module FindItem how it is searched.      *)
(***************************************************************************)
EXTENDS Integers, Sequences, FiniteSets

-----------------------------------------------------------------------------
(* Traffic identifiers: four fields, ordered field by field.               *)

TrafficId == Nat \X Nat \X Nat \X Nat

Less(a, b) ==
  \/ a[1] < b[1]
  \/ a[1] = b[1] /\ a[2] < b[2]
  \/ a[1] = b[1] /\ a[2] = b[2] /\ a[3] < b[3]
  \/ a[1] = b[1] /\ a[2] = b[2] /\ a[3] = b[3] /\ a[4] < b[4]

-----------------------------------------------------------------------------
(* The translation tables.                                                 *)

Empty           == [k \in {} |-> {}]
Put(tbl, k, e)  == [x \in DOMAIN tbl \cup {k} |-> IF x = k THEN e ELSE tbl[x]]
Without(tbl, K) == [x \in DOMAIN tbl \ K |-> tbl[x]]

\* InsertTraffic leaves an entry that is already there as it is (its time apart).
InsertTraffic(tbl, k, e) == IF k \in DOMAIN tbl THEN tbl ELSE Put(tbl, k, e)

\* The entries that Clean removes: its loop steps over the entry that moves
\* into a removed one's place, so in a run of neighbours that all match only
\* the first, the third, the fifth... go.  Run: those up to and including k.
Matching(tbl, rev) == {k \in DOMAIN tbl : tbl[k].reverse = rev}

Run(tbl, rev, k) ==
  {x \in Matching(tbl, rev) :
     /\ x = k \/ Less(x, k)
     /\ \A y \in DOMAIN tbl : Less(x, y) /\ Less(y, k) => tbl[y].reverse = rev}

Cleaned(tbl, rev) ==
  {k \in Matching(tbl, rev) : Cardinality(Run(tbl, rev, k)) % 2 = 1}

\* Mutant: nothing is removed.
CleanNothing(tbl, rev) == tbl

Clean(tbl, rev) == Without(tbl, Cleaned(tbl, rev))

\* What an index means: the position of a key is the number of keys below it.
Position(tbl, k) == Cardinality({x \in DOMAIN tbl : Less(x, k)})
Held(tbl, Idx)   == Idx < Cardinality(DOMAIN tbl)
At(tbl, Idx)     == CHOOSE k \in DOMAIN tbl : Position(tbl, k) = Idx

-----------------------------------------------------------------------------
(* The array: a sequence of items with an id, at indices from 0 in the code *)
(* and from 1 here.                                                         *)

Ordered(items) ==
  \A i, j \in DOMAIN items : i < j => Less(items[i].id, items[j].id)

\* What FindItem(Id, &Idx) returns: the position of Id or, if it is not there,
\* the one at which a new item with that Id can be placed.
Finds(items, Id, Result, Idx) ==
  /\ Idx \in 0 .. Len(items)
  /\ \A i \in 1 .. Idx : Less(items[i].id, Id)
  /\ IF Result
     THEN Idx < Len(items) /\ items[Idx + 1].id = Id
     ELSE \A i \in (Idx + 1) .. Len(items) : Less(Id, items[i].id)
================================================================================
