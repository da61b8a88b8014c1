-------------------------------- MODULE FindItem --------------------------------
(***************************************************************************)
(* CIdTbl::FindItem of src/Source/UtilTemplates.h: the half-splitting      *)
(* search of the ordered array, one step per turn of its loop.  The array  *)
(* is locked all the while, so nothing else moves.                         *)
(***************************************************************************)
EXTENDS TrafficTable

CONSTANTS
  Tables,   \* the arrays that may be searched
  Ids,      \* the identifiers that may be looked for
  Stale     \* what the caller's Idx may hold: most callers leave it uninitialised

ASSUME TableAssumption ==
  \A items \in Tables : items \in Seq([id : TrafficId]) /\ Ordered(items)

ASSUME IdAssumption == Ids \subseteq TrafficId

ASSUME StaleAssumption == Stale \subseteq Int

VARIABLES m_Tbl, Id, First, Last, Middle, Idx, Result, pc

vars == <<m_Tbl, Id, First, Last, Middle, Idx, Result, pc>>

m_Elements == Len(m_Tbl)
IdAt(i)    == m_Tbl[i + 1].id

Init ==
  /\ m_Tbl \in Tables
  /\ Id \in Ids
  /\ First = 0 /\ Last = 0 /\ Middle = 0   \* written before they are read
  /\ Idx \in Stale
  /\ Result = FALSE
  /\ pc = "enter"

EnterEmpty ==
  /\ pc = "enter" /\ m_Elements = 0
  /\ Idx' = 0
  /\ pc' = "done"
  /\ UNCHANGED <<m_Tbl, Id, First, Last, Middle, Result>>

\* Mutant: the last index is taken to be the number of items.
EnterBeyond ==
  /\ pc = "enter" /\ m_Elements > 0
  /\ First' = 0
  /\ Last' = m_Elements
  /\ pc' = "loop"
  /\ UNCHANGED <<m_Tbl, Id, Middle, Idx, Result>>

Enter ==
  /\ pc = "enter" /\ m_Elements > 0
  /\ First' = 0
  /\ Last' = m_Elements - 1
  /\ pc' = "loop"
  /\ UNCHANGED <<m_Tbl, Id, Middle, Idx, Result>>

Half == (First + Last) \div 2

\* The condition of the loop, at its end.
Repeat(first, middle, last) == IF first < middle \/ middle < last THEN "loop" ELSE "done"

\* Mutant: the lower half keeps its middle.
BelowKeepingMiddle ==
  /\ pc = "loop" /\ Less(IdAt(Half), Id)
  /\ Middle' = Half
  /\ First' = Half
  /\ Idx' = Half
  /\ pc' = Repeat(Half, Half, Last)
  /\ UNCHANGED <<m_Tbl, Id, Last, Result>>

Below ==
  /\ pc = "loop" /\ Less(IdAt(Half), Id)
  /\ Middle' = Half
  /\ First' = Half + 1
  /\ Idx' = Half + 1
  /\ pc' = Repeat(Half + 1, Half, Last)
  /\ UNCHANGED <<m_Tbl, Id, Last, Result>>

Hit ==
  /\ pc = "loop" /\ IdAt(Half) = Id
  /\ Middle' = Half
  /\ Idx' = Half
  /\ Result' = TRUE
  /\ pc' = "done"
  /\ UNCHANGED <<m_Tbl, Id, First, Last>>

\* Mutant: Idx is only set when the search moves up.
AboveWithoutIdx ==
  /\ pc = "loop" /\ Less(Id, IdAt(Half))
  /\ Middle' = Half
  /\ Last' = Half
  /\ pc' = Repeat(First, Half, Half)
  /\ UNCHANGED <<m_Tbl, Id, First, Idx, Result>>

Above ==
  /\ pc = "loop" /\ Less(Id, IdAt(Half))
  /\ Middle' = Half
  /\ Last' = Half
  /\ Idx' = Half
  /\ pc' = Repeat(First, Half, Half)
  /\ UNCHANGED <<m_Tbl, Id, First, Result>>

Return == pc = "done" /\ UNCHANGED vars

Next == EnterEmpty \/ Enter \/ Below \/ Hit \/ Above \/ Return

\* The search runs with the lock held and waits for nothing.
Spec == Init /\ [][Next]_vars /\ WF_vars(Next)

-----------------------------------------------------------------------------
(* Properties.                                                             *)

\* The loop never looks outside the array, and what it has put aside is
\* smaller than Id on the left and greater on the right.
Narrowed ==
  /\ pc = "enter" => Result = FALSE
  /\ pc = "loop" =>
       /\ 0 <= First /\ First <= Last /\ Last < m_Elements
       /\ Result = FALSE
       /\ \A i \in 1 .. First : Less(m_Tbl[i].id, Id)
       /\ \A i \in (Last + 2) .. m_Elements : Less(Id, m_Tbl[i].id)

\* Every variable has its type; in particular the bounds never go below zero.
TypeOK ==
  /\ m_Tbl \in Tables
  /\ Id \in Ids
  /\ First \in Nat /\ Last \in Nat /\ Middle \in Nat /\ Idx \in Int
  /\ Result \in BOOLEAN
  /\ pc \in {"enter", "loop", "done"}

\* UtilTemplates.h:619-622: FindItem "finds the position of an element giving
\* its Id" and otherwise "the position at which a new element with that Id can
\* be placed"; Idx is set whatever the caller left in it.
FindsPosition == pc = "done" => Finds(m_Tbl, Id, Result, Idx)

\* Every turn that does not end the loop narrows the interval.
Narrows == [][pc = "loop" /\ pc' = "loop" => Last' - First' < Last - First]_vars

\* The search ends, whatever it is asked for.
Terminates == <>(pc = "done")
=============================================================================
