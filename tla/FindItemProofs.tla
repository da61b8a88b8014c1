----------------------------- MODULE FindItemProofs -----------------------------
(***************************************************************************)
(* The search of an ordered array, proved for arrays of every length.      *)
(***************************************************************************)
EXTENDS FindItem, SequenceTheorems, TLAPS

\* operator < of CNATSimTrafficId is a strict total order, with operator ==
\* for equality: one of the three cases of the loop always applies.
LEMMA LessTransitive ==
  ASSUME NEW a \in TrafficId, NEW b \in TrafficId, NEW c \in TrafficId, Less(a, b), Less(b, c)
  PROVE  Less(a, c)
<1>1. \A j \in {1, 2, 3, 4} : a[j] \in Nat /\ b[j] \in Nat /\ c[j] \in Nat
  BY DEF TrafficId
<1>2. QED
  BY <1>1 DEF Less

LEMMA LessTotal ==
  ASSUME NEW a \in TrafficId, NEW b \in TrafficId
  PROVE  Less(a, b) \/ a = b \/ Less(b, a)
<1>1. /\ a = <<a[1], a[2], a[3], a[4]>> /\ b = <<b[1], b[2], b[3], b[4]>>
      /\ \A j \in {1, 2, 3, 4} : a[j] \in Nat /\ b[j] \in Nat
  BY DEF TrafficId
<1>2. QED
  BY <1>1 DEF Less

\* What the assumptions say of the array being searched.
LEMMA TableFacts ==
  ASSUME TypeOK
  PROVE  /\ m_Tbl \in Seq([id : TrafficId])
         /\ m_Elements \in Nat
         /\ Id \in TrafficId
         /\ \A i \in 1 .. m_Elements : m_Tbl[i].id \in TrafficId
         /\ \A i, j \in 1 .. m_Elements : i < j => Less(m_Tbl[i].id, m_Tbl[j].id)
<1>1. m_Tbl \in Seq([id : TrafficId]) /\ Ordered(m_Tbl) /\ Id \in TrafficId
  BY TableAssumption, IdAssumption DEF TypeOK
<1>2. DOMAIN m_Tbl = 1 .. m_Elements /\ m_Elements \in Nat
  BY <1>1 DEF m_Elements
<1>3. \A i \in 1 .. m_Elements : m_Tbl[i].id \in TrafficId
  <2>1. \A i \in 1 .. m_Elements : m_Tbl[i] \in [id : TrafficId]
    BY <1>1, <1>2, ElementOfSeq DEF m_Elements
  <2>2. QED
    BY <2>1
<1>4. \A i, j \in 1 .. m_Elements : i < j => Less(m_Tbl[i].id, m_Tbl[j].id)
  BY <1>1, <1>2 DEF Ordered
<1>5. QED
  BY <1>1, <1>2, <1>3, <1>4

\* The middle of the interval lies in it.
LEMMA HalfFacts ==
  ASSUME TypeOK, Narrowed, pc = "loop"
  PROVE  /\ Half \in Int /\ First <= Half /\ Half <= Last
         /\ First < Last => Half < Last
         /\ Half + 1 \in 1 .. m_Elements
<1>1. m_Elements \in Nat /\ First \in Int /\ Last \in Int
  BY TableFacts DEF TypeOK
<1>2. 0 <= First /\ First <= Last /\ Last < m_Elements
  BY DEF Narrowed
<1>3. QED
  BY <1>1, <1>2 DEF Half

IInv == TypeOK /\ Narrowed /\ FindsPosition

LEMMA InitInv == Init => IInv
<1> SUFFICES ASSUME Init PROVE IInv
  OBVIOUS
<1>1. TypeOK
  <2>1. Idx \in Int
    BY StaleAssumption DEF Init
  <2>2. First \in Nat /\ Last \in Nat /\ Middle \in Nat
    BY DEF Init
  <2>3. Result \in BOOLEAN /\ pc \in {"enter", "loop", "done"}
    BY DEF Init
  <2>4. QED
    BY <2>1, <2>2, <2>3 DEF Init, TypeOK
<1>2. Narrowed /\ FindsPosition
  BY DEF Init, Narrowed, FindsPosition
<1>3. QED
  BY <1>1, <1>2 DEF IInv

\* Turning to the upper half: everything up to the middle is smaller than Id.
LEMMA BelowInv ==
  ASSUME IInv, Below
  PROVE  IInv'
<1>0. TypeOK /\ Narrowed
  BY DEF IInv
<1>1. /\ m_Tbl' = m_Tbl /\ Id' = Id /\ Last' = Last /\ Result' = Result
      /\ First' = Half + 1 /\ Idx' = Half + 1 /\ Middle' = Half
      /\ pc' = IF Half < Last THEN "loop" ELSE "done"
  <2>1. Half \in Int
    BY <1>0, HalfFacts DEF Below
  <2>2. ~(Half + 1 < Half)
    BY <2>1
  <2>3. QED
    BY <2>2 DEF Below, Repeat
<1>2. /\ Half \in Int /\ First <= Half /\ Half <= Last /\ Half + 1 \in 1 .. m_Elements
      /\ Last \in Int /\ First \in Int /\ m_Elements \in Nat
  BY <1>0, HalfFacts, TableFacts DEF Below, TypeOK
<1>3. \A i \in 1 .. (Half + 1) : Less(m_Tbl[i].id, Id)
  <2> SUFFICES ASSUME NEW i \in 1 .. (Half + 1) PROVE Less(m_Tbl[i].id, Id)
    OBVIOUS
  <2>1. Less(m_Tbl[Half + 1].id, Id)
    BY DEF Below, IdAt
  <2>2. CASE i = Half + 1
    BY <2>1, <2>2
  <2>3. CASE i < Half + 1
    <3>1. Less(m_Tbl[i].id, m_Tbl[Half + 1].id)
      BY <1>0, <1>2, <2>3, TableFacts
    <3>2. i \in 1 .. m_Elements
      BY <1>2
    <3>3. QED
      BY <1>0, <1>2, <2>1, <3>1, <3>2, TableFacts, LessTransitive
  <2>4. QED
    BY <1>2, <2>2, <2>3
<1>4. m_Elements' = m_Elements
  BY <1>1 DEF m_Elements
<1>5. TypeOK'
  BY <1>0, <1>1, <1>2 DEF TypeOK
<1>6. CASE Half < Last
  <2>1. pc' = "loop"
    BY <1>1, <1>6
  <2>2. Narrowed'
    BY <1>0, <1>1, <1>2, <1>3, <1>4, <1>6, <2>1 DEF Narrowed, Below
  <2>3. QED
    BY <1>5, <2>1, <2>2 DEF IInv, FindsPosition
<1>7. CASE ~(Half < Last)
  <2>1. pc' = "done" /\ Half = Last
    BY <1>1, <1>2, <1>7
  <2>2. Result' = FALSE /\ \A i \in (Last + 2) .. m_Elements : Less(Id, m_Tbl[i].id)
    BY <1>0, <1>1 DEF Narrowed, Below
  <2>3. Finds(m_Tbl, Id, Result, Idx)'
    BY <1>1, <1>2, <1>3, <1>4, <2>1, <2>2 DEF Finds, m_Elements
  <2>4. QED
    BY <1>5, <2>1, <2>3 DEF IInv, Narrowed, FindsPosition
<1>8. QED
  BY <1>6, <1>7

\* Turning to the lower half: the middle and everything after it is greater.
LEMMA AboveInv ==
  ASSUME IInv, Above
  PROVE  IInv'
<1>0. TypeOK /\ Narrowed
  BY DEF IInv
<1>1. /\ m_Tbl' = m_Tbl /\ Id' = Id /\ First' = First /\ Result' = Result
      /\ Last' = Half /\ Idx' = Half /\ Middle' = Half
      /\ pc' = IF First < Half THEN "loop" ELSE "done"
  <2>1. Half \in Int
    BY <1>0, HalfFacts DEF Above
  <2>2. ~(Half < Half)
    BY <2>1
  <2>3. QED
    BY <2>2 DEF Above, Repeat
<1>2. /\ Half \in Int /\ First <= Half /\ Half <= Last /\ Half + 1 \in 1 .. m_Elements
      /\ Last \in Int /\ First \in Int /\ m_Elements \in Nat
  BY <1>0, HalfFacts, TableFacts DEF Above, TypeOK
<1>3. \A i \in (Half + 1) .. m_Elements : Less(Id, m_Tbl[i].id)
  <2> SUFFICES ASSUME NEW i \in (Half + 1) .. m_Elements PROVE Less(Id, m_Tbl[i].id)
    OBVIOUS
  <2>1. Less(Id, m_Tbl[Half + 1].id)
    BY DEF Above, IdAt
  <2>2. CASE i = Half + 1
    BY <2>1, <2>2
  <2>3. CASE i > Half + 1
    <3>1. i \in 1 .. m_Elements
      BY <1>2
    <3>2. Less(m_Tbl[Half + 1].id, m_Tbl[i].id)
      BY <1>0, <1>2, <2>3, <3>1, TableFacts
    <3>3. QED
      BY <1>0, <1>2, <2>1, <3>1, <3>2, TableFacts, LessTransitive
  <2>4. QED
    BY <1>2, <2>2, <2>3
<1>4. m_Elements' = m_Elements
  BY <1>1 DEF m_Elements
<1>5. TypeOK'
  BY <1>0, <1>1, <1>2 DEF TypeOK
<1>6. 0 <= First /\ Last < m_Elements /\ Result = FALSE
      /\ \A i \in 1 .. First : Less(m_Tbl[i].id, Id)
  BY <1>0 DEF Narrowed, Above
<1>7. CASE First < Half
  <2>1. pc' = "loop"
    BY <1>1, <1>7
  <2>2. Narrowed'
    BY <1>1, <1>2, <1>3, <1>4, <1>6, <1>7, <2>1 DEF Narrowed
  <2>3. QED
    BY <1>5, <2>1, <2>2 DEF IInv, FindsPosition
<1>8. CASE ~(First < Half)
  <2>1. pc' = "done" /\ Half = First
    BY <1>1, <1>2, <1>8
  <2>2. Finds(m_Tbl, Id, Result, Idx)'
    BY <1>1, <1>2, <1>3, <1>4, <1>6, <2>1 DEF Finds, m_Elements
  <2>3. QED
    BY <1>5, <2>1, <2>2 DEF IInv, Narrowed, FindsPosition
<1>9. QED
  BY <1>7, <1>8

\* Meeting Id ends the search at its position.
LEMMA HitInv ==
  ASSUME IInv, Hit
  PROVE  IInv'
<1>0. TypeOK /\ Narrowed
  BY DEF IInv
<1>1. /\ Half \in Int /\ First <= Half /\ Half + 1 \in 1 .. m_Elements
      /\ m_Elements \in Nat /\ 0 <= First
  <2>1. pc = "loop"
    BY DEF Hit
  <2>2. QED
    BY <1>0, <2>1, HalfFacts, TableFacts DEF Narrowed
<1>a. First \in Int
  BY <1>0 DEF TypeOK
<1>2. m_Tbl[Half + 1].id = Id
  BY DEF Hit, IdAt
<1>3. \A i \in 1 .. Half : Less(m_Tbl[i].id, Id)
  BY <1>0, <1>1, <1>2, TableFacts
<1>4. TypeOK'
  <2>1. Half \in Nat
    BY <1>1, <1>a
  <2>2. QED
    BY <1>0, <2>1 DEF Hit, TypeOK
<1>5. Finds(m_Tbl, Id, Result, Idx)'
  BY <1>1, <1>2, <1>3 DEF Finds, Hit, m_Elements
<1>6. QED
  BY <1>4, <1>5 DEF Hit, IInv, Narrowed, FindsPosition

LEMMA InvStep == IInv /\ [Next]_vars => IInv'
<1> SUFFICES ASSUME IInv, [Next]_vars PROVE IInv'
  OBVIOUS
<1>1. CASE EnterEmpty
  BY <1>1 DEF EnterEmpty, IInv, TypeOK, Narrowed, FindsPosition, Finds, m_Elements
<1>2. CASE Enter
  <2>1. m_Elements \in Nat
    BY TableFacts DEF IInv
  <2>2. m_Elements' = m_Elements
    BY <1>2 DEF Enter, m_Elements
  <2>3. TypeOK'
    BY <1>2, <2>1 DEF Enter, IInv, TypeOK
  <2>4. Narrowed'
    BY <1>2, <2>1, <2>2 DEF Enter, IInv, Narrowed
  <2>5. QED
    BY <1>2, <2>3, <2>4 DEF Enter, IInv, FindsPosition
<1>3. CASE Below
  BY <1>3, BelowInv
<1>4. CASE Hit
  BY <1>4, HitInv
<1>5. CASE Above
  BY <1>5, AboveInv
<1>6. CASE Return \/ UNCHANGED vars
  BY <1>6 DEF Return, vars, IInv, TypeOK, Narrowed, FindsPosition, Finds, m_Elements
<1>7. QED
  BY <1>1, <1>2, <1>3, <1>4, <1>5, <1>6 DEF Next

\* Every reachable state of the search satisfies the loop invariant.
THEOREM SearchInvariant == Spec => []IInv
<1>1. QED
  BY InitInv, InvStep, PTL DEF Spec

\* FindItem returns what UtilTemplates.h:619-622 says, for every ordered array.
THEOREM SearchFindsPosition == Spec => []FindsPosition
<1>1. IInv => FindsPosition
  BY DEF IInv
<1>2. QED
  BY <1>1, SearchInvariant, PTL

\* The loop never leaves the array and never puts Id itself aside.
THEOREM SearchNarrowed == Spec => []Narrowed
<1>1. IInv => Narrowed
  BY DEF IInv
<1>2. QED
  BY <1>1, SearchInvariant, PTL

\* Every turn of the loop narrows the interval, so their number is bounded.
THEOREM SearchNarrows == Spec => Narrows
<1>1. IInv /\ [Next]_vars =>
        [pc = "loop" /\ pc' = "loop" => Last' - First' < Last - First]_vars
  <2> SUFFICES ASSUME IInv, Next, pc = "loop", pc' = "loop"
               PROVE  Last' - First' < Last - First
    OBVIOUS
  <2>1. /\ Half \in Int /\ First \in Int /\ Last \in Int
        /\ First <= Half /\ Half <= Last
        /\ (First < Last => Half < Last)
    BY HalfFacts DEF IInv, TypeOK
  <2>2. CASE Below
    BY <2>1, <2>2 DEF Below
  <2>3. CASE Above
    <3>1. First < Half
      BY <2>1, <2>3 DEF Above, Repeat
    <3>2. QED
      BY <2>1, <2>3, <3>1 DEF Above
  <2>4. QED
    BY <2>2, <2>3 DEF Next, EnterEmpty, Enter, Hit, Return
<1>2. QED
  BY <1>1, SearchInvariant, PTL DEF Spec, Narrows
================================================================================
