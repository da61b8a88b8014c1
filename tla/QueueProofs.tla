------------------------------ MODULE QueueProofs ------------------------------
(***************************************************************************)
(* The linked list of CQueue stays linked, and implements a FIFO queue, for *)
(* any number of threads, items and nodes.  Of CCaptureApi, which is two    *)
(* threads over such a queue: every step of the reader and of the owner is   *)
(* a step of the queue, so the queue's theorems hold of it; the reader uses *)
(* a handle only while it is open; and a capture hands out what its Start   *)
(* asked for.                                                              *)
(***************************************************************************)
EXTENDS Capture, SequenceTheorems, TLAPS

-----------------------------------------------------------------------------
(* The queue.                                                              *)

\* The node in hand, at every label.
Staged ==
  \A t \in Threads :
    /\ pc[t] = "append" => Arg[t] \in Data
    /\ pc[t] = "link" =>
         /\ m_Last \in Nodes
         /\ Next_[m_Last] = Null /\ Prev[m_Last] = pQueue[t] /\ pData[m_Last] \in Data
         /\ pQueue[t] = IF order = <<>> THEN Null ELSE order[Len(order)]
    /\ pc[t] \in {"unlink", "free"} => pQueue[t] \in Nodes /\ pData[pQueue[t]] \in Data
    /\ pc[t] = "unlink" => m_Last = IF order = <<>> THEN pQueue[t] ELSE order[Len(order)]

QueueInv == QueueTypeOK /\ MutualExclusion /\ WellLinked /\ Staged

\* While t is inside an operation everybody else is outside.
Alone(t) == \A u \in Threads : u # t => pc[u] = "out"

LEMMA AloneInside ==
  ASSUME MutualExclusion, NEW t \in Threads, pc[t] # "out"
  PROVE  Alone(t)
BY DEF MutualExclusion, Alone

LEMMA AloneOutside ==
  ASSUME QueueTypeOK, MutualExclusion, lock = {}
  PROVE  \A u \in Threads : pc[u] = "out"
BY DEF MutualExclusion

\* What is loose then, and where somebody is.
LEMMA LooseAlone ==
  ASSUME NEW t \in Threads, Alone(t)
  PROVE  /\ Loose = IF pc[t] = "link" THEN {m_Last}
                    ELSE IF pc[t] \in {"unlink", "free"} THEN {pQueue[t]} ELSE {}
         /\ \A l \in {"link", "count", "unlink", "free"} : At(l) <=> pc[t] = l
<1>1. \A u \in Threads : u # t => pc[u] = "out"
  BY DEF Alone
<1>2. {u \in Threads : pc[u] = "link"} = IF pc[t] = "link" THEN {t} ELSE {}
  BY <1>1
<1>3. {u \in Threads : pc[u] \in {"unlink", "free"}} =
        IF pc[t] \in {"unlink", "free"} THEN {t} ELSE {}
  BY <1>1
<1>4. QED
  BY <1>1, <1>2, <1>3 DEF Loose, At

LEMMA LooseAlonePrime ==
  ASSUME NEW t \in Threads, Alone(t)'
  PROVE  /\ Loose' = IF pc'[t] = "link" THEN {m_Last'}
                     ELSE IF pc'[t] \in {"unlink", "free"} THEN {pQueue'[t]} ELSE {}
         /\ \A l \in {"link", "count", "unlink", "free"} : At(l)' <=> pc'[t] = l
<1>1. \A u \in Threads : u # t => pc'[u] = "out"
  BY DEF Alone
<1>2. {u \in Threads : pc'[u] = "link"} = IF pc'[t] = "link" THEN {t} ELSE {}
  BY <1>1
<1>3. {u \in Threads : pc'[u] \in {"unlink", "free"}} =
        IF pc'[t] \in {"unlink", "free"} THEN {t} ELSE {}
  BY <1>1
<1>4. QED
  BY <1>1, <1>2, <1>3 DEF Loose, At

-----------------------------------------------------------------------------
(* The initial states, and entering and leaving the lock.                  *)

LEMMA QueueInitInv == QueueInit => QueueInv
<1> SUFFICES ASSUME QueueInit PROVE QueueInv
  OBVIOUS
<1>1. QueueTypeOK
  BY DEF QueueInit, QueueTypeOK, Labels, Ops
<1>2. MutualExclusion /\ Staged
  BY DEF QueueInit, MutualExclusion, Staged
<1>3. Loose = {} /\ \A l \in {"link", "count", "unlink", "free"} : ~At(l)
  BY DEF QueueInit, Loose, At
<1>4. DOMAIN order = {} /\ Len(order) = 0
  BY DEF QueueInit
<1>5. WellLinked
  BY <1>3, <1>4 DEF QueueInit, WellLinked
<1>6. QED
  BY <1>1, <1>2, <1>5 DEF QueueInv

\* A step of one thread inside the lock, from one label to another, which leaves
\* the locks alone.
LEMMA InsideMutex ==
  ASSUME QueueTypeOK, MutualExclusion, NEW t \in Threads, pc[t] # "out",
         NEW l \in Labels, l # "out", pc' = [pc EXCEPT ![t] = l], lock' = lock
  PROVE  MutualExclusion' /\ Alone(t) /\ Alone(t)' /\ pc'[t] = l /\ pc' \in [Threads -> Labels]
BY AloneInside DEF QueueTypeOK, MutualExclusion, Alone

LEMMA CallPreserves ==
  ASSUME QueueInv, NEW t \in Threads, NEW o \in Ops, NEW l \in {"append", "pop"},
         Call(t, o, l), Arg' \in [Threads -> Data \cup {NoData}],
         l = "append" => Arg'[t] \in Data
  PROVE  QueueInv'
<1>1. /\ \A u \in Threads : pc[u] = "out"
      /\ lock' = {t} /\ pc' = [pc EXCEPT ![t] = l] /\ op' = [op EXCEPT ![t] = o]
      /\ UNCHANGED <<m_First, m_Last, m_Elements, live, pData, Prev, Next_, pQueue, result,
                     order>>
  BY AloneOutside DEF QueueInv, Call, Enter, Goto
<1>2. QueueTypeOK'
  BY <1>1 DEF QueueInv, QueueTypeOK, Labels
<1>3. MutualExclusion' /\ Alone(t) /\ Alone(t)' /\ pc'[t] = l /\ pc[t] = "out"
  BY <1>1 DEF QueueInv, QueueTypeOK, MutualExclusion, Alone
<1>4. /\ Loose = {} /\ Loose' = {}
      /\ \A k \in {"link", "count", "unlink", "free"} : ~At(k) /\ ~At(k)'
  BY <1>3, LooseAlone, LooseAlonePrime
<1>5. WellLinked'
  BY <1>1, <1>4 DEF QueueInv, WellLinked
<1>6. Staged'
  BY <1>1, <1>3 DEF QueueInv, QueueTypeOK, Staged, Alone
<1>7. QED
  BY <1>2, <1>3, <1>5, <1>6 DEF QueueInv

LEMMA LeavePreserves ==
  ASSUME QueueInv, NEW t \in Threads, Leave(t)
  PROVE  QueueInv'
<1>1. /\ pc[t] = "leave" /\ lock' = lock \ {t} /\ pc' = [pc EXCEPT ![t] = "out"]
      /\ UNCHANGED <<m_First, m_Last, m_Elements, live, pData, Prev, Next_, op, Arg, pQueue,
                     result, order>>
  BY DEF Leave, Goto
<1>2. QueueTypeOK'
  BY <1>1 DEF QueueInv, QueueTypeOK, Labels
<1>3. MutualExclusion' /\ Alone(t) /\ Alone(t)' /\ pc'[t] = "out"
  BY <1>1, AloneInside DEF QueueInv, QueueTypeOK, MutualExclusion, Alone
<1>4. /\ Loose = {} /\ Loose' = {}
      /\ \A k \in {"link", "count", "unlink", "free"} : ~At(k) /\ ~At(k)'
  BY <1>1, <1>3, LooseAlone, LooseAlonePrime
<1>5. WellLinked'
  BY <1>1, <1>4 DEF QueueInv, WellLinked
<1>6. Staged'
  BY <1>1, <1>3 DEF QueueInv, QueueTypeOK, Staged, Alone
<1>7. QED
  BY <1>2, <1>3, <1>5, <1>6 DEF QueueInv

-----------------------------------------------------------------------------
(* The steps inside an operation.                                          *)

LEMMA OrderFacts ==
  ASSUME QueueTypeOK
  PROVE  /\ Len(order) \in Nat /\ DOMAIN order = 1 .. Len(order)
         /\ order = <<>> <=> Len(order) = 0
         /\ \A i \in 1 .. Len(order) : order[i] \in Nodes
BY LenProperties, ElementOfSeq, EmptySeq DEF QueueTypeOK

\* What WellLinked says of the node at one place of the list.
LEMMA NodeFacts ==
  ASSUME QueueInv, NEW i \in 1 .. Len(order)
  PROVE  /\ order[i] \in Nodes /\ order[i] # Null
         /\ order[i] \in live /\ order[i] \notin Loose
         /\ pData[order[i]] \in Data
         /\ Next_[order[i]] = (IF i = Len(order) THEN Null ELSE order[i + 1])
         /\ i > 1 => Prev[order[i]] = order[i - 1]
         /\ i = 1 /\ ~At("unlink") => Prev[order[i]] = Null
         /\ \A j \in 1 .. Len(order) : order[i] = order[j] => i = j
<1>1. i \in DOMAIN order /\ order[i] \in Nodes /\ DOMAIN order = 1 .. Len(order)
  BY OrderFacts DEF QueueInv
<1>2. order[i] # Null
  BY <1>1, QueueAssumption
<1>3. order[i] \in {order[j] : j \in DOMAIN order}
  BY <1>1
<1>4. order[i] \in live
  BY <1>3 DEF QueueInv, WellLinked
<1>5. QED
  BY <1>1, <1>2, <1>4 DEF QueueInv, WellLinked

LEMMA AppendNodePreserves ==
  ASSUME QueueInv, NEW t \in Threads, NEW n \in Nodes, AppendNode(t, n)
  PROVE  QueueInv'
<1>1. /\ pc[t] = "append" /\ n \notin live /\ n # Null
      /\ live' = live \cup {n} /\ pQueue' = [pQueue EXCEPT ![t] = m_Last] /\ m_Last' = n
      /\ pData' = [pData EXCEPT ![n] = Arg[t]] /\ Prev' = [Prev EXCEPT ![n] = m_Last]
      /\ Next_' = [Next_ EXCEPT ![n] = Null] /\ pc' = [pc EXCEPT ![t] = "link"]
      /\ UNCHANGED <<m_First, m_Elements, lock, op, Arg, result, order>>
  BY QueueAssumption DEF AppendNode, Goto
<1>2. QueueTypeOK'
  BY <1>1 DEF QueueInv, QueueTypeOK, Labels
<1>3. MutualExclusion' /\ Alone(t) /\ Alone(t)' /\ pc'[t] = "link"
  BY <1>1, InsideMutex DEF QueueInv, Labels
<1>4. /\ Loose = {} /\ Loose' = {n}
      /\ ~At("link") /\ ~At("unlink") /\ ~At("count") /\ ~At("free")
      /\ At("link")' /\ ~At("unlink")' /\ ~At("count")' /\ ~At("free")'
  BY <1>1, <1>3, LooseAlone, LooseAlonePrime
<1>5. /\ \A i \in DOMAIN order : order[i] # n /\ order[i] \in Nodes
      /\ m_Last = IF order = <<>> THEN Null ELSE order[Len(order)]
  <2>1. \A i \in 1 .. Len(order) : order[i] # n /\ order[i] \in Nodes
    BY <1>1, NodeFacts
  <2>2. m_Last = IF order = <<>> THEN Null ELSE order[Len(order)]
    BY <1>4 DEF QueueInv, WellLinked
  <2>3. QED
    BY <2>1, <2>2, OrderFacts DEF QueueInv
<1>6. ASSUME NEW i \in DOMAIN order
      PROVE  /\ Next_'[order[i]] = Next_[order[i]] /\ Prev'[order[i]] = Prev[order[i]]
             /\ pData'[order[i]] = pData[order[i]]
  BY <1>1, <1>5 DEF QueueInv, QueueTypeOK
<1>7. live' = {order[i] : i \in DOMAIN order} \cup {n}
  BY <1>1, <1>4 DEF QueueInv, WellLinked
<1>8. m_Elements = Len(order)
  BY <1>4, OrderFacts DEF QueueInv, QueueTypeOK, WellLinked
<1>9. WellLinked'
  <2>1. /\ order' = order /\ m_First' = m_First /\ m_Elements' = m_Elements
        /\ \A i \in DOMAIN order : order[i] \notin Loose'
    BY <1>1, <1>4, <1>5
  <2>2. \A i \in DOMAIN order :
          /\ Next_'[order[i]] = (IF i = Len(order) THEN Null ELSE order[i + 1])
          /\ i > 1 => Prev'[order[i]] = order[i - 1]
          /\ i = 1 => Prev'[order[i]] = Null
          /\ pData'[order[i]] \in Data
    BY <1>4, <1>6 DEF QueueInv, WellLinked
  <2>3. Len(order) = Len(order) + 0 - 0
    BY OrderFacts DEF QueueInv
  <2>4. QED
    BY <1>4, <1>7, <1>8, <2>1, <2>2, <2>3 DEF QueueInv, WellLinked
<1>10. Staged'
  BY <1>1, <1>3, <1>5 DEF QueueInv, QueueTypeOK, Staged, Alone
<1>11. QED
  BY <1>2, <1>3, <1>9, <1>10 DEF QueueInv

LEMMA LinkPreserves ==
  ASSUME QueueInv, NEW t \in Threads, Link(t)
  PROVE  QueueInv'
<1> DEFINE n == Len(order)
<1>1. /\ pc[t] = "link" /\ pc' = [pc EXCEPT ![t] = "count"]
      /\ order' = Append(order, m_Last)
      /\ IF pQueue[t] # Null
         THEN Next_' = [Next_ EXCEPT ![pQueue[t]] = m_Last] /\ m_First' = m_First
         ELSE m_First' = m_Last /\ Next_' = Next_
      /\ UNCHANGED <<m_Last, m_Elements, live, pData, Prev, lock, op, Arg, pQueue, result>>
  BY DEF Link, Goto
<1>2. /\ m_Last \in Nodes /\ m_Last # Null
      /\ Next_[m_Last] = Null /\ Prev[m_Last] = pQueue[t] /\ pData[m_Last] \in Data
      /\ pQueue[t] = IF order = <<>> THEN Null ELSE order[n]
  BY <1>1, QueueAssumption DEF QueueInv, Staged
<1>3. MutualExclusion' /\ Alone(t) /\ Alone(t)' /\ pc'[t] = "count"
  BY <1>1, InsideMutex DEF QueueInv, Labels
<1>4. /\ Loose = {m_Last} /\ Loose' = {}
      /\ At("link") /\ ~At("unlink") /\ ~At("count") /\ ~At("free")
      /\ ~At("link")' /\ ~At("unlink")' /\ At("count")' /\ ~At("free")'
  BY <1>1, <1>3, LooseAlone, LooseAlonePrime
<1>5. /\ n \in Nat /\ DOMAIN order = 1 .. n /\ (order = <<>> <=> n = 0)
      /\ \A i \in 1 .. n : order[i] \in Nodes /\ order[i] # m_Last
  BY <1>4, OrderFacts DEF QueueInv, WellLinked
<1>6. /\ Len(order') = n + 1 /\ DOMAIN order' = 1 .. (n + 1)
      /\ order' \in Seq(Nodes) /\ order' # <<>>
      /\ \A i \in 1 .. n : order'[i] = order[i]
      /\ order'[n + 1] = m_Last
  BY <1>1, <1>2, <1>5, AppendProperties, LenProperties DEF QueueInv, QueueTypeOK
<1>7. QueueTypeOK'
  BY <1>1, <1>2, <1>6 DEF QueueInv, QueueTypeOK, Labels
<1> HIDE DEF n
<1>8. \A i, j \in DOMAIN order' : order'[i] = order'[j] => i = j
  BY <1>5, <1>6 DEF QueueInv, WellLinked
<1>9. {order'[i] : i \in DOMAIN order'} = {order[i] : i \in DOMAIN order} \cup {m_Last}
  BY <1>5, <1>6
<1>10. live' = {order'[i] : i \in DOMAIN order'} \cup Loose'
  BY <1>1, <1>4, <1>9 DEF QueueInv, WellLinked
<1>11. m_First' = (IF order' = <<>> THEN Null ELSE order'[1])
  <2>1. CASE n = 0
    BY <2>1, <1>1, <1>2, <1>5, <1>6
  <2>2. CASE n # 0
    BY <2>2, <1>1, <1>2, <1>5, <1>6, QueueAssumption DEF QueueInv, WellLinked
  <2>3. QED
    BY <2>1, <2>2
<1>12. m_Last' = (IF order' = <<>> THEN Null ELSE order'[Len(order')])
  BY <1>1, <1>6
<1>13. ASSUME NEW i \in DOMAIN order'
       PROVE  /\ Next_'[order'[i]] = (IF i = Len(order') THEN Null ELSE order'[i + 1])
              /\ i > 1 => Prev'[order'[i]] = order'[i - 1]
              /\ i = 1 => Prev'[order'[i]] = Null
              /\ pData'[order'[i]] \in Data
  <2>1. i \in 1 .. (n + 1)
    BY <1>6
  <2>2. Next_' \in [Nodes -> Nodes \cup {Null}] /\ Next_ \in [Nodes -> Nodes \cup {Null}]
    BY <1>7 DEF QueueInv, QueueTypeOK
  <2>3. CASE i = n + 1
    BY <2>3, <2>2, <1>1, <1>2, <1>5, <1>6
  <2>4. CASE i = n /\ n # 0
    <3>1. order[n] \in Nodes /\ pQueue[t] = order[n] /\ order[n] # Null
      BY <2>4, <1>2, <1>5, QueueAssumption
    <3>2. Next_'[order[n]] = m_Last
      BY <3>1, <2>2, <1>1
    <3>3. QED
      BY <2>1, <2>4, <3>2, <1>1, <1>4, <1>5, <1>6 DEF QueueInv, WellLinked
  <2>5. CASE i < n
    <3>1. i \in DOMAIN order /\ n \in DOMAIN order /\ n # 0 /\ i # n /\ i + 1 \in 1 .. n
      BY <2>1, <2>5, <1>5
    <3>2. order[i] # order[n]
      BY <3>1 DEF QueueInv, WellLinked
    <3>3. Next_'[order[i]] = Next_[order[i]]
      BY <3>1, <3>2, <2>2, <1>1, <1>2, <1>5
    <3>4. /\ Next_[order[i]] = order[i + 1] /\ pData[order[i]] \in Data
          /\ i > 1 => Prev[order[i]] = order[i - 1]
          /\ i = 1 => Prev[order[i]] = Null
      BY <3>1, <1>4, <1>5, NodeFacts DEF n
    <3>5. order'[i] = order[i] /\ order'[i + 1] = order[i + 1] /\ (i > 1 => order'[i - 1] = order[i - 1])
      BY <3>1, <1>5, <1>6
    <3>6. i # Len(order')
      BY <2>5, <1>5, <1>6
    <3>7. QED
      BY <3>3, <3>4, <3>5, <3>6, <1>1
  <2>6. QED
    BY <2>1, <2>3, <2>4, <2>5, <1>5
<1>14. m_Elements' = Len(order') + (IF At("unlink")' \/ At("free")' THEN 1 ELSE 0)
                                - (IF At("count")' THEN 1 ELSE 0)
  <2>1. m_Elements = n
    BY <1>4, OrderFacts DEF QueueInv, QueueTypeOK, WellLinked, n
  <2>2. QED
    BY <2>1, <1>1, <1>4, <1>5, <1>6
<1>15. WellLinked'
  BY <1>4, <1>8, <1>10, <1>11, <1>12, <1>13, <1>14 DEF WellLinked
<1>16. Staged'
  BY <1>1, <1>3 DEF QueueInv, QueueTypeOK, Staged, Alone
<1>17. QED
  BY <1>3, <1>7, <1>15, <1>16 DEF QueueInv

LEMMA CountPreserves ==
  ASSUME QueueInv, NEW t \in Threads, Count(t)
  PROVE  QueueInv'
<1>1. /\ pc[t] = "count" /\ pc' = [pc EXCEPT ![t] = "leave"]
      /\ m_Elements' = m_Elements + 1
      /\ UNCHANGED <<m_First, m_Last, live, pData, Prev, Next_, lock, op, Arg, pQueue, result,
                     order>>
  BY DEF Count, Goto
<1>2. QueueTypeOK'
  BY <1>1 DEF QueueInv, QueueTypeOK, Labels
<1>3. MutualExclusion' /\ Alone(t) /\ Alone(t)' /\ pc'[t] = "leave"
  BY <1>1, InsideMutex DEF QueueInv, Labels
<1>4. /\ Loose = {} /\ Loose' = {}
      /\ ~At("link") /\ ~At("unlink") /\ At("count") /\ ~At("free")
      /\ ~At("link")' /\ ~At("unlink")' /\ ~At("count")' /\ ~At("free")'
  BY <1>1, <1>3, LooseAlone, LooseAlonePrime
<1>5. m_Elements' = Len(order)
  BY <1>1, <1>4, OrderFacts DEF QueueInv, QueueTypeOK, WellLinked
<1>6. WellLinked'
  BY <1>1, <1>4, <1>5, OrderFacts DEF QueueInv, WellLinked
<1>7. Staged'
  BY <1>1, <1>3 DEF QueueInv, QueueTypeOK, Staged, Alone
<1>8. QED
  BY <1>2, <1>3, <1>6, <1>7 DEF QueueInv

LEMMA PopPreserves ==
  ASSUME QueueInv, NEW t \in Threads, Pop(t)
  PROVE  QueueInv'
<1> DEFINE n == Len(order)
<1>1. /\ pc[t] = "pop" /\ m_First # Null /\ pc' = [pc EXCEPT ![t] = "unlink"]
      /\ pQueue' = [pQueue EXCEPT ![t] = m_First] /\ m_First' = Next_[m_First]
      /\ order' = Tail(order)
      /\ UNCHANGED <<m_Last, m_Elements, live, pData, Prev, Next_, lock, op, Arg, result>>
  BY DEF Pop, Goto
<1>2. MutualExclusion' /\ Alone(t) /\ Alone(t)' /\ pc'[t] = "unlink"
  BY <1>1, InsideMutex DEF QueueInv, Labels
<1>3. order # <<>> /\ m_First = order[1]
  BY <1>1 DEF QueueInv, WellLinked
<1>4. /\ n \in Nat /\ n # 0 /\ DOMAIN order = 1 .. n /\ order \in Seq(Nodes) /\ 1 \in 1 .. n
      /\ m_First \in Nodes
  BY <1>3, OrderFacts DEF QueueInv, QueueTypeOK
<1>5. /\ order' \in Seq(Nodes) /\ Len(order') = n - 1 /\ DOMAIN order' = 1 .. (n - 1)
      /\ \A i \in 1 .. (n - 1) : order'[i] = order[i + 1]
  BY <1>1, <1>3, <1>4, HeadTailProperties, LenProperties
<1>6. order' = <<>> <=> n = 1
  BY <1>4, <1>5, EmptySeq
<1>7. pQueue'[t] = order[1] /\ QueueTypeOK'
  BY <1>1, <1>3, <1>4, <1>5 DEF QueueInv, QueueTypeOK, Labels
<1>8. /\ Loose = {} /\ Loose' = {order[1]}
      /\ ~At("link") /\ ~At("unlink") /\ ~At("count") /\ ~At("free")
      /\ ~At("link")' /\ At("unlink")' /\ ~At("count")' /\ ~At("free")'
  BY <1>1, <1>2, <1>7, LooseAlone, LooseAlonePrime
<1>9. m_Elements = n
  BY <1>8, OrderFacts DEF QueueInv, QueueTypeOK, WellLinked
<1>10. \A i \in 1 .. n :
         /\ Next_[order[i]] = (IF i = n THEN Null ELSE order[i + 1])
         /\ i > 1 => Prev[order[i]] = order[i - 1]
         /\ pData[order[i]] \in Data
         /\ \A j \in 1 .. n : order[i] = order[j] => i = j
  BY NodeFacts
<1>11. live = {order[i] : i \in 1 .. n}
  BY <1>4, <1>8 DEF QueueInv, WellLinked
<1> HIDE DEF n
<1>12. /\ \A i, j \in DOMAIN order' : order'[i] = order'[j] => i = j
       /\ \A i \in DOMAIN order' : order'[i] \notin Loose'
  <2>1. \A i \in DOMAIN order' : i + 1 \in 1 .. n /\ i + 1 # 1 /\ order'[i] = order[i + 1]
    BY <1>4, <1>5
  <2>2. ASSUME NEW i \in DOMAIN order', NEW j \in DOMAIN order', order'[i] = order'[j]
        PROVE  i = j
    <3>1. i + 1 = j + 1
      BY <2>1, <2>2, <1>10
    <3>2. QED
      BY <3>1, <1>4, <1>5
  <2>3. ASSUME NEW i \in DOMAIN order' PROVE order'[i] # order[1]
    BY <2>1, <1>4, <1>10
  <2>4. QED
    BY <2>2, <2>3, <1>8
<1>13. {order[i] : i \in 1 .. n} = {order'[i] : i \in DOMAIN order'} \cup {order[1]}
  <2>1. ASSUME NEW i \in 1 .. n, i # 1
        PROVE  i - 1 \in 1 .. (n - 1) /\ order[i] = order'[i - 1]
    <3>1. i - 1 \in 1 .. (n - 1) /\ (i - 1) + 1 = i
      BY <2>1, <1>4
    <3>2. QED
      BY <3>1, <1>5
  <2>2. \A i \in 1 .. (n - 1) : i + 1 \in 1 .. n /\ order'[i] = order[i + 1]
    BY <1>4, <1>5
  <2>3. ASSUME NEW x \in {order[i] : i \in 1 .. n}
        PROVE  x \in {order'[i] : i \in DOMAIN order'} \cup {order[1]}
    <3> PICK i \in 1 .. n : x = order[i]
      OBVIOUS
    <3>1. QED
      BY <2>1, <1>5
  <2>4. ASSUME NEW x \in {order'[i] : i \in DOMAIN order'} \cup {order[1]}
        PROVE  x \in {order[i] : i \in 1 .. n}
    BY <2>2, <1>4, <1>5
  <2>5. QED
    BY <2>3, <2>4
<1>14. m_First' = (IF order' = <<>> THEN Null ELSE order'[1])
  BY <1>1, <1>3, <1>4, <1>5, <1>6, <1>10
<1>15. ASSUME NEW i \in DOMAIN order'
       PROVE  /\ Next_[order'[i]] = (IF i = Len(order') THEN Null ELSE order'[i + 1])
              /\ i > 1 => Prev[order'[i]] = order'[i - 1]
              /\ pData[order'[i]] \in Data
  <2>1. i \in 1 .. (n - 1) /\ i + 1 \in 1 .. n /\ i + 1 > 1 /\ (i + 1) - 1 = i
    BY <1>4, <1>5
  <2>2. order'[i] = order[i + 1] /\ (i = n - 1 <=> i + 1 = n)
    BY <2>1, <1>4, <1>5
  <2>3. i # n - 1 => i + 1 \in 1 .. (n - 1) /\ order'[i + 1] = order[i + 1 + 1]
    BY <2>1, <1>4, <1>5
  <2>4. i > 1 => i - 1 \in 1 .. (n - 1) /\ order'[i - 1] = order[i]
    BY <2>1, <1>4, <1>5
  <2>5. Prev[order[i + 1]] = order[i] /\ pData[order[i + 1]] \in Data
    BY <2>1, <1>10
  <2>6. Next_[order[i + 1]] = (IF i + 1 = n THEN Null ELSE order[i + 1 + 1])
    BY <2>1, <1>10
  <2>7. QED
    BY <2>2, <2>3, <2>4, <2>5, <2>6, <1>5
<1>16. m_Elements' = Len(order') + 1 - 0
  BY <1>1, <1>4, <1>5, <1>9
<1>17. WellLinked'
  BY <1>1, <1>8, <1>11, <1>12, <1>13, <1>14, <1>15, <1>16 DEF WellLinked
<1>18. m_Last = order[n] /\ (n # 1 => order'[Len(order')] = order[n])
  <2>1. m_Last = order[n]
    BY <1>3, <1>8 DEF QueueInv, WellLinked, n
  <2>2. n # 1 => n - 1 \in 1 .. (n - 1) /\ (n - 1) + 1 = n
    BY <1>4
  <2>3. QED
    BY <2>1, <2>2, <1>4, <1>5
<1>19. Staged'
  BY <1>1, <1>2, <1>3, <1>4, <1>6, <1>7, <1>10, <1>18 DEF Staged, Alone
<1>20. QED
  BY <1>2, <1>7, <1>17, <1>19 DEF QueueInv

LEMMA PopNothingPreserves ==
  ASSUME QueueInv, NEW t \in Threads, PopNothing(t)
  PROVE  QueueInv'
<1>1. /\ pc[t] = "pop" /\ pc' = [pc EXCEPT ![t] = "leave"]
      /\ result' = (IF op[t] = "Get" THEN [result EXCEPT ![t] = NoData] ELSE result)
      /\ UNCHANGED <<m_First, m_Last, m_Elements, live, pData, Prev, Next_, lock, op, Arg, pQueue,
                     order>>
  BY DEF PopNothing, Goto
<1>2. QueueTypeOK'
  BY <1>1 DEF QueueInv, QueueTypeOK, Labels
<1>3. MutualExclusion' /\ Alone(t) /\ Alone(t)' /\ pc'[t] = "leave"
  BY <1>1, InsideMutex DEF QueueInv, Labels
<1>4. /\ Loose = {} /\ Loose' = {}
      /\ ~At("link") /\ ~At("unlink") /\ ~At("count") /\ ~At("free")
      /\ ~At("link")' /\ ~At("unlink")' /\ ~At("count")' /\ ~At("free")'
  BY <1>1, <1>3, LooseAlone, LooseAlonePrime
<1>5. WellLinked'
  BY <1>1, <1>4 DEF QueueInv, WellLinked
<1>6. Staged'
  BY <1>1, <1>3 DEF QueueInv, QueueTypeOK, Staged, Alone
<1>7. QED
  BY <1>2, <1>3, <1>5, <1>6 DEF QueueInv

LEMMA UnlinkPreserves ==
  ASSUME QueueInv, NEW t \in Threads, Unlink(t)
  PROVE  QueueInv'
<1>1. /\ pc[t] = "unlink" /\ pc' = [pc EXCEPT ![t] = "free"]
      /\ IF m_First # Null
         THEN Prev' = [Prev EXCEPT ![m_First] = Null] /\ m_Last' = m_Last
         ELSE m_Last' = Null /\ Prev' = Prev
      /\ UNCHANGED <<m_First, m_Elements, live, pData, Next_, lock, op, Arg, pQueue, result,
                     order>>
  BY DEF Unlink, Goto
<1>2. QueueTypeOK'
  BY <1>1 DEF QueueInv, QueueTypeOK, Labels
<1>3. MutualExclusion' /\ Alone(t) /\ Alone(t)' /\ pc'[t] = "free"
  BY <1>1, InsideMutex DEF QueueInv, Labels
<1>4. /\ Loose = {pQueue[t]} /\ Loose' = Loose
      /\ ~At("link") /\ At("unlink") /\ ~At("count") /\ ~At("free")
      /\ ~At("link")' /\ ~At("unlink")' /\ ~At("count")' /\ At("free")'
  BY <1>1, <1>3, LooseAlone, LooseAlonePrime
<1>5. /\ Len(order) \in Nat /\ DOMAIN order = 1 .. Len(order)
      /\ (order = <<>> <=> Len(order) = 0)
  BY OrderFacts DEF QueueInv
<1>6. /\ m_First # Null <=> order # <<>>
      /\ order # <<>> => m_First = order[1] /\ m_First \in Nodes /\ m_Last = order[Len(order)]
  <2>1. order = <<>> => m_First = Null
    BY DEF QueueInv, WellLinked
  <2>2. order # <<>> => m_First = order[1] /\ m_Last = order[Len(order)]
    BY <1>1 DEF QueueInv, WellLinked, Staged
  <2>3. order # <<>> => m_First \in Nodes /\ m_First # Null
    <3>1. order # <<>> => 1 \in 1 .. Len(order)
      BY <1>5
    <3>2. QED
      BY <3>1, <2>2, NodeFacts
  <2>4. QED
    BY <2>1, <2>2, <2>3
<1>7. ASSUME NEW i \in DOMAIN order
      PROVE  /\ i > 1 => Prev'[order[i]] = order[i - 1]
             /\ i = 1 => Prev'[order[i]] = Null
  <2>1. /\ i \in 1 .. Len(order) /\ 1 \in 1 .. Len(order) /\ order # <<>>
        /\ Prev \in [Nodes -> Nodes \cup {Null}]
    BY <1>5 DEF QueueInv, QueueTypeOK
  <2>2. /\ order[i] \in Nodes /\ (i > 1 => Prev[order[i]] = order[i - 1])
        /\ (order[i] = order[1] => i = 1)
    BY <2>1, NodeFacts
  <2>3. Prev' = [Prev EXCEPT ![order[1]] = Null]
    BY <2>1, <1>1, <1>6
  <2>4. QED
    BY <2>1, <2>2, <2>3
<1>8. m_Last' = (IF order = <<>> THEN Null ELSE order[Len(order)])
  BY <1>1, <1>6
<1>9. WellLinked'
  BY <1>1, <1>4, <1>7, <1>8 DEF QueueInv, WellLinked
<1>10. Staged'
  BY <1>1, <1>3 DEF QueueInv, QueueTypeOK, Staged, Alone
<1>11. QED
  BY <1>2, <1>3, <1>9, <1>10 DEF QueueInv

LEMMA FreePreserves ==
  ASSUME QueueInv, NEW t \in Threads, Free(t)
  PROVE  QueueInv'
<1> DEFINE l == IF op[t] = "Get" THEN "leave" ELSE "pop"
<1>1. /\ pc[t] = "free" /\ pc' = [pc EXCEPT ![t] = l]
      /\ live' = live \ {pQueue[t]} /\ m_Elements' = m_Elements - 1
      /\ result' = (IF op[t] = "Get" THEN [result EXCEPT ![t] = pData[pQueue[t]]] ELSE result)
      /\ UNCHANGED <<m_First, m_Last, pData, Prev, Next_, lock, op, Arg, pQueue, order>>
  BY DEF Free, Goto
<1>2. l \in {"leave", "pop"} /\ pQueue[t] \in Nodes /\ pData[pQueue[t]] \in Data
  BY <1>1 DEF QueueInv, Staged
<1> HIDE DEF l
<1>3. QueueTypeOK'
  BY <1>1, <1>2 DEF QueueInv, QueueTypeOK, Labels
<1>4. MutualExclusion' /\ Alone(t) /\ Alone(t)' /\ pc'[t] = l
  BY <1>1, <1>2, InsideMutex DEF QueueInv, Labels
<1>5. /\ Loose = {pQueue[t]} /\ Loose' = {}
      /\ ~At("link") /\ ~At("unlink") /\ ~At("count") /\ At("free")
      /\ ~At("link")' /\ ~At("unlink")' /\ ~At("count")' /\ ~At("free")'
  BY <1>1, <1>2, <1>4, LooseAlone, LooseAlonePrime
<1>6. m_Elements' = Len(order)
  BY <1>1, <1>5, OrderFacts DEF QueueInv, QueueTypeOK, WellLinked
<1>7. live' = {order[i] : i \in DOMAIN order}
  BY <1>1, <1>5 DEF QueueInv, WellLinked
<1>8. WellLinked'
  <2>1. m_Elements' = Len(order') + 0 - 0
    BY <1>1, <1>6, OrderFacts DEF QueueInv
  <2>2. QED
    BY <2>1, <1>1, <1>5, <1>7 DEF QueueInv, WellLinked
<1>9. Staged'
  BY <1>1, <1>2, <1>4 DEF QueueInv, QueueTypeOK, Staged, Alone
<1>10. QED
  BY <1>3, <1>4, <1>8, <1>9 DEF QueueInv

-----------------------------------------------------------------------------
(* The invariant.                                                          *)

\* Every step keeps the invariant.
LEMMA QueueNextInv == QueueInv /\ [QueueNext]_queueVars => QueueInv'
<1> SUFFICES ASSUME QueueInv, [QueueNext]_queueVars PROVE QueueInv'
  OBVIOUS
<1>1. CASE UNCHANGED queueVars
  BY <1>1 DEF queueVars, QueueInv, QueueTypeOK, MutualExclusion, WellLinked, Staged, Loose, At
<1>2. CASE QueueNext
  <2> PICK t \in Threads : \/ \E x \in Data : CallInsert(t, x)
                           \/ CallGet(t) \/ CallRemoveAll(t)
                           \/ Inside(t) \/ Leave(t)
    BY <1>2 DEF QueueNext
  <2>1. CASE \E x \in Data : CallInsert(t, x)
    <3> PICK x \in Data : CallInsert(t, x)
      BY <2>1
    <3>1. Arg' = [Arg EXCEPT ![t] = x] /\ Call(t, "Insert", "append")
      BY DEF CallInsert
    <3>2. Arg' \in [Threads -> Data \cup {NoData}] /\ Arg'[t] \in Data
      BY <3>1 DEF QueueInv, QueueTypeOK
    <3>3. QED
      BY <3>1, <3>2, CallPreserves DEF Ops
  <2>2. CASE CallGet(t) \/ CallRemoveAll(t)
    <3>1. Arg' \in [Threads -> Data \cup {NoData}]
      BY <2>2 DEF QueueInv, QueueTypeOK, CallGet, CallRemoveAll
    <3>2. QED
      BY <2>2, <3>1, CallPreserves DEF Ops, CallGet, CallRemoveAll
  <2>3. CASE Inside(t)
    BY <2>3, AppendNodePreserves, LinkPreserves, CountPreserves, PopPreserves,
       PopNothingPreserves, UnlinkPreserves, FreePreserves DEF Inside
  <2>4. CASE Leave(t)
    BY <2>4, LeavePreserves
  <2>5. QED
    BY <2>1, <2>2, <2>3, <2>4
<1>3. QED
  BY <1>1, <1>2

\* Whatever the threads call and however they are cut, the list stays what order
\* says, one thread at a time is at it, and the node in hand is the one to link or
\* to free.
THEOREM QueueInvariant == QueueSpec => []QueueInv
<1>1. QueueInit => QueueInv
  BY QueueInitInv
<1>2. QueueInv /\ [QueueNext]_queueVars => QueueInv'
  BY QueueNextInv
<1>3. QED
  BY <1>1, <1>2, PTL DEF QueueSpec


-----------------------------------------------------------------------------
(* The refinement.                                                         *)

\* A sequence of nodes read through a field is a sequence of its values.
LEMMA MappedSeq ==
  ASSUME NEW N, NEW S, NEW o \in Seq(N), NEW f, \A i \in DOMAIN o : f[o[i]] \in S,
         NEW c, c = [i \in DOMAIN o |-> f[o[i]]]
  PROVE  /\ c \in Seq(S) /\ Len(c) = Len(o) /\ Len(o) \in Nat
         /\ \A i \in 1 .. Len(o) : c[i] = f[o[i]]
<1>1. Len(o) \in Nat /\ DOMAIN o = 1 .. Len(o)
  BY LenProperties
<1>2. c \in [1 .. Len(o) -> S]
  BY <1>1
<1>3. c \in Seq(S)
  BY <1>1, <1>2, SeqDef
<1>4. 1 .. Len(c) = 1 .. Len(o) /\ Len(c) \in Nat
  BY <1>2, <1>3, LenProperties
<1>5. Len(c) \in 1 .. Len(c) \/ Len(c) = 0
  BY <1>4
<1>6. Len(o) \in 1 .. Len(o) \/ Len(o) = 0
  BY <1>1
<1>7. Len(c) <= Len(o) /\ Len(o) <= Len(c)
  BY <1>1, <1>4, <1>5, <1>6
<1>8. QED
  BY <1>1, <1>3, <1>4, <1>7

LEMMA ContentsFacts ==
  ASSUME QueueInv
  PROVE  /\ Contents \in Seq(Data) /\ Len(Contents) = Len(order) /\ Len(order) \in Nat
         /\ \A i \in 1 .. Len(order) : Contents[i] = pData[order[i]]
<1>1. order \in Seq(Nodes) /\ \A i \in DOMAIN order : pData[order[i]] \in Data
  BY DEF QueueInv, QueueTypeOK, WellLinked
<1>2. QED
  BY <1>1, MappedSeq DEF Contents

LEMMA ContentsFactsPrime ==
  ASSUME QueueInv'
  PROVE  /\ Contents' \in Seq(Data) /\ Len(Contents') = Len(order') /\ Len(order') \in Nat
         /\ \A i \in 1 .. Len(order') : Contents'[i] = pData'[order'[i]]
<1>1. order' \in Seq(Nodes) /\ \A i \in DOMAIN order' : pData'[order'[i]] \in Data
  BY DEF QueueInv, QueueTypeOK, WellLinked
<1>2. QED
  BY <1>1, MappedSeq DEF Contents

\* A step that changes neither the list, nor an item of it, nor an answer.
LEMMA Stutter ==
  ASSUME order' = order, \A i \in DOMAIN order : pData'[order[i]] = pData[order[i]],
         \A u \in Threads : Answer(u)' = Answer(u)
  PROVE  UNCHANGED F!vars
BY DEF F!vars, Contents

\* The answer of a thread outside unlink and free is the one it has been given.
LEMMA AnswerOutside ==
  \A u \in Threads : pc[u] \notin {"unlink", "free"} => Answer(u) = result[u]
BY DEF Answer

LEMMA RefineInit == QueueInit => F!Init
<1> SUFFICES ASSUME QueueInit PROVE F!Init
  OBVIOUS
<1>1. Contents = <<>>
  BY DEF QueueInit, Contents
<1>2. \A t \in Threads : Answer(t) = NoData
  BY DEF QueueInit, Answer
<1>3. QED
  BY <1>1, <1>2 DEF F!Init

LEMMA LinkIsInsert ==
  ASSUME QueueInv, QueueInv', NEW t \in Threads, Link(t)
  PROVE  F!Insert(pData[m_Last]) /\ pData[m_Last] \in Data
<1>1. /\ pc[t] = "link" /\ pc' = [pc EXCEPT ![t] = "count"] /\ order' = Append(order, m_Last)
      /\ m_Last \in Nodes /\ pData[m_Last] \in Data
      /\ UNCHANGED <<pData, op, pQueue, result>>
  BY DEF Link, Goto, QueueInv, Staged
<1>2. \A u \in Threads : Answer(u)' = Answer(u)
  <2>1. pc \in [Threads -> Labels]
    BY DEF QueueInv, QueueTypeOK
  <2>2. QED
    BY <1>1, <2>1 DEF Answer
<1>3. Contents' = Append(Contents, pData[m_Last])
  <2> DEFINE n == Len(order)
             a == Append(Contents, pData[m_Last])
  <2>1. /\ n \in Nat /\ Contents \in Seq(Data) /\ Len(Contents) = n
        /\ \A i \in 1 .. n : Contents[i] = pData[order[i]]
    BY ContentsFacts
  <2>2. /\ Len(order') = n + 1 /\ order'[n + 1] = m_Last
        /\ \A i \in 1 .. n : order'[i] = order[i]
    BY <1>1, AppendProperties DEF QueueInv, QueueTypeOK
  <2>3. /\ Contents' \in Seq(Data) /\ Len(Contents') = n + 1
        /\ \A i \in 1 .. (n + 1) : Contents'[i] = pData[order'[i]]
    BY <1>1, <2>2, ContentsFactsPrime
  <2>4. /\ a \in Seq(Data) /\ Len(a) = n + 1 /\ a[n + 1] = pData[m_Last]
        /\ \A i \in 1 .. n : a[i] = Contents[i]
    BY <1>1, <2>1, AppendProperties
  <2> HIDE DEF n, a
  <2>5. \A i \in 1 .. (n + 1) : Contents'[i] = a[i]
    BY <2>1, <2>2, <2>3, <2>4
  <2>6. Contents' = a
    BY <2>3, <2>4, <2>5, SeqEqual
  <2>7. QED
    BY <2>6 DEF a
<1>4. QED
  BY <1>1, <1>2, <1>3 DEF F!Insert

LEMMA PopIsGet ==
  ASSUME QueueInv, QueueInv', NEW t \in Threads, Pop(t)
  PROVE  F!Get(t) \/ F!RemoveOne
<1>1. /\ pc[t] = "pop" /\ m_First # Null /\ pc' = [pc EXCEPT ![t] = "unlink"]
      /\ pQueue' = [pQueue EXCEPT ![t] = m_First] /\ order' = Tail(order)
      /\ UNCHANGED <<pData, op, result>>
  BY DEF Pop, Goto
<1>2. order # <<>> /\ m_First = order[1]
  BY <1>1 DEF QueueInv, WellLinked
<1>3. /\ pc \in [Threads -> Labels] /\ pQueue \in [Threads -> Nodes \cup {Null}]
      /\ order \in Seq(Nodes)
  BY DEF QueueInv, QueueTypeOK
<1>4. \A u \in Threads : u # t => Answer(u)' = Answer(u)
  BY <1>1, <1>3 DEF Answer
<1>5. op[t] # "Get" => Answer(t)' = Answer(t)
  BY <1>1, <1>3 DEF Answer
<1>6. op[t] = "Get" => Answer(t)' = pData[order[1]]
  BY <1>1, <1>2, <1>3 DEF Answer
<1>7. /\ Contents \in Seq(Data) /\ Len(Contents) = Len(order) /\ Len(order) \in Nat \ {0}
      /\ \A i \in 1 .. Len(order) : Contents[i] = pData[order[i]]
  BY <1>2, <1>3, ContentsFacts, EmptySeq
<1>8. Contents # <<>> /\ Head(Contents) = pData[order[1]]
  BY <1>7, EmptySeq
<1>9. Contents' = Tail(Contents)
  <2> DEFINE n == Len(order)
  <2>1. Len(order') = n - 1 /\ \A i \in 1 .. (n - 1) : order'[i] = order[i + 1]
    BY <1>1, <1>2, <1>3, HeadTailProperties
  <2>2. /\ Contents' \in Seq(Data) /\ Len(Contents') = n - 1
        /\ \A i \in 1 .. (n - 1) : Contents'[i] = pData[order'[i]]
    BY <1>1, <2>1, ContentsFactsPrime
  <2>3. /\ Tail(Contents) \in Seq(Data) /\ Len(Tail(Contents)) = n - 1
        /\ \A i \in 1 .. (n - 1) : Tail(Contents)[i] = Contents[i + 1]
    BY <1>7, <1>8, HeadTailProperties
  <2>4. n \in Nat /\ \A i \in 1 .. n : Contents[i] = pData[order[i]]
    BY <1>7
  <2> HIDE DEF n
  <2>5. ASSUME NEW i \in 1 .. (n - 1) PROVE Contents'[i] = Tail(Contents)[i]
    <3>1. i + 1 \in 1 .. n
      BY <2>4
    <3>2. QED
      BY <3>1, <2>1, <2>2, <2>3, <2>4
  <2>6. QED
    BY <2>2, <2>3, <2>5, SeqEqual
<1>10. CASE op[t] = "Get"
  BY <1>4, <1>6, <1>8, <1>9, <1>10 DEF F!Get
<1>11. CASE op[t] # "Get"
  BY <1>4, <1>5, <1>8, <1>9, <1>11 DEF F!RemoveOne
<1>12. QED
  BY <1>10, <1>11

LEMMA PopNothingIsGetNothing ==
  ASSUME QueueInv, QueueInv', NEW t \in Threads, PopNothing(t)
  PROVE  F!GetNothing(t) \/ UNCHANGED F!vars
<1>1. /\ pc[t] = "pop" /\ m_First = Null /\ pc' = [pc EXCEPT ![t] = "leave"]
      /\ result' = (IF op[t] = "Get" THEN [result EXCEPT ![t] = NoData] ELSE result)
      /\ UNCHANGED <<pData, op, pQueue, order>>
  BY DEF PopNothing, Goto
<1>2. pc \in [Threads -> Labels] /\ result \in [Threads -> Data \cup {NoData}]
  BY DEF QueueInv, QueueTypeOK
<1>3. \A u \in Threads : u # t => Answer(u)' = Answer(u)
  BY <1>1, <1>2 DEF Answer
<1>4. CASE op[t] = "Get"
  <2>1. Answer(t)' = NoData
    BY <1>1, <1>2, <1>4 DEF Answer
  <2>2. order = <<>>
    <3> SUFFICES ASSUME order # <<>> PROVE FALSE
      OBVIOUS
    <3>1. m_First = order[1] /\ 1 \in 1 .. Len(order)
      BY OrderFacts DEF QueueInv, WellLinked
    <3>2. QED
      BY <3>1, <1>1, NodeFacts
  <2>3. Contents = <<>> /\ Contents' = Contents
    BY <1>1, <2>2 DEF Contents
  <2>4. QED
    BY <1>3, <2>1, <2>3 DEF F!GetNothing
<1>5. CASE op[t] # "Get"
  <2>1. Answer(t)' = Answer(t)
    BY <1>1, <1>2, <1>5 DEF Answer
  <2>2. QED
    BY <1>1, <1>3, <2>1, Stutter
<1>6. QED
  BY <1>4, <1>5

LEMMA AppendNodeStutters ==
  ASSUME QueueInv, NEW t \in Threads, NEW n \in Nodes, AppendNode(t, n)
  PROVE  UNCHANGED F!vars
<1>1. /\ pc[t] = "append" /\ pc' = [pc EXCEPT ![t] = "link"] /\ n \notin live
      /\ pData' = [pData EXCEPT ![n] = Arg[t]] /\ order' = order /\ op' = op /\ result' = result
  BY DEF AppendNode, Goto
<1>2. \A u \in Threads : Answer(u)' = Answer(u)
  <2>1. Alone(t) /\ pc \in [Threads -> Labels]
    BY <1>1, AloneInside DEF QueueInv, QueueTypeOK
  <2>2. \A u \in Threads : pc[u] \notin {"unlink", "free"} /\ pc'[u] \notin {"unlink", "free"}
    BY <1>1, <2>1 DEF Alone
  <2>3. QED
    BY <1>1, <2>2 DEF Answer
<1>3. \A i \in DOMAIN order : pData'[order[i]] = pData[order[i]]
  BY <1>1, OrderFacts, NodeFacts DEF QueueInv, QueueTypeOK
<1>4. QED
  BY <1>1, <1>2, <1>3, Stutter

\* The other steps inside an operation, entering and leaving.
LEMMA OthersStutter ==
  ASSUME QueueInv, NEW t \in Threads,
         \/ Count(t) \/ Unlink(t) \/ Leave(t)
         \/ \E o \in Ops, l \in {"append", "pop"} : Call(t, o, l)
  PROVE  UNCHANGED F!vars
<1>1. pc \in [Threads -> Labels] /\ op \in [Threads -> Ops]
  BY DEF QueueInv, QueueTypeOK
<1>2. order' = order /\ pData' = pData /\ pQueue' = pQueue /\ result' = result
  BY DEF Count, Unlink, Leave, Call
<1>3. \A u \in Threads : Answer(u)' = Answer(u)
  <2>1. CASE Count(t) \/ Leave(t)
    BY <2>1, <1>1, <1>2 DEF Count, Leave, Goto, Answer
  <2>2. CASE Unlink(t)
    BY <2>2, <1>1, <1>2 DEF Unlink, Goto, Answer
  <2>3. CASE \E o \in Ops, l \in {"append", "pop"} : Call(t, o, l)
    BY <2>3, <1>1, <1>2 DEF Call, Goto, Answer
  <2>4. QED
    BY <2>1, <2>2, <2>3
<1>4. QED
  BY <1>2, <1>3, Stutter

LEMMA FreeStutters ==
  ASSUME QueueInv, NEW t \in Threads, Free(t)
  PROVE  UNCHANGED F!vars
<1>1. /\ pc[t] = "free" /\ pc' = [pc EXCEPT ![t] = IF op[t] = "Get" THEN "leave" ELSE "pop"]
      /\ result' = (IF op[t] = "Get" THEN [result EXCEPT ![t] = pData[pQueue[t]]] ELSE result)
      /\ order' = order /\ pData' = pData /\ pQueue' = pQueue /\ op' = op
  BY DEF Free, Goto
<1>2. pc \in [Threads -> Labels] /\ result \in [Threads -> Data \cup {NoData}]
  BY DEF QueueInv, QueueTypeOK
<1>3. \A u \in Threads : Answer(u)' = Answer(u)
  <2>1. CASE op[t] = "Get"
    BY <2>1, <1>1, <1>2 DEF Answer
  <2>2. CASE op[t] # "Get"
    BY <2>2, <1>1, <1>2 DEF Answer
  <2>3. QED
    BY <2>1, <2>2
<1>4. QED
  BY <1>1, <1>3, Stutter

LEMMA RefineStep ==
  QueueInv /\ QueueInv' /\ [QueueNext]_queueVars => [F!Next]_(F!vars)
<1> SUFFICES ASSUME QueueInv, QueueInv', [QueueNext]_queueVars
             PROVE  F!Next \/ UNCHANGED F!vars
  OBVIOUS
<1>1. CASE UNCHANGED queueVars
  BY <1>1, Stutter DEF queueVars, Answer
<1>2. CASE QueueNext
  <2> PICK t \in Threads : \/ \E x \in Data : CallInsert(t, x)
                           \/ CallGet(t) \/ CallRemoveAll(t)
                           \/ Inside(t) \/ Leave(t)
    BY <1>2 DEF QueueNext
  <2>1. CASE (\E x \in Data : CallInsert(t, x)) \/ CallGet(t) \/ CallRemoveAll(t)
    <3>1. \E o \in Ops, l \in {"append", "pop"} : Call(t, o, l)
      BY <2>1 DEF CallInsert, CallGet, CallRemoveAll, Ops
    <3>2. QED
      BY <3>1, OthersStutter
  <2>2. CASE Inside(t)
    <3>1. CASE \E n \in Nodes : AppendNode(t, n)
      BY <3>1, AppendNodeStutters
    <3>2. CASE Link(t)
      BY <3>2, LinkIsInsert DEF F!Next
    <3>3. CASE Pop(t)
      BY <3>3, PopIsGet DEF F!Next
    <3>4. CASE PopNothing(t)
      BY <3>4, PopNothingIsGetNothing DEF F!Next
    <3>5. CASE Count(t) \/ Unlink(t)
      BY <3>5, OthersStutter
    <3>6. CASE Free(t)
      BY <3>6, FreeStutters
    <3>7. QED
      BY <2>2, <3>1, <3>2, <3>3, <3>4, <3>5, <3>6 DEF Inside
  <2>3. CASE Leave(t)
    BY <2>3, OthersStutter
  <2>4. QED
    BY <2>1, <2>2, <2>3
<1>3. QED
  BY <1>1, <1>2

\* Insert, Get and RemoveAll are the operations of a FIFO queue: each takes effect at
\* once, at Link or Pop, and a Get returns the item its Pop took.
THEOREM QueueImplementsFifo == QueueSpec => ImplementsFifo
<1>1. QueueInit => F!Init
  BY RefineInit
<1>2. QueueInv /\ QueueInv' /\ [QueueNext]_queueVars => [F!Next]_(F!vars)
  BY RefineStep
<1>3. QED
  BY <1>1, <1>2, QueueInvariant, PTL DEF QueueSpec, ImplementsFifo, F!Spec

\* The list is well linked at every step of every operation, and the threads at it
\* exclude one another.
THEOREM QueueWellLinked == QueueSpec => [](WellLinked /\ MutualExclusion)
<1>1. QueueInv => WellLinked /\ MutualExclusion
  BY DEF QueueInv
<1>2. QED
  BY <1>1, QueueInvariant, PTL

-----------------------------------------------------------------------------
(* The capture.                                                            *)

\* Where the two threads stand, and what they hold there.
Control ==
  /\ mFp \subseteq Data
  /\ rpc \in {"none", "test", "next", "packet", "insert", "exited"}
  /\ mpc \in {"idle", "poll", "got", "join", "empty", "gone"}
  /\ mThread <=> rpc # "none"
  /\ rpc \notin {"none", "exited"} => mCap_t = "open"
  /\ mpc = "join" => mThread
  /\ mpc \in {"empty", "gone"} => ~mThread
  /\ rpc = "packet" => packet \in mFp
  /\ pc[Reader] # "out" <=> rpc = "insert"
  /\ mpc = "got" => pc[Owner] # "out"
  /\ mpc \in {"idle", "poll", "join", "gone"} => pc[Owner] = "out"
  /\ mpc = "empty" /\ pc[Owner] # "out" =>
       pc[Owner] \in {"pop", "unlink", "free", "leave"} /\ op[Owner] # "Get"
  /\ mpc = "empty" /\ pc[Owner] = "leave" => order = <<>>
  /\ mpc = "gone" => order = <<>>

\* What is in the list behind what was there earlier, and what is about to be, lies in P.
Carried(P) ==
  /\ \A i \in DOMAIN order : i > earlier => pData[order[i]] \in P
  /\ \A t \in Threads : /\ pc[t] = "append" => Arg[t] \in P
                        /\ pc[t] = "link" => pData[m_Last] \in P

Wanted == Passing(asked.dsts \cup left, asked.ports)

\* Without a capture the addresses that are left are those of the failed Starts.
Served ==
  /\ earlier \in Nat
  /\ ~mThread => mInAddressDst = left
  /\ mThread => mFp \subseteq Wanted /\ Carried(Wanted)

CaptureInv == QueueInv /\ Control /\ Served

LEMMA TwoActors == Owner \in Threads /\ Reader \in Threads /\ Owner # Reader
BY CaptureAssumption DEF Owner, Reader

-----------------------------------------------------------------------------
(* Every step is a step of the queue.                                      *)

LEMMA CaptureStepsQueue ==
  ASSUME Control, [Next]_vars
  PROVE  [QueueNext]_queueVars
<1>1. CASE UNCHANGED vars
  BY <1>1 DEF vars
<1>2. ASSUME NEW t \in Threads, QueueStep(t) PROVE QueueNext
  BY <1>2 DEF QueueStep, QueueNext
<1>3. ASSUME NEW a \in Asks, Start(a) \/ StartFails(a) PROVE UNCHANGED queueVars
  BY <1>3 DEF Start, StartFails
<1>4. CASE GetMsg \/ \E dtor \in BOOLEAN : Stop(dtor)
  BY <1>4 DEF GetMsg, Stop
<1>5. CASE Poll \/ Polled \/ Empty
  BY <1>5, TwoActors DEF Poll, Polled, Empty, QueueNext
<1>6. CASE StopJoined
  BY <1>6 DEF StopJoined, StopRest
<1>7. CASE Test \/ NextNothing \/ \E x \in Data : NextPacket(x)
  BY <1>7 DEF Test, NextNothing, NextPacket
<1>8. CASE InsertPacket
  <2>1. packet \in Data
    BY <1>8 DEF InsertPacket, Control
  <2>2. QED
    BY <1>8, <2>1, TwoActors DEF InsertPacket, QueueNext
<1>9. CASE Inserted
  BY <1>9, TwoActors DEF Inserted, QueueNext
<1>10. QED
  BY <1>1, <1>2, <1>3, <1>4, <1>5, <1>6, <1>7, <1>8, <1>9, TwoActors
  DEF Next, OwnerStep, ReaderStep

-----------------------------------------------------------------------------
(* Control.                                                                *)

\* A step inside an operation keeps everybody where the owner and the reader
\* put them, and ends RemoveAll only when nothing is left.
LEMMA InsideControl ==
  ASSUME QueueInv, NEW t \in Threads, Inside(t)
  PROVE  /\ pc[t] # "out" /\ pc'[t] # "out" /\ op' = op /\ lock' = lock
         /\ \A u \in Threads : u # t => pc'[u] = pc[u]
         /\ pc[t] \in {"pop", "unlink", "free", "leave"} /\ op[t] # "Get" =>
              /\ pc'[t] \in {"pop", "unlink", "free", "leave"}
              /\ pc'[t] = "leave" => order' = <<>>
<1>1. pc \in [Threads -> Labels]
  BY DEF QueueInv, QueueTypeOK
<1>2. CASE \E n \in Nodes : AppendNode(t, n)
  BY <1>1, <1>2 DEF AppendNode, Goto
<1>3. CASE Link(t) \/ Count(t)
  BY <1>1, <1>3 DEF Link, Count, Goto
<1>4. CASE Pop(t) \/ Unlink(t) \/ Free(t)
  BY <1>1, <1>4 DEF Pop, Unlink, Free, Goto
<1>5. CASE PopNothing(t)
  <2>1. order = <<>>
    <3> SUFFICES ASSUME order # <<>> PROVE FALSE
      OBVIOUS
    <3>1. m_First = order[1] /\ 1 \in 1 .. Len(order)
      BY OrderFacts DEF QueueInv, WellLinked
    <3>2. QED
      BY <3>1, <1>5, NodeFacts DEF PopNothing
  <2>2. QED
    BY <1>1, <1>5, <2>1 DEF PopNothing, Goto
<1>6. QED
  BY <1>2, <1>3, <1>4, <1>5 DEF Inside

LEMMA ControlInit == Init => Control
BY TwoActors DEF Init, QueueInit, Control

LEMMA ControlStep ==
  ASSUME QueueInv, Control, [Next]_vars
  PROVE  Control'
<1>1. pc \in [Threads -> Labels] /\ op \in [Threads -> Ops]
  BY DEF QueueInv, QueueTypeOK
<1>2. CASE UNCHANGED vars
  BY <1>2 DEF vars, queueVars, ctlVars, ownerVars, Control
<1>3. ASSUME NEW t \in Threads, QueueStep(t) PROVE Control'
  <2>1. UNCHANGED <<rpc, packet, ownerVars>> /\ Inside(t)
    BY <1>3 DEF QueueStep
  <2>2. /\ pc[t] # "out" /\ pc'[t] # "out" /\ op' = op
        /\ \A u \in Threads : u # t => pc'[u] = pc[u]
    BY <2>1, InsideControl
  <2>3. CASE t = Reader
    <3>1. mpc # "gone" /\ (mpc = "empty" => rpc = "none")
      BY <2>2, <2>3 DEF Control
    <3>2. mpc # "empty"
      BY <2>2, <2>3, <3>1 DEF Control
    <3>3. QED
      BY <2>1, <2>2, <2>3, <3>1, <3>2, TwoActors DEF Control, ownerVars
  <2>4. CASE t = Owner
    <3>1. mpc \in {"got", "empty"} /\ pc'[Reader] = pc[Reader]
      BY <2>2, <2>4, TwoActors DEF Control
    <3>2. mpc = "empty" => /\ pc'[Owner] \in {"pop", "unlink", "free", "leave"}
                           /\ pc'[Owner] = "leave" => order' = <<>>
                           /\ op[Owner] # "Get"
      BY <2>1, <2>2, <2>4, InsideControl DEF Control
    <3>3. QED
      BY <2>1, <2>2, <2>4, <3>1, <3>2 DEF Control, ownerVars
  <2>5. QED
    BY <2>3, <2>4, CaptureAssumption
<1>4. ASSUME NEW a \in Asks, Start(a) PROVE Control'
  <2>1. mFp' \subseteq Data
    BY <1>4 DEF Start, Passing
  <2>2. QED
    BY <1>4, <2>1 DEF Start, Ask, queueVars, Control
<1>5. ASSUME NEW a \in Asks, StartFails(a) PROVE Control'
  <2>1. mFp' \subseteq Data
    BY <1>5 DEF StartFails, Passing, Control
  <2>2. QED
    BY <1>5, <2>1 DEF StartFails, Ask, queueVars, Control
<1>6. CASE GetMsg
  BY <1>6 DEF GetMsg, queueVars, Control
<1>7. ASSUME NEW dtor \in BOOLEAN, Stop(dtor) PROVE Control'
  BY <1>7 DEF Stop, queueVars, Control
<1>8. CASE Poll
  BY <1>1, <1>8, TwoActors DEF Poll, CallGet, Call, Goto, Control
<1>9. CASE Polled
  BY <1>1, <1>9, TwoActors DEF Polled, Leave, Goto, Control
<1>10. CASE StopJoined
  BY <1>10 DEF StopJoined, StopRest, queueVars, Control
<1>11. CASE Empty
  <2>1. mpc = "empty" /\ rpc = "none"
    BY <1>11 DEF Empty, Control
  <2>2. CASE pc[Owner] = "out" /\ CallRemoveAll(Owner) /\ UNCHANGED mpc
    BY <1>1, <1>11, <2>1, <2>2, TwoActors DEF Empty, CallRemoveAll, Call, Goto, Control
  <2>3. CASE Leave(Owner) /\ mpc' = "gone"
    BY <1>1, <1>11, <2>1, <2>3, TwoActors DEF Empty, Leave, Goto, Control
  <2>4. QED
    BY <1>11, <2>2, <2>3 DEF Empty
<1>12. CASE Test \/ NextNothing \/ \E x \in Data : NextPacket(x)
  BY <1>12 DEF Test, NextNothing, NextPacket, queueVars, ownerVars, Control
<1>13. CASE InsertPacket
  BY <1>1, <1>13, TwoActors DEF InsertPacket, CallInsert, Call, Goto, ownerVars, Control
<1>14. CASE Inserted
  BY <1>1, <1>14, TwoActors DEF Inserted, Leave, Goto, ownerVars, Control
<1>15. QED
  BY <1>2, <1>3, <1>4, <1>5, <1>6, <1>7, <1>8, <1>9, <1>10, <1>11, <1>12, <1>13, <1>14,
     TwoActors DEF Next, OwnerStep, ReaderStep

-----------------------------------------------------------------------------
(* What the queue carries.                                                 *)

LEMMA CarriedInside ==
  ASSUME QueueInv, NEW t \in Threads, QueueStep(t), earlier \in Nat, NEW P, Carried(P)
  PROVE  Carried(P)'
<1> Inside(t)
  BY DEF QueueStep
<1>1. /\ pc \in [Threads -> Labels] /\ order \in Seq(Nodes)
      /\ pData \in [Nodes -> Data \cup {NoData}]
  BY DEF QueueInv, QueueTypeOK
<1>2. Alone(t) /\ Len(order) \in Nat /\ DOMAIN order = 1 .. Len(order)
  BY InsideControl, AloneInside, OrderFacts DEF QueueInv
<1>3. CASE \E n \in Nodes : AppendNode(t, n)
  <2> PICK n \in Nodes : AppendNode(t, n)
    BY <1>3
  <2>1. /\ pc[t] = "append" /\ pc' = [pc EXCEPT ![t] = "link"] /\ n \notin live /\ m_Last' = n
        /\ pData' = [pData EXCEPT ![n] = Arg[t]] /\ order' = order /\ Arg' = Arg
    BY DEF AppendNode, Goto
  <2> earlier' = earlier
    BY <1>2, <2>1 DEF QueueStep
  <2>2. \A i \in DOMAIN order : pData'[order[i]] = pData[order[i]]
    BY <1>1, <1>2, <2>1, NodeFacts
  <2>3. QED
    BY <1>1, <1>2, <2>1, <2>2 DEF Carried, Alone
<1>4. CASE Link(t)
  <2>1. /\ pc[t] = "link" /\ pc' = [pc EXCEPT ![t] = "count"] /\ m_Last \in Nodes
        /\ order' = Append(order, m_Last) /\ UNCHANGED <<m_Last, pData, Arg>>
    BY <1>4 DEF Link, Goto, QueueInv, Staged
  <2>2. \A i \in DOMAIN order' :
         (i \in DOMAIN order /\ order'[i] = order[i]) \/ order'[i] = m_Last
    BY <1>1, <1>2, <2>1, AppendProperties, LenProperties
  <2>4. earlier' = earlier
    <3>1. Len(order') = Len(order) + 1
      BY <1>1, <2>1, AppendProperties
    <3>2. ~(Len(order') < Len(order))
      BY <1>2, <3>1
    <3>3. QED
      BY <3>2 DEF QueueStep
  <2>3. QED
    BY <1>1, <1>2, <2>1, <2>2, <2>4 DEF Carried, Alone
<1>5. CASE Pop(t)
  <2>1. /\ pc[t] = "pop" /\ pc' = [pc EXCEPT ![t] = "unlink"] /\ order' = Tail(order)
        /\ order # <<>> /\ UNCHANGED <<m_Last, pData, Arg>>
    BY <1>5 DEF Pop, Goto, QueueInv, WellLinked
  <2>2. \A i \in DOMAIN order' :
          i + 1 \in DOMAIN order /\ i \in Nat /\ order'[i] = order[i + 1]
    BY <1>1, <1>2, <2>1, HeadTailProperties, LenProperties
  <2>3. Len(order') < Len(order)
    BY <1>1, <1>2, <2>1, HeadTailProperties
  <2>4. \A i \in Nat : i > earlier' => i + 1 > earlier
    BY <2>3 DEF QueueStep
  <2>5. \A i \in DOMAIN order' : i > earlier' => pData'[order'[i]] \in P
    BY <2>1, <2>2, <2>4 DEF Carried
  <2>6. QED
    BY <1>1, <1>2, <2>1, <2>5 DEF Carried, Alone
<1>6. CASE Count(t) \/ PopNothing(t) \/ Unlink(t) \/ Free(t)
  <2>1. order' = order /\ pData' = pData
    BY <1>6 DEF Count, PopNothing, Unlink, Free
  <2>2. earlier' = earlier
    BY <1>2, <2>1 DEF QueueStep
  <2>3. QED
    BY <1>1, <1>2, <1>6, <2>1, <2>2 DEF Count, PopNothing, Unlink, Free, Goto, Carried, Alone
<1>7. QED
  BY <1>3, <1>4, <1>5, <1>6, InsideControl DEF Inside

LEMMA ServedInit == Init => Served
BY DEF Init, Served

\* A step of the queue alone, and the entering and leaving of it.
LEMMA WantedKept ==
  ASSUME Served, UNCHANGED <<mThread, left, mInAddressDst, mFp, asked>>, earlier' \in Nat,
         mThread /\ Carried(Wanted) /\ mFp \subseteq Wanted => Carried(Wanted)'
  PROVE  Served'
BY DEF Served, Wanted

LEMMA CarriedOutside ==
  ASSUME UNCHANGED <<order, pData, m_Last, Arg, asked, left, earlier>>, Carried(Wanted),
         \A t \in Threads : pc'[t] = pc[t] \/ pc'[t] \notin {"append", "link"}
  PROVE  Carried(Wanted)'
BY DEF Carried, Wanted

LEMMA ServedStep ==
  ASSUME QueueInv, Control, Served, [Next]_vars
  PROVE  Served'
<1>0. earlier \in Nat
  BY DEF Served
<1>1. pc \in [Threads -> Labels] /\ Arg \in [Threads -> Data \cup {NoData}]
  BY DEF QueueInv, QueueTypeOK
<1>2. CASE UNCHANGED vars
  BY <1>2 DEF vars, queueVars, ctlVars, ownerVars, Served, Wanted, Carried
<1>3. ASSUME NEW t \in Threads, QueueStep(t) PROVE Served'
  <2>1. UNCHANGED <<mThread, left, mInAddressDst, mFp, asked>> /\ earlier \in Nat /\ earlier' \in Nat
    BY <1>3 DEF QueueStep, ownerVars, Served
  <2>2. PICK P : P = Wanted
    OBVIOUS
  <2>3. P = Wanted'
    BY <2>1, <2>2 DEF Wanted
  <2>4. Carried(P) => Carried(P)'
    BY <1>3, <2>1, CarriedInside
  <2>5. Carried(Wanted) => Carried(Wanted)'
    BY <2>2, <2>3, <2>4 DEF Carried
  <2>6. QED
    BY <2>1, <2>5, WantedKept
<1>4. ASSUME NEW a \in Asks, Start(a) PROVE Served'
  <2>1. mInAddressDst = left /\ left' = left /\ earlier' = Len(order) /\ order' = order /\ mThread'
    BY <1>4 DEF Start, Ask, Served, queueVars
  <2>2. mInAddressDst' = a.dsts \cup left /\ (mPortsDst' = a.ports \/ a.ports = {}) /\ asked' = a
    <3>1. asked' = a /\ (AskPorts(a) \/ AskAddresses(a) \/ AskAddress(a))
      BY <1>4 DEF Start, Ask
    <3>2. CASE AskAddress(a)
      BY <2>1, <3>1, <3>2 DEF AskAddress
    <3>3. CASE AskPorts(a) \/ AskAddresses(a)
      BY <2>1, <3>1, <3>3 DEF AskPorts, AskAddresses
    <3> QED BY <3>1, <3>2, <3>3
  <2>3. mFp' \subseteq Wanted'
    BY <1>4, <2>1, <2>2 DEF Start, Wanted, Passing, Any
  <2>4. \A t \in Threads : pc'[t] = "out"
    BY <1>4, CaptureAssumption DEF Start, Ask, queueVars, Control
  <2>5. earlier' \in Nat /\ \A i \in DOMAIN order' : ~(i > earlier')
    BY <2>1, OrderFacts DEF QueueInv
  <2>6. QED
    BY <2>1, <2>3, <2>4, <2>5 DEF Carried, Served
<1>5. ASSUME NEW a \in Asks, StartFails(a) PROVE Served'
  <2>1. /\ ~mThread /\ ~mThread' /\ earlier' = earlier /\ mInAddressDst = left
        /\ left' = left \cup a.dsts
    BY <1>5 DEF StartFails, Ask, Served
  <2>2. mInAddressDst' = left \cup a.dsts
    <3>1. AskPorts(a) \/ AskAddresses(a) \/ AskAddress(a)
      BY <1>5 DEF StartFails, Ask
    <3>2. CASE AskAddress(a)
      BY <2>1, <3>2 DEF AskAddress
    <3>3. CASE AskPorts(a) \/ AskAddresses(a)
      BY <2>1, <3>3 DEF AskPorts, AskAddresses
    <3> QED BY <3>1, <3>2, <3>3
  <2>3. QED
    BY <2>1, <2>2 DEF Served
<1>6. CASE GetMsg \/ \E dtor \in BOOLEAN : Stop(dtor)
  <2>1. UNCHANGED <<queueVars, mThread, left, earlier, mInAddressDst, mFp, asked>>
    BY <1>6 DEF GetMsg, Stop
  <2>2. QED
    BY <1>0, <2>1, WantedKept, CarriedOutside DEF queueVars
<1>7. CASE Poll
  <2>1. UNCHANGED <<order, pData, m_Last, Arg, mThread, left, earlier, mInAddressDst, mFp, asked>>
    BY <1>7 DEF Poll, CallGet, Call
  <2>2. pc' = [pc EXCEPT ![Owner] = "pop"]
    BY <1>7 DEF Poll, CallGet, Call, Goto
  <2>3. QED
    BY <1>0, <1>1, <2>1, <2>2, WantedKept, CarriedOutside
<1>8. CASE Polled
  <2>1. UNCHANGED <<order, pData, m_Last, Arg, mThread, left, earlier, mInAddressDst, mFp, asked>>
    BY <1>8 DEF Polled, Leave
  <2>2. pc' = [pc EXCEPT ![Owner] = "out"]
    BY <1>8 DEF Polled, Leave, Goto
  <2>3. QED
    BY <1>0, <1>1, <2>1, <2>2, WantedKept, CarriedOutside
<1>9. CASE StopJoined
  BY <1>9 DEF StopJoined, StopRest, Served
<1>10. CASE Empty
  <2>1. ~mThread /\ UNCHANGED <<mThread, left, earlier, mInAddressDst>>
    BY <1>10 DEF Empty, Control
  <2>2. QED
    BY <2>1 DEF Served
<1>11. CASE Test \/ NextNothing \/ \E x \in Data : NextPacket(x)
  <2>1. UNCHANGED <<queueVars, mThread, left, earlier, mInAddressDst, mFp, asked>>
    BY <1>11 DEF Test, NextNothing, NextPacket, ownerVars
  <2>2. QED
    BY <1>0, <2>1, WantedKept, CarriedOutside DEF queueVars
<1>12. CASE InsertPacket
  <2>1. /\ UNCHANGED <<order, pData, m_Last, mThread, left, earlier, mInAddressDst, mFp, asked>>
        /\ packet \in mFp /\ pc' = [pc EXCEPT ![Reader] = "append"]
        /\ Arg' = [Arg EXCEPT ![Reader] = packet]
    BY <1>12 DEF InsertPacket, CallInsert, Call, Goto, ownerVars, Control
  <2>2. Carried(Wanted) /\ mFp \subseteq Wanted => Carried(Wanted)'
    <3> SUFFICES ASSUME Carried(Wanted), mFp \subseteq Wanted PROVE Carried(Wanted)'
      OBVIOUS
    <3>1. Wanted' = Wanted /\ packet \in Wanted
      BY <2>1 DEF Wanted
    <3>2. QED
      BY <1>1, <2>1, <3>1 DEF Carried
  <2>3. QED
    BY <1>0, <2>1, <2>2, WantedKept
<1>13. CASE Inserted
  <2>1. UNCHANGED <<order, pData, m_Last, Arg, mThread, left, earlier, mInAddressDst, mFp, asked>>
    BY <1>13 DEF Inserted, Leave, ownerVars
  <2>2. pc' = [pc EXCEPT ![Reader] = "out"]
    BY <1>13 DEF Inserted, Leave, Goto
  <2>3. QED
    BY <1>0, <1>1, <2>1, <2>2, WantedKept, CarriedOutside
<1>14. QED
  BY <1>2, <1>3, <1>4, <1>5, <1>6, <1>7, <1>8, <1>9, <1>10, <1>11, <1>12, <1>13, TwoActors
  DEF Next, OwnerStep, ReaderStep

-----------------------------------------------------------------------------
(* The theorems.                                                           *)

\* The inductive invariant of a capture: the queue's, where the two threads
\* stand, and what a capture carries.
THEOREM CaptureInvariant == Spec => []CaptureInv
<1>1. Init => CaptureInv
  BY QueueInitInv, ControlInit, ServedInit DEF Init, CaptureInv
<1>2. CaptureInv /\ [Next]_vars => CaptureInv'
  BY CaptureStepsQueue, QueueNextInv, ControlStep, ServedStep DEF CaptureInv
<1>3. QED
  BY <1>1, <1>2, PTL DEF Spec

\* The reader and the owner together use the queue as its specification says: so
\* all that holds of the queue holds of a capture.
THEOREM CaptureUsesQueue == Spec => QueueSpec
<1>1. Init => QueueInit
  BY DEF Init
<1>2. CaptureInv /\ [Next]_vars => [QueueNext]_queueVars
  BY CaptureStepsQueue DEF CaptureInv
<1>3. QED
  BY <1>1, <1>2, CaptureInvariant, PTL DEF Spec, QueueSpec

\* Packets come out in the order they were captured, none lost or doubled,
\* although the reader inserts while the owner polls, stops and destroys.
THEOREM CaptureImplementsFifo == Spec => ImplementsFifo
BY CaptureUsesQueue, QueueImplementsFifo

\* The list the two threads share is well linked at each of their steps.
THEOREM CaptureWellLinked == Spec => []WellLinked
<1>1. QueueInv => WellLinked
  BY DEF QueueInv
<1>2. CaptureInv => QueueInv
  BY DEF CaptureInv
<1>3. QED
  BY <1>1, <1>2, CaptureInvariant, PTL

\* The reader never hands pcap a closed handle; a destroyed object leaves no
\* reader and no packet.
THEOREM CaptureReadsOpenHandle == Spec => []ReadsOpenHandle
<1>1. CaptureInv => ReadsOpenHandle
  <2> SUFFICES ASSUME CaptureInv PROVE ReadsOpenHandle
    OBVIOUS
  <2>1. QueueInv /\ Control
    BY DEF CaptureInv
  <2>2. rpc = "next" => mCap_t = "open"
    BY <2>1 DEF Control
  <2>3. ASSUME mpc = "gone" PROVE live = {} /\ rpc = "none"
    <3>1. rpc = "none" /\ order = <<>> /\ pc[Owner] = "out" /\ pc[Reader] = "out"
      BY <2>1, <2>3 DEF Control
    <3>2. Loose = {}
      BY <3>1, CaptureAssumption DEF Loose
    <3>3. QED
      BY <2>1, <3>1, <3>2 DEF QueueInv, WellLinked
  <2>4. QED
    BY <2>2, <2>3 DEF ReadsOpenHandle
<1>2. QED
  BY <1>1, CaptureInvariant, PTL

\* After any sequence of earlier sessions, failed Starts included, what a capture adds to
\* the queue, behind what an earlier session left there, is what its Start asked for and
\* what the Starts that failed since the last Stop did.
THEOREM CaptureServesItsOwn == Spec => []SessionServesItsOwn
<1>1. CaptureInv => SessionServesItsOwn
  BY DEF CaptureInv, Served, Carried, Wanted, SessionServesItsOwn, Contents
<1>2. QED
  BY <1>1, CaptureInvariant, PTL
================================================================================
