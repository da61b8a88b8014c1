---------------------------------- MODULE Queue ----------------------------------
(***************************************************************************)
(* CQueue of src/Source/UtilTemplates.h: a doubly linked list under a       *)
(* critical section.  A step is one or two assignments of the code; the     *)
(* lock alone keeps the steps of two threads apart.  Nodes are the          *)
(* addresses `new TQueue` may return, so a freed address comes back.        *)
(* m_Elements is a dword; no queue holds 2^32 items, and it is a number.    *)
(***************************************************************************)
EXTENDS Integers, Sequences

CONSTANTS
  Threads,  \* the threads that share the queue
  Data,     \* the items
  NoData,   \* no item
  Nodes,    \* heap addresses: the bound on the number of items held at once
  Null      \* NULL

ASSUME QueueAssumption == Null \notin Nodes /\ NoData \notin Data

VARIABLES
  m_First, m_Last,      \* the ends of the list
  m_Elements,           \* the number of items
  live,                 \* the addresses that are allocated
  pData, Prev, Next_,   \* the fields of every node (garbage where not live)
  lock,                 \* the threads inside m_CriticalSection
  pc,                   \* where each thread is in its operation
  op,                   \* which operation that is
  Arg,                  \* the item a thread inserts
  pQueue,               \* the local pointer of the operation
  result,               \* what each thread's last Get returned
  order                 \* auxiliary: the nodes from m_First on, as linked so far

queueVars == <<m_First, m_Last, m_Elements, live, pData, Prev, Next_, lock, pc, op, Arg,
               pQueue, result, order>>

Ops    == {"Insert", "Get", "RemoveAll"}
Labels == {"out", "append", "link", "count", "pop", "unlink", "free", "leave"}

QueueInit ==
  /\ m_First = Null /\ m_Last = Null /\ m_Elements = 0
  /\ live = {}
  /\ pData \in [Nodes -> {NoData}] /\ Prev \in [Nodes -> {Null}] /\ Next_ \in [Nodes -> {Null}]
  /\ lock = {}
  /\ pc = [t \in Threads |-> "out"]
  /\ op = [t \in Threads |-> "Get"]
  /\ Arg = [t \in Threads |-> NoData]
  /\ pQueue = [t \in Threads |-> Null]
  /\ result = [t \in Threads |-> NoData]
  /\ order = <<>>

Goto(t, l) == pc' = [pc EXCEPT ![t] = l]

-----------------------------------------------------------------------------
\* CUtilCriticalSection::Enter; no operation nests it.
Enter(t) == lock = {} /\ lock' = {t}

Call(t, o, l) ==
  /\ pc[t] = "out"
  /\ Enter(t)
  /\ op' = [op EXCEPT ![t] = o]
  /\ Goto(t, l)
  /\ UNCHANGED <<m_First, m_Last, m_Elements, live, pData, Prev, Next_, pQueue, result, order>>

CallInsert(t, x) == Call(t, "Insert", "append") /\ Arg' = [Arg EXCEPT ![t] = x]
CallGet(t)       == Call(t, "Get", "pop") /\ UNCHANGED Arg
CallRemoveAll(t) == Call(t, "RemoveAll", "pop") /\ UNCHANGED Arg

\* Insert: the new node becomes m_Last,
AppendNode(t, n) ==
  /\ pc[t] = "append"
  /\ n \in Nodes \ live
  /\ live' = live \cup {n}
  /\ pQueue' = [pQueue EXCEPT ![t] = m_Last]
  /\ m_Last' = n
  /\ pData' = [pData EXCEPT ![n] = Arg[t]]
  /\ Prev' = [Prev EXCEPT ![n] = m_Last]
  /\ Next_' = [Next_ EXCEPT ![n] = Null]
  /\ Goto(t, "link")
  /\ UNCHANGED <<m_First, m_Elements, lock, op, Arg, result, order>>

\* Mutant: the old last node is not linked to the new one.
LinkFirstOnly(t) ==
  /\ pc[t] = "link"
  /\ m_First' = IF pQueue[t] # Null THEN m_First ELSE m_Last
  /\ order' = Append(order, m_Last)
  /\ Goto(t, "count")
  /\ UNCHANGED <<m_Last, m_Elements, live, pData, Prev, Next_, lock, op, Arg, pQueue,
                 result>>

\* is linked behind the old one or becomes m_First too,
Link(t) ==
  /\ pc[t] = "link"
  /\ IF pQueue[t] # Null
     THEN Next_' = [Next_ EXCEPT ![pQueue[t]] = m_Last] /\ UNCHANGED m_First
     ELSE m_First' = m_Last /\ UNCHANGED Next_
  /\ order' = Append(order, m_Last)
  /\ Goto(t, "count")
  /\ UNCHANGED <<m_Last, m_Elements, live, pData, Prev, lock, op, Arg, pQueue, result>>

\* and is counted.
Count(t) ==
  /\ pc[t] = "count"
  /\ m_Elements' = m_Elements + 1
  /\ Goto(t, "leave")
  /\ UNCHANGED <<m_First, m_Last, live, pData, Prev, Next_, lock, op, Arg, pQueue, result, order>>

\* Get, and each turn of RemoveAll: the first node leaves the list,
Pop(t) ==
  /\ pc[t] = "pop" /\ m_First # Null
  /\ pQueue' = [pQueue EXCEPT ![t] = m_First]
  /\ m_First' = Next_[m_First]
  /\ order' = Tail(order)
  /\ Goto(t, "unlink")
  /\ UNCHANGED <<m_Last, m_Elements, live, pData, Prev, Next_, lock, op, Arg, result>>

\* (or there is none: Get returns false, RemoveAll is done)
PopNothing(t) ==
  /\ pc[t] = "pop" /\ m_First = Null
  /\ result' = IF op[t] = "Get" THEN [result EXCEPT ![t] = NoData] ELSE result
  /\ Goto(t, "leave")
  /\ UNCHANGED <<m_First, m_Last, m_Elements, live, pData, Prev, Next_, lock, op, Arg, pQueue,
                 order>>

\* Mutant: m_Last is left at the node that goes.
UnlinkFirstOnly(t) ==
  /\ pc[t] = "unlink"
  /\ IF m_First # Null THEN Prev' = [Prev EXCEPT ![m_First] = Null] ELSE UNCHANGED Prev
  /\ Goto(t, "free")
  /\ UNCHANGED <<m_First, m_Last, m_Elements, live, pData, Next_, lock, op, Arg, pQueue, result,
                 order>>

\* the other end of its link goes,
Unlink(t) ==
  /\ pc[t] = "unlink"
  /\ IF m_First # Null
     THEN Prev' = [Prev EXCEPT ![m_First] = Null] /\ UNCHANGED m_Last
     ELSE m_Last' = Null /\ UNCHANGED Prev
  /\ Goto(t, "free")
  /\ UNCHANGED <<m_First, m_Elements, live, pData, Next_, lock, op, Arg, pQueue, result, order>>

\* and it is freed; Get takes the item along.
Free(t) ==
  /\ pc[t] = "free"
  /\ live' = live \ {pQueue[t]}
  /\ m_Elements' = m_Elements - 1
  /\ result' = IF op[t] = "Get" THEN [result EXCEPT ![t] = pData[pQueue[t]]] ELSE result
  /\ Goto(t, IF op[t] = "Get" THEN "leave" ELSE "pop")
  /\ UNCHANGED <<m_First, m_Last, pData, Prev, Next_, lock, op, Arg, pQueue, order>>

Leave(t) ==
  /\ pc[t] = "leave"
  /\ lock' = lock \ {t}
  /\ Goto(t, "out")
  /\ UNCHANGED <<m_First, m_Last, m_Elements, live, pData, Prev, Next_, op, Arg, pQueue, result,
                 order>>

\* A step inside an operation.
Inside(t) ==
  \/ \E n \in Nodes : AppendNode(t, n)
  \/ Link(t) \/ Count(t)
  \/ Pop(t) \/ PopNothing(t) \/ Unlink(t) \/ Free(t)

QueueNext ==
  \E t \in Threads :
    \/ \E x \in Data : CallInsert(t, x)
    \/ CallGet(t) \/ CallRemoveAll(t)
    \/ Inside(t)
    \/ Leave(t)

QueueSpec == QueueInit /\ [][QueueNext]_queueVars

-----------------------------------------------------------------------------
(* Properties.                                                             *)

QueueTypeOK ==
  /\ m_First \in Nodes \cup {Null} /\ m_Last \in Nodes \cup {Null}
  /\ m_Elements \in Int
  /\ live \subseteq Nodes
  /\ pData \in [Nodes -> Data \cup {NoData}]
  /\ Prev \in [Nodes -> Nodes \cup {Null}] /\ Next_ \in [Nodes -> Nodes \cup {Null}]
  /\ lock \subseteq Threads
  /\ pc \in [Threads -> Labels]
  /\ op \in [Threads -> Ops]
  /\ Arg \in [Threads -> Data \cup {NoData}]
  /\ pQueue \in [Threads -> Nodes \cup {Null}]
  /\ result \in [Threads -> Data \cup {NoData}]
  /\ order \in Seq(Nodes)

\* A thread past Enter and before Leave is the only one there.
MutualExclusion ==
  /\ lock = {t \in Threads : pc[t] # "out"}
  /\ \A t, u \in lock : t = u

\* The nodes that are allocated but not in the list: the one being appended, and
\* the one being taken out.
At(l) == \E t \in Threads : pc[t] = l
Loose ==
  {m_Last : t \in {u \in Threads : pc[u] = "link"}}
    \cup {pQueue[t] : t \in {u \in Threads : pc[u] \in {"unlink", "free"}}}

\* The list is what order says, seen from both ends and counted, wherever a
\* thread stands; no node of it is freed, none is lost.
WellLinked ==
  /\ \A i, j \in DOMAIN order : order[i] = order[j] => i = j
  /\ live = {order[i] : i \in DOMAIN order} \cup Loose
  /\ \A i \in DOMAIN order : order[i] \notin Loose
  /\ m_First = (IF order = <<>> THEN Null ELSE order[1])
  /\ ~At("link") /\ ~At("unlink") =>
       m_Last = (IF order = <<>> THEN Null ELSE order[Len(order)])
  /\ \A i \in DOMAIN order :
       /\ Next_[order[i]] = (IF i = Len(order) THEN Null ELSE order[i + 1])
       /\ i > 1 => Prev[order[i]] = order[i - 1]
       /\ i = 1 /\ ~At("unlink") => Prev[order[i]] = Null
       /\ pData[order[i]] \in Data
  /\ m_Elements = Len(order) + (IF At("unlink") \/ At("free") THEN 1 ELSE 0)
                             - (IF At("count") THEN 1 ELSE 0)

\* The queue implements Fifo: an item is in when it is linked, out when m_First
\* has moved on, and a Get under way already has what it will return.
Contents == [i \in DOMAIN order |-> pData[order[i]]]

Answer(t) ==
  IF pc[t] \in {"unlink", "free"} /\ op[t] = "Get" THEN pData[pQueue[t]] ELSE result[t]

F == INSTANCE Fifo WITH queue <- Contents, result <- [t \in Threads |-> Answer(t)]

\* Every operation of the linked list, cut between any two assignments and with
\* the other threads waiting at the lock, is one operation of a FIFO queue.
ImplementsFifo == F!Spec
==================================================================================
