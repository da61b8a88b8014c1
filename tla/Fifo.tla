---------------------------------- MODULE Fifo ----------------------------------
(***************************************************************************)
(* What CQueue of src/Source/UtilTemplates.h promises to threads that share *)
(* one: a first-in first-out queue whose operations are atomic.            *)
(***************************************************************************)
EXTENDS Sequences

CONSTANTS Threads, Data, NoData

VARIABLES
  queue,   \* the contents, oldest first
  result   \* what each thread's last Get returned: the item, or NoData for false

vars == <<queue, result>>

Init == queue = <<>> /\ result = [t \in Threads |-> NoData]

Insert(x) == queue' = Append(queue, x) /\ UNCHANGED result

Get(t) ==
  /\ queue # <<>>
  /\ queue' = Tail(queue)
  /\ result' = [result EXCEPT ![t] = Head(queue)]

GetNothing(t) ==
  /\ queue = <<>>
  /\ result' = [result EXCEPT ![t] = NoData]
  /\ UNCHANGED queue

\* RemoveAll takes the items away one by one, under the lock.
RemoveOne == queue # <<>> /\ queue' = Tail(queue) /\ UNCHANGED result

Next ==
  \/ \E x \in Data : Insert(x)
  \/ \E t \in Threads : Get(t) \/ GetNothing(t)
  \/ RemoveOne

Spec == Init /\ [][Next]_vars
=================================================================================
