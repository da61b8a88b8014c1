--------------------------------- MODULE IdTbl ---------------------------------
(***************************************************************************)
(* CIdTbl of src/Source/UtilTemplates.h as CNATSimTrafficTable uses it: an *)
(* array of items ordered by Id, kept contiguous by memmove, that grows by *)
(* a fixed step.  Every operation holds the table's lock from end to end   *)
(* and is one action; only the loop of Clean is taken turn by turn, since  *)
(* what it removes depends on how the array moves under its index.         *)
(*                                                                         *)
(* FindItem appears as the relation Finds, which module FindItem shows its *)
(* loop to establish.  An item's IP and Port never change on their own and *)
(* are left out.                                                           *)
(***************************************************************************)
EXTENDS TrafficTable

Seqs == INSTANCE SequencesExt

CONSTANTS
  Ids,            \* the identifiers in use
  Reverses,       \* the reverse identifiers of their entries
  Times,          \* what the clock may read
  Others,         \* other tables that this one may be assigned: [items, size]
  IdTblSizeStep   \* the growth of the array: 50 in the code

Item == [id : Ids, reverse : Reverses, LastTraffic : Times]

ASSUME IdAssumption    == Ids \subseteq TrafficId /\ IsFiniteSet(Ids)
ASSUME StepAssumption  == IdTblSizeStep \in Nat \ {0}
ASSUME OtherAssumption ==
  \A other \in Others : /\ other.items \in Seq(Item) /\ Ordered(other.items)
                        /\ other.size \in Nat /\ Len(other.items) <= other.size

VARIABLES
  m_Tbl,     \* the m_Elements items in use
  m_Size,    \* the room there is for them
  cleaning,  \* Clean's loop: [on, rev, Idx, before], before being the map it started from
  reply      \* the last operation, its arguments and its results

vars == <<m_Tbl, m_Size, cleaning, reply>>

m_Elements == Len(m_Tbl)
Positions  == 0 .. Cardinality(Ids)

\* A table as the map its callers think of.
MapOf(items) ==
  [k \in {items[i].id : i \in DOMAIN items} |->
     LET i == CHOOSE j \in DOMAIN items : items[j].id = k
     IN  [reverse |-> items[i].reverse, LastTraffic |-> items[i].LastTraffic]]
AsTable == MapOf(m_Tbl)

Idle == cleaning.on = FALSE
NotCleaning == [on |-> FALSE, rev |-> {}, Idx |-> 0, before |-> Empty]

Init ==
  /\ m_Tbl = <<>>
  /\ m_Size = 0
  /\ cleaning = NotCleaning
  /\ reply = <<>>

-----------------------------------------------------------------------------
(* CIdTbl.                                                                 *)

\* Mutant: the array grows one item too late.
IncreaseSizeLate == IF m_Elements > m_Size THEN m_Size + IdTblSizeStep ELSE m_Size

\* The room an Insert leaves.
IncreaseSize == IF m_Elements = m_Size THEN m_Size + IdTblSizeStep ELSE m_Size

\* Mutant: the new item goes behind the one FindItem stopped at.
InsertBehind(Idx, item) == Seqs!InsertAt(m_Tbl, IF Idx < m_Elements THEN Idx + 2 ELSE Idx + 1, item)

\* The tail moves up by one, away from the position FindItem returned.
Inserted(Idx, item) == Seqs!InsertAt(m_Tbl, Idx + 1, item)

\* The tail moves down by one, onto the position of the removed item.
Removed(Idx) == Seqs!RemoveAt(m_Tbl, Idx + 1)

Find(k) ==
  /\ Idle
  /\ \E Idx \in 0 .. m_Elements, found \in BOOLEAN :
       /\ Finds(m_Tbl, k, found, Idx)
       /\ reply' = <<"FindItem", k, found, Idx>>
  /\ UNCHANGED <<m_Tbl, m_Size, cleaning>>

\* The copying GetItem; the one that returns a reference is the caller's
\* business (it throws where this one answers FALSE).
Get(Idx) ==
  /\ Idle
  /\ reply' = IF Idx < m_Elements
              THEN LET item == m_Tbl[Idx + 1]
                   IN  <<"GetItem", Idx, TRUE, item.id,
                         [reverse |-> item.reverse, LastTraffic |-> item.LastTraffic]>>
              ELSE <<"GetItem", Idx, FALSE>>
  /\ UNCHANGED <<m_Tbl, m_Size, cleaning>>

\* The GetId that answers, and both that tell the number of items.
GetId(Idx) ==
  /\ Idle
  /\ reply' = IF Idx < m_Elements THEN <<"GetId", Idx, TRUE, m_Tbl[Idx + 1].id>>
                                 ELSE <<"GetId", Idx, FALSE>>
  /\ UNCHANGED <<m_Tbl, m_Size, cleaning>>

Elements ==
  /\ Idle
  /\ reply' = <<"Elements", m_Elements>>
  /\ UNCHANGED <<m_Tbl, m_Size, cleaning>>

\* The other table's items are copied, and its room taken over.  A table made as
\* a copy is an empty one that is assigned.  (No lock is held throughout; the
\* tables that are copied, the attributes of messages, belong to one thread.)
Assign(other) ==
  /\ Idle
  /\ m_Tbl' = other.items
  /\ m_Size' = other.size
  /\ reply' = <<"operator =", MapOf(other.items)>>
  /\ UNCHANGED cleaning

Modify(Idx, item) ==
  LET hit == Idx < m_Elements /\ m_Tbl[Idx + 1].id = item.id
  IN  /\ Idle
      /\ m_Tbl' = IF hit THEN Seqs!ReplaceAt(m_Tbl, Idx + 1, item) ELSE m_Tbl
      /\ reply' = <<"Modify", Idx, item.id, item.reverse, item.LastTraffic, hit>>
      /\ UNCHANGED <<m_Size, cleaning>>

Remove(Idx) ==
  /\ Idle
  /\ m_Tbl' = IF Idx < m_Elements THEN Removed(Idx) ELSE m_Tbl
  /\ reply' = <<"Remove", Idx, Idx < m_Elements>>
  /\ UNCHANGED <<m_Size, cleaning>>

RemoveAll ==
  /\ Idle
  /\ m_Tbl' = <<>>
  /\ reply' = <<"RemoveAll", TRUE>>
  /\ UNCHANGED <<m_Size, cleaning>>

-----------------------------------------------------------------------------
(* CNATSimTrafficTable.                                                    *)

InsertNew(item) ==
  /\ Idle
  /\ \E Idx \in 0 .. m_Elements :
       /\ Finds(m_Tbl, item.id, FALSE, Idx)
       /\ m_Tbl' = Inserted(Idx, item)
  /\ m_Size' = IncreaseSize
  /\ reply' = <<"InsertTraffic", item.id, item.reverse, item.LastTraffic, TRUE>>
  /\ UNCHANGED cleaning

\* An entry that is already there only gets the new time.
InsertAgain(item) ==
  /\ Idle
  /\ \E Idx \in 0 .. m_Elements :
       /\ Finds(m_Tbl, item.id, TRUE, Idx)
       /\ m_Tbl' = [m_Tbl EXCEPT ![Idx + 1].LastTraffic = item.LastTraffic]
  /\ reply' = <<"InsertTraffic", item.id, item.reverse, item.LastTraffic, TRUE>>
  /\ UNCHANGED <<m_Size, cleaning>>

DeleteTraffic(k) ==
  /\ Idle
  /\ \E Idx \in 0 .. m_Elements :
       \/ Finds(m_Tbl, k, TRUE, Idx) /\ m_Tbl' = Removed(Idx)
       \/ Finds(m_Tbl, k, FALSE, Idx) /\ UNCHANGED m_Tbl
  /\ reply' = <<"DeleteTraffic", k, TRUE>>
  /\ UNCHANGED <<m_Size, cleaning>>

UpdateLastTrafficTime(Idx, now) ==
  /\ Idle
  /\ m_Tbl' = IF Idx < m_Elements
              THEN [m_Tbl EXCEPT ![Idx + 1].LastTraffic = now] ELSE m_Tbl
  /\ reply' = <<"UpdateLastTrafficTime", Idx, now>>
  /\ UNCHANGED <<m_Size, cleaning>>

CleanBegin(rev) ==
  /\ Idle
  /\ cleaning' = [on |-> TRUE, rev |-> rev, Idx |-> 0, before |-> AsTable]
  /\ UNCHANGED <<m_Tbl, m_Size, reply>>

CleanTurn == cleaning.on /\ cleaning.Idx < m_Elements
Matches   == m_Tbl[cleaning.Idx + 1].reverse = cleaning.rev

\* Mutant: the loop stops at the first match.
CleanRemoveOnce ==
  /\ CleanTurn /\ Matches
  /\ m_Tbl' = Removed(cleaning.Idx)
  /\ cleaning' = [cleaning EXCEPT !.Idx = m_Elements]
  /\ UNCHANGED <<m_Size, reply>>

\* The index advances even when the tail has moved down to meet it.
CleanRemove ==
  /\ CleanTurn /\ Matches
  /\ m_Tbl' = Removed(cleaning.Idx)
  /\ cleaning' = [cleaning EXCEPT !.Idx = @ + 1]
  /\ UNCHANGED <<m_Size, reply>>

CleanPass ==
  /\ CleanTurn /\ ~Matches
  /\ cleaning' = [cleaning EXCEPT !.Idx = @ + 1]
  /\ UNCHANGED <<m_Tbl, m_Size, reply>>

CleanEnd ==
  /\ cleaning.on /\ cleaning.Idx >= m_Elements
  /\ cleaning' = NotCleaning
  /\ reply' = <<"Clean", cleaning.rev, TRUE>>
  /\ UNCHANGED <<m_Tbl, m_Size>>

-----------------------------------------------------------------------------
Next ==
  \/ \E item \in Item : InsertNew(item) \/ InsertAgain(item)
  \/ \E k \in Ids : DeleteTraffic(k) \/ Find(k)
  \/ \E Idx \in Positions, now \in Times : UpdateLastTrafficTime(Idx, now)
  \/ \E Idx \in Positions : Get(Idx) \/ GetId(Idx) \/ Remove(Idx)
  \/ \E Idx \in Positions, item \in Item : Modify(Idx, item)
  \/ \E other \in Others : Assign(other)
  \/ Elements \/ RemoveAll
  \/ \E rev \in Reverses : CleanBegin(rev)
  \/ CleanRemove
  \/ CleanPass
  \/ CleanEnd

Spec == Init /\ [][Next]_vars

-----------------------------------------------------------------------------
(* Properties.                                                             *)

\* UtilTemplates.h:491: "The class holds an array of elements ordered by Id",
\* which the half-splitting search of every other operation relies on.
ArrayOrdered == Ordered(m_Tbl)

\* Every variable has its type, and the items fit the room allocated for them:
\* no memmove writes behind it.
TypeOK ==
  /\ m_Tbl \in Seq(Item)
  /\ m_Size \in Nat
  /\ m_Elements <= m_Size
  /\ DOMAIN cleaning = {"on", "rev", "Idx", "before"}
  /\ cleaning.on \in BOOLEAN
  /\ cleaning.Idx \in Nat

\* The array implements the map: each operation changes and answers what
\* TrafficMap says, and the loop of Clean removes the entries of Cleaned.
Map == INSTANCE TrafficMap
         WITH tbl <- IF cleaning.on THEN cleaning.before ELSE AsTable,
              Copies <- {MapOf(other.items) : other \in Others}

ImplementsMap == Map!Spec
================================================================================
