------------------------------ MODULE TrafficMap ------------------------------
(***************************************************************************)
(* What a translation table promises its callers: a map from identifiers   *)
(* to entries, each of whose operations is atomic and answers what is said *)
(* here.  Module IdTbl shows that CIdTbl and CNATSimTrafficTable implement *)
(* it.                                                                     *)
(***************************************************************************)
EXTENDS TrafficTable

CONSTANTS
  Ids,       \* the identifiers in use
  Reverses,  \* the reverse identifiers of their entries
  Times,     \* what the clock may read
  Copies     \* the tables this one may be made equal to

VARIABLES
  tbl,    \* identifier -> [reverse, LastTraffic]
  reply   \* the last operation, its arguments and its results

vars == <<tbl, reply>>

Positions == 0 .. Cardinality(Ids)   \* the positions a caller asks for

Init == tbl = Empty /\ reply = <<>>

Touched(k, now) == Put(tbl, k, [tbl[k] EXCEPT !.LastTraffic = now])

Insert(k, rev, now) ==
  /\ tbl' = IF k \in DOMAIN tbl THEN Touched(k, now)
            ELSE Put(tbl, k, [reverse |-> rev, LastTraffic |-> now])
  /\ reply' = <<"InsertTraffic", k, rev, now, TRUE>>

Delete(k) ==
  /\ tbl' = Without(tbl, {k})
  /\ reply' = <<"DeleteTraffic", k, TRUE>>

UpdateLastTrafficTime(Idx, now) ==
  /\ tbl' = IF Held(tbl, Idx) THEN Touched(At(tbl, Idx), now) ELSE tbl
  /\ reply' = <<"UpdateLastTrafficTime", Idx, now>>

CleanAll(rev) ==
  /\ tbl' = Clean(tbl, rev)
  /\ reply' = <<"Clean", rev, TRUE>>

Find(k) ==
  /\ reply' = <<"FindItem", k, k \in DOMAIN tbl, Position(tbl, k)>>
  /\ UNCHANGED tbl

Get(Idx) ==
  /\ reply' = IF Held(tbl, Idx) THEN <<"GetItem", Idx, TRUE, At(tbl, Idx), tbl[At(tbl, Idx)]>>
              ELSE <<"GetItem", Idx, FALSE>>
  /\ UNCHANGED tbl

GetId(Idx) ==
  /\ reply' = IF Held(tbl, Idx) THEN <<"GetId", Idx, TRUE, At(tbl, Idx)>>
              ELSE <<"GetId", Idx, FALSE>>
  /\ UNCHANGED tbl

Elements ==
  /\ reply' = <<"Elements", Cardinality(DOMAIN tbl)>>
  /\ UNCHANGED tbl

Assign(copy) ==
  /\ tbl' = copy
  /\ reply' = <<"operator =", copy>>

Modify(Idx, k, rev, now) ==
  LET hit == Held(tbl, Idx) /\ At(tbl, Idx) = k
  IN  /\ tbl' = IF hit THEN Put(tbl, k, [reverse |-> rev, LastTraffic |-> now]) ELSE tbl
      /\ reply' = <<"Modify", Idx, k, rev, now, hit>>

Remove(Idx) ==
  /\ tbl' = IF Held(tbl, Idx) THEN Without(tbl, {At(tbl, Idx)}) ELSE tbl
  /\ reply' = <<"Remove", Idx, Held(tbl, Idx)>>

RemoveAll ==
  /\ tbl' = Empty
  /\ reply' = <<"RemoveAll", TRUE>>

Next ==
  \/ \E k \in Ids, rev \in Reverses, now \in Times : Insert(k, rev, now)
  \/ \E k \in Ids : Delete(k) \/ Find(k)
  \/ \E Idx \in Positions, now \in Times : UpdateLastTrafficTime(Idx, now)
  \/ \E rev \in Reverses : CleanAll(rev)
  \/ \E Idx \in Positions : Get(Idx) \/ GetId(Idx) \/ Remove(Idx)
  \/ \E Idx \in Positions, k \in Ids, rev \in Reverses, now \in Times : Modify(Idx, k, rev, now)
  \/ \E copy \in Copies : Assign(copy)
  \/ Elements \/ RemoveAll

Spec == Init /\ [][Next]_vars
=============================================================================
