-------------------------------- MODULE MCIdTbl --------------------------------
(***************************************************************************)
(* A table of up to four entries: enough for a run of three neighbours     *)
(* that Clean is to remove, and for an array that grows twice.             *)
(***************************************************************************)
EXTENDS IdTbl

MCIds == {<<1, 1, 1, 1>>, <<1, 1, 2, 0>>, <<1, 2, 0, 0>>, <<2, 0, 0, 0>>}

\* Other tables: one without items, one that is full and one that is not.
OtherTables ==
  LET item(k, t) == [id |-> k, reverse |-> CHOOSE r \in Reverses : TRUE, LastTraffic |-> t]
  IN  {[items |-> <<>>, size |-> 0],
       [items |-> <<item(<<1, 1, 2, 0>>, 1), item(<<2, 0, 0, 0>>, 0)>>, size |-> 2],
       [items |-> <<item(<<1, 1, 1, 1>>, 0), item(<<1, 2, 0, 0>>, 1), item(<<2, 0, 0, 0>>, 1)>>,
        size |-> 4]}

\* No operation reads the reply to an earlier one.
State == <<m_Tbl, m_Size, cleaning>>
================================================================================
