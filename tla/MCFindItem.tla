------------------------------- MODULE MCFindItem -------------------------------
(***************************************************************************)
(* Searches of every array of the identifiers in Stored, for each of them    *)
(* and for identifiers below, between and above them.                      *)
(***************************************************************************)
EXTENDS FindItem

Seqs == INSTANCE SequencesExt

MCIds == {<<1, 1, 1, 1>>, <<1, 1, 1, 2>>, <<1, 1, 1, 3>>, <<1, 1, 2, 0>>, <<1, 1, 3, 0>>,
          <<1, 2, 0, 0>>, <<1, 3, 0, 0>>, <<2, 0, 0, 0>>, <<3, 0, 0, 0>>, <<4, 0, 0, 0>>,
          <<5, 0, 0, 0>>}

Stored == {<<1, 1, 1, 2>>, <<1, 1, 2, 0>>, <<1, 2, 0, 0>>, <<2, 0, 0, 0>>, <<4, 0, 0, 0>>}

MCTables ==
  {Seqs!SetToSortSeq({[id |-> k] : k \in S}, LAMBDA a, b : Less(a.id, b.id)) : S \in SUBSET Stored}
================================================================================
