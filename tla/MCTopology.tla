------------------------------- MODULE MCTopology -------------------------------
(***************************************************************************)
(* Small instances of Topology: the types of the elements.  The test threads *)
(* are alike.                                                              *)
(***************************************************************************)
EXTENDS Topology, TLC

FourTypes == Simulated \cup {"eSTUNClientReal"}
AllTypes  == Simulated \cup Real

TesterSymmetry == Permutations(Testers)
==================================================================================
