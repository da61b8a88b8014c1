------------------------------- MODULE MCEditor -------------------------------
(***************************************************************************)
(* A small instance of Editor: the elements the program simulates, and NATs  *)
(* whose options leave the defaults one by one and together.               *)
(***************************************************************************)
EXTENDS Editor

Symmetric ==
  [Mapping |-> "eMAddressPortDependent", Filtering |-> "eFAddressPortDependent", Timeout |-> 10,
   InboundRefresh |-> TRUE, PortPreservation |-> FALSE, PortOverloading |-> FALSE,
   AssignIPsMode |-> "eARandom"]

\* Its filtering has the number of the random assign mode.
Restricted ==
  [Mapping |-> "eMNotNated", Filtering |-> "eFAddressDependent", Timeout |-> 0,
   InboundRefresh |-> FALSE, PortPreservation |-> FALSE, PortOverloading |-> TRUE,
   AssignIPsMode |-> "eARandom"]

TwoOptions == {Symmetric, Restricted}
===============================================================================
