---------------------------- MODULE MCNATSimThreads ----------------------------
(***************************************************************************)
(* Small instances of NATSimThreads.  Hosts 2 and 3 are private, 4 is      *)
(* public, and 6 is the NAT's own address; the numbers are strcmp ranks.   *)
(***************************************************************************)
EXTENDS NATSimThreads

OneNatIP == <<6>>

File(M, F, Refresh, Preserve, Overload) ==
  [mMappingBehavior |-> M, mFilteringBehavior |-> F, mIncommingRefreshTimeout |-> Refresh,
   mPortPreservation |-> Preserve, mPortOverloading |-> Overload, mIPAssignMode |-> "Paired"]

\* Both searches for a port, a refreshing and a plain public thread, matching
\* filters, one that is coarser and one that is finer, and overloading.
ThreadConfigs ==
  {File("EndPointIndependent", "AddressIndependent", TRUE, TRUE, FALSE),
   File("EndPointIndependent", "AddressPortDependent", FALSE, TRUE, FALSE),
   File("AddressDependent", "AddressDependent", FALSE, FALSE, FALSE),
   File("AddressPortDependent", "AddressIndependent", TRUE, FALSE, FALSE),
   File("AddressPortDependent", "AddressPortDependent", TRUE, FALSE, TRUE)}

\* One ordinary configuration.
PlainConfigs == {File("AddressPortDependent", "AddressPortDependent", TRUE, TRUE, FALSE)}
================================================================================
