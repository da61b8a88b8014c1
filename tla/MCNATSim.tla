------------------------------- MODULE MCNATSim -------------------------------
(***************************************************************************)
(* A small instance of NATSim.  Hosts 2 and 3 are private, 4 and 5 public,  *)
(* and 6 and 7 are the NAT's own addresses; the numbers are strcmp ranks.  *)
(***************************************************************************)
EXTENDS NATSim

TwoNatIPs == <<6, 7>>

Files(M, F, Refresh, Preserve, Overload, Assign) ==
  [mMappingBehavior : M, mFilteringBehavior : F, mIncommingRefreshTimeout : Refresh,
   mPortPreservation : Preserve, mPortOverloading : Overload, mIPAssignMode : Assign]

\* The filter no finer than the mapping, under each policy for ports and addresses.
MirrorConfigs ==
  Files({"AddressPortDependent"}, Filterings, {TRUE}, {FALSE}, {FALSE}, {"Random"})
  \cup Files({"AddressDependent"}, {"AddressIndependent", "AddressDependent"},
             {TRUE}, BOOLEAN, {FALSE}, {"Paired", "Random"})
  \cup Files({"EndPointIndependent"}, {"AddressIndependent"},
             BOOLEAN, BOOLEAN, {FALSE}, {"Paired", "Random"})

\* The filter finer than the mapping, or no mapping at all.
FinerConfigs ==
  Files({"EndPointIndependent"}, {"AddressDependent"}, {TRUE}, {TRUE}, {FALSE}, {"Random"})
  \cup Files({"NotNated"}, {"AddressIndependent", "AddressDependent"}, {TRUE}, {FALSE},
             BOOLEAN, {"Paired"})

\* With port overloading.
OverloadConfigs ==
  Files({"EndPointIndependent"}, {"AddressIndependent", "AddressDependent"},
        {TRUE}, {FALSE}, {TRUE}, {"Random"})

\* All three.
NATConfigs == MirrorConfigs \cup FinerConfigs \cup OverloadConfigs
===============================================================================
