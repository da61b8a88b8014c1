-------------------------------- MODULE MCSession --------------------------------
(***************************************************************************)
(* Small instances of Session.  Hosts 2 and 3 are the clients, 4 and 5 the *)
(* server's addresses, 6 and 7 the NAT's.                                  *)
(***************************************************************************)
EXTENDS Session

TwoNatIPs == <<6, 7>>

\* Every NAT; those that do not translate, choose addresses at random, or overload
\* ports without preserving them, behind the strictest filter only (none of this
\* looks at the filter); and NATs that refresh on incoming packets.
AllConfigs ==
  {c \in [mMappingBehavior : Mappings, mFilteringBehavior : Filterings,
          mIncommingRefreshTimeout : {FALSE}, mPortPreservation : BOOLEAN,
          mPortOverloading : BOOLEAN, mIPAssignMode : {"Paired", "Random"}] :
     \/ c.mFilteringBehavior = "AddressPortDependent"
     \/ /\ c.mMappingBehavior # "NotNated" /\ c.mIPAssignMode = "Paired"
        /\ c.mPortPreservation \/ ~c.mPortOverloading}
  \cup
  [mMappingBehavior : Mappings \ {"NotNated"}, mFilteringBehavior : Filterings,
   mIncommingRefreshTimeout : {TRUE}, mPortPreservation : {TRUE},
   mPortOverloading : {FALSE}, mIPAssignMode : {"Paired"}]

OneConfig ==
  [mMappingBehavior : {"EndPointIndependent"}, mFilteringBehavior : {"AddressIndependent"},
   mIncommingRefreshTimeout : {FALSE}, mPortPreservation : {TRUE},
   mPortOverloading : {FALSE}, mIPAssignMode : {"Paired"}]
==================================================================================
