----------------------------- MODULE NATSimProofs -----------------------------
(***************************************************************************)
(* Proofs about module NATSim, for every number of hosts, addresses, ports *)
(* and configurations.                                                     *)
(***************************************************************************)
EXTENDS NATSim, FiniteSetTheorems, TLAPS

-----------------------------------------------------------------------------
(* Lemmas about the tables and the identifiers.                            *)

\* Adding an entry to a table leaves a table.
LEMMA PutType ==
  ASSUME NEW t, NEW E, IsTable(t, E), NEW k \in TrafficId, NEW e \in E
  PROVE  IsTable(Put(t, k, e), E)
BY DEF IsTable, Put

\* Removing entries from a table leaves a table.
LEMMA WithoutType ==
  ASSUME NEW t, NEW E, IsTable(t, E), NEW K
  PROVE  IsTable(Without(t, K), E)
BY DEF IsTable, Without

\* Clean only removes entries.
LEMMA CleanType ==
  ASSUME NEW t, NEW E, IsTable(t, E), NEW rev
  PROVE  IsTable(Clean(t, rev), E)
BY WithoutType DEF Clean

\* InsertTraffic leaves a table.
LEMMA InsertType ==
  ASSUME NEW t, NEW E, IsTable(t, E), NEW k \in TrafficId, NEW e \in E
  PROVE  IsTable(InsertTraffic(t, k, e), E)
BY PutType DEF InsertTraffic

\* A table without entries is a table of anything.
LEMMA EmptyType == ASSUME NEW E PROVE IsTable(Empty, E) /\ DOMAIN Empty = {}
BY DEF IsTable, Empty

\* What the constants are.
LEMMA ConstantTypes ==
  /\ PrivateIPs \subseteq Nat /\ PublicIPs \subseteq Nat /\ NatIPs \subseteq Nat
  /\ MaxPort \in Nat \ {0} /\ AnyPort \in Nat /\ Ports \subseteq Nat
  /\ ClientPorts \subseteq Ports /\ ServerPorts \subseteq Ports
  /\ Ports \subseteq Bits /\ NoIP \in Nat /\ AnyIP \in Nat
  /\ N \in Nat \ {0} /\ NATPublicIPs \in Seq(Nat)
  /\ Timeout \in Nat \ {0} /\ Configs \subseteq Config
<1>1. N \in Nat \ {0} /\ NATPublicIPs \in Seq(Nat)
  BY AddressAssumption DEF N
<1>2. NatIPs \subseteq Nat
  BY AddressAssumption DEF NatIPs
<1>3. Ports \subseteq Bits
  BY PortAssumption DEF Ports, Bits
<1>4. AnyPort \in Nat /\ Ports \subseteq Nat
  BY PortAssumption DEF AnyPort, Ports
<1>5. QED
  BY <1>1, <1>2, <1>3, <1>4, AddressAssumption, PortAssumption, ConfigAssumption DEF NoIP, AnyIP

\* The identifiers the handlers build are identifiers.
LEMMA KeyTypes ==
  ASSUME mConfig \in Config, NEW a \in Nat, NEW p \in Nat, NEW b \in Nat, NEW q \in Nat
  PROVE  OutgoingPk(a, p, b, q) \in TrafficId /\ IncommingPk(a, p, b, q) \in TrafficId
<1>1. mConfig.mMappingBehavior \in Mappings /\ mConfig.mFilteringBehavior \in Filterings
  BY DEF Config
<1>2. OutgoingPk(a, p, b, q) \in TrafficId
  BY <1>1, ConstantTypes DEF Mappings, OutgoingPk, TrafficId
<1>3. IncommingPk(a, p, b, q) \in TrafficId
  BY <1>1, ConstantTypes DEF Filterings, IncommingPk, TrafficId
<1>4. QED BY <1>2, <1>3

\* The addresses tried are the NAT's own.
LEMMA IPAtType ==
  ASSUME NEW ini \in Nat, NEW k \in Nat
  PROVE  IPAt(ini, k) \in NatIPs
<1>1. ((ini + k) % N) + 1 \in 1 .. N
  BY ConstantTypes
<1>2. QED BY <1>1 DEF IPAt, NatIPs

-----------------------------------------------------------------------------
(* Type correctness.                                                       *)

\* The type of a packet of the private side, and of the key it is found under.
LEMMA OutPacketType ==
  ASSUME TypeOK, NEW pk \in OutPackets
  PROVE  /\ pk.src \in PrivateIPs /\ pk.sport \in ClientPorts
         /\ pk.dst \in PublicIPs /\ pk.dport \in ServerPorts
         /\ pk.src \in Nat /\ pk.sport \in Nat /\ pk.dst \in Nat /\ pk.dport \in Nat
         /\ KeyOf(pk) \in TrafficId
<1>1. /\ pk.src \in PrivateIPs /\ pk.sport \in ClientPorts
      /\ pk.dst \in PublicIPs /\ pk.dport \in ServerPorts
  BY DEF OutPackets, Packet
<1>2. pk.src \in Nat /\ pk.sport \in Nat /\ pk.dst \in Nat /\ pk.dport \in Nat
  BY <1>1, ConstantTypes
<1>3. mConfig \in Config
  BY ConstantTypes DEF TypeOK
<1>4. QED
  BY <1>1, <1>2, <1>3, KeyTypes DEF KeyOf

\* Admit leaves a table of private endpoints.
LEMMA AdmitType ==
  ASSUME TypeOK, NEW inc, IsTable(inc, Target), NEW pk \in OutPackets,
         NEW ip \in NatIPs, NEW port \in Ports
  PROVE  IsTable(Admit(inc, pk, ip, port), Target)
<1>1. mConfig \in Config /\ ip \in Nat /\ port \in Nat
  BY ConstantTypes DEF TypeOK
<1> DEFINE key   == IncommingPk(pk.dst, pk.dport, ip, port)
           entry == [ip |-> pk.src, port |-> pk.sport,
                     reverse |-> OutgoingPk(pk.src, pk.sport, pk.dst, pk.dport)]
           rest  == IF mConfig.mPortOverloading THEN Without(inc, {key}) ELSE inc
<1>2. key \in TrafficId
  BY <1>1, OutPacketType, KeyTypes
<1>3. entry \in Target
  BY <1>1, OutPacketType, KeyTypes DEF Target
<1>4. IsTable(rest, Target)
  BY WithoutType
<1> HIDE DEF key, entry, rest
<1>5. IsTable(InsertTraffic(rest, key, entry), Target)
  BY <1>2, <1>3, <1>4, InsertType
<1>6. QED
  BY <1>5 DEF Admit, key, entry, rest

\* Emitting a packet between proper endpoints.
LEMMA EmitType ==
  ASSUME NEW a \in Nat, NEW p \in Nat, NEW b \in Nat, NEW q \in Nat, Emit(a, p, b, q)
  PROVE  sent' \in [from : Nat \X Nat, to : Nat \X Nat]
BY DEF Emit

\* The value of sent when nothing was emitted.
LEMMA NothingType == Nothing \in [from : Nat \X Nat, to : Nat \X Nat]
BY ConstantTypes DEF Nothing

\* A new binding preserves the type of everything but the port arrays.
LEMMA BindType ==
  ASSUME TypeOK, NEW pk \in OutPackets, NEW ip \in NatIPs, NEW port \in Ports,
         NEW out, IsTable(out, Binding), NEW inc, IsTable(inc, Target),
         Bind(pk, ip, port, out, inc)
  PROVE  /\ IsTable(mOutgoingTable', Binding)
         /\ IsTable(mIncommingTable', Target)
         /\ sent' \in [from : Nat \X Nat, to : Nat \X Nat]
         /\ mConfig' = mConfig /\ mThread' = mThread
<1>1. mConfig \in Config /\ ip \in Nat /\ port \in Nat
  BY ConstantTypes DEF TypeOK
<1>2. IncommingPk(pk.dst, pk.dport, ip, port) \in TrafficId
  BY <1>1, OutPacketType, KeyTypes
<1> DEFINE entry == [ip |-> ip, port |-> port, age |-> 0,
                     reverse |-> IncommingPk(pk.dst, pk.dport, ip, port)]
<1>3. entry \in Binding
  BY <1>2, ConstantTypes DEF Binding
<1>4. KeyOf(pk) \in TrafficId
  BY OutPacketType
<1>5. mOutgoingTable' = InsertTraffic(out, KeyOf(pk), entry)
  BY DEF Bind
<1> HIDE DEF entry
<1>6. IsTable(mOutgoingTable', Binding)
  BY <1>3, <1>4, <1>5, InsertType
<1>7. IsTable(mIncommingTable', Target)
  BY AdmitType DEF Bind
<1>8. sent' \in [from : Nat \X Nat, to : Nat \X Nat]
  BY <1>1, OutPacketType, EmitType DEF Bind
<1>9. QED
  BY <1>6, <1>7, <1>8 DEF Bind

\* Tearing a binding down preserves the types.
LEMMA ExpireType ==
  ASSUME TypeOK, NEW o \in DOMAIN mOutgoingTable, Expire(o)
  PROVE  TypeOK'
<1>1. IsTable(mOutgoingTable', Binding) /\ IsTable(mIncommingTable', Target)
  BY WithoutType, CleanType DEF Expire, TypeOK
<1>2. /\ mAvailablePorts' \in [DOMAIN mAvailablePorts -> SUBSET Bits]
      /\ DOMAIN mAvailablePorts' = DOMAIN mAvailablePorts
  BY DEF Expire, TypeOK, FreePort
<1>3. QED
  BY <1>1, <1>2, NothingType DEF Expire, TypeOK

\* Refreshing a binding leaves a table of bindings with the same keys.
LEMMA RefreshType ==
  ASSUME TypeOK, NEW o \in DOMAIN mOutgoingTable, UpdateLastTrafficTime(o)
  PROVE  /\ IsTable(mOutgoingTable', Binding)
         /\ DOMAIN mOutgoingTable' = DOMAIN mOutgoingTable
<1>0. mOutgoingTable[o] \in Binding /\ 0 \in 0 .. Timeout
  BY ConstantTypes DEF TypeOK, IsTable
<1>1. [mOutgoingTable[o] EXCEPT !.age = 0] \in Binding
  BY <1>0 DEF Binding
<1>2. o \in TrafficId /\ IsTable(mOutgoingTable, Binding)
  BY DEF TypeOK, IsTable
<1>3. IsTable(mOutgoingTable', Binding)
  BY <1>1, <1>2, PutType DEF UpdateLastTrafficTime
<1>4. QED
  BY <1>3 DEF UpdateLastTrafficTime, Put

\* Reserving ports, one or all of an address, leaves arrays of bits.
LEMMA ReserveType ==
  ASSUME TypeOK, NEW ip \in NatIPs, NEW port \in Ports, NEW Full,
         \/ mAvailablePorts' = ReserverPort(ip, port)
         \/ mAvailablePorts' = ReserveFirst(Full, ip, port)
         \/ mAvailablePorts' = Exhaust(Full)
  PROVE  /\ DOMAIN mAvailablePorts' = DOMAIN mAvailablePorts
         /\ mAvailablePorts' \in [DOMAIN mAvailablePorts' -> SUBSET Bits]
<1>1. port \in Bits
  BY ConstantTypes
<1>2. CASE mAvailablePorts' = ReserverPort(ip, port)
  BY <1>1, <1>2 DEF TypeOK, ReserverPort
<1>3. CASE mAvailablePorts' = Exhaust(Full)
  BY <1>1, <1>3 DEF TypeOK, Exhaust
<1>4. CASE mAvailablePorts' = ReserveFirst(Full, ip, port)
  BY <1>1, <1>4 DEF TypeOK, ReserveFirst, Exhaust
<1>5. QED
  BY <1>2, <1>3, <1>4

\* Each way of binding picks an address of the NAT and a port.
LEMMA BindingChoice ==
  ASSUME TypeOK, NEW pk \in OutPackets,
         BindSamePort(pk) \/ BindOverloaded(pk) \/ BindFirstAvailable(pk)
  PROVE  \E ip \in NatIPs, port \in Ports : \E out, inc, Full :
           /\ \/ mAvailablePorts' = ReserverPort(ip, port)
              \/ mAvailablePorts' = ReserveFirst(Full, ip, port)
           /\ IsTable(out, Binding) /\ IsTable(inc, Target)
           /\ KeyOf(pk) \notin DOMAIN out
           /\ Bind(pk, ip, port, out, inc)
<1> DEFINE Goal ==
      \E ip \in NatIPs, port \in Ports : \E out, inc, Full :
           /\ \/ mAvailablePorts' = ReserverPort(ip, port)
              \/ mAvailablePorts' = ReserveFirst(Full, ip, port)
           /\ IsTable(out, Binding) /\ IsTable(inc, Target)
           /\ KeyOf(pk) \notin DOMAIN out
           /\ Bind(pk, ip, port, out, inc)
<1>0. pk.sport \in Ports
  BY OutPacketType, ConstantTypes
<1>1. /\ IsTable(mOutgoingTable, Binding) /\ IsTable(mIncommingTable, Target)
      /\ KeyOf(pk) \notin DOMAIN mOutgoingTable
  BY DEF TypeOK, BindSamePort, BindOverloaded, BindFirstAvailable, Unbound
<1>2. Starts \subseteq Nat /\ SearchFrom \subseteq Nat /\ 0 .. (N - 1) \subseteq Nat
  BY ConstantTypes DEF Starts, SearchFrom
<1>3. ASSUME BindSamePort(pk) PROVE Goal
  <2>1. PICK ini \in Starts, k \in 0 .. (N - 1) :
          /\ mAvailablePorts' = ReserverPort(IPAt(ini, k), pk.sport)
          /\ Bind(pk, IPAt(ini, k), pk.sport, mOutgoingTable, mIncommingTable)
    BY <1>3 DEF BindSamePort
  <2>2. IPAt(ini, k) \in NatIPs
    BY <1>2, IPAtType
  <2>3. QED
    BY <1>0, <1>1, <2>1, <2>2
<1>4. ASSUME BindOverloaded(pk) PROVE Goal
  <2>1. PICK ini \in Starts :
          LET ip == IPAt(ini, 0)
              deletePk == IncommingPk(pk.dst, pk.dport, ip, pk.sport)
          IN  /\ mAvailablePorts' = ReserverPort(ip, pk.sport)
              /\ Bind(pk, ip, pk.sport, Without(mOutgoingTable, {deletePk}),
                      Clean(mIncommingTable, deletePk))
    BY <1>4 DEF BindOverloaded
  <2>2. IPAt(ini, 0) \in NatIPs
    BY <1>2, IPAtType
  <2> DEFINE deletePk == IncommingPk(pk.dst, pk.dport, IPAt(ini, 0), pk.sport)
  <2>3. /\ IsTable(Without(mOutgoingTable, {deletePk}), Binding)
        /\ IsTable(Clean(mIncommingTable, deletePk), Target)
        /\ KeyOf(pk) \notin DOMAIN Without(mOutgoingTable, {deletePk})
    BY <1>1, WithoutType, CleanType DEF Without
  <2>4. QED
    BY <1>0, <2>1, <2>2, <2>3
<1>5. ASSUME BindFirstAvailable(pk) PROVE Goal
  <2>1. PICK ini \in SearchFrom, k \in 0 .. (N - 1), port \in Ports :
          /\ mAvailablePorts' = ReserveFirst(Tried(ini, k), IPAt(ini, k), port)
          /\ Bind(pk, IPAt(ini, k), port, mOutgoingTable, mIncommingTable)
    BY <1>5 DEF BindFirstAvailable
  <2>2. IPAt(ini, k) \in NatIPs
    BY <1>2, IPAtType
  <2>3. QED
    BY <1>1, <2>1, <2>2
<1>6. QED
  BY <1>3, <1>4, <1>5

LEMMA InitType == Init => TypeOK
<1> SUFFICES ASSUME Init PROVE TypeOK
  OBVIOUS
<1>1. IsTable(mOutgoingTable, Binding) /\ IsTable(mIncommingTable, Target)
  BY EmptyType DEF Init
<1>2. /\ DOMAIN mAvailablePorts \subseteq NatIPs
      /\ mAvailablePorts \in [DOMAIN mAvailablePorts -> SUBSET Bits]
  BY DEF Init, Empty
<1>3. QED
  BY <1>1, <1>2, NothingType DEF Init, TypeOK

\* Starting and stopping preserve the types.
LEMMA ControlType ==
  ASSUME TypeOK
  PROVE  /\ \A c \in Configs, outcome \in [Threads -> {"none", "loop", "exited"}] :
              Start(c, outcome) => TypeOK'
         /\ Stop => TypeOK'
         /\ Tick => TypeOK'
<1>1. ASSUME NEW c \in Configs, NEW outcome \in [Threads -> {"none", "loop", "exited"}],
             Start(c, outcome)
      PROVE  TypeOK'
  <2>1. mThread' \in [Threads -> {"none", "loop", "exited"}]
    BY <1>1 DEF Start, TypeOK
  <2>2. CASE mAvailablePorts' = mAvailablePorts
    BY <1>1, <2>1, <2>2, NothingType DEF Start, TypeOK
  <2>3. CASE mAvailablePorts' = [ip \in DOMAIN mAvailablePorts \cup NatIPs |->
               IF ip \in DOMAIN mAvailablePorts THEN mAvailablePorts[ip] ELSE {}]
    <3>1. /\ DOMAIN mAvailablePorts' \subseteq NatIPs
          /\ mAvailablePorts' \in [DOMAIN mAvailablePorts' -> SUBSET Bits]
      BY <2>3 DEF TypeOK
    <3>2. QED
      BY <1>1, <2>1, <3>1, NothingType DEF Start, TypeOK
  <2>4. QED
    BY <1>1, <2>2, <2>3 DEF Start
<1>2. ASSUME Stop PROVE TypeOK'
  <2>1. IsTable(mOutgoingTable', Binding) /\ IsTable(mIncommingTable', Target)
    BY <1>2, EmptyType DEF Stop
  <2>2. /\ DOMAIN mAvailablePorts' \subseteq NatIPs
        /\ mAvailablePorts' \in [DOMAIN mAvailablePorts' -> SUBSET Bits]
    BY <1>2 DEF Stop, Empty
  <2>3. mThread' \in [Threads -> {"none", "loop", "exited"}]
    BY <1>2 DEF Stop
  <2>4. QED
    BY <1>2, <2>1, <2>2, <2>3, NothingType DEF Stop, TypeOK
<1>3. ASSUME Tick PROVE TypeOK'
  <2>1. ASSUME NEW k \in DOMAIN mOutgoingTable
        PROVE  [mOutgoingTable[k] EXCEPT !.age = IF @ < Timeout THEN @ + 1 ELSE Timeout]
                 \in Binding
    <3>1. mOutgoingTable[k] \in Binding
      BY DEF TypeOK, IsTable
    <3>2. (IF mOutgoingTable[k].age < Timeout THEN mOutgoingTable[k].age + 1 ELSE Timeout)
            \in 0 .. Timeout
      BY <3>1, ConstantTypes DEF Binding
    <3>3. QED
      BY <3>1, <3>2 DEF Binding
  <2>2. IsTable(mOutgoingTable', Binding)
    BY <1>3, <2>1 DEF Tick, IsTable, TypeOK
  <2>3. QED
    BY <1>3, <2>2, NothingType DEF Tick, TypeOK
<1>4. QED
  BY <1>1, <1>2, <1>3

\* Translating a packet of the private side preserves the types.
LEMMA OutgoingType ==
  ASSUME TypeOK, NEW pk \in OutPackets, TreatOutgoingPacket(pk)
  PROVE  TypeOK'
<1>1. CASE OutgoingExpire(pk)
  BY <1>1, ExpireType DEF OutgoingExpire
<1>2. CASE OutgoingRefresh(pk)
  <2> DEFINE e == mOutgoingTable[KeyOf(pk)]
  <2>1. KeyOf(pk) \in DOMAIN mOutgoingTable /\ UpdateLastTrafficTime(KeyOf(pk))
    BY <1>2 DEF OutgoingRefresh
  <2>2. e.ip \in NatIPs /\ e.port \in Ports
    BY <2>1 DEF TypeOK, IsTable, Binding
  <2>3. IsTable(mOutgoingTable', Binding)
    BY <2>1, RefreshType
  <2>4. IsTable(mIncommingTable', Target)
    BY <1>2, <2>2, AdmitType DEF OutgoingRefresh, TypeOK
  <2>5. sent' \in [from : Nat \X Nat, to : Nat \X Nat]
    BY <1>2, <2>2, OutPacketType, ConstantTypes, EmitType DEF OutgoingRefresh
  <2>6. QED
    BY <1>2, <2>3, <2>4, <2>5 DEF OutgoingRefresh, TypeOK
<1>3. CASE BindSamePort(pk) \/ BindOverloaded(pk) \/ BindFirstAvailable(pk)
  <2>1. PICK ip, port, out, inc, Full :
           /\ ip \in NatIPs /\ port \in Ports
           /\ \/ mAvailablePorts' = ReserverPort(ip, port)
              \/ mAvailablePorts' = ReserveFirst(Full, ip, port)
           /\ IsTable(out, Binding) /\ IsTable(inc, Target)
           /\ Bind(pk, ip, port, out, inc)
    BY <1>3, BindingChoice
  <2>2. /\ IsTable(mOutgoingTable', Binding)
        /\ IsTable(mIncommingTable', Target)
        /\ sent' \in [from : Nat \X Nat, to : Nat \X Nat]
        /\ mConfig' = mConfig /\ mThread' = mThread
    BY <2>1, BindType
  <2>3. /\ DOMAIN mAvailablePorts' = DOMAIN mAvailablePorts
        /\ mAvailablePorts' \in [DOMAIN mAvailablePorts' -> SUBSET Bits]
    BY <2>1, ReserveType
  <2>4. QED
    BY <2>2, <2>3 DEF TypeOK
<1>4. CASE OutgoingDrop(pk)
  <2>1. /\ DOMAIN mAvailablePorts' = DOMAIN mAvailablePorts
        /\ mAvailablePorts' \in [DOMAIN mAvailablePorts' -> SUBSET Bits]
    BY <1>4 DEF OutgoingDrop, Exhaust, TypeOK
  <2>2. QED
    BY <1>4, <2>1, NothingType DEF OutgoingDrop, TypeOK
<1>5. QED
  BY <1>1, <1>2, <1>3, <1>4 DEF TreatOutgoingPacket

\* Translating a packet of the public side preserves the types.
LEMMA IncommingType ==
  ASSUME TypeOK, NEW pk \in InPackets, TreatIncommingPacket(pk)
  PROVE  TypeOK'
<1>0. pk.src \in Nat /\ pk.sport \in Nat
  BY ConstantTypes DEF InPackets, Packet
<1>1. CASE IncommingExpire(pk)
  BY <1>1, ExpireType DEF IncommingExpire
<1>2. ASSUME Passes(pk), Forward(pk)
      PROVE  sent' \in [from : Nat \X Nat, to : Nat \X Nat]
  <2>1. mIncommingTable[FilterKey(pk)] \in Target
    BY <1>2 DEF Passes, TypeOK, IsTable
  <2>2. /\ mIncommingTable[FilterKey(pk)].ip \in Nat
        /\ mIncommingTable[FilterKey(pk)].port \in Nat
    BY <2>1, ConstantTypes DEF Target
  <2>3. QED
    BY <1>0, <1>2, <2>2, EmitType DEF Forward
<1>3. CASE IncommingForward(pk)
  <2>1. IsTable(mOutgoingTable', Binding)
    BY <1>3, RefreshType DEF IncommingForward, TypeOK
  <2>2. QED
    BY <1>2, <1>3, <2>1 DEF IncommingForward, TypeOK
<1>4. CASE IncommingForwardUnbound(pk)
  BY <1>2, <1>4 DEF IncommingForwardUnbound, TypeOK
<1>5. CASE IncommingDrop(pk)
  BY <1>5, NothingType DEF IncommingDrop, TypeOK
<1>6. QED
  BY <1>1, <1>3, <1>4, <1>5 DEF TreatIncommingPacket

LEMMA TypeStep == TypeOK /\ [Next]_vars => TypeOK'
<1> SUFFICES ASSUME TypeOK, [Next]_vars PROVE TypeOK'
  OBVIOUS
<1>1. CASE UNCHANGED vars
  BY <1>1 DEF vars, TypeOK
<1>2. CASE Next
  BY <1>2, ControlType, OutgoingType, IncommingType DEF Next
<1>3. QED
  BY <1>1, <1>2

\* Every variable keeps its type: in particular every binding is on an address
\* of the NAT and a real port, whichever path of TreatOutgoingPacket made it.
THEOREM TypeCorrect == Spec => []TypeOK
<1>1. QED
  BY InitType, TypeStep, PTL DEF Spec

-----------------------------------------------------------------------------
(* The inductive invariant.  PortInv: the part about ports and threads.    *)

PortInv == StoppedIsEmpty /\ BindingExclusive /\ PortsAccounted

\* The parts of the invariant that say nothing of an empty NAT.
LEMMA EmptyInv ==
  ASSUME DOMAIN mOutgoingTable = {}, DOMAIN mIncommingTable = {},
         \A ip \in DOMAIN mAvailablePorts : mAvailablePorts[ip] = {}
  PROVE  KeysFit /\ BindingExclusive /\ PortsAccounted /\ TablesMirror
BY DEF KeysFit, BindingExclusive, PortsAccounted, TablesMirror

LEMMA InitInv == Init => IInv
<1> SUFFICES ASSUME Init PROVE IInv
  OBVIOUS
<1>1. DOMAIN mOutgoingTable = {} /\ DOMAIN mIncommingTable = {} /\ DOMAIN mAvailablePorts = {}
  BY DEF Init, Empty
<1>2. QED
  BY <1>1, InitType, EmptyInv DEF IInv, StoppedIsEmpty

\* A step that keeps the configuration, the keys and the two halves of every
\* binding, and the arrays, keeps the invariant on ports and the keys' shape.
LEMMA SameBindings ==
  ASSUME IInv, mConfig' = mConfig, mThread' = mThread,
         mAvailablePorts' = mAvailablePorts,
         DOMAIN mOutgoingTable' = DOMAIN mOutgoingTable,
         mIncommingTable' = mIncommingTable \/ \E t \in Threads : mThread[t] # "none",
         \A o \in DOMAIN mOutgoingTable :
           /\ mOutgoingTable'[o].ip = mOutgoingTable[o].ip
           /\ mOutgoingTable'[o].port = mOutgoingTable[o].port
           /\ mOutgoingTable'[o].reverse = mOutgoingTable[o].reverse
  PROVE  PortInv' /\ KeysFit'
<1>1. \A o \in DOMAIN mOutgoingTable : Endpoint(o)' = Endpoint(o)
  BY DEF Endpoint
<1>2. BindingExclusive'
  BY <1>1 DEF IInv, BindingExclusive, Exclusive
<1>3. PortsAccounted'
  BY <1>1 DEF IInv, PortsAccounted, Exclusive
<1>4. StoppedIsEmpty'
  BY DEF IInv, StoppedIsEmpty
<1>5. KeysFit'
  BY DEF IInv, KeysFit, Exclusive, FilterNotFiner, OutgoingPk, IncommingPk
<1>6. QED
  BY <1>2, <1>3, <1>4, <1>5 DEF PortInv

\* Tearing a binding down frees its port and no other binding's.
LEMMA ExpirePorts ==
  ASSUME IInv, NEW o \in DOMAIN mOutgoingTable, Expire(o)
  PROVE  PortInv' /\ KeysFit'
<1> DEFINE e == mOutgoingTable[o]
<1>1. /\ mConfig' = mConfig /\ mThread' = mThread
      /\ DOMAIN mOutgoingTable' = DOMAIN mOutgoingTable \ {o}
      /\ \A k \in DOMAIN mOutgoingTable' : mOutgoingTable'[k] = mOutgoingTable[k]
  BY DEF Expire, Without
<1>2. /\ DOMAIN mAvailablePorts' = DOMAIN mAvailablePorts
      /\ \A ip \in DOMAIN mAvailablePorts :
           mAvailablePorts'[ip] = IF ip = e.ip THEN mAvailablePorts[ip] \ {e.port}
                                  ELSE mAvailablePorts[ip]
  BY DEF Expire, FreePort
<1>3. \A k \in DOMAIN mOutgoingTable' : Endpoint(k)' = Endpoint(k)
  BY <1>1 DEF Endpoint
<1>4. BindingExclusive'
  BY <1>1, <1>3 DEF IInv, BindingExclusive, Exclusive
<1>5. PortsAccounted'
  <2> SUFFICES ASSUME Exclusive PROVE PortsAccounted'
    BY <1>1 DEF PortsAccounted, Exclusive
  <2>1. ASSUME NEW k \in DOMAIN mOutgoingTable'
        PROVE  /\ mOutgoingTable'[k].ip \in DOMAIN mAvailablePorts'
               /\ mOutgoingTable'[k].port \in mAvailablePorts'[mOutgoingTable'[k].ip]
    <3>1. k # o /\ k \in DOMAIN mOutgoingTable
      BY <1>1
    <3>2. Endpoint(k) # Endpoint(o)
      BY <3>1 DEF IInv, BindingExclusive
    <3>3. /\ mOutgoingTable[k].ip \in DOMAIN mAvailablePorts
          /\ mOutgoingTable[k].port \in mAvailablePorts[mOutgoingTable[k].ip]
      BY <3>1 DEF IInv, PortsAccounted
    <3>4. QED
      BY <1>1, <1>2, <3>2, <3>3 DEF Endpoint
  <2>2. ASSUME NEW ip \in DOMAIN mAvailablePorts', NEW port \in mAvailablePorts'[ip],
               port < MaxPort
        PROVE  \E k \in DOMAIN mOutgoingTable' : Endpoint(k)' = <<ip, port>>
    <3>1. ip \in DOMAIN mAvailablePorts /\ port \in mAvailablePorts[ip]
      BY <1>2
    <3>2. PICK k \in DOMAIN mOutgoingTable : Endpoint(k) = <<ip, port>>
      BY <2>2, <3>1 DEF IInv, PortsAccounted
    <3>3. k # o
      BY <1>2, <3>2 DEF Endpoint
    <3>4. QED
      BY <1>1, <1>3, <3>2, <3>3
  <2>3. QED
    BY <2>1, <2>2 DEF PortsAccounted
<1>6. StoppedIsEmpty'
  BY <1>1, <1>2 DEF IInv, StoppedIsEmpty, Expire, Clean, Without
<1>7. KeysFit'
  BY <1>1 DEF IInv, KeysFit, Exclusive, FilterNotFiner, OutgoingPk, IncommingPk
<1>8. QED
  BY <1>4, <1>5, <1>6, <1>7 DEF PortInv

\* A port that a search returns was not in use; what the search filled up on
\* the way was.
LEMMA SearchPorts ==
  ASSUME TypeOK, NEW pk \in OutPackets,
         ~mConfig.mPortOverloading,
         BindSamePort(pk) \/ BindFirstAvailable(pk)
  PROVE  \E ip \in DOMAIN mAvailablePorts, port \in Ports :
           /\ port \notin mAvailablePorts[ip]
           /\ port \in mAvailablePorts'[ip]
           /\ DOMAIN mAvailablePorts' = DOMAIN mAvailablePorts
           /\ \A x \in DOMAIN mAvailablePorts :
                /\ mAvailablePorts[x] \subseteq mAvailablePorts'[x]
                /\ \A p \in mAvailablePorts'[x] :
                     p < MaxPort => p \in mAvailablePorts[x] \/ <<x, p>> = <<ip, port>>
           /\ Bind(pk, ip, port, mOutgoingTable, mIncommingTable)
<1> DEFINE Goal ==
     \E ip \in DOMAIN mAvailablePorts, port \in Ports :
           /\ port \notin mAvailablePorts[ip]
           /\ port \in mAvailablePorts'[ip]
           /\ DOMAIN mAvailablePorts' = DOMAIN mAvailablePorts
           /\ \A x \in DOMAIN mAvailablePorts :
                /\ mAvailablePorts[x] \subseteq mAvailablePorts'[x]
                /\ \A p \in mAvailablePorts'[x] :
                     p < MaxPort => p \in mAvailablePorts[x] \/ <<x, p>> = <<ip, port>>
           /\ Bind(pk, ip, port, mOutgoingTable, mIncommingTable)
<1>0. pk.sport \in Ports
  BY OutPacketType, ConstantTypes
<1>1. ASSUME BindSamePort(pk) PROVE Goal
  <2>1. PICK ini \in Starts, k \in 0 .. (N - 1) :
          /\ IsFree(IPAt(ini, k), pk.sport)
          /\ mAvailablePorts' = ReserverPort(IPAt(ini, k), pk.sport)
          /\ Bind(pk, IPAt(ini, k), pk.sport, mOutgoingTable, mIncommingTable)
    BY <1>1 DEF BindSamePort
  <2>2. /\ IPAt(ini, k) \in DOMAIN mAvailablePorts
        /\ pk.sport \notin mAvailablePorts[IPAt(ini, k)]
    BY <2>1 DEF IsFree
  <2>3. /\ DOMAIN mAvailablePorts' = DOMAIN mAvailablePorts
        /\ \A x \in DOMAIN mAvailablePorts :
             mAvailablePorts'[x] = IF x = IPAt(ini, k) THEN mAvailablePorts[x] \cup {pk.sport}
                                   ELSE mAvailablePorts[x]
    BY <2>1 DEF ReserverPort
  <2>4. QED
    BY <1>0, <2>1, <2>2, <2>3
<1>2. ASSUME BindFirstAvailable(pk) PROVE Goal
  <2>1. PICK ini \in SearchFrom, k \in 0 .. (N - 1), port \in Ports :
          /\ Obtains(IPAt(ini, k), port)
          /\ \A ip \in Tried(ini, k) : Exhausted(ip)
          /\ mAvailablePorts' = ReserveFirst(Tried(ini, k), IPAt(ini, k), port)
          /\ Bind(pk, IPAt(ini, k), port, mOutgoingTable, mIncommingTable)
    BY <1>2 DEF BindFirstAvailable
  <2> DEFINE ip == IPAt(ini, k)
             Full == Tried(ini, k)
  <2>2. ip \in DOMAIN mAvailablePorts /\ port \notin mAvailablePorts[ip]
    BY <2>1 DEF Obtains
  <2>3. /\ DOMAIN mAvailablePorts' = DOMAIN mAvailablePorts
        /\ \A x \in DOMAIN mAvailablePorts :
             mAvailablePorts'[x] = (IF x \in Full THEN Bits ELSE mAvailablePorts[x])
                                   \cup (IF x = ip THEN {port} ELSE {})
    BY <2>1 DEF ReserveFirst, Exhaust
  <2>4. ASSUME NEW x \in DOMAIN mAvailablePorts
        PROVE  mAvailablePorts[x] \subseteq Bits
    BY DEF TypeOK
  <2>5. ASSUME NEW x \in DOMAIN mAvailablePorts, NEW p \in mAvailablePorts'[x], p < MaxPort
        PROVE  p \in mAvailablePorts[x] \/ <<x, p>> = <<ip, port>>
    <3>1. CASE x \in Full /\ p \in Bits
      <4>1. \A q \in Bits \ mAvailablePorts[x] : q >= MaxPort
        BY <2>1, <3>1 DEF Exhausted
      <4>2. MaxPort \in Nat /\ p \in Int
        BY <3>1, ConstantTypes DEF Bits
      <4>3. QED
        BY <2>5, <3>1, <4>1, <4>2
    <3>2. QED
      BY <2>3, <2>4, <2>5, <3>1
  <2>6. QED
    BY <2>1, <2>2, <2>3, <2>4, <2>5
<1>3. QED
  BY <1>1, <1>2

\* A new binding takes a port no other binding has.
LEMMA BindPorts ==
  ASSUME IInv, NEW pk \in OutPackets, KeyOf(pk) \notin DOMAIN mOutgoingTable,
         NEW ip \in DOMAIN mAvailablePorts, NEW port \in Ports,
         port \notin mAvailablePorts[ip],
         port \in mAvailablePorts'[ip],
         DOMAIN mAvailablePorts' = DOMAIN mAvailablePorts,
         \A x \in DOMAIN mAvailablePorts :
           /\ mAvailablePorts[x] \subseteq mAvailablePorts'[x]
           /\ \A p \in mAvailablePorts'[x] :
                p < MaxPort => p \in mAvailablePorts[x] \/ <<x, p>> = <<ip, port>>,
         Bind(pk, ip, port, mOutgoingTable, mIncommingTable)
  PROVE  BindingExclusive' /\ PortsAccounted'
<1>0. PICK key : key = KeyOf(pk)
  OBVIOUS
<1>1. /\ DOMAIN mOutgoingTable' = DOMAIN mOutgoingTable \cup {key}
      /\ mOutgoingTable'[key].ip = ip /\ mOutgoingTable'[key].port = port
      /\ \A k \in DOMAIN mOutgoingTable : mOutgoingTable'[k] = mOutgoingTable[k]
      /\ mConfig' = mConfig
  BY <1>0 DEF Bind, InsertTraffic, Put
<1>2. Endpoint(key)' = <<ip, port>>
  BY <1>1 DEF Endpoint
<1>3. \A k \in DOMAIN mOutgoingTable : Endpoint(k)' = Endpoint(k)
  BY <1>1 DEF Endpoint
<1>4. SUFFICES ASSUME Exclusive PROVE BindingExclusive' /\ PortsAccounted'
  BY <1>1 DEF BindingExclusive, PortsAccounted, Exclusive
<1>5. \A k \in DOMAIN mOutgoingTable : Endpoint(k) # <<ip, port>>
  BY <1>4 DEF IInv, PortsAccounted, Endpoint
<1>6. BindingExclusive'
  BY <1>1, <1>2, <1>3, <1>4, <1>5 DEF IInv, BindingExclusive
<1>7. ASSUME NEW k \in DOMAIN mOutgoingTable'
      PROVE  /\ mOutgoingTable'[k].ip \in DOMAIN mAvailablePorts'
             /\ mOutgoingTable'[k].port \in mAvailablePorts'[mOutgoingTable'[k].ip]
  BY <1>1, <1>4 DEF IInv, PortsAccounted
<1>8. ASSUME NEW x \in DOMAIN mAvailablePorts', NEW p \in mAvailablePorts'[x], p < MaxPort
      PROVE  \E k \in DOMAIN mOutgoingTable' : Endpoint(k)' = <<x, p>>
  <2>1. CASE <<x, p>> = <<ip, port>>
    BY <1>1, <1>2, <2>1
  <2>2. CASE p \in mAvailablePorts[x]
    <3>1. PICK k \in DOMAIN mOutgoingTable : Endpoint(k) = <<x, p>>
      BY <1>4, <1>8, <2>2 DEF IInv, PortsAccounted
    <3>2. QED
      BY <1>1, <1>3, <3>1
  <2>3. QED
    BY <1>8, <2>1, <2>2
<1>9. QED
  BY <1>6, <1>7, <1>8 DEF PortsAccounted

-----------------------------------------------------------------------------
(* The inductive invariant: how the two tables mirror each other.          *)

\* With a filter no finer than the mapping the key of a flow tells everything
\* its incoming key depends on.
LEMMA KeyFacts ==
  ASSUME mConfig \in Config, FilterNotFiner,
         NEW a, NEW p, NEW b, NEW q, NEW ip, NEW port, NEW o, o = OutgoingPk(a, p, b, q)
  PROVE  /\ o[1] = a /\ o[2] = p
         /\ o = OutgoingPk(o[1], o[2], o[3], o[4])
         /\ IncommingPk(b, q, ip, port) = IncommingPk(o[3], o[4], ip, port)
         /\ IncommingPk(b, q, ip, port)[3] = ip
         /\ IncommingPk(b, q, ip, port)[4] = port
<1>1. mConfig.mMappingBehavior \in Mappings /\ mConfig.mFilteringBehavior \in Filterings
  BY DEF Config
<1>2. IncommingPk(b, q, ip, port)[3] = ip /\ IncommingPk(b, q, ip, port)[4] = port
  BY <1>1 DEF Filterings, IncommingPk
<1>3. CASE mConfig.mMappingBehavior = "AddressPortDependent"
  <2>1. o = <<a, p, b, q>>
    BY <1>3 DEF OutgoingPk
  <2>2. QED
    BY <1>2, <1>3, <2>1 DEF OutgoingPk
<1>4. CASE /\ mConfig.mMappingBehavior = "AddressDependent"
           /\ mConfig.mFilteringBehavior # "AddressPortDependent"
  <2>1. o = <<a, p, b, AnyPort>>
    BY <1>4 DEF OutgoingPk
  <2>2. IncommingPk(b, q, ip, port) = IncommingPk(b, AnyPort, ip, port)
    BY <1>1, <1>4 DEF Filterings, IncommingPk
  <2>3. QED
    BY <1>2, <1>4, <2>1, <2>2 DEF OutgoingPk
<1>5. CASE /\ mConfig.mMappingBehavior = "EndPointIndependent"
           /\ mConfig.mFilteringBehavior = "AddressIndependent"
  <2>1. o = <<a, p, AnyIP, AnyPort>>
    BY <1>5 DEF OutgoingPk
  <2>2. IncommingPk(b, q, ip, port) = IncommingPk(AnyIP, AnyPort, ip, port)
    BY <1>5 DEF IncommingPk
  <2>3. QED
    BY <1>2, <1>5, <2>1, <2>2 DEF OutgoingPk
<1>6. QED
  BY <1>3, <1>4, <1>5 DEF FilterNotFiner

\* An entry that is the only one to match is removed by Clean, and nothing else.
LEMMA CleanOne ==
  ASSUME NEW t, DOMAIN t \subseteq TrafficId, NEW rev, NEW r, Matching(t, rev) = {r}
  PROVE  Cleaned(t, rev) = {r}
<1>0. ASSUME NEW y \in DOMAIN t, Less(r, y), Less(y, r) PROVE FALSE
  <2>1. r \in TrafficId /\ y \in TrafficId
    BY DEF Matching
  <2>2. \A j \in {1, 2, 3, 4} : r[j] \in Nat /\ y[j] \in Nat
    BY <2>1 DEF TrafficId
  <2>3. QED
    BY <1>0, <2>2 DEF Less
<1>1. Run(t, rev, r) = {r}
  BY <1>0 DEF Run
<1>2. Cardinality({r}) = 1
  BY FS_Singleton
<1>3. QED
  BY <1>1, <1>2 DEF Cleaned

\* On a timeout both halves of the binding go, and no other entry does.
LEMMA ExpireMirror ==
  ASSUME IInv, NEW o \in DOMAIN mOutgoingTable, Expire(o)
  PROVE  TablesMirror'
<1>1. mConfig' = mConfig
  BY DEF Expire
<1> SUFFICES ASSUME Exclusive, FilterNotFiner PROVE TablesMirror'
  BY <1>1 DEF TablesMirror, Exclusive, FilterNotFiner
<1>2. PICK r : r = mOutgoingTable[o].reverse
  OBVIOUS
<1>3. r \in DOMAIN mIncommingTable /\ mIncommingTable[r].reverse = o
  BY <1>2 DEF IInv, TablesMirror
<1>4. Matching(mIncommingTable, o) = {r}
  BY <1>2, <1>3 DEF IInv, TablesMirror, Matching
<1>5. /\ DOMAIN mIncommingTable' = DOMAIN mIncommingTable \ {r}
      /\ \A i \in DOMAIN mIncommingTable' : mIncommingTable'[i] = mIncommingTable[i]
  <2>1. DOMAIN mIncommingTable \subseteq TrafficId
    BY DEF IInv, TypeOK, IsTable
  <2>2. QED
    BY <1>4, <2>1, CleanOne DEF Expire, Clean, Without
<1>6. /\ DOMAIN mOutgoingTable' = DOMAIN mOutgoingTable \ {o}
      /\ \A k \in DOMAIN mOutgoingTable' : mOutgoingTable'[k] = mOutgoingTable[k]
  BY DEF Expire, Without
<1>7. \A k \in DOMAIN mOutgoingTable' : Endpoint(k)' = Endpoint(k)
  BY <1>6 DEF Endpoint
<1>8. ASSUME NEW k \in DOMAIN mOutgoingTable'
      PROVE  /\ mOutgoingTable'[k].reverse \in DOMAIN mIncommingTable'
             /\ mIncommingTable'[mOutgoingTable'[k].reverse].reverse = k
  BY <1>3, <1>5, <1>6 DEF IInv, TablesMirror
<1>9. ASSUME NEW i \in DOMAIN mIncommingTable', NEW e, e = mIncommingTable'[i]
      PROVE  /\ e.reverse \in DOMAIN mOutgoingTable'
             /\ mOutgoingTable'[e.reverse].reverse = i
             /\ Endpoint(e.reverse)' = <<i[3], i[4]>>
             /\ <<e.ip, e.port>> = <<e.reverse[1], e.reverse[2]>>
  <2>1. i \in DOMAIN mIncommingTable /\ e = mIncommingTable[i]
    BY <1>5, <1>9
  <2>2. /\ e.reverse \in DOMAIN mOutgoingTable
        /\ mOutgoingTable[e.reverse].reverse = i
        /\ Endpoint(e.reverse) = <<i[3], i[4]>>
        /\ <<e.ip, e.port>> = <<e.reverse[1], e.reverse[2]>>
    BY <1>5, <2>1 DEF IInv, TablesMirror
  <2>3. e.reverse # o
    BY <1>2, <1>5, <2>2
  <2>4. QED
    BY <1>6, <1>7, <2>2, <2>3
<1>10. QED
  BY <1>8, <1>9 DEF TablesMirror, Endpoint

\* A step that keeps the incoming table and, in the outgoing one, everything
\* but ages keeps them mirrored.
LEMMA SameMirror ==
  ASSUME IInv, mConfig' = mConfig, mIncommingTable' = mIncommingTable,
         DOMAIN mOutgoingTable' = DOMAIN mOutgoingTable,
         \A o \in DOMAIN mOutgoingTable :
           /\ mOutgoingTable'[o].ip = mOutgoingTable[o].ip
           /\ mOutgoingTable'[o].port = mOutgoingTable[o].port
           /\ mOutgoingTable'[o].reverse = mOutgoingTable[o].reverse
  PROVE  TablesMirror'
BY DEF IInv, TablesMirror, Exclusive, FilterNotFiner, Endpoint

\* A refreshed flow finds its incoming entry in place.
LEMMA RefreshAdmits ==
  ASSUME IInv, Exclusive, FilterNotFiner, NEW pk \in OutPackets,
         KeyOf(pk) \in DOMAIN mOutgoingTable
  PROVE  LET e == mOutgoingTable[KeyOf(pk)]
         IN  /\ IncommingPk(pk.dst, pk.dport, e.ip, e.port) = e.reverse
             /\ Admit(mIncommingTable, pk, e.ip, e.port) = mIncommingTable
<1> DEFINE o == KeyOf(pk)
           e == mOutgoingTable[o]
<1>1. mConfig \in Config
  BY ConstantTypes DEF IInv, TypeOK
<1>2. IncommingPk(pk.dst, pk.dport, e.ip, e.port) = IncommingPk(o[3], o[4], e.ip, e.port)
  BY <1>1, KeyFacts DEF KeyOf
<1>3. IncommingPk(o[3], o[4], e.ip, e.port) = e.reverse
  BY DEF IInv, KeysFit
<1>4. e.reverse \in DOMAIN mIncommingTable
  BY DEF IInv, TablesMirror
<1>5. Admit(mIncommingTable, pk, e.ip, e.port) = mIncommingTable
  BY <1>2, <1>3, <1>4 DEF Admit, InsertTraffic, Exclusive
<1>6. QED
  BY <1>2, <1>3, <1>5

\* A new binding gets an incoming entry of its own.
LEMMA BindMirror ==
  ASSUME IInv, Exclusive, FilterNotFiner,
         NEW pk \in OutPackets, KeyOf(pk) \notin DOMAIN mOutgoingTable,
         NEW ip, NEW port, ip \in DOMAIN mAvailablePorts, port \notin mAvailablePorts[ip],
         Bind(pk, ip, port, mOutgoingTable, mIncommingTable)
  PROVE  TablesMirror'
<1>0. mConfig \in Config /\ mConfig' = mConfig
  BY ConstantTypes DEF IInv, TypeOK, Bind
<1>1. PICK o, i : o = KeyOf(pk) /\ i = IncommingPk(pk.dst, pk.dport, ip, port)
  OBVIOUS
<1>2. o[1] = pk.src /\ o[2] = pk.sport /\ i[3] = ip /\ i[4] = port
  BY <1>0, <1>1, KeyFacts DEF KeyOf
<1>3. i \notin DOMAIN mIncommingTable
  <2> SUFFICES ASSUME i \in DOMAIN mIncommingTable PROVE FALSE
    OBVIOUS
  <2>1. PICK k \in DOMAIN mOutgoingTable : Endpoint(k) = <<ip, port>>
    BY <1>2 DEF IInv, TablesMirror
  <2>2. QED
    BY <2>1 DEF IInv, PortsAccounted, Endpoint
<1>4. /\ DOMAIN mOutgoingTable' = DOMAIN mOutgoingTable \cup {o}
      /\ mOutgoingTable'[o].ip = ip /\ mOutgoingTable'[o].port = port
      /\ mOutgoingTable'[o].reverse = i
      /\ \A k \in DOMAIN mOutgoingTable : mOutgoingTable'[k] = mOutgoingTable[k]
  BY <1>1 DEF Bind, InsertTraffic, Put
<1>5. /\ DOMAIN mIncommingTable' = DOMAIN mIncommingTable \cup {i}
      /\ mIncommingTable'[i] = [ip |-> pk.src, port |-> pk.sport, reverse |-> o]
      /\ \A x \in DOMAIN mIncommingTable : mIncommingTable'[x] = mIncommingTable[x]
  BY <1>1, <1>3 DEF Bind, Admit, InsertTraffic, Put, Exclusive, KeyOf
<1>6. o \notin DOMAIN mOutgoingTable
  BY <1>1
<1>7. ASSUME NEW k \in DOMAIN mOutgoingTable'
      PROVE  /\ mOutgoingTable'[k].reverse \in DOMAIN mIncommingTable'
             /\ mIncommingTable'[mOutgoingTable'[k].reverse].reverse = k
  BY <1>4, <1>5 DEF IInv, TablesMirror
<1>8. ASSUME NEW x \in DOMAIN mIncommingTable', NEW e, e = mIncommingTable'[x]
      PROVE  /\ e.reverse \in DOMAIN mOutgoingTable'
             /\ mOutgoingTable'[e.reverse].reverse = x
             /\ Endpoint(e.reverse)' = <<x[3], x[4]>>
             /\ <<e.ip, e.port>> = <<e.reverse[1], e.reverse[2]>>
  <2>1. CASE x = i
    <3>1. e.reverse = o /\ e.ip = pk.src /\ e.port = pk.sport
      BY <1>5, <1>8, <2>1
    <3>2. QED
      BY <1>2, <1>4, <2>1, <3>1 DEF Endpoint
  <2>2. CASE x \in DOMAIN mIncommingTable
    <3>1. e = mIncommingTable[x]
      BY <1>5, <1>8, <2>2
    <3>2. /\ e.reverse \in DOMAIN mOutgoingTable
          /\ mOutgoingTable[e.reverse].reverse = x
          /\ Endpoint(e.reverse) = <<x[3], x[4]>>
          /\ <<e.ip, e.port>> = <<e.reverse[1], e.reverse[2]>>
      BY <2>2, <3>1 DEF IInv, TablesMirror
    <3>3. QED
      BY <1>4, <3>2 DEF Endpoint
  <2>3. QED
    BY <1>5, <2>1, <2>2
<1>9. QED
  BY <1>7, <1>8 DEF TablesMirror, Endpoint

\* A new binding's two keys belong together.
LEMMA BindKeys ==
  ASSUME IInv, NEW pk \in OutPackets, KeyOf(pk) \notin DOMAIN mOutgoingTable,
         NEW ip, NEW port,
         Bind(pk, ip, port, mOutgoingTable, mIncommingTable)
  PROVE  KeysFit'
<1>0. mConfig \in Config /\ mConfig' = mConfig
  BY ConstantTypes DEF IInv, TypeOK, Bind
<1> SUFFICES ASSUME Exclusive, FilterNotFiner PROVE KeysFit'
  BY <1>0 DEF KeysFit, Exclusive, FilterNotFiner
<1>1. PICK o : o = KeyOf(pk)
  OBVIOUS
<1>2. /\ o = OutgoingPk(o[1], o[2], o[3], o[4])
      /\ IncommingPk(pk.dst, pk.dport, ip, port) = IncommingPk(o[3], o[4], ip, port)
  BY <1>0, <1>1, KeyFacts DEF KeyOf
<1>3. /\ DOMAIN mOutgoingTable' = DOMAIN mOutgoingTable \cup {o}
      /\ mOutgoingTable'[o].ip = ip /\ mOutgoingTable'[o].port = port
      /\ mOutgoingTable'[o].reverse = IncommingPk(pk.dst, pk.dport, ip, port)
      /\ \A k \in DOMAIN mOutgoingTable : mOutgoingTable'[k] = mOutgoingTable[k]
  BY <1>1 DEF Bind, InsertTraffic, Put
<1>4. ASSUME NEW k \in DOMAIN mOutgoingTable'
      PROVE  LET e == mOutgoingTable'[k]
             IN  /\ k = OutgoingPk(k[1], k[2], k[3], k[4])
                 /\ e.reverse = IncommingPk(k[3], k[4], e.ip, e.port)
  BY <1>2, <1>3 DEF IInv, KeysFit
<1>5. QED
  BY <1>0, <1>4 DEF KeysFit, OutgoingPk, IncommingPk

-----------------------------------------------------------------------------
(* The invariant holds.                                                    *)

\* Starting, stopping and the clock keep the invariant.
LEMMA ControlInv ==
  ASSUME IInv
  PROVE  /\ \A c \in Configs, outcome \in [Threads -> {"none", "loop", "exited"}] :
              Start(c, outcome) => IInv'
         /\ Stop => IInv'
         /\ Tick => IInv'
<1>0. TypeOK
  BY DEF IInv
<1>1. ASSUME NEW c \in Configs, NEW outcome \in [Threads -> {"none", "loop", "exited"}],
             Start(c, outcome)
      PROVE  IInv'
  <2>0. TypeOK'
    BY <1>0, <1>1, ControlType
  <2>1. mOutgoingTable' = mOutgoingTable /\ mIncommingTable' = mIncommingTable
    BY <1>1 DEF Start
  <2>2. CASE \A t \in Threads : mThread[t] = "none"
    <3>1. /\ DOMAIN mOutgoingTable' = {} /\ DOMAIN mIncommingTable' = {}
          /\ DOMAIN mAvailablePorts = {}
      BY <2>1, <2>2 DEF IInv, StoppedIsEmpty
    <3>2. \A ip \in DOMAIN mAvailablePorts' : mAvailablePorts'[ip] = {}
      BY <1>1, <3>1 DEF Start
    <3>3. StoppedIsEmpty'
      <4> SUFFICES ASSUME \A t \in Threads : mThread'[t] = "none"
                   PROVE  DOMAIN mAvailablePorts' = {}
        BY <3>1 DEF StoppedIsEmpty
      <4>1. \A t \in Threads : outcome[t] = "none"
        BY <1>1, <2>2 DEF Start
      <4>2. mAvailablePorts' = mAvailablePorts
        BY <1>1, <4>1 DEF Start, Threads
      <4>3. QED
        BY <3>1, <4>2
    <3>4. KeysFit' /\ BindingExclusive' /\ PortsAccounted' /\ TablesMirror'
      BY <3>1, <3>2 DEF KeysFit, BindingExclusive, PortsAccounted, TablesMirror
    <3>5. QED
      BY <2>0, <3>3, <3>4 DEF IInv
  <2>3. CASE \E t \in Threads : mThread[t] # "none"
    <3>1. mConfig' = mConfig /\ mAvailablePorts' = mAvailablePorts
      BY <1>1, <2>3 DEF Start
    <3>2. \E t \in Threads : mThread'[t] # "none"
      BY <1>1, <2>3 DEF Start
    <3>3. KeysFit' /\ BindingExclusive' /\ PortsAccounted' /\ TablesMirror'
      <4>1. KeysFit'
        BY <2>1, <3>1 DEF IInv, KeysFit, Exclusive, FilterNotFiner, OutgoingPk, IncommingPk
      <4>2. BindingExclusive'
        BY <2>1, <3>1 DEF IInv, BindingExclusive, Exclusive, Endpoint
      <4>3. PortsAccounted'
        BY <2>1, <3>1 DEF IInv, PortsAccounted, Exclusive, Endpoint
      <4>4. TablesMirror'
        BY <2>1, <3>1 DEF IInv, TablesMirror, Exclusive, FilterNotFiner, Endpoint
      <4>5. QED
        BY <4>1, <4>2, <4>3, <4>4
    <3>4. QED
      BY <2>0, <3>2, <3>3 DEF IInv, StoppedIsEmpty
  <2>4. QED
    BY <2>2, <2>3
<1>2. ASSUME Stop PROVE IInv'
  <2>1. /\ DOMAIN mOutgoingTable' = {} /\ DOMAIN mIncommingTable' = {}
        /\ DOMAIN mAvailablePorts' = {}
    BY <1>2 DEF Stop, Empty
  <2>2. QED
    BY <1>0, <1>2, <2>1, ControlType
       DEF IInv, StoppedIsEmpty, KeysFit, BindingExclusive, PortsAccounted, TablesMirror
<1>3. ASSUME Tick PROVE IInv'
  <2>1. /\ DOMAIN mOutgoingTable' = DOMAIN mOutgoingTable
        /\ \A o \in DOMAIN mOutgoingTable :
             /\ mOutgoingTable'[o].ip = mOutgoingTable[o].ip
             /\ mOutgoingTable'[o].port = mOutgoingTable[o].port
             /\ mOutgoingTable'[o].reverse = mOutgoingTable[o].reverse
    <3>1. ASSUME NEW o \in DOMAIN mOutgoingTable
          PROVE  /\ mOutgoingTable'[o].ip = mOutgoingTable[o].ip
                 /\ mOutgoingTable'[o].port = mOutgoingTable[o].port
                 /\ mOutgoingTable'[o].reverse = mOutgoingTable[o].reverse
      <4>1. mOutgoingTable[o] \in Binding
        BY DEF IInv, TypeOK, IsTable
      <4>2. QED
        BY <1>3, <4>1 DEF Tick, Binding
    <3>2. QED
      BY <1>3, <3>1 DEF Tick
  <2>2. PortInv' /\ KeysFit'
    BY <1>3, <2>1, SameBindings DEF Tick
  <2>3. TablesMirror'
    BY <1>3, <2>1, SameMirror DEF Tick
  <2>4. QED
    BY <1>0, <1>3, <2>2, <2>3, ControlType DEF IInv, PortInv
<1>4. QED
  BY <1>1, <1>2, <1>3

\* Refreshing changes nothing but an age.
LEMMA RefreshKeeps ==
  ASSUME IInv, NEW o \in DOMAIN mOutgoingTable, UpdateLastTrafficTime(o)
  PROVE  /\ DOMAIN mOutgoingTable' = DOMAIN mOutgoingTable
         /\ \A k \in DOMAIN mOutgoingTable :
              /\ mOutgoingTable'[k].ip = mOutgoingTable[k].ip
              /\ mOutgoingTable'[k].port = mOutgoingTable[k].port
              /\ mOutgoingTable'[k].reverse = mOutgoingTable[k].reverse
         /\ mOutgoingTable'[o].age = 0
<1>1. mOutgoingTable[o] \in Binding
  BY DEF IInv, TypeOK, IsTable
<1>2. /\ DOMAIN mOutgoingTable' = DOMAIN mOutgoingTable
      /\ mOutgoingTable'[o] = [mOutgoingTable[o] EXCEPT !.age = 0]
      /\ \A k \in DOMAIN mOutgoingTable : k # o => mOutgoingTable'[k] = mOutgoingTable[k]
  BY DEF UpdateLastTrafficTime, Put
<1>3. /\ mOutgoingTable'[o].ip = mOutgoingTable[o].ip
      /\ mOutgoingTable'[o].port = mOutgoingTable[o].port
      /\ mOutgoingTable'[o].reverse = mOutgoingTable[o].reverse
      /\ mOutgoingTable'[o].age = 0
  BY <1>1, <1>2 DEF Binding
<1>4. QED
  BY <1>2, <1>3

\* A packet of the private side keeps the invariant.
LEMMA OutgoingInv ==
  ASSUME IInv, NEW pk \in OutPackets, TreatOutgoingPacket(pk)
  PROVE  IInv'
<1>0. TypeOK /\ TypeOK'
  BY OutgoingType DEF IInv
<1>1. CASE OutgoingExpire(pk)
  BY <1>0, <1>1, ExpirePorts, ExpireMirror DEF OutgoingExpire, IInv, PortInv
<1>2. CASE OutgoingRefresh(pk)
  <2> DEFINE o == KeyOf(pk)
             e == mOutgoingTable[o]
  <2>1. /\ o \in DOMAIN mOutgoingTable /\ UpdateLastTrafficTime(o)
        /\ mThread["private"] # "none"
        /\ mConfig' = mConfig /\ mThread' = mThread /\ mAvailablePorts' = mAvailablePorts
        /\ mIncommingTable' = Admit(mIncommingTable, pk, e.ip, e.port)
    BY <1>2 DEF OutgoingRefresh
  <2>2. /\ DOMAIN mOutgoingTable' = DOMAIN mOutgoingTable
        /\ \A k \in DOMAIN mOutgoingTable :
              /\ mOutgoingTable'[k].ip = mOutgoingTable[k].ip
              /\ mOutgoingTable'[k].port = mOutgoingTable[k].port
              /\ mOutgoingTable'[k].reverse = mOutgoingTable[k].reverse
    BY <2>1, RefreshKeeps
  <2>3. PortInv' /\ KeysFit'
    BY <2>1, <2>2, SameBindings DEF Threads
  <2>4. TablesMirror'
    <3>1. CASE Exclusive /\ FilterNotFiner
      BY <2>1, <2>2, <3>1, RefreshAdmits, SameMirror
    <3>2. CASE ~(Exclusive /\ FilterNotFiner)
      BY <2>1, <3>2 DEF TablesMirror, Exclusive, FilterNotFiner
    <3>3. QED
      BY <3>1, <3>2
  <2>5. QED
    BY <1>0, <2>3, <2>4 DEF IInv, PortInv
<1>3. CASE BindSamePort(pk) \/ BindFirstAvailable(pk) \/ BindOverloaded(pk)
  <2>1. /\ mThread["private"] # "none" /\ KeyOf(pk) \notin DOMAIN mOutgoingTable
        /\ mConfig' = mConfig /\ mThread' = mThread
    BY <1>3 DEF BindSamePort, BindFirstAvailable, BindOverloaded, Unbound, Bind
  <2>2. StoppedIsEmpty'
    BY <2>1 DEF StoppedIsEmpty, Threads
  <2>3. CASE Exclusive
    <3>1. BindSamePort(pk) \/ BindFirstAvailable(pk)
      BY <1>3, <2>3 DEF BindOverloaded, Exclusive
    <3>2. PICK ip \in DOMAIN mAvailablePorts, port \in Ports :
           /\ port \notin mAvailablePorts[ip]
           /\ port \in mAvailablePorts'[ip]
           /\ DOMAIN mAvailablePorts' = DOMAIN mAvailablePorts
           /\ \A x \in DOMAIN mAvailablePorts :
                /\ mAvailablePorts[x] \subseteq mAvailablePorts'[x]
                /\ \A p \in mAvailablePorts'[x] :
                     p < MaxPort => p \in mAvailablePorts[x] \/ <<x, p>> = <<ip, port>>
           /\ Bind(pk, ip, port, mOutgoingTable, mIncommingTable)
      BY <1>0, <2>3, <3>1, SearchPorts DEF Exclusive
    <3>3. BindingExclusive' /\ PortsAccounted'
      BY <2>1, <3>2, BindPorts
    <3>4. KeysFit'
      BY <2>1, <3>2, BindKeys
    <3>5. TablesMirror'
      <4>1. CASE FilterNotFiner
        BY <2>1, <2>3, <3>2, <4>1, BindMirror
      <4>2. CASE ~FilterNotFiner
        BY <2>1, <4>2 DEF TablesMirror, FilterNotFiner
      <4>3. QED
        BY <4>1, <4>2
    <3>6. QED
      BY <1>0, <2>2, <3>3, <3>4, <3>5 DEF IInv
  <2>4. CASE ~Exclusive
    <3>1. KeysFit' /\ BindingExclusive' /\ PortsAccounted' /\ TablesMirror'
      BY <2>1, <2>4 DEF KeysFit, BindingExclusive, PortsAccounted, TablesMirror, Exclusive
    <3>2. QED
      BY <1>0, <2>2, <3>1 DEF IInv
  <2>5. QED
    BY <2>3, <2>4
<1>4. CASE OutgoingDrop(pk)
  <2>1. /\ mConfig' = mConfig /\ mThread' = mThread /\ mThread["private"] # "none"
        /\ mOutgoingTable' = mOutgoingTable /\ mIncommingTable' = mIncommingTable
        /\ mAvailablePorts' = Exhaust(NatIPs)
        /\ \A ip \in NatIPs : Exhausted(ip)
    BY <1>4 DEF OutgoingDrop, Unbound
  <2>2. StoppedIsEmpty'
    BY <2>1 DEF StoppedIsEmpty, Threads
  <2>3. KeysFit' /\ BindingExclusive' /\ TablesMirror'
    <3>1. KeysFit'
      BY <2>1 DEF IInv, KeysFit, Exclusive, FilterNotFiner, OutgoingPk, IncommingPk
    <3>2. BindingExclusive'
      BY <2>1 DEF IInv, BindingExclusive, Exclusive, Endpoint
    <3>3. TablesMirror'
      BY <2>1 DEF IInv, TablesMirror, Exclusive, FilterNotFiner, Endpoint
    <3>4. QED
      BY <3>1, <3>2, <3>3
  <2>4. PortsAccounted'
    <3> SUFFICES ASSUME Exclusive PROVE PortsAccounted'
      BY <2>1 DEF PortsAccounted, Exclusive
    <3>1. /\ DOMAIN mAvailablePorts' = DOMAIN mAvailablePorts
          /\ \A ip \in DOMAIN mAvailablePorts : mAvailablePorts'[ip] = Bits
      BY <1>0, <2>1 DEF Exhaust, TypeOK
    <3>2. \A o \in DOMAIN mOutgoingTable : mOutgoingTable[o].port \in Bits
      BY <1>0, ConstantTypes DEF TypeOK, IsTable, Binding
    <3>3. ASSUME NEW ip \in DOMAIN mAvailablePorts, NEW port \in Bits, port < MaxPort
          PROVE  port \in mAvailablePorts[ip]
      <4>1. \A q \in Bits \ mAvailablePorts[ip] : q >= MaxPort
        BY <1>0, <2>1 DEF Exhausted, TypeOK
      <4>2. MaxPort \in Nat /\ port \in Int
        BY ConstantTypes DEF Bits
      <4>3. QED
        BY <3>3, <4>1, <4>2
    <3>4. ASSUME NEW o \in DOMAIN mOutgoingTable'
          PROVE  /\ mOutgoingTable'[o].ip \in DOMAIN mAvailablePorts'
                 /\ mOutgoingTable'[o].port \in mAvailablePorts'[mOutgoingTable'[o].ip]
      BY <2>1, <3>1, <3>2 DEF IInv, PortsAccounted
    <3>5. ASSUME NEW ip \in DOMAIN mAvailablePorts', NEW port \in mAvailablePorts'[ip],
                 port < MaxPort
          PROVE  \E o \in DOMAIN mOutgoingTable' : Endpoint(o)' = <<ip, port>>
      <4>1. ip \in DOMAIN mAvailablePorts /\ port \in mAvailablePorts[ip]
        BY <3>1, <3>3, <3>5
      <4>2. PICK o \in DOMAIN mOutgoingTable : Endpoint(o) = <<ip, port>>
        BY <3>5, <4>1 DEF IInv, PortsAccounted
      <4>3. QED
        BY <2>1, <4>2 DEF Endpoint
    <3>6. QED
      BY <3>4, <3>5 DEF PortsAccounted
  <2>5. QED
    BY <1>0, <2>2, <2>3, <2>4 DEF IInv
<1>5. QED
  BY <1>1, <1>2, <1>3, <1>4 DEF TreatOutgoingPacket

\* A packet of the public side keeps the invariant.
LEMMA IncommingInv ==
  ASSUME IInv, NEW pk \in InPackets, TreatIncommingPacket(pk)
  PROVE  IInv'
<1>0. TypeOK /\ TypeOK'
  BY IncommingType DEF IInv
<1>1. CASE IncommingExpire(pk)
  BY <1>0, <1>1, ExpirePorts, ExpireMirror DEF IncommingExpire, IInv, PortInv
<1>2. ASSUME mConfig' = mConfig, mThread' = mThread, mIncommingTable' = mIncommingTable,
             mAvailablePorts' = mAvailablePorts,
             \/ mOutgoingTable' = mOutgoingTable
             \/ /\ BindingKey(pk) \in DOMAIN mOutgoingTable
                /\ UpdateLastTrafficTime(BindingKey(pk))
      PROVE  IInv'
  <2>1. /\ DOMAIN mOutgoingTable' = DOMAIN mOutgoingTable
        /\ \A k \in DOMAIN mOutgoingTable :
              /\ mOutgoingTable'[k].ip = mOutgoingTable[k].ip
              /\ mOutgoingTable'[k].port = mOutgoingTable[k].port
              /\ mOutgoingTable'[k].reverse = mOutgoingTable[k].reverse
    BY <1>2, RefreshKeeps
  <2>2. PortInv' /\ KeysFit'
    BY <1>2, <2>1, SameBindings
  <2>3. TablesMirror'
    BY <1>2, <2>1, SameMirror
  <2>4. QED
    BY <1>0, <2>2, <2>3 DEF IInv, PortInv
<1>3. CASE IncommingForward(pk)
  BY <1>2, <1>3 DEF IncommingForward
<1>4. CASE IncommingForwardUnbound(pk)
  BY <1>2, <1>4 DEF IncommingForwardUnbound
<1>5. CASE IncommingDrop(pk)
  BY <1>2, <1>5 DEF IncommingDrop
<1>6. QED
  BY <1>1, <1>3, <1>4, <1>5 DEF TreatIncommingPacket

LEMMA InvStep == IInv /\ [Next]_vars => IInv'
<1> SUFFICES ASSUME IInv, [Next]_vars PROVE IInv'
  OBVIOUS
<1>1. CASE UNCHANGED vars
  <2>1. TypeOK' /\ StoppedIsEmpty'
    BY <1>1 DEF vars, IInv, TypeOK, StoppedIsEmpty
  <2>2. KeysFit'
    BY <1>1 DEF vars, IInv, KeysFit, Exclusive, FilterNotFiner, OutgoingPk, IncommingPk
  <2>3. BindingExclusive' /\ PortsAccounted' /\ TablesMirror'
    BY <1>1 DEF vars, IInv, BindingExclusive, PortsAccounted, TablesMirror,
                Exclusive, FilterNotFiner, Endpoint
  <2>4. QED
    BY <2>1, <2>2, <2>3 DEF IInv
<1>2. CASE Next
  BY <1>2, ControlInv, OutgoingInv, IncommingInv DEF Next
<1>3. QED
  BY <1>1, <1>2

\* The invariant that the theorems below are parts of.
THEOREM InductiveInvariant == Spec => []IInv
<1>1. QED
  BY InitInv, InvStep, PTL DEF Spec

\* For every set of hosts, addresses and ports: without port overloading no two
\* flows ever share a public endpoint (CNATSim::TreatOutgoingPacket).
THEOREM ExclusiveBindings == Spec => []BindingExclusive
<1>1. IInv => BindingExclusive
  BY DEF IInv
<1>2. QED
  BY <1>1, InductiveInvariant, PTL

\* The port arrays and the outgoing table never drift apart: no leak below
\* MaxPort, no binding on a port that counts as free.
THEOREM AccountedPorts == Spec => []PortsAccounted
<1>1. IInv => PortsAccounted
  BY DEF IInv
<1>2. QED
  BY <1>1, InductiveInvariant, PTL

\* With a filter no finer than the mapping, timeouts leave no incoming entry
\* behind, in spite of the entries that the loop of Clean steps over.
THEOREM MirroredTables == Spec => []TablesMirror
<1>1. IInv => TablesMirror
  BY DEF IInv
<1>2. QED
  BY <1>1, InductiveInvariant, PTL

-----------------------------------------------------------------------------
(* The two action properties.                                              *)

\* What a packet that was just sent leaves behind.
Left(pk) ==
  LET filter == IncommingPk(pk.dst, pk.dport, sent.from[1], sent.from[2])
  IN  /\ KeyOf(pk) \in DOMAIN mOutgoingTable
      /\ mOutgoingTable[KeyOf(pk)].age < Timeout
      /\ Endpoint(KeyOf(pk)) = <<sent.from[1], sent.from[2]>>
      /\ filter \in DOMAIN mIncommingTable
      /\ mConfig.mPortOverloading =>
           <<mIncommingTable[filter].ip, mIncommingTable[filter].port>> = <<pk.src, pk.sport>>

\* What a sent packet leaves behind is enough for an answer to reach its
\* sender: without overloading no two flows share an endpoint and the entry at
\* the filter's key mirrors a binding of it, so it is the packet's own.
LEMMA AnswerFound ==
  IInv /\ (mConfig.mPortOverloading \/ FilterNotFiner) =>
    \A pk \in OutPackets : Left(pk) => AnswerReaches(pk)
<1> SUFFICES ASSUME IInv, mConfig.mPortOverloading \/ FilterNotFiner,
                    NEW pk \in OutPackets, Left(pk)
             PROVE  AnswerReaches(pk)
  OBVIOUS
<1> DEFINE answer == [src |-> pk.dst, sport |-> pk.dport,
                      dst |-> sent.from[1], dport |-> sent.from[2]]
<1>1. PICK f : f = IncommingPk(pk.dst, pk.dport, sent.from[1], sent.from[2])
  OBVIOUS
<1>2. FilterKey(answer) = f /\ f \in DOMAIN mIncommingTable
  BY <1>1 DEF FilterKey, Left
<1>3. PICK e : e = mIncommingTable[f]
  OBVIOUS
<1>4. <<e.ip, e.port>> = <<pk.src, pk.sport>>
  <2>1. CASE mConfig.mPortOverloading
    BY <1>1, <1>3, <2>1 DEF Left
  <2>2. CASE ~mConfig.mPortOverloading
    <3>1. Exclusive /\ FilterNotFiner /\ mConfig \in Config
      BY <2>2, ConstantTypes DEF Exclusive, IInv, TypeOK
    <3>2. /\ e.reverse \in DOMAIN mOutgoingTable
          /\ Endpoint(e.reverse) = <<f[3], f[4]>>
          /\ <<e.ip, e.port>> = <<e.reverse[1], e.reverse[2]>>
      BY <1>2, <1>3, <3>1 DEF IInv, TablesMirror
    <3>3. PICK o : o = KeyOf(pk)
      OBVIOUS
    <3>4. o[1] = pk.src /\ o[2] = pk.sport /\ f[3] = sent.from[1] /\ f[4] = sent.from[2]
      BY <1>1, <3>1, <3>3, KeyFacts DEF KeyOf
    <3>5. e.reverse = o
      BY <3>1, <3>2, <3>3, <3>4 DEF Left, IInv, BindingExclusive
    <3>6. QED
      BY <3>2, <3>4, <3>5
  <2>3. QED
    BY <2>1, <2>2
<1>5. BindingKey(answer) = KeyOf(pk)
  <2>1. BindingKey(answer) = OutgoingPk(e.ip, e.port, pk.dst, pk.dport)
    BY <1>2, <1>3 DEF BindingKey
  <2>2. QED
    BY <1>4, <2>1 DEF KeyOf
<1>6. QED
  BY <1>2, <1>3, <1>4, <1>5 DEF AnswerReaches, Left

\* What Admit does to the table.
LEMMA AdmitFacts ==
  ASSUME NEW inc, NEW pk, NEW ip, NEW port, NEW f, f = IncommingPk(pk.dst, pk.dport, ip, port)
  PROVE  /\ f \in DOMAIN Admit(inc, pk, ip, port)
         /\ mConfig.mPortOverloading =>
              /\ Admit(inc, pk, ip, port)[f].ip = pk.src
              /\ Admit(inc, pk, ip, port)[f].port = pk.sport
<1>1. CASE mConfig.mPortOverloading
  BY <1>1 DEF Admit, InsertTraffic, Put, Without
<1>2. CASE ~mConfig.mPortOverloading
  BY <1>2 DEF Admit, InsertTraffic, Put
<1>3. QED
  BY <1>1, <1>2

\* A handler run leaves the configuration alone.
LEMMA OutgoingConfig ==
  ASSUME TypeOK, NEW pk \in OutPackets, TreatOutgoingPacket(pk)
  PROVE  mConfig' = mConfig
BY BindingChoice DEF TreatOutgoingPacket, OutgoingExpire, Expire, OutgoingRefresh, Bind,
   OutgoingDrop

\* The entries of a packet that is sent are in place right after the step.
LEMMA SentLeft ==
  ASSUME TypeOK, NEW pk \in OutPackets, TreatOutgoingPacket(pk), sent' # Nothing
  PROVE  Left(pk)'
<1>1. PICK key : key = KeyOf(pk)
  OBVIOUS
<1>2. ASSUME NEW ip, NEW port, NEW inc, NEW out, NEW f,
             f = IncommingPk(pk.dst, pk.dport, ip, port),
             mConfig' = mConfig, Emit(ip, port, pk.dst, pk.dport),
             mIncommingTable' = Admit(inc, pk, ip, port),
             key \in DOMAIN mOutgoingTable',
             mOutgoingTable'[key].age = 0,
             mOutgoingTable'[key].ip = ip, mOutgoingTable'[key].port = port
      PROVE  Left(pk)'
  <2>1. sent'.from[1] = ip /\ sent'.from[2] = port
    BY <1>2 DEF Emit
  <2>2. /\ f \in DOMAIN mIncommingTable'
        /\ mConfig.mPortOverloading =>
             mIncommingTable'[f].ip = pk.src /\ mIncommingTable'[f].port = pk.sport
    BY <1>2, AdmitFacts
  <2>3. KeyOf(pk)' = key /\ IncommingPk(pk.dst, pk.dport, sent.from[1], sent.from[2])' = f
    BY <1>1, <1>2, <2>1 DEF KeyOf, OutgoingPk, IncommingPk
  <2>4. 0 < Timeout
    BY ConstantTypes
  <2>5. Endpoint(KeyOf(pk))' = <<ip, port>>
    BY <1>2, <2>3 DEF Endpoint
  <2>6. QED
    BY <1>2, <2>1, <2>2, <2>3, <2>4, <2>5 DEF Left
<1>3. CASE OutgoingExpire(pk) \/ OutgoingDrop(pk)
  BY <1>3 DEF OutgoingExpire, OutgoingDrop, Expire
<1>4. CASE OutgoingRefresh(pk)
  <2>1. PICK e : e = mOutgoingTable[key]
    OBVIOUS
  <2>2. /\ key \in DOMAIN mOutgoingTable'
        /\ mOutgoingTable'[key] = [e EXCEPT !.age = 0]
    BY <1>1, <1>4, <2>1 DEF OutgoingRefresh, UpdateLastTrafficTime, Put
  <2>3. e \in Binding
    BY <1>1, <1>4, <2>1 DEF OutgoingRefresh, TypeOK, IsTable
  <2>4. /\ mOutgoingTable'[key].age = 0
        /\ mOutgoingTable'[key].ip = e.ip /\ mOutgoingTable'[key].port = e.port
    BY <2>2, <2>3 DEF Binding
  <2>5. /\ mConfig' = mConfig /\ Emit(e.ip, e.port, pk.dst, pk.dport)
        /\ mIncommingTable' = Admit(mIncommingTable, pk, e.ip, e.port)
    BY <1>1, <1>4, <2>1 DEF OutgoingRefresh
  <2>6. QED
    BY <1>2, <2>2, <2>4, <2>5
<1>5. CASE BindSamePort(pk) \/ BindOverloaded(pk) \/ BindFirstAvailable(pk)
  <2>1. PICK ip, port, out, inc :
          KeyOf(pk) \notin DOMAIN out /\ Bind(pk, ip, port, out, inc)
    BY <1>5, BindingChoice
  <2>2. /\ key \in DOMAIN mOutgoingTable' /\ mOutgoingTable'[key].age = 0
        /\ mOutgoingTable'[key].ip = ip /\ mOutgoingTable'[key].port = port
    BY <1>1, <2>1 DEF Bind, InsertTraffic, Put
  <2>3. /\ mConfig' = mConfig /\ Emit(ip, port, pk.dst, pk.dport)
        /\ mIncommingTable' = Admit(inc, pk, ip, port)
    BY <2>1 DEF Bind
  <2>4. QED
    BY <1>2, <2>2, <2>3
<1>6. QED
  BY <1>3, <1>4, <1>5 DEF TreatOutgoingPacket

\* With port overloading, or a filter no finer than the mapping: an answer to a
\* packet that was just translated reaches the host that sent it, whoever used
\* the port before (CNATSim::TreatOutgoingPacket and TreatIncommingPacket).
THEOREM RepliesReachSenders == Spec => ReplyReachesSender
<1> DEFINE Reachable == mConfig.mPortOverloading \/ FilterNotFiner
           Reached == \A pk \in OutPackets : Left(pk) => AnswerReaches(pk)
           Step == Reachable => \A pk \in OutPackets :
                     TreatOutgoingPacket(pk) /\ sent' # Nothing => AnswerReaches(pk)'
<1>1. (IInv /\ Reachable => Reached)'
  BY AnswerFound, PTL
<1>2. IInv /\ IInv' /\ [Next]_vars => [Step]_vars
  <2> SUFFICES ASSUME IInv, IInv', Reachable,
                      NEW pk \in OutPackets, TreatOutgoingPacket(pk), sent' # Nothing
               PROVE  AnswerReaches(pk)'
    OBVIOUS
  <2>1. mConfig' = mConfig
    BY OutgoingConfig DEF IInv
  <2>2. Reachable'
    BY <2>1 DEF FilterNotFiner
  <2>3. Left(pk)'
    BY SentLeft DEF IInv
  <2>4. QED
    BY <1>1, <2>2, <2>3
<1>3. QED
  BY <1>2, InductiveInvariant, PTL DEF Spec, ReplyReachesSender

\* When filter and mapping match, an incoming entry and the packet's source
\* give the key of the binding the entry belongs to.
LEMMA MatchingKeys ==
  ASSUME mConfig \in Config, FilterMatches, NEW o, NEW a, NEW p, NEW b, NEW q, NEW ip, NEW port,
         o = OutgoingPk(o[1], o[2], o[3], o[4]),
         IncommingPk(a, p, ip, port) = IncommingPk(o[3], o[4], b, q)
  PROVE  OutgoingPk(o[1], o[2], a, p) = o
<1>1. CASE /\ mConfig.mMappingBehavior = "AddressPortDependent"
           /\ mConfig.mFilteringBehavior = "AddressPortDependent"
  <2>1. <<a, p, ip, port>> = <<o[3], o[4], b, q>>
    BY <1>1 DEF IncommingPk
  <2>2. a = o[3] /\ p = o[4]
    BY <2>1
  <2>3. QED
    BY <2>2
<1>2. CASE /\ mConfig.mMappingBehavior = "AddressDependent"
           /\ mConfig.mFilteringBehavior = "AddressDependent"
  <2>1. <<a, AnyPort, ip, port>> = <<o[3], AnyPort, b, q>>
    BY <1>2 DEF IncommingPk
  <2>2. a = o[3]
    BY <2>1
  <2>3. QED
    BY <1>2, <2>2 DEF OutgoingPk
<1>3. CASE mConfig.mMappingBehavior = "EndPointIndependent"
  BY <1>3 DEF OutgoingPk
<1>4. QED
  BY <1>1, <1>2, <1>3 DEF FilterMatches

\* When filter and mapping match: what comes in comes over a binding that is
\* alive, to the binding's owner (CNATSim::TreatIncommingPacket).
THEOREM InOnlyOverLiveBindings == Spec => OnlyOverLiveBinding
<1>1. IInv /\ [Next]_vars =>
        [Exclusive /\ FilterMatches =>
           \A pk \in InPackets :
             TreatIncommingPacket(pk) /\ sent' # Nothing =>
               \E o \in DOMAIN mOutgoingTable :
                 /\ Endpoint(o) = <<pk.dst, pk.dport>>
                 /\ mOutgoingTable[o].age < Timeout
                 /\ sent'.to = <<o[1], o[2]>>]_vars
  <2> SUFFICES ASSUME IInv, Exclusive, FilterMatches, NEW pk \in InPackets,
                      TreatIncommingPacket(pk), sent' # Nothing
               PROVE  \E o \in DOMAIN mOutgoingTable :
                        /\ Endpoint(o) = <<pk.dst, pk.dport>>
                        /\ mOutgoingTable[o].age < Timeout
                        /\ sent'.to = <<o[1], o[2]>>
    OBVIOUS
  <2>1. Passes(pk) /\ (IncommingForward(pk) \/ IncommingForwardUnbound(pk))
    BY DEF TreatIncommingPacket, IncommingExpire, Expire, IncommingDrop,
           IncommingForward, IncommingForwardUnbound
  <2>2. FilterNotFiner /\ mConfig \in Config
    BY ConstantTypes DEF FilterMatches, FilterNotFiner, IInv, TypeOK
  <2>3. PICK f, e : f = FilterKey(pk) /\ e = mIncommingTable[f] /\ f \in DOMAIN mIncommingTable
    BY <2>1 DEF Passes
  <2>4. PICK o \in DOMAIN mOutgoingTable :
          /\ o = e.reverse
          /\ mOutgoingTable[o].reverse = f
          /\ Endpoint(o) = <<f[3], f[4]>>
          /\ <<e.ip, e.port>> = <<o[1], o[2]>>
    BY <2>2, <2>3 DEF IInv, TablesMirror
  <2>5. /\ o = OutgoingPk(o[1], o[2], o[3], o[4])
        /\ f = IncommingPk(o[3], o[4], mOutgoingTable[o].ip, mOutgoingTable[o].port)
    BY <2>2, <2>4 DEF IInv, KeysFit
  <2>6. Endpoint(o) = <<pk.dst, pk.dport>>
    <3>1. mConfig.mFilteringBehavior \in Filterings
      BY <2>2 DEF Config
    <3>2. f[3] = pk.dst /\ f[4] = pk.dport
      BY <2>3, <3>1 DEF FilterKey, IncommingPk, Filterings
    <3>3. QED
      BY <2>4, <3>2
  <2>7. BindingKey(pk) = o
    <3>0. PICK a, p, b, q, ip, port :
            /\ a = pk.src /\ p = pk.sport /\ ip = pk.dst /\ port = pk.dport
            /\ b = mOutgoingTable[o].ip /\ q = mOutgoingTable[o].port
      OBVIOUS
    <3>1. OutgoingPk(o[1], o[2], pk.src, pk.sport) = o
      <4>1. IncommingPk(a, p, ip, port) = IncommingPk(o[3], o[4], b, q)
        BY <2>3, <2>5, <3>0 DEF FilterKey
      <4>2. OutgoingPk(o[1], o[2], a, p) = o
        BY <2>2, <2>5, <4>1, MatchingKeys
      <4>3. QED
        BY <3>0, <4>2
    <3>2. e.ip = o[1] /\ e.port = o[2]
      BY <2>4
    <3>3. BindingKey(pk) = OutgoingPk(e.ip, e.port, pk.src, pk.sport)
      BY <2>3 DEF BindingKey
    <3>4. QED
      BY <3>1, <3>2, <3>3
  <2>8. mOutgoingTable[o].age < Timeout
    BY <2>1, <2>4, <2>7 DEF IncommingForward, IncommingForwardUnbound
  <2>9. sent'.to = <<o[1], o[2]>>
    <3>1. sent'.to = <<e.ip, e.port>>
      BY <2>1, <2>3 DEF IncommingForward, IncommingForwardUnbound, Forward, Emit
    <3>2. QED
      BY <2>4, <3>1
  <2>10. QED
    BY <2>6, <2>8, <2>9
<1>2. QED
  BY <1>1, InductiveInvariant, PTL DEF Spec, OnlyOverLiveBinding
===============================================================================
