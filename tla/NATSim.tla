-------------------------------- MODULE NATSim --------------------------------
(***************************************************************************)
(* The simulated NAT of src/Source/NATSim.cpp: an outgoing and an incoming *)
(* translation table, one array of reserved ports per public address, a    *)
(* private thread that translates what the hosts behind the NAT send and a *)
(* public thread that translates what comes back.                          *)
(*                                                                         *)
(* Here a packet handler runs to completion before the other thread's next *)
(* one starts; module NATSimThreads interleaves their table calls.         *)
(*                                                                         *)
(* Abstractions.  An address is the rank of its dotted string under        *)
(* strcmp, which is all the tables use of it.  An entry's LastTraffic is   *)
(* replaced by its age: the clock ticks since then, counted up to mTimeout *)
(* (the code only asks whether that much has passed).  LastTraffic of the  *)
(* incoming table is never read and is left out.  Payloads are left out.   *)
(***************************************************************************)
EXTENDS TrafficTable, Sequences

CONSTANTS
  PrivateIPs,    \* mPrivateIPs: the hosts behind the NAT
  PublicIPs,     \* mPublicIPs: the hosts beyond it
  NATPublicIPs,  \* mNATPublicIPs: the NAT's own public addresses, in file order
  MaxPort,       \* MAX_NUM_PORT, scaled down from 65535
  ClientPorts,   \* the source ports the private hosts send from
  ServerPorts,   \* the ports of the public hosts
  Timeout,       \* mTimeout, in clock ticks
  Configs        \* the configuration files a Start may find

Mappings   == {"NotNated", "EndPointIndependent", "AddressDependent", "AddressPortDependent"}
Filterings == {"AddressIndependent", "AddressDependent", "AddressPortDependent"}

Config == [mMappingBehavior         : Mappings,
           mFilteringBehavior       : Filterings,
           mIncommingRefreshTimeout : BOOLEAN,
           mPortPreservation        : BOOLEAN,
           mPortOverloading         : BOOLEAN,
           mIPAssignMode            : {"Paired", "Random"}]

NoIP    == 0              \* "", the address of a default-constructed CNATSimTrafficId
AnyIP   == 1              \* "0.0.0.0"
AnyPort == MaxPort + 1
Ports   == 0 .. MaxPort

N      == Len(NATPublicIPs)
NatIPs == {NATPublicIPs[i] : i \in 1 .. N}

\* The number of bits of PortsAvailability, byte[MAX_NUM_PORT].
Bits == 0 .. (8 * MaxPort - 1)

ASSUME AddressAssumption ==
  /\ PrivateIPs \cup PublicIPs \cup NatIPs \subseteq Nat \ {NoIP, AnyIP}
  /\ NATPublicIPs \in Seq(Nat) /\ N > 0
  /\ PrivateIPs \cap PublicIPs = {}
  /\ PrivateIPs \cap NatIPs = {}
  /\ PublicIPs \cap NatIPs = {}

ASSUME PortAssumption ==
  /\ MaxPort \in Nat \ {0}
  /\ ClientPorts \subseteq Ports
  /\ ServerPorts \subseteq Ports

ASSUME ConfigAssumption == Timeout \in Nat \ {0} /\ Configs \subseteq Config

VARIABLES
  mConfig,          \* what readNatConfig found (uninitialised before the first Start)
  mThread,          \* "none": NULL handle, "loop": in its capture loop, "exited": returned
  mOutgoingTable,   \* CNATSimTrafficId -> the binding of an outgoing flow
  mIncommingTable,  \* CNATSimTrafficId -> the private endpoint an incoming flow goes to
  mAvailablePorts,  \* public address -> the set bits of its PortsAvailability
  sent              \* the packet the last handler run emitted, or Nothing

vars == <<mConfig, mThread, mOutgoingTable, mIncommingTable, mAvailablePorts, sent>>

Nothing == [from |-> <<NoIP, 0>>, to |-> <<NoIP, 0>>]
Threads == {"public", "private"}

-----------------------------------------------------------------------------
(* Packets, as the capture filters of the two threads let them through.    *)

Packet(S, SP, D, DP) == [src : S, sport : SP, dst : D, dport : DP]
OutPackets == Packet(PrivateIPs, ClientPorts, PublicIPs, ServerPorts)
InPackets  == Packet(PublicIPs, ServerPorts, NatIPs, Ports)

-----------------------------------------------------------------------------
(* The identifiers of a flow in the two tables.                            *)

\* The key of an outgoing flow.  NotNated has no case in the code's switch:
\* the key stays the default one and every flow shares it.
OutgoingPk(ip, port, farIP, farPort) ==
  CASE mConfig.mMappingBehavior = "AddressPortDependent" -> <<ip, port, farIP, farPort>>
    [] mConfig.mMappingBehavior = "AddressDependent"     -> <<ip, port, farIP, AnyPort>>
    [] mConfig.mMappingBehavior = "EndPointIndependent"  -> <<ip, port, AnyIP, AnyPort>>
    [] mConfig.mMappingBehavior = "NotNated"             -> <<NoIP, 0, NoIP, 0>>

\* The key under which a public endpoint may reach the bound endpoint ip:port.
IncommingPk(farIP, farPort, ip, port) ==
  CASE mConfig.mFilteringBehavior = "AddressPortDependent" -> <<farIP, farPort, ip, port>>
    [] mConfig.mFilteringBehavior = "AddressDependent"     -> <<farIP, AnyPort, ip, port>>
    [] mConfig.mFilteringBehavior = "AddressIndependent"   -> <<AnyIP, AnyPort, ip, port>>

-----------------------------------------------------------------------------
(* The port arrays.                                                        *)

IsFree(ip, port) == ip \in DOMAIN mAvailablePorts /\ port \notin mAvailablePorts[ip]

ReserverPort(ip, port) ==
  [x \in DOMAIN mAvailablePorts |->
     IF x = ip THEN mAvailablePorts[x] \cup {port} ELSE mAvailablePorts[x]]

\* Mutant: the mask clears no bit.
FreeNoPort(ip, port) == mAvailablePorts

FreePort(ip, port) ==
  [x \in DOMAIN mAvailablePorts |->
     IF x = ip THEN mAvailablePorts[x] \ {port} ELSE mAvailablePorts[x]]

\* ReserveFirstAvailablePort(ip) returns the lowest clear bit if it is below
\* MaxPort.  Otherwise it sets every bit and returns the highest one that was
\* clear, which is a port only if it is MaxPort.
Obtains(ip, port) ==
  /\ ip \in DOMAIN mAvailablePorts
  /\ LET free == Bits \ mAvailablePorts[ip]
     IN  \/ port \in free /\ port < MaxPort /\ \A p \in free : port <= p
         \/ port = MaxPort /\ free = {MaxPort}

Exhausted(ip) ==
  ip \in DOMAIN mAvailablePorts =>
    LET free == Bits \ mAvailablePorts[ip]
    IN  free # {MaxPort} /\ \A port \in free : port >= MaxPort

\* The addresses are tried cyclically from the ini-th.
IPAt(ini, k)  == NATPublicIPs[((ini + k) % N) + 1]
Tried(ini, k) == {IPAt(ini, j) : j \in 0 .. (k - 1)}

\* The ports after ReserveFirstAvailablePort failed on the addresses in Full.
Exhaust(Full) ==
  [x \in DOMAIN mAvailablePorts |-> IF x \in Full THEN Bits ELSE mAvailablePorts[x]]

\* Mutant: the port is returned before its bit is set.
ReserveUnmarked(Full, ip, port) == Exhaust(Full)

ReserveFirst(Full, ip, port) ==
  [x \in DOMAIN mAvailablePorts |->
     Exhaust(Full)[x] \cup (IF x = ip THEN {port} ELSE {})]

-----------------------------------------------------------------------------
Init ==
  /\ mConfig \in Configs
  /\ mThread = [t \in Threads |-> "none"]
  /\ mOutgoingTable = Empty
  /\ mIncommingTable = Empty
  /\ mAvailablePorts = Empty
  /\ sent = Nothing

\* Start re-reads the file first, whatever runs already; the file is rewritten
\* only while the NAT is stopped.  It then creates the threads it has no handle
\* of, and hands out the port arrays if it created both.  A thread that cannot
\* capture or send returns at once.
Start(c, outcome) ==
  LET created == /\ \A t \in Threads : mThread[t] = "none"
                 /\ \A t \in Threads : outcome[t] # "none"
  IN  /\ c = mConfig \/ \A t \in Threads : mThread[t] = "none"
      /\ mConfig' = c
      /\ mThread' = [t \in Threads |-> IF mThread[t] = "none" THEN outcome[t] ELSE mThread[t]]
      /\ mAvailablePorts' =
           IF created
           THEN [ip \in DOMAIN mAvailablePorts \cup NatIPs |->
                   IF ip \in DOMAIN mAvailablePorts THEN mAvailablePorts[ip] ELSE {}]
           ELSE mAvailablePorts
      /\ sent' = Nothing
      /\ UNCHANGED <<mOutgoingTable, mIncommingTable>>

\* Stop joins both threads and empties everything but the configuration flags.
Stop ==
  /\ mThread' = [t \in Threads |-> "none"]
  /\ mOutgoingTable' = Empty
  /\ mIncommingTable' = Empty
  /\ mAvailablePorts' = Empty
  /\ sent' = Nothing
  /\ UNCHANGED mConfig

\* The clock: every entry grows older.
Tick ==
  /\ mOutgoingTable' = [k \in DOMAIN mOutgoingTable |->
       [mOutgoingTable[k] EXCEPT !.age = IF @ < Timeout THEN @ + 1 ELSE Timeout]]
  /\ sent' = Nothing
  /\ UNCHANGED <<mConfig, mThread, mIncommingTable, mAvailablePorts>>

-----------------------------------------------------------------------------
(* What both handlers do.                                                  *)

Emit(fromIP, fromPort, toIP, toPort) ==
  sent' = [from |-> <<fromIP, fromPort>>, to |-> <<toIP, toPort>>]

\* A binding that was idle for mTimeout is torn down and the packet dropped.
Expire(o) ==
  LET e == mOutgoingTable[o]
  IN  /\ e.age >= Timeout
      /\ mIncommingTable' = Clean(mIncommingTable, o)
      /\ mAvailablePorts' = FreePort(e.ip, e.port)
      /\ mOutgoingTable' = Without(mOutgoingTable, {o})
      /\ sent' = Nothing
      /\ UNCHANGED <<mConfig, mThread>>

UpdateLastTrafficTime(o) ==
  mOutgoingTable' = Put(mOutgoingTable, o, [mOutgoingTable[o] EXCEPT !.age = 0])

\* Mutant: overloading does not delete the entry of the port's earlier user.
AdmitFirst(inc, pk, ip, port) ==
  InsertTraffic(inc, IncommingPk(pk.dst, pk.dport, ip, port),
    [ip |-> pk.src, port |-> pk.sport,
     reverse |-> OutgoingPk(pk.src, pk.sport, pk.dst, pk.dport)])

\* The incoming entry of a packet that leaves through ip:port.  With port
\* overloading the last sender takes it over, otherwise the first keeps it.
Admit(inc, pk, ip, port) ==
  LET key   == IncommingPk(pk.dst, pk.dport, ip, port)
      entry == [ip |-> pk.src, port |-> pk.sport,
                reverse |-> OutgoingPk(pk.src, pk.sport, pk.dst, pk.dport)]
      rest  == IF mConfig.mPortOverloading THEN Without(inc, {key}) ELSE inc
  IN  InsertTraffic(rest, key, entry)

-----------------------------------------------------------------------------
(* TreatOutgoingPacket: a packet of the private side.                      *)

KeyOf(pk) == OutgoingPk(pk.src, pk.sport, pk.dst, pk.dport)

OutgoingExpire(pk) ==
  /\ mThread["private"] = "loop"
  /\ KeyOf(pk) \in DOMAIN mOutgoingTable
  /\ Expire(KeyOf(pk))

OutgoingRefresh(pk) ==
  LET e == mOutgoingTable[KeyOf(pk)]
  IN  /\ mThread["private"] = "loop"
      /\ KeyOf(pk) \in DOMAIN mOutgoingTable
      /\ e.age < Timeout
      /\ UpdateLastTrafficTime(KeyOf(pk))
      /\ Emit(e.ip, e.port, pk.dst, pk.dport)
      /\ mIncommingTable' = Admit(mIncommingTable, pk, e.ip, e.port)
      /\ UNCHANGED <<mConfig, mThread, mAvailablePorts>>

\* A packet without a binding, and the index of the address tried first.
Unbound(pk) == mThread["private"] = "loop" /\ KeyOf(pk) \notin DOMAIN mOutgoingTable
Starts      == IF mConfig.mIPAssignMode = "Random" THEN 0 .. (N - 1) ELSE {0}

SamePort   == mConfig.mPortOverloading \/ mConfig.mPortPreservation
NoneFree(pk) == \A ip \in NatIPs : ~IsFree(ip, pk.sport)

\* Both tables get the new binding, over what deletePk left of them.
Bind(pk, ip, port, out, inc) ==
  /\ mOutgoingTable' = InsertTraffic(out, KeyOf(pk),
       [ip |-> ip, port |-> port, age |-> 0,
        reverse |-> IncommingPk(pk.dst, pk.dport, ip, port)])
  /\ mIncommingTable' = Admit(inc, pk, ip, port)
  /\ Emit(ip, port, pk.dst, pk.dport)
  /\ UNCHANGED <<mConfig, mThread>>

\* Overloading or preservation: the first address where the source port is free.
BindSamePort(pk) ==
  /\ Unbound(pk) /\ SamePort
  /\ \E ini \in Starts, k \in 0 .. (N - 1) :
       /\ IsFree(IPAt(ini, k), pk.sport)
       /\ \A ip \in Tried(ini, k) : ~IsFree(ip, pk.sport)
       /\ mAvailablePorts' = ReserverPort(IPAt(ini, k), pk.sport)
       /\ Bind(pk, IPAt(ini, k), pk.sport, mOutgoingTable, mIncommingTable)

\* Overloading with the source port taken everywhere: shared on the first
\* address tried.  deletePk is a key of the incoming table, but it is the
\* incoming table's reverse ids and the outgoing table's keys it is looked up in.
BindOverloaded(pk) ==
  /\ Unbound(pk) /\ mConfig.mPortOverloading /\ NoneFree(pk)
  /\ \E ini \in Starts :
       LET ip == IPAt(ini, 0)
           deletePk == IncommingPk(pk.dst, pk.dport, ip, pk.sport)
       IN  /\ mAvailablePorts' = ReserverPort(ip, pk.sport)
           /\ Bind(pk, ip, pk.sport, Without(mOutgoingTable, {deletePk}),
                   Clean(mIncommingTable, deletePk))

\* Any port will do: with preservation because the source port is taken
\* everywhere, and then the addresses are tried from the first one.
AnyPortWillDo(pk) ==
  /\ ~mConfig.mPortOverloading
  /\ mConfig.mPortPreservation => NoneFree(pk)
SearchFrom == IF mConfig.mPortPreservation THEN {0} ELSE Starts

BindFirstAvailable(pk) ==
  /\ Unbound(pk) /\ AnyPortWillDo(pk)
  /\ \E ini \in SearchFrom, k \in 0 .. (N - 1), port \in Ports :
       /\ Obtains(IPAt(ini, k), port)
       /\ \A ip \in Tried(ini, k) : Exhausted(ip)
       /\ mAvailablePorts' = ReserveFirst(Tried(ini, k), IPAt(ini, k), port)
       /\ Bind(pk, IPAt(ini, k), port, mOutgoingTable, mIncommingTable)

\* No port anywhere: the packet is dropped, but every array is now full.
OutgoingDrop(pk) ==
  /\ Unbound(pk) /\ AnyPortWillDo(pk)
  /\ \A ip \in NatIPs : Exhausted(ip)
  /\ mAvailablePorts' = Exhaust(NatIPs)
  /\ sent' = Nothing
  /\ UNCHANGED <<mConfig, mThread, mOutgoingTable, mIncommingTable>>

TreatOutgoingPacket(pk) ==
  \/ OutgoingExpire(pk)
  \/ OutgoingRefresh(pk)
  \/ BindSamePort(pk)
  \/ BindOverloaded(pk)
  \/ BindFirstAvailable(pk)
  \/ OutgoingDrop(pk)

-----------------------------------------------------------------------------
(* TreatIncommingPacket: a packet of the public side.                      *)

FilterKey(pk) == IncommingPk(pk.src, pk.sport, pk.dst, pk.dport)

\* The binding a packet that passed the filter refreshes: the one the private
\* endpoint would use towards the packet's source.
BindingKey(pk) ==
  LET e == mIncommingTable[FilterKey(pk)]
  IN  OutgoingPk(e.ip, e.port, pk.src, pk.sport)

Passes(pk) == mThread["public"] = "loop" /\ FilterKey(pk) \in DOMAIN mIncommingTable

Forward(pk) ==
  LET e == mIncommingTable[FilterKey(pk)]
  IN  Emit(pk.src, pk.sport, e.ip, e.port)

IncommingExpire(pk) ==
  /\ Passes(pk)
  /\ BindingKey(pk) \in DOMAIN mOutgoingTable
  /\ Expire(BindingKey(pk))

IncommingForward(pk) ==
  /\ Passes(pk)
  /\ BindingKey(pk) \in DOMAIN mOutgoingTable
  /\ mOutgoingTable[BindingKey(pk)].age < Timeout
  /\ IF mConfig.mIncommingRefreshTimeout
     THEN UpdateLastTrafficTime(BindingKey(pk))
     ELSE UNCHANGED mOutgoingTable
  /\ Forward(pk)
  /\ UNCHANGED <<mConfig, mThread, mIncommingTable, mAvailablePorts>>

\* Without a binding the packet is forwarded all the same.
IncommingForwardUnbound(pk) ==
  /\ Passes(pk)
  /\ BindingKey(pk) \notin DOMAIN mOutgoingTable
  /\ Forward(pk)
  /\ UNCHANGED <<mConfig, mThread, mOutgoingTable, mIncommingTable, mAvailablePorts>>

IncommingDrop(pk) ==
  /\ mThread["public"] = "loop"
  /\ FilterKey(pk) \notin DOMAIN mIncommingTable
  /\ sent' = Nothing
  /\ UNCHANGED <<mConfig, mThread, mOutgoingTable, mIncommingTable, mAvailablePorts>>

TreatIncommingPacket(pk) ==
  \/ IncommingExpire(pk)
  \/ IncommingForward(pk)
  \/ IncommingForwardUnbound(pk)
  \/ IncommingDrop(pk)

-----------------------------------------------------------------------------
Next ==
  \/ \E c \in Configs, outcome \in [Threads -> {"none", "loop", "exited"}] : Start(c, outcome)
  \/ Stop
  \/ Tick
  \/ \E pk \in OutPackets : TreatOutgoingPacket(pk)
  \/ \E pk \in InPackets : TreatIncommingPacket(pk)

Spec == Init /\ [][Next]_vars

-----------------------------------------------------------------------------
(* Properties.                                                             *)

Endpoint(o) == <<mOutgoingTable[o].ip, mOutgoingTable[o].port>>

Exclusive == ~mConfig.mPortOverloading

\* The filter is no finer than the mapping: one binding, one incoming key.
FilterNotFiner ==
  \/ mConfig.mMappingBehavior = "AddressPortDependent"
  \/ /\ mConfig.mMappingBehavior = "AddressDependent"
     /\ mConfig.mFilteringBehavior # "AddressPortDependent"
  \/ /\ mConfig.mMappingBehavior = "EndPointIndependent"
     /\ mConfig.mFilteringBehavior = "AddressIndependent"

\* The filter is exactly as fine as the mapping.
FilterMatches ==
  <<mConfig.mMappingBehavior, mConfig.mFilteringBehavior>> \in
    {<<"AddressPortDependent", "AddressPortDependent">>,
     <<"AddressDependent", "AddressDependent">>,
     <<"EndPointIndependent", "AddressIndependent">>}

\* The type of every variable.
Binding == [ip : NatIPs, port : Ports, reverse : TrafficId, age : 0 .. Timeout]
Target  == [ip : PrivateIPs, port : ClientPorts, reverse : TrafficId]

IsTable(tbl, E) ==
  /\ DOMAIN tbl \subseteq TrafficId
  /\ \A k \in DOMAIN tbl : tbl[k] \in E
  /\ tbl = [k \in DOMAIN tbl |-> tbl[k]]

TypeOK ==
  /\ mConfig \in Configs
  /\ mThread \in [Threads -> {"none", "loop", "exited"}]
  /\ IsTable(mOutgoingTable, Binding)
  /\ IsTable(mIncommingTable, Target)
  /\ DOMAIN mAvailablePorts \subseteq NatIPs
  /\ mAvailablePorts \in [DOMAIN mAvailablePorts -> SUBSET Bits]
  /\ sent \in [from : Nat \X Nat, to : Nat \X Nat]

\* Without port overloading two flows never share a public endpoint, although
\* ports are freed on timeouts found by either handler and reserved again.
BindingExclusive ==
  Exclusive => \A o1, o2 \in DOMAIN mOutgoingTable :
                 Endpoint(o1) = Endpoint(o2) => o1 = o2

\* Without port overloading the port arrays and the outgoing table agree:
\* what is bound is reserved, and every reserved port below MaxPort is bound,
\* so no port leaks (MaxPort itself leaks when an array has run full).
PortsAccounted ==
  Exclusive =>
    /\ \A o \in DOMAIN mOutgoingTable :
         /\ mOutgoingTable[o].ip \in DOMAIN mAvailablePorts
         /\ mOutgoingTable[o].port \in mAvailablePorts[mOutgoingTable[o].ip]
    /\ \A ip \in DOMAIN mAvailablePorts : \A port \in mAvailablePorts[ip] :
         port < MaxPort => \E o \in DOMAIN mOutgoingTable : Endpoint(o) = <<ip, port>>

\* Without overloading and with a filter no finer than the mapping the tables
\* mirror each other: every binding has its incoming entry, and no incoming
\* entry outlives its binding (Clean, FreePort and Remove on a timeout undo
\* exactly what the first packet of the flow did).
TablesMirror ==
  Exclusive /\ FilterNotFiner =>
    /\ \A o \in DOMAIN mOutgoingTable :
         /\ mOutgoingTable[o].reverse \in DOMAIN mIncommingTable
         /\ mIncommingTable[mOutgoingTable[o].reverse].reverse = o
    /\ \A i \in DOMAIN mIncommingTable :
         LET e == mIncommingTable[i]
         IN  /\ e.reverse \in DOMAIN mOutgoingTable
             /\ mOutgoingTable[e.reverse].reverse = i
             /\ Endpoint(e.reverse) = <<i[3], i[4]>>
             /\ <<e.ip, e.port>> = <<e.reverse[1], e.reverse[2]>>

\* Nothing is left of an earlier run while no thread exists: only then may a
\* Start find another configuration.
StoppedIsEmpty ==
  (\A t \in Threads : mThread[t] = "none") =>
    /\ DOMAIN mOutgoingTable = {}
    /\ DOMAIN mIncommingTable = {}
    /\ DOMAIN mAvailablePorts = {}

\* The two keys of a binding belong together.
KeysFit ==
  Exclusive /\ FilterNotFiner =>
    \A o \in DOMAIN mOutgoingTable :
      LET e == mOutgoingTable[o]
      IN  /\ o = OutgoingPk(o[1], o[2], o[3], o[4])
          /\ e.reverse = IncommingPk(o[3], o[4], e.ip, e.port)

\* The inductive invariant behind the three properties above.
IInv ==
  /\ TypeOK
  /\ StoppedIsEmpty
  /\ KeysFit
  /\ BindingExclusive
  /\ PortsAccounted
  /\ TablesMirror

\* Where an answer of pk's destination to the packet just sent would go.
AnswerReaches(pk) ==
  LET answer == [src |-> pk.dst, sport |-> pk.dport,
                 dst |-> sent.from[1], dport |-> sent.from[2]]
      e == mIncommingTable[FilterKey(answer)]
  IN  /\ FilterKey(answer) \in DOMAIN mIncommingTable
      /\ <<e.ip, e.port>> = <<pk.src, pk.sport>>
      /\ BindingKey(answer) \in DOMAIN mOutgoingTable
      /\ mOutgoingTable[BindingKey(answer)].age < Timeout

\* Once a packet has left, an answer that comes at once reaches its sender: no
\* entry of an earlier user of the port intercepts it.
ReplyReachesSender ==
  [][mConfig.mPortOverloading \/ FilterNotFiner =>
       \A pk \in OutPackets :
         TreatOutgoingPacket(pk) /\ sent' # Nothing => AnswerReaches(pk)']_vars

\* When the filter matches the mapping, a packet from outside only gets in
\* over a binding of its destination that is alive, and to the binding's owner.
OnlyOverLiveBinding ==
  [][Exclusive /\ FilterMatches =>
       \A pk \in InPackets :
         TreatIncommingPacket(pk) /\ sent' # Nothing =>
           \E o \in DOMAIN mOutgoingTable :
             /\ Endpoint(o) = <<pk.dst, pk.dport>>
             /\ mOutgoingTable[o].age < Timeout
             /\ sent'.to = <<o[1], o[2]>>]_vars
=============================================================================
