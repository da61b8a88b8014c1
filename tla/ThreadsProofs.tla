----------------------------- MODULE ThreadsProofs -----------------------------
(***************************************************************************)
(* The simulated NAT with its threads interleaved: type correctness, and    *)
(* what holds until a timeout is declared (no fault, ports held, bindings   *)
(* exclusive, answers come home), for any number of hosts, addresses, ports *)
(* and configurations and any bounds.                                      *)
(***************************************************************************)
EXTENDS NATSimThreads, NATSimProofs

-----------------------------------------------------------------------------
(* Positions in a table.                                                   *)

\* In a finite set whose elements are ordered by what is below them, some element
\* has n below it, for every n smaller than the set.
LEMMA Ranked ==
  ASSUME NEW S, IsFiniteSet(S), NEW below \in [S -> SUBSET S],
         \A a \in S : a \notin below[a],
         \A a, b \in S : a # b => \/ a \in below[b] /\ below[a] \subseteq below[b]
                                  \/ b \in below[a] /\ below[b] \subseteq below[a],
         NEW n \in Nat, n < Cardinality(S)
  PROVE  \E a \in S : Cardinality(below[a]) = n
<1> DEFINE c == Cardinality(S)
           T == 0 .. (c - 1)
           f == [a \in S |-> Cardinality(below[a])]
<1>1. c \in Nat /\ n \in T
  BY FS_CardinalityType
<1>2. ASSUME NEW a \in S PROVE f[a] \in T
  <2>1. below[a] \in SUBSET (S \ {a})
    OBVIOUS
  <2>2. IsFiniteSet(S \ {a}) /\ Cardinality(S \ {a}) = c - 1
    BY FS_RemoveElement
  <2>3. IsFiniteSet(below[a]) /\ Cardinality(below[a]) <= c - 1
    BY <2>1, <2>2, FS_Subset
  <2>4. Cardinality(below[a]) \in Nat
    BY <2>3, FS_CardinalityType
  <2>5. QED
    BY <1>1, <2>3, <2>4
<1>3. ASSUME NEW a \in S, NEW b \in S, a \in below[b], below[a] \subseteq below[b]
      PROVE  f[a] # f[b]
  <2>1. below[a] \in SUBSET below[b] /\ below[a] # below[b] /\ below[b] \in SUBSET S
    BY <1>3
  <2>2. IsFiniteSet(below[b])
    BY <2>1, FS_Subset
  <2>3. Cardinality(below[a]) # Cardinality(below[b])
    BY <2>1, <2>2, FS_Subset
  <2>4. QED
    BY <2>3
<1>4. \A a, b \in S : f[a] = f[b] => a = b
  BY <1>3
<1>5. f \in Injection(S, T)
  BY <1>2, <1>4 DEF Injection, IsInjective
<1>6. IsFiniteSet(T) /\ Cardinality(T) = c
  BY <1>1, FS_Interval
<1>7. f \in Surjection(S, T)
  BY <1>5, <1>6, FS_Injection
<1>8. \E a \in S : f[a] = n
  BY <1>1, <1>7 DEF Surjection
<1>9. QED
  BY <1>8

LEMMA LessOrder ==
  ASSUME NEW a \in TrafficId, NEW b \in TrafficId, NEW c \in TrafficId
  PROVE  /\ ~Less(a, a)
         /\ a # b => Less(a, b) \/ Less(b, a)
         /\ Less(a, b) /\ Less(b, c) => Less(a, c)
BY DEF TrafficId, Less

\* The position of a key is one of the table's, and every position has a key.
LEMMA PositionFacts ==
  ASSUME NEW tbl, IsFiniteSet(DOMAIN tbl), DOMAIN tbl \subseteq TrafficId
  PROVE  /\ Cardinality(DOMAIN tbl) \in Nat
         /\ \A k \in DOMAIN tbl : Position(tbl, k) \in Nat /\ Held(tbl, Position(tbl, k))
         /\ \A Idx \in Nat : Held(tbl, Idx) => At(tbl, Idx) \in DOMAIN tbl
<1> DEFINE D == DOMAIN tbl
           below == [k \in D |-> {x \in D : Less(x, k)}]
<1>1. Cardinality(D) \in Nat
  BY FS_CardinalityType
<1>2. \A a \in D : a \notin below[a]
  BY LessOrder
<1>3. \A a, b \in D : a # b => \/ a \in below[b] /\ below[a] \subseteq below[b]
                               \/ b \in below[a] /\ below[b] \subseteq below[a]
  BY LessOrder
<1>4. ASSUME NEW k \in D PROVE Position(tbl, k) \in Nat /\ Position(tbl, k) < Cardinality(D)
  <2>1. below[k] \in SUBSET (D \ {k})
    BY <1>2
  <2>2. IsFiniteSet(D \ {k}) /\ Cardinality(D \ {k}) = Cardinality(D) - 1
    BY FS_RemoveElement
  <2>3. IsFiniteSet(below[k]) /\ Cardinality(below[k]) <= Cardinality(D) - 1
    BY <2>1, <2>2, FS_Subset
  <2>4. Cardinality(below[k]) \in Nat
    BY <2>3, FS_CardinalityType
  <2>5. QED
    BY <1>1, <2>3, <2>4 DEF Position
<1>5. ASSUME NEW Idx \in Nat, Held(tbl, Idx) PROVE At(tbl, Idx) \in D
  <2>1. Idx < Cardinality(D)
    BY <1>5 DEF Held
  <2>2. \E k \in D : Cardinality(below[k]) = Idx
    <3> HIDE DEF below
    <3>1. below \in [D -> SUBSET D]
      BY DEF below
    <3>2. QED
      BY <1>2, <1>3, <2>1, <3>1, Ranked
  <2>3. \E k \in D : Position(tbl, k) = Idx
    BY <2>2 DEF Position
  <2>4. QED
    BY <2>3 DEF At
<1>6. QED
  BY <1>1, <1>4, <1>5 DEF Held

\* StartPorts finds the first address without ports as long as there is one.
LEMMA NextAddress ==
  ASSUME NEW given, NEW ip \in NatIPs, ip \notin given
  PROVE  \E i \in 1 .. N : /\ NATPublicIPs[i] \notin given
                           /\ \A j \in 1 .. (i - 1) : NATPublicIPs[j] \in given
<1> DEFINE S == {i \in 1 .. N : NATPublicIPs[i] \notin given}
           below == [i \in S |-> {j \in S : j < i}]
<1>1. N \in Nat /\ S \in SUBSET (1 .. N)
  BY ConstantTypes
<1>2. IsFiniteSet(S)
  <2>1. IsFiniteSet(1 .. N)
    BY <1>1, FS_Interval
  <2> HIDE DEF S
  <2>2. QED
    BY <1>1, <2>1, FS_Subset
<1>3. S # {}
  BY DEF NatIPs
<1>4. Cardinality(S) \in Nat /\ 0 < Cardinality(S)
  BY <1>2, <1>3, FS_CardinalityType, FS_EmptySet
<1>5. /\ \A a \in S : a \notin below[a]
      /\ \A a, b \in S : a # b => \/ a \in below[b] /\ below[a] \subseteq below[b]
                                  \/ b \in below[a] /\ below[b] \subseteq below[a]
  BY <1>1
<1>6. PICK i \in S : Cardinality(below[i]) = 0
  <2> HIDE DEF below, S
  <2>1. below \in [S -> SUBSET S]
    BY DEF below
  <2>2. QED
    BY <1>2, <1>4, <1>5, <2>1, Ranked
<1>7. below[i] = {}
  <2>1. below[i] \in SUBSET S
    OBVIOUS
  <2>2. IsFiniteSet(below[i])
    BY <1>2, <2>1, FS_Subset
  <2>3. QED
    BY <1>6, <2>2, FS_EmptySet
<1>8. \A j \in 1 .. (i - 1) : NATPublicIPs[j] \in given
  <2> SUFFICES ASSUME NEW j \in 1 .. (i - 1), NATPublicIPs[j] \notin given PROVE FALSE
    OBVIOUS
  <2>1. j \in 1 .. N /\ j < i
    BY <1>1
  <2>2. j \in below[i]
    BY <2>1
  <2>3. QED
    BY <2>2, <1>7
<1>9. QED
  BY <1>8

-----------------------------------------------------------------------------
(* The inductive invariant.                                                *)

OutBinding == [ip : NatIPs, port : Ports, reverse : TrafficId, age : 0 .. MaxAge]

\* The shared state, and where the main thread stands.
Shared ==
  /\ mConfig \in Configs
  /\ mThread \in [Threads -> {"none", "loop", "exited"}]
  /\ mTerminate \in BOOLEAN
  /\ main \in {"idle", "started", "failed", "ports", "joinPublic", "joinPrivate"}
  /\ IsTable(mOutgoingTable, OutBinding) /\ IsFiniteSet(DOMAIN mOutgoingTable)
  /\ IsTable(mIncommingTable, Target) /\ IsFiniteSet(DOMAIN mIncommingTable)
  /\ DOMAIN mAvailablePorts \subseteq NatIPs
  /\ mAvailablePorts \in [DOMAIN mAvailablePorts -> SUBSET Bits]
  /\ pc \in [Threads -> PrivateLabels \cup PublicLabels]
  /\ loc \in [Threads -> Locally]
  /\ fault \in {"none", "dangling", "throw", "torn"}
  /\ expired \in Nat

\* What is left of an earlier run: nothing of a thread that does not run, no
\* array while a thread is missing, no binding while the private one is.
Stopped ==
  /\ main = "joinPrivate" => mThread["public"] # "loop"
  /\ main = "started" => mThread["public"] # "none"
  /\ main = "ports" => /\ \A t \in Threads : mThread[t] # "none"
                       /\ ~(NatIPs \subseteq DOMAIN mAvailablePorts)
  /\ (\E t \in Threads : mThread[t] = "none") => DOMAIN mAvailablePorts = {}
  /\ mThread["private"] = "none" => DOMAIN mOutgoingTable = {}
  /\ \A t \in Threads : mThread[t] # "loop" =>
       pc[t] = "test" /\ ~loc[t].outRef.live /\ ~loc[t].inRef.live

\* The labels at which the private thread has no binding for its packet.
Searching == {"search", "again", "any", "share", "unlist", "reserve", "bind"}

\* What a handler may rely on until a timeout is declared, without overloading:
\* no index ran out of its table, no reference died, a port found is its own.
CalmAt(t, label, l) ==
  /\ label \notin {"clean", "free", "remove", "share", "unlist", "reserve", "delete"}
  /\ label = "getOut" => Held(mOutgoingTable, l.outIdx)
  /\ label = "getIn" => Held(mIncommingTable, l.inIdx)
  /\ label = "check" => l.outRef.live
  /\ t = "private" /\ label \in {"refresh", "send"} => l.outRef.live
  /\ t = "public" /\ label \in {"findOut", "getOut", "check", "refresh", "send"} => l.inRef.live
  /\ t = "private" /\ label = "bind" =>
       /\ l.ip \in DOMAIN mAvailablePorts /\ l.port \in mAvailablePorts[l.ip]
       /\ \A o \in DOMAIN mOutgoingTable : Endpoint(o) # <<l.ip, l.port>>

\* What it may rely on always.
TypedAt(t, label, l) ==
  /\ label \in (IF t = "private" THEN PrivateLabels ELSE PublicLabels)
  /\ l.outRef.live => l.outRef.key \in DOMAIN mOutgoingTable
  /\ l.inRef.live => l.inRef.key \in DOMAIN mIncommingTable
  /\ t = "private" => /\ label \notin {"test", "wait"} => l.pk \in OutPackets
                      /\ label \in Searching => l.key \notin DOMAIN mOutgoingTable
                      /\ label = "bind" => l.ip \in NatIPs

Calm == expired = 0 /\ Exclusive

LocalAt(t, label, l) == TypedAt(t, label, l) /\ (Calm => CalmAt(t, label, l))

Handlers == \A t \in Threads : LocalAt(t, pc[t], loc[t])

\* A process then comes to grief in a torn walk only.
CalmFault == expired = 0 /\ Exclusive => fault \in {"none", "torn"}

Ledger == CalmFault /\ PortsHeld /\ FreshBindingExclusive

TInv == Shared /\ Stopped /\ Handlers /\ Ledger

LEMMA TwoThreads == Threads = {"public", "private"} /\ "public" # "private"
BY DEF Threads

-----------------------------------------------------------------------------
(* Steps that change nothing but where a handler stands and its locals.    *)

LEMMA QuietStep ==
  ASSUME TInv, NEW t \in Threads, NEW from, from # "bind", NEW to, Goes(t, from, to),
         UNCHANGED <<tables, life, fault, expired>>,
         NEW l \in Locally, loc' = [loc EXCEPT ![t] = l], LocalAt(t, to, l)
  PROVE  TInv'
<1>1. /\ mThread[t] = "loop" /\ pc[t] = from /\ pc' = [pc EXCEPT ![t] = to]
      /\ UNCHANGED <<mOutgoingTable, mIncommingTable, mAvailablePorts, mConfig, mThread,
                     mTerminate, main, fault, expired>>
  BY DEF Goes, tables, life
<1>2. to \in PrivateLabels \cup PublicLabels
  BY DEF LocalAt, TypedAt, Calm
<1>3. /\ pc \in [Threads -> PrivateLabels \cup PublicLabels]
      /\ loc \in [Threads -> Locally]
  BY DEF TInv, Shared
<1>4. /\ pc'[t] = to /\ loc'[t] = l
      /\ \A u \in Threads : u # t => pc'[u] = pc[u] /\ loc'[u] = loc[u]
      /\ pc' \in [Threads -> PrivateLabels \cup PublicLabels]
      /\ loc' \in [Threads -> Locally]
  BY <1>1, <1>2, <1>3
<1>5. Shared'
  BY <1>1, <1>4 DEF TInv, Shared
<1>6. Stopped'
  BY <1>1, <1>4, TwoThreads DEF TInv, Stopped
<1>7. Handlers'
  <2> SUFFICES ASSUME NEW u \in Threads PROVE LocalAt(u, pc[u], loc[u])'
    BY DEF Handlers
  <2>1. LocalAt(u, pc'[u], loc'[u])
    BY <1>4 DEF TInv, Handlers
  <2>2. QED
    BY <2>1, <1>1 DEF LocalAt, TypedAt, Calm, CalmAt, Exclusive, Endpoint
<1>8. CalmFault' /\ FreshBindingExclusive'
  BY <1>1 DEF TInv, Ledger, CalmFault, FreshBindingExclusive, BindingExclusive, Exclusive, Endpoint
<1>9. PortsHeld'
  <2>1. pc["private"] = "bind" => pc'["private"] = "bind" /\ loc'["private"] = loc["private"]
    BY <1>1, <1>4, TwoThreads
  <2>2. QED
    BY <1>1, <2>1 DEF TInv, Ledger, PortsHeld, Exclusive, Endpoint, P
<1>10. QED
  BY <1>5, <1>6, <1>7, <1>8, <1>9 DEF TInv, Ledger

\* The same when the step keeps the locals.
LEMMA QuietGo ==
  ASSUME TInv, NEW t \in Threads, NEW from, from # "bind", NEW to, Goes(t, from, to),
         UNCHANGED <<tables, life, fault, expired, loc>>, LocalAt(t, to, loc[t])
  PROVE  TInv'
<1>1. loc \in [Threads -> Locally]
  BY DEF TInv, Shared
<1>2. loc[t] \in Locally /\ loc' = [loc EXCEPT ![t] = loc[t]]
  BY <1>1
<1>3. QED
  BY <1>2, QuietStep

\* The types of what the handlers read.
LEMMA SharedTypes ==
  ASSUME Shared
  PROVE  /\ mConfig \in Config
         /\ \A k \in DOMAIN mOutgoingTable :
              /\ k \in TrafficId
              /\ mOutgoingTable[k].ip \in NatIPs /\ mOutgoingTable[k].ip \in Nat
              /\ mOutgoingTable[k].port \in Ports /\ mOutgoingTable[k].port \in Nat
         /\ \A k \in DOMAIN mIncommingTable :
              /\ k \in TrafficId
              /\ mIncommingTable[k].ip \in Nat /\ mIncommingTable[k].port \in Nat
         /\ DOMAIN mOutgoingTable \subseteq TrafficId
         /\ DOMAIN mIncommingTable \subseteq TrafficId
<1>1. mConfig \in Config
  BY ConstantTypes DEF Shared
<1>2. /\ DOMAIN mOutgoingTable \subseteq TrafficId
      /\ \A k \in DOMAIN mOutgoingTable : mOutgoingTable[k] \in OutBinding
      /\ DOMAIN mIncommingTable \subseteq TrafficId
      /\ \A k \in DOMAIN mIncommingTable : mIncommingTable[k] \in Target
  BY DEF Shared, IsTable
<1>3. /\ PrivateIPs \subseteq Nat /\ ClientPorts \subseteq Nat /\ NatIPs \subseteq Nat
      /\ Ports \subseteq Nat
  BY ConstantTypes
<1>4. ASSUME NEW k \in DOMAIN mOutgoingTable
      PROVE  /\ mOutgoingTable[k].ip \in NatIPs /\ mOutgoingTable[k].ip \in Nat
             /\ mOutgoingTable[k].port \in Ports /\ mOutgoingTable[k].port \in Nat
  BY <1>2, <1>3 DEF OutBinding
<1>5. ASSUME NEW k \in DOMAIN mIncommingTable
      PROVE  mIncommingTable[k].ip \in Nat /\ mIncommingTable[k].port \in Nat
  BY <1>2, <1>3 DEF Target
<1>6. QED
  BY <1>1, <1>2, <1>4, <1>5

\* A packet either side captures, and the locals its handler begins with.
LEMMA PacketTypes ==
  ASSUME Shared, NEW pk \in OutPackets \cup InPackets
  PROVE  /\ pk \in [src : Nat, sport : Nat, dst : Nat, dport : Nat]
         /\ KeyOf(pk) \in TrafficId /\ FilterKey(pk) \in TrafficId
         /\ Locals(pk) \in Locally
<1>1. pk \in [src : Nat, sport : Nat, dst : Nat, dport : Nat]
  BY ConstantTypes DEF OutPackets, InPackets, Packet
<1>2. KeyOf(pk) \in TrafficId /\ FilterKey(pk) \in TrafficId
  BY <1>1, SharedTypes, KeyTypes DEF KeyOf, FilterKey
<1>3. /\ 0 \in 0 .. MaxLate /\ 0 \in 0 .. (N - 1) /\ 0 \in Ports
      /\ <<NoIP, 0, NoIP, 0>> \in TrafficId
  BY ConstantTypes, BoundAssumption, PortAssumption DEF TrafficId, Ports, NoIP
<1>4. Locals(pk) \in Locally
  BY <1>1, <1>3 DEF Locals, Locally, NoRef
<1>5. QED
  BY <1>1, <1>2, <1>4

LEMMA GetOutPacketInv ==
  ASSUME TInv, NEW pk \in OutPackets, GetOutPacket(pk)
  PROVE  TInv'
<1> DEFINE l == [Locals(pk) EXCEPT !.key = KeyOf(pk)]
<1>1. Locals(pk) \in Locally /\ KeyOf(pk) \in TrafficId
  BY PacketTypes DEF TInv
<1>2. l \in Locally
  BY <1>1 DEF Locally
<1>3. LocalAt("private", "findOut", l)
  BY DEF LocalAt, TypedAt, Calm, CalmAt, Locals, NoRef, Searching, PrivateLabels
<1>4. /\ Goes("private", "wait", "findOut") /\ loc' = [loc EXCEPT !["private"] = l]
      /\ UNCHANGED <<tables, life, fault, expired>>
  BY DEF GetOutPacket, Sets, Quiet, Silent
<1> HIDE DEF l
<1>5. QED
  BY <1>2, <1>3, <1>4, QuietStep, TwoThreads

LEMMA GetInPacketInv ==
  ASSUME TInv, NEW pk \in InPackets, GetInPacket(pk)
  PROVE  TInv'
<1> DEFINE l == Locals(pk)
<1>1. l \in Locally
  BY PacketTypes DEF TInv
<1>2. LocalAt("public", "findIn", l)
  BY DEF LocalAt, TypedAt, Calm, CalmAt, Locals, NoRef, PublicLabels
<1>3. /\ Goes("public", "wait", "findIn") /\ loc' = [loc EXCEPT !["public"] = l]
      /\ UNCHANGED <<tables, life, fault, expired>>
  BY DEF GetInPacket, Sets, Quiet, Silent
<1> HIDE DEF l
<1>4. QED
  BY <1>1, <1>2, <1>3, QuietStep, TwoThreads

\* Steps that keep the locals: the captures that time out, and the sending.
LEMMA GoingInv ==
  ASSUME TInv
  PROVE  /\ \A t \in Threads : GetNoMsg(t) \/ Traces(t) => TInv'
         /\ SendIn => TInv'
         /\ SendOut => TInv'
         /\ SendNew => TInv'
<1>1. \A t \in Threads : LocalAt(t, pc[t], loc[t])
  BY DEF TInv, Handlers
<1>2. ASSUME NEW t \in Threads, GetNoMsg(t) PROVE TInv'
  <2>1. Goes(t, "wait", "test") /\ UNCHANGED <<tables, life, fault, expired, loc>>
    BY <1>2 DEF GetNoMsg, Quiet, Silent, Keeps
  <2>2. LocalAt(t, "test", loc[t])
    BY <1>1 DEF LocalAt, TypedAt, Calm, CalmAt, Searching, PrivateLabels, PublicLabels
  <2>3. QED
    BY <2>1, <2>2, QuietGo
<1>3. ASSUME SendIn PROVE TInv'
  <2>1. Goes("public", "send", "listOut") /\ UNCHANGED <<tables, life, fault, expired, loc>>
    BY <1>3 DEF SendIn
  <2>2. LocalAt("public", "listOut", loc["public"])
    BY <1>1, TwoThreads DEF LocalAt, TypedAt, Calm, CalmAt, PublicLabels
  <2>3. QED
    BY <2>1, <2>2, QuietGo, TwoThreads
<1>4. ASSUME SendNew PROVE TInv'
  <2>1. Goes("private", "sendNew", "listOut") /\ UNCHANGED <<tables, life, fault, expired, loc>>
    BY <1>4 DEF SendNew
  <2>2. LocalAt("private", "listOut", loc["private"])
    BY <1>1, <2>1, TwoThreads DEF Goes, LocalAt, TypedAt, Calm, CalmAt, Searching, PrivateLabels
  <2>3. QED
    BY <2>1, <2>2, QuietGo, TwoThreads
<1>5. ASSUME SendOut PROVE TInv'
  <2>1. /\ Goes("private", "send", Admitting)
        /\ UNCHANGED <<tables, life, fault, expired, loc>>
    BY <1>5 DEF SendOut
  <2>2. pc["private"] = "send"
    BY <2>1 DEF Goes
  <2>3. Admitting \in {"delete", "admit"} /\ (Exclusive => Admitting = "admit")
    BY DEF Admitting, Exclusive
  <2>4. LocalAt("private", Admitting, loc["private"])
    BY <1>1, <2>2, <2>3, TwoThreads DEF LocalAt, TypedAt, Calm, CalmAt, Searching, PrivateLabels
  <2>5. QED
    BY <2>1, <2>4, QuietGo, TwoThreads
<1>6. ASSUME NEW t \in Threads, Traces(t) PROVE TInv'
  <2>1. UNCHANGED <<tables, life, fault, expired, loc>>
    BY <1>6 DEF Traces, Quiet, Silent, Keeps
  <2>2. CASE Goes(t, "listOut", "listIn")
    <3>1. LocalAt(t, "listIn", loc[t])
      BY <1>1, <2>2, TwoThreads
      DEF Goes, LocalAt, TypedAt, Calm, CalmAt, Searching, PrivateLabels, PublicLabels
    <3>2. QED
      BY <2>1, <2>2, <3>1, QuietGo
  <2>3. CASE Goes(t, "listIn", "test")
    <3>1. LocalAt(t, "test", loc[t])
      BY <1>1 DEF LocalAt, TypedAt, Calm, CalmAt, Searching, PrivateLabels, PublicLabels
    <3>2. QED
      BY <2>1, <2>3, <3>1, QuietGo
  <2>4. QED
    BY <1>6, <2>2, <2>3 DEF Traces
<1>7. QED
  BY <1>2, <1>3, <1>4, <1>5, <1>6

LEMMA FindInInv ==
  ASSUME TInv, FindIn
  PROVE  TInv'
<1> DEFINE L   == loc["public"]
           key == FilterKey(L.pk)
           found == key \in DOMAIN mIncommingTable
           idx == IF found THEN Position(mIncommingTable, key) ELSE 0
           to  == IF found THEN "getIn" ELSE "listOut"
           l   == [L EXCEPT !.inKey = key, !.inIdx = idx]
<1>1. Shared /\ L \in Locally /\ LocalAt("public", pc["public"], L) /\ IsFiniteSet(DOMAIN mIncommingTable)
  BY TwoThreads DEF TInv, Shared, Handlers
<1>2. key \in TrafficId
  BY <1>1, SharedTypes, KeyTypes DEF Locally, FilterKey
<1>3. idx \in Nat /\ (found => Held(mIncommingTable, idx))
  BY <1>1, SharedTypes, PositionFacts
<1>4. /\ Goes("public", "findIn", to) /\ loc' = [loc EXCEPT !["public"] = l]
      /\ UNCHANGED <<tables, life, fault, expired>>
  BY DEF FindIn, Sets, Quiet, Silent
<1> HIDE DEF L, key, found, idx
<1>5. l \in Locally /\ l.outRef = L.outRef /\ l.inRef = L.inRef /\ l.inIdx = idx
  BY <1>1, <1>2, <1>3 DEF Locally
<1>6. to \in {"getIn", "listOut"} /\ (to = "getIn" => found)
  OBVIOUS
<1> HIDE DEF l, to
<1>7. LocalAt("public", to, l)
  BY <1>1, <1>3, <1>5, <1>6 DEF LocalAt, TypedAt, Calm, CalmAt, PublicLabels
<1>8. QED
  BY <1>4, <1>5, <1>7, QuietStep, TwoThreads

LEMMA GetInInv ==
  ASSUME TInv, GetIn
  PROVE  TInv'
<1> DEFINE L   == loc["public"]
           ref == Ref(At(mIncommingTable, L.inIdx))
           l   == [L EXCEPT !.inRef = ref]
<1>1. Shared /\ L \in Locally /\ LocalAt("public", pc["public"], L) /\ IsFiniteSet(DOMAIN mIncommingTable)
  BY TwoThreads DEF TInv, Shared, Handlers
<1>2. At(mIncommingTable, L.inIdx) \in DOMAIN mIncommingTable
  BY <1>1, SharedTypes, PositionFacts DEF GetIn, Locally
<1>3. ref.live /\ ref.key \in DOMAIN mIncommingTable /\ ref \in [key : TrafficId, live : BOOLEAN]
  BY <1>1, <1>2, SharedTypes DEF Ref
<1>4. /\ Goes("public", "getIn", "findOut") /\ loc' = [loc EXCEPT !["public"] = l]
      /\ UNCHANGED <<tables, life, fault, expired>>
  BY DEF GetIn, Sets, Quiet, Silent
<1> HIDE DEF L, ref
<1>5. l \in Locally /\ l.outRef = L.outRef /\ l.inRef = ref
  BY <1>1, <1>3 DEF Locally
<1> HIDE DEF l
<1>6. LocalAt("public", "findOut", l)
  BY <1>1, <1>3, <1>5 DEF LocalAt, TypedAt, Calm, CalmAt, PublicLabels
<1>7. QED
  BY <1>4, <1>5, <1>6, QuietStep, TwoThreads

LEMMA GetOutInv ==
  ASSUME TInv, NEW t \in Threads, GetOut(t)
  PROVE  TInv'
<1> DEFINE L   == loc[t]
           ref == Ref(At(mOutgoingTable, L.outIdx))
           l   == [L EXCEPT !.outRef = ref]
<1>1. Shared /\ L \in Locally /\ LocalAt(t, pc[t], L) /\ IsFiniteSet(DOMAIN mOutgoingTable)
  BY DEF TInv, Shared, Handlers
<1>2. At(mOutgoingTable, L.outIdx) \in DOMAIN mOutgoingTable
  BY <1>1, SharedTypes, PositionFacts DEF GetOut, Locally
<1>3. ref.live /\ ref.key \in DOMAIN mOutgoingTable /\ ref \in [key : TrafficId, live : BOOLEAN]
  BY <1>1, <1>2, SharedTypes DEF Ref
<1>4. /\ Goes(t, "getOut", "check") /\ loc' = [loc EXCEPT ![t] = l] /\ pc[t] = "getOut"
      /\ UNCHANGED <<tables, life, fault, expired>>
  BY DEF GetOut, Sets, Quiet, Silent, Goes
<1> HIDE DEF L, ref
<1>5. /\ l \in Locally /\ l.outRef = ref /\ l.inRef = L.inRef /\ l.pk = L.pk /\ l.key = L.key
  BY <1>1, <1>3 DEF Locally
<1> HIDE DEF l
<1>6. LocalAt(t, "check", l)
  BY <1>1, <1>3, <1>4, <1>5 DEF LocalAt, TypedAt, Calm, CalmAt, PublicLabels, PrivateLabels, Searching
<1>7. QED
  BY <1>4, <1>5, <1>6, QuietStep

\* FindItem(outgoingPk), in both handlers.
LEMMA FindOutInv ==
  ASSUME TInv, NEW t \in Threads, NEW missing, missing = (IF t = "private" THEN "search" ELSE "send"),
         FindOut(t, "getOut", missing)
  PROVE  TInv'
<1> DEFINE L   == loc[t]
           d   == mIncommingTable[L.inRef.key]
           key == IF t = "private" THEN L.key ELSE OutgoingPk(d.ip, d.port, L.pk.src, L.pk.sport)
           found == key \in DOMAIN mOutgoingTable
           idx == Position(mOutgoingTable, key)
           m   == [L EXCEPT !.key = key]
<1>1. Shared /\ L \in Locally /\ LocalAt(t, pc[t], L) /\ IsFiniteSet(DOMAIN mOutgoingTable)
  BY DEF TInv, Shared, Handlers
<1>2. /\ t = "public" => L.inRef.live
      /\ Goes(t, "findOut", IF found THEN "getOut" ELSE missing) /\ pc[t] = "findOut"
      /\ UNCHANGED <<tables, life, fault, expired>>
      /\ IF found THEN loc' = [loc EXCEPT ![t] = [m EXCEPT !.outIdx = idx]]
         ELSE \E ini \in (IF t = "private" THEN Starts ELSE {0}) :
                loc' = [loc EXCEPT ![t] = [m EXCEPT !.ini = ini, !.i = ini]]
  BY DEF FindOut, Sets, Quiet, Silent, Goes
<1>3. key \in TrafficId
  <2>1. CASE t = "private"
    BY <1>1, <2>1 DEF Locally
  <2>2. CASE t # "private"
    <3>1. L.inRef.key \in DOMAIN mIncommingTable
      BY <1>1, <1>2, <2>2, TwoThreads DEF LocalAt, TypedAt, Calm
    <3>2. d.ip \in Nat /\ d.port \in Nat
      BY <1>1, <3>1, SharedTypes
    <3>3. QED
      BY <1>1, <2>2, <3>2, SharedTypes, KeyTypes DEF Locally
  <2>3. QED
    BY <2>1, <2>2
<1>4. found => idx \in Nat /\ Held(mOutgoingTable, idx)
  BY <1>1, SharedTypes, PositionFacts
<1> HIDE DEF L, d, key, idx
<1>5. /\ m \in Locally /\ m.outRef = L.outRef /\ m.inRef = L.inRef /\ m.pk = L.pk /\ m.key = key
  BY <1>1, <1>3 DEF Locally
<1> HIDE DEF m
<1>6. CASE found
  <2> DEFINE l == [m EXCEPT !.outIdx = idx]
  <2>1. /\ l \in Locally /\ l.outRef = m.outRef /\ l.inRef = m.inRef /\ l.pk = m.pk
        /\ l.key = m.key /\ l.outIdx = idx
    BY <1>4, <1>5, <1>6 DEF Locally
  <2> HIDE DEF l
  <2>2. LocalAt(t, "getOut", l)
    BY <1>1, <1>2, <1>4, <1>5, <1>6, <2>1
    DEF LocalAt, TypedAt, Calm, CalmAt, PublicLabels, PrivateLabels, Searching
  <2>3. QED
    BY <1>2, <1>6, <2>1, <2>2, QuietStep DEF l
<1>7. CASE ~found
  <2>1. PICK ini \in (IF t = "private" THEN Starts ELSE {0}) :
          loc' = [loc EXCEPT ![t] = [m EXCEPT !.ini = ini, !.i = ini]]
    BY <1>2, <1>7
  <2>2. ini \in 0 .. (N - 1)
    BY ConstantTypes DEF Starts
  <2> DEFINE l == [m EXCEPT !.ini = ini, !.i = ini]
  <2>3. /\ l \in Locally /\ l.outRef = m.outRef /\ l.inRef = m.inRef /\ l.pk = m.pk
        /\ l.key = m.key
    BY <1>5, <2>2 DEF Locally
  <2> HIDE DEF l
  <2>4. LocalAt(t, missing, l)
    BY <1>1, <1>2, <1>5, <1>7, <2>3, TwoThreads
    DEF LocalAt, TypedAt, Calm, CalmAt, PublicLabels, PrivateLabels, Searching
  <2>5. QED
    BY <1>2, <1>7, <2>1, <2>3, <2>4, QuietStep DEF l
<1>8. QED
  BY <1>6, <1>7

-----------------------------------------------------------------------------
(* Steps after a timeout, or with overloading.                             *)

LEMMA NoPacketType == NoPacket \in Locally /\ ~NoPacket.outRef.live /\ ~NoPacket.inRef.live
<1>1. /\ 0 \in 0 .. MaxLate /\ 0 \in 0 .. (N - 1) /\ 0 \in Ports /\ NoIP \in Nat
      /\ <<NoIP, 0, NoIP, 0>> \in TrafficId
  BY ConstantTypes, BoundAssumption, PortAssumption DEF TrafficId, Ports, NoIP
<1>2. QED
  BY <1>1 DEF NoPacket, Locals, Locally, NoRef

\* Only the types matter then.
LEMMA UncalmInv ==
  ASSUME Shared', Stopped', ~Calm', \A u \in Threads : TypedAt(u, pc[u], loc[u])'
  PROVE  TInv'
BY DEF TInv, Handlers, LocalAt, Ledger, CalmFault, PortsHeld, FreshBindingExclusive,
       BindingExclusive, Calm

\* Entries may go then, with the references to them, and ports may be freed.
LEMMA UncalmStep ==
  ASSUME TInv, ~Calm, NEW t \in Threads, NEW from, NEW to, Goes(t, from, to),
         UNCHANGED <<life, fault>>, expired' \in Nat, expired' >= expired,
         IsTable(mOutgoingTable', OutBinding), IsFiniteSet(DOMAIN mOutgoingTable'),
         DOMAIN mOutgoingTable' \subseteq DOMAIN mOutgoingTable,
         IsTable(mIncommingTable', Target), IsFiniteSet(DOMAIN mIncommingTable'),
         DOMAIN mAvailablePorts' = DOMAIN mAvailablePorts,
         mAvailablePorts' \in [DOMAIN mAvailablePorts -> SUBSET Bits],
         loc' \in [Threads -> Locally],
         \A u \in Threads :
           /\ loc'[u].pk = loc[u].pk /\ loc'[u].key = loc[u].key /\ loc'[u].ip = loc[u].ip
           /\ loc'[u].outRef.live => /\ loc[u].outRef.live
                                     /\ loc'[u].outRef.key \in DOMAIN mOutgoingTable'
           /\ loc'[u].inRef.live => /\ loc[u].inRef.live
                                    /\ loc'[u].inRef.key \in DOMAIN mIncommingTable',
         to \in (IF t = "private" THEN PrivateLabels ELSE PublicLabels),
         from \notin {"test", "wait"}, to # "bind", to \in Searching => from \in Searching
  PROVE  TInv'
<1>1. /\ mThread[t] = "loop" /\ pc[t] = from /\ pc' = [pc EXCEPT ![t] = to]
      /\ UNCHANGED <<mConfig, mThread, mTerminate, main, fault>>
  BY DEF Goes, life
<1>2. /\ pc \in [Threads -> PrivateLabels \cup PublicLabels]
      /\ mThread \in [Threads -> {"none", "loop", "exited"}]
      /\ expired \in Nat
  BY DEF TInv, Shared
<1>3. Shared'
  BY <1>1, <1>2 DEF TInv, Shared
<1>4. Stopped'
  <2>1. \A u \in Threads : mThread'[u] # "loop" => u # t /\ pc'[u] = pc[u]
    BY <1>1, <1>2
  <2>2. QED
    BY <1>1, <2>1 DEF TInv, Stopped
<1>5. ~Calm'
  BY <1>1, <1>2 DEF Calm, Exclusive
<1>6. ASSUME NEW u \in Threads PROVE TypedAt(u, pc[u], loc[u])'
  <2>1. TypedAt(u, pc[u], loc[u])
    BY DEF TInv, Handlers, LocalAt
  <2>2. CASE u = t
    BY <1>1, <1>2, <2>1, <2>2 DEF TypedAt
  <2>3. CASE u # t
    <3>1. pc'[u] = pc[u]
      BY <1>1, <2>3
    <3>2. QED
      BY <2>1, <3>1 DEF TypedAt
  <2>4. QED
    BY <2>2, <2>3
<1>7. QED
  BY <1>3, <1>4, <1>5, <1>6, UncalmInv

LEMMA DropIncommingFacts ==
  ASSUME TInv, NEW K, DropIncomming(K)
  PROVE  /\ IsTable(mIncommingTable', Target) /\ IsFiniteSet(DOMAIN mIncommingTable')
         /\ loc' \in [Threads -> Locally]
         /\ \A u \in Threads :
              /\ loc'[u].pk = loc[u].pk /\ loc'[u].key = loc[u].key /\ loc'[u].ip = loc[u].ip
              /\ loc'[u].outRef = loc[u].outRef
              /\ loc'[u].inRef.live => /\ loc[u].inRef.live
                                       /\ loc'[u].inRef.key \in DOMAIN mIncommingTable'
<1>1. mIncommingTable' = Without(mIncommingTable, K)
  BY DEF DropIncomming
<1>2. /\ IsTable(mIncommingTable, Target) /\ IsFiniteSet(DOMAIN mIncommingTable)
      /\ loc \in [Threads -> Locally]
      /\ \A u \in Threads : loc[u].inRef.live => loc[u].inRef.key \in DOMAIN mIncommingTable
  BY DEF TInv, Shared, Handlers, LocalAt, TypedAt
<1>3. IsTable(mIncommingTable', Target)
  BY <1>1, <1>2, WithoutType
<1>4. DOMAIN mIncommingTable' = DOMAIN mIncommingTable \ K
  BY <1>1 DEF Without
<1>5. IsFiniteSet(DOMAIN mIncommingTable')
  BY <1>2, <1>4, FS_Subset
<1>6. ASSUME NEW u \in Threads
      PROVE  /\ loc'[u] = [loc[u] EXCEPT !.inRef = Dies(loc[u].inRef, K)]
             /\ loc[u] \in Locally
             /\ Dies(loc[u].inRef, K) \in [key : TrafficId, live : BOOLEAN]
             /\ Dies(loc[u].inRef, K).live => /\ loc[u].inRef.live
                                              /\ Dies(loc[u].inRef, K).key \notin K
             /\ Dies(loc[u].inRef, K).key = loc[u].inRef.key
  <2>1. loc'[u] = [loc[u] EXCEPT !.inRef = Dies(loc[u].inRef, K)]
    BY DEF DropIncomming
  <2>2. loc[u] \in Locally /\ loc[u].inRef \in [key : TrafficId, live : BOOLEAN]
    BY <1>2 DEF Locally
  <2>3. QED
    BY <2>1, <2>2 DEF Dies
<1>7. loc' \in [Threads -> Locally]
  <2>1. ASSUME NEW u \in Threads PROVE loc'[u] \in Locally
    <3> DEFINE L == loc[u]
               r == Dies(loc[u].inRef, K)
    <3>1. L \in Locally /\ r \in [key : TrafficId, live : BOOLEAN]
      BY <1>6
    <3>2. loc'[u] = [L EXCEPT !.inRef = r]
      BY <1>6
    <3> HIDE DEF L, r
    <3>3. QED
      BY <3>1, <3>2 DEF Locally
  <2>2. QED
    BY <2>1 DEF DropIncomming
<1>8. ASSUME NEW u \in Threads
      PROVE  /\ loc'[u].pk = loc[u].pk /\ loc'[u].key = loc[u].key /\ loc'[u].ip = loc[u].ip
             /\ loc'[u].outRef = loc[u].outRef
             /\ loc'[u].inRef = Dies(loc[u].inRef, K)
  BY <1>6 DEF Locally
<1>9. QED
  BY <1>2, <1>3, <1>4, <1>5, <1>6, <1>7, <1>8

LEMMA DropOutgoingFacts ==
  ASSUME TInv, NEW K, DropOutgoing(K)
  PROVE  /\ IsTable(mOutgoingTable', OutBinding) /\ IsFiniteSet(DOMAIN mOutgoingTable')
         /\ DOMAIN mOutgoingTable' \subseteq DOMAIN mOutgoingTable
         /\ loc' \in [Threads -> Locally]
         /\ \A u \in Threads :
              /\ loc'[u].pk = loc[u].pk /\ loc'[u].key = loc[u].key /\ loc'[u].ip = loc[u].ip
              /\ loc'[u].inRef = loc[u].inRef
              /\ loc'[u].outRef.live => /\ loc[u].outRef.live
                                        /\ loc'[u].outRef.key \in DOMAIN mOutgoingTable'
<1>1. mOutgoingTable' = Without(mOutgoingTable, K)
  BY DEF DropOutgoing
<1>2. /\ IsTable(mOutgoingTable, OutBinding) /\ IsFiniteSet(DOMAIN mOutgoingTable)
      /\ loc \in [Threads -> Locally]
      /\ \A u \in Threads : loc[u].outRef.live => loc[u].outRef.key \in DOMAIN mOutgoingTable
  BY DEF TInv, Shared, Handlers, LocalAt, TypedAt
<1>3. IsTable(mOutgoingTable', OutBinding)
  BY <1>1, <1>2, WithoutType
<1>4. DOMAIN mOutgoingTable' = DOMAIN mOutgoingTable \ K
  BY <1>1 DEF Without
<1>5. IsFiniteSet(DOMAIN mOutgoingTable')
  BY <1>2, <1>4, FS_Subset
<1>6. ASSUME NEW u \in Threads
      PROVE  /\ loc'[u] = [loc[u] EXCEPT !.outRef = Dies(loc[u].outRef, K)]
             /\ loc[u] \in Locally
             /\ Dies(loc[u].outRef, K) \in [key : TrafficId, live : BOOLEAN]
             /\ Dies(loc[u].outRef, K).live => /\ loc[u].outRef.live
                                               /\ Dies(loc[u].outRef, K).key \notin K
             /\ Dies(loc[u].outRef, K).key = loc[u].outRef.key
  <2>1. loc'[u] = [loc[u] EXCEPT !.outRef = Dies(loc[u].outRef, K)]
    BY DEF DropOutgoing
  <2>2. loc[u] \in Locally /\ loc[u].outRef \in [key : TrafficId, live : BOOLEAN]
    BY <1>2 DEF Locally
  <2>3. QED
    BY <2>1, <2>2 DEF Dies
<1>7. loc' \in [Threads -> Locally]
  <2>1. ASSUME NEW u \in Threads PROVE loc'[u] \in Locally
    <3> DEFINE L == loc[u]
               r == Dies(loc[u].outRef, K)
    <3>1. L \in Locally /\ r \in [key : TrafficId, live : BOOLEAN]
      BY <1>6
    <3>2. loc'[u] = [L EXCEPT !.outRef = r]
      BY <1>6
    <3> HIDE DEF L, r
    <3>3. QED
      BY <3>1, <3>2 DEF Locally
  <2>2. QED
    BY <2>1 DEF DropOutgoing
<1>8. ASSUME NEW u \in Threads
      PROVE  /\ loc'[u].pk = loc[u].pk /\ loc'[u].key = loc[u].key /\ loc'[u].ip = loc[u].ip
             /\ loc'[u].inRef = loc[u].inRef
             /\ loc'[u].outRef = Dies(loc[u].outRef, K)
  BY <1>6 DEF Locally
<1>9. QED
  BY <1>2, <1>3, <1>4, <1>5, <1>6, <1>7, <1>8

\* At these labels nothing is calm.
LEMMA UncalmLabels ==
  ASSUME TInv, NEW t \in Threads,
         pc[t] \in {"clean", "free", "remove", "share", "unlist", "reserve", "delete"}
  PROVE  ~Calm
BY DEF TInv, Handlers, LocalAt, CalmAt

\* The facts of UncalmStep for what a step leaves alone.
LEMMA UnchangedFacts ==
  ASSUME TInv
  PROVE  /\ expired \in Nat /\ expired >= expired
         /\ IsTable(mOutgoingTable, OutBinding) /\ IsFiniteSet(DOMAIN mOutgoingTable)
         /\ IsTable(mIncommingTable, Target) /\ IsFiniteSet(DOMAIN mIncommingTable)
         /\ mAvailablePorts \in [DOMAIN mAvailablePorts -> SUBSET Bits]
         /\ loc \in [Threads -> Locally]
         /\ \A u \in Threads :
              /\ loc[u].outRef.live => loc[u].outRef.key \in DOMAIN mOutgoingTable
              /\ loc[u].inRef.live => loc[u].inRef.key \in DOMAIN mIncommingTable
BY DEF TInv, Shared, Handlers, LocalAt, TypedAt

\* The tearing down of an entry that timed out, call by call.
LEMMA TearDownInv ==
  ASSUME TInv, NEW t \in Threads, CleanEntry(t) \/ FreeEntry(t) \/ RemoveEntry(t)
  PROVE  TInv'
<1>1. ASSUME CleanEntry(t) PROVE TInv'
  <2>1. /\ Goes(t, "clean", "free") /\ pc[t] = "clean"
        /\ UNCHANGED <<life, fault, expired, mOutgoingTable, mAvailablePorts>>
    BY <1>1 DEF CleanEntry, Silent, Goes
  <2>2. PICK K : DropIncomming(K)
    BY <1>1 DEF CleanEntry
  <2>3. ~Calm
    BY <2>1, UncalmLabels
  <2>4. "free" \in (IF t = "private" THEN PrivateLabels ELSE PublicLabels)
    BY DEF PrivateLabels, PublicLabels
  <2>5. QED
    BY <2>1, <2>2, <2>3, <2>4, DropIncommingFacts, UnchangedFacts, UncalmStep DEF Searching
<1>2. ASSUME FreeEntry(t) PROVE TInv'
  <2>1. /\ Goes(t, "free", "remove") /\ pc[t] = "free"
        /\ UNCHANGED <<life, fault, expired, mOutgoingTable, mIncommingTable, loc>>
    BY <1>2 DEF FreeEntry, Silent, Goes, Keeps
  <2>2. /\ DOMAIN mAvailablePorts' = DOMAIN mAvailablePorts
        /\ mAvailablePorts' \in [DOMAIN mAvailablePorts -> SUBSET Bits]
    BY <1>2, UnchangedFacts DEF FreeEntry, FreePort
  <2>3. ~Calm
    BY <2>1, UncalmLabels
  <2>4. "remove" \in (IF t = "private" THEN PrivateLabels ELSE PublicLabels)
    BY DEF PrivateLabels, PublicLabels
  <2>5. QED
    BY <2>1, <2>2, <2>3, <2>4, UnchangedFacts, UncalmStep DEF Searching
<1>3. ASSUME RemoveEntry(t) PROVE TInv'
  <2>1. /\ Goes(t, "remove", "listOut") /\ pc[t] = "remove"
        /\ UNCHANGED <<life, fault, expired, mIncommingTable, mAvailablePorts>>
    BY <1>3 DEF RemoveEntry, Silent, Goes
  <2>2. PICK K : DropOutgoing(K)
    BY <1>3 DEF RemoveEntry
  <2>3. ~Calm
    BY <2>1, UncalmLabels
  <2>4. "listOut" \in (IF t = "private" THEN PrivateLabels ELSE PublicLabels)
    BY DEF PrivateLabels, PublicLabels
  <2>5. QED
    BY <2>1, <2>2, <2>3, <2>4, DropOutgoingFacts, UnchangedFacts, UncalmStep DEF Searching
<1>4. QED
  BY <1>1, <1>2, <1>3

\* The deletions that come with overloading.
LEMMA DeletionsInv ==
  ASSUME TInv,
         \/ DeleteIn
         \/ /\ Goes("private", "share", "unlist")
            /\ DropIncomming(Cleaned(mIncommingTable, deletePk))
            /\ Silent /\ UNCHANGED <<mOutgoingTable, mAvailablePorts>>
         \/ /\ Goes("private", "unlist", "reserve")
            /\ DropOutgoing({deletePk})
            /\ Silent /\ UNCHANGED <<mIncommingTable, mAvailablePorts>>
  PROVE  TInv'
<1>1. PICK from \in {"delete", "share", "unlist"}, to \in {"admit", "unlist", "reserve"} :
        /\ Goes("private", from, to) /\ UNCHANGED <<life, fault, expired, mAvailablePorts>>
        /\ to \in Searching => from \in Searching
        /\ \/ \E K : DropIncomming(K) /\ mOutgoingTable' = mOutgoingTable
           \/ \E K : DropOutgoing(K) /\ mIncommingTable' = mIncommingTable
  <2>1. CASE DeleteIn
    BY <2>1 DEF DeleteIn, Silent, Searching
  <2>2. QED
    BY <2>1 DEF Silent, Searching
<1>2. ~Calm /\ to \in PrivateLabels
  BY <1>1, UncalmLabels, TwoThreads DEF Goes, PrivateLabels
<1>3. CASE \E K : DropIncomming(K) /\ mOutgoingTable' = mOutgoingTable
  BY <1>1, <1>2, <1>3, DropIncommingFacts, UnchangedFacts, UncalmStep, TwoThreads
<1>4. CASE \E K : DropOutgoing(K) /\ mIncommingTable' = mIncommingTable
  BY <1>1, <1>2, <1>4, DropOutgoingFacts, UnchangedFacts, UncalmStep, TwoThreads
<1>5. QED
  BY <1>1, <1>3, <1>4

-----------------------------------------------------------------------------
(* Steps that add to the tables or reserve ports.                          *)

\* A longer table holds no fewer indices.
LEMMA HeldGrows ==
  ASSUME NEW tbl, NEW tbl2, IsFiniteSet(DOMAIN tbl2), DOMAIN tbl \subseteq DOMAIN tbl2,
         NEW Idx \in Nat, Held(tbl, Idx)
  PROVE  Held(tbl2, Idx)
<1>1. /\ IsFiniteSet(DOMAIN tbl) /\ Cardinality(DOMAIN tbl) <= Cardinality(DOMAIN tbl2)
  BY FS_Subset
<1>2. Cardinality(DOMAIN tbl) \in Nat /\ Cardinality(DOMAIN tbl2) \in Nat
  BY <1>1, FS_CardinalityType
<1>3. QED
  BY <1>1, <1>2 DEF Held

\* Thread t moves; the tables and the reserved ports only grow, and only the
\* private thread adds bindings and reserves.
LEMMA GrowStep ==
  ASSUME TInv, NEW t \in Threads, NEW from, NEW to, Goes(t, from, to),
         UNCHANGED <<life, fault, expired>>,
         loc' \in [Threads -> Locally], \A u \in Threads : u # t => loc'[u] = loc[u],
         IsTable(mOutgoingTable', OutBinding), IsFiniteSet(DOMAIN mOutgoingTable'),
         IsTable(mIncommingTable', Target), IsFiniteSet(DOMAIN mIncommingTable'),
         DOMAIN mOutgoingTable \subseteq DOMAIN mOutgoingTable',
         DOMAIN mIncommingTable \subseteq DOMAIN mIncommingTable',
         DOMAIN mAvailablePorts' = DOMAIN mAvailablePorts,
         mAvailablePorts' \in [DOMAIN mAvailablePorts -> SUBSET Bits],
         t = "public" => /\ mAvailablePorts' = mAvailablePorts
                         /\ DOMAIN mOutgoingTable' = DOMAIN mOutgoingTable
                         /\ \A o \in DOMAIN mOutgoingTable : Endpoint(o)' = Endpoint(o),
         LocalAt(t, pc[t], loc[t])', PortsHeld', FreshBindingExclusive'
  PROVE  TInv'
<1>1. /\ mThread[t] = "loop" /\ pc[t] = from /\ pc' = [pc EXCEPT ![t] = to]
      /\ UNCHANGED <<mConfig, mThread, mTerminate, main, fault, expired>>
  BY DEF Goes, life
<1>2. /\ pc \in [Threads -> PrivateLabels \cup PublicLabels]
      /\ loc \in [Threads -> Locally]
  BY DEF TInv, Shared
<1>3. /\ pc'[t] = to
      /\ \A u \in Threads : u # t => pc'[u] = pc[u] /\ loc'[u] = loc[u]
      /\ to \in PrivateLabels \cup PublicLabels
      /\ pc' \in [Threads -> PrivateLabels \cup PublicLabels]
  <2>1. pc'[t] = to /\ \A u \in Threads : u # t => pc'[u] = pc[u] /\ loc'[u] = loc[u]
    BY <1>1, <1>2
  <2>2. to \in PrivateLabels \cup PublicLabels
    BY <2>1 DEF LocalAt, TypedAt
  <2>3. QED
    BY <1>1, <1>2, <2>1, <2>2
<1>4. Shared'
  BY <1>1, <1>3 DEF TInv, Shared
<1>5. Stopped'
  <2>1. \A u \in Threads : mThread'[u] # "loop" => u # t /\ pc'[u] = pc[u] /\ loc'[u] = loc[u]
    BY <1>1, <1>3
  <2>2. mThread["private"] = "none" => DOMAIN mOutgoingTable' = DOMAIN mOutgoingTable
    BY <1>1, TwoThreads
  <2>3. QED
    BY <1>1, <2>1, <2>2 DEF TInv, Stopped
<1>6. Handlers'
  <2> SUFFICES ASSUME NEW u \in Threads, u # t PROVE LocalAt(u, pc[u], loc[u])'
    BY DEF Handlers
  <2> DEFINE L == loc[u]
  <2>1. LocalAt(u, pc[u], L) /\ pc'[u] = pc[u] /\ loc'[u] = L /\ L \in Locally
    BY <1>2, <1>3 DEF TInv, Handlers
  <2>2. L.outIdx \in Nat /\ L.inIdx \in Nat
    BY <2>1 DEF Locally
  <2>3. /\ Held(mOutgoingTable, L.outIdx) => Held(mOutgoingTable', L.outIdx)
        /\ Held(mIncommingTable, L.inIdx) => Held(mIncommingTable', L.inIdx)
    <3> HIDE DEF L
    <3>1. QED
      BY <2>2, HeldGrows
  <2>4. u = "private" => /\ mAvailablePorts' = mAvailablePorts
                         /\ DOMAIN mOutgoingTable' = DOMAIN mOutgoingTable
                         /\ \A o \in DOMAIN mOutgoingTable : Endpoint(o)' = Endpoint(o)
    BY TwoThreads
  <2> HIDE DEF L
  <2>5. Calm' <=> Calm
    BY <1>1 DEF Calm, Exclusive
  <2>6. TypedAt(u, pc[u], loc[u])'
    BY <2>1, <2>4 DEF LocalAt, TypedAt
  <2>7. Calm => CalmAt(u, pc[u], loc[u])'
    BY <2>1, <2>3, <2>4 DEF LocalAt, CalmAt
  <2>8. QED
    BY <2>5, <2>6, <2>7 DEF LocalAt
<1>7. CalmFault'
  BY <1>1 DEF TInv, Ledger, CalmFault, Exclusive
<1>8. QED
  BY <1>4, <1>5, <1>6, <1>7 DEF TInv, Ledger

\* The ledger of a step that changes neither a binding's endpoint nor a port.
LEMMA LedgerKept ==
  ASSUME TInv, UNCHANGED <<mConfig, mAvailablePorts, expired>>,
         DOMAIN mOutgoingTable' = DOMAIN mOutgoingTable,
         \A o \in DOMAIN mOutgoingTable : Endpoint(o)' = Endpoint(o),
         pc["private"] = "bind" => /\ pc'["private"] = "bind"
                                   /\ loc'["private"].ip = loc["private"].ip
                                   /\ loc'["private"].port = loc["private"].port
  PROVE  PortsHeld' /\ FreshBindingExclusive'
<1>1. FreshBindingExclusive'
  BY DEF TInv, Ledger, FreshBindingExclusive, BindingExclusive, Exclusive
<1>2. ASSUME expired' = 0, Exclusive',
             NEW o \in DOMAIN mOutgoingTable
      PROVE  /\ mOutgoingTable'[o].ip \in DOMAIN mAvailablePorts
             /\ mOutgoingTable'[o].port \in mAvailablePorts[mOutgoingTable'[o].ip]
  <2>1. /\ mOutgoingTable[o].ip \in DOMAIN mAvailablePorts
        /\ mOutgoingTable[o].port \in mAvailablePorts[mOutgoingTable[o].ip]
    BY <1>2 DEF TInv, Ledger, PortsHeld, Exclusive
  <2>2. /\ mOutgoingTable'[o].ip = mOutgoingTable[o].ip
        /\ mOutgoingTable'[o].port = mOutgoingTable[o].port
    BY DEF Endpoint
  <2>3. QED
    BY <2>1, <2>2
<1>3. ASSUME expired' = 0, Exclusive',
             NEW ip \in DOMAIN mAvailablePorts, NEW port \in mAvailablePorts[ip]
      PROVE  \/ port >= MaxPort
             \/ \E o \in DOMAIN mOutgoingTable : Endpoint(o)' = <<ip, port>>
             \/ pc'["private"] = "bind" /\ <<P.ip, P.port>>' = <<ip, port>>
  BY <1>3 DEF TInv, Ledger, PortsHeld, Exclusive, P
<1>4. QED
  BY <1>1, <1>2, <1>3 DEF PortsHeld

LEMMA RefreshEntryInv ==
  ASSUME TInv, NEW t \in Threads, RefreshEntry(t)
  PROVE  TInv'
<1>1. /\ Goes(t, "refresh", "send") /\ pc[t] = "refresh" /\ pc' = [pc EXCEPT ![t] = "send"]
      /\ UNCHANGED <<life, fault, expired, mIncommingTable, mAvailablePorts, loc>>
      /\ UNCHANGED mConfig
  BY DEF RefreshEntry, Silent, Goes, Keeps, life
<1>2. /\ Shared /\ IsTable(mOutgoingTable, OutBinding) /\ IsFiniteSet(DOMAIN mOutgoingTable)
      /\ loc[t] \in Locally /\ LocalAt(t, pc[t], loc[t])
      /\ pc \in [Threads -> PrivateLabels \cup PublicLabels]
  BY DEF TInv, Shared, Handlers
<1>3. /\ IsTable(mOutgoingTable', OutBinding)
      /\ DOMAIN mOutgoingTable' = DOMAIN mOutgoingTable
      /\ \A o \in DOMAIN mOutgoingTable : Endpoint(o)' = Endpoint(o)
  <2>1. CASE Held(mOutgoingTable, loc[t].outIdx)
    <3> DEFINE k == At(mOutgoingTable, loc[t].outIdx)
               e == [mOutgoingTable[k] EXCEPT !.age = 0]
    <3>1. k \in DOMAIN mOutgoingTable
      BY <1>2, <2>1, SharedTypes, PositionFacts DEF Locally
    <3>2. mOutgoingTable' = Put(mOutgoingTable, k, e)
      BY <2>1 DEF RefreshEntry, UpdateLastTrafficTime
    <3>3. mOutgoingTable[k] \in OutBinding /\ 0 \in 0 .. MaxAge
      BY <1>2, <3>1, BoundAssumption DEF IsTable
    <3> HIDE DEF k
    <3>4. /\ e \in OutBinding /\ e.ip = mOutgoingTable[k].ip
          /\ e.port = mOutgoingTable[k].port
      BY <3>3 DEF OutBinding
    <3>5. k \in TrafficId
      BY <1>2, <3>1, SharedTypes
    <3> HIDE DEF e
    <3>6. IsTable(mOutgoingTable', OutBinding)
      BY <1>2, <3>2, <3>4, <3>5, PutType
    <3>7. QED
      BY <3>1, <3>2, <3>4, <3>6 DEF Put, Endpoint
  <2>2. CASE ~Held(mOutgoingTable, loc[t].outIdx)
    BY <1>2, <2>2 DEF RefreshEntry, Endpoint
  <2>3. QED
    BY <2>1, <2>2
<1>4. LocalAt(t, pc[t], loc[t])'
  <2>1. pc'[t] = "send"
    BY <1>1, <1>2
  <2>2. QED
    BY <1>1, <1>2, <1>3, <2>1, TwoThreads
    DEF LocalAt, TypedAt, Calm, CalmAt, Exclusive, Searching, PrivateLabels, PublicLabels
<1>5. PortsHeld' /\ FreshBindingExclusive'
  <2>1. pc["private"] = "bind" => pc'["private"] = "bind"
    BY <1>1, <1>2, TwoThreads
  <2>2. QED
    BY <1>1, <1>3, <2>1, LedgerKept
<1>6. QED
  BY <1>1, <1>2, <1>3, <1>4, <1>5, UnchangedFacts, GrowStep

LEMMA AdmitInInv ==
  ASSUME TInv, AdmitIn
  PROVE  TInv'
<1> DEFINE to  == IF P.fresh THEN "sendNew" ELSE "listOut"
           e   == [ip |-> P.pk.src, port |-> P.pk.sport, reverse |-> P.key]
           inc == InsertTraffic(mIncommingTable, P.inKey, e)
<1>1. /\ Goes("private", "admit", to) /\ pc["private"] = "admit"
      /\ pc' = [pc EXCEPT !["private"] = to] /\ mIncommingTable' = inc
      /\ UNCHANGED <<life, fault, expired, mOutgoingTable, mAvailablePorts, loc>>
      /\ UNCHANGED mConfig
  BY DEF AdmitIn, Silent, Goes, Keeps, life
<1>2. /\ IsTable(mIncommingTable, Target) /\ IsFiniteSet(DOMAIN mIncommingTable)
      /\ P \in Locally /\ LocalAt("private", pc["private"], P)
      /\ pc \in [Threads -> PrivateLabels \cup PublicLabels]
  BY TwoThreads DEF TInv, Shared, Handlers, P
<1>3. P.pk \in OutPackets
  BY <1>1, <1>2 DEF LocalAt, TypedAt
<1>4. e \in Target /\ P.inKey \in TrafficId
  BY <1>2, <1>3 DEF Target, Locally, OutPackets, Packet
<1> HIDE DEF e
<1>5. IsTable(inc, Target)
  BY <1>2, <1>4, InsertType
<1>6. DOMAIN inc = DOMAIN mIncommingTable \cup {P.inKey}
  BY DEF InsertTraffic, Put
<1>7. IsFiniteSet(DOMAIN mIncommingTable')
  BY <1>1, <1>2, <1>6, FS_AddElement
<1>8. to \in {"sendNew", "listOut"}
  OBVIOUS
<1> HIDE DEF to, inc
<1>9. LocalAt("private", pc["private"], loc["private"])'
  <2>1. pc'["private"] = to
    BY <1>1, <1>2, TwoThreads
  <2>2. QED
    BY <1>1, <1>2, <1>6, <1>8, <2>1
    DEF LocalAt, TypedAt, Calm, CalmAt, Exclusive, Searching, PrivateLabels, P
<1>10. PortsHeld' /\ FreshBindingExclusive'
  BY <1>1, LedgerKept DEF Endpoint
<1>11. QED
  BY <1>1, <1>5, <1>6, <1>7, <1>9, <1>10, UnchangedFacts, GrowStep, TwoThreads

\* A port is taken: until a timeout, and without overloading, one nobody holds.
LEMMA TakesInv ==
  ASSUME TInv, NEW from \in Searching \ {"bind"}, NEW port \in Ports, NEW ports,
         Takes(from, port, ports),
         \/ from = "reserve" /\ ports = ReserverPort(IP, port)
         \/ IsFree(IP, port) /\ ports = ReserverPort(IP, port)
         \/ IsFree(IP, port) /\ ports = ReserveFirst({}, IP, port)
  PROVE  TInv'
<1> DEFINE inKey == IncommingPk(P.pk.dst, P.pk.dport, IP, port)
           l == [P EXCEPT !.ip = IP, !.port = port, !.fresh = TRUE, !.inKey = inKey]
<1>1. /\ Goes("private", from, "bind") /\ pc["private"] = from
      /\ pc' = [pc EXCEPT !["private"] = "bind"] /\ loc' = [loc EXCEPT !["private"] = l]
      /\ mAvailablePorts' = ports
      /\ UNCHANGED <<life, fault, expired, mOutgoingTable, mIncommingTable>>
      /\ UNCHANGED mConfig
  BY DEF Takes, Silent, Goes, Sets, life
<1>2. /\ Shared /\ P \in Locally /\ LocalAt("private", pc["private"], P)
      /\ loc \in [Threads -> Locally]
      /\ mAvailablePorts \in [DOMAIN mAvailablePorts -> SUBSET Bits]
      /\ pc \in [Threads -> PrivateLabels \cup PublicLabels]
  BY TwoThreads DEF TInv, Shared, Handlers, P
<1>3. IP \in NatIPs /\ IP \in Nat /\ port \in Nat /\ port \in Bits
  <2>1. P.i \in Nat
    BY <1>2, ConstantTypes DEF Locally
  <2>2. QED
    BY <2>1, IPAtType, ConstantTypes DEF IP
<1>4. inKey \in TrafficId
  <2>1. P.pk.dst \in Nat /\ P.pk.dport \in Nat
    BY <1>2 DEF Locally
  <2>2. QED
    BY <1>2, <1>3, <2>1, SharedTypes, KeyTypes
<1>5. /\ DOMAIN ports = DOMAIN mAvailablePorts
      /\ \A x \in DOMAIN mAvailablePorts :
           ports[x] = mAvailablePorts[x] \cup (IF x = IP THEN {port} ELSE {})
      /\ ports \in [DOMAIN mAvailablePorts -> SUBSET Bits]
  <2> SUFFICES ASSUME ports = ReserverPort(IP, port) \/ ports = ReserveFirst({}, IP, port)
               PROVE  <1>5!1 /\ <1>5!2 /\ <1>5!3
    OBVIOUS
  <2>1. /\ DOMAIN ports = DOMAIN mAvailablePorts
        /\ ports = [x \in DOMAIN mAvailablePorts |->
                      mAvailablePorts[x] \cup (IF x = IP THEN {port} ELSE {})]
    BY DEF ReserverPort, ReserveFirst, Exhaust
  <2>2. \A x \in DOMAIN mAvailablePorts :
          mAvailablePorts[x] \cup (IF x = IP THEN {port} ELSE {}) \in SUBSET Bits
    BY <1>2, <1>3
  <2>3. QED
    BY <2>1, <2>2
<1> HIDE DEF inKey
<1>6. /\ l \in Locally /\ l.outRef = P.outRef /\ l.inRef = P.inRef /\ l.pk = P.pk
      /\ l.key = P.key /\ l.ip = IP /\ l.port = port
  BY <1>2, <1>3, <1>4 DEF Locally
<1> HIDE DEF l
<1>7. /\ loc' \in [Threads -> Locally] /\ loc'["private"] = l /\ pc'["private"] = "bind"
      /\ \A u \in Threads : u # "private" => loc'[u] = loc[u]
  BY <1>1, <1>2, <1>6, TwoThreads
<1>8. Calm => /\ IP \in DOMAIN mAvailablePorts /\ port \notin mAvailablePorts[IP]
              /\ \A o \in DOMAIN mOutgoingTable : Endpoint(o) # <<IP, port>>
  <2> SUFFICES ASSUME Calm
               PROVE  /\ IP \in DOMAIN mAvailablePorts /\ port \notin mAvailablePorts[IP]
                      /\ \A o \in DOMAIN mOutgoingTable : Endpoint(o) # <<IP, port>>
    OBVIOUS
  <2>1. from # "reserve"
    BY <1>1, <1>2 DEF LocalAt, CalmAt
  <2>2. IP \in DOMAIN mAvailablePorts /\ port \notin mAvailablePorts[IP]
    BY <2>1 DEF IsFree
  <2>3. \A o \in DOMAIN mOutgoingTable :
          mOutgoingTable[o].port \in mAvailablePorts[mOutgoingTable[o].ip]
    BY DEF TInv, Ledger, PortsHeld, Calm
  <2>4. QED
    BY <2>2, <2>3 DEF Endpoint
<1>9. TypedAt("private", pc["private"], loc["private"])'
  BY <1>1, <1>2, <1>3, <1>6, <1>7 DEF LocalAt, TypedAt, Searching, PrivateLabels
<1>10. Calm' => CalmAt("private", pc["private"], loc["private"])'
  <2>1. Calm' <=> Calm
    BY <1>1 DEF Calm, Exclusive
  <2>2. QED
    BY <1>1, <1>5, <1>6, <1>7, <1>8, <2>1 DEF CalmAt, Endpoint
<1>11. FreshBindingExclusive'
  BY <1>1 DEF TInv, Ledger, FreshBindingExclusive, BindingExclusive, Exclusive, Endpoint
<1>12. PortsHeld'
  <2>1. ASSUME expired' = 0, Exclusive', NEW o \in DOMAIN mOutgoingTable
        PROVE  /\ mOutgoingTable[o].ip \in DOMAIN ports
               /\ mOutgoingTable[o].port \in ports[mOutgoingTable[o].ip]
    BY <1>1, <1>5, <2>1 DEF TInv, Ledger, PortsHeld, Exclusive
  <2>2. ASSUME expired' = 0, Exclusive', NEW x \in DOMAIN ports, NEW p \in ports[x]
        PROVE  \/ p >= MaxPort
               \/ \E o \in DOMAIN mOutgoingTable : Endpoint(o) = <<x, p>>
               \/ <<l.ip, l.port>> = <<x, p>>
    <3>1. CASE p \in mAvailablePorts[x]
      BY <1>1, <1>5, <2>2, <3>1 DEF TInv, Ledger, PortsHeld, Exclusive, Searching
    <3>2. CASE p \notin mAvailablePorts[x]
      BY <1>5, <1>6, <2>2, <3>2
    <3>3. QED
      BY <3>1, <3>2
  <2>3. P' = l
    BY <1>7 DEF P
  <2>4. QED
    BY <1>1, <1>7, <2>1, <2>2, <2>3 DEF PortsHeld, Endpoint
<1>13. LocalAt("private", pc["private"], loc["private"])'
  BY <1>9, <1>10 DEF LocalAt
<1>14. QED
  BY <1>1, <1>5, <1>7, <1>11, <1>12, <1>13, UnchangedFacts, GrowStep, TwoThreads

\* No port at this address: its array may be full now, and the search goes on.
LEMMA GoesOnInv ==
  ASSUME TInv, NEW round \in {"search", "again", "any"}, NEW ports, GoesOn(round, ports),
         ports = mAvailablePorts \/ (Exhausted(IP) /\ ports = Exhaust({IP}))
  PROVE  TInv'
<1>1. /\ pc["private"] = round /\ mAvailablePorts' = ports
      /\ UNCHANGED <<life, fault, expired, mOutgoingTable, mIncommingTable>>
      /\ UNCHANGED mConfig
  BY DEF GoesOn, Silent, Goes, life
<1>2. /\ Shared /\ P \in Locally /\ LocalAt("private", pc["private"], P)
      /\ loc \in [Threads -> Locally] /\ "private" \in Threads
      /\ mAvailablePorts \in [DOMAIN mAvailablePorts -> SUBSET Bits]
      /\ pc \in [Threads -> PrivateLabels \cup PublicLabels]
  BY TwoThreads DEF TInv, Shared, Handlers, P
<1>3. PICK to, ini, i :
        /\ to = round \/ to = AfterRound(round)
        /\ ini \in 0 .. (N - 1) /\ i \in 0 .. (N - 1)
        /\ Goes("private", round, to)
        /\ loc' = [loc EXCEPT !["private"] = [P EXCEPT !.i = i, !.ini = ini]]
  <2>1. N \in Nat \ {0} /\ P.i \in 0 .. (N - 1) /\ P.ini \in 0 .. (N - 1)
    BY <1>2, ConstantTypes DEF Locally
  <2>2. (P.i + 1) % N \in 0 .. (N - 1) /\ 0 \in 0 .. (N - 1)
    BY <2>1
  <2>3. CASE Goes("private", round, round) /\ Sets("private", [P EXCEPT !.i = (P.i + 1) % N])
    <3>1. [P EXCEPT !.i = (P.i + 1) % N] = [P EXCEPT !.i = (P.i + 1) % N, !.ini = P.ini]
      BY <1>2 DEF Locally
    <3>2. QED
      BY <2>1, <2>2, <2>3, <3>1 DEF Sets
  <2>4. CASE \E first \in {P.ini, 0} :
               /\ Goes("private", round, AfterRound(round))
               /\ Sets("private", [P EXCEPT !.i = first, !.ini = first])
    BY <2>1, <2>2, <2>4 DEF Sets
  <2>5. QED
    BY <2>3, <2>4 DEF GoesOn
<1> DEFINE l == [P EXCEPT !.i = i, !.ini = ini]
<1>4. /\ l \in Locally /\ l.outRef = P.outRef /\ l.inRef = P.inRef /\ l.pk = P.pk
      /\ l.key = P.key
  BY <1>2, <1>3 DEF Locally
<1>5. loc' = [loc EXCEPT !["private"] = l]
  BY <1>3
<1> HIDE DEF l
<1>6. /\ to \in {"search", "again", "any", "share", "listOut"}
      /\ to = "share" => ~Exclusive
  BY <1>3 DEF AfterRound, Exclusive
<1>7. /\ loc' \in [Threads -> Locally] /\ loc'["private"] = l /\ pc'["private"] = to
      /\ \A u \in Threads : u # "private" => loc'[u] = loc[u]
  BY <1>2, <1>3, <1>4, <1>5 DEF Goes
<1>8. LocalAt("private", pc["private"], loc["private"])'
  <2>1. TypedAt("private", pc["private"], loc["private"])'
    BY <1>1, <1>2, <1>4, <1>6, <1>7 DEF LocalAt, TypedAt, Searching, PrivateLabels
  <2>2. Calm' => CalmAt("private", pc["private"], loc["private"])'
    BY <1>1, <1>2, <1>6, <1>7, TwoThreads DEF Calm, CalmAt, Exclusive
  <2>3. QED
    BY <2>1, <2>2 DEF LocalAt
<1>9. /\ DOMAIN ports = DOMAIN mAvailablePorts
      /\ \A x \in DOMAIN mAvailablePorts :
           /\ mAvailablePorts[x] \subseteq ports[x]
           /\ \A p \in ports[x] : p \in mAvailablePorts[x] \/ p >= MaxPort
      /\ ports \in [DOMAIN mAvailablePorts -> SUBSET Bits]
  <2>1. CASE ports = mAvailablePorts
    BY <1>2, <2>1
  <2>2. CASE Exhausted(IP) /\ ports = Exhaust({IP})
    <3>1. DOMAIN ports = DOMAIN mAvailablePorts
      BY <2>2 DEF Exhaust
    <3>2. ASSUME NEW x \in DOMAIN mAvailablePorts
          PROVE  /\ mAvailablePorts[x] \subseteq ports[x] /\ ports[x] \subseteq Bits
                 /\ \A p \in ports[x] : p \in mAvailablePorts[x] \/ p >= MaxPort
      BY <1>2, <2>2 DEF Exhaust, Exhausted
    <3>3. ports = [x \in DOMAIN mAvailablePorts |-> ports[x]]
      BY <2>2 DEF Exhaust
    <3>4. QED
      BY <3>1, <3>2, <3>3
  <2>3. QED
    BY <2>1, <2>2
<1>10. FreshBindingExclusive'
  BY <1>1 DEF TInv, Ledger, FreshBindingExclusive, BindingExclusive, Exclusive, Endpoint
<1>11. PortsHeld'
  <2>1. ASSUME expired' = 0, Exclusive'
        PROVE  /\ \A o \in DOMAIN mOutgoingTable :
                    /\ mOutgoingTable[o].ip \in DOMAIN mAvailablePorts
                    /\ mOutgoingTable[o].port \in mAvailablePorts[mOutgoingTable[o].ip]
               /\ \A x \in DOMAIN mAvailablePorts : \A p \in mAvailablePorts[x] :
                    p >= MaxPort \/ \E o \in DOMAIN mOutgoingTable : Endpoint(o) = <<x, p>>
    BY <1>1, <2>1 DEF TInv, Ledger, PortsHeld, Exclusive
  <2>2. ASSUME expired' = 0, Exclusive', NEW o \in DOMAIN mOutgoingTable
        PROVE  /\ mOutgoingTable[o].ip \in DOMAIN ports
               /\ mOutgoingTable[o].port \in ports[mOutgoingTable[o].ip]
    BY <1>9, <2>1, <2>2
  <2>3. ASSUME expired' = 0, Exclusive', NEW x \in DOMAIN ports, NEW p \in ports[x]
        PROVE  p >= MaxPort \/ \E o \in DOMAIN mOutgoingTable : Endpoint(o) = <<x, p>>
    BY <1>9, <2>1, <2>3
  <2>4. QED
    BY <1>1, <2>2, <2>3 DEF PortsHeld, Endpoint
<1>12. QED
  BY <1>1, <1>3, <1>7, <1>8, <1>9, <1>10, <1>11, UnchangedFacts, GrowStep, TwoThreads

LEMMA SearchPortInv ==
  ASSUME TInv, SearchPort
  PROVE  TInv'
<1>1. ASSUME NEW round \in {"search", "again"}, TrySamePort(round) PROVE TInv'
  <2>1. P.pk.sport \in Ports
    <3>1. pc["private"] = round
      BY <1>1 DEF TrySamePort, Takes, GoesOn, Goes
    <3>2. P.pk \in OutPackets
      BY <3>1, TwoThreads DEF TInv, Handlers, LocalAt, TypedAt, P
    <3>3. QED
      BY <3>2, ConstantTypes DEF OutPackets, Packet
  <2>2. CASE IsFree(IP, P.pk.sport) /\ Takes(round, P.pk.sport, ReserverPort(IP, P.pk.sport))
    BY <2>1, <2>2, TakesInv DEF Searching
  <2>3. CASE GoesOn(round, mAvailablePorts)
    <3>1. round \in {"search", "again", "any"}
      OBVIOUS
    <3>2. QED
      BY <2>3, <3>1, GoesOnInv
  <2>4. QED
    BY <1>1, <2>2, <2>3 DEF TrySamePort
<1>2. ASSUME NEW round \in {"search", "any"}, TryAnyPort(round) PROVE TInv'
  <2>1. CASE \E port \in Ports : Obtains(IP, port) /\ Takes(round, port, ReserveFirst({}, IP, port))
    <3>1. PICK port \in Ports : Obtains(IP, port) /\ Takes(round, port, ReserveFirst({}, IP, port))
      BY <2>1
    <3>2. IsFree(IP, port)
      BY <3>1 DEF Obtains, IsFree
    <3>3. QED
      BY <3>1, <3>2, TakesInv DEF Searching
  <2>2. CASE Exhausted(IP) /\ GoesOn(round, Exhaust({IP}))
    BY <2>2, GoesOnInv
  <2>3. QED
    BY <1>2, <2>1, <2>2 DEF TryAnyPort
<1>3. QED
  BY <1>1, <1>2 DEF SearchPort

LEMMA SharePortInv ==
  ASSUME TInv, SharePort
  PROVE  TInv'
<1>1. ASSUME Takes("reserve", P.pk.sport, ReserverPort(IP, P.pk.sport)) PROVE TInv'
  <2>1. pc["private"] = "reserve"
    BY <1>1 DEF Takes, Goes
  <2>2. P.pk \in OutPackets
    BY <2>1, TwoThreads DEF TInv, Handlers, LocalAt, TypedAt, P
  <2>3. P.pk.sport \in Ports
    BY <2>2, ConstantTypes DEF OutPackets, Packet
  <2>4. QED
    BY <1>1, <2>3, TakesInv DEF Searching
<1>2. QED
  BY <1>1, DeletionsInv DEF SharePort

\* The binding is entered: its port was reserved for it.
LEMMA BindOutInv ==
  ASSUME TInv, BindOut
  PROVE  TInv'
<1> DEFINE e   == [ip |-> P.ip, port |-> P.port, age |-> 0, reverse |-> P.inKey]
           out == InsertTraffic(mOutgoingTable, P.key, e)
<1>1. /\ Goes("private", "bind", Admitting) /\ pc["private"] = "bind"
      /\ mOutgoingTable' = out
      /\ UNCHANGED <<life, fault, expired, mIncommingTable, mAvailablePorts, loc>>
      /\ UNCHANGED mConfig
  BY DEF BindOut, Silent, Goes, Keeps, life
<1>2. /\ Shared /\ P \in Locally /\ LocalAt("private", "bind", P) /\ P' = P
      /\ loc \in [Threads -> Locally] /\ "private" \in Threads
      /\ IsTable(mOutgoingTable, OutBinding) /\ IsFiniteSet(DOMAIN mOutgoingTable)
      /\ pc \in [Threads -> PrivateLabels \cup PublicLabels]
  BY <1>1, TwoThreads DEF TInv, Shared, Handlers, P
<1>3. P.key \notin DOMAIN mOutgoingTable /\ P.ip \in NatIPs /\ P.key \in TrafficId
  BY <1>2 DEF LocalAt, TypedAt, Searching, Locally
<1>4. e \in OutBinding
  BY <1>2, <1>3, BoundAssumption DEF OutBinding, Locally
<1>5. e.ip = P.ip /\ e.port = P.port
  OBVIOUS
<1> HIDE DEF e
<1>6. IsTable(out, OutBinding)
  BY <1>2, <1>3, <1>4, InsertType
<1>7. out = [x \in DOMAIN mOutgoingTable \cup {P.key} |-> IF x = P.key THEN e ELSE mOutgoingTable[x]]
  BY <1>3 DEF InsertTraffic, Put
<1> HIDE DEF out
<1>8. /\ DOMAIN out = DOMAIN mOutgoingTable \cup {P.key}
      /\ out[P.key] = e /\ \A o \in DOMAIN mOutgoingTable : out[o] = mOutgoingTable[o]
  BY <1>3, <1>7
<1>9. IsFiniteSet(DOMAIN out)
  BY <1>2, <1>8, FS_AddElement
<1>10. Admitting \in {"delete", "admit"} /\ (Exclusive => Admitting = "admit")
  BY DEF Admitting, Exclusive
<1>11. pc'["private"] = Admitting
  BY <1>1, <1>2 DEF Goes
<1>12. Calm => /\ P.ip \in DOMAIN mAvailablePorts /\ P.port \in mAvailablePorts[P.ip]
               /\ \A o \in DOMAIN mOutgoingTable : Endpoint(o) # <<P.ip, P.port>>
  BY <1>2 DEF LocalAt, CalmAt
<1>13. LocalAt("private", pc["private"], loc["private"])'
  <2>1. TypedAt("private", pc["private"], loc["private"])'
    BY <1>1, <1>2, <1>8, <1>10, <1>11 DEF LocalAt, TypedAt, Searching, PrivateLabels, P
  <2>2. Calm' => CalmAt("private", pc["private"], loc["private"])'
    BY <1>1, <1>10, <1>11, TwoThreads DEF Calm, CalmAt, Exclusive
  <2>3. QED
    BY <2>1, <2>2 DEF LocalAt
<1> DEFINE E == [o \in DOMAIN out |-> <<out[o].ip, out[o].port>>]
<1>14. /\ E[P.key] = <<P.ip, P.port>> /\ P.key \in DOMAIN out
       /\ \A o \in DOMAIN mOutgoingTable : E[o] = Endpoint(o) /\ o \in DOMAIN out
  BY <1>5, <1>8 DEF Endpoint
<1>15. FreshBindingExclusive'
  <2> HIDE DEF E
  <2>1. ASSUME Calm, NEW o1 \in DOMAIN out, NEW o2 \in DOMAIN out, E[o1] = E[o2]
        PROVE  o1 = o2
    <3>1. \A o \in DOMAIN mOutgoingTable : E[o] # E[P.key]
      BY <1>12, <1>14, <2>1
    <3>2. CASE o1 \in DOMAIN mOutgoingTable /\ o2 \in DOMAIN mOutgoingTable
      BY <1>14, <2>1, <3>2 DEF TInv, Ledger, FreshBindingExclusive, BindingExclusive, Calm
    <3>3. QED
      BY <1>8, <2>1, <3>1, <3>2
  <2>2. ASSUME expired' = 0, Exclusive', NEW o1 \in DOMAIN out, NEW o2 \in DOMAIN out,
               <<out[o1].ip, out[o1].port>> = <<out[o2].ip, out[o2].port>>
        PROVE  o1 = o2
    <3>1. Calm
      BY <1>1, <2>2 DEF Calm, Exclusive
    <3>2. E[o1] = E[o2]
      BY <2>2 DEF E
    <3>3. QED
      BY <2>1, <3>1, <3>2
  <2>3. QED
    BY <1>1, <2>2 DEF FreshBindingExclusive, BindingExclusive, Endpoint
<1>16. PortsHeld'
  <2>1. ASSUME Calm, NEW o \in DOMAIN out
        PROVE  out[o].ip \in DOMAIN mAvailablePorts /\ out[o].port \in mAvailablePorts[out[o].ip]
    <3>1. CASE o = P.key
      BY <1>5, <1>8, <1>12, <2>1, <3>1
    <3>2. CASE o \in DOMAIN mOutgoingTable
      BY <1>8, <2>1, <3>2 DEF TInv, Ledger, PortsHeld, Calm
    <3>3. QED
      BY <1>8, <3>1, <3>2
  <2>2. ASSUME Calm, NEW ip \in DOMAIN mAvailablePorts, NEW port \in mAvailablePorts[ip]
        PROVE  port >= MaxPort \/ \E o \in DOMAIN out : E[o] = <<ip, port>>
    <3> HIDE DEF E
    <3>1. \/ port >= MaxPort
          \/ \E o \in DOMAIN mOutgoingTable : Endpoint(o) = <<ip, port>>
          \/ <<P.ip, P.port>> = <<ip, port>>
      BY <2>2 DEF TInv, Ledger, PortsHeld, Calm
    <3>2. QED
      BY <1>14, <3>1
  <2>3. (expired' = 0 /\ Exclusive') <=> Calm
    BY <1>1 DEF Calm, Exclusive
  <2>4. QED
    BY <1>1, <2>1, <2>2, <2>3 DEF PortsHeld, Endpoint
<1>17. QED
  BY <1>1, <1>2, <1>6, <1>8, <1>9, <1>13, <1>15, <1>16, UnchangedFacts, GrowStep, TwoThreads

-----------------------------------------------------------------------------
(* The remaining steps of the threads, and the clock.                      *)

\* The loop goes on, or ends: then nothing of the last packet is left.
LEMMA TestInv ==
  ASSUME TInv, NEW t \in Threads, Test(t)
  PROVE  TInv'
<1>1. /\ mThread[t] = "loop" /\ fault = "none" /\ pc[t] = "test"
      /\ loc' = [loc EXCEPT ![t] = NoPacket]
      /\ UNCHANGED <<tables, mConfig, mTerminate, main, fault, expired>>
  BY DEF Test, Sets
<1>2. CASE ~mTerminate
  <2>1. Goes(t, "test", "wait") /\ UNCHANGED <<tables, life, fault, expired>>
    BY <1>1, <1>2 DEF Test, Goes, life
  <2>2. LocalAt(t, "wait", NoPacket)
    BY NoPacketType DEF LocalAt, TypedAt, Calm, CalmAt, Searching, PrivateLabels, PublicLabels
  <2>3. QED
    BY <1>1, <2>1, <2>2, NoPacketType, QuietStep
<1>3. CASE mTerminate
  <2>1. mThread' = [mThread EXCEPT ![t] = "exited"] /\ pc' = pc
    BY <1>3 DEF Test
  <2>2. /\ Shared /\ loc \in [Threads -> Locally]
        /\ mThread \in [Threads -> {"none", "loop", "exited"}]
    BY DEF TInv, Shared
  <2>3. /\ loc' \in [Threads -> Locally] /\ loc'[t] = NoPacket
        /\ \A u \in Threads : u # t => loc'[u] = loc[u] /\ mThread'[u] = mThread[u]
        /\ mThread' \in [Threads -> {"none", "loop", "exited"}] /\ mThread'[t] = "exited"
    BY <1>1, <2>1, <2>2, NoPacketType
  <2>4. /\ mOutgoingTable' = mOutgoingTable /\ mIncommingTable' = mIncommingTable
        /\ mAvailablePorts' = mAvailablePorts
    BY <1>1 DEF tables
  <2>5. Shared'
    BY <1>1, <2>1, <2>2, <2>3, <2>4 DEF Shared
  <2>6. Stopped'
    BY <1>1, <2>1, <2>3, <2>4, NoPacketType, TwoThreads DEF TInv, Stopped
  <2>7. Handlers'
    <3> SUFFICES ASSUME NEW u \in Threads PROVE LocalAt(u, pc[u], loc[u])'
      BY DEF Handlers
    <3>1. CASE u = t
      BY <1>1, <2>1, <2>3, <3>1, NoPacketType
      DEF LocalAt, TypedAt, CalmAt, Searching, PrivateLabels, PublicLabels
    <3>2. CASE u # t
      <4>1. LocalAt(u, pc[u], loc[u]) /\ loc'[u] = loc[u]
        BY <2>3, <3>2 DEF TInv, Handlers
      <4>2. QED
        BY <1>1, <2>1, <2>4, <4>1 DEF LocalAt, TypedAt, Calm, CalmAt, Exclusive, Endpoint
    <3>3. QED
      BY <3>1, <3>2
  <2>8. PortsHeld' /\ FreshBindingExclusive'
    <3>1. pc["private"] = "bind" => t # "private"
      BY <1>1
    <3>2. pc["private"] = "bind" => pc'["private"] = "bind" /\ loc'["private"] = loc["private"]
      BY <2>1, <2>3, <3>1, TwoThreads
    <3>3. QED
      BY <1>1, <2>4, <3>2, LedgerKept DEF Endpoint
  <2>9. CalmFault'
    BY <1>1 DEF CalmFault
  <2>10. QED
    BY <2>5, <2>6, <2>7, <2>8, <2>9 DEF TInv, Ledger
<1>4. QED
  BY <1>2, <1>3

\* The time is compared: either nothing happens yet, or a timeout is declared.
LEMMA CheckInv ==
  ASSUME TInv, NEW t \in Threads, Check(t)
  PROVE  TInv'
<1> DEFINE L     == loc[t]
           e     == mOutgoingTable[L.outRef.key]
           inKey == IF t = "private" THEN IncommingPk(L.pk.dst, L.pk.dport, e.ip, e.port)
                    ELSE L.inKey
           l     == [L EXCEPT !.late = 0, !.inKey = inKey]
           rfr   == t = "private" \/ mConfig.mIncommingRefreshTimeout
           to    == CASE TimedOut(t) -> "clean"
                      [] ~TimedOut(t) /\ rfr -> "refresh"
                      [] OTHER -> "send"
<1>1. /\ L.outRef.live /\ Goes(t, "check", to) /\ pc[t] = "check"
      /\ pc' = [pc EXCEPT ![t] = to]
      /\ expired' = IF TimedOut(t) THEN expired + 1 ELSE expired
      /\ UNCHANGED <<tables, life, fault>>
  BY DEF Check, Goes
<1>2. loc' = [loc EXCEPT ![t] = l]
  <2>1. L.inKey = loc[t].inKey
    OBVIOUS
  <2>2. QED
    BY DEF Check, Sets
<1>3. /\ Shared /\ L \in Locally /\ LocalAt(t, pc[t], L) /\ expired \in Nat
      /\ loc \in [Threads -> Locally] /\ pc \in [Threads -> PrivateLabels \cup PublicLabels]
  BY DEF TInv, Shared, Handlers
<1>4. L.outRef.key \in DOMAIN mOutgoingTable
  BY <1>1, <1>3 DEF LocalAt, TypedAt
<1>5. inKey \in TrafficId
  <2>1. e.ip \in Nat /\ e.port \in Nat
    BY <1>3, <1>4, SharedTypes
  <2>2. L.pk.dst \in Nat /\ L.pk.dport \in Nat /\ L.inKey \in TrafficId
    BY <1>3 DEF Locally
  <2> HIDE DEF e, L
  <2>3. QED
    BY <1>3, <2>1, <2>2, SharedTypes, KeyTypes
<1> HIDE DEF inKey, L
<1>6. /\ l \in Locally /\ l.outRef = L.outRef /\ l.inRef = L.inRef /\ l.pk = L.pk
      /\ l.key = L.key /\ l.ip = L.ip
  <2>1. 0 \in 0 .. MaxLate
    BY BoundAssumption
  <2>2. QED
    BY <1>3, <1>5, <2>1 DEF Locally
<1>7. /\ ~TimedOut(t) => to \in {"refresh", "send"} /\ (t = "private" => to = "refresh")
      /\ TimedOut(t) => to = "clean"
  OBVIOUS
<1> HIDE DEF l, to
<1>8. CASE ~TimedOut(t)
  <2>1. LocalAt(t, to, l)
    BY <1>1, <1>3, <1>6, <1>7, <1>8, TwoThreads
    DEF LocalAt, TypedAt, Calm, CalmAt, PrivateLabels, PublicLabels, Searching
  <2>2. QED
    BY <1>1, <1>2, <1>6, <1>8, <2>1, QuietStep
<1>9. CASE TimedOut(t)
  <2>1. /\ to = "clean" /\ expired' = expired + 1
    BY <1>1, <1>7, <1>9
  <2>2. /\ loc' \in [Threads -> Locally] /\ loc'[t] = l
        /\ \A u \in Threads : u # t => loc'[u] = loc[u] /\ pc'[u] = pc[u]
        /\ pc'[t] = "clean" /\ pc' \in [Threads -> PrivateLabels \cup PublicLabels]
    BY <1>1, <1>2, <1>3, <1>6, <2>1 DEF PrivateLabels
  <2>3. /\ UNCHANGED <<mConfig, mThread, mTerminate, main, fault>>
        /\ UNCHANGED <<mOutgoingTable, mIncommingTable, mAvailablePorts>>
    BY <1>1 DEF life, tables
  <2>4. Shared'
    BY <1>3, <2>1, <2>2, <2>3 DEF Shared
  <2>5. Stopped'
    <3>1. mThread[t] = "loop"
      BY <1>1 DEF Goes
    <3>2. QED
      BY <2>2, <2>3, <3>1 DEF TInv, Stopped
  <2>6. ~Calm'
    BY <1>3, <2>1 DEF Calm
  <2>7. ASSUME NEW u \in Threads PROVE TypedAt(u, pc[u], loc[u])'
    <3>1. CASE u = t
      BY <1>1, <1>3, <1>6, <2>2, <2>3, <3>1, TwoThreads
      DEF LocalAt, TypedAt, PrivateLabels, PublicLabels, Searching
    <3>2. CASE u # t
      <4>1. TypedAt(u, pc[u], loc[u])
        BY DEF TInv, Handlers, LocalAt
      <4>2. QED
        BY <2>2, <2>3, <3>2, <4>1 DEF TypedAt
    <3>3. QED
      BY <3>1, <3>2
  <2>8. QED
    BY <2>4, <2>5, <2>6, <2>7, UncalmInv
<1>10. QED
  BY <1>8, <1>9

\* Undefined behaviour does not happen before a timeout.
LEMMA FaultInv ==
  ASSUME TInv, NEW t \in Threads, Dangles(t) \/ Throws(t)
  PROVE  TInv'
<1>1. PICK from, how : Fault(t, from, how) /\ how \in {"dangling", "throw"}
  BY DEF Dangles, Throws
<1>2. /\ fault' \in {"dangling", "throw"} /\ UNCHANGED <<tables, life, pc, loc, expired>>
      /\ UNCHANGED <<mOutgoingTable, mIncommingTable, mAvailablePorts, mConfig, mThread,
                     mTerminate, main, pc, loc, expired>>
  BY <1>1 DEF Fault, tables, life
<1>3. LocalAt(t, pc[t], loc[t])
  BY DEF TInv, Handlers
<1>4. ~Calm
  BY <1>3, TwoThreads DEF Dangles, Throws, Fault, LocalAt, CalmAt
<1>5. Shared' /\ Stopped'
  BY <1>2 DEF TInv, Shared, Stopped
<1>6. ~Calm'
  BY <1>2, <1>4 DEF Calm, Exclusive
<1>7. \A u \in Threads : TypedAt(u, pc[u], loc[u])'
  BY <1>2 DEF TInv, Handlers, LocalAt, TypedAt
<1>8. QED
  BY <1>5, <1>6, <1>7, UncalmInv

\* A torn walk may come to grief at any time.
LEMMA StraysInv ==
  ASSUME TInv, NEW t \in Threads, Strays(t)
  PROVE  TInv'
<1>1. /\ fault' = "torn"
      /\ UNCHANGED <<mOutgoingTable, mIncommingTable, mAvailablePorts, mConfig, mThread,
                     mTerminate, main, pc, loc, expired>>
  BY DEF Strays, Fault, tables, life
<1>2. Shared' /\ Stopped'
  BY <1>1 DEF TInv, Shared, Stopped
<1>3. Handlers'
  BY <1>1 DEF TInv, Handlers, LocalAt, TypedAt, Calm, CalmAt, Exclusive, Endpoint
<1>4. CalmFault'
  BY <1>1 DEF CalmFault
<1>5. PortsHeld' /\ FreshBindingExclusive'
  BY <1>1, LedgerKept DEF Endpoint
<1>6. QED
  BY <1>2, <1>3, <1>4, <1>5 DEF TInv, Ledger

LEMMA ClockTickInv ==
  ASSUME TInv, ClockTick
  PROVE  TInv'
<1>1. /\ UNCHANGED <<mConfig, mThread, mTerminate, main, mIncommingTable, mAvailablePorts,
                     pc, fault, expired>>
      /\ mOutgoingTable' = [o \in DOMAIN mOutgoingTable |->
                              [mOutgoingTable[o] EXCEPT !.age = @ + 1]]
  BY DEF ClockTick, life
<1>2. /\ Shared /\ loc \in [Threads -> Locally] /\ IsTable(mOutgoingTable, OutBinding)
  BY DEF TInv, Shared
<1>3. ASSUME NEW o \in DOMAIN mOutgoingTable
      PROVE  /\ mOutgoingTable'[o] \in OutBinding
             /\ mOutgoingTable'[o].ip = mOutgoingTable[o].ip
             /\ mOutgoingTable'[o].port = mOutgoingTable[o].port
  <2> DEFINE e == mOutgoingTable[o]
  <2>1. e \in OutBinding /\ e.age < MaxAge
    BY <1>2 DEF IsTable, ClockTick
  <2>2. mOutgoingTable'[o] = [e EXCEPT !.age = e.age + 1]
    BY <1>1
  <2> HIDE DEF e
  <2>3. e.age + 1 \in 0 .. MaxAge
    BY <2>1, BoundAssumption DEF OutBinding
  <2>4. mOutgoingTable'[o] \in OutBinding /\ mOutgoingTable'[o].ip = e.ip /\ mOutgoingTable'[o].port = e.port
    BY <2>1, <2>2, <2>3 DEF OutBinding
  <2>5. QED
    BY <2>4 DEF e
<1>4. DOMAIN mOutgoingTable' = DOMAIN mOutgoingTable /\ IsTable(mOutgoingTable', OutBinding)
  BY <1>1, <1>2, <1>3 DEF IsTable
<1>5. ASSUME NEW t \in Threads
      PROVE  /\ loc'[t] \in Locally /\ loc'[t].outRef = loc[t].outRef
             /\ loc'[t].inRef = loc[t].inRef /\ loc'[t].outIdx = loc[t].outIdx
             /\ loc'[t].inIdx = loc[t].inIdx /\ loc'[t].pk = loc[t].pk
             /\ loc'[t].key = loc[t].key /\ loc'[t].ip = loc[t].ip /\ loc'[t].port = loc[t].port
  <2> DEFINE L == loc[t]
             late == IF HoldsNow(t) THEN L.late + 1 ELSE L.late
  <2>1. L \in Locally /\ loc'[t] = [L EXCEPT !.late = late]
    BY <1>2 DEF ClockTick
  <2>2. HoldsNow(t) => L.late < MaxLate
    BY DEF ClockTick
  <2>3. late \in 0 .. MaxLate
    <3> HIDE DEF L
    <3>1. QED
      BY <2>1, <2>2, BoundAssumption DEF Locally
  <2> HIDE DEF L, late
  <2>4. /\ loc'[t] \in Locally /\ loc'[t].outRef = L.outRef
        /\ loc'[t].inRef = L.inRef /\ loc'[t].outIdx = L.outIdx
        /\ loc'[t].inIdx = L.inIdx /\ loc'[t].pk = L.pk
        /\ loc'[t].key = L.key /\ loc'[t].ip = L.ip /\ loc'[t].port = L.port
    BY <2>1, <2>3 DEF Locally
  <2>5. QED
    BY <2>4 DEF L
<1>6. loc' \in [Threads -> Locally]
  BY <1>5 DEF ClockTick
<1>7. Shared'
  BY <1>1, <1>2, <1>4, <1>6 DEF Shared
<1>8. Stopped'
  BY <1>1, <1>4, <1>5 DEF TInv, Stopped
<1>9. Handlers'
  <2> SUFFICES ASSUME NEW u \in Threads PROVE LocalAt(u, pc[u], loc[u])'
    BY DEF Handlers
  <2>1. LocalAt(u, pc[u], loc[u])
    BY DEF TInv, Handlers
  <2>2. TypedAt(u, pc[u], loc[u])'
    BY <1>1, <1>4, <1>5, <2>1 DEF LocalAt, TypedAt
  <2>3. Held(mOutgoingTable, loc[u].outIdx)' <=> Held(mOutgoingTable, loc[u].outIdx)
    BY <1>4, <1>5 DEF Held
  <2>4. Calm' => CalmAt(u, pc[u], loc[u])'
    <3>1. Calm' <=> Calm
      BY <1>1 DEF Calm, Exclusive
    <3>2. \A o \in DOMAIN mOutgoingTable : <<mOutgoingTable'[o].ip, mOutgoingTable'[o].port>> = Endpoint(o)
      BY <1>3 DEF Endpoint
    <3>3. QED
      BY <1>1, <1>4, <1>5, <2>1, <2>3, <3>1, <3>2 DEF LocalAt, CalmAt, Held, Endpoint
  <2>5. QED
    BY <2>2, <2>4 DEF LocalAt
<1>10. PortsHeld' /\ FreshBindingExclusive'
  <2>1. \A o \in DOMAIN mOutgoingTable : Endpoint(o)' = Endpoint(o)
    BY <1>3 DEF Endpoint
  <2>2. QED
    BY <1>1, <1>4, <1>5, <2>1, LedgerKept, TwoThreads
<1>11. CalmFault'
  BY <1>1 DEF TInv, Ledger, CalmFault, Exclusive
<1>12. QED
  BY <1>7, <1>8, <1>9, <1>10, <1>11 DEF TInv, Ledger

-----------------------------------------------------------------------------
(* Start and Stop.                                                         *)

\* A thread that does not run is between packets and points at nothing, so a
\* change of the configuration or of the handles concerns no handler.
LEMMA CreateInv ==
  ASSUME TInv, NEW t \in Threads, NEW outcome \in {"none", "loop", "exited"},
         NEW from, NEW to, NEW failed, Create(t, outcome, from, to, failed),
         mConfig' \in Configs, mConfig' = mConfig \/ \A u \in Threads : mThread[u] = "none",
         \/ t = "public" /\ from = "idle" /\ to = "started" /\ failed = "failed"
         \/ t = "private" /\ from = "started" /\ to = "ports" /\ failed = "idle"
         \/ t = "private" /\ from = "failed" /\ to = "idle" /\ failed = "idle"
  PROVE  TInv'
<1>1. /\ main = from /\ fault = "none"
      /\ mThread' = IF mThread[t] = "none" THEN [mThread EXCEPT ![t] = outcome] ELSE mThread
      /\ main' = IF mThread[t] = "none" /\ outcome # "none" THEN to ELSE failed
      /\ mTerminate' = IF mThread[t] = "none" THEN FALSE ELSE mTerminate
      /\ UNCHANGED <<mOutgoingTable, mIncommingTable, mAvailablePorts, pc, loc, fault, expired>>
  BY DEF Create, tables
<1>2. /\ mThread \in [Threads -> {"none", "loop", "exited"}] /\ mTerminate \in BOOLEAN
  BY DEF TInv, Shared
<1>3. /\ mThread' \in [Threads -> {"none", "loop", "exited"}]
      /\ \A u \in Threads : u # t => mThread'[u] = mThread[u]
      /\ \A u \in Threads : mThread'[u] = "none" => mThread[u] = "none"
      /\ mThread[t] = "none" => mThread'[t] = outcome
      /\ mThread[t] # "none" => mThread' = mThread
      /\ \A u \in Threads : mThread'[u] # "loop" => mThread[u] # "loop"
  BY <1>1, <1>2
<1>4. main' \in {"idle", "started", "failed", "ports"} /\ mTerminate' \in BOOLEAN
  BY <1>1, <1>2
<1>5. Shared'
  BY <1>1, <1>3, <1>4 DEF TInv, Shared
<1>6. Stopped'
  <2>1. /\ main' = "started" => mThread'["public"] # "none"
        /\ main' = "ports" => /\ \A u \in Threads : mThread'[u] # "none"
                              /\ ~(NatIPs \subseteq DOMAIN mAvailablePorts)
    <3>1. NatIPs # {}
      <4>1. 1 \in 1 .. N
        BY ConstantTypes
      <4>2. QED
        BY <4>1 DEF NatIPs
    <3>2. QED
      BY <1>1, <1>3, <3>1, TwoThreads DEF TInv, Stopped
  <2>2. QED
    BY <1>1, <1>3, <1>4, <2>1, TwoThreads DEF TInv, Stopped
<1>7. Handlers'
  <2> SUFFICES ASSUME NEW u \in Threads PROVE LocalAt(u, pc[u], loc[u])'
    BY DEF Handlers
  <2>1. LocalAt(u, pc[u], loc[u])
    BY DEF TInv, Handlers
  <2>2. CASE mConfig' = mConfig
    BY <1>1, <2>1, <2>2 DEF LocalAt, TypedAt, Calm, CalmAt, Exclusive, Endpoint
  <2>3. CASE \A v \in Threads : mThread[v] = "none"
    <3>1. pc[u] = "test"
      BY <2>3 DEF TInv, Stopped
    <3>2. QED
      BY <1>1, <2>1, <3>1 DEF LocalAt, TypedAt, CalmAt, Searching
  <2>4. QED
    BY <2>2, <2>3
<1>8. CalmFault'
  BY <1>1 DEF CalmFault
<1>9. PortsHeld' /\ FreshBindingExclusive'
  <2>1. CASE mConfig' = mConfig
    BY <1>1, <2>1, LedgerKept DEF Endpoint
  <2>2. CASE \A v \in Threads : mThread[v] = "none"
    <3>1. DOMAIN mOutgoingTable' = {} /\ DOMAIN mAvailablePorts' = {}
      BY <1>1, <2>2, TwoThreads DEF TInv, Stopped
    <3>2. QED
      BY <3>1 DEF PortsHeld, FreshBindingExclusive, BindingExclusive
  <2>3. QED
    BY <2>1, <2>2
<1>10. QED
  BY <1>5, <1>6, <1>7, <1>8, <1>9 DEF TInv, Ledger

LEMMA StartThreadsInv ==
  ASSUME TInv, NEW outcome \in {"none", "loop", "exited"},
         StartPrivate(outcome) \/ \E c \in Configs : StartPublic(c, outcome)
  PROVE  TInv'
<1>1. mConfig \in Configs
  BY DEF TInv, Shared
<1>2. CASE StartPrivate(outcome)
  <2>1. mConfig' = mConfig
    BY <1>2 DEF StartPrivate
  <2>2. CASE Create("private", outcome, "started", "ports", "idle")
    BY <1>1, <2>1, <2>2, CreateInv, TwoThreads
  <2>3. CASE Create("private", outcome, "failed", "idle", "idle")
    BY <1>1, <2>1, <2>3, CreateInv, TwoThreads
  <2>4. QED
    BY <1>2, <2>2, <2>3 DEF StartPrivate
<1>3. CASE \E c \in Configs : StartPublic(c, outcome)
  <2>1. PICK c \in Configs : StartPublic(c, outcome)
    BY <1>3
  <2>2. /\ mConfig' \in Configs /\ (mConfig' = mConfig \/ \A u \in Threads : mThread[u] = "none")
        /\ Create("public", outcome, "idle", "started", "failed")
    BY <2>1 DEF StartPublic
  <2>3. QED
    BY <2>2, CreateInv, TwoThreads
<1>4. QED
  BY <1>2, <1>3

\* One address more has its port array.
LEMMA StartPortsInv ==
  ASSUME TInv, StartPorts
  PROVE  TInv'
<1> DEFINE given == DOMAIN mAvailablePorts
           n  == CHOOSE i \in 1 .. N : /\ NATPublicIPs[i] \notin given
                                       /\ \A j \in 1 .. (i - 1) : NATPublicIPs[j] \in given
           ip == NATPublicIPs[n]
<1>1. /\ main = "ports" /\ fault = "none"
      /\ mAvailablePorts' = [x \in given \cup {ip} |-> IF x = ip THEN {} ELSE mAvailablePorts[x]]
      /\ main' = IF NatIPs \subseteq DOMAIN mAvailablePorts' THEN "idle" ELSE "ports"
      /\ UNCHANGED <<mConfig, mThread, mTerminate, mOutgoingTable, mIncommingTable,
                     pc, loc, fault, expired>>
  BY DEF StartPorts
<1>2. /\ Shared /\ \A t \in Threads : mThread[t] # "none"
      /\ ~(NatIPs \subseteq given) /\ given \subseteq NatIPs
      /\ mAvailablePorts \in [given -> SUBSET Bits]
  BY <1>1 DEF TInv, Stopped, Shared
<1>3. ip \in NatIPs /\ ip \notin given
  <2>1. \E i \in 1 .. N : /\ NATPublicIPs[i] \notin given
                          /\ \A j \in 1 .. (i - 1) : NATPublicIPs[j] \in given
    <3> HIDE DEF given
    <3>1. PICK a \in NatIPs : a \notin given
      BY <1>2
    <3>2. QED
      BY <3>1, NextAddress
  <2>2. n \in 1 .. N /\ NATPublicIPs[n] \notin given
    BY <2>1
  <2> HIDE DEF n
  <2>3. QED
    BY <2>2 DEF NatIPs
<1> HIDE DEF ip
<1>4. /\ DOMAIN mAvailablePorts' = given \cup {ip}
      /\ mAvailablePorts'[ip] = {}
      /\ \A x \in given : mAvailablePorts'[x] = mAvailablePorts[x]
      /\ mAvailablePorts' \in [DOMAIN mAvailablePorts' -> SUBSET Bits]
  BY <1>1, <1>2, <1>3
<1>5. Shared'
  BY <1>1, <1>2, <1>3, <1>4 DEF Shared
<1>6. Stopped'
  <2>1. main' \in {"idle", "ports"}
        /\ (main' = "ports" => ~(NatIPs \subseteq DOMAIN mAvailablePorts'))
    BY <1>1
  <2>2. QED
    BY <1>1, <1>2, <2>1, TwoThreads DEF TInv, Stopped
<1>7. Handlers'
  <2> SUFFICES ASSUME NEW u \in Threads PROVE LocalAt(u, pc[u], loc[u])'
    BY DEF Handlers
  <2>1. LocalAt(u, pc[u], loc[u])
    BY DEF TInv, Handlers
  <2>2. TypedAt(u, pc[u], loc[u])'
    BY <1>1, <2>1 DEF LocalAt, TypedAt
  <2>3. Calm' => CalmAt(u, pc[u], loc[u])'
    BY <1>1, <1>4, <2>1 DEF LocalAt, Calm, CalmAt, Exclusive, Endpoint
  <2>4. QED
    BY <2>2, <2>3 DEF LocalAt
<1>8. CalmFault' /\ FreshBindingExclusive'
  BY <1>1 DEF TInv, Ledger, CalmFault, FreshBindingExclusive, BindingExclusive, Exclusive, Endpoint
<1>9. PortsHeld'
  <2>1. ASSUME expired' = 0, Exclusive', NEW o \in DOMAIN mOutgoingTable
        PROVE  /\ mOutgoingTable[o].ip \in DOMAIN mAvailablePorts'
               /\ mOutgoingTable[o].port \in mAvailablePorts'[mOutgoingTable[o].ip]
    BY <1>1, <1>4, <2>1 DEF TInv, Ledger, PortsHeld, Exclusive
  <2>2. ASSUME expired' = 0, Exclusive',
               NEW x \in DOMAIN mAvailablePorts', NEW p \in mAvailablePorts'[x]
        PROVE  \/ p >= MaxPort
               \/ \E o \in DOMAIN mOutgoingTable : Endpoint(o) = <<x, p>>
               \/ pc["private"] = "bind" /\ <<P.ip, P.port>> = <<x, p>>
    BY <1>1, <1>4, <2>2 DEF TInv, Ledger, PortsHeld, Exclusive
  <2>3. P' = P /\ pc' = pc /\ mOutgoingTable' = mOutgoingTable
    BY <1>1 DEF P
  <2>4. QED
    BY <2>1, <2>2, <2>3 DEF PortsHeld, Endpoint
<1>10. QED
  BY <1>5, <1>6, <1>7, <1>8, <1>9 DEF TInv, Ledger

LEMMA StopInv ==
  ASSUME TInv, StopBegin \/ StopJoinPublic \/ StopJoinPrivate
  PROVE  TInv'
<1>1. CASE StopBegin \/ StopJoinPublic
  <2>1. /\ main' = "joinPublic" \/ (main' = "joinPrivate" /\ mThread["public"] # "loop")
        /\ mTerminate' \in BOOLEAN
        /\ UNCHANGED <<mConfig, mThread, mOutgoingTable, mIncommingTable, mAvailablePorts,
                       pc, loc, fault, expired>>
    BY <1>1 DEF StopBegin, StopJoinPublic, tables, TInv, Shared
  <2>2. Shared' /\ Stopped'
    BY <2>1 DEF TInv, Shared, Stopped
  <2>3. Handlers'
    BY <2>1 DEF TInv, Handlers, LocalAt, TypedAt, Calm, CalmAt, Exclusive, Endpoint
  <2>4. CalmFault'
    BY <2>1 DEF TInv, Ledger, CalmFault, Exclusive
  <2>5. PortsHeld' /\ FreshBindingExclusive'
    BY <2>1, LedgerKept DEF Endpoint
  <2>6. QED
    BY <2>2, <2>3, <2>4, <2>5 DEF TInv, Ledger
<1>2. CASE StopJoinPrivate
  <2>1. /\ main' = "idle" /\ fault = "none" /\ fault' = "none"
        /\ mThread' = [t \in Threads |-> "none"]
        /\ mOutgoingTable' = Empty /\ mIncommingTable' = Empty /\ mAvailablePorts' = Empty
        /\ expired' = 0 /\ UNCHANGED <<mConfig, mTerminate, pc, loc>>
    BY <1>2 DEF StopJoinPrivate, Stop
  <2>2. \A t \in Threads : mThread[t] # "loop"
    BY <1>2, TwoThreads DEF StopJoinPrivate, TInv, Stopped
  <2>3. /\ \A E : IsTable(Empty, E) /\ DOMAIN Empty = {}
    BY EmptyType
  <2>4. Empty \in [DOMAIN Empty -> SUBSET Bits] /\ IsFiniteSet(DOMAIN Empty)
    BY <2>3, FS_EmptySet DEF Empty
  <2>5. Shared'
    BY <2>1, <2>3, <2>4 DEF TInv, Shared
  <2>6. Stopped'
    BY <2>1, <2>2, <2>3 DEF TInv, Stopped
  <2>7. Handlers'
    <3> SUFFICES ASSUME NEW u \in Threads PROVE LocalAt(u, pc[u], loc[u])'
      BY DEF Handlers
    <3>1. pc[u] = "test" /\ ~loc[u].outRef.live /\ ~loc[u].inRef.live
      BY <2>2 DEF TInv, Stopped
    <3>2. QED
      BY <2>1, <3>1 DEF LocalAt, TypedAt, CalmAt, Searching, PrivateLabels, PublicLabels
  <2>8. CalmFault' /\ PortsHeld' /\ FreshBindingExclusive'
    BY <2>1, <2>3 DEF CalmFault, PortsHeld, FreshBindingExclusive, BindingExclusive
  <2>9. QED
    BY <2>5, <2>6, <2>7, <2>8 DEF TInv, Ledger
<1>3. QED
  BY <1>1, <1>2

-----------------------------------------------------------------------------
(* The theorems.                                                           *)

LEMMA ThreadsInitInv == ThreadsInit => TInv
<1> SUFFICES ASSUME ThreadsInit PROVE TInv
  OBVIOUS
<1>1. /\ mConfig \in Configs /\ mThread = [t \in Threads |-> "none"] /\ mTerminate = FALSE
      /\ mOutgoingTable = Empty /\ mIncommingTable = Empty /\ mAvailablePorts = Empty
      /\ main = "idle" /\ pc = [t \in Threads |-> "test"]
      /\ loc = [t \in Threads |-> NoPacket] /\ fault = "none" /\ expired = 0
  BY DEF ThreadsInit, Init
<1>2. \A E : IsTable(Empty, E) /\ DOMAIN Empty = {}
  BY EmptyType
<1>3. Empty \in [DOMAIN Empty -> SUBSET Bits] /\ IsFiniteSet(DOMAIN Empty)
  BY <1>2, FS_EmptySet DEF Empty
<1>4. Shared
  BY <1>1, <1>2, <1>3, NoPacketType DEF Shared, PrivateLabels
<1>5. Stopped
  BY <1>1, <1>2, NoPacketType DEF Stopped
<1>6. Handlers
  BY <1>1, NoPacketType
  DEF Handlers, LocalAt, TypedAt, CalmAt, Searching, PrivateLabels, PublicLabels
<1>7. Ledger
  BY <1>1, <1>2 DEF Ledger, CalmFault, PortsHeld, FreshBindingExclusive, BindingExclusive
<1>8. QED
  BY <1>4, <1>5, <1>6, <1>7 DEF TInv

LEMMA CaptureThreadInv ==
  ASSUME TInv, NEW t \in Threads, CaptureThread(t)
  PROVE  TInv'
<1>1. ASSUME FindOut(t, "getOut", IF t = "private" THEN "search" ELSE "send") PROVE TInv'
  BY <1>1, FindOutInv
<1>2. QED
  BY <1>1, TestInv, GoingInv, GetOutInv, CheckInv, TearDownInv, RefreshEntryInv, FaultInv, StraysInv
  DEF CaptureThread

LEMMA ThreadsStep == TInv /\ [ThreadsNext]_tvars => TInv'
<1> SUFFICES ASSUME TInv, [ThreadsNext]_tvars PROVE TInv'
  OBVIOUS
<1>1. CASE PublicThread
  <2>1. CASE \E pk \in InPackets : GetInPacket(pk)
    BY <2>1, GetInPacketInv
  <2>2. CASE FindIn \/ GetIn \/ SendIn
    BY <2>2, FindInInv, GetInInv, GoingInv
  <2>3. CASE CaptureThread("public")
    BY <2>3, CaptureThreadInv, TwoThreads
  <2>4. QED
    BY <1>1, <2>1, <2>2, <2>3 DEF PublicThread
<1>2. CASE PrivateThread
  <2>1. CASE \E pk \in OutPackets : GetOutPacket(pk)
    BY <2>1, GetOutPacketInv
  <2>2. CASE SearchPort \/ SharePort \/ BindOut
    BY <2>2, SearchPortInv, SharePortInv, BindOutInv
  <2>3. CASE SendOut \/ DeleteIn \/ AdmitIn \/ SendNew
    BY <2>3, GoingInv, DeletionsInv, AdmitInInv
  <2>4. CASE CaptureThread("private")
    BY <2>4, CaptureThreadInv, TwoThreads
  <2>5. QED
    BY <1>2, <2>1, <2>2, <2>3, <2>4 DEF PrivateThread
<1>3. CASE MainThread
  BY <1>3, StartThreadsInv, StartPortsInv, StopInv DEF MainThread
<1>4. CASE ClockTick
  BY <1>4, ClockTickInv
<1>5. CASE UNCHANGED tvars
  <2>1. UNCHANGED <<mConfig, mThread, mTerminate, main, mOutgoingTable, mIncommingTable,
                    mAvailablePorts, pc, loc, fault, expired>>
    BY <1>5 DEF tvars, tables, life
  <2>2. Shared' /\ Stopped'
    BY <2>1 DEF TInv, Shared, Stopped
  <2>3. Handlers'
    BY <2>1 DEF TInv, Handlers, LocalAt, TypedAt, Calm, CalmAt, Exclusive, Endpoint
  <2>4. CalmFault'
    BY <2>1 DEF TInv, Ledger, CalmFault, Exclusive
  <2>5. PortsHeld' /\ FreshBindingExclusive'
    BY <2>1, LedgerKept DEF Endpoint
  <2>6. QED
    BY <2>2, <2>3, <2>4, <2>5 DEF TInv, Ledger
<1>6. QED
  BY <1>1, <1>2, <1>3, <1>4, <1>5 DEF ThreadsNext, Ended

\* The inductive invariant holds whatever the interleaving: of the handlers cut
\* at their table calls, of Start and Stop cut at the threads, and of the clock.
THEOREM ThreadsInvariant == ThreadsSpec => []TInv
BY ThreadsInitInv, ThreadsStep, PTL DEF ThreadsSpec

-----------------------------------------------------------------------------
(* The walks that trace the tables.                                        *)

\* The labels from which a handler tears a binding down, and those of a walk.
Tearing == {"clean", "free", "remove"}
Walking == {"listOut", "listIn"}

\* Which walks are torn.  Until a timeout is declared only the private thread inserts or
\* removes, and so its own walks are never torn.
TornInv ==
  /\ torn \subseteq Threads
  /\ \A t \in torn : pc[t] \in Walking
  /\ expired = 0 => pc["public"] \notin Tearing /\ "private" \notin torn
  /\ fault = "torn" => torn # {}

\* While it walks over a table, a thread changes none.
LEMMA WalkingChangesNothing ==
  ASSUME TInv, PrivateThread, pc["private"] \in Walking
  PROVE  mOutgoingTable' = mOutgoingTable /\ mIncommingTable' = mIncommingTable
<1>1. Traces("private") \/ Dangles("private") \/ Throws("private") \/ Strays("private")
  BY DEF PrivateThread, CaptureThread, GetOutPacket, SearchPort, SharePort, TrySamePort, TryAnyPort, Takes,
         GoesOn, BindOut, SendOut, DeleteIn, AdmitIn, SendNew, Test, GetNoMsg, FindOut, GetOut,
         Check, CleanEntry, FreeEntry, RemoveEntry, RefreshEntry, Goes, Walking
<1>2. QED
  BY <1>1 DEF Traces, Dangles, Throws, Strays, Fault, Quiet, tables

\* A refreshed entry keeps its endpoint.
LEMMA RefreshSame ==
  ASSUME TInv, NEW t \in Threads, RefreshEntry(t)
  PROVE  /\ DOMAIN mOutgoingTable' = DOMAIN mOutgoingTable
         /\ \A o \in DOMAIN mOutgoingTable : /\ mOutgoingTable'[o].ip = mOutgoingTable[o].ip
                                             /\ mOutgoingTable'[o].port = mOutgoingTable[o].port
<1>1. /\ Shared /\ IsTable(mOutgoingTable, OutBinding) /\ IsFiniteSet(DOMAIN mOutgoingTable)
      /\ loc[t] \in Locally
  BY DEF TInv, Shared
<1>2. CASE Held(mOutgoingTable, loc[t].outIdx)
  <2> DEFINE k == At(mOutgoingTable, loc[t].outIdx)
             e == [mOutgoingTable[k] EXCEPT !.age = 0]
  <2>1. k \in DOMAIN mOutgoingTable
    BY <1>1, <1>2, SharedTypes, PositionFacts DEF Locally
  <2>2. mOutgoingTable' = Put(mOutgoingTable, k, e)
    BY <1>2 DEF RefreshEntry, UpdateLastTrafficTime
  <2>3. mOutgoingTable[k] \in OutBinding
    BY <1>1, <2>1 DEF IsTable
  <2> HIDE DEF k
  <2>4. e.ip = mOutgoingTable[k].ip /\ e.port = mOutgoingTable[k].port
    BY <2>3 DEF OutBinding
  <2> HIDE DEF e
  <2>5. QED
    BY <2>1, <2>2, <2>4 DEF Put
<1>3. CASE ~Held(mOutgoingTable, loc[t].outIdx)
  BY <1>3 DEF RefreshEntry
<1>4. QED
  BY <1>2, <1>3

\* The public thread, until a timeout is declared.
LEMMA PublicTearsNothing ==
  ASSUME TInv, TornInv, PublicThread, expired' = 0
  PROVE  /\ expired = 0
         /\ pc'["public"] \notin Tearing
         /\ DOMAIN mOutgoingTable' = DOMAIN mOutgoingTable
         /\ mIncommingTable' = mIncommingTable
<1>1. /\ expired \in Nat /\ pc \in [Threads -> PrivateLabels \cup PublicLabels]
  BY DEF TInv, Shared
<1>2. expired' = expired \/ expired' = expired + 1
  BY DEF PublicThread, CaptureThread, GetInPacket, FindIn, GetIn, SendIn, Test, GetNoMsg, Traces, FindOut, GetOut,
         Check, CleanEntry, FreeEntry, RemoveEntry, RefreshEntry, Dangles, Throws, Strays, Fault, Quiet, Silent
<1>3. expired = 0 /\ pc["public"] \notin Tearing
  BY <1>1, <1>2 DEF TornInv
<1>4. ~(CleanEntry("public") \/ FreeEntry("public") \/ RemoveEntry("public"))
  BY <1>3 DEF CleanEntry, FreeEntry, RemoveEntry, Goes, Tearing
<1>5. pc'["public"] \notin Tearing
  <2>1. CASE Check("public")
    <3>1. ~TimedOut("public")
      BY <1>1, <1>3, <2>1 DEF Check
    <3>2. pc'["public"] \in {"refresh", "send"}
      BY <1>1, <2>1, <3>1, TwoThreads DEF Check, Goes
    <3>3. QED
      BY <3>2 DEF Tearing
  <2>2. CASE ~Check("public")
    BY <1>1, <1>3, <1>4, <2>2, TwoThreads
    DEF PublicThread, CaptureThread, GetInPacket, FindIn, GetIn, SendIn, Test, GetNoMsg, Traces, FindOut, GetOut,
        RefreshEntry, Dangles, Throws, Strays, Fault, Goes, Tearing
  <2>3. QED
    BY <2>1, <2>2
<1>6. CASE RefreshEntry("public")
  <2>1. mIncommingTable' = mIncommingTable
    BY <1>6 DEF RefreshEntry
  <2>2. DOMAIN mOutgoingTable' = DOMAIN mOutgoingTable
    BY <1>6, RefreshSame, TwoThreads
  <2>3. QED
    BY <1>3, <1>5, <2>1, <2>2
<1>7. CASE ~RefreshEntry("public")
  <2>1. mOutgoingTable' = mOutgoingTable /\ mIncommingTable' = mIncommingTable
    BY <1>4, <1>7
    DEF PublicThread, CaptureThread, GetInPacket, FindIn, GetIn, SendIn, Test, GetNoMsg, Traces, FindOut, GetOut,
        Check, Dangles, Throws, Strays, Fault, Quiet, tables
  <2>2. QED
    BY <1>3, <1>5, <2>1
<1>8. QED
  BY <1>6, <1>7

\* No walk of the private thread is torn by a step before a timeout.
LEMMA PrivateUntorn ==
  ASSUME TInv, TornInv, Tears, expired' = 0,
         PublicThread \/ PrivateThread \/ MainThread \/ ClockTick
  PROVE  pc'["public"] \notin Tearing /\ "private" \notin torn'
<1>1. /\ expired \in Nat /\ pc \in [Threads -> PrivateLabels \cup PublicLabels]
  BY DEF TInv, Shared
<1>2. "private" \in torn' => /\ pc["private"] \in Walking
                             /\ "private" \in torn \/ \/ DOMAIN mOutgoingTable' # DOMAIN mOutgoingTable
                                                     \/ DOMAIN mIncommingTable' # DOMAIN mIncommingTable
  BY DEF Tears, Changes, TornInv, Walking
<1>3. CASE PublicThread
  BY <1>2, <1>3, PublicTearsNothing DEF TornInv
<1>4. CASE PrivateThread
  <2>1. pc'["public"] = pc["public"]
    BY <1>1, <1>4, TwoThreads
    DEF PrivateThread, CaptureThread, GetOutPacket, SearchPort, SharePort, TrySamePort, TryAnyPort, Takes,
        GoesOn, BindOut, SendOut, DeleteIn, AdmitIn, SendNew, Test, GetNoMsg, Traces, FindOut, GetOut,
        Check, CleanEntry, FreeEntry, RemoveEntry, RefreshEntry, Dangles, Throws, Strays, Fault, Goes
  <2>2. expired' = expired \/ expired' = expired + 1
    BY <1>4
    DEF PrivateThread, CaptureThread, GetOutPacket, SearchPort, SharePort, TrySamePort, TryAnyPort, Takes,
        GoesOn, BindOut, SendOut, DeleteIn, AdmitIn, SendNew, Test, GetNoMsg, Traces, FindOut, GetOut,
        Check, CleanEntry, FreeEntry, RemoveEntry, RefreshEntry, Dangles, Throws, Strays, Fault, Quiet, Silent
  <2>3. QED
    BY <1>1, <1>2, <1>4, <2>1, <2>2, WalkingChangesNothing DEF TornInv
<1>5. CASE MainThread
  <2>1. pc' = pc
    BY <1>5
    DEF MainThread, StartPublic, StartPrivate, Create, StartPorts, StopBegin, StopJoinPublic, StopJoinPrivate
  <2>2. CASE StopJoinPrivate
    <3>1. \A t \in Threads : mThread[t] # "loop"
      BY <2>2, TwoThreads DEF StopJoinPrivate, TInv, Stopped
    <3>2. pc["private"] = "test" /\ pc["public"] = "test"
      BY <3>1, TwoThreads DEF TInv, Stopped
    <3>3. QED
      BY <1>2, <2>1, <3>2 DEF Walking, Tearing
  <2>3. CASE ~StopJoinPrivate
    <3>1. mOutgoingTable' = mOutgoingTable /\ mIncommingTable' = mIncommingTable /\ expired' = expired
      BY <1>5, <2>3
      DEF MainThread, StartPublic, StartPrivate, Create, StartPorts, StopBegin, StopJoinPublic, tables
    <3>2. QED
      BY <1>2, <2>1, <3>1 DEF TornInv
  <2>4. QED
    BY <2>2, <2>3
<1>6. CASE ClockTick
  BY <1>2, <1>6 DEF ClockTick, TornInv
<1>7. QED
  BY <1>3, <1>4, <1>5, <1>6

\* A step at which the process comes to grief in a walk leaves the walk torn.
LEMMA TornFault ==
  ASSUME TornInv, Tears, fault' = "torn",
         PublicThread \/ PrivateThread \/ MainThread \/ ClockTick
  PROVE  torn' # {}
<1>1. fault = "none"
  BY DEF PublicThread, PrivateThread, MainThread, CaptureThread, GetInPacket, FindIn, GetIn, SendIn,
         GetOutPacket, SearchPort, SharePort, TrySamePort, TryAnyPort, Takes, GoesOn, BindOut, SendOut, DeleteIn,
         AdmitIn, SendNew, Test, GetNoMsg, Traces, FindOut, GetOut, Check, CleanEntry, FreeEntry, RemoveEntry,
         RefreshEntry, Dangles, Throws, Strays, Fault, Goes, StartPublic, StartPrivate, Create, StartPorts,
         StopBegin, StopJoinPublic, StopJoinPrivate, ClockTick
<1>2. \E t \in Threads : Strays(t)
  BY <1>1, TwoThreads
  DEF PublicThread, PrivateThread, MainThread, CaptureThread, GetInPacket, FindIn, GetIn, SendIn,
      GetOutPacket, SearchPort, SharePort, TrySamePort, TryAnyPort, Takes, GoesOn, BindOut, SendOut, DeleteIn,
      AdmitIn, SendNew, Test, GetNoMsg, Traces, FindOut, GetOut, Check, CleanEntry, FreeEntry, RemoveEntry,
      RefreshEntry, Dangles, Throws, Fault, Quiet, Silent, StartPublic, StartPrivate, Create, StartPorts,
      StopBegin, StopJoinPublic, StopJoinPrivate, ClockTick
<1>3. PICK t \in Threads : t \in torn /\ pc' = pc
  BY <1>2 DEF Strays, Fault
<1>4. QED
  BY <1>3 DEF Tears

\* Which walks may be torn, whatever the interleaving.
THEOREM WalksTorn == ThreadsSpec => []TornInv
<1>1. ThreadsInit => TornInv
  BY TwoThreads DEF ThreadsInit, TornInv, Tearing
<1>2. TInv /\ TornInv /\ [ThreadsNext]_tvars => TornInv'
  <2> SUFFICES ASSUME TInv, TornInv, [ThreadsNext]_tvars PROVE TornInv'
    OBVIOUS
  <2>1. CASE UNCHANGED tvars
    BY <2>1 DEF tvars, TornInv
  <2>2. CASE Tears /\ (PublicThread \/ PrivateThread \/ MainThread \/ ClockTick)
    <3>1. torn' \subseteq Threads /\ \A t \in torn' : pc'[t] \in Walking
      BY <2>2 DEF Tears, Changes, TornInv, Walking
    <3>2. QED
      BY <2>2, <3>1, PrivateUntorn, TornFault DEF TornInv
  <2>3. QED
    BY <2>1, <2>2 DEF ThreadsNext, Ended
<1>3. QED
  BY <1>1, <1>2, ThreadsInvariant, PTL DEF ThreadsSpec

\* Every variable keeps its type.
THEOREM ThreadsTypeCorrect == ThreadsSpec => []ThreadsTypeOK
<1>1. TInv /\ TornInv => ThreadsTypeOK
  BY TwoThreads DEF TInv, Shared, Handlers, LocalAt, TypedAt, TornInv, ThreadsTypeOK, OutBinding
<1>2. QED
  BY <1>1, ThreadsInvariant, WalksTorn, PTL

\* Until a timeout is declared, without overloading, no index runs out of its table and no
\* reference outlives its item: what may come to grief is a walk of the public thread that
\* traces a table while the private thread inserts, and nothing else.  With overloading, too,
\* the private thread's own walks are not torn until then.
THEOREM NoFaultBeforeTimeout == ThreadsSpec => []NoFault
<1>1. TInv /\ TornInv => NoFault
  BY TwoThreads DEF TInv, Ledger, CalmFault, TornInv, NoFault
<1>2. QED
  BY <1>1, ThreadsInvariant, WalksTorn, PTL

\* What is bound is reserved, and what is reserved is bound or about to be, at
\* every point of a handler, until then.
THEOREM HeldPorts == ThreadsSpec => []PortsHeld
<1>1. TInv => PortsHeld
  BY DEF TInv, Ledger
<1>2. QED
  BY <1>1, ThreadsInvariant, PTL

\* Two flows never share a public endpoint until then.
THEOREM ExclusiveWhileFresh == ThreadsSpec => []FreshBindingExclusive
<1>1. TInv => FreshBindingExclusive
  BY DEF TInv, Ledger
<1>2. QED
  BY <1>1, ThreadsInvariant, PTL

-----------------------------------------------------------------------------
(* Answers.                                                                *)

\* What is claimed of answers is claimed of a NAT that translates, or overloads its ports.
Answerable == expired = 0 /\ (mConfig.mPortOverloading \/ mConfig.mMappingBehavior # "NotNated")

\* What the private thread knows of the flow of its packet.  Only it adds to the tables,
\* so that the index it has found is its own flow's until it uses it.
FlowAt(label, l) ==
  /\ label \notin Tearing
  /\ label \notin {"test", "wait", "listOut", "listIn"} => l.key = KeyOf(l.pk)
  /\ label = "getOut" => l.key \in DOMAIN mOutgoingTable /\ l.outIdx = Position(mOutgoingTable, l.key)
  /\ label = "check" => l.key \in DOMAIN mOutgoingTable /\ l.outRef.key = l.key
  /\ label = "bind" => l.inKey = IncommingPk(l.pk.dst, l.pk.dport, l.ip, l.port)
  /\ label \in {"refresh", "send", "delete", "admit", "sendNew"} =>
       /\ l.key \in DOMAIN mOutgoingTable
       /\ l.inKey = IncommingPk(l.pk.dst, l.pk.dport, mOutgoingTable[l.key].ip, mOutgoingTable[l.key].port)
  /\ label = "admit" /\ mConfig.mPortOverloading => l.inKey \notin DOMAIN mIncommingTable
  /\ label = "sendNew" => Answered(l.pk, l.inKey[3], l.inKey[4])

\* What comes in goes to the owner of the binding it comes in for.
Owned ==
  \A k \in DOMAIN mIncommingTable :
    LET e == mIncommingTable[k]
    IN  /\ e.reverse \in DOMAIN mOutgoingTable
        /\ mOutgoingTable[e.reverse].ip = k[3] /\ mOutgoingTable[e.reverse].port = k[4]
        /\ e.reverse[1] = e.ip /\ e.reverse[2] = e.port

Known == /\ FlowAt(pc["private"], P) /\ pc["public"] \notin Tearing
         /\ Exclusive => Owned

AnswerInv == /\ Answerable => Known
             /\ mThread["private"] = "none" => DOMAIN mIncommingTable = {}

\* At the position of a key is that key.
LEMMA AtPosition ==
  ASSUME NEW tbl, IsFiniteSet(DOMAIN tbl), DOMAIN tbl \subseteq TrafficId, NEW k \in DOMAIN tbl
  PROVE  At(tbl, Position(tbl, k)) = k
<1> DEFINE below(a) == {x \in DOMAIN tbl : Less(x, a)}
<1>1. ASSUME NEW a \in DOMAIN tbl, NEW b \in DOMAIN tbl, Less(a, b)
      PROVE  Cardinality(below(a)) # Cardinality(below(b))
  <2>1. below(a) \subseteq below(b) /\ a \in below(b) /\ a \notin below(a)
    BY <1>1, LessOrder
  <2>2. below(a) \in SUBSET below(b) /\ below(a) # below(b) /\ below(b) \in SUBSET DOMAIN tbl
    BY <2>1
  <2>3. IsFiniteSet(below(b))
    BY <2>2, FS_Subset
  <2> HIDE DEF below
  <2>4. QED
    BY <2>2, <2>3, FS_Subset
<1>2. \A a \in DOMAIN tbl : Position(tbl, a) = Cardinality(below(a))
  BY DEF Position
<1> HIDE DEF below
<1>3. \A a \in DOMAIN tbl : Position(tbl, a) = Position(tbl, k) => a = k
  BY <1>1, <1>2, LessOrder
<1>4. QED
  BY <1>3 DEF At

\* Only its domain decides where a key stands in a table.
LEMMA SamePosition ==
  ASSUME NEW tbl, NEW other, DOMAIN tbl = DOMAIN other, NEW k
  PROVE  Position(tbl, k) = Position(other, k)
BY DEF Position

\* The owners stay, as long as bindings only come and entries only go.
LEMMA OwnedKept ==
  ASSUME Owned,
         DOMAIN mIncommingTable' \subseteq DOMAIN mIncommingTable,
         \A k \in DOMAIN mIncommingTable' : mIncommingTable'[k] = mIncommingTable[k],
         DOMAIN mOutgoingTable \subseteq DOMAIN mOutgoingTable',
         \A o \in DOMAIN mOutgoingTable : /\ mOutgoingTable'[o].ip = mOutgoingTable[o].ip
                                          /\ mOutgoingTable'[o].port = mOutgoingTable[o].port
  PROVE  Owned'
BY DEF Owned

\* While a handler's packet is answered the configuration stays.
LEMMA AnsweredSame ==
  ASSUME mConfig' = mConfig, mIncommingTable' = mIncommingTable,
         DOMAIN mOutgoingTable' = DOMAIN mOutgoingTable
  PROVE  \A pk, ip, port : Answered(pk, ip, port)' = Answered(pk, ip, port)
BY DEF Answered, FilterKey, BindingKey, IncommingPk, OutgoingPk

\* What is known stays known while the private thread's handler rests.
LEMMA KnownKept ==
  ASSUME Known, mConfig' = mConfig, mIncommingTable' = mIncommingTable,
         DOMAIN mOutgoingTable' = DOMAIN mOutgoingTable,
         \A o \in DOMAIN mOutgoingTable : /\ mOutgoingTable'[o].ip = mOutgoingTable[o].ip
                                          /\ mOutgoingTable'[o].port = mOutgoingTable[o].port,
         pc'["private"] = pc["private"], pc'["public"] \notin Tearing,
         P'.pk = P.pk, P'.key = P.key, P'.inKey = P.inKey, P'.outIdx = P.outIdx,
         P'.outRef.key = P.outRef.key, P'.ip = P.ip, P'.port = P.port
  PROVE  Known'
<1>1. Exclusive' => Owned'
  BY OwnedKept DEF Known, Exclusive
<1>2. Position(mOutgoingTable, P.key)' = Position(mOutgoingTable, P.key)
  BY SamePosition
<1>3. \A pk, ip, port : Answered(pk, ip, port)' = Answered(pk, ip, port)
  BY AnsweredSame
<1>4. \A pk : KeyOf(pk)' = KeyOf(pk)
  BY DEF KeyOf, OutgoingPk
<1>5. \A a, b, c, d : IncommingPk(a, b, c, d)' = IncommingPk(a, b, c, d)
  BY DEF IncommingPk
<1>6. FlowAt(pc["private"], P)'
  BY <1>2, <1>3, <1>4, <1>5 DEF Known, FlowAt
<1>7. QED
  BY <1>1, <1>6 DEF Known

\* The timeouts counted never become fewer but by Stop; the claims need that there were none.
LEMMA StillAnswerable ==
  ASSUME TInv, mConfig' = mConfig, expired' = expired \/ expired' = expired + 1
  PROVE  Answerable' => Answerable /\ expired' = expired
<1>1. expired \in Nat
  BY DEF TInv, Shared
<1>2. QED
  BY <1>1 DEF Answerable

\* The clock and a thread that does nothing change no more than ages.
LEMMA KnownTick ==
  ASSUME TInv, Answerable => Known, ClockTick \/ UNCHANGED tvars
  PROVE  Answerable' => Known'
<1>1. loc \in [Threads -> Locally] /\ P \in Locally
  BY TwoThreads DEF TInv, Shared, P
<1>2. IsTable(mOutgoingTable, OutBinding)
  BY DEF TInv, Shared
<1>3. CASE ClockTick
  <2>1. /\ UNCHANGED <<mConfig, mIncommingTable, pc, expired>>
        /\ mOutgoingTable' = [o \in DOMAIN mOutgoingTable |->
                                [mOutgoingTable[o] EXCEPT !.age = mOutgoingTable[o].age + 1]]
    BY <1>3 DEF ClockTick, life
  <2>2. PICK late : P' = [P EXCEPT !.late = late]
    BY <1>1, <1>3, TwoThreads DEF ClockTick, P
  <2>3. /\ P'.pk = P.pk /\ P'.key = P.key /\ P'.inKey = P.inKey /\ P'.outIdx = P.outIdx
        /\ P'.outRef = P.outRef /\ P'.ip = P.ip /\ P'.port = P.port
    BY <1>1, <2>2 DEF Locally
  <2>4. DOMAIN mOutgoingTable' = DOMAIN mOutgoingTable
    BY <2>1
  <2>5. \A o \in DOMAIN mOutgoingTable : /\ mOutgoingTable'[o].ip = mOutgoingTable[o].ip
                                         /\ mOutgoingTable'[o].port = mOutgoingTable[o].port
    BY <1>2, <2>1 DEF IsTable, OutBinding
  <2>6. Answerable' => Answerable
    BY <2>1 DEF Answerable
  <2>7. Known => pc'["public"] \notin Tearing
    BY <2>1 DEF Known
  <2>8. QED
    BY <2>1, <2>3, <2>4, <2>5, <2>6, <2>7, KnownKept
<1>4. CASE UNCHANGED tvars
  <2>1. UNCHANGED <<mConfig, mOutgoingTable, mIncommingTable, pc, loc, expired>>
    BY <1>4 DEF tvars, tables, life
  <2>2. P' = P /\ (Answerable' => Answerable)
    BY <2>1 DEF P, Answerable
  <2>3. QED
    BY <2>1, <2>2, KnownKept DEF Known
<1>5. QED
  BY <1>3, <1>4

\* The public thread deletes nothing before a timeout, and inserts nothing.
LEMMA KnownPublic ==
  ASSUME TInv, Answerable => Known, PublicThread
  PROVE  Answerable' => Known'
<1>1. /\ loc \in [Threads -> Locally] /\ IsTable(mOutgoingTable, OutBinding)
      /\ IsFiniteSet(DOMAIN mOutgoingTable) /\ Shared
      /\ pc \in [Threads -> PrivateLabels \cup PublicLabels]
  BY DEF TInv, Shared
<1>2. mConfig' = mConfig /\ (expired' = expired \/ expired' = expired + 1)
  BY DEF PublicThread, CaptureThread, GetInPacket, FindIn, GetIn, SendIn, Test, GetNoMsg, Traces, FindOut, GetOut,
         Check, CleanEntry, FreeEntry, RemoveEntry, RefreshEntry, Dangles, Throws, Strays, Fault, Quiet, Silent, life
<1> SUFFICES ASSUME Answerable' PROVE Known'
  OBVIOUS
<1>3. Answerable /\ Known /\ expired' = expired
  BY <1>2, StillAnswerable
<1>4. pc["public"] \notin Tearing
  BY <1>3 DEF Known
<1>5. ~(CleanEntry("public") \/ FreeEntry("public") \/ RemoveEntry("public"))
  BY <1>4 DEF CleanEntry, FreeEntry, RemoveEntry, Goes, Tearing
<1>6. pc'["private"] = pc["private"]
  BY <1>1, <1>5, TwoThreads
  DEF PublicThread, CaptureThread, GetInPacket, FindIn, GetIn, SendIn, Test, GetNoMsg, Traces, FindOut, GetOut,
      Check, RefreshEntry, Dangles, Throws, Strays, Fault, Goes
<1>7. pc'["public"] \notin Tearing
  <2>1. CASE Check("public")
    <3>1. ~TimedOut("public")
      <4>1. expired \in Nat
        BY <1>1 DEF Shared
      <4>2. QED
        BY <1>3, <2>1, <4>1 DEF Check
    <3>2. pc'["public"] \in {"refresh", "send"}
      BY <1>1, <2>1, <3>1, TwoThreads DEF Check, Goes
    <3>3. QED
      BY <3>2 DEF Tearing
  <2>2. CASE ~Check("public")
    BY <1>1, <1>4, <1>5, <2>2, TwoThreads
    DEF PublicThread, CaptureThread, GetInPacket, FindIn, GetIn, SendIn, Test, GetNoMsg, Traces, FindOut, GetOut,
        RefreshEntry, Dangles, Throws, Strays, Fault, Goes, Tearing
  <2>3. QED
    BY <2>1, <2>2
<1>8. P' = P
  BY <1>1, <1>5, TwoThreads
  DEF PublicThread, CaptureThread, GetInPacket, FindIn, GetIn, SendIn, Test, GetNoMsg, Traces, FindOut, GetOut,
      Check, RefreshEntry, Dangles, Throws, Strays, Fault, Keeps, Sets, P
<1>9. CASE RefreshEntry("public")
  <2>1. mIncommingTable' = mIncommingTable
    BY <1>9 DEF RefreshEntry
  <2>2. /\ DOMAIN mOutgoingTable' = DOMAIN mOutgoingTable
        /\ \A o \in DOMAIN mOutgoingTable : /\ mOutgoingTable'[o].ip = mOutgoingTable[o].ip
                                            /\ mOutgoingTable'[o].port = mOutgoingTable[o].port
    BY <1>9, RefreshSame, TwoThreads
  <2>3. QED
    BY <1>2, <1>3, <1>6, <1>7, <1>8, <2>1, <2>2, KnownKept
<1>10. CASE ~RefreshEntry("public")
  <2>1. mOutgoingTable' = mOutgoingTable /\ mIncommingTable' = mIncommingTable
    BY <1>5, <1>10
    DEF PublicThread, CaptureThread, GetInPacket, FindIn, GetIn, SendIn, Test, GetNoMsg, Traces, FindOut, GetOut,
        Check, Dangles, Throws, Strays, Fault, Quiet, tables
  <2>2. QED
    BY <1>2, <1>3, <1>6, <1>7, <1>8, <2>1, KnownKept
<1>11. QED
  BY <1>9, <1>10

\* Start and Stop: no packet is under way when the tables are emptied or the configuration
\* changes.
LEMMA KnownMain ==
  ASSUME TInv, AnswerInv, MainThread
  PROVE  Answerable' => Known'
<1>1. /\ pc' = pc /\ loc' = loc
  BY DEF MainThread, StartPublic, StartPrivate, Create, StartPorts, StopBegin, StopJoinPublic, StopJoinPrivate
<1>2. P' = P
  BY <1>1 DEF P
<1>3. CASE UNCHANGED <<mConfig, mOutgoingTable, mIncommingTable, expired>>
  <2>1. Answerable' => Answerable
    BY <1>3 DEF Answerable
  <2>2. QED
    BY <1>1, <1>2, <1>3, <2>1, KnownKept DEF Known, AnswerInv
<1>4. CASE /\ \A t \in Threads : mThread[t] # "loop"
           /\ DOMAIN mIncommingTable' = {}
  <2>1. pc'["private"] = "test" /\ pc'["public"] = "test"
    BY <1>1, <1>4, TwoThreads DEF TInv, Stopped
  <2>2. Owned'
    BY <1>4 DEF Owned
  <2>3. QED
    BY <2>1, <2>2 DEF Known, FlowAt, Tearing
<1>5. CASE StopJoinPrivate
  <2>1. \A t \in Threads : mThread[t] # "loop"
    BY <1>5, TwoThreads DEF StopJoinPrivate, TInv, Stopped
  <2>2. DOMAIN mIncommingTable' = {}
    BY <1>5 DEF StopJoinPrivate, Stop, Empty
  <2>3. QED
    BY <1>4, <2>1, <2>2
<1>6. CASE \E c \in Configs, outcome \in {"none", "loop", "exited"} : StartPublic(c, outcome)
  <2>1. \/ mConfig' = mConfig
        \/ \A t \in Threads : mThread[t] = "none"
    BY <1>6 DEF StartPublic
  <2>2. UNCHANGED <<mOutgoingTable, mIncommingTable, expired>>
    BY <1>6 DEF StartPublic, Create, tables
  <2>3. CASE mConfig' = mConfig
    BY <1>3, <2>2, <2>3
  <2>4. CASE \A t \in Threads : mThread[t] = "none"
    BY <1>4, <2>2, <2>4, TwoThreads DEF AnswerInv
  <2>5. QED
    BY <2>1, <2>3, <2>4
<1>7. CASE (\E outcome \in {"none", "loop", "exited"} : StartPrivate(outcome))
           \/ StartPorts \/ StopBegin \/ StopJoinPublic
  <2>1. UNCHANGED <<mConfig, mOutgoingTable, mIncommingTable, expired>>
    BY <1>7 DEF StartPrivate, Create, StartPorts, StopBegin, StopJoinPublic, tables
  <2>2. QED
    BY <1>3, <2>1
<1>8. QED
  BY <1>5, <1>6, <1>7 DEF MainThread

\* The steps of the private thread that leave the tables alone, or refresh an entry: what is
\* left to show is what its handler knows at its new label.
LEMMA KnownMoves ==
  ASSUME Known, mConfig' = mConfig, pc'["public"] = pc["public"],
         DOMAIN mIncommingTable' \subseteq DOMAIN mIncommingTable,
         \A k \in DOMAIN mIncommingTable' : mIncommingTable'[k] = mIncommingTable[k],
         DOMAIN mOutgoingTable \subseteq DOMAIN mOutgoingTable',
         \A o \in DOMAIN mOutgoingTable : /\ mOutgoingTable'[o].ip = mOutgoingTable[o].ip
                                          /\ mOutgoingTable'[o].port = mOutgoingTable[o].port,
         FlowAt(pc["private"], P)'
  PROVE  Known'
<1>1. Exclusive' => Owned'
  BY OwnedKept DEF Known, Exclusive
<1>2. QED
  BY <1>1 DEF Known

\* The identifiers of a flow stay as long as the configuration does.
LEMMA SameIds ==
  ASSUME mConfig' = mConfig
  PROVE  /\ \A pk : KeyOf(pk)' = KeyOf(pk)
         /\ \A a, b, c, d : IncommingPk(a, b, c, d)' = IncommingPk(a, b, c, d)
BY DEF KeyOf, OutgoingPk, IncommingPk

\* A handler begins, looks its key up, and takes hold of the entry it has found.
LEMMA KnownFinds ==
  ASSUME TInv, Known,
         \/ \E pk \in OutPackets : GetOutPacket(pk)
         \/ FindOut("private", "getOut", "search") \/ GetOut("private")
  PROVE  Known'
<1>1. /\ P \in Locally /\ loc \in [Threads -> Locally] /\ Shared
      /\ IsFiniteSet(DOMAIN mOutgoingTable) /\ DOMAIN mOutgoingTable \subseteq TrafficId
      /\ pc \in [Threads -> PrivateLabels \cup PublicLabels] /\ "private" \in Threads
  BY TwoThreads, SharedTypes DEF TInv, Shared, P
<1>2. UNCHANGED <<mConfig, mOutgoingTable, mIncommingTable>>
  BY DEF GetOutPacket, FindOut, GetOut, Quiet, Silent, tables, life
<1>3. pc'["public"] = pc["public"]
  BY <1>1, TwoThreads DEF GetOutPacket, FindOut, GetOut, Goes
<1>4. /\ \A pk : KeyOf(pk)' = KeyOf(pk)
      /\ \A a, b, c, d : IncommingPk(a, b, c, d)' = IncommingPk(a, b, c, d)
  BY <1>2, SameIds
<1>5. ASSUME NEW pk \in OutPackets, GetOutPacket(pk) PROVE FlowAt(pc["private"], P)'
  <2>1. pc'["private"] = "findOut" /\ P' = [Locals(pk) EXCEPT !.key = KeyOf(pk)]
    BY <1>1, <1>5 DEF GetOutPacket, Goes, Sets, P
  <2>2. P'.key = KeyOf(pk) /\ P'.pk = pk
    BY <2>1 DEF Locals
  <2>3. QED
    BY <1>4, <2>1, <2>2 DEF FlowAt, Tearing
<1>6. ASSUME FindOut("private", "getOut", "search") PROVE FlowAt(pc["private"], P)'
  <2>1. pc["private"] = "findOut" /\ P.key = KeyOf(P.pk)
    BY <1>6 DEF FindOut, Goes, Known, FlowAt
  <2>2. PICK l : l = [P EXCEPT !.key = P.key]
    OBVIOUS
  <2>3. l = P
    BY <1>1, <2>2 DEF Locally
  <2>4. CASE P.key \in DOMAIN mOutgoingTable
    <3>1. /\ pc'["private"] = "getOut"
          /\ P' = [l EXCEPT !.outIdx = Position(mOutgoingTable, P.key)]
      BY <1>1, <1>6, <2>2, <2>4 DEF FindOut, Goes, Sets, P
    <3>2. P'.key = P.key /\ P'.pk = P.pk /\ P'.outIdx = Position(mOutgoingTable, P.key)
      BY <1>1, <2>3, <3>1 DEF Locally
    <3>3. P'.outIdx = Position(mOutgoingTable', P'.key)
      BY <1>2, <3>2
    <3>4. QED
      BY <1>2, <1>4, <2>1, <2>4, <3>1, <3>2, <3>3 DEF FlowAt, Tearing
  <2>5. CASE P.key \notin DOMAIN mOutgoingTable
    <3>1. pc'["private"] = "search" /\ \E ini : P' = [l EXCEPT !.ini = ini, !.i = ini]
      BY <1>1, <1>6, <2>2, <2>5 DEF FindOut, Goes, Sets, P
    <3>2. P'.key = P.key /\ P'.pk = P.pk
      BY <1>1, <2>3, <3>1 DEF Locally
    <3>3. QED
      BY <1>4, <2>1, <3>1, <3>2 DEF FlowAt, Tearing
  <2>6. QED
    BY <2>4, <2>5
<1>7. ASSUME GetOut("private") PROVE FlowAt(pc["private"], P)'
  <2>1. /\ pc["private"] = "getOut" /\ pc'["private"] = "check"
        /\ P' = [P EXCEPT !.outRef = Ref(At(mOutgoingTable, P.outIdx))]
    BY <1>1, <1>7 DEF GetOut, Goes, Sets, P
  <2>2. /\ P.key = KeyOf(P.pk) /\ P.key \in DOMAIN mOutgoingTable
        /\ P.outIdx = Position(mOutgoingTable, P.key)
    BY <2>1 DEF Known, FlowAt
  <2>3. At(mOutgoingTable, P.outIdx) = P.key
    BY <1>1, <2>2, AtPosition
  <2>4. P' = [P EXCEPT !.outRef = Ref(P.key)]
    BY <2>1, <2>3
  <2>5. P'.key = P.key /\ P'.pk = P.pk /\ P'.outRef.key = P.key
    BY <1>1, <2>4 DEF Locally, Ref
  <2>6. QED
    BY <1>2, <1>4, <2>1, <2>2, <2>5 DEF FlowAt, Tearing
<1>8. FlowAt(pc["private"], P)'
  BY <1>5, <1>6, <1>7
<1>9. QED
  BY <1>2, <1>3, <1>8, KnownMoves

\* What it has compared or refreshed is its own flow's entry, and so is what it sends from.
LEMMA KnownChecked ==
  ASSUME TInv, Known, Answerable,
         \/ Check("private") /\ expired' = expired
         \/ RefreshEntry("private") \/ SendOut
  PROVE  Known'
<1>1. /\ P \in Locally /\ loc \in [Threads -> Locally] /\ Shared /\ expired \in Nat
      /\ pc \in [Threads -> PrivateLabels \cup PublicLabels] /\ "private" \in Threads
  BY TwoThreads DEF TInv, Shared, P
<1>2. UNCHANGED <<mConfig, mIncommingTable>>
  BY DEF Check, RefreshEntry, SendOut, Silent, tables, life
<1>3. pc'["public"] = pc["public"]
  BY <1>1, TwoThreads DEF Check, RefreshEntry, SendOut, Goes
<1>4. /\ \A pk : KeyOf(pk)' = KeyOf(pk)
      /\ \A a, b, c, d : IncommingPk(a, b, c, d)' = IncommingPk(a, b, c, d)
  BY <1>2, SameIds
<1>5. /\ DOMAIN mOutgoingTable' = DOMAIN mOutgoingTable
      /\ \A o \in DOMAIN mOutgoingTable : /\ mOutgoingTable'[o].ip = mOutgoingTable[o].ip
                                          /\ mOutgoingTable'[o].port = mOutgoingTable[o].port
  BY <1>1, RefreshSame DEF Check, SendOut, tables
<1>6. ASSUME Check("private"), expired' = expired PROVE FlowAt(pc["private"], P)'
  <2>1. ~TimedOut("private")
    BY <1>1, <1>6 DEF Check
  <2>2. pc["private"] = "check" /\ pc'["private"] = "refresh"
    BY <1>1, <1>6, <2>1 DEF Check, Goes
  <2>3. P.key = KeyOf(P.pk) /\ P.key \in DOMAIN mOutgoingTable /\ P.outRef.key = P.key
    BY <2>2 DEF Known, FlowAt
  <2>4. PICK i : i = IncommingPk(P.pk.dst, P.pk.dport, mOutgoingTable[P.key].ip, mOutgoingTable[P.key].port)
    OBVIOUS
  <2>5. P' = [P EXCEPT !.late = 0, !.inKey = i]
    BY <1>1, <1>6, <2>3, <2>4 DEF Check, Sets, P
  <2>6. P'.key = P.key /\ P'.pk = P.pk /\ P'.inKey = i
    BY <1>1, <2>5 DEF Locally
  <2>7. P'.inKey = IncommingPk(P'.pk.dst, P'.pk.dport, mOutgoingTable'[P'.key].ip, mOutgoingTable'[P'.key].port)
    BY <1>5, <2>3, <2>4, <2>6
  <2>8. QED
    BY <1>4, <1>5, <2>2, <2>3, <2>6, <2>7 DEF FlowAt, Tearing
<1>7. ASSUME RefreshEntry("private") \/ SendOut PROVE FlowAt(pc["private"], P)'
  <2>1. /\ pc["private"] \in {"refresh", "send"} /\ P' = P
        /\ pc'["private"] \in {"send", "delete", "admit"}
        /\ pc'["private"] = "admit" => ~mConfig.mPortOverloading
    BY <1>1, <1>7 DEF RefreshEntry, SendOut, Goes, Keeps, Admitting, P
  <2>2. /\ P.key = KeyOf(P.pk) /\ P.key \in DOMAIN mOutgoingTable
        /\ P.inKey = IncommingPk(P.pk.dst, P.pk.dport, mOutgoingTable[P.key].ip, mOutgoingTable[P.key].port)
    BY <2>1 DEF Known, FlowAt
  <2>3. P'.inKey = IncommingPk(P'.pk.dst, P'.pk.dport, mOutgoingTable'[P'.key].ip, mOutgoingTable'[P'.key].port)
    BY <1>5, <2>1, <2>2
  <2>4. QED
    BY <1>2, <1>4, <1>5, <2>1, <2>2, <2>3 DEF FlowAt, Tearing
<1>8. FlowAt(pc["private"], P)'
  BY <1>6, <1>7
<1>9. QED
  BY <1>2, <1>3, <1>5, <1>8, KnownMoves

\* While it searches for a port it knows its key only; the port it takes makes the other one.
LEMMA KnownSearch ==
  ASSUME TInv, Known, Answerable, SearchPort \/ SharePort
  PROVE  Known'
<1>1. /\ P \in Locally /\ loc \in [Threads -> Locally] /\ Shared
      /\ pc \in [Threads -> PrivateLabels \cup PublicLabels] /\ "private" \in Threads
      /\ LocalAt("private", pc["private"], P)
  BY TwoThreads DEF TInv, Shared, Handlers, P
<1>2. mConfig' = mConfig
  BY DEF SearchPort, SharePort, TrySamePort, TryAnyPort, Takes, GoesOn, Silent, life
<1>3. pc'["public"] = pc["public"]
  BY <1>1, TwoThreads DEF SearchPort, SharePort, TrySamePort, TryAnyPort, Takes, GoesOn, Goes
<1>4. /\ \A pk : KeyOf(pk)' = KeyOf(pk)
      /\ \A a, b, c, d : IncommingPk(a, b, c, d)' = IncommingPk(a, b, c, d)
  BY <1>2, SameIds
<1>5. pc["private"] \in Searching
  BY DEF SearchPort, SharePort, TrySamePort, TryAnyPort, Takes, GoesOn, Goes, Searching
<1>6. P.key = KeyOf(P.pk)
  BY <1>5 DEF Known, FlowAt, Searching
<1>7. ASSUME NEW from, NEW port, NEW ports, Takes(from, port, ports) PROVE Known'
  <2>1. PICK ip, i : ip = IP /\ i = IncommingPk(P.pk.dst, P.pk.dport, ip, port)
    OBVIOUS
  <2>2. /\ pc'["private"] = "bind" /\ P' = [P EXCEPT !.ip = ip, !.port = port, !.fresh = TRUE, !.inKey = i]
        /\ UNCHANGED <<mOutgoingTable, mIncommingTable>>
    BY <1>1, <1>7, <2>1 DEF Takes, Goes, Sets, P
  <2>3. P'.key = P.key /\ P'.pk = P.pk /\ P'.ip = ip /\ P'.port = port /\ P'.inKey = i
    BY <1>1, <2>2 DEF Locally
  <2>4. FlowAt(pc["private"], P)'
    BY <1>4, <1>6, <2>1, <2>2, <2>3 DEF FlowAt, Tearing
  <2>5. QED
    BY <1>2, <1>3, <2>2, <2>4, KnownMoves
<1>8. ASSUME NEW round \in {"search", "again", "any"}, NEW ports, GoesOn(round, ports) PROVE Known'
  <2>1. UNCHANGED <<mOutgoingTable, mIncommingTable>>
    BY <1>8 DEF GoesOn
  <2>2. PICK to \in {"search", "again", "any", "share", "listOut"} : Goes("private", round, to)
    <3>1. AfterRound(round) \in {"share", "again", "any", "listOut"}
      BY DEF AfterRound
    <3>2. QED
      BY <1>8, <3>1 DEF GoesOn
  <2>3. PICK i, ini : \/ Sets("private", [P EXCEPT !.i = i])
                     \/ Sets("private", [P EXCEPT !.i = i, !.ini = ini])
    BY <1>8 DEF GoesOn
  <2>4. pc'["private"] = to
    BY <1>1, <2>2 DEF Goes
  <2>5. P' = [P EXCEPT !.i = i] \/ P' = [P EXCEPT !.i = i, !.ini = ini]
    BY <1>1, <2>3 DEF Sets, P
  <2>6. P'.key = P.key /\ P'.pk = P.pk
    BY <1>1, <2>5 DEF Locally
  <2>7. FlowAt(pc["private"], P)'
    BY <1>4, <1>6, <2>4, <2>6 DEF FlowAt, Tearing
  <2>8. QED
    BY <1>2, <1>3, <2>1, <2>7, KnownMoves
<1>9. CASE SearchPort
  BY <1>7, <1>8, <1>9 DEF SearchPort, TrySamePort, TryAnyPort
<1>10. CASE SharePort
  <2>1. CASE Takes("reserve", P.pk.sport, ReserverPort(IP, P.pk.sport))
    BY <1>7, <2>1
  <2>2. CASE ~Takes("reserve", P.pk.sport, ReserverPort(IP, P.pk.sport))
    <3>1. /\ pc["private"] \in {"share", "unlist"} /\ pc'["private"] \in {"unlist", "reserve"}
          /\ \/ \E K : DropIncomming(K)
             \/ \E K : DropOutgoing(K)
      BY <1>1, <1>10, <2>2 DEF SharePort, Goes
    <3>2. ~Exclusive
      BY <1>1, <3>1 DEF LocalAt, CalmAt, Calm, Answerable
    <3>3. P'.key = P.key /\ P'.pk = P.pk
      <4>1. \/ \E K : P' = [P EXCEPT !.inRef = Dies(P.inRef, K)]
            \/ \E K : P' = [P EXCEPT !.outRef = Dies(P.outRef, K)]
        BY <1>1, <3>1 DEF DropIncomming, DropOutgoing, P
      <4>2. QED
        BY <1>1, <4>1 DEF Locally
    <3>4. FlowAt(pc["private"], P)'
      BY <1>4, <1>6, <3>1, <3>3 DEF FlowAt, Tearing
    <3>5. QED
      BY <1>2, <1>3, <3>2, <3>4 DEF Known, Exclusive
  <2>3. QED
    BY <2>1, <2>2
<1>11. QED
  BY <1>9, <1>10

\* The new binding is the flow's, at the endpoint its handler has taken.
LEMMA KnownBind ==
  ASSUME TInv, Known, BindOut
  PROVE  Known'
<1>1. /\ P \in Locally /\ loc \in [Threads -> Locally]
      /\ pc \in [Threads -> PrivateLabels \cup PublicLabels] /\ "private" \in Threads
      /\ LocalAt("private", pc["private"], P)
  BY TwoThreads DEF TInv, Shared, Handlers, P
<1>2. UNCHANGED <<mConfig, mIncommingTable>> /\ P' = P
  BY DEF BindOut, Silent, Keeps, life, P
<1>3. pc'["public"] = pc["public"] /\ pc["private"] = "bind" /\ pc'["private"] = Admitting
  BY <1>1, TwoThreads DEF BindOut, Goes
<1>4. /\ \A pk : KeyOf(pk)' = KeyOf(pk)
      /\ \A a, b, c, d : IncommingPk(a, b, c, d)' = IncommingPk(a, b, c, d)
  BY <1>2, SameIds
<1>5. P.key \notin DOMAIN mOutgoingTable
  BY <1>1, <1>3 DEF LocalAt, TypedAt, Searching
<1>6. PICK e : e = [ip |-> P.ip, port |-> P.port, age |-> 0, reverse |-> P.inKey]
  OBVIOUS
<1>7. mOutgoingTable' = Put(mOutgoingTable, P.key, e)
  BY <1>5, <1>6 DEF BindOut, InsertTraffic
<1>8. /\ DOMAIN mOutgoingTable' = DOMAIN mOutgoingTable \cup {P.key} /\ mOutgoingTable'[P.key] = e
      /\ \A o \in DOMAIN mOutgoingTable : mOutgoingTable'[o] = mOutgoingTable[o]
  BY <1>5, <1>7 DEF Put
<1>9. P.key = KeyOf(P.pk) /\ P.inKey = IncommingPk(P.pk.dst, P.pk.dport, P.ip, P.port)
  BY <1>3 DEF Known, FlowAt
<1>10. e.ip = P.ip /\ e.port = P.port
  BY <1>6
<1>11. P'.inKey = IncommingPk(P'.pk.dst, P'.pk.dport, mOutgoingTable'[P'.key].ip, mOutgoingTable'[P'.key].port)
  BY <1>2, <1>8, <1>9, <1>10
<1>12. FlowAt(pc["private"], P)'
  BY <1>2, <1>3, <1>4, <1>8, <1>9, <1>11 DEF FlowAt, Tearing, Admitting
<1>13. QED
  BY <1>2, <1>3, <1>8, <1>12, KnownMoves

\* With overloading the key is free before the answer is admitted.
LEMMA KnownDelete ==
  ASSUME TInv, Known, DeleteIn
  PROVE  Known'
<1>1. /\ P \in Locally /\ loc \in [Threads -> Locally]
      /\ pc \in [Threads -> PrivateLabels \cup PublicLabels] /\ "private" \in Threads
  BY TwoThreads DEF TInv, Shared, P
<1>2. UNCHANGED <<mConfig, mOutgoingTable>>
  BY DEF DeleteIn, Silent, life
<1>3. pc'["public"] = pc["public"] /\ pc["private"] = "delete" /\ pc'["private"] = "admit"
  BY <1>1, TwoThreads DEF DeleteIn, Goes
<1>4. /\ \A pk : KeyOf(pk)' = KeyOf(pk)
      /\ \A a, b, c, d : IncommingPk(a, b, c, d)' = IncommingPk(a, b, c, d)
  BY <1>2, SameIds
<1>5. P' = [P EXCEPT !.inRef = Dies(P.inRef, {P.inKey})]
  BY <1>1 DEF DeleteIn, DropIncomming, P
<1>6. P'.key = P.key /\ P'.pk = P.pk /\ P'.inKey = P.inKey
  BY <1>1, <1>5 DEF Locally
<1>7. mIncommingTable' = Without(mIncommingTable, {P.inKey})
  BY DEF DeleteIn, DropIncomming
<1>8. /\ DOMAIN mIncommingTable' = DOMAIN mIncommingTable \ {P.inKey}
      /\ \A k \in DOMAIN mIncommingTable' : mIncommingTable'[k] = mIncommingTable[k]
  BY <1>7 DEF Without
<1>9. /\ P.key = KeyOf(P.pk) /\ P.key \in DOMAIN mOutgoingTable
      /\ P.inKey = IncommingPk(P.pk.dst, P.pk.dport, mOutgoingTable[P.key].ip, mOutgoingTable[P.key].port)
  BY <1>3 DEF Known, FlowAt
<1>10. P'.inKey = IncommingPk(P'.pk.dst, P'.pk.dport, mOutgoingTable'[P'.key].ip, mOutgoingTable'[P'.key].port)
  BY <1>2, <1>6, <1>9
<1>11. FlowAt(pc["private"], P)'
  BY <1>2, <1>3, <1>4, <1>6, <1>8, <1>9, <1>10 DEF FlowAt, Tearing
<1>12. QED
  BY <1>2, <1>3, <1>8, <1>11, KnownMoves

\* The identifiers of a flow of a NAT that translates begin with its private endpoint, and
\* those of its answers end with the public one.
LEMMA IdFields ==
  ASSUME mConfig \in Config
  PROVE  /\ \A pk : mConfig.mMappingBehavior # "NotNated" => KeyOf(pk)[1] = pk.src /\ KeyOf(pk)[2] = pk.sport
         /\ \A a, b, c, d : IncommingPk(a, b, c, d)[3] = c /\ IncommingPk(a, b, c, d)[4] = d
<1>1. /\ mConfig.mMappingBehavior \in {"NotNated", "EndPointIndependent", "AddressDependent", "AddressPortDependent"}
      /\ mConfig.mFilteringBehavior \in {"AddressIndependent", "AddressDependent", "AddressPortDependent"}
  BY DEF Config, Mappings, Filterings
<1>2. ASSUME NEW pk, mConfig.mMappingBehavior # "NotNated"
      PROVE  KeyOf(pk)[1] = pk.src /\ KeyOf(pk)[2] = pk.sport
  <2>1. PICK a, b, c, d : a = pk.src /\ b = pk.sport /\ c = pk.dst /\ d = pk.dport
    OBVIOUS
  <2>2. KeyOf(pk) \in {<<a, b, c, d>>, <<a, b, c, AnyPort>>, <<a, b, AnyIP, AnyPort>>}
    BY <1>1, <1>2, <2>1 DEF KeyOf, OutgoingPk
  <2>3. QED
    BY <2>1, <2>2
<1>3. ASSUME NEW a, NEW b, NEW c, NEW d
      PROVE  IncommingPk(a, b, c, d)[3] = c /\ IncommingPk(a, b, c, d)[4] = d
  <2>1. IncommingPk(a, b, c, d) \in {<<a, b, c, d>>, <<a, AnyPort, c, d>>, <<AnyIP, AnyPort, c, d>>}
    BY <1>1 DEF IncommingPk
  <2>2. QED
    BY <2>1
<1>4. QED
  BY <1>2, <1>3

\* When the incoming entry is there, answers reach the packet's sender: it is the packet's
\* own, or without overloading one of the same binding.
LEMMA AdmitAnswers ==
  ASSUME TInv, Known, Answerable, AdmitIn
  PROVE  Answered(P.pk, P.inKey[3], P.inKey[4])' /\ (Exclusive => Owned')
<1>1. /\ mConfig \in Config /\ pc["private"] = "admit"
      /\ UNCHANGED <<mConfig, mOutgoingTable, loc>> /\ P' = P
  BY SharedTypes DEF AdmitIn, Goes, Silent, Keeps, life, P, TInv
<1>2. PICK key, inKey, pk, b, e :
        /\ key = P.key /\ inKey = P.inKey /\ pk = P.pk /\ b = mOutgoingTable[P.key]
        /\ e = [ip |-> P.pk.src, port |-> P.pk.sport, reverse |-> P.key]
  OBVIOUS
<1>3. /\ key = KeyOf(pk) /\ key \in DOMAIN mOutgoingTable
      /\ inKey = IncommingPk(pk.dst, pk.dport, b.ip, b.port)
      /\ mConfig.mPortOverloading => inKey \notin DOMAIN mIncommingTable
  BY <1>1, <1>2 DEF Known, FlowAt
<1>4. inKey[3] = b.ip /\ inKey[4] = b.port
  BY <1>1, <1>3, IdFields
<1>5. mIncommingTable' = InsertTraffic(mIncommingTable, inKey, e)
  BY <1>2 DEF AdmitIn
<1>6. /\ DOMAIN mIncommingTable' = DOMAIN mIncommingTable \cup {inKey}
      /\ \A k \in DOMAIN mIncommingTable : mIncommingTable'[k] = mIncommingTable[k]
      /\ inKey \notin DOMAIN mIncommingTable => mIncommingTable'[inKey] = e
  BY <1>5 DEF InsertTraffic, Put
<1>7. e.ip = pk.src /\ e.port = pk.sport /\ e.reverse = key
  BY <1>2
<1>8. ASSUME inKey \in DOMAIN mIncommingTable
      PROVE  mIncommingTable[inKey].ip = pk.src /\ mIncommingTable[inKey].port = pk.sport
  <2>1. Exclusive /\ mConfig.mMappingBehavior # "NotNated"
    BY <1>3, <1>8 DEF Exclusive, Answerable
  <2>2. PICK o : /\ o = mIncommingTable[inKey].reverse /\ o \in DOMAIN mOutgoingTable
                 /\ mOutgoingTable[o].ip = inKey[3] /\ mOutgoingTable[o].port = inKey[4]
                 /\ o[1] = mIncommingTable[inKey].ip /\ o[2] = mIncommingTable[inKey].port
    BY <1>8, <2>1 DEF Known, Owned
  <2>3. BindingExclusive
    BY DEF TInv, Ledger, FreshBindingExclusive, Answerable
  <2>4. Endpoint(o) = Endpoint(key)
    BY <1>2, <1>4, <2>2 DEF Endpoint
  <2>5. o = key
    BY <1>3, <2>1, <2>2, <2>3, <2>4 DEF BindingExclusive
  <2>6. key[1] = pk.src /\ key[2] = pk.sport
    BY <1>1, <1>3, <2>1, IdFields
  <2>7. QED
    BY <2>2, <2>5, <2>6
<1>9. mIncommingTable'[inKey].ip = pk.src /\ mIncommingTable'[inKey].port = pk.sport
  BY <1>6, <1>7, <1>8
<1>10. Answered(P.pk, P.inKey[3], P.inKey[4])'
  <2>1. PICK answer : answer = [src |-> pk.dst, sport |-> pk.dport, dst |-> b.ip, dport |-> b.port]
    OBVIOUS
  <2>2. answer.src = pk.dst /\ answer.sport = pk.dport /\ answer.dst = b.ip /\ answer.dport = b.port
    BY <2>1
  <2>3. FilterKey(answer)' = inKey
    BY <1>1, <1>3, <2>2 DEF FilterKey, IncommingPk
  <2>4. BindingKey(answer)' = key
    BY <1>1, <1>3, <1>9, <2>2, <2>3 DEF BindingKey, KeyOf, OutgoingPk
  <2>5. FilterKey(answer)' \in DOMAIN mIncommingTable' /\ BindingKey(answer)' \in DOMAIN mOutgoingTable'
    BY <1>1, <1>3, <1>6, <2>3, <2>4
  <2>6. P'.pk = pk /\ P'.inKey[3] = b.ip /\ P'.inKey[4] = b.port
    BY <1>1, <1>2, <1>4
  <2>7. Answered(pk, b.ip, b.port)'
    BY <1>9, <2>1, <2>3, <2>5 DEF Answered
  <2>8. QED
    BY <2>6, <2>7 DEF Answered
<1>11. Exclusive => Owned'
  <2> SUFFICES ASSUME Exclusive, NEW k \in DOMAIN mIncommingTable', NEW f, f = mIncommingTable'[k]
               PROVE  /\ f.reverse \in DOMAIN mOutgoingTable
                      /\ mOutgoingTable[f.reverse].ip = k[3] /\ mOutgoingTable[f.reverse].port = k[4]
                      /\ f.reverse[1] = f.ip /\ f.reverse[2] = f.port
    BY <1>1 DEF Owned
  <2>1. CASE k \in DOMAIN mIncommingTable
    BY <1>6, <2>1 DEF Known, Owned
  <2>2. CASE k \notin DOMAIN mIncommingTable
    <3>1. k = inKey /\ f = e
      BY <1>6, <2>2
    <3>2. key[1] = pk.src /\ key[2] = pk.sport
      BY <1>1, <1>3, IdFields DEF Answerable, Exclusive
    <3>3. QED
      BY <1>2, <1>3, <1>4, <1>7, <3>1, <3>2
  <2>3. QED
    BY <2>1, <2>2
<1>12. QED
  BY <1>10, <1>11

LEMMA KnownAdmit ==
  ASSUME TInv, Known, Answerable, AdmitIn
  PROVE  Known'
<1>1. /\ pc \in [Threads -> PrivateLabels \cup PublicLabels] /\ "private" \in Threads
      /\ UNCHANGED <<mConfig, mOutgoingTable, loc>> /\ P' = P /\ pc["private"] = "admit"
  BY TwoThreads DEF TInv, Shared, AdmitIn, Goes, Silent, Keeps, life, P
<1>2. pc'["public"] = pc["public"] /\ pc'["private"] \in {"sendNew", "listOut"}
  BY <1>1, TwoThreads DEF AdmitIn, Goes
<1>3. /\ \A pk : KeyOf(pk)' = KeyOf(pk)
      /\ \A a, b, c, d : IncommingPk(a, b, c, d)' = IncommingPk(a, b, c, d)
  BY <1>1, SameIds
<1>4. Answered(P.pk, P.inKey[3], P.inKey[4])' /\ (Exclusive => Owned')
  BY AdmitAnswers
<1>5. /\ P.key = KeyOf(P.pk) /\ P.key \in DOMAIN mOutgoingTable
      /\ P.inKey = IncommingPk(P.pk.dst, P.pk.dport, mOutgoingTable[P.key].ip, mOutgoingTable[P.key].port)
  BY <1>1 DEF Known, FlowAt
<1>6. P'.inKey = IncommingPk(P'.pk.dst, P'.pk.dport, mOutgoingTable'[P'.key].ip, mOutgoingTable'[P'.key].port)
  BY <1>1, <1>5
<1>7. pc'["private"] = "sendNew" => Answered(P.pk, P.inKey[3], P.inKey[4])'
  BY <1>4
<1>8. FlowAt(pc["private"], P)'
  BY <1>1, <1>2, <1>3, <1>5, <1>6, <1>7 DEF FlowAt, Tearing
<1>9. QED
  BY <1>1, <1>2, <1>4, <1>8 DEF Known, Exclusive

\* Sending, waiting, looking at mTerminate and coming to grief change nothing that is known.
LEMMA KnownIdle ==
  ASSUME TInv, Known,
         \/ SendNew \/ Test("private") \/ GetNoMsg("private") \/ Traces("private")
         \/ Dangles("private") \/ Throws("private") \/ Strays("private")
  PROVE  Known'
<1>1. pc \in [Threads -> PrivateLabels \cup PublicLabels] /\ loc \in [Threads -> Locally]
  BY DEF TInv, Shared
<1>2. UNCHANGED <<mConfig, mOutgoingTable, mIncommingTable>>
  BY DEF SendNew, Test, GetNoMsg, Traces, Dangles, Throws, Strays, Fault, Quiet, Silent, tables, life
<1>3. pc'["public"] = pc["public"]
  BY <1>1, TwoThreads DEF SendNew, Test, GetNoMsg, Traces, Dangles, Throws, Strays, Fault, Goes
<1>4. CASE SendNew \/ Test("private") \/ GetNoMsg("private") \/ Traces("private")
  <2>1. pc'["private"] \in {"listOut", "listIn", "test", "wait"}
    BY <1>1, <1>4, TwoThreads DEF SendNew, Test, GetNoMsg, Traces, Goes
  <2>2. FlowAt(pc["private"], P)'
    BY <2>1 DEF FlowAt, Tearing
  <2>3. QED
    BY <1>2, <1>3, <2>2, KnownMoves
<1>5. CASE Dangles("private") \/ Throws("private") \/ Strays("private")
  <2>1. pc' = pc /\ P' = P
    BY <1>5 DEF Dangles, Throws, Strays, Fault, P
  <2>2. QED
    BY <1>2, <2>1, KnownKept DEF Known
<1>6. QED
  BY <1>4, <1>5

\* Every step of the private thread, until a timeout is declared.
LEMMA KnownPrivate ==
  ASSUME TInv, Answerable => Known, PrivateThread
  PROVE  Answerable' => Known'
<1>1. expired \in Nat
  BY DEF TInv, Shared
<1>2. mConfig' = mConfig /\ (expired' = expired \/ expired' = expired + 1)
  BY DEF PrivateThread, CaptureThread, GetOutPacket, SearchPort, SharePort, TrySamePort, TryAnyPort, Takes,
         GoesOn, BindOut, SendOut, DeleteIn, AdmitIn, SendNew, Test, GetNoMsg, Traces, FindOut, GetOut,
         Check, CleanEntry, FreeEntry, RemoveEntry, RefreshEntry, Dangles, Throws, Strays, Fault, Quiet, Silent, life
<1> SUFFICES ASSUME Answerable' PROVE Known'
  OBVIOUS
<1>3. Answerable /\ Known /\ expired' = expired
  BY <1>2, StillAnswerable
<1>4. ~(CleanEntry("private") \/ FreeEntry("private") \/ RemoveEntry("private"))
  BY <1>3 DEF Known, FlowAt, CleanEntry, FreeEntry, RemoveEntry, Goes, Tearing
<1>5. CASE CaptureThread("private")
  <2>1. CASE FindOut("private", "getOut", "search") \/ GetOut("private")
    BY <1>3, <2>1, KnownFinds
  <2>2. CASE Check("private") \/ RefreshEntry("private")
    BY <1>3, <2>2, KnownChecked
  <2>3. CASE \/ Test("private") \/ GetNoMsg("private") \/ Traces("private")
             \/ Dangles("private") \/ Throws("private") \/ Strays("private")
    BY <1>3, <2>3, KnownIdle
  <2>4. QED
    BY <1>4, <1>5, <2>1, <2>2, <2>3 DEF CaptureThread
<1>6. CASE (\E pk \in OutPackets : GetOutPacket(pk)) \/ SearchPort \/ SharePort
  BY <1>3, <1>6, KnownFinds, KnownSearch
<1>7. CASE BindOut \/ SendOut \/ DeleteIn \/ AdmitIn \/ SendNew
  BY <1>3, <1>7, KnownBind, KnownChecked, KnownDelete, KnownAdmit, KnownIdle
<1>8. QED
  BY <1>5, <1>6, <1>7 DEF PrivateThread

\* Nothing is left in the incoming table of a NAT without a private thread.
LEMMA NothingLeft ==
  ASSUME TInv, mThread["private"] = "none" => DOMAIN mIncommingTable = {}, [ThreadsNext]_tvars
  PROVE  mThread'["private"] = "none" => DOMAIN mIncommingTable' = {}
<1> SUFFICES ASSUME mThread'["private"] = "none" PROVE DOMAIN mIncommingTable' = {}
  OBVIOUS
<1>1. mThread \in [Threads -> {"none", "loop", "exited"}]
  BY DEF TInv, Shared
<1>2. CASE MainThread
  <2>1. CASE StopJoinPrivate
    BY <2>1 DEF StopJoinPrivate, Stop, Empty
  <2>2. CASE ~StopJoinPrivate
    <3>1. mIncommingTable' = mIncommingTable
      BY <1>2, <2>2 DEF MainThread, StartPublic, StartPrivate, Create, StartPorts, StopBegin, StopJoinPublic,
         tables
    <3>2. mThread["private"] = "none"
      BY <1>1, <1>2, <2>2, TwoThreads
      DEF MainThread, StartPublic, StartPrivate, Create, StartPorts, StopBegin, StopJoinPublic
    <3>3. QED
      BY <3>1, <3>2
  <2>3. QED
    BY <2>1, <2>2
<1>3. CASE ClockTick \/ UNCHANGED tvars
  BY <1>3 DEF ClockTick, tvars, tables, life
<1>4. CASE PublicThread
  <2>1. mThread'["private"] = mThread["private"]
    BY <1>1, <1>4, TwoThreads
    DEF PublicThread, CaptureThread, GetInPacket, FindIn, GetIn, SendIn, Test, GetNoMsg, Traces, FindOut, GetOut,
        Check, CleanEntry, FreeEntry, RemoveEntry, RefreshEntry, Dangles, Throws, Strays, Fault, Quiet, Silent, life
  <2>2. mIncommingTable' = mIncommingTable \/ \E K : mIncommingTable' = Without(mIncommingTable, K)
    BY <1>4
    DEF PublicThread, CaptureThread, GetInPacket, FindIn, GetIn, SendIn, Test, GetNoMsg, Traces, FindOut, GetOut,
        Check, CleanEntry, FreeEntry, RemoveEntry, RefreshEntry, Dangles, Throws, Strays, Fault, Quiet, Silent,
        tables, DropIncomming
  <2>3. QED
    BY <2>1, <2>2 DEF Without
<1>5. ~PrivateThread
  <2> SUFFICES ASSUME PrivateThread PROVE FALSE
    OBVIOUS
  <2>1. mThread["private"] = "loop"
    BY DEF PrivateThread, CaptureThread, GetOutPacket, SearchPort, SharePort, TrySamePort, TryAnyPort, Takes,
           GoesOn, BindOut, SendOut, DeleteIn, AdmitIn, SendNew, Test, GetNoMsg, Traces, FindOut, GetOut,
           Check, CleanEntry, FreeEntry, RemoveEntry, RefreshEntry, Dangles, Throws, Strays, Fault, Goes
  <2>2. mThread'["private"] \in {"loop", "exited"}
    BY <1>1, <2>1, TwoThreads
    DEF PrivateThread, CaptureThread, GetOutPacket, SearchPort, SharePort, TrySamePort, TryAnyPort, Takes,
        GoesOn, BindOut, SendOut, DeleteIn, AdmitIn, SendNew, Test, GetNoMsg, Traces, FindOut, GetOut,
        Check, CleanEntry, FreeEntry, RemoveEntry, RefreshEntry, Dangles, Throws, Strays, Fault, Quiet, Silent, life
  <2>3. QED
    BY <2>2
<1>6. QED
  BY <1>2, <1>3, <1>4, <1>5 DEF ThreadsNext, Ended

LEMMA AnswerInit == ThreadsInit => AnswerInv
<1> SUFFICES ASSUME ThreadsInit PROVE AnswerInv
  OBVIOUS
<1>1. pc["private"] = "test" /\ pc["public"] = "test" /\ DOMAIN mIncommingTable = {}
  BY TwoThreads DEF ThreadsInit, Init, Empty
<1>2. QED
  BY <1>1 DEF AnswerInv, Known, FlowAt, Owned, Tearing

LEMMA AnswerStep == TInv /\ AnswerInv /\ [ThreadsNext]_tvars => AnswerInv'
<1> SUFFICES ASSUME TInv, AnswerInv, [ThreadsNext]_tvars PROVE AnswerInv'
  OBVIOUS
<1>1. mThread'["private"] = "none" => DOMAIN mIncommingTable' = {}
  BY NothingLeft DEF AnswerInv
<1>2. Answerable => Known
  BY DEF AnswerInv
<1>3. Answerable' => Known'
  BY <1>2, KnownPublic, KnownPrivate, KnownMain, KnownTick DEF ThreadsNext, Ended
<1>4. QED
  BY <1>1, <1>3 DEF AnswerInv

\* The handler ends by admitting the answer, or by sending after it has.
LEMMA EndsAnswered ==
  ASSUME TInv, Known, Answerable, [ThreadsNext]_tvars,
         pc["private"] \in {"admit", "sendNew"}, pc'["private"] = "listOut"
  PROVE  Answered(P.pk, P.inKey[3], P.inKey[4])'
<1>1. pc \in [Threads -> PrivateLabels \cup PublicLabels]
  BY DEF TInv, Shared
<1>2. pc'["private"] # pc["private"]
  OBVIOUS
<1>3. ~(PublicThread \/ MainThread \/ ClockTick \/ Ended \/ UNCHANGED tvars)
  <2>1. ~PublicThread
    BY <1>1, <1>2, TwoThreads
    DEF PublicThread, CaptureThread, GetInPacket, FindIn, GetIn, SendIn, Test, GetNoMsg, Traces, FindOut, GetOut,
        Check, CleanEntry, FreeEntry, RemoveEntry, RefreshEntry, Dangles, Throws, Strays, Fault, Goes
  <2>2. ~MainThread
    BY <1>2 DEF MainThread, StartPublic, StartPrivate, Create, StartPorts, StopBegin, StopJoinPublic,
       StopJoinPrivate
  <2>3. QED
    BY <1>2, <2>1, <2>2 DEF ClockTick, Ended, tvars
<1>4. PrivateThread
  BY <1>3 DEF ThreadsNext
<1>5. AdmitIn \/ SendNew
  BY <1>2, <1>4
  DEF PrivateThread, CaptureThread, GetOutPacket, SearchPort, SharePort, TrySamePort, TryAnyPort, Takes,
      GoesOn, BindOut, SendOut, DeleteIn, Test, GetNoMsg, Traces, FindOut, GetOut,
      Check, CleanEntry, FreeEntry, RemoveEntry, RefreshEntry, Dangles, Throws, Strays, Fault, Goes
<1>6. CASE AdmitIn
  BY <1>6, AdmitAnswers
<1>7. CASE SendNew
  <2>1. pc["private"] = "sendNew" /\ UNCHANGED <<mConfig, mOutgoingTable, mIncommingTable>> /\ P' = P
    BY <1>7 DEF SendNew, Goes, tables, life, P
  <2>2. Answered(P.pk, P.inKey[3], P.inKey[4])
    BY <2>1 DEF Known, FlowAt
  <2>3. PICK pk, ip, port : pk = P.pk /\ ip = P.inKey[3] /\ port = P.inKey[4]
    OBVIOUS
  <2>4. Answered(pk, ip, port)'
    BY <2>1, <2>2, <2>3, AnsweredSame
  <2>5. QED
    BY <2>1, <2>3, <2>4 DEF Answered
<1>8. QED
  BY <1>5, <1>6, <1>7

\* What the private thread's handler knows of its flow at each of its labels, and the two
\* tables of each other, until a timeout is declared: however the calls of the two handlers,
\* Start and Stop interleave.
THEOREM FlowsKept == ThreadsSpec => []AnswerInv
<1>1. ThreadsInit => AnswerInv
  BY AnswerInit
<1>2. TInv /\ AnswerInv /\ [ThreadsNext]_tvars => AnswerInv'
  BY AnswerStep
<1>3. QED
  BY <1>1, <1>2, ThreadsInvariant, PTL DEF ThreadsSpec

\* Once the handler of a packet is done, an answer to it finds its way back to its sender,
\* whatever the other threads did between its calls, until a timeout is declared.
THEOREM HandledIsAnswered == ThreadsSpec => AnsweredWhenDone
<1>1. TInv /\ AnswerInv /\ [ThreadsNext]_tvars
        => [expired = 0 /\ (mConfig.mPortOverloading \/ mConfig.mMappingBehavior # "NotNated")
            /\ pc["private"] \in {"admit", "sendNew"} /\ pc'["private"] = "listOut" =>
              Answered(P.pk, P.inKey[3], P.inKey[4])']_tvars
  BY EndsAnswered DEF AnswerInv, Answerable
<1>2. QED
  BY <1>1, ThreadsInvariant, FlowsKept, PTL DEF ThreadsSpec, AnsweredWhenDone
=============================================================================
