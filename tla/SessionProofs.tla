----------------------------- MODULE SessionProofs -----------------------------
(***************************************************************************)
(* Proofs about module Session, for every number of hosts, ports and       *)
(* messages, and every configuration of the NAT.                           *)
(***************************************************************************)
EXTENDS Session, NATSimProofs

-----------------------------------------------------------------------------
(* The messages of a session: what is decoded is what was encoded.          *)

\* The sizes of the attributes that leave bytes are numbers.
LEMMA SizeType ==
  ASSUME NEW types \in SUBSET (Addresses \cup {CHANGE_REQUEST})
  PROVE  SizeOf(types) \in Nat
<1> DEFINE All == Addresses \cup {CHANGE_REQUEST}
<1>1. IsFiniteSet(All)
  <2>1. All = {MAPPED_ADDRESS} \cup ({RESPONSE_ADDRESS} \cup ({SOURCE_ADDRESS} \cup
                ({CHANGED_ADDRESS} \cup ({REFLECTED_FROM} \cup
                  ({XOR_MAPPED_ADDRESS} \cup {CHANGE_REQUEST})))))
    BY DEF Addresses
  <2>2. \A a : IsFiniteSet({a})
    BY FS_Singleton
  <2>3. \A S : \A a : IsFiniteSet(S) => IsFiniteSet({a} \cup S)
    BY <2>2, FS_Union
  <2>4. IsFiniteSet({XOR_MAPPED_ADDRESS} \cup {CHANGE_REQUEST})
    BY <2>2, <2>3
  <2>5. IsFiniteSet({CHANGED_ADDRESS} \cup ({REFLECTED_FROM} \cup
                      ({XOR_MAPPED_ADDRESS} \cup {CHANGE_REQUEST})))
    BY <2>3, <2>4
  <2>6. QED
    BY <2>1, <2>3, <2>5
<1>2. /\ IsFiniteSet(types) /\ IsFiniteSet(types \cap Addresses)
      /\ IsFiniteSet(types \cap {CHANGE_REQUEST})
  <2>1. types \subseteq All /\ types \cap Addresses \subseteq All
        /\ types \cap {CHANGE_REQUEST} \subseteq All
    OBVIOUS
  <2>2. QED
    BY <1>1, <2>1, FS_Subset
<1>3. /\ Cardinality(types) \in Nat /\ Cardinality(types \cap Addresses) \in Nat
      /\ Cardinality(types \cap {CHANGE_REQUEST}) \in Nat
  BY <1>2, FS_CardinalityType
<1>4. getDataLength(MAPPED_ADDRESS) = 8 /\ getDataLength(CHANGE_REQUEST) = 4
  BY DEF getDataLength, Addresses, MAPPED_ADDRESS, CHANGE_REQUEST, RESPONSE_ADDRESS, SOURCE_ADDRESS,
         CHANGED_ADDRESS, REFLECTED_FROM, XOR_MAPPED_ADDRESS
<1>5. QED
  BY <1>3, <1>4 DEF SizeOf, ATT_HEADER

\* A message of addresses and change requests, all of which it may carry and none of
\* the mandatory ones missing, arrives as it was sent.
LEMMA RoundTrip ==
  ASSUME NEW type, NEW id, NEW D \in SUBSET (Addresses \cup {CHANGE_REQUEST}), NEW T,
         NEW f \in [D -> T], NEW msg, msg = [type |-> type, id |-> id, attrs |-> f],
         type # "exception",
         validateAttributePresentity(msg), \A a \in D : Presentity(type, a) # "N_A"
  PROVE  decode(encode(msg)) = msg /\ encode(msg).id = id
<1> DEFINE types == {a \in DOMAIN msg.attrs : getDataLength(a) > 0}
           wire == [type |-> type, id |-> id, length |-> SizeOf(D),
                    body |-> [a \in D |-> f[a]], bytes |-> SizeOf(D)]
<1>1. D = DOMAIN f /\ f = [a \in D |-> f[a]]
  OBVIOUS
<1>2. msg # Failed /\ wire # Failed
  BY DEF Failed
<1>3. types = D
  <2>1. \A a \in D : getDataLength(a) > 0
    BY DEF getDataLength
  <2>2. QED
    BY <2>1, <1>1
<1>4. encode(msg) = wire
  <2>1. msg.attrs = f /\ msg.type = type /\ msg.id = id
    OBVIOUS
  <2>2. encode(msg) = [type |-> msg.type, id |-> msg.id, length |-> SizeOf(DOMAIN msg.attrs),
                       body |-> [a \in types |-> msg.attrs[a]], bytes |-> SizeOf(types)]
    BY <1>2 DEF encode
  <2>3. QED
    BY <2>1, <2>2, <1>1, <1>3
<1>5. wire.length <= wire.bytes
  BY SizeType
<1>6. D \cap NotImplemented = {}
  BY DEF Addresses, NotImplemented, MAPPED_ADDRESS, CHANGE_REQUEST, RESPONSE_ADDRESS, SOURCE_ADDRESS,
         CHANGED_ADDRESS, REFLECTED_FROM, XOR_MAPPED_ADDRESS, MESSAGE_INTEGRITY, PASSWORD, USERNAME
<1>7. decode(wire) = [type |-> type, id |-> id, attrs |-> f]
  BY <1>1, <1>2, <1>5, <1>6 DEF decode, Whole
<1>8. QED
  BY <1>4, <1>7

\* What adding attributes to a message without any gives.
LEMMA AddToNone ==
  ASSUME NEW type, NEW id, NEW D, NEW T, NEW f \in [D -> T], type # "exception",
         \A a \in D : Presentity(type, a) # "N_A"
  PROVE  addAttributes([type |-> type, id |-> id, attrs |-> NoAttributes], f) =
           [type |-> type, id |-> id, attrs |-> f]
<1> DEFINE none == [type |-> type, id |-> id, attrs |-> NoAttributes]
<1>1. none # Failed /\ DOMAIN f = D /\ DOMAIN NoAttributes = {} /\ none.attrs = NoAttributes
  BY DEF Failed, NoAttributes
<1>2. [a \in DOMAIN NoAttributes \cup DOMAIN f |->
         IF a \in DOMAIN NoAttributes THEN NoAttributes[a] ELSE f[a]] = f
  BY <1>1
<1>3. QED
  BY <1>1, <1>2 DEF addAttributes

\* A binding request may carry, and needs none of, these.
LEMMA RequestCarries ==
  /\ \A a \in {CHANGE_REQUEST, RESPONSE_ADDRESS} : Presentity(BINDING_REQUEST, a) # "N_A"
  /\ \A a : Presentity(BINDING_REQUEST, a) # "M"
<1>1. Mandatory["BINDING_REQUEST"] = {} /\ {CHANGE_REQUEST, RESPONSE_ADDRESS} \subseteq Optional["BINDING_REQUEST"]
  BY DEF Mandatory, Optional, BINDING_REQUEST
<1>2. QED
  BY <1>1 DEF Presentity, BINDING_REQUEST

\* A binding response may carry, and needs, these.
LEMMA ResponseCarries ==
  LET D == {MAPPED_ADDRESS, SOURCE_ADDRESS, CHANGED_ADDRESS, XOR_MAPPED_ADDRESS}
  IN  /\ \A a \in D : Presentity(BINDING_RESPONSE, a) # "N_A"
      /\ \A a : Presentity(BINDING_RESPONSE, a) = "M" => a \in D
<1>1. Mandatory["BINDING_RESPONSE"] = {MAPPED_ADDRESS, SOURCE_ADDRESS, CHANGED_ADDRESS, XOR_MAPPED_ADDRESS}
  BY DEF Mandatory
<1>2. QED
  BY <1>1 DEF Presentity, BINDING_RESPONSE

\* What a request is before it is encoded.
LEMMA RequestCreated ==
  ASSUME NEW id, NEW changeIP, NEW changePort
  PROVE  createBindingRequest(id, changeIP, changePort) =
           [type |-> BINDING_REQUEST, id |-> id,
            attrs |-> [a \in {CHANGE_REQUEST} |-> [ip |-> changeIP, port |-> changePort]]]
<1> DEFINE D == {CHANGE_REQUEST}
           T == {[ip |-> changeIP, port |-> changePort]}
           f == [a \in {CHANGE_REQUEST} |-> [ip |-> changeIP, port |-> changePort]]
<1>1. f \in [D -> T]
  OBVIOUS
<1>2. BINDING_REQUEST # "exception" /\ \A a \in D : Presentity(BINDING_REQUEST, a) # "N_A"
  BY RequestCarries DEF BINDING_REQUEST
<1>3. createBindingRequest(id, changeIP, changePort) =
        addAttributes([type |-> BINDING_REQUEST, id |-> id, attrs |-> NoAttributes], f)
  BY DEF createBindingRequest, addAttribute
<1>4. addAttributes([type |-> BINDING_REQUEST, id |-> id, attrs |-> NoAttributes], f) =
        [type |-> BINDING_REQUEST, id |-> id, attrs |-> f]
  <2> HIDE DEF D, T, f
  <2>1. QED
    BY ONLY <1>1, <1>2, AddToNone
<1>5. QED
  BY <1>3, <1>4

\* A request arrives with its id and with the attributes given.
LEMMA RequestArrives ==
  ASSUME NEW id, NEW D \in SUBSET {CHANGE_REQUEST, RESPONSE_ADDRESS}, NEW T, NEW f \in [D -> T]
  PROVE  LET msg == [type |-> BINDING_REQUEST, id |-> id, attrs |-> f]
         IN  decode(encode(msg)) = msg /\ encode(msg).id = id /\ msg # Failed
<1> DEFINE msg == [type |-> BINDING_REQUEST, id |-> id, attrs |-> f]
<1>1. BINDING_REQUEST # "exception" /\ \A a \in D : Presentity(BINDING_REQUEST, a) # "N_A"
  BY RequestCarries DEF BINDING_REQUEST
<1>2. validateAttributePresentity(msg)
  BY RequestCarries DEF validateAttributePresentity
<1>3. msg # Failed
  BY <1>1 DEF Failed
<1>4. D \in SUBSET (Addresses \cup {CHANGE_REQUEST})
  BY DEF Addresses
<1>5. msg = [type |-> BINDING_REQUEST, id |-> id, attrs |-> f]
  OBVIOUS
<1>6. decode(encode(msg)) = msg /\ encode(msg).id = id
  <2> HIDE DEF msg
  <2>1. QED
    BY ONLY RoundTrip, <1>1, <1>2, <1>4, <1>5, f \in [D -> T]
<1>7. QED
  BY <1>3, <1>6

\* A request without RESPONSE_ADDRESS.
LEMMA PlainRequest ==
  ASSUME NEW id, NEW i, NEW p
  PROVE  LET w == encode(createBindingRequest(id, i, p))
         IN  /\ decode(w) # Failed /\ decode(w).id = id /\ w.id = id
             /\ DOMAIN decode(w).attrs = {CHANGE_REQUEST}
             /\ decode(w).attrs[CHANGE_REQUEST].ip = i /\ decode(w).attrs[CHANGE_REQUEST].port = p
<1> DEFINE D == {CHANGE_REQUEST}
           T == {[ip |-> i, port |-> p]}
           f == [a \in {CHANGE_REQUEST} |-> [ip |-> i, port |-> p]]
           msg == [type |-> BINDING_REQUEST, id |-> id, attrs |-> f]
<1>1. f \in [D -> T] /\ D \in SUBSET {CHANGE_REQUEST, RESPONSE_ADDRESS}
  OBVIOUS
<1>2. createBindingRequest(id, i, p) = msg
  BY RequestCreated
<1>3. decode(encode(msg)) = msg /\ encode(msg).id = id /\ msg # Failed
  <2> HIDE DEF D, T, f
  <2>1. QED
    BY ONLY RequestArrives, <1>1
<1>4. QED
  BY <1>2, <1>3

\* A request with RESPONSE_ADDRESS.
LEMMA RequestElsewhere ==
  ASSUME NEW id, NEW i, NEW p, NEW address
  PROVE  LET w == encode(addAttribute(createBindingRequest(id, i, p), RESPONSE_ADDRESS, address))
         IN  /\ decode(w) # Failed /\ decode(w).id = id /\ w.id = id
             /\ DOMAIN decode(w).attrs = {CHANGE_REQUEST, RESPONSE_ADDRESS}
             /\ decode(w).attrs[CHANGE_REQUEST].ip = i /\ decode(w).attrs[CHANGE_REQUEST].port = p
             /\ decode(w).attrs[RESPONSE_ADDRESS] = address
<1> DEFINE D == {CHANGE_REQUEST, RESPONSE_ADDRESS}
           T == {[ip |-> i, port |-> p], address}
           f == [a \in D |-> IF a = CHANGE_REQUEST THEN [ip |-> i, port |-> p] ELSE address]
           msg == [type |-> BINDING_REQUEST, id |-> id, attrs |-> f]
           plain == [type |-> BINDING_REQUEST, id |-> id,
                     attrs |-> [a \in {CHANGE_REQUEST} |-> [ip |-> i, port |-> p]]]
           new == [a \in {RESPONSE_ADDRESS} |-> address]
<1>1. f \in [D -> T] /\ D \in SUBSET {CHANGE_REQUEST, RESPONSE_ADDRESS}
  OBVIOUS
<1>2. addAttribute(createBindingRequest(id, i, p), RESPONSE_ADDRESS, address) = addAttributes(plain, new)
  BY RequestCreated DEF addAttribute
<1>3. addAttributes(plain, new) = msg
  <2>1. plain # Failed /\ DOMAIN new = {RESPONSE_ADDRESS}
    BY DEF Failed, BINDING_REQUEST
  <2>2. Presentity(plain.type, RESPONSE_ADDRESS) # "N_A"
    BY RequestCarries
  <2>3. addAttributes(plain, new) =
          [plain EXCEPT !.attrs = [a \in DOMAIN @ \cup DOMAIN new |->
                                     IF a \in DOMAIN @ THEN @[a] ELSE new[a]]]
    BY <2>1, <2>2 DEF addAttributes
  <2>4. [a \in DOMAIN plain.attrs \cup DOMAIN new |->
           IF a \in DOMAIN plain.attrs THEN plain.attrs[a] ELSE new[a]] = f
    BY <2>1
  <2>5. QED
    BY <2>3, <2>4
<1>4. decode(encode(msg)) = msg /\ encode(msg).id = id /\ msg # Failed
  <2> HIDE DEF D, T, f
  <2>1. QED
    BY ONLY RequestArrives, <1>1
<1>5. CHANGE_REQUEST # RESPONSE_ADDRESS
  BY DEF CHANGE_REQUEST, RESPONSE_ADDRESS
<1>6. QED
  BY <1>2, <1>3, <1>4, <1>5

\* The server's answer arrives with the id of the request and its four addresses;
\* XOR-ed once more the fourth is the first.
LEMMA AnswerArrives ==
  ASSUME NEW id, NEW address, NEW source, NEW other, NEW ip, NEW port,
         address = Address(ip, port)
  PROVE  LET w   == encode(createBindingResponse(id, address, source, other))
             msg == decode(w)
         IN  /\ msg # Failed /\ msg.id = id /\ w.id = id
             /\ DOMAIN msg.attrs = {MAPPED_ADDRESS, SOURCE_ADDRESS, CHANGED_ADDRESS, XOR_MAPPED_ADDRESS}
             /\ msg.attrs[MAPPED_ADDRESS] = address
             /\ msg.attrs[CHANGED_ADDRESS] = other
             /\ applyXor(msg.attrs[XOR_MAPPED_ADDRESS], id) = address
<1> DEFINE D == {MAPPED_ADDRESS, SOURCE_ADDRESS, CHANGED_ADDRESS, XOR_MAPPED_ADDRESS}
           hidden == applyXor(address, id)
           T == {address, source, other, hidden}
           f == [a \in D |-> CASE a = MAPPED_ADDRESS     -> address
                               [] a = SOURCE_ADDRESS     -> source
                               [] a = CHANGED_ADDRESS    -> other
                               [] a = XOR_MAPPED_ADDRESS -> applyXor(address, id)]
           msg == [type |-> BINDING_RESPONSE, id |-> id, attrs |-> f]
<1>1. f[MAPPED_ADDRESS] = address /\ f[CHANGED_ADDRESS] = other /\ f[XOR_MAPPED_ADDRESS] = hidden
      /\ f[SOURCE_ADDRESS] = source /\ DOMAIN f = D
  BY DEF MAPPED_ADDRESS, SOURCE_ADDRESS, CHANGED_ADDRESS, XOR_MAPPED_ADDRESS
<1>2. f \in [D -> T]
  BY <1>1
<1>3. BINDING_RESPONSE # "exception" /\ \A a \in D : Presentity(BINDING_RESPONSE, a) # "N_A"
  BY ResponseCarries DEF BINDING_RESPONSE
<1>4. createBindingResponse(id, address, source, other) = msg
  <2>1. createBindingResponse(id, address, source, other) =
          addAttributes([type |-> BINDING_RESPONSE, id |-> id, attrs |-> NoAttributes], f)
    BY DEF createBindingResponse
  <2> HIDE DEF D, T, f
  <2>2. addAttributes([type |-> BINDING_RESPONSE, id |-> id, attrs |-> NoAttributes], f) =
          [type |-> BINDING_RESPONSE, id |-> id, attrs |-> f]
    BY ONLY <1>2, <1>3, AddToNone
  <2>3. QED
    BY <2>1, <2>2
<1>5. validateAttributePresentity(msg)
  BY <1>1, ResponseCarries DEF validateAttributePresentity
<1>6. D \in SUBSET (Addresses \cup {CHANGE_REQUEST})
  BY DEF Addresses
<1>7. msg = [type |-> BINDING_RESPONSE, id |-> id, attrs |-> f]
  OBVIOUS
<1>8. decode(encode(msg)) = msg /\ encode(msg).id = id
  <2> HIDE DEF D, T, f, msg
  <2>1. QED
    BY ONLY RoundTrip, <1>2, <1>3, <1>5, <1>6, <1>7
<1>9. msg # Failed
  BY <1>3 DEF Failed
<1>10. applyXor(hidden, id) = address
  BY DEF applyXor, Address
<1>11. QED
  BY <1>1, <1>4, <1>8, <1>9, <1>10

-----------------------------------------------------------------------------
(* The types of a session.                                                 *)

NatAddress    == [ip : NatIPs, port : Ports, mask : {{}}]
ServerAddress == [ip : PublicIPs, port : ServerPorts, mask : {{}}]
ClientAddress == [ip : PrivateIPs, port : ClientPorts, mask : {{}}]

\* What the clients ask, and what the server answers.
RequestWires ==
  {encode(createBindingRequest(id, i, p)) : id \in 1 .. MaxStep, i \in BOOLEAN, p \in BOOLEAN}
  \cup {encode(addAttribute(createBindingRequest(id, i, p), RESPONSE_ADDRESS, a)) :
          id \in 1 .. MaxStep, i \in BOOLEAN, p \in BOOLEAN, a \in NatAddress}

AnswerWires ==
  {encode(createBindingResponse(id, a, source, other)) :
     id \in 1 .. MaxStep, a \in NatAddress, source \in ServerAddress, other \in ServerAddress}

\* A packet on its four legs: to the NAT, on to the server, and back.
Between(S, SP, D, DP, W) == [src : S, sport : SP, dst : D, dport : DP, wire : W]
FromClient == Between(PrivateIPs, ClientPorts, PublicIPs, ServerPorts, RequestWires)
ToServer   == Between(NatIPs, Ports, PublicIPs, ServerPorts, RequestWires)
FromServer == Between(PublicIPs, ServerPorts, NatIPs, Ports, AnswerWires)
ToClient   == Between(PublicIPs, ServerPorts, PrivateIPs, ClientPorts, AnswerWires)

\* How many requests a test makes at most.
Last == CASE test \in {"mapping", "filtering"} -> 3
          [] test = "pooling"                  -> NumMessages
          [] test = "overloading"              -> 2 * NumMessages
          [] test = "lifetime"                 -> 2

Asks == phase \in {"ask", "wait"}

\* The request under way is the one the test has come to.
Requested == phase = "wait" => request = [slot |-> Slot, to |-> To, wire |-> Wire]

ClientType ==
  /\ test \in Tests
  /\ phase \in {"start", "ask", "wait", "sleep", "ended", "join", "over"}
  /\ Asks \/ phase = "sleep" => step \in 1 .. Last
  /\ phase = "sleep" => test = "lifetime" /\ step = 1
  /\ mapped \in [1 .. MaxStep -> NatAddress \cup {NoAddress}]
  /\ changed \in ServerAddress \cup {NoAddress}
  /\ test = "mapping" /\ Asks /\ step >= 2 => changed \in ServerAddress
  /\ test = "lifetime" /\ (phase = "sleep" \/ (Asks /\ step = 2)) => mapped[1] \in NatAddress
  /\ me \in [Slots -> ClientAddress \cup {NoAddress}]
  /\ Requested

NetType ==
  /\ net \subseteq FromClient \cup ToServer \cup FromServer \cup ToClient
  /\ mRcvQueue \in [Slots -> Seq(AnswerWires)]

\* What the constants are.
LEMMA SessionConstants ==
  /\ ClientA \in PrivateIPs /\ ClientB \in PrivateIPs
  /\ ServerAIP \in PublicIPs /\ ServerBIP \in PublicIPs /\ ServerAIP # ServerBIP
  /\ ServerPort1 \in ServerPorts /\ ServerPort2 \in ServerPorts /\ ServerPort1 # ServerPort2
  /\ NumMessages \in Nat \ {0} /\ MaxStep \in Nat /\ MaxLost \in Nat
  /\ SourcePort \in Nat /\ \A i \in 0 .. NumMessages : SourcePort + i \in ClientPorts
<1>1. \A i \in 0 .. NumMessages : SourcePort + i \in SourcePort .. (SourcePort + NumMessages)
  BY SessionAssumption
<1>2. QED
  BY <1>1, SessionAssumption DEF MaxStep

\* A test has at most as many requests as are numbered.
LEMMA LastType ==
  ASSUME test \in Tests
  PROVE  /\ Last \in 1 .. MaxStep
         /\ test \in {"mapping", "filtering"} => Last = 3
         /\ test = "pooling" => Last = NumMessages
         /\ test = "overloading" => Last = 2 * NumMessages
         /\ test = "lifetime" => Last = 2
BY SessionConstants DEF Last, Tests, MaxStep

\* Where a request comes from, where it goes and what it is.
LEMMA RequestTypes ==
  ASSUME ClientType, Asks
  PROVE  From \in ClientAddress /\ To \in ServerAddress /\ Wire \in RequestWires
<1>1. step \in 1 .. Last /\ step \in Nat /\ step \in 1 .. MaxStep
  <2>1. test \in Tests /\ step \in 1 .. Last
    BY DEF ClientType
  <2>2. Last \in 1 .. MaxStep /\ MaxStep \in Nat
    BY <2>1, LastType, SessionConstants
  <2>3. QED
    BY <2>1, <2>2
<1>2. From \in ClientAddress
  <2>1. SourcePort \in ClientPorts /\ SourcePort + 1 \in ClientPorts
    BY SessionConstants
  <2>2. CASE test = "pooling"
    <3>1. SourcePort + step - 1 = SourcePort + (step - 1) /\ step - 1 \in 0 .. NumMessages
      BY <1>1, <2>2, LastType, SessionConstants DEF ClientType
    <3>2. QED
      BY <3>1, <2>2, SessionConstants DEF From, ClientAddress, Address
  <2>3. CASE test # "pooling"
    BY <2>1, <2>3, SessionConstants DEF From, ClientAddress, Address
  <2>4. QED
    BY <2>2, <2>3
<1>3. To \in ServerAddress
  BY SessionConstants, <1>1 DEF To, A1, ServerAddress, Address, ClientType
<1>4. Wire \in RequestWires
  <2> DEFINE i == test = "filtering" /\ step = 2
             p == test = "filtering" /\ step \in {2, 3}
  <2>1. i \in BOOLEAN /\ p \in BOOLEAN
    OBVIOUS
  <2>2. CASE test = "lifetime" /\ step = 2
    <3>1. mapped[1] \in NatAddress
      BY <2>2 DEF ClientType
    <3>2. Wire = encode(addAttribute(createBindingRequest(step, i, p), RESPONSE_ADDRESS, mapped[1]))
      BY <2>2 DEF Wire
    <3> HIDE DEF i, p
    <3>3. QED
      BY <1>1, <2>1, <3>1, <3>2 DEF RequestWires
  <2>3. CASE ~(test = "lifetime" /\ step = 2)
    <3>1. Wire = encode(createBindingRequest(step, i, p))
      BY <2>3 DEF Wire
    <3> HIDE DEF i, p
    <3>2. QED
      BY <1>1, <2>1, <3>1 DEF RequestWires
  <2>4. QED
    BY <2>2, <2>3
<1>5. QED
  BY <1>2, <1>3, <1>4

\* What the server reads of a request.
LEMMA RequestFacts ==
  ASSUME NEW w \in RequestWires
  PROVE  /\ decode(w) # Failed /\ decode(w).id = w.id /\ w.id \in 1 .. MaxStep
         /\ CHANGE_REQUEST \in DOMAIN decode(w).attrs
         /\ RESPONSE_ADDRESS \in DOMAIN decode(w).attrs =>
              decode(w).attrs[RESPONSE_ADDRESS] \in NatAddress
<1>1. CASE \E id \in 1 .. MaxStep, i \in BOOLEAN, p \in BOOLEAN :
             w = encode(createBindingRequest(id, i, p))
  <2>1. PICK id, i, p : id \in 1 .. MaxStep /\ w = encode(createBindingRequest(id, i, p))
    BY <1>1
  <2> DEFINE v == encode(createBindingRequest(id, i, p))
  <2>2. /\ decode(v) # Failed /\ decode(v).id = id /\ v.id = id
        /\ DOMAIN decode(v).attrs = {CHANGE_REQUEST}
    BY PlainRequest
  <2>3. QED
    BY <2>1, <2>2 DEF CHANGE_REQUEST, RESPONSE_ADDRESS
<1>2. CASE \E id \in 1 .. MaxStep, i \in BOOLEAN, p \in BOOLEAN, a \in NatAddress :
             w = encode(addAttribute(createBindingRequest(id, i, p), RESPONSE_ADDRESS, a))
  <2>1. PICK id, i, p, a :
          /\ id \in 1 .. MaxStep /\ a \in NatAddress
          /\ w = encode(addAttribute(createBindingRequest(id, i, p), RESPONSE_ADDRESS, a))
    BY <1>2
  <2> DEFINE v == encode(addAttribute(createBindingRequest(id, i, p), RESPONSE_ADDRESS, a))
  <2>2. /\ decode(v) # Failed /\ decode(v).id = id /\ v.id = id
        /\ DOMAIN decode(v).attrs = {CHANGE_REQUEST, RESPONSE_ADDRESS}
        /\ decode(v).attrs[RESPONSE_ADDRESS] = a
    BY RequestElsewhere
  <2>3. QED
    BY <2>1, <2>2
<1>3. QED
  BY <1>1, <1>2 DEF RequestWires

\* What a client reads of an answer.
LEMMA AnswerFacts ==
  ASSUME NEW w \in AnswerWires
  PROVE  /\ decode(w) # Failed /\ decode(w).id = w.id /\ w.id \in 1 .. MaxStep
         /\ Answers \subseteq DOMAIN decode(w).attrs
         /\ Learned(decode(w), MAPPED_ADDRESS) \in NatAddress
         /\ Learned(decode(w), CHANGED_ADDRESS) \in ServerAddress
         /\ Unmasked(decode(w)) = Learned(decode(w), MAPPED_ADDRESS)
<1>1. PICK id \in 1 .. MaxStep, a \in NatAddress, source \in ServerAddress, other \in ServerAddress :
        w = encode(createBindingResponse(id, a, source, other))
  BY DEF AnswerWires
<1>2. a = Address(a.ip, a.port)
  BY DEF NatAddress, Address
<1>3. /\ decode(w) # Failed /\ decode(w).id = id /\ w.id = id
      /\ DOMAIN decode(w).attrs = {MAPPED_ADDRESS, SOURCE_ADDRESS, CHANGED_ADDRESS, XOR_MAPPED_ADDRESS}
      /\ decode(w).attrs[MAPPED_ADDRESS] = a
      /\ decode(w).attrs[CHANGED_ADDRESS] = other
      /\ applyXor(decode(w).attrs[XOR_MAPPED_ADDRESS], id) = a
  BY <1>1, <1>2, AnswerArrives
<1>4. QED
  BY <1>3 DEF Answers, Learned, getAttribute, Unmasked

-----------------------------------------------------------------------------
(* What the NAT, the server and the network make of a packet.               *)

\* A packet of the private side leaves from an endpoint of the NAT, if it leaves.
LEMMA OutgoingSent ==
  ASSUME TypeOK, NEW pk \in OutPackets, TreatOutgoingPacket(pk), sent' # Nothing
  PROVE  /\ sent'.from[1] \in NatIPs /\ sent'.from[2] \in Ports
         /\ sent'.to[1] = pk.dst /\ sent'.to[2] = pk.dport
<1>1. CASE OutgoingExpire(pk) \/ OutgoingDrop(pk)
  BY <1>1 DEF OutgoingExpire, OutgoingDrop, Expire
<1>2. CASE OutgoingRefresh(pk)
  <2>1. PICK e : e = mOutgoingTable[KeyOf(pk)]
    OBVIOUS
  <2>2. e \in Binding /\ Emit(e.ip, e.port, pk.dst, pk.dport)
    BY <1>2, <2>1 DEF OutgoingRefresh, TypeOK, IsTable
  <2>3. QED
    BY <2>2 DEF Emit, Binding
<1>3. CASE BindSamePort(pk) \/ BindOverloaded(pk) \/ BindFirstAvailable(pk)
  <2>1. PICK ip \in NatIPs, port \in Ports : \E out, inc : Bind(pk, ip, port, out, inc)
    BY <1>3, BindingChoice
  <2>2. Emit(ip, port, pk.dst, pk.dport)
    BY <2>1 DEF Bind
  <2>3. QED
    BY <2>2 DEF Emit
<1>4. QED
  BY <1>1, <1>2, <1>3 DEF TreatOutgoingPacket

\* A packet of the public side comes in to a private endpoint, if it comes in.
LEMMA IncommingSent ==
  ASSUME TypeOK, NEW pk \in InPackets, TreatIncommingPacket(pk), sent' # Nothing
  PROVE  /\ FilterKey(pk) \in DOMAIN mIncommingTable
         /\ mIncommingTable[FilterKey(pk)] \in Target
         /\ Forward(pk)
<1>1. Passes(pk) /\ Forward(pk)
  BY DEF TreatIncommingPacket, IncommingExpire, Expire, IncommingForward, IncommingForwardUnbound,
     IncommingDrop
<1>2. FilterKey(pk) \in DOMAIN mIncommingTable
  BY <1>1 DEF Passes
<1>3. QED
  BY <1>1, <1>2 DEF TypeOK, IsTable

\* Whose side a packet is on.
LEMMA Sides ==
  ASSUME NEW p \in FromClient \cup ToServer \cup FromServer \cup ToClient
  PROVE  /\ p \in FromClient <=> p.src \in PrivateIPs
         /\ p \in ToServer <=> p.src \in NatIPs
         /\ p \in FromServer <=> p.src \in PublicIPs /\ p.dst \in NatIPs
         /\ p \in ToClient <=> p.src \in PublicIPs /\ p.dst \in PrivateIPs
         /\ p \in FromClient => Header(p) \in OutPackets
         /\ p \in FromServer => Header(p) \in InPackets
BY AddressAssumption DEF FromClient, ToServer, FromServer, ToClient, Between, Header, OutPackets,
   InPackets, Packet

\* What has become of a packet that the NAT translated.
LEMMA OutgoingPacket ==
  ASSUME TypeOK, NEW p \in FromClient, Outgoing(p)
  PROVE  \/ sent' = Nothing /\ net' = net \ {p}
         \/ \E q \in ToServer :
              /\ net' = (net \ {p}) \cup {q}
              /\ q.src = sent'.from[1] /\ q.sport = sent'.from[2]
              /\ q.dst = p.dst /\ q.dport = p.dport /\ q.wire = p.wire
<1> DEFINE q == [p EXCEPT !.src = sent'.from[1], !.sport = sent'.from[2],
                          !.dst = sent'.to[1], !.dport = sent'.to[2]]
<1>1. Header(p) \in OutPackets /\ TreatOutgoingPacket(Header(p))
      /\ Header(p).dst = p.dst /\ Header(p).dport = p.dport
  BY Sides DEF Outgoing, Header
<1>2. CASE sent' = Nothing
  BY <1>2 DEF Outgoing, Translated
<1>3. CASE sent' # Nothing
  <2>1. /\ sent'.from[1] \in NatIPs /\ sent'.from[2] \in Ports
        /\ sent'.to[1] = p.dst /\ sent'.to[2] = p.dport
    BY <1>1, <1>3, OutgoingSent
  <2>2. q \in ToServer /\ q.src = sent'.from[1] /\ q.sport = sent'.from[2]
        /\ q.dst = p.dst /\ q.dport = p.dport /\ q.wire = p.wire
    BY <2>1 DEF FromClient, ToServer, Between
  <2>3. net' = (net \ {p}) \cup {q}
    BY <1>3 DEF Outgoing, Translated
  <2>4. QED
    BY <2>2, <2>3
<1>4. QED
  BY <1>2, <1>3

\* An answer the NAT lets in is a packet to the client that the entry names, or is gone.
LEMMA IncommingPacket ==
  ASSUME TypeOK, NEW p \in FromServer, Incomming(p)
  PROVE  \/ sent' = Nothing /\ net' = net \ {p}
         \/ \E q \in ToClient :
              /\ net' = (net \ {p}) \cup {q}
              /\ FilterKey(Header(p)) \in DOMAIN mIncommingTable
              /\ q.src = p.src /\ q.sport = p.sport /\ q.wire = p.wire
              /\ q.dst = mIncommingTable[FilterKey(Header(p))].ip
              /\ q.dport = mIncommingTable[FilterKey(Header(p))].port
<1> DEFINE q == [p EXCEPT !.src = sent'.from[1], !.sport = sent'.from[2],
                          !.dst = sent'.to[1], !.dport = sent'.to[2]]
<1>1. Header(p) \in InPackets /\ TreatIncommingPacket(Header(p))
      /\ Header(p).src = p.src /\ Header(p).sport = p.sport
  BY Sides DEF Incomming, Header
<1>2. CASE sent' = Nothing
  BY <1>2 DEF Incomming, Translated
<1>3. CASE sent' # Nothing
  <2>1. PICK e : e = mIncommingTable[FilterKey(Header(p))]
    OBVIOUS
  <2>2. /\ FilterKey(Header(p)) \in DOMAIN mIncommingTable
        /\ e \in Target /\ Emit(p.src, p.sport, e.ip, e.port)
    BY <1>1, <1>3, <2>1, IncommingSent DEF Forward
  <2>3. q \in ToClient /\ q.src = p.src /\ q.sport = p.sport
        /\ q.dst = e.ip /\ q.dport = e.port /\ q.wire = p.wire
    BY <2>2 DEF FromServer, ToClient, Between, Emit, Target
  <2>4. net' = (net \ {p}) \cup {q}
    BY <1>3 DEF Incomming, Translated
  <2>5. QED
    BY <2>1, <2>2, <2>3, <2>4
<1>4. QED
  BY <1>2, <1>3

\* The server's answer: where it comes from, where it goes and what it says.
LEMMA AnswerIs ==
  ASSUME NEW p \in ToServer, NEW msg, msg = decode(p.wire),
         NEW source, source = Source(p, msg.attrs[CHANGE_REQUEST])
  PROVE  /\ decode(p.wire) # Failed
         /\ source \in ServerAddress
         /\ Answer(p) \in FromServer
         /\ Answer(p).src = source.ip /\ Answer(p).sport = source.port
         /\ RESPONSE_ADDRESS \notin DOMAIN msg.attrs =>
              Answer(p).dst = p.src /\ Answer(p).dport = p.sport
         /\ Answer(p).wire.id = p.wire.id
         /\ Learned(decode(Answer(p).wire), MAPPED_ADDRESS) = Address(p.src, p.sport)
         /\ Learned(decode(Answer(p).wire), CHANGED_ADDRESS) =
              Address(OtherIP(source.ip), OtherPort(source.port))
<1> DEFINE sender == Address(p.src, p.sport)
           other  == Address(OtherIP(source.ip), OtherPort(source.port))
           to     == getAttribute(msg, RESPONSE_ADDRESS, sender)
           w      == encode(createBindingResponse(msg.id, sender, source, other))
<1>1. /\ p.src \in NatIPs /\ p.sport \in Ports /\ p.dst \in PublicIPs /\ p.dport \in ServerPorts
      /\ p.wire \in RequestWires
  BY DEF ToServer, Between
<1>2. /\ msg # Failed /\ msg.id = p.wire.id /\ msg.id \in 1 .. MaxStep
      /\ RESPONSE_ADDRESS \in DOMAIN msg.attrs => msg.attrs[RESPONSE_ADDRESS] \in NatAddress
  BY <1>1, RequestFacts
<1>3. /\ \A ip \in PublicIPs : OtherIP(ip) \in PublicIPs
      /\ \A port \in ServerPorts : OtherPort(port) \in ServerPorts
  BY SessionConstants DEF OtherIP, OtherPort
<1>4. source \in ServerAddress
  BY <1>1, <1>3 DEF Source, ServerAddress, Address
<1>5. other \in ServerAddress /\ sender \in NatAddress
  BY <1>1, <1>3, <1>4 DEF ServerAddress, NatAddress, Address
<1>6. /\ to \in NatAddress
      /\ RESPONSE_ADDRESS \notin DOMAIN msg.attrs => to.ip = p.src /\ to.port = p.sport
  BY <1>2, <1>5 DEF getAttribute, Address
<1>7. Answer(p) = Datagram(source, to, w)
  BY DEF Answer
<1>8. w \in AnswerWires
  BY <1>2, <1>4, <1>5 DEF AnswerWires
<1>9. /\ w.id = msg.id
      /\ DOMAIN decode(w).attrs = {MAPPED_ADDRESS, SOURCE_ADDRESS, CHANGED_ADDRESS, XOR_MAPPED_ADDRESS}
      /\ decode(w).attrs[MAPPED_ADDRESS] = sender
      /\ decode(w).attrs[CHANGED_ADDRESS] = other
  BY AnswerArrives
<1>10. Learned(decode(w), MAPPED_ADDRESS) = sender /\ Learned(decode(w), CHANGED_ADDRESS) = other
  BY <1>9 DEF Learned, getAttribute
<1> HIDE DEF sender, other, to, w
<1>11. /\ Answer(p).src = source.ip /\ Answer(p).sport = source.port
       /\ Answer(p).dst = to.ip /\ Answer(p).dport = to.port /\ Answer(p).wire = w
       /\ Answer(p) \in FromServer
  <2>1. Answer(p) = [src |-> source.ip, sport |-> source.port, dst |-> to.ip, dport |-> to.port,
                     wire |-> w]
    BY <1>7 DEF Datagram
  <2>2. /\ source.ip \in PublicIPs /\ source.port \in ServerPorts
        /\ to.ip \in NatIPs /\ to.port \in Ports
    BY <1>4, <1>6 DEF ServerAddress, NatAddress
  <2>3. Answer(p) \in FromServer
    BY <1>8, <2>1, <2>2 DEF FromServer, Between
  <2>4. QED
    BY <2>1, <2>3
<1>12. /\ Learned(decode(Answer(p).wire), MAPPED_ADDRESS) = Address(p.src, p.sport)
       /\ Learned(decode(Answer(p).wire), CHANGED_ADDRESS) =
            Address(OtherIP(source.ip), OtherPort(source.port))
       /\ Answer(p).wire.id = p.wire.id
  BY <1>2, <1>9, <1>10, <1>11 DEF sender, other
<1>13. QED
  BY <1>2, <1>4, <1>6, <1>11, <1>12

-----------------------------------------------------------------------------
(* A session keeps its types.                                              *)

\* Nothing of the request under way changes with the steps that leave the test
\* where it is.
LEMMA SameRequest ==
  ASSUME UNCHANGED <<test, step, mapped, changed>>
  PROVE  /\ Slot' = Slot /\ From' = From /\ To' = To /\ Wire' = Wire /\ Last' = Last
         /\ Creates' = Creates
BY DEF Slot, From, To, A1, Wire, Last, Creates

\* A step that keeps what the test knows keeps its type.
LEMMA StayType ==
  ASSUME ClientType, UNCHANGED <<test, phase, step, mapped, changed, me, request>>
  PROVE  ClientType'
BY SameRequest DEF ClientType, Asks, Requested

\* A test comes to its next request, or to its end, without an answer.
LEMMA MoveType ==
  ASSUME ClientType, UNCHANGED <<test, mapped, changed>>,
         me' \in [Slots -> ClientAddress \cup {NoAddress}],
         \/ phase' \in {"ended", "join", "over"}
         \/ /\ phase' = "ask" /\ step' \in 1 .. Last
            /\ test = "mapping" => step' = 1
            /\ test = "lifetime" /\ step' = 2 => mapped[1] \in NatAddress
  PROVE  ClientType'
<1>1. Last' = Last
  BY DEF Last
<1>2. QED
  BY <1>1 DEF ClientType, Asks, Requested

\* The endpoints of the transactions.
LEMMA MeType ==
  ASSUME ClientType
  PROVE  /\ [s \in Slots |-> NoAddress] \in [Slots -> ClientAddress \cup {NoAddress}]
         /\ \A s \in Slots : [me EXCEPT ![s] = NoAddress] \in [Slots -> ClientAddress \cup {NoAddress}]
         /\ Asks => \A s \in Slots : [me EXCEPT ![s] = From] \in [Slots -> ClientAddress \cup {NoAddress}]
  BY RequestTypes DEF ClientType

\* The first sending keeps the types.
LEMMA AskType ==
  ASSUME ClientType, Ask \/ AskDeaf
  PROVE  ClientType'
<1>1. /\ phase = "ask" /\ phase' = "wait" /\ UNCHANGED <<test, step, mapped, changed>>
      /\ request' = [slot |-> Slot, to |-> To, wire |-> Wire]
  BY DEF Ask, AskDeaf, SendFirst
<1>2. me' \in [Slots -> ClientAddress \cup {NoAddress}]
  <2>1. Slot \in Slots /\ Asks
    BY <1>1 DEF Slot, Slots, Asks
  <2>2. QED
    BY <2>1, MeType DEF Ask, AskDeaf, ClientType
<1>3. QED
  BY <1>1, <1>2, SameRequest DEF ClientType, Asks, Requested

\* How a test takes an answer, or goes on without one.
LEMMA ConcludeMoves ==
  ASSUME ClientType, phase = "wait", NEW msg, Conclude(msg),
         msg # Failed => Answers \subseteq DOMAIN msg.attrs
  PROVE  /\ UNCHANGED test
         /\ me' \in [Slots -> ClientAddress \cup {NoAddress}]
         /\ \/ phase' = "ended" /\ step' = step /\ me' = [s \in Slots |-> NoAddress]
            \/ /\ phase' = "ask" /\ step' = step + 1 /\ step + 1 \in 1 .. Last
               /\ me'["S"] = me["S"]
               /\ test # "lifetime" /\ (test = "mapping" => msg # Failed)
            \/ /\ phase' = "sleep" /\ UNCHANGED <<step, me>>
               /\ test = "lifetime" /\ step = 1 /\ msg # Failed
<1>1. step \in 1 .. Last /\ step \in Nat /\ Last \in Nat /\ UNCHANGED test
  <2>1. test \in Tests /\ step \in 1 .. Last /\ UNCHANGED test
    BY DEF ClientType, Asks, Conclude
  <2>2. Last \in 1 .. MaxStep /\ MaxStep \in Nat
    BY <2>1, LastType, SessionConstants
  <2>3. QED
    BY <2>1, <2>2
<1> DEFINE Endpoints == [Slots -> ClientAddress \cup {NoAddress}]
<1>2. ASSUME NEW found, Finish(found)
      PROVE  /\ phase' = "ended" /\ step' = step /\ me' \in Endpoints
             /\ me' = [s \in Slots |-> NoAddress]
  BY <1>2, MeType DEF Finish
<1>3. ASSUME Go PROVE phase' = "ask" /\ step' = step + 1 /\ me' \in Endpoints /\ me'["S"] = me["S"]
  BY <1>3, MeType DEF Go, Proceed, Slots, ClientType
<1> HIDE DEF Endpoints
<1>4. CASE test = "mapping"
  <2>1. Mapping(msg) /\ Last = 3
    BY <1>4, LastType DEF Conclude, ClientType
  <2>2. \/ \E found : Finish(found)
        \/ Go /\ step < 3 /\ msg # Failed
    <3>1. step \in {1, 2, 3}
      BY <1>1, <2>1
    <3>2. CASE msg = Failed \/ ~(Answers \subseteq DOMAIN msg.attrs)
      BY <2>1, <3>2 DEF Mapping
    <3>3. CASE ~(msg = Failed \/ ~(Answers \subseteq DOMAIN msg.attrs))
      <4>1. CASE step = 1
        BY <2>1, <3>3, <4>1 DEF Mapping
      <4>2. CASE step = 2
        BY <2>1, <3>3, <4>2 DEF Mapping
      <4>3. CASE step = 3
        BY <2>1, <3>3, <4>3 DEF Mapping
      <4>4. QED
        BY <3>1, <4>1, <4>2, <4>3
    <3>4. QED
      BY <3>2, <3>3
  <2>3. QED
    BY <1>1, <1>2, <1>3, <1>4, <2>1, <2>2 DEF Endpoints
<1>5. CASE test = "filtering"
  <2>1. Filtering(msg) /\ Last = 3
    BY <1>5, LastType DEF Conclude, ClientType
  <2>2. \/ \E found : Finish(found)
        \/ Go /\ step < 3
    <3>1. step \in {1, 2, 3}
      BY <1>1, <2>1
    <3>2. CASE step = 1
      BY <2>1, <3>2 DEF Filtering
    <3>3. CASE step = 2
      BY <2>1, <3>3 DEF Filtering
    <3>4. CASE step = 3
      BY <2>1, <3>4 DEF Filtering
    <3>5. QED
      BY <3>1, <3>2, <3>3, <3>4
  <2>3. QED
    BY <1>1, <1>2, <1>3, <1>5, <2>1, <2>2 DEF Endpoints
<1>6. CASE test = "pooling"
  <2>1. Pooling(msg) /\ Last = NumMessages
    BY <1>6, LastType DEF Conclude, ClientType
  <2>2. \/ \E found : Finish(found)
        \/ Go /\ step # NumMessages
    BY <2>1 DEF Pooling
  <2>3. QED
    BY <1>1, <1>2, <1>3, <1>6, <2>1, <2>2 DEF Endpoints
<1>7. CASE test = "overloading"
  <2>1. Overloading(msg) /\ Last = 2 * NumMessages
    BY <1>7, LastType DEF Conclude, ClientType
  <2>2. \/ \E found : Finish(found)
        \/ Go /\ (step % 2 = 1 \/ step < 2 * NumMessages)
    BY <2>1 DEF Overloading
  <2>3. step # 2 * NumMessages \/ step % 2 # 1
    BY <1>1, SessionConstants
  <2>4. QED
    BY <1>1, <1>2, <1>3, <1>7, <2>1, <2>2, <2>3 DEF Endpoints
<1>8. CASE test = "lifetime"
  <2>1. Lifetime(msg) /\ Last = 2
    BY <1>8, LastType DEF Conclude, ClientType
  <2>2. \/ \E found : Finish(found)
        \/ phase' = "sleep" /\ UNCHANGED <<step, me>> /\ step = 1 /\ msg # Failed
    BY <2>1 DEF Lifetime
  <2>3. QED
    BY <1>1, <1>2, <1>8, <2>2 DEF Endpoints, ClientType
<1>9. QED
  BY <1>1, <1>4, <1>5, <1>6, <1>7, <1>8 DEF ClientType, Tests

\* A message is Failed or an answer.
LEMMA ConcludeType ==
  ASSUME ClientType, phase = "wait", NEW msg, Conclude(msg),
         msg = Failed \/ \E w \in AnswerWires : msg = decode(w)
  PROVE  ClientType'
<1>1. msg # Failed => /\ Answers \subseteq DOMAIN msg.attrs
                      /\ Learned(msg, MAPPED_ADDRESS) \in NatAddress
                      /\ Learned(msg, CHANGED_ADDRESS) \in ServerAddress
                      /\ Unmasked(msg) \in NatAddress
  BY AnswerFacts
<1>2. /\ UNCHANGED test
      /\ me' \in [Slots -> ClientAddress \cup {NoAddress}]
      /\ \/ phase' = "ended" /\ step' = step
         \/ /\ phase' = "ask" /\ step' = step + 1 /\ step + 1 \in 1 .. Last
            /\ test # "lifetime" /\ (test = "mapping" => msg # Failed)
         \/ /\ phase' = "sleep" /\ UNCHANGED <<step, me>>
            /\ test = "lifetime" /\ step = 1 /\ msg # Failed
  BY <1>1, ConcludeMoves
<1>3. step \in 1 .. Last /\ step \in 1 .. MaxStep /\ step \in Nat /\ 1 \in 1 .. MaxStep /\ 2 \in Nat
  <2>1. test \in Tests /\ step \in 1 .. Last
    BY DEF ClientType, Asks
  <2>2. Last \in 1 .. MaxStep /\ MaxStep \in Nat
    BY <2>1, LastType, SessionConstants
  <2>3. QED
    BY <2>1, <2>2
<1>4. /\ mapped' \in [1 .. MaxStep -> NatAddress \cup {NoAddress}]
      /\ msg # Failed => mapped'[step] \in NatAddress
  <2>1. mapped' = [mapped EXCEPT ![step] =
          IF msg = Failed THEN @
          ELSE IF test = "mapping" THEN Unmasked(msg) ELSE Learned(msg, MAPPED_ADDRESS)]
    BY DEF Conclude
  <2>2. QED
    BY <1>1, <1>3, <2>1 DEF ClientType
<1>5. changed' = IF step = 1 /\ msg # Failed THEN Learned(msg, CHANGED_ADDRESS) ELSE changed
  BY DEF Conclude
<1>6. Last' = Last
  BY <1>2 DEF Last
<1>7. /\ changed' \in ServerAddress \cup {NoAddress}
      /\ test = "mapping" /\ Asks' => changed' \in ServerAddress
  BY <1>1, <1>2, <1>3, <1>5 DEF ClientType, Asks
<1>8. CASE phase' = "ended"
  BY <1>2, <1>4, <1>7, <1>8 DEF ClientType, Asks, Requested
<1>9. CASE phase' = "ask"
  BY <1>2, <1>4, <1>6, <1>7, <1>9 DEF ClientType, Asks, Requested
<1>10. CASE phase' = "sleep"
  <2>1. step' \in 1 .. Last' /\ mapped'[1] \in NatAddress /\ test' = "lifetime" /\ step' = 1
    BY <1>2, <1>3, <1>4, <1>6, <1>10
  <2>2. QED
    BY <1>2, <1>4, <1>7, <1>10, <2>1 DEF ClientType, Asks, Requested
<1>11. QED
  BY <1>2, <1>8, <1>9, <1>10

\* The first of the messages captured.
LEMMA QueueTypes ==
  ASSUME NetType, NEW s \in Slots, mRcvQueue[s] # <<>>
  PROVE  /\ mRcvQueue[s] \in Seq(AnswerWires)
         /\ Head(mRcvQueue[s]) \in AnswerWires /\ Tail(mRcvQueue[s]) \in Seq(AnswerWires)
BY DEF NetType

\* Whatever a client does.
LEMMA ClientStepType ==
  ASSUME ClientType, NetType, ClientStep
  PROVE  ClientType'
<1>1. Asks \/ phase = "sleep" => step \in 1 .. Last /\ step \in Nat /\ Last \in Nat
  <2>1. test \in Tests /\ (Asks \/ phase = "sleep" => step \in 1 .. Last)
    BY DEF ClientType
  <2>2. Last \in 1 .. MaxStep /\ MaxStep \in Nat
    BY <2>1, LastType, SessionConstants
  <2>3. QED
    BY <2>1, <2>2
<1>2. /\ test = "mapping" => Last = 3
      /\ test = "pooling" => Last = NumMessages
      /\ test = "overloading" => Last = 2 * NumMessages
      /\ test = "lifetime" => Last = 2
      /\ 1 \in 1 .. Last
  <2>1. test \in Tests
    BY DEF ClientType
  <2>2. QED
    BY <2>1, LastType, SessionConstants
<1>3. me \in [Slots -> ClientAddress \cup {NoAddress}]
  BY DEF ClientType
<1>4. ASSUME NEW found, Finish(found)
      PROVE  phase' = "ended" /\ me' \in [Slots -> ClientAddress \cup {NoAddress}]
  BY <1>4, MeType DEF Finish
<1>5. CASE StartParts
  BY <1>2, <1>3, <1>5, MoveType DEF StartParts
<1>6. CASE Ask \/ AskDeaf
  BY <1>6, AskType
<1>7. CASE Retry \/ Receive
  <2>1. UNCHANGED <<test, phase, step, mapped, changed, me, request>>
    BY <1>7 DEF Retry, Receive
  <2>2. QED
    BY <2>1, StayType
<1>8. CASE Answered
  <2>1. phase = "wait" /\ request.slot \in Slots /\ mRcvQueue[request.slot] # <<>>
    BY <1>8 DEF Answered, ClientType, Requested, Slot, Slots
  <2>2. Conclude(decode(Head(mRcvQueue[request.slot])))
    BY <1>8 DEF Answered
  <2>3. QED
    BY <2>1, <2>2, QueueTypes, ConcludeType
<1>9. CASE Unanswered
  BY <1>9, ConcludeType DEF Unanswered
<1>10. CASE CreateFails
  <2>1. phase = "ask" /\ Asks /\ UNCHANGED <<test, mapped, changed>>
    BY <1>10 DEF CreateFails, Asks
  <2>2. CASE test = "pooling"
    <3>1. PoolingUncreated
      BY <1>10, <2>2 DEF CreateFails
    <3>2. CASE Finish({"Paired"})
      BY <1>4, <2>1, <3>2, MoveType
    <3>3. CASE ~Finish({"Paired"})
      <4>1. /\ step < NumMessages /\ phase' = "ask" /\ step' = step + 1
            /\ me' \in {me, [me EXCEPT !["P"] = IF @ = NoAddress THEN From ELSE @]}
        BY <3>1, <3>3 DEF PoolingUncreated, Proceed
      <4>2. [me EXCEPT !["P"] = IF @ = NoAddress THEN From ELSE @]
              \in [Slots -> ClientAddress \cup {NoAddress}]
        BY <1>3, <2>1, RequestTypes DEF Slots
      <4>3. step' \in 1 .. Last
        BY <1>1, <1>2, <2>1, <2>2, <4>1
      <4>4. QED
        BY <1>3, <2>1, <2>2, <4>1, <4>2, <4>3, MoveType
    <3>4. QED
      BY <3>2, <3>3
  <2>3. CASE test = "overloading"
    <3>1. Overloading(Failed)
      BY <1>10, <2>3 DEF CreateFails
    <3>2. CASE \E found : Finish(found)
      BY <1>4, <2>1, <3>2, MoveType
    <3>3. CASE ~\E found : Finish(found)
      <4>1. Go /\ (step % 2 = 1 \/ step < 2 * NumMessages)
        BY <3>1, <3>3 DEF Overloading
      <4>2. phase' = "ask" /\ step' = step + 1
            /\ me' \in [Slots -> ClientAddress \cup {NoAddress}]
        BY <4>1, <1>3, MeType DEF Go, Proceed, Slots
      <4>3. step # 2 * NumMessages \/ step % 2 # 1
        BY <1>1, SessionConstants
      <4>4. step' \in 1 .. Last
        BY <1>1, <1>2, <2>1, <2>3, <4>1, <4>2, <4>3, SessionConstants
      <4>5. QED
        BY <2>1, <2>3, <4>2, <4>4, MoveType
    <3>4. QED
      BY <3>2, <3>3
  <2>4. CASE test \notin {"pooling", "overloading"}
    <3>1. Finish({})
      BY <1>10, <2>4 DEF CreateFails
    <3>2. QED
      BY <1>4, <2>1, <3>1, MoveType
  <2>5. QED
    BY <2>2, <2>3, <2>4
<1>11. CASE ThreadFails
  <2>1. UNCHANGED <<test, request, mapped, changed>>
    BY <1>11 DEF ThreadFails
  <2>2. CASE LifetimeThreadFails
    <3>1. \/ \E found : Finish(found)
          \/ UNCHANGED <<step, phase, me>>
      BY <2>2 DEF LifetimeThreadFails
    <3>2. QED
      BY <1>4, <2>1, <3>1, MoveType, StayType
  <2>3. CASE OverloadingThreadFails
    <3>1. CASE step = 2 * NumMessages
      BY <1>4, <2>1, <2>3, <3>1, MoveType DEF OverloadingThreadFails
    <3>2. CASE step # 2 * NumMessages
      <4>1. /\ test = "overloading" /\ phase = "ask" /\ Asks /\ step' = step + 1 /\ phase' = phase
            /\ me' = me
        BY <2>3, <3>2 DEF OverloadingThreadFails, Asks
      <4>2. step' \in 1 .. Last
        BY <1>1, <1>2, <3>2, <4>1, SessionConstants
      <4>3. QED
        BY <1>3, <2>1, <4>1, <4>2, MoveType
    <3>3. QED
      BY <3>1, <3>2
  <2>4. QED
    BY <1>11, <2>2, <2>3 DEF ThreadFails
<1>12. CASE SleepTick
  BY <1>12, StayType DEF SleepTick
<1>13. CASE Wake
  <2>1. /\ phase = "sleep" /\ step' = 2 /\ phase' = "ask" /\ UNCHANGED <<test, mapped, changed, me>>
    BY <1>13 DEF Wake
  <2>2. test = "lifetime" /\ mapped[1] \in NatAddress
    BY <2>1 DEF ClientType
  <2>3. QED
    BY <1>2, <1>3, <2>1, <2>2, MoveType
<1>14. CASE StopParts \/ Joined
  BY <1>3, <1>14, MoveType DEF StopParts, Joined
<1>15. QED
  BY <1>5, <1>6, <1>7, <1>8, <1>9, <1>10, <1>11, <1>12, <1>13, <1>14 DEF ClientStep

\* The request that is sent is a packet of the private side.
LEMMA DatagramType ==
  ASSUME ClientType, Asks
  PROVE  Datagram(From, To, Wire) \in FromClient
BY RequestTypes DEF Datagram, FromClient, Between, ClientAddress, ServerAddress

\* What a client does to the network and to what it has captured.
LEMMA ClientNet ==
  ASSUME ClientType, ClientStep
  PROVE  /\ \/ net' = net
            \/ Asks /\ net' = net \cup {Datagram(From, To, Wire)} /\ (Ask \/ AskDeaf \/ Retry)
         /\ \/ mRcvQueue' = mRcvQueue
            \/ mRcvQueue' = [s \in Slots |-> <<>>]
            \/ \E s \in Slots : /\ mRcvQueue[s] # <<>>
                                /\ mRcvQueue' = [mRcvQueue EXCEPT ![s] = Tail(@)]
<1>1. CASE StartParts \/ Unanswered \/ CreateFails \/ ThreadFails \/ SleepTick \/ Wake \/ StopParts \/ Joined
  BY <1>1 DEF StartParts, Unanswered, Conclude, CreateFails, ThreadFails, SleepTick, Wake, StopParts,
     Joined
<1>2. CASE Ask \/ AskDeaf
  BY <1>2 DEF Ask, AskDeaf, SendFirst, Asks
<1>3. CASE Retry
  <2>1. /\ phase = "wait" /\ net' = net \cup {Datagram(From, request.to, request.wire)}
        /\ mRcvQueue' = mRcvQueue
    BY <1>3 DEF Retry
  <2>2. request.to = To /\ request.wire = Wire
    BY <2>1 DEF ClientType, Requested
  <2>3. QED
    BY <1>3, <2>1, <2>2 DEF Asks
<1>4. CASE Answered
  <2>1. request.slot \in Slots
    BY <1>4 DEF Answered, ClientType, Requested, Slot, Slots
  <2>2. QED
    BY <1>4, <2>1 DEF Answered, Conclude
<1>5. CASE Receive
  BY <1>5 DEF Receive, Slots
<1>6. QED
  BY <1>1, <1>2, <1>3, <1>4, <1>5 DEF ClientStep

\* Whatever a packet meets on its way.
LEMMA CarryNet ==
  ASSUME TypeOK, NetType, NEW p \in net, Carry(p) \/ Lose(p)
  PROVE  NetType'
<1>1. /\ p \in FromClient \cup ToServer \cup FromServer \cup ToClient
      /\ net \subseteq FromClient \cup ToServer \cup FromServer \cup ToClient
      /\ mRcvQueue \in [Slots -> Seq(AnswerWires)]
  BY DEF NetType
<1>2. CASE Outgoing(p)
  <2>1. p \in FromClient /\ mRcvQueue' = mRcvQueue
    BY <1>1, <1>2, Sides DEF Outgoing
  <2>2. QED
    BY <1>1, <1>2, <2>1, OutgoingPacket DEF NetType
<1>3. CASE Incomming(p)
  <2>1. p \in FromServer /\ mRcvQueue' = mRcvQueue
    BY <1>1, <1>3, Sides DEF Incomming
  <2>2. QED
    BY <1>1, <1>3, <2>1, IncommingPacket DEF NetType
<1>4. CASE Serve(p)
  <2>1. p \in ToServer /\ mRcvQueue' = mRcvQueue
    BY <1>1, <1>4, Sides DEF Serve
  <2>2. Answer(p) \in FromServer
    BY <2>1, AnswerIs
  <2>3. QED
    BY <1>1, <1>4, <2>1, <2>2 DEF Serve, NetType
<1>5. CASE Unheard(p) \/ Lose(p)
  BY <1>1, <1>5 DEF Unheard, Lose, NetType
<1>6. CASE Deliver(p)
  <2>1. p \in ToClient /\ net' = net \ {p}
    BY <1>1, <1>6, Sides DEF Deliver
  <2>2. p.wire \in AnswerWires
    BY <2>1 DEF ToClient, Between
  <2>3. \A s \in Slots : Append(mRcvQueue[s], p.wire) \in Seq(AnswerWires)
    BY <1>1, <2>2
  <2>4. mRcvQueue' \in [Slots -> Seq(AnswerWires)]
    BY <1>1, <1>6, <2>3 DEF Deliver
  <2>5. QED
    BY <1>1, <2>1, <2>4 DEF NetType
<1>7. QED
  BY <1>2, <1>3, <1>4, <1>5, <1>6 DEF Carry

\* Every step of a session is one of the NAT's, or leaves the NAT as it is.
LEMMA SessionNat ==
  ASSUME TypeOK, NetType, [SessionNext]_allVars
  PROVE  [Next]_vars
<1>1. CASE ClientStep
  <2>1. CASE StartParts
    <3>1. Start(mConfig, [t \in Threads |-> "loop"]) /\ mConfig \in Configs
      BY <2>1 DEF StartParts, TypeOK
    <3>2. [t \in Threads |-> "loop"] \in [Threads -> {"none", "loop", "exited"}]
      OBVIOUS
    <3>3. QED
      BY <3>1, <3>2 DEF Next
  <2>2. CASE StopParts \/ SleepTick
    BY <2>2 DEF StopParts, SleepTick, Next
  <2>3. CASE Ask \/ AskDeaf \/ Retry \/ Answered \/ Unanswered \/ CreateFails \/ Receive
             \/ ThreadFails \/ Wake \/ Joined
    BY <2>3 DEF Ask, AskDeaf, SendFirst, Retry, Answered, Unanswered, Conclude, CreateFails,
       Receive, ThreadFails, Wake, Joined
  <2>4. QED
    BY <1>1, <2>1, <2>2, <2>3 DEF ClientStep
<1>2. CASE ServerStep
  BY <1>2 DEF ServerStep, ServerBegins, ServerLeaves
<1>3. ASSUME NEW p \in net, Carry(p) \/ Lose(p) PROVE [Next]_vars
  <2>1. p \in FromClient \cup ToServer \cup FromServer \cup ToClient
    BY DEF NetType
  <2>2. CASE Outgoing(p)
    BY <2>1, <2>2, Sides DEF Outgoing, Next
  <2>3. CASE Incomming(p)
    BY <2>1, <2>3, Sides DEF Incomming, Next
  <2>4. CASE Serve(p) \/ Unheard(p) \/ Deliver(p) \/ Lose(p)
    BY <2>4 DEF Serve, Unheard, Deliver, Lose
  <2>5. QED
    BY <1>3, <2>2, <2>3, <2>4 DEF Carry
<1>4. QED
  BY <1>1, <1>2, <1>3 DEF SessionNext, allVars, vars

\* The types of the NAT, of the client and of what is in flight, in every step.
SessionTypeOK == TypeOK /\ ClientType /\ NetType

\* A session starts with what its types say.
LEMMA SessionTypeInit == SessionInit => SessionTypeOK
<1> SUFFICES ASSUME SessionInit PROVE SessionTypeOK
  OBVIOUS
<1>1. TypeOK
  BY InitType DEF SessionInit
<1>2. ClientType
  BY DEF SessionInit, ClientType, Asks, Requested
<1>3. NetType
  BY DEF SessionInit, NetType
<1>4. QED
  BY <1>1, <1>2, <1>3 DEF SessionTypeOK

\* Every step of a session keeps the types.
LEMMA SessionTypeStep == SessionTypeOK /\ [SessionNext]_allVars => SessionTypeOK'
<1> SUFFICES ASSUME SessionTypeOK, [SessionNext]_allVars PROVE SessionTypeOK'
  OBVIOUS
<1>1. TypeOK /\ ClientType /\ NetType
  BY DEF SessionTypeOK
<1>2. TypeOK'
  BY <1>1, SessionNat, TypeStep
<1>3. CASE ClientStep
  <2>1. NetType'
    <3>1. net' \subseteq FromClient \cup ToServer \cup FromServer \cup ToClient
      BY <1>1, <1>3, ClientNet, DatagramType DEF NetType
    <3>2. mRcvQueue' \in [Slots -> Seq(AnswerWires)]
      <4>1. /\ [s \in Slots |-> <<>>] \in [Slots -> Seq(AnswerWires)]
            /\ mRcvQueue \in [Slots -> Seq(AnswerWires)]
        BY <1>1 DEF NetType
      <4>2. ASSUME NEW s \in Slots, mRcvQueue[s] # <<>>,
                   mRcvQueue' = [mRcvQueue EXCEPT ![s] = Tail(@)]
            PROVE  mRcvQueue' \in [Slots -> Seq(AnswerWires)]
        BY <1>1, <4>1, <4>2, QueueTypes
      <4>3. QED
        BY <1>1, <1>3, <4>1, <4>2, ClientNet
    <3>3. QED
      BY <3>1, <3>2 DEF NetType
  <2>2. QED
    BY <1>1, <1>2, <1>3, <2>1, ClientStepType DEF SessionTypeOK
<1>4. CASE ServerStep
  <2>1. UNCHANGED <<clientVars, mRcvQueue, net>>
    BY <1>4 DEF ServerStep, ServerBegins, ServerLeaves
  <2>2. QED
    BY <1>1, <1>2, <2>1, StayType DEF SessionTypeOK, NetType, clientVars
<1>5. ASSUME NEW p \in net, Carry(p) \/ Lose(p) PROVE SessionTypeOK'
  <2>1. UNCHANGED clientVars
    BY <1>5 DEF Carry, Outgoing, Incomming, Serve, Unheard, Deliver, Lose
  <2>2. QED
    BY <1>1, <1>2, <1>5, <2>1, StayType, CarryNet DEF SessionTypeOK, clientVars
<1>6. CASE UNCHANGED allVars
  BY <1>1, <1>2, <1>6, StayType DEF SessionTypeOK, NetType, allVars, sessionVars
<1>7. QED
  BY <1>3, <1>4, <1>5, <1>6 DEF SessionNext

\* Whoever sends what, in whatever order: every packet in flight is on one of four
\* legs with a message of the right kind, and the request under way is the one the
\* test has come to (STUNClientTransaction, STUNServer and NATSim together).
THEOREM SessionTypesCorrect == SessionSpec => []SessionTypeOK
<1>1. QED
  BY SessionTypeInit, SessionTypeStep, PTL DEF SessionSpec

\* The NAT in a session is the NAT of module NATSim: everything that is proved of
\* it for arbitrary packets holds while the tests, the server and the network use it.
THEOREM SessionUsesNATSim == SessionSpec => Spec
<1>1. SessionInit => Init
  BY DEF SessionInit
<1>2. SessionTypeOK /\ [SessionNext]_allVars => [Next]_vars
  BY SessionNat DEF SessionTypeOK
<1>3. QED
  BY <1>1, <1>2, SessionTypesCorrect, PTL DEF SessionSpec, Spec

\* In particular no two flows of a test share a public endpoint without overloading.
THEOREM SessionBindings == SessionSpec => []IInv
<1>1. QED
  BY SessionUsesNATSim, InductiveInvariant, PTL

-----------------------------------------------------------------------------
(* Answers and requests, in a network that is not slow.                    *)

\* What is in flight and what was captured belongs to the request under way; but for
\* the one NATReq6 sends from its second endpoint it is one packet or one message.
OneRequest ==
  /\ phase \in {"start", "ask", "sleep"} => net = {} /\ \A s \in Slots : mRcvQueue[s] = <<>>
  /\ me["S"] # NoAddress => phase = "wait" /\ Slot = "S"
  /\ phase = "wait" =>
       /\ \A p \in net : p.wire.id = step
       /\ \A i \in 1 .. Len(mRcvQueue[Slot]) : mRcvQueue[Slot][i].id = step
       /\ Slot = "P" => /\ mRcvQueue["S"] = <<>>
                        /\ \/ net = {} /\ Len(mRcvQueue["P"]) <= 1
                           \/ mRcvQueue["P"] = <<>> /\ \E p : net = {p}
  /\ matched

\* The wire of the request under way.
LEMMA WireIs ==
  /\ Wire.id = step /\ decode(Wire).id = step
  /\ decode(Wire).attrs[CHANGE_REQUEST].ip = (test = "filtering" /\ step = 2)
  /\ decode(Wire).attrs[CHANGE_REQUEST].port = (test = "filtering" /\ step \in {2, 3})
  /\ ~(test = "lifetime" /\ step = 2) => RESPONSE_ADDRESS \notin DOMAIN decode(Wire).attrs
<1> DEFINE i == test = "filtering" /\ step = 2
           p == test = "filtering" /\ step \in {2, 3}
<1>1. CASE test = "lifetime" /\ step = 2
  <2>1. Wire = encode(addAttribute(createBindingRequest(step, i, p), RESPONSE_ADDRESS, mapped[1]))
    BY <1>1 DEF Wire
  <2> HIDE DEF i, p
  <2>2. /\ Wire.id = step /\ decode(Wire).id = step
        /\ decode(Wire).attrs[CHANGE_REQUEST].ip = i /\ decode(Wire).attrs[CHANGE_REQUEST].port = p
    BY <2>1, RequestElsewhere
  <2>3. QED
    BY <1>1, <2>2 DEF i, p
<1>2. CASE ~(test = "lifetime" /\ step = 2)
  <2>1. Wire = encode(createBindingRequest(step, i, p))
    BY <1>2 DEF Wire
  <2> HIDE DEF i, p
  <2>2. /\ Wire.id = step /\ decode(Wire).id = step /\ DOMAIN decode(Wire).attrs = {CHANGE_REQUEST}
        /\ decode(Wire).attrs[CHANGE_REQUEST].ip = i /\ decode(Wire).attrs[CHANGE_REQUEST].port = p
    BY <2>1, PlainRequest
  <2>3. QED
    BY <2>2 DEF i, p, CHANGE_REQUEST, RESPONSE_ADDRESS
<1>3. QED
  BY <1>1, <1>2

\* A packet that is carried stays one packet with one id, is lost, or is queued.
LEMMA OnTheWay ==
  ASSUME SessionTypeOK, NEW p \in net, Carry(p) \/ Lose(p)
  PROVE  /\ UNCHANGED clientVars
         /\ \/ net' = net \ {p} /\ mRcvQueue' = mRcvQueue
            \/ \E q : /\ net' = (net \ {p}) \cup {q} /\ mRcvQueue' = mRcvQueue
                      /\ q.wire.id = p.wire.id
            \/ p \in ToClient /\ Deliver(p)
<1>1. /\ p \in FromClient \cup ToServer \cup FromServer \cup ToClient /\ TypeOK
  BY DEF SessionTypeOK, NetType
<1>2. CASE Outgoing(p)
  <2>1. p \in FromClient
    BY <1>1, <1>2, Sides DEF Outgoing
  <2>2. QED
    BY <1>1, <1>2, <2>1, OutgoingPacket DEF Outgoing
<1>3. CASE Incomming(p)
  <2>1. p \in FromServer
    BY <1>1, <1>3, Sides DEF Incomming
  <2>2. QED
    BY <1>1, <1>3, <2>1, IncommingPacket DEF Incomming
<1>4. CASE Serve(p)
  <2>1. p \in ToServer
    BY <1>1, <1>4, Sides DEF Serve
  <2>2. Answer(p).wire.id = p.wire.id
    BY <2>1, AnswerIs
  <2>3. QED
    BY <1>4, <2>2 DEF Serve
<1>5. CASE Unheard(p) \/ Lose(p)
  BY <1>5 DEF Unheard, Lose
<1>6. CASE Deliver(p)
  BY <1>1, <1>6, Sides DEF Deliver
<1>7. QED
  BY <1>2, <1>3, <1>4, <1>5, <1>6 DEF Carry

\* The network keeps to the request under way.
LEMMA CarryOne ==
  ASSUME SessionTypeOK, OneRequest, NEW p \in net, Carry(p) \/ Lose(p)
  PROVE  OneRequest'
<1>1. UNCHANGED <<test, step, phase, me, matched, mapped, changed>> /\ Slot' = Slot
  BY OnTheWay, SameRequest DEF clientVars
<1>2. phase \notin {"start", "ask", "sleep"}
  BY DEF OneRequest
<1>3. CASE phase # "wait"
  BY <1>1, <1>2, <1>3 DEF OneRequest
<1>4. CASE phase = "wait"
  <2>1. p.wire.id = step /\ (Slot = "P" => net = {p} /\ mRcvQueue["P"] = <<>> /\ mRcvQueue["S"] = <<>>)
    BY <1>4 DEF OneRequest
  <2>2. CASE net' = net \ {p} /\ mRcvQueue' = mRcvQueue
    <3>1. Slot = "P" => net' = {}
      BY <2>1, <2>2
    <3>2. QED
      BY <1>1, <1>4, <2>1, <2>2, <3>1 DEF OneRequest
  <2>3. CASE \E q : /\ net' = (net \ {p}) \cup {q} /\ mRcvQueue' = mRcvQueue
                    /\ q.wire.id = p.wire.id
    <3>1. PICK q : /\ net' = (net \ {p}) \cup {q} /\ mRcvQueue' = mRcvQueue
                   /\ q.wire.id = p.wire.id
      BY <2>3
    <3>2. Slot = "P" => net' = {q}
      BY <2>1, <3>1
    <3>3. QED
      BY <1>1, <1>4, <2>1, <3>1, <3>2 DEF OneRequest
  <2>4. CASE p \in ToClient /\ Deliver(p)
    <3>1. /\ net' = net \ {p} /\ Slots = {"P", "S"} /\ Slot \in Slots
          /\ mRcvQueue' = [s \in Slots |-> IF me[s] = Address(p.dst, p.dport)
                                           THEN Append(mRcvQueue[s], p.wire) ELSE mRcvQueue[s]]
      BY <2>4 DEF Deliver, Slots, Slot
    <3>2. mRcvQueue \in [Slots -> Seq(AnswerWires)] /\ p.wire \in AnswerWires
      BY <2>4 DEF SessionTypeOK, NetType, ToClient, Between
    <3>3. \A i \in 1 .. Len(mRcvQueue'[Slot]) : mRcvQueue'[Slot][i].id = step
      BY <1>4, <2>1, <3>1, <3>2 DEF OneRequest
    <3>4. Address(p.dst, p.dport) # NoAddress
      BY <2>4, AddressAssumption DEF ToClient, Between, Address, NoAddress
    <3>5. Slot = "P" => mRcvQueue'["S"] = <<>> /\ net' = {} /\ Len(mRcvQueue'["P"]) <= 1
      BY <2>1, <3>1, <3>2, <3>4 DEF OneRequest
    <3>6. QED
      BY <1>1, <1>4, <2>1, <3>1, <3>3, <3>5 DEF OneRequest
  <2>5. QED
    BY <2>2, <2>3, <2>4, OnTheWay
<1>5. QED
  BY <1>3, <1>4

\* Between two requests, and when a test has ended, nothing is left to say.
LEMMA RestOne ==
  ASSUME matched', me'["S"] = NoAddress,
         \/ phase' \in {"ended", "join", "over"}
         \/ /\ phase' \in {"ask", "sleep"} /\ net' = {}
            /\ mRcvQueue'["P"] = <<>> /\ mRcvQueue'["S"] = <<>>
  PROVE  OneRequest'
BY DEF OneRequest, Slots

\* What a client knows of the network when it waits in vain.
LEMMA WaitedOut ==
  ASSUME ~Late, SessionTypeOK, phase = "wait", WaitOver(request.slot)
  PROVE  net = {} /\ request.slot = Slot /\ mRcvQueue[Slot] = <<>>
BY DEF SessionTypeOK, ClientType, Requested, WaitOver

\* The test takes what it waited for, or goes on without it.
LEMMA ConcludeOne ==
  ASSUME SessionTypeOK, OneRequest, phase = "wait", NEW msg, Conclude(msg), matched',
         msg = Failed \/ \E w \in AnswerWires : msg = decode(w),
         Slot = "P" => /\ net = {}
                       /\ mRcvQueue'["P"] = <<>> /\ mRcvQueue'["S"] = <<>>
  PROVE  OneRequest'
<1>1. msg # Failed => Answers \subseteq DOMAIN msg.attrs
  BY AnswerFacts
<1>2. \/ phase' = "ended" /\ me' = [s \in Slots |-> NoAddress]
      \/ phase' = "ask" /\ me'["S"] = me["S"] /\ test # "lifetime"
      \/ phase' = "sleep" /\ UNCHANGED me /\ step = 1
  BY <1>1, ConcludeMoves DEF SessionTypeOK
<1>3. CASE phase' = "ended"
  BY <1>2, <1>3, RestOne DEF Slots
<1>4. CASE phase' # "ended"
  <2>1. Slot = "P" /\ me'["S"] = me["S"] /\ phase' \in {"ask", "sleep"} /\ net' = net
    BY <1>2, <1>4 DEF Slot, Conclude
  <2>2. me["S"] = NoAddress
    BY <2>1 DEF OneRequest
  <2>3. QED
    BY <2>1, <2>2, RestOne
<1>5. QED
  BY <1>3, <1>4

\* Asking: nothing is left of the request before.
LEMMA AskOne ==
  ASSUME SessionTypeOK, OneRequest, Ask \/ AskDeaf
  PROVE  OneRequest'
<1>1. /\ phase = "ask" /\ phase' = "wait" /\ UNCHANGED <<test, step, mapped, changed, matched>>
      /\ net' = net \cup {Datagram(From, To, Wire)}
      /\ mRcvQueue' = mRcvQueue \/ mRcvQueue' = [s \in Slots |-> <<>>]
      /\ me' = me \/ me' = [me EXCEPT ![Slot] = From]
  BY DEF Ask, AskDeaf, SendFirst
<1>2. net = {} /\ mRcvQueue["P"] = <<>> /\ mRcvQueue["S"] = <<>> /\ me["S"] = NoAddress /\ matched
  BY <1>1 DEF OneRequest, Slots
<1>3. net' = {Datagram(From, To, Wire)} /\ Datagram(From, To, Wire).wire.id = step
  BY <1>1, <1>2, WireIs DEF Datagram
<1>4. mRcvQueue'["P"] = <<>> /\ mRcvQueue'["S"] = <<>>
  BY <1>1, <1>2 DEF Slots
<1>5. Slot' = Slot /\ Slot \in {"P", "S"}
  BY <1>1 DEF Slot
<1>6. me'["S"] # NoAddress => Slot = "S"
  <2>1. me \in [Slots -> ClientAddress \cup {NoAddress}]
    BY DEF SessionTypeOK, ClientType
  <2>2. CASE Slot = "P" /\ me' = [me EXCEPT ![Slot] = From]
    BY <1>2, <2>1, <2>2 DEF Slots
  <2>3. QED
    BY <1>1, <1>2, <1>5, <2>2
<1>7. \A s \in {"P", "S"} : \A i \in 1 .. Len(mRcvQueue'[s]) : mRcvQueue'[s][i].id = step
  BY <1>4
<1>8. QED
  BY <1>1, <1>2, <1>3, <1>4, <1>5, <1>6, <1>7 DEF OneRequest

\* A retry follows a wait that found nothing, so it is again the only packet.
LEMMA RetryOne ==
  ASSUME ~Late, SessionTypeOK, OneRequest, Retry
  PROVE  OneRequest'
<1>1. /\ phase = "wait" /\ net = {} /\ mRcvQueue[Slot] = <<>>
      /\ UNCHANGED <<test, step, phase, mapped, changed, me, mRcvQueue, matched>>
      /\ net' = net \cup {Datagram(From, request.to, request.wire)}
  BY WaitedOut DEF Retry
<1>2. request.wire = Wire
  BY <1>1 DEF SessionTypeOK, ClientType, Requested
<1>3. /\ net' = {Datagram(From, request.to, request.wire)}
      /\ Datagram(From, request.to, request.wire).wire.id = step
  BY <1>1, <1>2, WireIs DEF Datagram
<1>4. Slot' = Slot
  BY <1>1, SameRequest
<1>5. QED
  BY <1>1, <1>3, <1>4 DEF OneRequest

\* The answer taken is the first one captured, and captured was only what answers
\* the request under way.
LEMMA AnsweredOne ==
  ASSUME SessionTypeOK, OneRequest, Answered
  PROVE  OneRequest'
<1> DEFINE w == Head(mRcvQueue[Slot])
<1>1. request.slot = Slot /\ Slot \in Slots /\ phase = "wait" /\ request.wire = Wire
  BY DEF Answered, SessionTypeOK, ClientType, Requested, Slot, Slots
<1>2. /\ mRcvQueue[Slot] # <<>> /\ Conclude(decode(w))
      /\ mRcvQueue' = [mRcvQueue EXCEPT ![Slot] = Tail(@)]
      /\ matched' = (matched /\ decode(w) # Failed /\ decode(w).id = request.wire.id)
  BY <1>1 DEF Answered
<1>3. /\ mRcvQueue \in [Slots -> Seq(AnswerWires)] /\ mRcvQueue[Slot] \in Seq(AnswerWires)
  BY <1>1 DEF SessionTypeOK, NetType
<1>4. w \in AnswerWires /\ w = mRcvQueue[Slot][1] /\ 1 \in 1 .. Len(mRcvQueue[Slot])
  BY <1>2, <1>3
<1>5. w.id = step
  BY <1>1, <1>4 DEF OneRequest
<1>6. decode(w) # Failed /\ decode(w).id = step
  BY <1>4, <1>5, AnswerFacts
<1>7. matched'
  BY <1>1, <1>2, <1>6, WireIs DEF OneRequest
<1>8. Slot = "P" => net = {} /\ mRcvQueue'["P"] = <<>> /\ mRcvQueue'["S"] = <<>>
  BY <1>1, <1>2, <1>3 DEF OneRequest, Slots
<1> HIDE DEF w
<1>9. QED
  BY <1>1, <1>2, <1>4, <1>7, <1>8, ConcludeOne

\* A request that is given up leaves nothing behind.
LEMMA UnansweredOne ==
  ASSUME ~Late, SessionTypeOK, OneRequest, Unanswered
  PROVE  OneRequest'
<1>1. /\ phase = "wait" /\ net = {} /\ mRcvQueue[Slot] = <<>> /\ Conclude(Failed)
      /\ UNCHANGED <<mRcvQueue, matched>>
  BY WaitedOut DEF Unanswered
<1>2. Slot = "P" => /\ net = {} /\ mRcvQueue'["P"] = <<>> /\ mRcvQueue'["S"] = <<>>
  BY <1>1 DEF OneRequest
<1>3. QED
  BY <1>1, <1>2, ConcludeOne DEF OneRequest

\* What fails between two requests asks nothing.
LEMMA FailsOne ==
  ASSUME SessionTypeOK, OneRequest, CreateFails \/ ThreadFails
  PROVE  OneRequest'
<1>1. UNCHANGED <<test, net, mRcvQueue, matched, mapped, changed>> /\ matched
      /\ me \in [Slots -> ClientAddress \cup {NoAddress}]
  BY DEF CreateFails, ThreadFails, OneRequest, SessionTypeOK, ClientType
<1>2. \/ \E found : Finish(found)
      \/ phase = "ask" /\ phase' = "ask" /\ me'["S"] = me["S"]
      \/ Slot = "S" /\ phase = "wait" /\ UNCHANGED <<step, phase, me>>
  <2>1. CASE CreateFails
    <3>1. \/ PoolingUncreated \/ Overloading(Failed) \/ \E found : Finish(found)
      BY <2>1 DEF CreateFails
    <3>2. CASE PoolingUncreated
      <4>1. phase = "ask"
        BY <2>1 DEF CreateFails
      <4>2. QED
        BY <1>1, <3>2, <4>1 DEF PoolingUncreated, Proceed, Slots
    <3>3. CASE Overloading(Failed)
      <4>1. phase = "ask" /\ (Go \/ \E found : Finish(found))
        BY <2>1, <3>3 DEF CreateFails, Overloading
      <4>2. QED
        BY <1>1, <4>1 DEF Go, Proceed, Slots
    <3>4. QED
      BY <3>1, <3>2, <3>3
  <2>2. CASE ThreadFails
    BY <2>2 DEF ThreadFails, LifetimeThreadFails, OverloadingThreadFails, Slot
  <2>3. QED
    BY <2>1, <2>2
<1>3. CASE \E found : Finish(found)
  BY <1>1, <1>3, RestOne DEF Finish, Slots
<1>4. CASE phase = "ask" /\ phase' = "ask" /\ me'["S"] = me["S"]
  <2>1. net = {} /\ mRcvQueue["P"] = <<>> /\ mRcvQueue["S"] = <<>> /\ me["S"] = NoAddress
    BY <1>4 DEF OneRequest, Slots
  <2>2. QED
    BY <1>1, <1>4, <2>1, RestOne
<1>5. CASE Slot = "S" /\ phase = "wait" /\ UNCHANGED <<step, phase, me>>
  BY <1>1, <1>5, SameRequest DEF OneRequest
<1>6. QED
  BY <1>2, <1>3, <1>4, <1>5

\* NATReq6's second thread takes from the queue of the first endpoint only.
LEMMA ReceiveOne ==
  ASSUME SessionTypeOK, OneRequest, Receive
  PROVE  OneRequest'
<1>1. /\ Slot = "S" /\ phase = "wait" /\ UNCHANGED <<test, step, phase, mapped, changed, me, net, matched>>
      /\ mRcvQueue'["S"] = mRcvQueue["S"]
  BY DEF Receive, Slot, SessionTypeOK, NetType, Slots
<1>2. QED
  BY <1>1, SameRequest DEF OneRequest

\* The client's steps keep one request under way.
LEMMA ClientOne ==
  ASSUME ~Late, SessionTypeOK, OneRequest, ClientStep
  PROVE  OneRequest'
<1>1. CASE StartParts \/ Wake
  <2>1. /\ phase \in {"start", "sleep"} /\ phase' = "ask" /\ UNCHANGED <<net, mRcvQueue, me, matched>>
    BY <1>1 DEF StartParts, Wake
  <2>2. net = {} /\ mRcvQueue["P"] = <<>> /\ mRcvQueue["S"] = <<>> /\ me["S"] = NoAddress /\ matched
    BY <2>1 DEF OneRequest, Slots
  <2>3. QED
    BY <2>1, <2>2, RestOne
<1>2. CASE SleepTick
  <2>1. UNCHANGED <<test, step, phase, mapped, changed, net, mRcvQueue, me, matched>>
    BY <1>2 DEF SleepTick
  <2>2. QED
    BY <2>1, SameRequest DEF OneRequest
<1>3. CASE StopParts \/ Joined
  <2>1. /\ phase \notin {"wait"} /\ phase' \in {"join", "over"} /\ UNCHANGED <<me, matched>>
    BY <1>3 DEF StopParts, Joined
  <2>2. QED
    BY <2>1, RestOne DEF OneRequest
<1>4. QED
  BY <1>1, <1>2, <1>3, AskOne, RetryOne, AnsweredOne, UnansweredOne, FailsOne, ReceiveOne DEF ClientStep

\* A session starts with nothing in flight.
LEMMA OneInit == SessionInit => OneRequest
BY DEF SessionInit, OneRequest, Slots

\* Every step keeps one request under way, when packets do not outlive a wait.
LEMMA OneStep == ~Late /\ SessionTypeOK /\ OneRequest /\ [SessionNext]_allVars => OneRequest'
<1> SUFFICES ASSUME ~Late, SessionTypeOK, OneRequest, [SessionNext]_allVars PROVE OneRequest'
  OBVIOUS
<1>1. CASE ServerStep \/ UNCHANGED allVars
  <2>1. UNCHANGED <<test, step, phase, mapped, changed, net, mRcvQueue, me, matched>>
    BY <1>1 DEF ServerStep, ServerBegins, ServerLeaves, allVars, sessionVars, clientVars
  <2>2. QED
    BY <2>1, SameRequest DEF OneRequest
<1>2. QED
  BY <1>1, ClientOne, CarryOne DEF SessionNext

\* In a network that is not slow a client takes only the answer to the request it has
\* sent, although every message captured for its endpoint is taken for one, every
\* request is sent up to three times, and NATReq6 has two of them under way
\* (STUNClientTransaction::SendAndReceive compares no transaction id).
THEOREM AnswersMatched == ~Late => (SessionSpec => []TransactionMatched)
<1> SUFFICES ASSUME ~Late PROVE SessionSpec => []TransactionMatched
  OBVIOUS
<1>1. OneRequest => TransactionMatched
  BY DEF OneRequest, TransactionMatched
<1>2. SessionTypeOK /\ OneRequest /\ [SessionNext]_allVars => OneRequest'
  BY OneStep
<1>3. QED
  BY <1>1, <1>2, OneInit, SessionTypesCorrect, PTL DEF SessionSpec

-----------------------------------------------------------------------------
(* What the NAT makes of the packets of one test.                          *)

\* Admit adds the key of the flow's answers, and no entry but one that leads to the
\* sender.
LEMMA AdmitAdds ==
  ASSUME NEW pk \in OutPackets, NEW ip, NEW port, NEW key,
         key = IncommingPk(pk.dst, pk.dport, ip, port),
         mIncommingTable' = Admit(mIncommingTable, pk, ip, port)
  PROVE  /\ DOMAIN mIncommingTable' = DOMAIN mIncommingTable \cup {key}
         /\ \A i \in DOMAIN mIncommingTable' :
              \/ i \in DOMAIN mIncommingTable /\ mIncommingTable'[i] = mIncommingTable[i]
              \/ mIncommingTable'[i].ip = pk.src /\ mIncommingTable'[i].port = pk.sport
<1> DEFINE inc == mIncommingTable
<1>1. PICK new : new = mIncommingTable'
  OBVIOUS
<1>2. PICK entry : entry = [ip |-> pk.src, port |-> pk.sport,
                            reverse |-> OutgoingPk(pk.src, pk.sport, pk.dst, pk.dport)]
  OBVIOUS
<1>3. PICK rest : rest = IF mConfig.mPortOverloading THEN Without(inc, {key}) ELSE inc
  OBVIOUS
<1>4. new = InsertTraffic(rest, key, entry)
  BY <1>1, <1>2, <1>3 DEF Admit
<1>5. DOMAIN rest \subseteq DOMAIN inc /\ DOMAIN inc \subseteq DOMAIN rest \cup {key}
      /\ \A i \in DOMAIN rest : rest[i] = inc[i]
  BY <1>3 DEF Without
<1>6. /\ DOMAIN new = DOMAIN rest \cup {key}
      /\ \A i \in DOMAIN new : new[i] = entry \/ (i \in DOMAIN rest /\ new[i] = rest[i])
  BY <1>4 DEF InsertTraffic, Put
<1>7. entry.ip = pk.src /\ entry.port = pk.sport
  BY <1>2
<1>8. QED
  BY <1>1, <1>5, <1>6, <1>7

\* A packet of the private side for which there is a binding, or a port, leaves from
\* its binding's endpoint, the binding is there afterwards and so is the key of its
\* answers; no other binding is touched.
LEMMA OutgoingLeaves ==
  ASSUME TypeOK, NEW pk \in OutPackets, TreatOutgoingPacket(pk),
         NEW key, key = KeyOf(pk),
         \A o \in DOMAIN mOutgoingTable : mOutgoingTable[o].age = 0,
         key \in DOMAIN mOutgoingTable \/ ~NoneFree(pk) \/ ~mConfig.mPortOverloading,
         key \in DOMAIN mOutgoingTable \/ \E ip \in NatIPs : ~Exhausted(ip)
  PROVE  /\ UNCHANGED <<mConfig, mThread>> /\ DOMAIN mAvailablePorts' = DOMAIN mAvailablePorts
         /\ sent' # Nothing
         /\ DOMAIN mOutgoingTable' = DOMAIN mOutgoingTable \cup {key}
         /\ \A o \in DOMAIN mOutgoingTable' : mOutgoingTable'[o].age = 0
         /\ \A o \in DOMAIN mOutgoingTable : /\ mOutgoingTable'[o].ip = mOutgoingTable[o].ip
                                             /\ mOutgoingTable'[o].port = mOutgoingTable[o].port
         /\ sent'.from[1] = mOutgoingTable'[key].ip /\ sent'.from[2] = mOutgoingTable'[key].port
         /\ DOMAIN mIncommingTable' = DOMAIN mIncommingTable \cup
              {IncommingPk(pk.dst, pk.dport, mOutgoingTable'[key].ip, mOutgoingTable'[key].port)}
         /\ \A i \in DOMAIN mIncommingTable' :
              \/ i \in DOMAIN mIncommingTable /\ mIncommingTable'[i] = mIncommingTable[i]
              \/ mIncommingTable'[i].ip = pk.src /\ mIncommingTable'[i].port = pk.sport
<1> DEFINE Goes(ip, port) ==
      /\ sent' = [from |-> <<ip, port>>, to |-> <<pk.dst, pk.dport>>]
      /\ mOutgoingTable'[key].ip = ip /\ mOutgoingTable'[key].port = port
      /\ mIncommingTable' = Admit(mIncommingTable, pk, ip, port)
<1>1. ASSUME NEW ip, NEW port, Goes(ip, port), ip \in NatIPs
      PROVE  /\ sent' # Nothing
             /\ sent'.from[1] = mOutgoingTable'[key].ip /\ sent'.from[2] = mOutgoingTable'[key].port
             /\ DOMAIN mIncommingTable' = DOMAIN mIncommingTable \cup
                  {IncommingPk(pk.dst, pk.dport, mOutgoingTable'[key].ip, mOutgoingTable'[key].port)}
             /\ \A i \in DOMAIN mIncommingTable' :
                  \/ i \in DOMAIN mIncommingTable /\ mIncommingTable'[i] = mIncommingTable[i]
                  \/ mIncommingTable'[i].ip = pk.src /\ mIncommingTable'[i].port = pk.sport
  <2>1. sent' # Nothing
    BY <1>1, AddressAssumption DEF Nothing
  <2>2. PICK k : k = IncommingPk(pk.dst, pk.dport, ip, port)
    OBVIOUS
  <2>3. /\ DOMAIN mIncommingTable' = DOMAIN mIncommingTable \cup {k}
        /\ \A i \in DOMAIN mIncommingTable' :
             \/ i \in DOMAIN mIncommingTable /\ mIncommingTable'[i] = mIncommingTable[i]
             \/ mIncommingTable'[i].ip = pk.src /\ mIncommingTable'[i].port = pk.sport
    <3>1. mIncommingTable' = Admit(mIncommingTable, pk, ip, port)
      BY <1>1
    <3>2. QED
      BY <2>2, <3>1, AdmitAdds
  <2>4. QED
    BY <1>1, <2>1, <2>2, <2>3
<1>2. ASSUME NEW ip \in NatIPs, NEW port, key \notin DOMAIN mOutgoingTable,
             Bind(pk, ip, port, mOutgoingTable, mIncommingTable)
      PROVE  /\ UNCHANGED <<mConfig, mThread>>
             /\ DOMAIN mOutgoingTable' = DOMAIN mOutgoingTable \cup {key}
             /\ \A o \in DOMAIN mOutgoingTable : mOutgoingTable'[o] = mOutgoingTable[o]
             /\ mOutgoingTable'[key].age = 0
             /\ Goes(ip, port)
  BY <1>2 DEF Bind, Emit, InsertTraffic, Put
<1>3. CASE OutgoingExpire(pk)
  BY <1>3, ConstantTypes DEF OutgoingExpire, Expire
<1>4. CASE OutgoingDrop(pk)
  BY <1>4 DEF OutgoingDrop, Unbound
<1>5. CASE BindOverloaded(pk)
  BY <1>5 DEF BindOverloaded, Unbound
<1>6. CASE OutgoingRefresh(pk)
  <2>1. PICK e : e = mOutgoingTable[key]
    OBVIOUS
  <2>2. /\ key \in DOMAIN mOutgoingTable /\ e \in Binding
        /\ UNCHANGED <<mConfig, mThread, mAvailablePorts>>
        /\ UpdateLastTrafficTime(key) /\ Emit(e.ip, e.port, pk.dst, pk.dport)
        /\ mIncommingTable' = Admit(mIncommingTable, pk, e.ip, e.port)
    BY <1>6, <2>1 DEF OutgoingRefresh, TypeOK, IsTable
  <2>3. /\ DOMAIN mOutgoingTable' = DOMAIN mOutgoingTable
        /\ \A o \in DOMAIN mOutgoingTable : /\ mOutgoingTable'[o].ip = mOutgoingTable[o].ip
                                            /\ mOutgoingTable'[o].port = mOutgoingTable[o].port
                                            /\ mOutgoingTable'[o].age = 0
    BY <2>1, <2>2 DEF UpdateLastTrafficTime, Put, Binding
  <2>4. Goes(e.ip, e.port) /\ e.ip \in NatIPs
    BY <2>1, <2>2, <2>3 DEF Emit, Binding
  <2> HIDE DEF Goes
  <2>5. QED
    BY <1>1, <2>2, <2>3, <2>4
<1>7. CASE BindSamePort(pk) \/ BindFirstAvailable(pk)
  <2>1. PICK ip \in NatIPs, port \in Ports :
          Bind(pk, ip, port, mOutgoingTable, mIncommingTable)
    <3>1. CASE BindSamePort(pk)
      <4>1. PICK ini \in Starts, k \in 0 .. (N - 1) :
              Bind(pk, IPAt(ini, k), pk.sport, mOutgoingTable, mIncommingTable)
        BY <3>1 DEF BindSamePort
      <4>2. IPAt(ini, k) \in NatIPs /\ pk.sport \in Ports
        <5>1. ini \in Nat /\ k \in Nat
          BY ConstantTypes DEF Starts
        <5>2. pk.sport \in ClientPorts
          BY OutPacketType
        <5>3. QED
          BY <5>1, <5>2, IPAtType, ConstantTypes
      <4>3. QED
        BY <4>1, <4>2
    <3>2. CASE BindFirstAvailable(pk)
      <4>1. PICK ini \in SearchFrom, k \in 0 .. (N - 1), port \in Ports :
              Bind(pk, IPAt(ini, k), port, mOutgoingTable, mIncommingTable)
        BY <3>2 DEF BindFirstAvailable
      <4>2. IPAt(ini, k) \in NatIPs
        BY IPAtType, ConstantTypes DEF SearchFrom, Starts
      <4>3. QED
        BY <4>1, <4>2
    <3>3. QED
      BY <1>7, <3>1, <3>2
  <2>2. key \notin DOMAIN mOutgoingTable
    BY <1>7 DEF BindSamePort, BindFirstAvailable, Unbound
  <2>3. DOMAIN mAvailablePorts' = DOMAIN mAvailablePorts
    BY <1>7 DEF BindSamePort, BindFirstAvailable, ReserverPort, ReserveFirst
  <2> HIDE DEF Goes
  <2>4. QED
    BY <1>1, <1>2, <2>1, <2>2, <2>3
<1>8. QED
  BY <1>3, <1>4, <1>5, <1>6, <1>7 DEF TreatOutgoingPacket

\* A packet of the public side that finds its key gets in, over bindings that are
\* fresh; the others are dropped.  No binding is touched.
LEMMA IncommingPasses ==
  ASSUME TypeOK, NEW pk \in InPackets, TreatIncommingPacket(pk),
         \A o \in DOMAIN mOutgoingTable : mOutgoingTable[o].age = 0
  PROVE  /\ UNCHANGED <<mConfig, mThread, mIncommingTable, mAvailablePorts>>
         /\ DOMAIN mOutgoingTable' = DOMAIN mOutgoingTable
         /\ \A o \in DOMAIN mOutgoingTable : /\ mOutgoingTable'[o].ip = mOutgoingTable[o].ip
                                             /\ mOutgoingTable'[o].port = mOutgoingTable[o].port
                                             /\ mOutgoingTable'[o].age = 0
         /\ sent' # Nothing <=> FilterKey(pk) \in DOMAIN mIncommingTable
<1>1. CASE IncommingExpire(pk)
  BY <1>1, ConstantTypes DEF IncommingExpire, Expire
<1>2. CASE IncommingDrop(pk)
  BY <1>2 DEF IncommingDrop
<1>3. ASSUME Forward(pk), FilterKey(pk) \in DOMAIN mIncommingTable
      PROVE  sent' # Nothing
  <2>1. pk.src \in PublicIPs
    BY DEF InPackets, Packet
  <2>2. sent'.from[1] = pk.src
    BY <1>3 DEF Forward, Emit
  <2>3. QED
    BY <2>1, <2>2, AddressAssumption DEF Nothing
<1>4. CASE IncommingForwardUnbound(pk)
  BY <1>3, <1>4 DEF IncommingForwardUnbound, Passes
<1>5. CASE IncommingForward(pk)
  <2>1. \A o \in DOMAIN mOutgoingTable : mOutgoingTable[o] \in Binding
    BY DEF TypeOK, IsTable
  <2>2. CASE UNCHANGED mOutgoingTable
    BY <1>3, <1>5, <2>2 DEF IncommingForward, Passes
  <2>3. CASE UpdateLastTrafficTime(BindingKey(pk))
    <3>1. PICK b : b = BindingKey(pk)
      OBVIOUS
    <3>2. /\ b \in DOMAIN mOutgoingTable
          /\ mOutgoingTable' = Put(mOutgoingTable, b, [mOutgoingTable[b] EXCEPT !.age = 0])
      BY <1>5, <2>3, <3>1 DEF IncommingForward, UpdateLastTrafficTime
    <3>3. /\ DOMAIN mOutgoingTable' = DOMAIN mOutgoingTable
          /\ \A o \in DOMAIN mOutgoingTable : /\ mOutgoingTable'[o].ip = mOutgoingTable[o].ip
                                              /\ mOutgoingTable'[o].port = mOutgoingTable[o].port
                                              /\ mOutgoingTable'[o].age = 0
      BY <2>1, <3>2 DEF Put, Binding
    <3>4. QED
      BY <1>3, <1>5, <3>3 DEF IncommingForward, Passes
  <2>4. QED
    BY <1>5, <2>2, <2>3 DEF IncommingForward
<1>6. QED
  BY <1>1, <1>2, <1>4, <1>5 DEF TreatIncommingPacket

-----------------------------------------------------------------------------
(* NATReq1 and NATReq8: what the NAT, the packets in flight and the client   *)
(* know of the flows that the test opens.                                   *)

\* The NATs their verdicts are about.
Meant ==
  /\ mConfig.mMappingBehavior # "NotNated"
  /\ \/ test = "mapping" /\ ~mConfig.mPortOverloading
     \/ test = "filtering"

\* The packet of the k-th request, where its flow is bound and which key its answers
\* have: NATReq1 opens three flows, NATReq8 one.
FlowTo(k) ==
  [src |-> IF test = "overloading" /\ k % 2 = 0 THEN ClientB ELSE ClientA, sport |-> SourcePort,
   dst |-> IF test = "mapping" /\ k > 1 THEN ServerBIP ELSE ServerAIP,
   dport |-> IF test = "mapping" /\ k = 3 THEN ServerPort2 ELSE ServerPort1]
Flow(k)      == KeyOf(FlowTo(k))
Bound(k)     == Flow(k) \in DOMAIN mOutgoingTable
Public(k)    == Address(mOutgoingTable[Flow(k)].ip, mOutgoingTable[Flow(k)].port)
AnswerKey(k) == IncommingPk(FlowTo(k).dst, FlowTo(k).dport, Public(k).ip, Public(k).port)

\* Where the answer to the request under way comes from.
AnsweredFrom ==
  IF test = "mapping" THEN Address(FlowTo(step).dst, FlowTo(step).dport)
  ELSE Address(IF step = 2 THEN ServerBIP ELSE ServerAIP,
               IF step = 1 THEN ServerPort1 ELSE ServerPort2)

\* An answer tells where the flow is bound, and the first one the server's other address.
Tells(w) ==
  /\ Learned(decode(w), MAPPED_ADDRESS) = Public(step)
  /\ step = 1 => Learned(decode(w), CHANGED_ADDRESS) = Address(ServerBIP, ServerPort2)

\* The NAT runs, and holds nothing but what the test has opened.
NatReady ==
  /\ mThread = [t \in Threads |-> "loop"]
  /\ DOMAIN mAvailablePorts = NatIPs
  /\ \A o \in DOMAIN mOutgoingTable : mOutgoingTable[o].age = 0
  /\ \A o \in DOMAIN mOutgoingTable : \E k \in 1 .. step : o = Flow(k)
  /\ \A i \in DOMAIN mIncommingTable :
       mIncommingTable[i].ip = ClientA /\ mIncommingTable[i].port = SourcePort
  /\ test = "filtering" =>
       IF Bound(1) THEN DOMAIN mIncommingTable = {AnswerKey(1)}
                   ELSE DOMAIN mIncommingTable = {} /\ \A ip \in NatIPs : mAvailablePorts[ip] = {}

\* What NATReq1 has found out when it comes to a request.
Learnt ==
  test = "mapping" =>
    /\ step >= 2 => changed = Address(ServerBIP, ServerPort2)
    /\ \A k \in 1 .. (step - 1) : Bound(k) /\ mapped[k] = Public(k)
    /\ step = 3 => mConfig.mMappingBehavior # "EndPointIndependent"

\* A packet in flight belongs to the flow of the request under way.
OnWay(p) ==
  /\ p.src \in PrivateIPs =>
       p.src = ClientA /\ p.sport = SourcePort /\ p.dst = FlowTo(step).dst /\ p.dport = FlowTo(step).dport
  /\ p.src \notin PrivateIPs => Bound(step) /\ AnswerKey(step) \in DOMAIN mIncommingTable
  /\ p.src \notin PublicIPs => p.wire = Wire
  /\ p.src \in NatIPs =>
       /\ p.src = Public(step).ip /\ p.sport = Public(step).port
       /\ p.dst = FlowTo(step).dst /\ p.dport = FlowTo(step).dport
  /\ p.src \in PublicIPs =>
       Tells(p.wire) /\ p.src = AnsweredFrom.ip /\ p.sport = AnsweredFrom.port
  /\ p.dst \in NatIPs => p.dst = Public(step).ip /\ p.dport = Public(step).port
  /\ p.dst \in PrivateIPs => p.dst = ClientA /\ p.dport = SourcePort

MeantInv ==
  Meant =>
    /\ phase = "start" => \A t \in Threads : mThread[t] = "none"
    /\ Asks => NatReady /\ Learnt
    /\ phase = "wait" =>
         /\ \A p \in net : OnWay(p)
         /\ \A i \in 1 .. Len(mRcvQueue["P"]) : Bound(step) /\ Tells(mRcvQueue["P"][i])

\* Whether an answer to the request under way gets through the filter.
Hears ==
  \/ test = "mapping" \/ step = 1
  \/ mConfig.mFilteringBehavior = "AddressIndependent"
  \/ step = 3 /\ mConfig.mFilteringBehavior = "AddressDependent"

Opened == Address(ClientA, SourcePort)

\* While every part is up: a request is repeated only after a loss, if an answer to
\* it gets through, and otherwise no answer to it arrives.
CountInv ==
  /\ fails \in Nat
  /\ test \in {"mapping", "filtering"} /\ (phase = "start" \/ (phase = "ask" /\ step = 1)) =>
       me["P"] = NoAddress
  /\ Meant /\ AllUp =>
       /\ Asks => server \in {"created", "loop"}
       /\ phase = "ask" /\ step # 1 => me["P"] = Opened
       /\ test = "filtering" /\ Asks /\ step = 3 =>
            mConfig.mFilteringBehavior # "AddressIndependent"
       /\ phase = "wait" =>
            /\ me["P"] = Opened
            /\ retries \in Nat /\ lost \in 0 .. MaxLost
            /\ Hears => retries <= lost + (IF net = {} /\ mRcvQueue["P"] = <<>> THEN 0 ELSE 1)
            /\ ~Hears => mRcvQueue["P"] = <<>> /\ \A p \in net : p.dst \notin PrivateIPs

\* The flows are those of the configuration and the test, which stay.
LEMMA SameFlows ==
  ASSUME UNCHANGED <<mConfig, test>>
  PROVE  /\ Meant' = Meant
         /\ \A k : FlowTo(k)' = FlowTo(k) /\ Flow(k)' = Flow(k)
         /\ \A a, p, b, q : IncommingPk(a, p, b, q)' = IncommingPk(a, p, b, q)
BY DEF Meant, FlowTo, Flow, KeyOf, OutgoingPk, IncommingPk

\* What is bound stays bound to the same endpoint.
LEMMA SameBound ==
  ASSUME UNCHANGED <<mConfig, test>>,
         DOMAIN mOutgoingTable \subseteq DOMAIN mOutgoingTable',
         \A o \in DOMAIN mOutgoingTable : /\ mOutgoingTable'[o].ip = mOutgoingTable[o].ip
                                          /\ mOutgoingTable'[o].port = mOutgoingTable[o].port
  PROVE  \A k : Bound(k) => Bound(k)' /\ Public(k)' = Public(k) /\ AnswerKey(k)' = AnswerKey(k)
<1> SUFFICES ASSUME NEW k, Bound(k)
             PROVE  Bound(k)' /\ Public(k)' = Public(k) /\ AnswerKey(k)' = AnswerKey(k)
  OBVIOUS
<1>1. Flow(k)' = Flow(k) /\ FlowTo(k)' = FlowTo(k)
  BY SameFlows
<1>2. Bound(k)' /\ Public(k)' = Public(k)
  BY <1>1 DEF Bound, Public, Address
<1>3. AnswerKey(k)' = AnswerKey(k)
  BY <1>1, <1>2, SameFlows DEF AnswerKey
<1>4. QED
  BY <1>2, <1>3

\* The k-th packet of a test, and where it goes.
LEMMA FlowFacts ==
  ASSUME NEW k
  PROVE  /\ FlowTo(k) \in OutPackets
         /\ FlowTo(k).src = (IF test = "overloading" /\ k % 2 = 0 THEN ClientB ELSE ClientA)
         /\ FlowTo(k).sport = SourcePort /\ FlowTo(k).src \in {ClientA, ClientB}
         /\ FlowTo(k).dst \in PublicIPs /\ FlowTo(k).dport \in ServerPorts
         /\ FlowTo(k).dst = IF test = "mapping" /\ k > 1 THEN ServerBIP ELSE ServerAIP
         /\ FlowTo(k).dport = IF test = "mapping" /\ k = 3 THEN ServerPort2 ELSE ServerPort1
         /\ test = "filtering" => FlowTo(k) = FlowTo(1)
<1>1. SourcePort \in ClientPorts
  BY SessionConstants
<1>2. QED
  BY <1>1, SessionConstants DEF FlowTo, OutPackets, Packet

\* The request under way is the packet of its flow.
LEMMA FlowRequest ==
  ASSUME SessionTypeOK, Meant, Asks, Learnt
  PROVE  /\ From = Opened
         /\ To = Address(FlowTo(step).dst, FlowTo(step).dport)
         /\ Slot = "P" /\ step \in 1 .. 3
<1>1. test \in {"mapping", "filtering"} /\ step \in 1 .. 3 /\ Slot = "P" /\ From = Opened
  BY LastType DEF Meant, SessionTypeOK, ClientType, Slot, From, Opened
<1>2. CASE test = "filtering"
  <2>1. To = Address(ServerAIP, ServerPort1)
    BY <1>2 DEF To, A1
  <2>2. QED
    BY <1>1, <1>2, <2>1, FlowFacts
<1>3. CASE test = "mapping"
  <2>1. step # 1 => changed.ip = ServerBIP /\ changed = Address(ServerBIP, ServerPort2)
    BY <1>1, <1>3 DEF Learnt, Address
  <2>2. CASE step = 1
    BY <1>1, <1>3, <2>2, FlowFacts DEF To, A1
  <2>3. CASE step = 2
    BY <1>1, <1>3, <2>1, <2>3, FlowFacts DEF To, A1
  <2>4. CASE step = 3
    BY <1>1, <1>3, <2>1, <2>4, FlowFacts DEF To, A1
  <2>5. QED
    BY <1>1, <2>2, <2>3, <2>4
<1>4. QED
  BY <1>1, <1>2, <1>3

\* A NAT never runs out of ports within one test.
LEMMA PortLeft ==
  ASSUME IInv, MaxPort >= 3, Meant, NatReady, step \in 1 .. 3, ~Bound(step)
  PROVE  /\ \E ip \in NatIPs : ~Exhausted(ip)
         /\ ~NoneFree(FlowTo(step)) \/ ~mConfig.mPortOverloading
<1>1. PICK ip : ip \in NatIPs
  <2>1. NATPublicIPs[1] \in NatIPs
    BY AddressAssumption DEF NatIPs, N
  <2>2. QED
    BY <2>1
<1>2. ip \in DOMAIN mAvailablePorts /\ 0 \in Bits /\ 1 \in Bits /\ 2 \in Bits
      /\ 0 < MaxPort /\ 1 < MaxPort /\ 2 < MaxPort /\ MaxPort \in Nat
  BY <1>1, PortAssumption DEF NatReady, Bits
<1>3. CASE test = "filtering"
  <2>1. mAvailablePorts[ip] = {}
    <3>1. Flow(step) = Flow(1)
      BY <1>3, FlowFacts DEF Flow
    <3>2. ~Bound(1)
      BY <3>1 DEF Bound
    <3>3. QED
      BY <1>1, <1>3, <3>2 DEF NatReady
  <2>2. ~Exhausted(ip)
    BY <1>2, <2>1 DEF Exhausted
  <2>3. IsFree(ip, FlowTo(step).sport)
    BY <1>2, <2>1 DEF IsFree
  <2>4. QED
    BY <1>1, <2>2, <2>3 DEF NoneFree
<1>4. CASE test # "filtering"
  <2>1. ~mConfig.mPortOverloading
    BY <1>4 DEF Meant
  <2>2. SUFFICES ASSUME Exhausted(ip) PROVE FALSE
    BY <1>1, <2>1
  <2>3. {0, 1, 2} \subseteq mAvailablePorts[ip]
    BY <1>2, <2>2 DEF Exhausted
  <2>4. \A q \in mAvailablePorts[ip] :
          q < MaxPort => \E o \in DOMAIN mOutgoingTable : Endpoint(o) = <<ip, q>>
    BY <1>2, <2>1 DEF IInv, PortsAccounted, Exclusive
  <2>5. PICK o0 \in DOMAIN mOutgoingTable : Endpoint(o0) = <<ip, 0>>
    BY <1>2, <2>3, <2>4
  <2>6. PICK o1 \in DOMAIN mOutgoingTable : Endpoint(o1) = <<ip, 1>>
    BY <1>2, <2>3, <2>4
  <2>7. PICK o2 \in DOMAIN mOutgoingTable : Endpoint(o2) = <<ip, 2>>
    BY <1>2, <2>3, <2>4
  <2>8. o0 # o1 /\ o1 # o2 /\ o0 # o2
    <3>1. <<ip, 0>> # <<ip, 1>> /\ <<ip, 1>> # <<ip, 2>> /\ <<ip, 0>> # <<ip, 2>>
      OBVIOUS
    <3>2. QED
      BY <2>5, <2>6, <2>7, <3>1
  <2>9. \A o \in DOMAIN mOutgoingTable : o = Flow(1) \/ o = Flow(2)
    <3>1. ASSUME NEW o \in DOMAIN mOutgoingTable PROVE o = Flow(1) \/ o = Flow(2)
      <4>1. PICK k \in 1 .. step : o = Flow(k)
        BY DEF NatReady
      <4>2. k # step
        BY <4>1 DEF Bound
      <4>3. k = 1 \/ k = 2
        BY <4>2
      <4>4. QED
        BY <4>1, <4>3
    <3>2. QED
      BY <3>1
  <2>10. QED
    BY <2>8, <2>9
<1>5. QED
  BY <1>3, <1>4

\* Nothing of this changes with the steps that leave the NAT and the test where they are.
LEMMA SameKnown ==
  ASSUME UNCHANGED <<vars, test, step, mapped, changed>>
  PROVE  /\ Meant' = Meant /\ NatReady' = NatReady /\ Learnt' = Learnt
         /\ \A p : OnWay(p)' = OnWay(p)
         /\ \A w : Tells(w)' = Tells(w)
         /\ \A k : Bound(k)' = Bound(k)
<1>1. UNCHANGED <<mConfig, mThread, mOutgoingTable, mIncommingTable, mAvailablePorts, test, step,
                  mapped, changed>>
  BY DEF vars
<1>2. /\ Meant' = Meant
      /\ \A k : FlowTo(k)' = FlowTo(k) /\ Flow(k)' = Flow(k)
      /\ \A a, p, b, q : IncommingPk(a, p, b, q)' = IncommingPk(a, p, b, q)
  BY <1>1, SameFlows
<1>3. \A k : Bound(k)' = Bound(k) /\ Public(k)' = Public(k) /\ AnswerKey(k)' = AnswerKey(k)
  <2> SUFFICES ASSUME NEW k
               PROVE  Bound(k)' = Bound(k) /\ Public(k)' = Public(k) /\ AnswerKey(k)' = AnswerKey(k)
    OBVIOUS
  <2>1. Bound(k)' = Bound(k) /\ Public(k)' = Public(k)
    BY <1>1, <1>2 DEF Bound, Public
  <2>2. AnswerKey(k)' = AnswerKey(k)
    BY <1>2, <2>1 DEF AnswerKey
  <2>3. QED
    BY <2>1, <2>2
<1>4. NatReady' = NatReady
  BY <1>1, <1>2, <1>3 DEF NatReady
<1>5. Learnt' = Learnt
  BY <1>1, <1>3 DEF Learnt
<1>6. Wire' = Wire /\ AnsweredFrom' = AnsweredFrom
  BY <1>1, <1>2, SameRequest DEF AnsweredFrom
<1>7. \A w : Tells(w)' = Tells(w)
  BY <1>1, <1>3 DEF Tells
<1>8. \A p : OnWay(p)' = OnWay(p)
  BY <1>1, <1>2, <1>3, <1>6, <1>7 DEF OnWay
<1>9. QED
  BY <1>2, <1>3, <1>4, <1>5, <1>7, <1>8

\* The request is the packet of its flow.
LEMMA AskOnWay ==
  ASSUME SessionTypeOK, Meant, Asks, Learnt
  PROVE  OnWay(Datagram(From, To, Wire))
<1>1. /\ From = Opened /\ To = Address(FlowTo(step).dst, FlowTo(step).dport)
      /\ FlowTo(step).dst \in PublicIPs /\ ClientA \in PrivateIPs
  BY FlowRequest, FlowFacts, SessionConstants
<1>2. PICK p : p = Datagram(From, To, Wire)
  OBVIOUS
<1>3. /\ p.src = ClientA /\ p.sport = SourcePort
      /\ p.dst = FlowTo(step).dst /\ p.dport = FlowTo(step).dport /\ p.wire = Wire
  BY <1>1, <1>2 DEF Datagram, Opened, Address
<1>4. QED
  BY <1>1, <1>2, <1>3, AddressAssumption DEF OnWay

\* A test that sends has nothing else in flight.
LEMMA SendMeant ==
  ASSUME SessionTypeOK, MeantInv, Asks, phase' = "wait", net' = {Datagram(From, To, Wire)},
         mRcvQueue'["P"] = <<>>, UNCHANGED <<vars, test, step, mapped, changed>>
  PROVE  MeantInv'
<1> SUFFICES ASSUME Meant PROVE MeantInv'
  BY SameKnown DEF MeantInv
<1>1. NatReady /\ Learnt
  BY DEF MeantInv
<1>2. PICK p : p = Datagram(From, To, Wire)
  OBVIOUS
<1>3. net' = {p} /\ OnWay(p)
  BY <1>1, <1>2, AskOnWay
<1>4. NatReady' /\ Learnt' /\ OnWay(p)'
  BY <1>1, <1>3, SameKnown
<1>5. QED
  BY <1>3, <1>4 DEF MeantInv, Asks

\* Where a flow of NATReq1 is bound.
LEMMA PublicFacts ==
  ASSUME TypeOK, NEW k, Bound(k)
  PROVE  Public(k).ip \in NatIPs /\ Public(k).port \in Ports /\ Public(k).mask = {}
         /\ Public(k).ip = mOutgoingTable[Flow(k)].ip /\ Public(k).port = mOutgoingTable[Flow(k)].port
BY DEF Bound, Public, Address, TypeOK, IsTable, Binding

\* Two flows share an endpoint exactly if they share a binding.
LEMMA SamePublic ==
  ASSUME TypeOK, BindingExclusive, Exclusive, NEW j, NEW k, Bound(j), Bound(k)
  PROVE  SameAddress(Public(j), Public(k)) <=> Flow(j) = Flow(k)
<1>1. ASSUME SameAddress(Public(j), Public(k)) PROVE Flow(j) = Flow(k)
  <2>1. Endpoint(Flow(j)) = Endpoint(Flow(k))
    BY <1>1, PublicFacts DEF SameAddress, Endpoint
  <2>2. Flow(j) \in DOMAIN mOutgoingTable /\ Flow(k) \in DOMAIN mOutgoingTable
    BY DEF Bound
  <2>3. QED
    BY <2>1, <2>2 DEF BindingExclusive
<1>2. ASSUME Flow(j) = Flow(k) PROVE SameAddress(Public(j), Public(k))
  BY <1>2 DEF SameAddress, Public
<1>3. QED
  BY <1>1, <1>2

\* Which flows of NATReq1 share a binding is the mapping behaviour.
LEMMA SharedFlows ==
  ASSUME TypeOK, Meant, test = "mapping"
  PROVE  /\ Flow(1) = Flow(2) <=> mConfig.mMappingBehavior = "EndPointIndependent"
         /\ Flow(2) = Flow(3) <=> mConfig.mMappingBehavior \in {"EndPointIndependent", "AddressDependent"}
         /\ mConfig.mMappingBehavior \in
              {"EndPointIndependent", "AddressDependent", "AddressPortDependent"}
<1>1. mConfig.mMappingBehavior \in {"EndPointIndependent", "AddressDependent", "AddressPortDependent"}
  <2>1. mConfig \in Config
    BY ConstantTypes DEF TypeOK
  <2>2. QED
    BY <2>1 DEF Meant, Config, Mappings
<1>2. /\ Flow(1) = OutgoingPk(ClientA, SourcePort, ServerAIP, ServerPort1)
      /\ Flow(2) = OutgoingPk(ClientA, SourcePort, ServerBIP, ServerPort1)
      /\ Flow(3) = OutgoingPk(ClientA, SourcePort, ServerBIP, ServerPort2)
  BY FlowFacts DEF Flow, KeyOf
<1>3. ServerAIP # ServerBIP /\ ServerPort1 # ServerPort2
  BY SessionConstants
<1>4. CASE mConfig.mMappingBehavior = "EndPointIndependent"
  BY <1>2, <1>4 DEF OutgoingPk
<1>5. CASE mConfig.mMappingBehavior = "AddressDependent"
  <2>1. /\ Flow(1) = <<ClientA, SourcePort, ServerAIP, AnyPort>>
        /\ Flow(2) = <<ClientA, SourcePort, ServerBIP, AnyPort>>
        /\ Flow(3) = <<ClientA, SourcePort, ServerBIP, AnyPort>>
    BY <1>2, <1>5 DEF OutgoingPk
  <2>2. QED
    BY <1>3, <1>5, <2>1
<1>6. CASE mConfig.mMappingBehavior = "AddressPortDependent"
  <2>1. /\ Flow(1) = <<ClientA, SourcePort, ServerAIP, ServerPort1>>
        /\ Flow(2) = <<ClientA, SourcePort, ServerBIP, ServerPort1>>
        /\ Flow(3) = <<ClientA, SourcePort, ServerBIP, ServerPort2>>
    BY <1>2, <1>6 DEF OutgoingPk
  <2>2. QED
    BY <1>3, <1>6, <2>1
<1>7. QED
  BY <1>1, <1>4, <1>5, <1>6

\* What NATReq1 makes of an answer: it goes on with what it has learnt, or has found
\* the mapping behaviour.
LEMMA MappingConcludes ==
  ASSUME SessionTypeOK, BindingExclusive, Meant, test = "mapping", phase = "wait", Learnt,
         NEW w \in AnswerWires, Tells(w), Bound(step), Conclude(decode(w))
  PROVE  \/ /\ step \in {1, 2} /\ Go
            /\ mapped' = [mapped EXCEPT ![step] = Public(step)]
            /\ changed' = Address(ServerBIP, ServerPort2)
            /\ step = 2 => mConfig.mMappingBehavior # "EndPointIndependent"
         \/ Finish({mConfig.mMappingBehavior})
<1>1. PICK msg : msg = decode(w)
  OBVIOUS
<1>2. /\ msg # Failed /\ Answers \subseteq DOMAIN msg.attrs
      /\ Learned(msg, MAPPED_ADDRESS) = Public(step) /\ Unmasked(msg) = Public(step)
      /\ step = 1 => Learned(msg, CHANGED_ADDRESS) = Address(ServerBIP, ServerPort2)
  BY <1>1, AnswerFacts DEF Tells
<1>3. step \in {1, 2, 3} /\ TypeOK
  BY LastType DEF SessionTypeOK, ClientType, Asks
<1>4. /\ Mapping(msg)
      /\ mapped' = [mapped EXCEPT ![step] = Public(step)]
      /\ changed' = IF step = 1 THEN Learned(msg, CHANGED_ADDRESS) ELSE changed
  BY <1>1, <1>2 DEF Conclude
<1>5. changed' = Address(ServerBIP, ServerPort2)
  <2>1. step # 1 => changed = Address(ServerBIP, ServerPort2)
    BY <1>3 DEF Learnt
  <2>2. QED
    BY <1>2, <1>4, <2>1
<1>6. Exclusive
  BY DEF Meant, Exclusive
<1>7. \A k \in 1 .. (step - 1) : SameAddress(Unmasked(msg), mapped[k]) <=> Flow(step) = Flow(k)
  <2>1. ASSUME NEW k \in 1 .. (step - 1)
        PROVE  SameAddress(Unmasked(msg), mapped[k]) <=> Flow(step) = Flow(k)
    <3>1. Bound(k) /\ mapped[k] = Public(k)
      BY DEF Learnt
    <3>2. SameAddress(Public(step), Public(k)) <=> Flow(step) = Flow(k)
      BY <1>3, <1>6, <3>1, SamePublic
    <3>3. QED
      BY <1>2, <3>1, <3>2
  <2>2. QED
    BY <2>1
<1>8. CASE step = 1
  <2>1. me["P"] \in ClientAddress \cup {NoAddress}
    BY DEF SessionTypeOK, ClientType, Slots
  <2>2. Public(step).ip \in NatIPs
    BY <1>3, PublicFacts
  <2>3. Public(step) # me["P"]
    BY <2>1, <2>2, AddressAssumption DEF ClientAddress, NoAddress, Address
  <2>4. Go
    BY <1>2, <1>4, <1>8, <2>3 DEF Mapping
  <2>5. QED
    BY <1>4, <1>5, <1>8, <2>4
<1>9. CASE step = 2
  <2>1. SameAddress(Unmasked(msg), mapped[1]) <=> mConfig.mMappingBehavior = "EndPointIndependent"
    BY <1>3, <1>7, <1>9, SharedFlows
  <2>2. IF SameAddress(Unmasked(msg), mapped[1]) THEN Finish({"EndPointIndependent"}) ELSE Go
    BY <1>2, <1>4, <1>9 DEF Mapping
  <2>3. QED
    BY <1>4, <1>5, <1>9, <2>1, <2>2
<1>10. CASE step = 3
  <2>1. SameAddress(Unmasked(msg), mapped[2]) <=> Flow(2) = Flow(3)
    BY <1>7, <1>10
  <2>2. mConfig.mMappingBehavior # "EndPointIndependent"
    BY <1>10 DEF Learnt
  <2>3. mConfig.mMappingBehavior =
          IF SameAddress(Unmasked(msg), mapped[2]) THEN "AddressDependent" ELSE "AddressPortDependent"
    BY <1>3, <2>1, <2>2, SharedFlows
  <2>4. Finish({IF SameAddress(Unmasked(msg), mapped[2])
                THEN "AddressDependent" ELSE "AddressPortDependent"})
    BY <1>2, <1>4, <1>10 DEF Mapping
  <2>5. QED
    BY <2>3, <2>4
<1>11. QED
  BY <1>3, <1>8, <1>9, <1>10

\* The next request finds the NAT as the one before it has left it.
LEMMA NextReady ==
  ASSUME NatReady, UNCHANGED <<vars, test>>, step \in Nat, step' \in Nat, step <= step'
  PROVE  NatReady' /\ \A k : Bound(k)' = Bound(k) /\ Public(k)' = Public(k)
<1>1. UNCHANGED <<mConfig, mThread, mOutgoingTable, mIncommingTable, mAvailablePorts>>
  BY DEF vars
<1>2. \A k : FlowTo(k)' = FlowTo(k) /\ Flow(k)' = Flow(k)
  BY <1>1, SameFlows
<1>3. \A k : Bound(k)' = Bound(k) /\ Public(k)' = Public(k)
  BY <1>1, <1>2 DEF Bound, Public
<1>4. AnswerKey(1)' = AnswerKey(1)
  BY <1>1, <1>2, <1>3, SameFlows DEF AnswerKey
<1>5. \A o \in DOMAIN mOutgoingTable : \E k \in 1 .. step' : o = Flow(k)
  BY DEF NatReady
<1>6. QED
  BY <1>1, <1>2, <1>3, <1>4, <1>5 DEF NatReady

\* What a test goes on with after an answer, or without one, is what the NAT has bound.
LEMMA ConcludeMeant ==
  ASSUME SessionTypeOK, BindingExclusive, MeantInv, phase = "wait", NEW msg, Conclude(msg),
         msg = Failed \/ \E w \in AnswerWires : msg = decode(w) /\ (Meant => Tells(w) /\ Bound(step))
  PROVE  MeantInv'
<1>1. UNCHANGED <<vars, test>> /\ UNCHANGED mConfig
  BY DEF Conclude, vars
<1> SUFFICES ASSUME Meant PROVE MeantInv'
  BY <1>1, SameFlows DEF MeantInv
<1>2. NatReady /\ Learnt /\ step \in {1, 2, 3} /\ step \in 1 .. MaxStep
  <2>1. step \in 1 .. Last /\ Last = 3 /\ Last \in 1 .. MaxStep
    BY LastType DEF SessionTypeOK, ClientType, Asks, Meant
  <2>2. QED
    BY <2>1, SessionConstants DEF MeantInv, Asks
<1>3. msg # Failed => Answers \subseteq DOMAIN msg.attrs
  BY AnswerFacts
<1>4. \/ phase' = "ended"
      \/ phase' = "ask" /\ step' = step + 1 /\ (test = "mapping" => msg # Failed)
      \/ phase' = "sleep" /\ test = "lifetime"
  BY <1>3, ConcludeMoves DEF SessionTypeOK
<1>5. CASE phase' = "ended"
  BY <1>5 DEF MeantInv, Asks
<1>6. CASE phase' = "ask" /\ step' = step + 1 /\ (test = "mapping" => msg # Failed)
  <2>1. NatReady' /\ \A k : Bound(k)' = Bound(k) /\ Public(k)' = Public(k)
    BY <1>1, <1>2, <1>6, NextReady
  <2>2. Learnt'
    <3>1. CASE test # "mapping"
      BY <1>1, <3>1 DEF Learnt
    <3>2. CASE test = "mapping"
      <4>1. PICK w \in AnswerWires : msg = decode(w) /\ Tells(w) /\ Bound(step)
        BY <1>6, <3>2
      <4>2. \/ /\ step \in {1, 2} /\ Go
               /\ mapped' = [mapped EXCEPT ![step] = Public(step)]
               /\ changed' = Address(ServerBIP, ServerPort2)
               /\ step = 2 => mConfig.mMappingBehavior # "EndPointIndependent"
            \/ Finish({mConfig.mMappingBehavior})
        BY <1>2, <3>2, <4>1, MappingConcludes
      <4>3. ~Finish({mConfig.mMappingBehavior})
        BY <1>6 DEF Finish
      <4>4. \A k \in 1 .. step : Bound(k) /\ mapped'[k] = Public(k)
        <5>1. ASSUME NEW k \in 1 .. step PROVE Bound(k) /\ mapped'[k] = Public(k)
          <6>1. mapped \in [1 .. MaxStep -> NatAddress \cup {NoAddress}] /\ MaxStep \in Nat
            BY SessionConstants DEF SessionTypeOK, ClientType
          <6>2. CASE k = step
            BY <1>2, <4>1, <4>2, <4>3, <6>1, <6>2
          <6>3. CASE k # step
            <7>1. k \in 1 .. (step - 1) /\ k \in 1 .. MaxStep
              BY <1>2, <6>1, <6>3
            <7>2. Bound(k) /\ mapped[k] = Public(k)
              BY <1>2, <3>2, <7>1 DEF Learnt
            <7>3. QED
              BY <1>2, <4>2, <4>3, <6>1, <6>3, <7>1, <7>2
          <6>4. QED
            BY <6>2, <6>3
        <5>2. QED
          BY <5>1
      <4>5. 1 .. (step' - 1) = 1 .. step
        BY <1>2, <1>6
      <4>6. \A k \in 1 .. (step' - 1) : Bound(k)' /\ mapped'[k] = Public(k)'
        BY <2>1, <4>4, <4>5
      <4>7. step' = 3 => step = 2
        BY <1>2, <1>6
      <4>8. QED
        BY <1>1, <4>2, <4>3, <4>6, <4>7 DEF Learnt
    <3>3. QED
      BY <3>1, <3>2
  <2>3. QED
    BY <1>6, <2>1, <2>2 DEF MeantInv
<1>7. QED
  BY <1>4, <1>5, <1>6 DEF Meant

\* The test has started: the NAT runs, and its tables are empty.
LEMMA StartMeant ==
  ASSUME SessionTypeOK, StoppedIsEmpty, MeantInv, StartParts
  PROVE  MeantInv'
<1>1. /\ Start(mConfig, [t \in Threads |-> "loop"]) /\ UNCHANGED <<mConfig, test>>
      /\ phase = "start" /\ phase' = "ask" /\ step' = 1
  BY DEF StartParts, Start
<1> SUFFICES ASSUME Meant PROVE MeantInv'
  BY <1>1, SameFlows DEF MeantInv
<1>2. \A t \in Threads : mThread[t] = "none"
  BY <1>1 DEF MeantInv
<1>3. /\ DOMAIN mOutgoingTable = {} /\ DOMAIN mIncommingTable = {} /\ DOMAIN mAvailablePorts = {}
  BY <1>2 DEF StoppedIsEmpty
<1>4. /\ mThread' = [t \in Threads |-> "loop"]
      /\ mAvailablePorts' = [ip \in NatIPs |-> {}]
      /\ mOutgoingTable' = mOutgoingTable /\ mIncommingTable' = mIncommingTable
  BY <1>1, <1>2, <1>3 DEF Start
<1>5. ~Bound(1)'
  BY <1>3, <1>4 DEF Bound
<1>6. NatReady'
  BY <1>3, <1>4, <1>5 DEF NatReady
<1>7. Learnt'
  BY <1>1 DEF Learnt
<1>8. QED
  BY <1>1, <1>6, <1>7 DEF MeantInv

\* The client's steps keep what is known of the test's flows.
LEMMA ClientMeant ==
  ASSUME ~Late, SessionTypeOK, IInv, OneRequest, MeantInv, ClientStep
  PROVE  MeantInv'
<1>1. ASSUME phase' \notin {"start", "ask", "wait"} PROVE MeantInv'
  BY <1>1 DEF MeantInv, Asks
<1>2. CASE StartParts
  BY <1>2, StartMeant DEF IInv
<1>3. CASE Ask \/ AskDeaf
  <2>1. /\ phase = "ask" /\ phase' = "wait" /\ UNCHANGED <<vars, test, step, mapped, changed>>
        /\ net' = net \cup {Datagram(From, To, Wire)}
        /\ mRcvQueue' = mRcvQueue \/ mRcvQueue' = [s \in Slots |-> <<>>]
    BY <1>3 DEF Ask, AskDeaf, SendFirst
  <2>2. net = {} /\ mRcvQueue["P"] = <<>>
    BY <2>1 DEF OneRequest, Slots
  <2>3. mRcvQueue'["P"] = <<>> /\ net' = {Datagram(From, To, Wire)}
    BY <2>1, <2>2 DEF Slots
  <2>4. QED
    BY <2>1, <2>3, SendMeant DEF Asks
<1>4. CASE Retry
  <2>1. /\ phase = "wait" /\ phase' = "wait" /\ UNCHANGED <<vars, test, step, mapped, changed, mRcvQueue>>
        /\ net' = {Datagram(From, request.to, request.wire)} /\ mRcvQueue[Slot] = <<>>
    BY <1>4, WaitedOut DEF Retry
  <2>2. request.to = To /\ request.wire = Wire
    BY <2>1 DEF SessionTypeOK, ClientType, Requested
  <2>3. CASE Slot = "P"
    BY <2>1, <2>2, <2>3, SendMeant DEF Asks
  <2>4. CASE Slot # "P"
    BY <2>1, <2>4, SameKnown DEF MeantInv, Meant, Slot
  <2>5. QED
    BY <2>3, <2>4
<1>5. CASE Answered
  <2>1. PICK w : w = Head(mRcvQueue[Slot])
    OBVIOUS
  <2>2. /\ phase = "wait" /\ mRcvQueue[Slot] # <<>> /\ Conclude(decode(w)) /\ Slot \in Slots
    BY <1>5, <2>1 DEF Answered, SessionTypeOK, ClientType, Requested, Slot, Slots
  <2>3. mRcvQueue[Slot] \in Seq(AnswerWires)
    BY <2>2 DEF SessionTypeOK, NetType
  <2>4. w \in AnswerWires /\ w = mRcvQueue[Slot][1] /\ 1 \in 1 .. Len(mRcvQueue[Slot])
    BY <2>1, <2>2, <2>3
  <2>5. Meant => Tells(w) /\ Bound(step)
    <3>1. Meant => Slot = "P"
      BY DEF Meant, Slot
    <3>2. QED
      BY <2>2, <2>4, <3>1 DEF MeantInv
  <2>6. QED
    BY <2>2, <2>4, <2>5, ConcludeMeant DEF IInv
<1>6. CASE Unanswered
  BY <1>6, ConcludeMeant DEF Unanswered, IInv
<1>7. CASE CreateFails \/ ThreadFails \/ Receive \/ SleepTick \/ Wake
  <2>1. UNCHANGED <<test, mConfig>>
    BY <1>7 DEF CreateFails, ThreadFails, Receive, SleepTick, Tick, Wake, vars
  <2> SUFFICES ASSUME Meant PROVE MeantInv'
    BY <2>1, SameFlows DEF MeantInv
  <2>2. test \notin {"pooling", "overloading", "lifetime"} /\ phase # "sleep"
    BY DEF Meant, SessionTypeOK, ClientType
  <2>3. CreateFails
    BY <1>7, <2>2 DEF ThreadFails, LifetimeThreadFails, OverloadingThreadFails, Receive, SleepTick, Wake
  <2>4. phase' = "ended"
    BY <2>2, <2>3 DEF CreateFails, Finish
  <2>5. QED
    BY <1>1, <2>4
<1>8. CASE StopParts \/ Joined
  BY <1>1, <1>8 DEF StopParts, Joined
<1>9. QED
  BY <1>2, <1>3, <1>4, <1>5, <1>6, <1>7, <1>8 DEF ClientStep

\* The packets of a test under way: there is at most one.
LEMMA MeantWait ==
  ASSUME SessionTypeOK, OneRequest, MeantInv, Meant, phase = "wait", NEW p \in net
  PROVE  /\ Slot = "P" /\ net = {p} /\ mRcvQueue["P"] = <<>> /\ step \in 1 .. 3
         /\ NatReady /\ Learnt /\ OnWay(p)
<1>1. Asks /\ NatReady /\ Learnt /\ OnWay(p)
  BY DEF MeantInv, Asks
<1>2. Slot = "P" /\ step \in 1 .. 3
  BY <1>1, FlowRequest
<1>3. QED
  BY <1>1, <1>2 DEF OneRequest

\* A packet that goes out finds a binding or makes one, and opens the filter for its
\* answers.
LEMMA OutgoingMeant ==
  ASSUME SessionTypeOK, IInv, OneRequest, MeantInv, MaxPort >= 3, Meant, phase = "wait",
         NEW p \in net, Outgoing(p)
  PROVE  MeantInv' /\ net' # {} /\ \A q \in net' : q.dst \notin PrivateIPs
<1>1. /\ Slot = "P" /\ net = {p} /\ mRcvQueue["P"] = <<>> /\ step \in 1 .. 3
      /\ NatReady /\ Learnt /\ OnWay(p) /\ TypeOK
      /\ p \in FromClient \cup ToServer \cup FromServer \cup ToClient
  BY MeantWait DEF SessionTypeOK, NetType
<1>2. p \in FromClient /\ Header(p) \in OutPackets /\ p.src \in PrivateIPs /\ p.src \notin PublicIPs
  BY <1>1, Sides, AddressAssumption DEF Outgoing
<1>3. UNCHANGED <<test, step, phase, mapped, changed, mRcvQueue>> /\ Wire' = Wire
  BY SameRequest DEF Outgoing, clientVars
<1>4. Header(p) = FlowTo(step) /\ p.wire = Wire
  BY <1>1, <1>2 DEF OnWay, Header, FlowTo, Meant
<1>5. PICK pk : pk = FlowTo(step)
  OBVIOUS
<1>6. PICK key : key = Flow(step)
  OBVIOUS
<1>7. /\ pk \in OutPackets /\ TreatOutgoingPacket(pk) /\ key = KeyOf(pk)
      /\ \A o \in DOMAIN mOutgoingTable : mOutgoingTable[o].age = 0
      /\ key \in DOMAIN mOutgoingTable \/ ~NoneFree(pk) \/ ~mConfig.mPortOverloading
      /\ key \in DOMAIN mOutgoingTable \/ \E ip \in NatIPs : ~Exhausted(ip)
  BY <1>1, <1>2, <1>4, <1>5, <1>6, PortLeft DEF Outgoing, NatReady, Bound, Flow
<1>8. /\ UNCHANGED <<mConfig, mThread>> /\ DOMAIN mAvailablePorts' = DOMAIN mAvailablePorts
      /\ sent' # Nothing
      /\ DOMAIN mOutgoingTable' = DOMAIN mOutgoingTable \cup {key}
      /\ \A o \in DOMAIN mOutgoingTable' : mOutgoingTable'[o].age = 0
      /\ \A o \in DOMAIN mOutgoingTable : /\ mOutgoingTable'[o].ip = mOutgoingTable[o].ip
                                          /\ mOutgoingTable'[o].port = mOutgoingTable[o].port
      /\ sent'.from[1] = mOutgoingTable'[key].ip /\ sent'.from[2] = mOutgoingTable'[key].port
      /\ DOMAIN mIncommingTable' = DOMAIN mIncommingTable \cup
           {IncommingPk(pk.dst, pk.dport, mOutgoingTable'[key].ip, mOutgoingTable'[key].port)}
      /\ \A i \in DOMAIN mIncommingTable' :
           \/ i \in DOMAIN mIncommingTable /\ mIncommingTable'[i] = mIncommingTable[i]
           \/ mIncommingTable'[i].ip = pk.src /\ mIncommingTable'[i].port = pk.sport
  BY <1>1, <1>7, OutgoingLeaves
<1>9. /\ \A k : FlowTo(k)' = FlowTo(k) /\ Flow(k)' = Flow(k)
      /\ \A a, b, c, d : IncommingPk(a, b, c, d)' = IncommingPk(a, b, c, d)
      /\ \A k : Bound(k) => Bound(k)' /\ Public(k)' = Public(k) /\ AnswerKey(k)' = AnswerKey(k)
  BY <1>3, <1>8, SameFlows, SameBound
<1>10. /\ Bound(step)' /\ Public(step)' = Address(mOutgoingTable'[key].ip, mOutgoingTable'[key].port)
       /\ Public(step)'.ip = mOutgoingTable'[key].ip /\ Public(step)'.port = mOutgoingTable'[key].port
  BY <1>3, <1>6, <1>8, <1>9 DEF Bound, Public, Address
<1>11. AnswerKey(step)' =
         IncommingPk(pk.dst, pk.dport, mOutgoingTable'[key].ip, mOutgoingTable'[key].port)
  BY <1>3, <1>5, <1>9, <1>10 DEF AnswerKey
<1>12. DOMAIN mIncommingTable' = DOMAIN mIncommingTable \cup {AnswerKey(step)'}
  BY <1>8, <1>11
<1>13. NatReady'
  <2>1. \A o \in DOMAIN mOutgoingTable' : \E k \in 1 .. step : o = Flow(k)
    BY <1>1, <1>6, <1>8 DEF NatReady
  <2>2. \A i \in DOMAIN mIncommingTable' :
          mIncommingTable'[i].ip = ClientA /\ mIncommingTable'[i].port = SourcePort
    BY <1>1, <1>5, <1>8, FlowFacts DEF NatReady, Meant
  <2>3. test = "filtering" => Bound(1)' /\ DOMAIN mIncommingTable' = {AnswerKey(1)'}
    <3> SUFFICES ASSUME test = "filtering"
                 PROVE  Bound(1)' /\ DOMAIN mIncommingTable' = {AnswerKey(1)'}
      OBVIOUS
    <3>1. FlowTo(step) = FlowTo(1) /\ Flow(step) = Flow(1)
      BY FlowFacts DEF Flow
    <3>2. Bound(1)' /\ Public(1)' = Public(step)'
      BY <1>3, <1>9, <1>10, <3>1 DEF Bound, Public
    <3>3. AnswerKey(1)' = AnswerKey(step)'
      BY <1>3, <1>9, <3>1, <3>2 DEF AnswerKey
    <3>4. DOMAIN mIncommingTable = {} \/ DOMAIN mIncommingTable = {AnswerKey(1)'}
      BY <1>1, <1>9 DEF NatReady
    <3>5. QED
      BY <1>12, <3>2, <3>3, <3>4
  <2>4. QED
    BY <1>1, <1>3, <1>8, <1>9, <2>1, <2>2, <2>3 DEF NatReady
<1>14. Learnt'
  BY <1>1, <1>3, <1>8, <1>9 DEF Learnt
<1>15. PICK q \in ToServer :
         /\ net' = (net \ {p}) \cup {q}
         /\ q.src = sent'.from[1] /\ q.sport = sent'.from[2]
         /\ q.dst = p.dst /\ q.dport = p.dport /\ q.wire = p.wire
  BY <1>1, <1>2, <1>8, OutgoingPacket
<1>16. OnWay(q)'
  <2>1. q.src \in NatIPs /\ q.dst \in PublicIPs
    BY DEF ToServer, Between
  <2>2. q.src \notin PrivateIPs /\ q.src \notin PublicIPs /\ q.dst \notin NatIPs /\ q.dst \notin PrivateIPs
    BY <2>1, AddressAssumption
  <2>3. /\ q.src = Public(step)'.ip /\ q.sport = Public(step)'.port
        /\ q.dst = FlowTo(step).dst /\ q.dport = FlowTo(step).dport /\ q.wire = Wire
    BY <1>1, <1>2, <1>4, <1>8, <1>10, <1>15 DEF OnWay
  <2>4. FlowTo(step)' = FlowTo(step)
    BY <1>3, <1>9
  <2>5. Bound(step)' /\ AnswerKey(step)' \in DOMAIN mIncommingTable'
    BY <1>10, <1>12
  <2>6. QED
    BY <1>3, <2>2, <2>3, <2>4, <2>5 DEF OnWay
<1>17. net' = {q} /\ mRcvQueue'["P"] = <<>>
  BY <1>1, <1>3, <1>15
<1>18. q.dst \notin PrivateIPs
  BY AddressAssumption DEF ToServer, Between
<1>19. QED
  BY <1>3, <1>13, <1>14, <1>16, <1>17, <1>18 DEF MeantInv

\* The key a packet of the public side is looked up under.
LEMMA AnswerFilter ==
  ASSUME NEW p, OnWay(p), p.src \in PublicIPs, p.dst \in NatIPs
  PROVE  FilterKey(Header(p)) =
           IncommingPk(AnsweredFrom.ip, AnsweredFrom.port, Public(step).ip, Public(step).port)
BY DEF OnWay, FilterKey, Header

\* An answer that gets in comes to the client; one that does not is gone.
LEMMA IncommingMeant ==
  ASSUME SessionTypeOK, OneRequest, MeantInv, Meant, phase = "wait", NEW p \in net, Incomming(p)
  PROVE  /\ MeantInv'
         /\ net' # {} <=> FilterKey(Header(p)) \in DOMAIN mIncommingTable
<1>1. /\ Slot = "P" /\ net = {p} /\ mRcvQueue["P"] = <<>> /\ step \in 1 .. 3
      /\ NatReady /\ Learnt /\ OnWay(p) /\ TypeOK
      /\ p \in FromClient \cup ToServer \cup FromServer \cup ToClient
  BY MeantWait DEF SessionTypeOK, NetType
<1>2. p \in FromServer /\ Header(p) \in InPackets /\ p.src \in PublicIPs /\ p.src \notin PrivateIPs
  BY <1>1, Sides, AddressAssumption DEF Incomming
<1>3. UNCHANGED <<test, step, phase, mapped, changed, mRcvQueue>>
  BY DEF Incomming, clientVars
<1>4. PICK pk : pk = Header(p)
  OBVIOUS
<1>5. /\ UNCHANGED <<mConfig, mThread, mIncommingTable, mAvailablePorts>>
      /\ DOMAIN mOutgoingTable' = DOMAIN mOutgoingTable
      /\ \A o \in DOMAIN mOutgoingTable : /\ mOutgoingTable'[o].ip = mOutgoingTable[o].ip
                                          /\ mOutgoingTable'[o].port = mOutgoingTable[o].port
                                          /\ mOutgoingTable'[o].age = 0
      /\ sent' # Nothing <=> FilterKey(pk) \in DOMAIN mIncommingTable
  <2>1. pk \in InPackets /\ TreatIncommingPacket(pk)
        /\ \A o \in DOMAIN mOutgoingTable : mOutgoingTable[o].age = 0
    BY <1>1, <1>2, <1>4 DEF Incomming, NatReady
  <2>2. QED
    BY <1>1, <2>1, IncommingPasses
<1>6. /\ \A k : FlowTo(k)' = FlowTo(k) /\ Flow(k)' = Flow(k)
      /\ \A k : Bound(k) => Bound(k)' /\ Public(k)' = Public(k) /\ AnswerKey(k)' = AnswerKey(k)
      /\ \A k : Bound(k)' => Bound(k)
  <2>1. \A k : FlowTo(k)' = FlowTo(k) /\ Flow(k)' = Flow(k)
    BY <1>3, <1>5, SameFlows
  <2>2. \A k : Bound(k) => Bound(k)' /\ Public(k)' = Public(k) /\ AnswerKey(k)' = AnswerKey(k)
    BY <1>3, <1>5, SameBound
  <2>3. \A k : Bound(k)' => Bound(k)
    BY <1>5, <2>1 DEF Bound
  <2>4. QED
    BY <2>1, <2>2, <2>3
<1>7. NatReady' /\ Learnt'
  BY <1>1, <1>3, <1>5, <1>6 DEF NatReady, Learnt
<1>8. CASE sent' = Nothing
  <2>1. net' = {}
    BY <1>1, <1>8 DEF Incomming, Translated
  <2>2. QED
    BY <1>1, <1>3, <1>4, <1>5, <1>7, <1>8, <2>1 DEF MeantInv
<1>9. CASE sent' # Nothing
  <2>1. TypeOK /\ (sent' = Nothing \/ FilterKey(pk) \in DOMAIN mIncommingTable)
    BY <1>1, <1>5
  <2>2. PICK q \in ToClient :
          /\ net' = (net \ {p}) \cup {q}
          /\ q.src = p.src /\ q.sport = p.sport /\ q.wire = p.wire
          /\ q.dst = mIncommingTable[FilterKey(Header(p))].ip
          /\ q.dport = mIncommingTable[FilterKey(Header(p))].port
    <3>1. \/ sent' = Nothing /\ net' = net \ {p}
          \/ \E q \in ToClient :
               /\ net' = (net \ {p}) \cup {q}
               /\ FilterKey(Header(p)) \in DOMAIN mIncommingTable
               /\ q.src = p.src /\ q.sport = p.sport /\ q.wire = p.wire
               /\ q.dst = mIncommingTable[FilterKey(Header(p))].ip
               /\ q.dport = mIncommingTable[FilterKey(Header(p))].port
      BY <1>1, <1>2, IncommingPacket
    <3>2. QED
      BY <1>9, <3>1
  <2>3. q.dst = ClientA /\ q.dport = SourcePort
    BY <1>1, <1>4, <1>5, <1>9, <2>2 DEF NatReady
  <2>4. /\ q.src \in PublicIPs /\ q.src \notin PrivateIPs /\ q.src \notin NatIPs
        /\ q.dst \in PrivateIPs /\ q.dst \notin NatIPs
    BY AddressAssumption DEF ToClient, Between
  <2>5. Bound(step) /\ Bound(step)' /\ Public(step)' = Public(step) /\ AnswerKey(step)' = AnswerKey(step)
        /\ AnswerKey(step) \in DOMAIN mIncommingTable
    BY <1>1, <1>2, <1>3, <1>6 DEF OnWay
  <2>6. Tells(p.wire) /\ p.src = AnsweredFrom.ip /\ p.sport = AnsweredFrom.port
    BY <1>1, <1>2 DEF OnWay
  <2>7. AnsweredFrom' = AnsweredFrom
    BY <1>3, <1>6 DEF AnsweredFrom
  <2>8. Tells(p.wire)'
    <3>1. PICK w : w = p.wire
      OBVIOUS
    <3>2. Tells(w)'
      BY <1>3, <2>5, <2>6, <3>1 DEF Tells
    <3>3. QED
      BY <3>1, <3>2
  <2>9. OnWay(q)'
    BY <1>5, <2>2, <2>3, <2>4, <2>5, <2>6, <2>7, <2>8 DEF OnWay
  <2>10. net' = {q}
    BY <1>1, <2>2
  <2>11. QED
    BY <1>1, <1>3, <1>4, <1>5, <1>7, <1>9, <2>9, <2>10 DEF MeantInv
<1>10. QED
  BY <1>8, <1>9

\* The server answers from where the request asks it to, to the flow's endpoint.
LEMMA ServeMeant ==
  ASSUME SessionTypeOK, OneRequest, MeantInv, Meant, phase = "wait", NEW p \in net, Serve(p)
  PROVE  MeantInv' /\ net' # {} /\ \A q \in net' : q.dst \notin PrivateIPs
<1>1. /\ Slot = "P" /\ net = {p} /\ mRcvQueue["P"] = <<>> /\ step \in 1 .. 3
      /\ NatReady /\ Learnt /\ OnWay(p) /\ TypeOK
      /\ p \in FromClient \cup ToServer \cup FromServer \cup ToClient
  BY MeantWait DEF SessionTypeOK, NetType
<1>2. /\ p \in ToServer /\ p.src \in NatIPs /\ p.src \notin PublicIPs /\ p.src \notin PrivateIPs
      /\ p.sport \in Ports
  <2>1. p \in ToServer /\ p.src \in NatIPs
    BY <1>1, Sides DEF Serve
  <2>2. QED
    BY <2>1, AddressAssumption DEF ToServer, Between
<1>3. /\ Bound(step) /\ AnswerKey(step) \in DOMAIN mIncommingTable /\ p.wire = Wire
      /\ p.src = Public(step).ip /\ p.sport = Public(step).port
      /\ p.dst = FlowTo(step).dst /\ p.dport = FlowTo(step).dport
  BY <1>1, <1>2 DEF OnWay
<1>4. PICK msg : msg = decode(p.wire)
  OBVIOUS
<1>5. PICK source : source = Source(p, msg.attrs[CHANGE_REQUEST])
  OBVIOUS
<1>6. PICK q : q = Answer(p)
  OBVIOUS
<1>7. /\ msg.attrs[CHANGE_REQUEST].ip = (test = "filtering" /\ step = 2)
      /\ msg.attrs[CHANGE_REQUEST].port = (test = "filtering" /\ step \in {2, 3})
      /\ RESPONSE_ADDRESS \notin DOMAIN msg.attrs
  BY <1>3, <1>4, WireIs DEF Meant
<1>8. /\ decode(p.wire) # Failed
      /\ q \in FromServer /\ q.src = source.ip /\ q.sport = source.port
      /\ q.dst = p.src /\ q.dport = p.sport
      /\ Learned(decode(q.wire), MAPPED_ADDRESS) = Address(p.src, p.sport)
      /\ Learned(decode(q.wire), CHANGED_ADDRESS) = Address(OtherIP(source.ip), OtherPort(source.port))
  BY <1>2, <1>4, <1>5, <1>6, <1>7, AnswerIs
<1>9. /\ source.ip = IF test = "filtering" /\ step = 2 THEN OtherIP(p.dst) ELSE p.dst
      /\ source.port = IF test = "filtering" /\ step \in {2, 3} THEN OtherPort(p.dport) ELSE p.dport
  BY <1>5, <1>7 DEF Source, Address
<1>10. /\ p.dst = IF test = "mapping" /\ step > 1 THEN ServerBIP ELSE ServerAIP
       /\ p.dport = IF test = "mapping" /\ step = 3 THEN ServerPort2 ELSE ServerPort1
  BY <1>3, FlowFacts
<1>11. source.ip = AnsweredFrom.ip /\ source.port = AnsweredFrom.port
  <2>1. CASE test = "mapping"
    BY <1>3, <1>9, <2>1 DEF AnsweredFrom, Address
  <2>2. CASE test = "filtering"
    <3>1. p.dst = ServerAIP /\ p.dport = ServerPort1
      BY <1>10, <2>2
    <3>2. OtherIP(p.dst) = ServerBIP /\ OtherPort(p.dport) = ServerPort2
      BY <3>1 DEF OtherIP, OtherPort
    <3>3. QED
      BY <1>1, <1>9, <2>2, <3>1, <3>2 DEF AnsweredFrom, Address
  <2>3. QED
    BY <2>1, <2>2 DEF Meant
<1>12. Tells(q.wire)
  <2>1. Address(p.src, p.sport) = Public(step)
    BY <1>3 DEF Public, Address
  <2>2. step = 1 => /\ source.ip = ServerAIP /\ source.port = ServerPort1
                    /\ OtherIP(source.ip) = ServerBIP /\ OtherPort(source.port) = ServerPort2
    BY <1>9, <1>10 DEF OtherIP, OtherPort
  <2>3. QED
    BY <1>8, <2>1, <2>2 DEF Tells
<1>13. q.src \in PublicIPs /\ q.src \notin PrivateIPs /\ q.src \notin NatIPs
       /\ q.dst \in NatIPs /\ q.dst \notin PrivateIPs
  BY <1>8, AddressAssumption DEF FromServer, Between
<1>14. OnWay(q)
  BY <1>3, <1>8, <1>11, <1>12, <1>13 DEF OnWay
<1>15. /\ UNCHANGED <<vars, test, step, phase, mapped, changed, mRcvQueue>> /\ net' = {q}
  BY <1>1, <1>6, <1>8 DEF Serve, clientVars
<1>16. NatReady' /\ Learnt' /\ OnWay(q)'
  BY <1>1, <1>14, <1>15, SameKnown
<1>17. QED
  BY <1>1, <1>13, <1>15, <1>16 DEF MeantInv

\* What is delivered is what the client waits for.
LEMMA DeliverMeant ==
  ASSUME SessionTypeOK, OneRequest, MeantInv, Meant, phase = "wait", NEW p \in net, Deliver(p)
  PROVE  MeantInv'
<1>1. /\ net = {p} /\ mRcvQueue["P"] = <<>> /\ NatReady /\ Learnt /\ OnWay(p)
  BY MeantWait
<1>2. p.src \in PublicIPs /\ p.src \notin PrivateIPs
  BY AddressAssumption DEF Deliver
<1>3. Bound(step) /\ Tells(p.wire)
  BY <1>1, <1>2 DEF OnWay
<1>4. /\ UNCHANGED <<vars, test, step, phase, mapped, changed>> /\ net' = {}
      /\ mRcvQueue'["P"] = <<>> \/ mRcvQueue'["P"] = <<p.wire>>
  <2>1. UNCHANGED <<vars, test, step, phase, mapped, changed>> /\ net' = net \ {p}
    BY DEF Deliver, clientVars
  <2>2. mRcvQueue'["P"] = IF me["P"] = Address(p.dst, p.dport)
                          THEN Append(mRcvQueue["P"], p.wire) ELSE mRcvQueue["P"]
    BY DEF Deliver, Slots
  <2>3. Append(<<>>, p.wire) = <<p.wire>>
    OBVIOUS
  <2>4. QED
    BY <1>1, <2>1, <2>2, <2>3
<1>5. PICK w : w = p.wire
  OBVIOUS
<1>6. NatReady' /\ Learnt' /\ Bound(step)' /\ Tells(w)'
  <2>1. \A k : Bound(k)' = Bound(k)
    BY <1>4, SameKnown
  <2>2. Bound(step)' = Bound(step)
    BY <1>4, <2>1, SameFlows DEF vars, Bound
  <2>3. QED
    BY <1>1, <1>3, <1>4, <1>5, <2>2, SameKnown
<1>7. \A i \in 1 .. Len(mRcvQueue'["P"]) : mRcvQueue'["P"][i] = w
  BY <1>4, <1>5
<1>8. QED
  BY <1>4, <1>6, <1>7 DEF MeantInv

\* A packet that is carried, or lost, keeps what is known of the test's flows.
LEMMA CarryMeant ==
  ASSUME SessionTypeOK, IInv, OneRequest, MeantInv, MaxPort >= 3,
         NEW p \in net, Carry(p) \/ Lose(p)
  PROVE  MeantInv'
<1>1. UNCHANGED <<mConfig, test, step, phase, mapped, changed>>
  <2>1. UNCHANGED clientVars
    BY OnTheWay
  <2>2. ASSUME Outgoing(p) PROVE mConfig' = mConfig
    BY <2>2 DEF Outgoing, TreatOutgoingPacket, OutgoingExpire, Expire, OutgoingRefresh, BindSamePort,
       BindOverloaded, BindFirstAvailable, Bind, OutgoingDrop
  <2>3. ASSUME Incomming(p) PROVE mConfig' = mConfig
    BY <2>3 DEF Incomming, TreatIncommingPacket, IncommingExpire, Expire, IncommingForward,
       IncommingForwardUnbound, IncommingDrop
  <2>4. QED
    BY <2>1, <2>2, <2>3 DEF Carry, Serve, Unheard, Deliver, Lose, clientVars, vars
<1> SUFFICES ASSUME Meant PROVE MeantInv'
  BY <1>1, SameFlows DEF MeantInv
<1>2. CASE phase # "wait"
  BY <1>1, <1>2 DEF OneRequest, MeantInv, Asks
<1>3. CASE phase = "wait"
  <2>1. CASE Unheard(p) \/ Lose(p)
    <3>1. UNCHANGED <<vars, mRcvQueue>> /\ net' = net \ {p}
      BY <2>1 DEF Unheard, Lose
    <3>2. net' = {} /\ mRcvQueue'["P"] = <<>> /\ NatReady /\ Learnt
      BY <1>3, <3>1, MeantWait
    <3>3. QED
      BY <1>1, <1>3, <3>1, <3>2, SameKnown DEF MeantInv
  <2>2. QED
    BY <1>3, <2>1, OutgoingMeant, IncommingMeant, ServeMeant, DeliverMeant DEF Carry
<1>4. QED
  BY <1>2, <1>3

\* A session starts with a NAT that does not run.
LEMMA MeantInit == SessionInit => MeantInv
BY DEF SessionInit, Init, MeantInv, Asks

\* Every step keeps what is known of the test's flows.
LEMMA MeantStep ==
  ASSUME ~Late, MaxPort >= 3, SessionTypeOK, IInv, OneRequest, MeantInv, [SessionNext]_allVars
  PROVE  MeantInv'
<1>1. CASE ServerStep \/ UNCHANGED allVars
  <2>1. UNCHANGED <<vars, test, step, phase, mapped, changed, net, mRcvQueue>>
    BY <1>1 DEF ServerStep, ServerBegins, ServerLeaves, allVars, sessionVars, clientVars
  <2>2. mThread' = mThread /\ Asks' = Asks /\ Meant' = Meant /\ NatReady' = NatReady /\ Learnt' = Learnt
        /\ (\A p : OnWay(p)' = OnWay(p)) /\ (\A w : Tells(w)' = Tells(w))
    BY <2>1, SameKnown DEF Asks, vars
  <2>3. Bound(step)' = Bound(step)
    BY <2>1, SameFlows DEF vars, Bound
  <2>4. QED
    BY <2>1, <2>2, <2>3 DEF MeantInv
<1>2. QED
  BY <1>1, ClientMeant, CarryMeant DEF SessionNext

\* Whether an answer passes the filter depends on what the request asked for.
LEMMA HearsKey ==
  ASSUME TypeOK, Meant, NatReady, step \in 1 .. 3, NEW p, OnWay(p), p.src \in PublicIPs, p.dst \in NatIPs
  PROVE  FilterKey(Header(p)) \in DOMAIN mIncommingTable <=> Hears
<1>1. p.src \notin PrivateIPs
  BY AddressAssumption
<1>2. Bound(step) /\ AnswerKey(step) \in DOMAIN mIncommingTable
  BY <1>1 DEF OnWay
<1>3. PICK ip, port : ip = Public(step).ip /\ port = Public(step).port
  OBVIOUS
<1>4. FilterKey(Header(p)) = IncommingPk(AnsweredFrom.ip, AnsweredFrom.port, ip, port)
  BY <1>3, AnswerFilter
<1>5. AnswerKey(step) = IncommingPk(FlowTo(step).dst, FlowTo(step).dport, ip, port)
  BY <1>3 DEF AnswerKey
<1>6. CASE test = "mapping"
  <2>1. AnsweredFrom.ip = FlowTo(step).dst /\ AnsweredFrom.port = FlowTo(step).dport
    BY <1>6 DEF AnsweredFrom, Address
  <2>2. QED
    BY <1>2, <1>4, <1>5, <1>6, <2>1 DEF Hears
<1>7. CASE test = "filtering"
  <2>1. FlowTo(step).dst = ServerAIP /\ FlowTo(step).dport = ServerPort1 /\ FlowTo(step) = FlowTo(1)
    BY <1>7, FlowFacts
  <2>2. DOMAIN mIncommingTable = {AnswerKey(step)}
    <3>1. Bound(1) /\ AnswerKey(1) = AnswerKey(step)
      BY <1>2, <2>1 DEF Bound, AnswerKey, Public, Flow
    <3>2. QED
      BY <1>7, <3>1 DEF NatReady
  <2>3. /\ AnsweredFrom.ip = IF step = 2 THEN ServerBIP ELSE ServerAIP
        /\ AnsweredFrom.port = IF step = 1 THEN ServerPort1 ELSE ServerPort2
    BY <1>7 DEF AnsweredFrom, Address
  <2>4. ServerAIP # ServerBIP /\ ServerPort1 # ServerPort2
    BY SessionConstants
  <2>5. mConfig.mFilteringBehavior \in {"AddressIndependent", "AddressDependent", "AddressPortDependent"}
    BY ConstantTypes DEF TypeOK, Config, Filterings
  <2>6. CASE mConfig.mFilteringBehavior = "AddressIndependent"
    <3>1. FilterKey(Header(p)) = AnswerKey(step)
      BY <1>4, <1>5, <2>6 DEF IncommingPk
    <3>2. QED
      BY <2>2, <2>6, <3>1 DEF Hears
  <2>7. CASE mConfig.mFilteringBehavior = "AddressDependent"
    <3>1. /\ FilterKey(Header(p)) = <<AnsweredFrom.ip, AnyPort, ip, port>>
          /\ AnswerKey(step) = <<ServerAIP, AnyPort, ip, port>>
      BY <1>4, <1>5, <2>1, <2>7 DEF IncommingPk
    <3>2. FilterKey(Header(p)) = AnswerKey(step) <=> step # 2
      BY <2>3, <2>4, <3>1
    <3>3. QED
      BY <1>7, <2>2, <2>7, <3>2 DEF Hears
  <2>8. CASE mConfig.mFilteringBehavior = "AddressPortDependent"
    <3>1. /\ FilterKey(Header(p)) = <<AnsweredFrom.ip, AnsweredFrom.port, ip, port>>
          /\ AnswerKey(step) = <<ServerAIP, ServerPort1, ip, port>>
      BY <1>4, <1>5, <2>1, <2>8 DEF IncommingPk
    <3>2. FilterKey(Header(p)) = AnswerKey(step) <=> step = 1
      BY <2>3, <2>4, <3>1
    <3>3. QED
      BY <1>7, <2>2, <2>8, <3>2 DEF Hears
  <2>9. QED
    BY <2>5, <2>6, <2>7, <2>8
<1>8. QED
  BY <1>6, <1>7 DEF Meant

\* Calls fail one by one.
LEMMA FailsCount ==
  ASSUME SessionTypeOK, CountInv, [SessionNext]_allVars
  PROVE  fails' \in Nat /\ (AllUp' => AllUp /\ fails' = fails)
<1>1. fails' = fails \/ fails' = fails + 1
  <2>1. CASE ClientStep
    BY <2>1 DEF ClientStep, StartParts, ServerStart, Ask, AskDeaf, Retry, Answered, Unanswered, CreateFails,
       Receive, ThreadFails, LifetimeThreadFails, OverloadingThreadFails, SleepTick, Wake, StopParts,
       Joined, Fail, othersVars
  <2>2. CASE ServerStep
    BY <2>2 DEF ServerStep, ServerBegins, ServerLeaves, Fail
  <2>3. CASE \E p \in net : Carry(p) \/ Lose(p)
    BY <2>3 DEF Carry, Lose, Outgoing, Incomming, Serve, Unheard, Deliver, othersVars
  <2>4. QED
    BY <2>1, <2>2, <2>3 DEF SessionNext, allVars, sessionVars
<1>2. fails \in Nat
  BY DEF CountInv
<1>3. QED
  BY <1>1, <1>2 DEF AllUp

\* A session is for one test and one configuration.
LEMMA ConfigStays ==
  ASSUME [SessionNext]_allVars
  PROVE  UNCHANGED <<mConfig, test>>
<1>1. CASE ClientStep
  BY <1>1 DEF ClientStep, StartParts, Start, Ask, AskDeaf, SendFirst, Retry, Answered, Unanswered, Conclude,
     CreateFails, Receive, ThreadFails, SleepTick, Tick, Wake, StopParts, Stop, Joined, vars
<1>2. CASE ServerStep
  BY <1>2 DEF ServerStep, ServerBegins, ServerLeaves, vars, clientVars
<1>3. ASSUME NEW p \in net, Outgoing(p) PROVE UNCHANGED <<mConfig, test>>
  BY <1>3 DEF Outgoing, TreatOutgoingPacket, OutgoingExpire, Expire, OutgoingRefresh, BindSamePort,
     BindOverloaded, BindFirstAvailable, Bind, OutgoingDrop, clientVars
<1>4. ASSUME NEW p \in net, Incomming(p) PROVE UNCHANGED <<mConfig, test>>
  BY <1>4 DEF Incomming, TreatIncommingPacket, IncommingExpire, Expire, IncommingForward,
     IncommingForwardUnbound, IncommingDrop, clientVars
<1>5. CASE \E p \in net : Serve(p) \/ Unheard(p) \/ Deliver(p) \/ Lose(p)
  BY <1>5 DEF Serve, Unheard, Deliver, Lose, vars, clientVars
<1>6. QED
  BY <1>1, <1>2, <1>3, <1>4, <1>5 DEF SessionNext, Carry, allVars, vars, sessionVars

\* A request that is answered by one that gets through is only repeated after a loss,
\* so that it is not given up while no more than two packets were lost.
LEMMA GivenUp ==
  ASSUME ~Late, MaxLost <= 2, SessionTypeOK, CountInv, Meant, AllUp, Unanswered
  PROVE  ~Hears
<1>1. phase = "wait" /\ net = {} /\ mRcvQueue[Slot] = <<>> /\ retries = 3
  BY WaitedOut DEF Unanswered
<1>2. Slot = "P"
  BY DEF Meant, Slot
<1>3. MaxLost \in Nat /\ lost \in 0 .. MaxLost
  BY <1>1, SessionConstants DEF CountInv
<1>4. Hears => retries <= lost
  BY <1>1, <1>2, <1>3 DEF CountInv
<1>5. QED
  BY <1>1, <1>3, <1>4

\* NATReq8 goes on to its third request only if the second was not answered.
LEMMA FilteringConcludes ==
  ASSUME SessionTypeOK, test = "filtering", phase = "wait", NEW msg, Conclude(msg),
         msg # Failed => Answers \subseteq DOMAIN msg.attrs
  PROVE  \/ Go /\ (step = 1 \/ (step = 2 /\ msg = Failed))
         \/ step = 2 /\ msg # Failed /\ Finish({"AddressIndependent"})
         \/ step = 3 /\ msg # Failed /\ Finish({"AddressDependent"})
         \/ step = 3 /\ msg = Failed /\ Finish({"AddressPortDependent"})
<1>1. step \in {1, 2, 3}
  BY LastType DEF SessionTypeOK, ClientType, Asks
<1>2. Filtering(msg)
  BY DEF Conclude
<1>3. CASE step = 1
  <2>1. ~(msg # Failed /\ CHANGED_ADDRESS \notin DOMAIN msg.attrs)
    BY DEF Answers
  <2>2. Go
    BY <1>2, <1>3, <2>1 DEF Filtering
  <2>3. QED
    BY <1>3, <2>2
<1>4. CASE step = 2
  BY <1>2, <1>4 DEF Filtering
<1>5. CASE step = 3
  <2>1. CASE msg = Failed
    BY <1>2, <1>5, <2>1 DEF Filtering
  <2>2. CASE msg # Failed
    BY <1>2, <1>5, <2>2 DEF Filtering
  <2>3. QED
    BY <2>1, <2>2
<1>6. QED
  BY <1>1, <1>3, <1>4, <1>5

\* What is in the queue has come through the filter.
LEMMA TakenHeard ==
  ASSUME SessionTypeOK, CountInv, Meant, AllUp, Answered
  PROVE  Hears
<1>1. phase = "wait" /\ mRcvQueue["P"] # <<>>
  BY DEF Answered, SessionTypeOK, ClientType, Requested, Meant, Slot
<1>2. QED
  BY <1>1 DEF CountInv

\* Concluding: the transaction goes on to capture, for a third request of NATReq8
\* behind a filter that has let the second's answer down.
LEMMA ConcludeCount ==
  ASSUME ~Late, MaxLost <= 2, SessionTypeOK, CountInv, Answered \/ Unanswered
  PROVE  CountInv'
<1>1. UNCHANGED <<mConfig, test, server, fails>> /\ fails \in Nat /\ phase = "wait"
  BY DEF Answered, Unanswered, Conclude, CountInv, vars
<1>2. PICK msg : /\ Conclude(msg)
                 /\ msg # Failed => Answers \subseteq DOMAIN msg.attrs
                 /\ msg = Failed => Unanswered
  <2>1. CASE Unanswered
    BY <2>1 DEF Unanswered
  <2>2. CASE Answered
    <3>1. PICK w : w = Head(mRcvQueue[request.slot])
      OBVIOUS
    <3>2. Conclude(decode(w)) /\ mRcvQueue[request.slot] # <<>>
      BY <2>2, <3>1 DEF Answered
    <3>3. mRcvQueue[request.slot] \in Seq(AnswerWires)
      BY <1>1 DEF SessionTypeOK, ClientType, NetType, Requested, Slot, Slots
    <3>4. w \in AnswerWires
      BY <3>1, <3>2, <3>3
    <3>5. QED
      BY <3>2, <3>4, AnswerFacts
  <2>3. QED
    BY <2>1, <2>2
<1>3. /\ \/ phase' = "ended" /\ step' = step
         \/ phase' = "ask" /\ step' = step + 1
         \/ phase' = "sleep"
      /\ step \in Nat /\ step > 0
  <2>1. step \in 1 .. Last /\ Last \in 1 .. MaxStep /\ MaxStep \in Nat
    BY <1>1, LastType, SessionConstants DEF SessionTypeOK, ClientType, Asks
  <2>2. QED
    BY <1>1, <1>2, <2>1, ConcludeMoves DEF SessionTypeOK
<1>4. CASE ~(Meant /\ AllUp /\ phase' = "ask")
  BY <1>1, <1>3, <1>4, SameFlows DEF CountInv, AllUp, Asks
<1>5. CASE Meant /\ AllUp /\ phase' = "ask"
  <2>1. server \in {"created", "loop"} /\ me["P"] = Opened
    BY <1>1, <1>5 DEF CountInv, Asks
  <2>2. me' = me
    <3>1. CASE test = "filtering"
      <4>1. Go
        BY <1>1, <1>2, <1>5, <3>1, FilteringConcludes DEF Finish
      <4>2. QED
        BY <3>1, <4>1 DEF Go
    <3>2. CASE test = "mapping"
      <4>1. Mapping(msg) /\ step \in {1, 2, 3}
        BY <1>1, <1>2, <3>2, LastType DEF Conclude, SessionTypeOK, ClientType, Asks
      <4>2. \A found : ~Finish(found)
        BY <1>5 DEF Finish
      <4>3. Go
        <5>1. CASE msg = Failed \/ ~(Answers \subseteq DOMAIN msg.attrs)
          BY <4>1, <4>2, <5>1 DEF Mapping
        <5>2. CASE ~(msg = Failed \/ ~(Answers \subseteq DOMAIN msg.attrs)) /\ step = 1
          BY <4>1, <4>2, <5>2 DEF Mapping
        <5>3. CASE ~(msg = Failed \/ ~(Answers \subseteq DOMAIN msg.attrs)) /\ step = 2
          BY <4>1, <4>2, <5>3 DEF Mapping
        <5>4. CASE ~(msg = Failed \/ ~(Answers \subseteq DOMAIN msg.attrs)) /\ step = 3
          BY <4>1, <4>2, <5>4 DEF Mapping
        <5>5. QED
          BY <4>1, <5>1, <5>2, <5>3, <5>4
      <4>4. QED
        BY <3>2, <4>3 DEF Go
    <3>3. QED
      BY <1>5, <3>1, <3>2 DEF Meant
  <2>3. test = "filtering" /\ step' = 3 => mConfig.mFilteringBehavior # "AddressIndependent"
    <3> SUFFICES ASSUME test = "filtering", step' = 3
                 PROVE  mConfig.mFilteringBehavior # "AddressIndependent"
      OBVIOUS
    <3>1. step = 2
      BY <1>3, <1>5
    <3>2. msg = Failed
      BY <1>1, <1>2, <1>5, <3>1, FilteringConcludes DEF Finish
    <3>3. ~Hears
      BY <1>2, <1>5, <3>2, GivenUp
    <3>4. QED
      BY <3>3 DEF Hears
  <2>4. QED
    BY <1>1, <1>3, <1>5, <2>1, <2>2, <2>3 DEF CountInv, AllUp, Asks
<1>6. QED
  BY <1>4, <1>5

\* A test that has ended, or is about something else, counts nothing.
LEMMA OtherCount ==
  ASSUME SessionTypeOK, CountInv, [SessionNext]_allVars,
         phase' \notin {"start", "ask", "wait"} \/ test \notin {"mapping", "filtering"}
  PROVE  CountInv'
<1>1. fails' \in Nat
  BY FailsCount
<1>2. test' = test
  BY ConfigStays
<1>3. QED
  BY <1>1, <1>2 DEF CountInv, Meant, Asks

\* The parts are started, and the server's thread is created unless something failed.
LEMMA StartCount ==
  ASSUME SessionTypeOK, CountInv, [SessionNext]_allVars, StartParts
  PROVE  CountInv'
<1>1. fails' \in Nat /\ fails \in Nat /\ (AllUp' => fails' = fails) /\ test' = test
  BY FailsCount, ConfigStays DEF CountInv
<1>2. /\ phase = "start" /\ phase' = "ask" /\ step' = 1 /\ me' = me /\ ServerStart
  BY DEF StartParts
<1>3. AllUp' => server' = "created"
  BY <1>1, <1>2 DEF ServerStart, Fail
<1>4. test \in {"mapping", "filtering"} => me'["P"] = NoAddress
  BY <1>2 DEF CountInv
<1>5. QED
  BY <1>1, <1>2, <1>3, <1>4 DEF CountInv, Asks

\* The first sending: the capture for the test's endpoint runs.
LEMMA AskCount ==
  ASSUME SessionTypeOK, OneRequest, MeantInv, CountInv, [SessionNext]_allVars, Ask \/ AskDeaf
  PROVE  CountInv'
<1>1. /\ fails' \in Nat /\ fails \in Nat /\ (AllUp' => AllUp /\ fails' = fails)
      /\ UNCHANGED <<mConfig, test>> /\ Meant' = Meant
  BY FailsCount, ConfigStays, SameFlows DEF CountInv
<1>2. /\ phase = "ask" /\ phase' = "wait" /\ UNCHANGED <<step, server>>
      /\ retries' = 1 /\ lost' = 0 /\ net' = net \cup {Datagram(From, To, Wire)}
      /\ mRcvQueue' = mRcvQueue \/ mRcvQueue' = [s \in Slots |-> <<>>]
  BY DEF Ask, AskDeaf, SendFirst
<1> SUFFICES ASSUME Meant, AllUp' PROVE CountInv'
  BY <1>1, <1>2 DEF CountInv
<1>3. ~AskDeaf
  BY <1>1 DEF AskDeaf, Fail
<1>4. net = {} /\ mRcvQueue'["P"] = <<>>
  BY <1>2 DEF OneRequest, Slots
<1>5. From = Opened /\ Slot = "P" /\ step \in 1 .. 3 /\ To = Address(FlowTo(step).dst, FlowTo(step).dport)
  BY <1>2, FlowRequest DEF MeantInv, Asks
<1>6. server \in {"created", "loop"} /\ (step # 1 => me["P"] = Opened)
  BY <1>1, <1>2 DEF CountInv, Asks
<1>7. me'["P"] = Opened
  <2>1. Creates <=> step = 1
    BY <1>5 DEF Creates, Meant
  <2>2. me' = IF Creates THEN [me EXCEPT ![Slot] = From] ELSE me
    BY <1>3 DEF Ask
  <2>3. me \in [Slots -> ClientAddress \cup {NoAddress}] /\ "P" \in Slots
    BY DEF SessionTypeOK, ClientType, Slots
  <2>4. QED
    BY <1>5, <1>6, <2>1, <2>2, <2>3
<1>8. PICK p : p = Datagram(From, To, Wire)
  OBVIOUS
<1>9. net' = {p} /\ p.dst \notin PrivateIPs
  <2>1. p.dst = FlowTo(step).dst
    BY <1>5, <1>8 DEF Datagram, Address
  <2>2. QED
    BY <1>2, <1>4, <1>8, <2>1, FlowFacts, AddressAssumption
<1>10. test = "filtering" /\ step = 3 => mConfig.mFilteringBehavior # "AddressIndependent"
  BY <1>1, <1>2 DEF CountInv, Asks
<1>11. 0 \in 0 .. MaxLost
  BY SessionConstants
<1>12. QED
  BY <1>1, <1>2, <1>4, <1>6, <1>7, <1>9, <1>10, <1>11 DEF CountInv, Asks

\* The request is repeated when it, or an answer that gets through, was lost.
LEMMA RetryCount ==
  ASSUME ~Late, SessionTypeOK, MeantInv, CountInv, [SessionNext]_allVars, Retry
  PROVE  CountInv'
<1>1. /\ fails' \in Nat /\ (AllUp' => AllUp) /\ UNCHANGED <<mConfig, test>> /\ Meant' = Meant
  BY FailsCount, ConfigStays, SameFlows
<1>2. /\ phase = "wait" /\ phase' = "wait" /\ UNCHANGED <<step, server, me, lost, mRcvQueue>>
      /\ retries' = retries + 1
      /\ net = {} /\ net' = {Datagram(From, request.to, request.wire)} /\ mRcvQueue[Slot] = <<>>
  BY WaitedOut DEF Retry, othersVars
<1> SUFFICES ASSUME Meant, AllUp PROVE CountInv'
  BY <1>1, <1>2 DEF CountInv
<1>3. Slot = "P" /\ step \in 1 .. 3 /\ To = Address(FlowTo(step).dst, FlowTo(step).dport)
  BY <1>2, FlowRequest DEF MeantInv, Asks
<1>4. request.to = To
  BY <1>2 DEF SessionTypeOK, ClientType, Requested
<1>5. PICK p : p = Datagram(From, request.to, request.wire)
  OBVIOUS
<1>6. net' = {p} /\ p.dst \notin PrivateIPs
  <2>1. p.dst = FlowTo(step).dst
    BY <1>3, <1>4, <1>5 DEF Datagram, Address
  <2>2. QED
    BY <1>2, <1>5, <2>1, FlowFacts, AddressAssumption
<1>7. /\ server \in {"created", "loop"} /\ me["P"] = Opened
      /\ retries \in Nat /\ lost \in 0 .. MaxLost
      /\ (Hears => retries <= lost)
      /\ test = "filtering" /\ step = 3 => mConfig.mFilteringBehavior # "AddressIndependent"
  BY <1>2, <1>3 DEF CountInv, Asks
<1>8. Hears' = Hears
  BY <1>1, <1>2 DEF Hears
<1>9. /\ retries' \in Nat /\ lost' \in 0 .. MaxLost
      /\ Hears' => retries' <= lost' + 1
  BY <1>2, <1>7, <1>8, SessionConstants
<1>10. QED
  BY <1>1, <1>2, <1>3, <1>6, <1>7, <1>9 DEF CountInv, Asks

\* No other step of the client or the server counts.
LEMMA ClientCount ==
  ASSUME ~Late, MaxLost <= 2, SessionTypeOK, OneRequest, MeantInv, CountInv, ClientStep
  PROVE  CountInv'
<1>1. SessionNext
  BY DEF SessionNext
<1>2. CASE StartParts
  BY <1>1, <1>2, StartCount
<1>3. CASE Ask \/ AskDeaf
  BY <1>1, <1>3, AskCount
<1>4. CASE Retry
  BY <1>1, <1>4, RetryCount
<1>5. CASE Answered \/ Unanswered
  BY <1>5, ConcludeCount
<1>6. CASE CreateFails \/ ThreadFails \/ Receive \/ SleepTick \/ Wake
  <2> SUFFICES ASSUME test \in {"mapping", "filtering"} PROVE CountInv'
    BY <1>1, OtherCount
  <2>1. phase # "sleep"
    BY DEF SessionTypeOK, ClientType
  <2>2. CreateFails
    BY <1>6, <2>1 DEF ThreadFails, LifetimeThreadFails, OverloadingThreadFails, Receive, SleepTick, Wake
  <2>3. phase' = "ended"
    BY <2>2 DEF CreateFails, Finish
  <2>4. QED
    BY <1>1, <2>3, OtherCount
<1>7. CASE StopParts \/ Joined
  <2>1. phase' \in {"join", "over"}
    BY <1>7 DEF StopParts, Joined
  <2>2. QED
    BY <1>1, <2>1, OtherCount
<1>8. QED
  BY <1>2, <1>3, <1>4, <1>5, <1>6, <1>7 DEF ClientStep

\* Nor does the server, which comes up unless something failed.
LEMMA ServerCount ==
  ASSUME SessionTypeOK, CountInv, ServerStep \/ UNCHANGED allVars
  PROVE  CountInv'
<1>1. [SessionNext]_allVars
  BY DEF SessionNext
<1>2. /\ fails' \in Nat /\ fails \in Nat /\ (AllUp' => AllUp /\ fails' = fails)
      /\ UNCHANGED <<mConfig, test>> /\ Meant' = Meant
  BY <1>1, FailsCount, ConfigStays, SameFlows DEF CountInv
<1>3. UNCHANGED <<step, phase, me, retries, lost, mRcvQueue, net>>
  BY DEF ServerStep, ServerBegins, ServerLeaves, clientVars, allVars, sessionVars
<1>4. AllUp' /\ Asks => server' = server \/ server' = "loop"
  BY <1>2 DEF ServerStep, ServerBegins, ServerLeaves, mTerminate, Asks, Fail, allVars, sessionVars
<1>5. Hears' = Hears
  BY <1>2, <1>3 DEF Hears
<1>6. Asks' = Asks /\ (AllUp' => AllUp)
  BY <1>2, <1>3 DEF Asks
<1>7. QED
  BY <1>2, <1>3, <1>4, <1>5, <1>6 DEF CountInv

\* A packet that is carried: an answer that gets through arrives, and what does not
\* arrive although it gets through was counted as lost.
LEMMA CarryCount ==
  ASSUME MaxPort >= 3, SessionTypeOK, IInv, OneRequest, MeantInv, CountInv,
         NEW p \in net, Carry(p) \/ Lose(p)
  PROVE  CountInv'
<1>1. SessionNext
  BY DEF SessionNext
<1>2. /\ fails' \in Nat /\ (AllUp' => AllUp) /\ UNCHANGED <<mConfig, test>> /\ Meant' = Meant
  BY <1>1, FailsCount, ConfigStays, SameFlows
<1>3. UNCHANGED <<step, phase, me, retries, server>>
  <2>1. UNCHANGED clientVars
    BY OnTheWay
  <2>2. UNCHANGED server
    BY DEF Carry, Outgoing, Incomming, Serve, Unheard, Deliver, Lose, othersVars
  <2>3. QED
    BY <2>1, <2>2 DEF clientVars
<1>4. CASE ~(Meant /\ AllUp /\ phase = "wait")
  BY <1>2, <1>3, <1>4 DEF CountInv, Asks
<1>5. CASE Meant /\ AllUp /\ phase = "wait"
  <2>1. /\ net = {p} /\ mRcvQueue["P"] = <<>> /\ step \in 1 .. 3 /\ NatReady /\ OnWay(p)
    BY <1>5, MeantWait
  <2>2. /\ server \in {"created", "loop"} /\ me["P"] = Opened
        /\ retries \in Nat /\ lost \in 0 .. MaxLost /\ MaxLost \in Nat
        /\ (Hears => retries <= lost + 1)
        /\ (~Hears => p.dst \notin PrivateIPs)
        /\ test = "filtering" /\ step = 3 => mConfig.mFilteringBehavior # "AddressIndependent"
    BY <1>5, <2>1, SessionConstants DEF CountInv, Asks
  <2>3. Hears' = Hears
    BY <1>2, <1>3 DEF Hears
  <2>4. /\ lost' \in 0 .. MaxLost
        /\ Hears => retries <= lost' + (IF net' = {} /\ mRcvQueue'["P"] = <<>> THEN 0 ELSE 1)
        /\ ~Hears => mRcvQueue'["P"] = <<>> /\ \A q \in net' : q.dst \notin PrivateIPs
    <3>1. CASE Outgoing(p) \/ Serve(p)
      <4>1. net' # {} /\ \A q \in net' : q.dst \notin PrivateIPs
        BY <1>5, <3>1, OutgoingMeant, ServeMeant
      <4>2. lost' = lost /\ mRcvQueue' = mRcvQueue
        BY <3>1 DEF Outgoing, Serve, othersVars
      <4>3. QED
        BY <2>1, <2>2, <4>1, <4>2
    <3>2. CASE Incomming(p)
      <4>1. net' # {} <=> Hears
        <5>1. TypeOK /\ p.src \in PublicIPs /\ p.dst \in NatIPs
          BY <3>2 DEF Incomming, SessionTypeOK
        <5>2. QED
          BY <1>5, <2>1, <3>2, <5>1, IncommingMeant, HearsKey
      <4>2. lost' = lost /\ mRcvQueue' = mRcvQueue
        BY <3>2 DEF Incomming, othersVars
      <4>3. QED
        BY <2>1, <2>2, <4>1, <4>2
    <3>3. CASE Deliver(p)
      <4>1. p.dst \in PrivateIPs /\ p.dst \notin NatIPs
        BY <3>3, AddressAssumption DEF Deliver
      <4>2. Hears /\ p.dst = ClientA /\ p.dport = SourcePort
        BY <2>1, <2>2, <4>1 DEF OnWay
      <4>3. lost' = lost
        BY <3>3 DEF Deliver
      <4>4. mRcvQueue'["P"] = Append(mRcvQueue["P"], p.wire)
        BY <2>2, <3>3, <4>2 DEF Deliver, Slots, Opened
      <4>5. mRcvQueue'["P"] # <<>>
        BY <2>1, <4>4
      <4>6. QED
        BY <2>2, <4>2, <4>3, <4>5
    <3>4. CASE Unheard(p) \/ Lose(p)
      <4>1. lost < MaxLost /\ lost' = lost + 1 /\ net' = net \ {p} /\ mRcvQueue' = mRcvQueue
        BY <2>2, <3>4 DEF Unheard, Lose
      <4>2. net' = {} /\ mRcvQueue'["P"] = <<>>
        BY <2>1, <4>1
      <4>3. lost' \in 0 .. MaxLost /\ (Hears => retries <= lost')
        BY <2>2, <4>1
      <4>4. (IF net' = {} /\ mRcvQueue'["P"] = <<>> THEN 0 ELSE 1) = 0
        BY <4>2
      <4>5. lost' \in Int
        BY <4>3
      <4>6. Hears => retries <= lost' + 0
        BY <4>3, <4>5
      <4>7. QED
        BY <4>2, <4>3, <4>4, <4>6
    <3>5. QED
      BY <3>1, <3>2, <3>3, <3>4 DEF Carry
  <2>5. QED
    BY <1>2, <1>3, <1>5, <2>2, <2>3, <2>4 DEF CountInv, Asks
<1>6. QED
  BY <1>4, <1>5

\* A session starts with no capture.
LEMMA CountInit == SessionInit => CountInv
BY DEF SessionInit, CountInv, Asks, Slots

\* Every step keeps the count of what was sent and lost.
LEMMA CountStep ==
  ASSUME ~Late, MaxLost <= 2, MaxPort >= 3, SessionTypeOK, IInv, OneRequest, MeantInv, CountInv,
         [SessionNext]_allVars
  PROVE  CountInv'
<1>1. CASE ServerStep \/ UNCHANGED allVars
  BY <1>1, ServerCount
<1>2. CASE ClientStep
  BY <1>2, ClientCount
<1>3. CASE \E p \in net : Carry(p) \/ Lose(p)
  BY <1>3, CarryCount
<1>4. QED
  BY <1>1, <1>2, <1>3 DEF SessionNext

\* How a test of the mapping or the filtering behaviour comes to its end.
LEMMA EndsBy ==
  ASSUME SessionTypeOK, [SessionNext]_allVars, test \in {"mapping", "filtering"}, phase' = "ended"
  PROVE  \/ phase = "ended" /\ report' = report
         \/ Answered
         \/ Unanswered
         \/ CreateFails
<1>1. CASE ServerStep \/ UNCHANGED allVars
  BY <1>1 DEF ServerStep, ServerBegins, ServerLeaves, clientVars, allVars, sessionVars
<1>2. CASE \E p \in net : Carry(p) \/ Lose(p)
  <2>1. UNCHANGED clientVars
    BY <1>2, OnTheWay
  <2>2. QED
    BY <2>1 DEF clientVars
<1>3. CASE ClientStep
  <2>1. phase # "sleep"
    BY DEF SessionTypeOK, ClientType
  <2>2. ~(StartParts \/ Ask \/ AskDeaf \/ Retry)
    BY DEF StartParts, Ask, AskDeaf, SendFirst, Retry
  <2>3. ~(Receive \/ ThreadFails \/ SleepTick \/ Wake \/ StopParts \/ Joined)
    BY <2>1 DEF Receive, ThreadFails, LifetimeThreadFails, OverloadingThreadFails, SleepTick, Wake,
       StopParts, Joined
  <2>4. QED
    BY <1>3, <2>2, <2>3 DEF ClientStep
<1>4. QED
  BY <1>1, <1>2, <1>3 DEF SessionNext

\* A Create that fails is a call that fails: no capture of theirs runs yet.
LEMMA UncreatedCount ==
  ASSUME SessionTypeOK, CountInv, Meant, CreateFails
  PROVE  ~AllUp' /\ Finish({})
<1>1. phase = "ask" /\ step \in 1 .. 3 /\ test \in {"mapping", "filtering"} /\ Creates
  BY LastType DEF CreateFails, SessionTypeOK, ClientType, Asks, Meant
<1>2. Slot = "P" /\ step = 1
  BY <1>1 DEF Slot, Creates
<1>3. me[Slot] = NoAddress /\ fails \in Nat
  BY <1>1, <1>2 DEF CountInv
<1>4. fails' = fails + 1
  BY <1>3 DEF CreateFails, Fail
<1>5. QED
  BY <1>1, <1>3, <1>4 DEF CreateFails, AllUp

\* The message that is taken from the queue.
LEMMA TakenMessage ==
  ASSUME SessionTypeOK, MeantInv, Meant, Answered
  PROVE  \E w \in AnswerWires : Conclude(decode(w)) /\ Tells(w) /\ Bound(step)
<1>1. PICK w : w = Head(mRcvQueue["P"])
  OBVIOUS
<1>2. phase = "wait" /\ mRcvQueue["P"] # <<>> /\ Conclude(decode(w))
  BY <1>1 DEF Answered, SessionTypeOK, ClientType, Requested, Meant, Slot
<1>3. mRcvQueue["P"] \in Seq(AnswerWires)
  BY DEF SessionTypeOK, NetType, Slots
<1>4. w \in AnswerWires /\ w = mRcvQueue["P"][1] /\ 1 \in 1 .. Len(mRcvQueue["P"])
  BY <1>1, <1>2, <1>3
<1>5. QED
  BY <1>2, <1>4 DEF MeantInv

\* NATReq1 ends with what the configuration says, or with nothing when a part failed.
LEMMA MappingStep ==
  ASSUME ~Late, MaxLost <= 2, SessionTypeOK, IInv, MeantInv, CountInv, MappingVerdict,
         [SessionNext]_allVars
  PROVE  MappingVerdict'
<1>1. UNCHANGED <<mConfig, test>> /\ (AllUp' => AllUp) /\ Meant' = Meant
  BY ConfigStays, FailsCount, SameFlows
<1> SUFFICES ASSUME phase' = "ended", test = "mapping", Meant, ~mConfig.mPortOverloading,
                    mConfig.mMappingBehavior # "NotNated"
             PROVE  report' = {mConfig.mMappingBehavior} \/ (report' = {} /\ ~AllUp')
  BY <1>1 DEF MappingVerdict, Ended, Meant
<1>2. CASE phase = "ended" /\ report' = report
  BY <1>1, <1>2 DEF MappingVerdict, Ended
<1>3. CASE Answered
  <2>1. PICK w \in AnswerWires : Conclude(decode(w)) /\ Tells(w) /\ Bound(step)
    BY <1>3, TakenMessage
  <2>2. phase = "wait" /\ Learnt /\ BindingExclusive
    BY <1>3 DEF Answered, MeantInv, Asks, IInv
  <2>3. \/ step \in {1, 2} /\ Go
        \/ Finish({mConfig.mMappingBehavior})
    BY <2>1, <2>2, MappingConcludes
  <2>4. ~Go
    BY DEF Go, Proceed
  <2>5. QED
    BY <2>3, <2>4 DEF Finish
<1>4. CASE Unanswered
  <2>1. Finish({})
    BY <1>4 DEF Unanswered, Conclude, Mapping
  <2>2. fails' = fails
    BY <1>4 DEF Unanswered
  <2>3. ~AllUp
    BY <1>4, GivenUp DEF Hears
  <2>4. QED
    BY <2>1, <2>2, <2>3 DEF Finish, AllUp
<1>5. CASE CreateFails
  BY <1>5, UncreatedCount DEF Finish
<1>6. QED
  BY <1>2, <1>3, <1>4, <1>5, EndsBy

\* NATReq8 ends with what the configuration says, when every part came up.
LEMMA FilteringStep ==
  ASSUME ~Late, MaxLost <= 2, SessionTypeOK, IInv, MeantInv, CountInv, FilteringVerdict,
         [SessionNext]_allVars
  PROVE  FilteringVerdict'
<1>1. UNCHANGED <<mConfig, test>> /\ (AllUp' => AllUp) /\ Meant' = Meant
  BY ConfigStays, FailsCount, SameFlows
<1> SUFFICES ASSUME phase' = "ended", test = "filtering", Meant, AllUp',
                    mConfig.mMappingBehavior # "NotNated"
             PROVE  report' = {mConfig.mFilteringBehavior}
  BY <1>1 DEF FilteringVerdict, Ended, Meant
<1>2. AllUp /\ mConfig.mFilteringBehavior \in {"AddressIndependent", "AddressDependent", "AddressPortDependent"}
  BY <1>1, ConstantTypes DEF SessionTypeOK, TypeOK, Config, Filterings
<1>3. CASE phase = "ended" /\ report' = report
  BY <1>2, <1>3 DEF FilteringVerdict, Ended
<1>4. ~Go
  BY DEF Go, Proceed
<1>5. CASE Answered
  <2>1. PICK w \in AnswerWires : Conclude(decode(w))
    BY <1>5, TakenMessage
  <2>2. PICK msg : msg = decode(w)
    OBVIOUS
  <2>3. Conclude(msg) /\ msg # Failed /\ Answers \subseteq DOMAIN msg.attrs
    BY <2>1, <2>2, AnswerFacts
  <2>4. phase = "wait" /\ Hears
    BY <1>2, <1>5, TakenHeard DEF Answered
  <2>5. \/ step = 2 /\ Finish({"AddressIndependent"})
        \/ step = 3 /\ Finish({"AddressDependent"})
    BY <1>4, <2>3, <2>4, FilteringConcludes
  <2>6. step = 3 => mConfig.mFilteringBehavior # "AddressIndependent"
    BY <1>2, <2>4 DEF CountInv, Asks
  <2>7. QED
    BY <2>4, <2>5, <2>6 DEF Hears, Finish
<1>6. CASE Unanswered
  <2>1. phase = "wait" /\ Conclude(Failed)
    BY <1>6 DEF Unanswered
  <2>2. step = 3 /\ Finish({"AddressPortDependent"})
    BY <1>4, <2>1, FilteringConcludes
  <2>3. ~Hears
    BY <1>2, <1>6, GivenUp
  <2>4. QED
    BY <1>2, <2>2, <2>3 DEF Hears, Finish
<1>7. CASE CreateFails
  BY <1>7, UncreatedCount
<1>8. QED
  BY <1>3, <1>5, <1>6, <1>7, EndsBy

\* A session starts without a verdict.
LEMMA VerdictInit == SessionInit => MappingVerdict /\ FilteringVerdict
BY DEF SessionInit, MappingVerdict, FilteringVerdict, Ended

\* What holds while a test of the mapping or the filtering behaviour goes on, in a
\* network that is not slow and loses no more than two packets of a transaction
\* (SendAndReceive sends three times), for a NAT with at least three ports to bind.
THEOREM FlowsKnown ==
  ~Late /\ MaxLost <= 2 /\ MaxPort >= 3 => (SessionSpec => [](MeantInv /\ CountInv))
<1> SUFFICES ASSUME ~Late, MaxLost <= 2, MaxPort >= 3
             PROVE  SessionSpec => [](MeantInv /\ CountInv)
  OBVIOUS
<1>1. SessionInit => OneRequest /\ MeantInv /\ CountInv
  BY OneInit, MeantInit, CountInit
<1>2. SessionTypeOK /\ IInv /\ OneRequest /\ MeantInv /\ CountInv /\ [SessionNext]_allVars
        => OneRequest' /\ MeantInv' /\ CountInv'
  BY OneStep, MeantStep, CountStep
<1>3. QED
  BY <1>1, <1>2, SessionTypesCorrect, SessionBindings, PTL DEF SessionSpec

\* NATReq1 finds the mapping behaviour the NAT was configured with, over three flows
\* that are bound while the test goes on, whatever is lost and repeated, and whatever
\* the filter, the address assignment and the port policy are; with a part missing it
\* finds that or nothing.
THEOREM MappingFound ==
  ~Late /\ MaxLost <= 2 /\ MaxPort >= 3 => (SessionSpec => []MappingVerdict)
<1> SUFFICES ASSUME ~Late, MaxLost <= 2, MaxPort >= 3 PROVE SessionSpec => []MappingVerdict
  OBVIOUS
<1>1. SessionTypeOK /\ IInv /\ MeantInv /\ CountInv /\ MappingVerdict /\ [SessionNext]_allVars
        => MappingVerdict'
  BY MappingStep
<1>2. SessionSpec => [](MeantInv /\ CountInv)
  BY FlowsKnown
<1>3. QED
  BY <1>1, <1>2, VerdictInit, SessionTypesCorrect, SessionBindings, PTL DEF SessionSpec

\* NATReq8 finds the filtering behaviour the NAT was configured with: a request is
\* given up, and its answer taken for filtered, only if the filter stops it.
THEOREM FilteringFound ==
  ~Late /\ MaxLost <= 2 /\ MaxPort >= 3 => (SessionSpec => []FilteringVerdict)
<1> SUFFICES ASSUME ~Late, MaxLost <= 2, MaxPort >= 3 PROVE SessionSpec => []FilteringVerdict
  OBVIOUS
<1>1. SessionTypeOK /\ IInv /\ MeantInv /\ CountInv /\ FilteringVerdict /\ [SessionNext]_allVars
        => FilteringVerdict'
  BY FilteringStep
<1>2. SessionSpec => [](MeantInv /\ CountInv)
  BY FlowsKnown
<1>3. QED
  BY <1>1, <1>2, VerdictInit, SessionTypesCorrect, SessionBindings, PTL DEF SessionSpec

-----------------------------------------------------------------------------
(* NATReq2: the addresses of a NAT that pairs them.                         *)

\* NATReq2's k-th packet, and the address on which the NAT pairs the clients' addresses.
PortTo(k) == [src |-> ClientA, sport |-> SourcePort + k - 1, dst |-> ServerAIP, dport |-> ServerPort1]
FirstIP   == NATPublicIPs[1]

\* An answer tells the first address.
TellsFirst(w) == Learned(decode(w), MAPPED_ADDRESS).ip = FirstIP

\* A NAT that pairs addresses never leaves the first one, for it has a port for every
\* request: the one asked for, or another.
PairedReady ==
  /\ DOMAIN mAvailablePorts = NatIPs
  /\ \A o \in DOMAIN mOutgoingTable : mOutgoingTable[o].age = 0 /\ mOutgoingTable[o].ip = FirstIP
  /\ \A o \in DOMAIN mOutgoingTable : \E k \in 1 .. step : o = KeyOf(PortTo(k))
  /\ SamePort => \A q \in mAvailablePorts[FirstIP] :
                   \E k \in 1 .. step : q = SourcePort + k - 1 /\ KeyOf(PortTo(k)) \in DOMAIN mOutgoingTable

PairedWay(p) ==
  /\ p.src \in PrivateIPs => \E k \in 1 .. step : Header(p) = PortTo(k)
  /\ p.src \in NatIPs => p.src = FirstIP
  /\ p.src \in PublicIPs => TellsFirst(p.wire)

PairedMeant == test = "pooling" /\ mConfig.mIPAssignMode = "Paired"

PairedInv ==
  PairedMeant =>
    /\ phase = "start" =>
         /\ \A t \in Threads : mThread[t] = "none"
         /\ net = {} /\ \A s \in Slots : mRcvQueue[s] = <<>>
         /\ \A k \in 1 .. MaxStep : mapped[k] = NoAddress
    /\ Asks =>
         /\ PairedReady
         /\ \A p \in net : PairedWay(p)
         /\ \A s \in Slots : \A i \in 1 .. Len(mRcvQueue[s]) : TellsFirst(mRcvQueue[s][i])
         /\ \A k \in 1 .. MaxStep : mapped[k] = NoAddress \/ mapped[k].ip = FirstIP

\* The first address is the one the search begins with.
LEMMA FirstTried ==
  /\ FirstIP \in NatIPs /\ IPAt(0, 0) = FirstIP
  /\ \A k \in 0 .. (N - 1) : k # 0 => FirstIP \in Tried(0, k)
<1>1. N \in Nat \ {0}
  BY ConstantTypes
<1>2. FirstIP \in NatIPs
  BY <1>1 DEF FirstIP, NatIPs
<1>3. (0 + 0) % N = 0
  BY <1>1
<1>4. IPAt(0, 0) = FirstIP
  BY <1>3 DEF IPAt, FirstIP
<1>5. ASSUME NEW k \in 0 .. (N - 1), k # 0 PROVE FirstIP \in Tried(0, k)
  <2>1. 0 \in 0 .. (k - 1)
    BY <1>1, <1>5
  <2>2. QED
    BY <1>4, <2>1 DEF Tried
<1>6. QED
  BY <1>2, <1>4, <1>5

\* There are at least as many ports as requests.
LEMMA PortsEnough == NumMessages < MaxPort + 1 /\ SourcePort <= MaxPort /\ MaxPort \in Nat
<1>1. SourcePort + NumMessages \in ClientPorts
  BY SessionConstants
<1>2. SourcePort + NumMessages \in 0 .. MaxPort
  BY <1>1, ConstantTypes DEF Ports
<1>3. QED
  BY <1>2, SessionConstants, ConstantTypes

\* The packets of NATReq2 are packets of the private side.
LEMMA PortToFacts ==
  ASSUME NEW k \in 1 .. NumMessages
  PROVE  /\ PortTo(k) \in OutPackets
         /\ PortTo(k).src = ClientA /\ PortTo(k).sport = SourcePort + k - 1
<1>1. SourcePort + k - 1 = SourcePort + (k - 1) /\ k - 1 \in 0 .. NumMessages
  BY SessionConstants
<1>2. SourcePort + k - 1 \in ClientPorts
  BY <1>1, SessionConstants
<1>3. QED
  BY <1>2, SessionConstants DEF PortTo, OutPackets, Packet

\* The first address has not run out of ports: every port below MaxPort that is taken is
\* that of a binding, and there are fewer of those than ports.
LEMMA FirstLeft ==
  ASSUME IInv, ~mConfig.mPortOverloading, PairedReady, step \in 1 .. NumMessages,
         NEW k \in 1 .. step, KeyOf(PortTo(k)) \notin DOMAIN mOutgoingTable
  PROVE  ~Exhausted(FirstIP)
<1> SUFFICES ASSUME Exhausted(FirstIP) PROVE FALSE
  OBVIOUS
<1> DEFINE S == 0 .. (MaxPort - 1)
           T == (1 .. step) \ {k}
           IsAt(j, q) == /\ KeyOf(PortTo(j)) \in DOMAIN mOutgoingTable
                         /\ Endpoint(KeyOf(PortTo(j))) = <<FirstIP, q>>
           f == [q \in S |-> CHOOSE j \in T : IsAt(j, q)]
<1>1. MaxPort \in Nat \ {0} /\ NumMessages \in Nat /\ step \in Nat /\ step <= MaxPort
  BY PortsEnough, ConstantTypes, SessionConstants
<1>2. \A q \in S : \E j \in T : IsAt(j, q)
  <2>1. ASSUME NEW q \in S PROVE \E j \in T : IsAt(j, q)
    <3>1. q \in Bits /\ q < MaxPort /\ FirstIP \in DOMAIN mAvailablePorts
      BY <1>1, FirstTried DEF Bits, PairedReady
    <3>2. q \in mAvailablePorts[FirstIP]
      BY <1>1, <3>1 DEF Exhausted
    <3>3. PICK o \in DOMAIN mOutgoingTable : Endpoint(o) = <<FirstIP, q>>
      BY <3>1, <3>2 DEF IInv, PortsAccounted, Exclusive
    <3>4. PICK j \in 1 .. step : o = KeyOf(PortTo(j))
      BY DEF PairedReady
    <3>5. QED
      BY <3>3, <3>4
  <2>2. QED
    BY <2>1
<1>3. f \in [S -> T] /\ \A q \in S : IsAt(f[q], q)
  <2> HIDE DEF S, T, IsAt
  <2>1. QED
    BY <1>2
<1>4. IsFiniteSet(S) /\ Cardinality(S) = MaxPort
  <2>1. IsFiniteSet(S) /\ Cardinality(S) = IF 0 > MaxPort - 1 THEN 0 ELSE MaxPort - 1 - 0 + 1
    BY <1>1, FS_Interval
  <2>2. QED
    BY <1>1, <2>1
<1>5. IsFiniteSet(T) /\ Cardinality(T) = step - 1
  <2>1. IsFiniteSet(1 .. step) /\ Cardinality(1 .. step) = IF 1 > step THEN 0 ELSE step - 1 + 1
    BY <1>1, FS_Interval
  <2>2. Cardinality(1 .. step) = step
    BY <1>1, <2>1
  <2>3. QED
    BY <1>1, <2>1, <2>2, FS_RemoveElement
<1>6. PICK x \in S, y \in S : x # y /\ f[x] = f[y]
  <2>1. Cardinality(T) < Cardinality(S)
    BY <1>1, <1>4, <1>5
  <2> HIDE DEF S, T, IsAt, f
  <2>2. QED
    BY <1>3, <1>4, <1>5, <2>1, FS_PigeonHole
<1>7. <<FirstIP, x>> = <<FirstIP, y>>
  BY <1>3, <1>6
<1>8. QED
  BY <1>6, <1>7

\* While the flow of a request is not bound, its port is free on the first address.
LEMMA FirstFree ==
  ASSUME PairedReady, SamePort, step \in 1 .. NumMessages, NEW k \in 1 .. step,
         KeyOf(PortTo(k)) \notin DOMAIN mOutgoingTable
  PROVE  IsFree(FirstIP, PortTo(k).sport) /\ ~NoneFree(PortTo(k))
<1>1. k \in 1 .. NumMessages /\ NumMessages \in Nat /\ SourcePort \in Nat
  BY SessionConstants
<1>2. PortTo(k).sport = SourcePort + k - 1
  BY <1>1, PortToFacts
<1>3. SourcePort + k - 1 \notin mAvailablePorts[FirstIP]
  <2>1. ASSUME SourcePort + k - 1 \in mAvailablePorts[FirstIP] PROVE FALSE
    <3>1. PICK j \in 1 .. step : /\ SourcePort + k - 1 = SourcePort + j - 1
                                 /\ KeyOf(PortTo(j)) \in DOMAIN mOutgoingTable
      BY <2>1 DEF PairedReady
    <3>2. j = k
      BY <1>1, <3>1
    <3>3. QED
      BY <3>1, <3>2
  <2>2. QED
    BY <2>1
<1>4. IsFree(FirstIP, PortTo(k).sport)
  BY <1>2, <1>3, FirstTried DEF IsFree, PairedReady
<1>5. QED
  BY <1>4, FirstTried DEF NoneFree

\* How the ports stand after a flow was bound on the first address.
LEMMA FirstBound ==
  ASSUME IInv, PairedReady, step \in 1 .. NumMessages, UNCHANGED step,
         NEW k \in 1 .. step, NEW port,
         Bind(PortTo(k), FirstIP, port, mOutgoingTable, mIncommingTable),
         KeyOf(PortTo(k)) \notin DOMAIN mOutgoingTable,
         DOMAIN mAvailablePorts' = DOMAIN mAvailablePorts,
         SamePort => /\ mAvailablePorts'[FirstIP] = mAvailablePorts[FirstIP] \cup {port}
                     /\ port = PortTo(k).sport
  PROVE  PairedReady' /\ sent'.from[1] = FirstIP
<1>1. PICK key : key = KeyOf(PortTo(k))
  OBVIOUS
<1>2. /\ UNCHANGED <<mConfig, mThread>> /\ sent'.from[1] = FirstIP
      /\ DOMAIN mOutgoingTable' = DOMAIN mOutgoingTable \cup {key}
      /\ \A o \in DOMAIN mOutgoingTable : mOutgoingTable'[o] = mOutgoingTable[o]
      /\ mOutgoingTable'[key].age = 0 /\ mOutgoingTable'[key].ip = FirstIP
  BY <1>1 DEF Bind, Emit, InsertTraffic, Put
<1>3. \A j : KeyOf(PortTo(j))' = KeyOf(PortTo(j))
  BY <1>2 DEF KeyOf, OutgoingPk
<1>4. SamePort' = SamePort
  BY <1>2 DEF SamePort
<1>5. SamePort => \A q \in mAvailablePorts'[FirstIP] :
                    \E j \in 1 .. step : q = SourcePort + j - 1 /\ KeyOf(PortTo(j)) \in DOMAIN mOutgoingTable'
  <2>1. k \in 1 .. NumMessages
    BY SessionConstants
  <2>2. PortTo(k).sport = SourcePort + k - 1
    BY <2>1, PortToFacts
  <2>3. QED
    BY <1>1, <1>2, <2>2 DEF PairedReady
<1>6. \A o \in DOMAIN mOutgoingTable' : \E j \in 1 .. step : o = KeyOf(PortTo(j))
  BY <1>1, <1>2 DEF PairedReady
<1>7. \A o \in DOMAIN mOutgoingTable' : mOutgoingTable'[o].age = 0 /\ mOutgoingTable'[o].ip = FirstIP
  BY <1>2 DEF PairedReady
<1>8. QED
  BY <1>2, <1>3, <1>4, <1>5, <1>6, <1>7 DEF PairedReady

\* A packet of NATReq2 leaves from the first address.
LEMMA PairedLeaves ==
  ASSUME IInv, PairedMeant, PairedReady, step \in 1 .. NumMessages, UNCHANGED step,
         NEW k \in 1 .. step, TreatOutgoingPacket(PortTo(k))
  PROVE  PairedReady' /\ (sent' # Nothing => sent'.from[1] = FirstIP)
<1>1. PICK pk : pk = PortTo(k)
  OBVIOUS
<1>2. PICK key : key = KeyOf(pk)
  OBVIOUS
<1>3. /\ TypeOK /\ FirstIP \in NatIPs /\ FirstIP \in DOMAIN mAvailablePorts
      /\ Starts = {0} /\ SearchFrom = {0}
  BY FirstTried DEF IInv, PairedReady, PairedMeant, Starts, SearchFrom
<1>4. SamePort /\ key \notin DOMAIN mOutgoingTable => IsFree(FirstIP, pk.sport) /\ ~NoneFree(pk)
  BY <1>1, <1>2, FirstFree
<1>5. CASE OutgoingExpire(pk)
  BY <1>2, <1>5, ConstantTypes DEF OutgoingExpire, Expire, PairedReady
<1>6. CASE OutgoingRefresh(pk)
  <2>1. PICK e : e = mOutgoingTable[key]
    OBVIOUS
  <2>2. /\ key \in DOMAIN mOutgoingTable /\ e \in Binding /\ e.ip = FirstIP
        /\ UNCHANGED <<mConfig, mThread, mAvailablePorts>>
        /\ UpdateLastTrafficTime(key) /\ Emit(e.ip, e.port, pk.dst, pk.dport)
    BY <1>2, <1>3, <1>6, <2>1 DEF OutgoingRefresh, TypeOK, IsTable, PairedReady
  <2>3. /\ DOMAIN mOutgoingTable' = DOMAIN mOutgoingTable
        /\ \A o \in DOMAIN mOutgoingTable : mOutgoingTable'[o].ip = FirstIP /\ mOutgoingTable'[o].age = 0
    BY <2>1, <2>2 DEF UpdateLastTrafficTime, Put, Binding, PairedReady
  <2>4. \A j : KeyOf(PortTo(j))' = KeyOf(PortTo(j))
    BY <2>2 DEF KeyOf, OutgoingPk
  <2>5. SamePort' = SamePort
    BY <2>2 DEF SamePort
  <2>6. PairedReady'
    BY <2>2, <2>3, <2>4, <2>5 DEF PairedReady
  <2>7. sent'.from[1] = FirstIP
    BY <2>2 DEF Emit
  <2>8. QED
    BY <2>6, <2>7
<1>7. CASE BindSamePort(pk)
  <2>1. SamePort /\ key \notin DOMAIN mOutgoingTable
    BY <1>2, <1>7 DEF BindSamePort, Unbound
  <2>2. PICK j \in 0 .. (N - 1) :
          /\ \A ip \in Tried(0, j) : ~IsFree(ip, pk.sport)
          /\ mAvailablePorts' = ReserverPort(IPAt(0, j), pk.sport)
          /\ Bind(pk, IPAt(0, j), pk.sport, mOutgoingTable, mIncommingTable)
    BY <1>3, <1>7 DEF BindSamePort
  <2>3. IPAt(0, j) = FirstIP
    BY <1>4, <2>1, <2>2, FirstTried
  <2>4. /\ DOMAIN mAvailablePorts' = DOMAIN mAvailablePorts
        /\ mAvailablePorts'[FirstIP] = mAvailablePorts[FirstIP] \cup {pk.sport}
    BY <1>3, <2>2, <2>3 DEF ReserverPort
  <2>5. Bind(pk, FirstIP, pk.sport, mOutgoingTable, mIncommingTable)
    BY <2>2, <2>3
  <2>6. QED
    BY <1>1, <1>2, <2>1, <2>4, <2>5, FirstBound
<1>8. CASE BindOverloaded(pk)
  BY <1>2, <1>4, <1>8 DEF BindOverloaded, Unbound, SamePort
<1>9. ASSUME Unbound(pk), AnyPortWillDo(pk) PROVE ~SamePort /\ ~Exhausted(FirstIP) /\ key \notin DOMAIN mOutgoingTable
  <2>1. key \notin DOMAIN mOutgoingTable /\ ~mConfig.mPortOverloading
    BY <1>2, <1>9 DEF Unbound, AnyPortWillDo
  <2>2. ~SamePort
    BY <1>4, <1>9, <2>1 DEF SamePort, AnyPortWillDo
  <2>3. QED
    BY <1>1, <1>2, <2>1, <2>2, FirstLeft
<1>10. CASE BindFirstAvailable(pk)
  <2>1. ~SamePort /\ ~Exhausted(FirstIP) /\ key \notin DOMAIN mOutgoingTable
    BY <1>9, <1>10 DEF BindFirstAvailable
  <2>2. PICK j \in 0 .. (N - 1), port \in Ports :
          /\ \A ip \in Tried(0, j) : Exhausted(ip)
          /\ mAvailablePorts' = ReserveFirst(Tried(0, j), IPAt(0, j), port)
          /\ Bind(pk, IPAt(0, j), port, mOutgoingTable, mIncommingTable)
    BY <1>3, <1>10 DEF BindFirstAvailable
  <2>3. IPAt(0, j) = FirstIP
    BY <2>1, <2>2, FirstTried
  <2>4. DOMAIN mAvailablePorts' = DOMAIN mAvailablePorts
    BY <2>2 DEF ReserveFirst
  <2>5. Bind(pk, FirstIP, port, mOutgoingTable, mIncommingTable)
    BY <2>2, <2>3
  <2>6. QED
    BY <1>1, <1>2, <2>1, <2>4, <2>5, FirstBound
<1>11. CASE OutgoingDrop(pk)
  BY <1>3, <1>9, <1>11 DEF OutgoingDrop
<1>12. QED
  BY <1>1, <1>5, <1>6, <1>7, <1>8, <1>10, <1>11 DEF TreatOutgoingPacket

\* The later request finds the NAT as the earlier one has left it.
LEMMA PairedGrows ==
  ASSUME PairedReady, UNCHANGED vars, step \in Nat, step' \in Nat, step <= step'
  PROVE  PairedReady' /\ \A p : PairedWay(p) => PairedWay(p)'
<1>1. UNCHANGED <<mConfig, mOutgoingTable, mAvailablePorts>>
  BY DEF vars
<1>2. (\A k : KeyOf(PortTo(k))' = KeyOf(PortTo(k))) /\ SamePort' = SamePort
  BY <1>1 DEF KeyOf, OutgoingPk, SamePort
<1>3. \A k \in 1 .. step : k \in 1 .. step'
  OBVIOUS
<1>4. \A p : PairedWay(p) => PairedWay(p)'
  BY <1>3 DEF PairedWay
<1>5. PairedReady'
  BY <1>1, <1>2, <1>3 DEF PairedReady
<1>6. QED
  BY <1>4, <1>5

\* Where NATReq2 stands.
LEMMA PairedStep ==
  ASSUME SessionTypeOK, PairedMeant, Asks
  PROVE  step \in 1 .. NumMessages /\ step \in Nat /\ step \in 1 .. MaxStep /\ Slot = "P"
<1>1. test = "pooling" /\ step \in 1 .. Last /\ Last = NumMessages /\ Last \in 1 .. MaxStep
  BY LastType DEF SessionTypeOK, ClientType, PairedMeant
<1>2. QED
  BY <1>1, SessionConstants DEF Slot

\* A request of NATReq2 is one of its packets.
LEMMA PairedRequest ==
  ASSUME SessionTypeOK, PairedMeant, Asks, NEW wire
  PROVE  PairedWay(Datagram(From, To, wire))
<1>1. PICK p : p = Datagram(From, To, wire)
  OBVIOUS
<1>2. step \in 1 .. NumMessages /\ step \in 1 .. step
  BY PairedStep
<1>3. From = Address(ClientA, SourcePort + step - 1) /\ To = Address(ServerAIP, ServerPort1)
  BY DEF From, To, A1, PairedMeant
<1>4. p.src = ClientA /\ p.sport = SourcePort + step - 1 /\ p.dst = ServerAIP /\ p.dport = ServerPort1
  BY <1>1, <1>3 DEF Datagram, Address
<1>5. Header(p) = PortTo(step)
  BY <1>4 DEF Header, PortTo
<1>6. p.src \notin NatIPs /\ p.src \notin PublicIPs
  BY <1>4, SessionConstants, AddressAssumption
<1>7. QED
  BY <1>1, <1>2, <1>5, <1>6 DEF PairedWay

\* What is in flight when a request is sent.
LEMMA PairedSends ==
  ASSUME SessionTypeOK, PairedMeant, PairedInv, Asks, phase' = "wait",
         UNCHANGED <<vars, test, step, mapped>>,
         NEW wire, net' = net \cup {Datagram(From, To, wire)},
         mRcvQueue' = mRcvQueue \/ mRcvQueue' = [s \in Slots |-> <<>>]
  PROVE  PairedInv'
<1>1. PICK p : p = Datagram(From, To, wire)
  OBVIOUS
<1>2. PairedWay(p) /\ PairedReady /\ (\A q \in net : PairedWay(q)) /\ step \in Nat
  BY <1>1, PairedRequest, PairedStep DEF PairedInv
<1>3. PairedReady' /\ \A q \in net' : PairedWay(q)'
  BY <1>1, <1>2, PairedGrows
<1>4. \A s \in Slots : \A i \in 1 .. Len(mRcvQueue'[s]) : TellsFirst(mRcvQueue'[s][i])
  BY DEF PairedInv
<1>5. \A k \in 1 .. MaxStep : mapped'[k] = NoAddress \/ mapped'[k].ip = FirstIP
  BY DEF PairedInv
<1>6. QED
  BY <1>3, <1>4, <1>5 DEF PairedInv

\* What is known when the next request is to be sent.
LEMMA PairedNext ==
  ASSUME SessionTypeOK, PairedMeant, PairedInv, Asks, phase' = "ask", UNCHANGED <<vars, net>>,
         step' \in Nat, step <= step',
         \A s \in Slots : \A i \in 1 .. Len(mRcvQueue'[s]) : TellsFirst(mRcvQueue'[s][i]),
         \A k \in 1 .. MaxStep : mapped'[k] = NoAddress \/ mapped'[k].ip = FirstIP
  PROVE  PairedInv'
<1>1. PairedReady /\ (\A q \in net : PairedWay(q)) /\ step \in Nat
  BY PairedStep DEF PairedInv
<1>2. PairedReady' /\ \A q \in net' : PairedWay(q)'
  BY <1>1, PairedGrows
<1>3. QED
  BY <1>2 DEF PairedInv

\* The NAT is started.
LEMMA PairedStarts ==
  ASSUME StoppedIsEmpty, PairedMeant, PairedInv, StartParts
  PROVE  PairedInv'
<1>1. /\ Start(mConfig, [t \in Threads |-> "loop"]) /\ UNCHANGED <<test, mRcvQueue, net, mapped>>
      /\ phase = "start" /\ phase' = "ask"
  BY DEF StartParts
<1>2. /\ \A t \in Threads : mThread[t] = "none"
      /\ net' = {} /\ \A s \in Slots : mRcvQueue'[s] = <<>>
      /\ \A k \in 1 .. MaxStep : mapped'[k] = NoAddress
  BY <1>1 DEF PairedInv
<1>3. DOMAIN mOutgoingTable = {} /\ DOMAIN mAvailablePorts = {}
  BY <1>2 DEF StoppedIsEmpty
<1>4. mAvailablePorts' = [ip \in NatIPs |-> {}] /\ mOutgoingTable' = mOutgoingTable
  BY <1>1, <1>2, <1>3 DEF Start
<1>5. PairedReady'
  BY <1>3, <1>4, FirstTried DEF PairedReady
<1>6. QED
  BY <1>1, <1>2, <1>5 DEF PairedInv

\* What NATReq2 knows of the NAT's addresses as it goes on.
LEMMA ClientPaired ==
  ASSUME SessionTypeOK, StoppedIsEmpty, PairedInv, ClientStep
  PROVE  PairedInv'
<1>1. UNCHANGED <<mConfig, test>>
  BY ConfigStays DEF SessionNext
<1> SUFFICES ASSUME PairedMeant PROVE PairedInv'
  BY <1>1 DEF PairedInv, PairedMeant
<1>2. ASSUME phase' \notin {"start", "ask", "wait"} PROVE PairedInv'
  BY <1>2 DEF PairedInv, Asks
<1>3. Asks => /\ step \in Nat /\ step \in 1 .. MaxStep /\ Slot = "P" /\ phase \in {"ask", "wait"}
              /\ \A s \in Slots : \A i \in 1 .. Len(mRcvQueue[s]) : TellsFirst(mRcvQueue[s][i])
              /\ \A k \in 1 .. MaxStep : mapped[k] = NoAddress \/ mapped[k].ip = FirstIP
  BY PairedStep DEF PairedInv, Asks
<1>4. mRcvQueue \in [Slots -> Seq(AnswerWires)] /\ mapped \in [1 .. MaxStep -> NatAddress \cup {NoAddress}]
  BY DEF SessionTypeOK, NetType, ClientType
<1>5. CASE StartParts
  BY <1>5, PairedStarts
<1>6. CASE Ask \/ AskDeaf
  <2>1. /\ Asks /\ phase' = "wait" /\ UNCHANGED <<vars, test, step, mapped>>
        /\ mRcvQueue' = mRcvQueue \/ mRcvQueue' = [s \in Slots |-> <<>>]
        /\ net' = net \cup {Datagram(From, To, Wire)}
    BY <1>6 DEF Ask, AskDeaf, SendFirst, Asks
  <2>2. QED
    BY <2>1, PairedSends
<1>7. CASE Retry
  <2>1. /\ Asks /\ phase' = "wait" /\ UNCHANGED <<vars, test, step, mapped, mRcvQueue>>
        /\ net' = net \cup {Datagram(From, request.to, request.wire)}
        /\ request.to = To
    BY <1>7 DEF Retry, Asks, SessionTypeOK, ClientType, Requested
  <2>2. net' = net \cup {Datagram(From, To, request.wire)}
    BY <2>1
  <2>3. QED
    BY <2>1, <2>2, PairedSends
<1>8. CASE Answered
  <2>1. PICK w : w = Head(mRcvQueue["P"])
    OBVIOUS
  <2>2. PICK msg : msg = decode(w)
    OBVIOUS
  <2>3. phase = "wait" /\ Asks /\ request.slot = "P"
    BY <1>3, <1>8 DEF Answered, SessionTypeOK, ClientType, Requested, Asks
  <2>4. /\ mRcvQueue["P"] # <<>> /\ Conclude(msg) /\ "P" \in Slots
        /\ mRcvQueue' = [mRcvQueue EXCEPT !["P"] = Tail(@)]
    BY <1>8, <2>1, <2>2, <2>3 DEF Answered, Slots
  <2>5. w \in AnswerWires /\ Tail(mRcvQueue["P"]) \in Seq(AnswerWires) /\ mRcvQueue["P"] \in Seq(AnswerWires)
    BY <1>4, <2>1, <2>4
  <2>6. TellsFirst(w)
    BY <1>3, <2>1, <2>3, <2>4, <2>5
  <2>7. \A s \in Slots : \A i \in 1 .. Len(mRcvQueue'[s]) : TellsFirst(mRcvQueue'[s][i])
    <3>1. ASSUME NEW i \in 1 .. Len(Tail(mRcvQueue["P"])) PROVE TellsFirst(Tail(mRcvQueue["P"])[i])
      <4>1. Tail(mRcvQueue["P"])[i] = mRcvQueue["P"][i + 1] /\ i + 1 \in 1 .. Len(mRcvQueue["P"])
        BY <2>4, <2>5
      <4>2. QED
        BY <1>3, <2>3, <2>4, <4>1
    <3>2. mRcvQueue'["P"] = Tail(mRcvQueue["P"]) /\ \A s \in Slots : s # "P" => mRcvQueue'[s] = mRcvQueue[s]
      BY <1>4, <2>4
    <3>3. QED
      BY <1>3, <2>3, <3>1, <3>2
  <2>8. \A k \in 1 .. MaxStep : mapped'[k] = NoAddress \/ mapped'[k].ip = FirstIP
    <3>1. test = "pooling"
      BY DEF PairedMeant
    <3>2. mapped' = [mapped EXCEPT ![step] = IF msg = Failed THEN @ ELSE Learned(msg, MAPPED_ADDRESS)]
      BY <2>4, <3>1 DEF Conclude
    <3>3. Learned(msg, MAPPED_ADDRESS).ip = FirstIP
      BY <2>2, <2>6 DEF TellsFirst
    <3>4. QED
      BY <1>3, <1>4, <2>3, <3>2, <3>3
  <2>9. UNCHANGED <<vars, net>> /\ (phase' = "ended" \/ (phase' = "ask" /\ step' = step + 1) \/ test = "lifetime")
    <3>1. msg # Failed => Answers \subseteq DOMAIN msg.attrs
      BY <2>2, <2>5, AnswerFacts
    <3>2. QED
      BY <2>3, <2>4, <3>1, ConcludeMoves DEF SessionTypeOK, Conclude
  <2>10. CASE phase' = "ended"
    BY <1>2, <2>10
  <2>11. CASE phase' = "ask" /\ step' = step + 1
    <3>1. step' \in Nat /\ step <= step'
      BY <1>3, <2>3, <2>11
    <3>2. QED
      BY <2>3, <2>7, <2>8, <2>9, <2>11, <3>1, PairedNext
  <2>12. QED
    BY <2>9, <2>10, <2>11 DEF PairedMeant
<1>9. CASE Unanswered
  <2>1. Asks /\ phase = "wait" /\ Conclude(Failed) /\ UNCHANGED <<vars, net, mRcvQueue>> /\ test = "pooling"
    BY <1>9 DEF Unanswered, Asks, Conclude, PairedMeant
  <2>2. mapped' = mapped
    BY <1>3, <1>4, <2>1 DEF Conclude
  <2>3. phase' = "ended" \/ (phase' = "ask" /\ step' = step + 1) \/ test = "lifetime"
    BY <2>1, ConcludeMoves DEF SessionTypeOK
  <2>4. CASE phase' = "ended"
    BY <1>2, <2>4
  <2>5. CASE phase' = "ask" /\ step' = step + 1
    <3>1. step' \in Nat /\ step <= step'
      BY <1>3, <2>1, <2>5
    <3>2. QED
      BY <1>3, <2>1, <2>2, <2>5, <3>1, PairedNext
  <2>6. QED
    BY <2>1, <2>3, <2>4, <2>5
<1>10. CASE CreateFails
  <2>1. Asks /\ PoolingUncreated /\ UNCHANGED <<vars, net, mRcvQueue, mapped>>
    BY <1>10 DEF CreateFails, Asks, PairedMeant
  <2>2. phase' = "ended" \/ (phase' = "ask" /\ step' = step + 1)
    BY <2>1 DEF PoolingUncreated, Finish, Proceed
  <2>3. CASE phase' = "ended"
    BY <1>2, <2>3
  <2>4. CASE phase' = "ask" /\ step' = step + 1
    <3>1. step' \in Nat /\ step <= step'
      BY <1>3, <2>1, <2>4
    <3>2. QED
      BY <1>3, <2>1, <2>4, <3>1, PairedNext
  <2>5. QED
    BY <2>2, <2>3, <2>4
<1>11. ~(ThreadFails \/ Receive \/ SleepTick \/ Wake)
  BY DEF ThreadFails, LifetimeThreadFails, OverloadingThreadFails, Receive, SleepTick, Wake, PairedMeant,
     SessionTypeOK, ClientType
<1>12. CASE StopParts \/ Joined
  BY <1>2, <1>12 DEF StopParts, Joined
<1>13. QED
  BY <1>5, <1>6, <1>7, <1>8, <1>9, <1>10, <1>11, <1>12 DEF ClientStep

\* What has become of the packets of NATReq2 when one was carried.
LEMMA PairedArrives ==
  ASSUME PairedInv, PairedMeant, Asks, UNCHANGED clientVars, PairedReady',
         \A q \in net' : q \in net \/ PairedWay(q),
         \A s \in Slots : \A i \in 1 .. Len(mRcvQueue'[s]) : TellsFirst(mRcvQueue'[s][i])
  PROVE  PairedInv'
<1>1. \A q \in net' : PairedWay(q)
  BY DEF PairedInv
<1>2. UNCHANGED <<test, step, phase, mapped>>
  BY DEF clientVars
<1>3. \A q : PairedWay(q)' = PairedWay(q)
  BY <1>2 DEF PairedWay
<1>4. QED
  BY <1>1, <1>2, <1>3 DEF PairedInv, Asks

\* The network knows no address but the first.
LEMMA CarryPaired ==
  ASSUME SessionTypeOK, IInv, PairedInv, NEW p \in net, Carry(p) \/ Lose(p)
  PROVE  PairedInv'
<1>1. UNCHANGED clientVars /\ UNCHANGED <<test, step, phase, mapped>>
  BY OnTheWay DEF clientVars
<1>2. UNCHANGED mConfig
  BY ConfigStays DEF SessionNext
<1> SUFFICES ASSUME PairedMeant PROVE PairedInv'
  BY <1>1, <1>2 DEF PairedInv, PairedMeant
<1>3. phase # "start"
  BY DEF PairedInv
<1>4. CASE ~Asks
  BY <1>1, <1>3, <1>4 DEF PairedInv, Asks
<1>5. CASE Asks
  <2>1. /\ step \in 1 .. NumMessages /\ step \in Nat
        /\ PairedReady /\ PairedWay(p)
        /\ \A s \in Slots : \A i \in 1 .. Len(mRcvQueue[s]) : TellsFirst(mRcvQueue[s][i])
    BY <1>5, PairedStep DEF PairedInv
  <2>2. p \in FromClient \cup ToServer \cup FromServer \cup ToClient /\ TypeOK
        /\ mRcvQueue \in [Slots -> Seq(AnswerWires)]
    BY DEF SessionTypeOK, NetType
  <2>3. ASSUME UNCHANGED vars PROVE PairedReady'
    BY <1>1, <2>1, <2>3, PairedGrows
  <2>4. CASE Outgoing(p)
    <3>1. p \in FromClient /\ p.src \in PrivateIPs /\ UNCHANGED mRcvQueue
      BY <2>2, <2>4, Sides DEF Outgoing
    <3>2. PICK k \in 1 .. step : Header(p) = PortTo(k)
      BY <2>1, <3>1 DEF PairedWay
    <3>3. PairedReady' /\ (sent' # Nothing => sent'.from[1] = FirstIP)
      BY <1>1, <2>1, <2>4, <3>2, PairedLeaves DEF Outgoing
    <3>4. \A r \in net' : r \in net \/ PairedWay(r)
      <4>1. CASE net' = net \ {p}
        BY <4>1
      <4>2. CASE net' # net \ {p}
        <5>1. PICK q \in ToServer : /\ sent' # Nothing /\ net' = (net \ {p}) \cup {q}
                                   /\ q.src = sent'.from[1]
          BY <2>2, <2>4, <3>1, <4>2, OutgoingPacket DEF Outgoing, Translated
        <5>2. q.src \in NatIPs /\ q.src \notin PrivateIPs /\ q.src \notin PublicIPs
          BY AddressAssumption DEF ToServer, Between
        <5>3. PairedWay(q)
          BY <3>3, <5>1, <5>2 DEF PairedWay
        <5>4. QED
          BY <5>1, <5>3
      <4>3. QED
        BY <4>1, <4>2
    <3>5. QED
      BY <1>1, <1>5, <2>1, <3>1, <3>3, <3>4, PairedArrives
  <2>5. CASE Incomming(p)
    <3>1. p \in FromServer /\ p.src \in PublicIPs /\ Header(p) \in InPackets /\ UNCHANGED mRcvQueue
      BY <2>2, <2>5, Sides DEF Incomming
    <3>2. PICK pk : pk = Header(p)
      OBVIOUS
    <3>3. /\ UNCHANGED <<mConfig, mThread, mIncommingTable, mAvailablePorts>>
          /\ DOMAIN mOutgoingTable' = DOMAIN mOutgoingTable
          /\ \A o \in DOMAIN mOutgoingTable : /\ mOutgoingTable'[o].ip = mOutgoingTable[o].ip
                                              /\ mOutgoingTable'[o].port = mOutgoingTable[o].port
                                              /\ mOutgoingTable'[o].age = 0
      BY <2>1, <2>2, <2>5, <3>1, <3>2, IncommingPasses DEF Incomming, PairedReady
    <3>4. (\A k : KeyOf(PortTo(k))' = KeyOf(PortTo(k))) /\ SamePort' = SamePort
      BY <3>3 DEF KeyOf, OutgoingPk, SamePort
    <3>5. PairedReady'
      BY <1>1, <2>1, <3>3, <3>4 DEF PairedReady
    <3>6. CASE net' = net \ {p}
      BY <1>1, <1>5, <2>1, <3>1, <3>5, <3>6, PairedArrives
    <3>7. CASE net' # net \ {p}
      <4>1. PICK q \in ToClient : net' = (net \ {p}) \cup {q} /\ q.src = p.src /\ q.wire = p.wire
        BY <2>2, <2>5, <3>1, <3>7, IncommingPacket
      <4>2. q.src \in PublicIPs /\ q.src \notin PrivateIPs /\ q.src \notin NatIPs
        BY AddressAssumption DEF ToClient, Between
      <4>3. PairedWay(q)
        BY <2>1, <4>1, <4>2 DEF PairedWay
      <4>4. QED
        BY <1>1, <1>5, <2>1, <3>1, <3>5, <4>1, <4>3, PairedArrives
    <3>8. QED
      BY <3>6, <3>7
  <2>6. CASE Serve(p)
    <3>1. p \in ToServer /\ p.src \in NatIPs /\ UNCHANGED vars /\ UNCHANGED mRcvQueue
      BY <2>2, <2>6, Sides DEF Serve
    <3>2. PICK q : q = Answer(p)
      OBVIOUS
    <3>3. q \in FromServer /\ Learned(decode(q.wire), MAPPED_ADDRESS) = Address(p.src, p.sport)
      BY <3>1, <3>2, AnswerIs
    <3>4. q.src \in PublicIPs /\ q.src \notin PrivateIPs /\ q.src \notin NatIPs
      BY <3>3, AddressAssumption DEF FromServer, Between
    <3>5. p.src = FirstIP
      BY <2>1, <3>1 DEF PairedWay
    <3>6. TellsFirst(q.wire)
      BY <3>3, <3>5 DEF TellsFirst, Address
    <3>7. PairedWay(q) /\ net' \subseteq (net \ {p}) \cup {q}
      BY <2>6, <3>2, <3>4, <3>6 DEF PairedWay, Serve
    <3>8. QED
      BY <1>1, <1>5, <2>1, <2>3, <3>1, <3>7, PairedArrives
  <2>7. CASE Unheard(p) \/ Lose(p)
    <3>1. net' = net \ {p} /\ UNCHANGED vars /\ UNCHANGED mRcvQueue
      BY <2>7 DEF Unheard, Lose
    <3>2. QED
      BY <1>1, <1>5, <2>1, <2>3, <3>1, PairedArrives
  <2>8. CASE Deliver(p)
    <3>1. /\ p \in ToClient /\ p.src \in PublicIPs /\ net' = net \ {p} /\ UNCHANGED vars
          /\ mRcvQueue' = [s \in Slots |-> IF me[s] = Address(p.dst, p.dport)
                                           THEN Append(mRcvQueue[s], p.wire) ELSE mRcvQueue[s]]
      BY <2>2, <2>8, Sides DEF Deliver
    <3>2. p.wire \in AnswerWires /\ TellsFirst(p.wire)
      BY <2>1, <3>1 DEF ToClient, Between, PairedWay
    <3>3. \A s \in Slots : \A i \in 1 .. Len(mRcvQueue'[s]) : TellsFirst(mRcvQueue'[s][i])
      BY <2>1, <2>2, <3>1, <3>2
    <3>4. QED
      BY <1>1, <1>5, <2>1, <2>3, <3>1, <3>3, PairedArrives
  <2>9. QED
    BY <2>4, <2>5, <2>6, <2>7, <2>8 DEF Carry
<1>6. QED
  BY <1>4, <1>5

LEMMA PairedInit == SessionInit => PairedInv
BY DEF SessionInit, Init, PairedInv, Asks

LEMMA PairedSteps ==
  ASSUME SessionTypeOK, IInv, PairedInv, [SessionNext]_allVars
  PROVE  PairedInv'
<1>1. CASE ClientStep
  BY <1>1, ClientPaired DEF IInv
<1>2. CASE \E p \in net : Carry(p) \/ Lose(p)
  BY <1>2, CarryPaired
<1>3. CASE ServerStep \/ UNCHANGED allVars
  <2>1. UNCHANGED <<vars, clientVars, net, mRcvQueue>>
    BY <1>3 DEF ServerStep, ServerBegins, ServerLeaves, allVars, sessionVars, clientVars
  <2>2. UNCHANGED <<test, step, phase, mapped, mConfig, mThread>>
    BY <2>1 DEF vars, clientVars
  <2>3. (\A q : PairedWay(q)' = PairedWay(q)) /\ PairedReady' = PairedReady
    BY <2>1, <2>2 DEF PairedWay, PairedReady, KeyOf, OutgoingPk, SamePort, vars
  <2>4. QED
    BY <2>1, <2>2, <2>3 DEF PairedInv, PairedMeant, Asks
<1>4. QED
  BY <1>1, <1>2, <1>3 DEF SessionNext

-----------------------------------------------------------------------------
(* NATReq2's first request and NATReq3: what the NAT, the packets in flight  *)
(* and the client know of the flows of the two clients.                      *)

\* A NAT that translates, and every part is up.
PoolMeant ==
  /\ AllUp
  /\ \/ test = "overloading" /\ mConfig.mMappingBehavior # "NotNated"
     \/ test = "pooling" /\ step = 1

\* An incoming entry leads to the client of the k-th request.
LeadsTo(i, k) == mIncommingTable[i].ip = FlowTo(k).src /\ mIncommingTable[i].port = SourcePort

\* The NAT runs, and holds nothing but the clients' flows.  The first was bound in an
\* empty NAT; without overloading an incoming entry is its flow's for good.
PoolReady ==
  /\ mThread = [t \in Threads |-> "loop"]
  /\ DOMAIN mAvailablePorts = NatIPs
  /\ \A o \in DOMAIN mOutgoingTable : mOutgoingTable[o].age = 0
  /\ \A o \in DOMAIN mOutgoingTable : \E k \in 1 .. step : o = Flow(k)
  /\ DOMAIN mOutgoingTable = {} => \A ip \in NatIPs : mAvailablePorts[ip] = {}
  /\ mConfig.mPortOverloading => \A o \in DOMAIN mOutgoingTable : mOutgoingTable[o].port = SourcePort
  /\ Exclusive => \A i \in DOMAIN mIncommingTable :
                    \E k \in 1 .. step : Bound(k) /\ i = AnswerKey(k) /\ LeadsTo(i, k)
  /\ Bound(1) => (Public(1).port = SourcePort <=> SamePort)

\* What NATReq3 knows when it comes to a request: client A's flow is bound, and in an even
\* step its endpoint was told.
PoolLearnt ==
  test = "overloading" =>
    /\ report = {}
    /\ step >= 2 => Bound(1)
    /\ step % 2 = 0 => mapped[step - 1] = Public(1)

\* An answer tells where the flow of the request under way is bound.
TellsFlow(w) == Learned(decode(w), MAPPED_ADDRESS) = Public(step)

\* A packet in flight is on its way to the server or back, to the client that asks.
PoolWay(p) ==
  /\ p.src \in PrivateIPs => Header(p) = FlowTo(step)
  /\ p.src \notin PrivateIPs =>
       /\ Bound(step) /\ AnswerKey(step) \in DOMAIN mIncommingTable
       /\ LeadsTo(AnswerKey(step), step)
  /\ p.src \notin PublicIPs => p.wire = Wire
  /\ p.src \in NatIPs =>
       /\ p.src = Public(step).ip /\ p.sport = Public(step).port
       /\ p.dst = ServerAIP /\ p.dport = ServerPort1
  /\ p.src \in PublicIPs => TellsFlow(p.wire) /\ p.src = ServerAIP /\ p.sport = ServerPort1
  /\ p.dst \in NatIPs => p.dst = Public(step).ip /\ p.dport = Public(step).port
  /\ p.dst \in PrivateIPs => p.dst = FlowTo(step).src /\ p.dport = SourcePort

\* A request is only repeated after a loss.
PoolInv ==
  /\ fails \in Nat
  /\ test \in {"pooling", "overloading"} /\ phase = "start" =>
       /\ \A t \in Threads : mThread[t] = "none"
       /\ me["P"] = NoAddress /\ report = {}
  /\ AllUp /\ test \in {"pooling", "overloading"} =>
       /\ Asks => server \in {"created", "loop"}
       /\ phase = "ask" => me["P"] = NoAddress
       /\ test = "pooling" /\ Asks /\ step # 1 => mapped[1] # NoAddress
  /\ PoolMeant /\ Asks => PoolReady /\ PoolLearnt
  /\ PoolMeant /\ phase = "wait" =>
       /\ me["P"] = Address(FlowTo(step).src, SourcePort)
       /\ \A p \in net : PoolWay(p)
       /\ \A i \in 1 .. Len(mRcvQueue["P"]) : Bound(step) /\ TellsFlow(mRcvQueue["P"][i])
       /\ retries \in Nat /\ lost \in 0 .. MaxLost
       /\ retries <= lost + (IF net = {} /\ mRcvQueue["P"] = <<>> THEN 0 ELSE 1)
\* The two clients' packets differ in where they come from.
LEMMA PoolPackets ==
  ASSUME test \in {"pooling", "overloading"}, NEW j, NEW k
  PROVE  /\ FlowTo(j).src = FlowTo(k).src => FlowTo(j) = FlowTo(k)
         /\ FlowTo(k).dst = ServerAIP /\ FlowTo(k).dport = ServerPort1
         /\ test = "pooling" => FlowTo(j) = FlowTo(k)
BY DEF FlowTo

\* Whose a flow is, is the flow's.
LEMMA PoolOwn ==
  ASSUME TypeOK, PoolMeant, NEW j, NEW k, Flow(j) = Flow(k)
  PROVE  FlowTo(j) = FlowTo(k)
<1>1. CASE test = "pooling"
  BY <1>1, PoolPackets
<1>2. CASE test # "pooling"
  <2>1. test = "overloading" /\ mConfig.mMappingBehavior # "NotNated"
    BY <1>2 DEF PoolMeant
  <2>2. mConfig.mMappingBehavior \in {"EndPointIndependent", "AddressDependent", "AddressPortDependent"}
    BY <2>1, ConfigAssumption DEF TypeOK, Config, Mappings
  <2>3. \A i : Flow(i)[1] = FlowTo(i).src
    BY <2>2 DEF Flow, KeyOf, OutgoingPk
  <2>4. FlowTo(j).src = FlowTo(k).src
    BY <2>3
  <2>5. QED
    BY <2>1, <2>4, PoolPackets
<1>3. QED
  BY <1>1, <1>2

\* The request under way is the packet of its flow.
LEMMA PoolRequest ==
  ASSUME SessionTypeOK, PoolMeant, Asks
  PROVE  /\ From = Address(FlowTo(step).src, SourcePort)
         /\ To = A1 /\ Slot = "P" /\ Creates
         /\ step \in Nat /\ step >= 1 /\ step \in 1 .. MaxStep /\ step \in 1 .. Last
<1>1. test \in {"pooling", "overloading"} /\ test \in Tests /\ step \in 1 .. Last
  BY DEF PoolMeant, SessionTypeOK, ClientType
<1>2. Last \in 1 .. MaxStep /\ MaxStep \in Nat
  BY <1>1, LastType, SessionConstants
<1>3. step \in Nat /\ step >= 1 /\ step \in 1 .. MaxStep
  BY <1>1, <1>2
<1>4. To = A1 /\ Slot = "P" /\ Creates
  BY <1>1 DEF To, Slot, Creates
<1>5. CASE test = "pooling"
  <2>1. SourcePort + step - 1 = SourcePort
    BY <1>5, SessionConstants DEF PoolMeant
  <2>2. From = Address(ClientA, SourcePort)
    BY <1>5, <2>1 DEF From
  <2>3. FlowTo(step).src = ClientA
    BY <1>5, FlowFacts
  <2>4. QED
    BY <1>1, <1>3, <1>4, <2>2, <2>3
<1>6. CASE test = "overloading"
  <2>1. step % 2 = 0 \/ step % 2 = 1
    BY <1>3
  <2>2. From = Address(IF step % 2 = 1 THEN ClientA ELSE ClientB, SourcePort)
    BY <1>6 DEF From
  <2>3. FlowTo(step).src = IF step % 2 = 0 THEN ClientB ELSE ClientA
    BY <1>6, FlowFacts
  <2>4. (IF step % 2 = 1 THEN ClientA ELSE ClientB) = FlowTo(step).src
    BY <2>1, <2>3
  <2>5. QED
    BY <1>1, <1>3, <1>4, <2>2, <2>4
<1>7. QED
  BY <1>1, <1>5, <1>6

\* There is a port left for the second client.
LEMMA PoolPortLeft ==
  ASSUME IInv, PoolMeant, PoolReady, SourcePort # 0, Exclusive, ~Bound(step)
  PROVE  \E ip \in NatIPs : ~Exhausted(ip)
<1>1. FirstIP \in NatIPs /\ FirstIP \in DOMAIN mAvailablePorts
  BY FirstTried DEF PoolReady
<1> SUFFICES ASSUME Exhausted(FirstIP) PROVE FALSE
  BY <1>1
<1>2. MaxPort \in Nat /\ MaxPort >= 2
  <2>1. NumMessages \in 0 .. NumMessages /\ NumMessages \in Nat \ {0} /\ SourcePort \in Nat \ {0}
    BY SessionConstants
  <2>2. SourcePort + NumMessages \in 0 .. MaxPort
    BY <2>1, SessionConstants, ConstantTypes DEF Ports
  <2>3. QED
    BY <2>1, <2>2, ConstantTypes
<1>3. 0 \in Bits /\ 1 \in Bits /\ 0 < MaxPort /\ 1 < MaxPort
  BY <1>2 DEF Bits
<1>4. {0, 1} \subseteq mAvailablePorts[FirstIP]
  BY <1>1, <1>2, <1>3 DEF Exhausted
<1>5. \A q \in mAvailablePorts[FirstIP] :
        q < MaxPort => \E o \in DOMAIN mOutgoingTable : Endpoint(o) = <<FirstIP, q>>
  BY <1>1 DEF IInv, PortsAccounted
<1>6. PICK o0 \in DOMAIN mOutgoingTable : Endpoint(o0) = <<FirstIP, 0>>
  BY <1>3, <1>4, <1>5
<1>7. PICK o1 \in DOMAIN mOutgoingTable : Endpoint(o1) = <<FirstIP, 1>>
  BY <1>3, <1>4, <1>5
<1>8. o0 # o1
  <2>1. <<FirstIP, 0>> # <<FirstIP, 1>>
    OBVIOUS
  <2>2. QED
    BY <1>6, <1>7, <2>1
<1>9. PICK j : o0 = Flow(j)
  BY DEF PoolReady
<1>10. PICK k : o1 = Flow(k)
  BY DEF PoolReady
<1>11. Flow(j) # Flow(step) /\ Flow(k) # Flow(step)
  BY <1>9, <1>10 DEF Bound
<1>12. FlowTo(j) # FlowTo(step) /\ FlowTo(k) # FlowTo(step) /\ FlowTo(j) # FlowTo(k)
  BY <1>8, <1>9, <1>10, <1>11 DEF Flow
<1>13. test \in {"pooling", "overloading"}
  BY DEF PoolMeant
<1>14. FlowTo(j).src # FlowTo(step).src /\ FlowTo(k).src # FlowTo(step).src /\ FlowTo(j).src # FlowTo(k).src
  BY <1>12, <1>13, PoolPackets
<1>15. \A i : FlowTo(i).src \in {ClientA, ClientB}
  BY FlowFacts
<1>16. QED
  BY <1>14, <1>15

\* What an admitted packet with the answers' identifier key makes of the incoming
\* entries inc.
Admitted(pk, key, inc, new) ==
  /\ key \in DOMAIN new
  /\ ~Exclusive \/ key \notin DOMAIN inc => new[key].ip = pk.src /\ new[key].port = pk.sport
  /\ Exclusive => DOMAIN new = DOMAIN inc \cup {key} /\ \A i \in DOMAIN inc : new[i] = inc[i]

LEMMA AdmitInto ==
  ASSUME NEW pk, NEW ip, NEW port, NEW inc
  PROVE  Admitted(pk, IncommingPk(pk.dst, pk.dport, ip, port), inc, Admit(inc, pk, ip, port))
<1>1. PICK key : key = IncommingPk(pk.dst, pk.dport, ip, port)
  OBVIOUS
<1>2. PICK new : new = Admit(inc, pk, ip, port)
  OBVIOUS
<1>3. PICK entry : entry = [ip |-> pk.src, port |-> pk.sport,
                            reverse |-> OutgoingPk(pk.src, pk.sport, pk.dst, pk.dport)]
  OBVIOUS
<1>4. PICK rest : rest = IF mConfig.mPortOverloading THEN Without(inc, {key}) ELSE inc
  OBVIOUS
<1>5. new = InsertTraffic(rest, key, entry)
  BY <1>1, <1>2, <1>3, <1>4 DEF Admit
<1>6. entry.ip = pk.src /\ entry.port = pk.sport
  BY <1>3
<1>7. CASE Exclusive
  <2>1. rest = inc
    BY <1>4, <1>7 DEF Exclusive
  <2>2. Admitted(pk, key, inc, new)
    BY <1>5, <1>6, <1>7, <2>1 DEF InsertTraffic, Put, Admitted
  <2>3. QED
    BY <1>1, <1>2, <2>2
<1>8. CASE ~Exclusive
  <2>1. rest = Without(inc, {key})
    BY <1>4, <1>8 DEF Exclusive
  <2>2. key \notin DOMAIN rest
    BY <2>1 DEF Without
  <2>3. new = Put(rest, key, entry)
    BY <1>5, <2>2 DEF InsertTraffic
  <2>4. Admitted(pk, key, inc, new)
    BY <1>6, <1>8, <2>3 DEF Put, Admitted
  <2>5. QED
    BY <1>1, <1>2, <2>4
<1>9. QED
  BY <1>7, <1>8

\* The packet pk leaves from ip:port, where its flow is bound, and its answers may come;
\* no other binding is touched.
Leaves(pk, ip, port) ==
  /\ UNCHANGED <<mConfig, mThread>> /\ DOMAIN mAvailablePorts' = DOMAIN mAvailablePorts
  /\ ip \in NatIPs /\ sent' # Nothing /\ sent'.from[1] = ip /\ sent'.from[2] = port
  /\ DOMAIN mOutgoingTable' = DOMAIN mOutgoingTable \cup {KeyOf(pk)}
  /\ \A o \in DOMAIN mOutgoingTable' : mOutgoingTable'[o].age = 0
  /\ \A o \in DOMAIN mOutgoingTable : /\ mOutgoingTable'[o].ip = mOutgoingTable[o].ip
                                      /\ mOutgoingTable'[o].port = mOutgoingTable[o].port
  /\ mOutgoingTable'[KeyOf(pk)].ip = ip /\ mOutgoingTable'[KeyOf(pk)].port = port
  /\ Admitted(pk, IncommingPk(pk.dst, pk.dport, ip, port), mIncommingTable, mIncommingTable')

\* A packet whose flow is bound leaves from there.
LEMMA RefreshLeaves ==
  ASSUME TypeOK, NEW pk, OutgoingRefresh(pk), \A o \in DOMAIN mOutgoingTable : mOutgoingTable[o].age = 0
  PROVE  Leaves(pk, mOutgoingTable[KeyOf(pk)].ip, mOutgoingTable[KeyOf(pk)].port)
<1>1. PICK key : key = KeyOf(pk)
  OBVIOUS
<1>2. PICK e : e = mOutgoingTable[key]
  OBVIOUS
<1>3. /\ key \in DOMAIN mOutgoingTable /\ e \in Binding
      /\ UNCHANGED <<mConfig, mThread, mAvailablePorts>>
      /\ UpdateLastTrafficTime(key) /\ Emit(e.ip, e.port, pk.dst, pk.dport)
      /\ mIncommingTable' = Admit(mIncommingTable, pk, e.ip, e.port)
  BY <1>1, <1>2 DEF OutgoingRefresh, TypeOK, IsTable
<1>4. /\ DOMAIN mOutgoingTable' = DOMAIN mOutgoingTable
      /\ \A o \in DOMAIN mOutgoingTable : /\ mOutgoingTable'[o].ip = mOutgoingTable[o].ip
                                          /\ mOutgoingTable'[o].port = mOutgoingTable[o].port
                                          /\ mOutgoingTable'[o].age = 0
  BY <1>2, <1>3 DEF UpdateLastTrafficTime, Put, Binding
<1>5. e.ip \in NatIPs /\ sent'.from[1] = e.ip /\ sent'.from[2] = e.port /\ sent' # Nothing
  BY <1>3, AddressAssumption DEF Binding, Emit, Nothing
<1>6. Admitted(pk, IncommingPk(pk.dst, pk.dport, e.ip, e.port), mIncommingTable, mIncommingTable')
  BY <1>3, AdmitInto
<1>7. Leaves(pk, e.ip, e.port)
  BY <1>1, <1>2, <1>3, <1>4, <1>5, <1>6 DEF Leaves
<1>8. QED
  BY <1>1, <1>2, <1>7

\* A packet for which a binding is made leaves from there.
LEMMA BindLeaves ==
  ASSUME NEW pk, NEW ip \in NatIPs, NEW port, NEW out, NEW inc, Bind(pk, ip, port, out, inc),
         DOMAIN mAvailablePorts' = DOMAIN mAvailablePorts,
         \A o \in DOMAIN mOutgoingTable : mOutgoingTable[o].age = 0,
         KeyOf(pk) \notin DOMAIN mOutgoingTable,
         DOMAIN out = DOMAIN mOutgoingTable, \A o \in DOMAIN out : out[o] = mOutgoingTable[o],
         DOMAIN inc \subseteq DOMAIN mIncommingTable, Exclusive => inc = mIncommingTable
  PROVE  Leaves(pk, ip, port)
<1>1. PICK key : key = KeyOf(pk)
  OBVIOUS
<1>2. /\ UNCHANGED <<mConfig, mThread>> /\ Emit(ip, port, pk.dst, pk.dport)
      /\ mIncommingTable' = Admit(inc, pk, ip, port)
      /\ DOMAIN mOutgoingTable' = DOMAIN mOutgoingTable \cup {key}
      /\ \A o \in DOMAIN mOutgoingTable : mOutgoingTable'[o] = mOutgoingTable[o]
      /\ mOutgoingTable'[key].age = 0
      /\ mOutgoingTable'[key].ip = ip /\ mOutgoingTable'[key].port = port
  BY <1>1 DEF Bind, InsertTraffic, Put
<1>3. sent'.from[1] = ip /\ sent'.from[2] = port /\ sent' # Nothing
  BY <1>2, AddressAssumption DEF Emit, Nothing
<1>4. PICK i : i = IncommingPk(pk.dst, pk.dport, ip, port)
  OBVIOUS
<1>5. Admitted(pk, i, inc, mIncommingTable')
  BY <1>2, <1>4, AdmitInto
<1>6. Admitted(pk, i, mIncommingTable, mIncommingTable')
  BY <1>5 DEF Admitted
<1>7. QED
  BY <1>1, <1>2, <1>3, <1>4, <1>6 DEF Leaves

\* No flow has the identifier that overloading deletes.
LEMMA PoolDeletes ==
  ASSUME TypeOK, PoolReady, NEW pk \in OutPackets, NEW ip, NEW port, NEW deletePk,
         deletePk = IncommingPk(pk.dst, pk.dport, ip, port)
  PROVE  deletePk \notin DOMAIN mOutgoingTable
<1> SUFFICES ASSUME deletePk \in DOMAIN mOutgoingTable PROVE FALSE
  OBVIOUS
<1>1. PICK k : deletePk = Flow(k)
  BY DEF PoolReady
<1>2. mConfig \in Config
  BY ConfigAssumption DEF TypeOK
<1>3. Flow(k)[1] = FlowTo(k).src \/ Flow(k)[1] = NoIP
  BY <1>2 DEF Flow, KeyOf, OutgoingPk, Config, Mappings
<1>4. deletePk[1] = pk.dst \/ deletePk[1] = AnyIP
  BY <1>2 DEF IncommingPk, Config, Filterings
<1>5. FlowTo(k).src \in PrivateIPs /\ pk.dst \in PublicIPs
  BY FlowFacts, SessionConstants DEF OutPackets, Packet
<1>6. NoIP # AnyIP
  BY DEF NoIP, AnyIP
<1>7. QED
  BY <1>1, <1>3, <1>4, <1>5, <1>6, AddressAssumption

\* Where a packet leaves from: for a flow that was not bound, from its source port
\* if overloading or preservation wants it and the NAT holds nothing else.
LeavesWell(pk, ip, port) ==
  /\ Leaves(pk, ip, port)
  /\ KeyOf(pk) \notin DOMAIN mOutgoingTable =>
       /\ mConfig.mPortOverloading => port = pk.sport
       /\ DOMAIN mOutgoingTable = {} => (port = pk.sport <=> SamePort)

LEMMA PoolLeaves ==
  ASSUME IInv, PoolMeant, PoolReady, SourcePort # 0, NEW pk, pk = FlowTo(step), TreatOutgoingPacket(pk)
  PROVE  \E ip, port : LeavesWell(pk, ip, port)
<1>1. /\ TypeOK /\ pk \in OutPackets /\ pk.sport = SourcePort
      /\ \A o \in DOMAIN mOutgoingTable : mOutgoingTable[o].age = 0
  BY FlowFacts DEF IInv, PoolReady
<1>2. CASE OutgoingExpire(pk)
  BY <1>1, <1>2, ConstantTypes DEF OutgoingExpire, Expire
<1>3. CASE OutgoingRefresh(pk)
  <2>1. Leaves(pk, mOutgoingTable[KeyOf(pk)].ip, mOutgoingTable[KeyOf(pk)].port)
    BY <1>1, <1>3, RefreshLeaves
  <2>2. KeyOf(pk) \in DOMAIN mOutgoingTable
    BY <1>3 DEF OutgoingRefresh
  <2>3. QED
    BY <2>1, <2>2 DEF LeavesWell
<1>4. CASE BindSamePort(pk)
  <2>1. PICK ini \in Starts, k \in 0 .. (N - 1) :
          /\ mAvailablePorts' = ReserverPort(IPAt(ini, k), pk.sport)
          /\ Bind(pk, IPAt(ini, k), pk.sport, mOutgoingTable, mIncommingTable)
    BY <1>4 DEF BindSamePort
  <2>2. PICK ip : ip = IPAt(ini, k)
    OBVIOUS
  <2>3. ip \in NatIPs
    BY <2>2, IPAtType, ConstantTypes DEF Starts
  <2>4. DOMAIN mAvailablePorts' = DOMAIN mAvailablePorts /\ Bind(pk, ip, pk.sport, mOutgoingTable, mIncommingTable)
    BY <2>1, <2>2 DEF ReserverPort
  <2>5. KeyOf(pk) \notin DOMAIN mOutgoingTable /\ SamePort
    BY <1>4 DEF BindSamePort, Unbound
  <2>6. Leaves(pk, ip, pk.sport)
    BY <1>1, <2>3, <2>4, <2>5, BindLeaves
  <2>7. QED
    BY <2>5, <2>6 DEF LeavesWell
<1>5. CASE BindOverloaded(pk)
  <2>1. PICK ini \in Starts :
          /\ mAvailablePorts' = ReserverPort(IPAt(ini, 0), pk.sport)
          /\ Bind(pk, IPAt(ini, 0), pk.sport,
                  Without(mOutgoingTable, {IncommingPk(pk.dst, pk.dport, IPAt(ini, 0), pk.sport)}),
                  Clean(mIncommingTable, IncommingPk(pk.dst, pk.dport, IPAt(ini, 0), pk.sport)))
    BY <1>5 DEF BindOverloaded
  <2>2. PICK ip : ip = IPAt(ini, 0)
    OBVIOUS
  <2>3. PICK deletePk : deletePk = IncommingPk(pk.dst, pk.dport, ip, pk.sport)
    OBVIOUS
  <2>4. PICK out, inc : out = Without(mOutgoingTable, {deletePk}) /\ inc = Clean(mIncommingTable, deletePk)
    OBVIOUS
  <2>5. ip \in NatIPs
    BY <2>2, IPAtType, ConstantTypes DEF Starts
  <2>6. DOMAIN mAvailablePorts' = DOMAIN mAvailablePorts /\ Bind(pk, ip, pk.sport, out, inc)
    BY <2>1, <2>2, <2>3, <2>4 DEF ReserverPort
  <2>7. KeyOf(pk) \notin DOMAIN mOutgoingTable /\ mConfig.mPortOverloading /\ ~Exclusive /\ SamePort
    BY <1>5 DEF BindOverloaded, Unbound, Exclusive, SamePort
  <2>8. deletePk \notin DOMAIN mOutgoingTable
    BY <1>1, <2>3, PoolDeletes
  <2>9. DOMAIN out = DOMAIN mOutgoingTable /\ \A o \in DOMAIN out : out[o] = mOutgoingTable[o]
    BY <2>4, <2>8 DEF Without
  <2>10. DOMAIN inc \subseteq DOMAIN mIncommingTable
    BY <2>4 DEF Clean, Without
  <2>11. Leaves(pk, ip, pk.sport)
    BY <1>1, <2>5, <2>6, <2>7, <2>9, <2>10, BindLeaves
  <2>12. QED
    BY <2>7, <2>11 DEF LeavesWell
<1>6. CASE BindFirstAvailable(pk)
  <2>1. PICK ini \in SearchFrom, k \in 0 .. (N - 1), port \in Ports :
          /\ Obtains(IPAt(ini, k), port)
          /\ mAvailablePorts' = ReserveFirst(Tried(ini, k), IPAt(ini, k), port)
          /\ Bind(pk, IPAt(ini, k), port, mOutgoingTable, mIncommingTable)
    BY <1>6 DEF BindFirstAvailable
  <2>2. PICK ip : ip = IPAt(ini, k)
    OBVIOUS
  <2>3. ip \in NatIPs
    BY <2>2, IPAtType, ConstantTypes DEF SearchFrom, Starts
  <2>4. DOMAIN mAvailablePorts' = DOMAIN mAvailablePorts /\ Bind(pk, ip, port, mOutgoingTable, mIncommingTable)
    BY <2>1, <2>2 DEF ReserveFirst
  <2>5. /\ KeyOf(pk) \notin DOMAIN mOutgoingTable /\ ~mConfig.mPortOverloading
        /\ mConfig.mPortPreservation => NoneFree(pk)
    BY <1>6 DEF BindFirstAvailable, Unbound, AnyPortWillDo
  <2>6. Leaves(pk, ip, port)
    BY <1>1, <2>3, <2>4, <2>5, BindLeaves
  <2>7. ASSUME DOMAIN mOutgoingTable = {} PROVE port # SourcePort /\ ~SamePort
    <3>1. mAvailablePorts[ip] = {} /\ ip \in DOMAIN mAvailablePorts
      BY <2>3, <2>7 DEF PoolReady
    <3>2. ~SamePort
      BY <2>3, <2>5, <3>1 DEF SamePort, NoneFree, IsFree
    <3>3. MaxPort \in Nat \ {0} /\ 0 \in Bits /\ 0 # MaxPort /\ Bits \subseteq Nat
      BY ConstantTypes DEF Bits
    <3>4. Bits \ mAvailablePorts[ip] = Bits
      BY <3>1
    <3>5. \/ port \in Bits /\ \A q \in Bits : port <= q
          \/ Bits = {MaxPort}
      BY <2>1, <2>2, <3>4 DEF Obtains
    <3>6. Bits # {MaxPort}
      BY <3>3
    <3>7. port = 0
      <4>1. port \in Bits /\ \A q \in Bits : port <= q
        BY <3>5, <3>6
      <4>2. port <= 0 /\ port \in Nat
        BY <3>3, <4>1
      <4>3. QED
        BY <4>2
    <3>8. QED
      BY <3>2, <3>7
  <2>8. QED
    BY <1>1, <2>5, <2>6, <2>7 DEF LeavesWell
<1>7. CASE OutgoingDrop(pk)
  <2>1. ~Bound(step) /\ Exclusive /\ \A ip \in NatIPs : Exhausted(ip)
    BY <1>7 DEF OutgoingDrop, Unbound, AnyPortWillDo, Bound, Flow, Exclusive
  <2>2. QED
    BY <2>1, PoolPortLeft
<1>8. QED
  BY <1>2, <1>3, <1>4, <1>5, <1>6, <1>7 DEF TreatOutgoingPacket

\* An identifier of the incoming table names the endpoint it is for.
LEMMA AnswerEnds ==
  ASSUME TypeOK, NEW a, NEW b, NEW ip, NEW port
  PROVE  IncommingPk(a, b, ip, port)[3] = ip /\ IncommingPk(a, b, ip, port)[4] = port
<1>1. mConfig.mFilteringBehavior \in {"AddressIndependent", "AddressDependent", "AddressPortDependent"}
  BY ConstantTypes DEF TypeOK, Config, Filterings
<1>2. QED
  BY <1>1 DEF IncommingPk

\* Once the request has left, its flow is bound and its answers lead to who asked.
LEMMA PoolBound ==
  ASSUME SessionTypeOK, IInv, IInv', PoolMeant, PoolReady, Asks, UNCHANGED <<test, step>>,
         NEW pk, pk = FlowTo(step), NEW ip, NEW port, Leaves(pk, ip, port)
  PROVE  /\ \A k : FlowTo(k)' = FlowTo(k) /\ Flow(k)' = Flow(k)
         /\ \A k : Bound(k) => Bound(k)' /\ Public(k)' = Public(k) /\ AnswerKey(k)' = AnswerKey(k)
         /\ Bound(step)' /\ Public(step)' = Address(ip, port)
         /\ AnswerKey(step)' = IncommingPk(pk.dst, pk.dport, ip, port)
         /\ AnswerKey(step)' \in DOMAIN mIncommingTable'
         /\ mIncommingTable'[AnswerKey(step)'].ip = FlowTo(step).src
         /\ mIncommingTable'[AnswerKey(step)'].port = SourcePort
<1>1. PICK key : key = Flow(step)
  OBVIOUS
<1>2. PICK i : i = IncommingPk(pk.dst, pk.dport, ip, port)
  OBVIOUS
<1>3. /\ UNCHANGED mConfig /\ key = KeyOf(pk) /\ pk.sport = SourcePort
      /\ DOMAIN mOutgoingTable' = DOMAIN mOutgoingTable \cup {key}
      /\ \A o \in DOMAIN mOutgoingTable : /\ mOutgoingTable'[o].ip = mOutgoingTable[o].ip
                                          /\ mOutgoingTable'[o].port = mOutgoingTable[o].port
      /\ mOutgoingTable'[key].ip = ip /\ mOutgoingTable'[key].port = port
      /\ Admitted(pk, i, mIncommingTable, mIncommingTable')
  BY <1>1, <1>2, FlowFacts DEF Leaves, Flow
<1>4. /\ \A k : FlowTo(k)' = FlowTo(k) /\ Flow(k)' = Flow(k)
      /\ \A a, b, c, d : IncommingPk(a, b, c, d)' = IncommingPk(a, b, c, d)
      /\ \A k : Bound(k) => Bound(k)' /\ Public(k)' = Public(k) /\ AnswerKey(k)' = AnswerKey(k)
  BY <1>3, SameFlows, SameBound
<1>5. Bound(step)' /\ Public(step)' = Address(ip, port)
  BY <1>1, <1>3, <1>4 DEF Bound, Public
<1>6. AnswerKey(step)' = i
  <2>1. Public(step)'.ip = ip /\ Public(step)'.port = port
    BY <1>5 DEF Address
  <2>2. QED
    BY <1>2, <1>4, <2>1 DEF AnswerKey
<1>7. i \in DOMAIN mIncommingTable'
  BY <1>3 DEF Admitted
<1>8. mIncommingTable'[i].ip = pk.src /\ mIncommingTable'[i].port = SourcePort
  <2>1. CASE ~Exclusive \/ i \notin DOMAIN mIncommingTable
    BY <1>3, <2>1 DEF Admitted
  <2>2. CASE Exclusive /\ i \in DOMAIN mIncommingTable
    <3>1. PICK k \in 1 .. step : Bound(k) /\ i = AnswerKey(k) /\ LeadsTo(i, k)
      BY <2>2 DEF PoolReady
    <3>2. Public(k).ip = ip /\ Public(k).port = port
      <4>1. i[3] = ip /\ i[4] = port
        BY <1>2, AnswerEnds DEF IInv
      <4>2. i[3] = Public(k).ip /\ i[4] = Public(k).port
        BY <3>1, AnswerEnds DEF IInv, AnswerKey
      <4>3. QED
        BY <4>1, <4>2
    <3>3. PICK o : o = Flow(k)
      OBVIOUS
    <3>4. o \in DOMAIN mOutgoingTable /\ mOutgoingTable[o].ip = ip /\ mOutgoingTable[o].port = port
      BY <3>1, <3>2, <3>3 DEF Bound, Public, Address
    <3>5. /\ o \in DOMAIN mOutgoingTable' /\ key \in DOMAIN mOutgoingTable'
          /\ mOutgoingTable'[o].ip = mOutgoingTable'[key].ip
          /\ mOutgoingTable'[o].port = mOutgoingTable'[key].port
      BY <1>3, <3>4
    <3>6. o = key
      <4>1. BindingExclusive' /\ Exclusive'
        BY <1>3, <2>2 DEF IInv, Exclusive
      <4>2. QED
        BY <3>5, <4>1 DEF BindingExclusive, Endpoint
    <3>7. FlowTo(k) = FlowTo(step)
      BY <1>1, <3>3, <3>6, PoolOwn DEF IInv
    <3>8. mIncommingTable[i].ip = pk.src /\ mIncommingTable[i].port = SourcePort
      BY <3>1, <3>7 DEF LeadsTo
    <3>9. mIncommingTable'[i] = mIncommingTable[i]
      BY <1>3, <2>2 DEF Admitted
    <3>10. QED
      BY <3>8, <3>9
  <2>3. QED
    BY <2>1, <2>2
<1>9. QED
  BY <1>2, <1>4, <1>5, <1>6, <1>7, <1>8

\* So do the answers of the flows bound before, and the first port stays the first's.
LEMMA PoolKept ==
  ASSUME SessionTypeOK, IInv, IInv', PoolMeant, PoolReady, PoolLearnt, Asks,
         UNCHANGED <<test, step, report, mapped>>,
         NEW pk, pk = FlowTo(step), NEW ip, NEW port, LeavesWell(pk, ip, port)
  PROVE  PoolReady' /\ PoolLearnt'
<1>1. PICK key : key = Flow(step)
  OBVIOUS
<1>2. PICK i : i = IncommingPk(pk.dst, pk.dport, ip, port)
  OBVIOUS
<1>3. Leaves(pk, ip, port)
  BY DEF LeavesWell
<1>4. /\ UNCHANGED <<mConfig, mThread>> /\ DOMAIN mAvailablePorts' = DOMAIN mAvailablePorts
      /\ key = KeyOf(pk) /\ pk.sport = SourcePort
      /\ DOMAIN mOutgoingTable' = DOMAIN mOutgoingTable \cup {key}
      /\ \A o \in DOMAIN mOutgoingTable' : mOutgoingTable'[o].age = 0
      /\ \A o \in DOMAIN mOutgoingTable : /\ mOutgoingTable'[o].ip = mOutgoingTable[o].ip
                                          /\ mOutgoingTable'[o].port = mOutgoingTable[o].port
      /\ mOutgoingTable'[key].ip = ip /\ mOutgoingTable'[key].port = port
      /\ Admitted(pk, i, mIncommingTable, mIncommingTable')
      /\ key \notin DOMAIN mOutgoingTable =>
           /\ mConfig.mPortOverloading => port = SourcePort
           /\ DOMAIN mOutgoingTable = {} => (port = SourcePort <=> SamePort)
  BY <1>1, <1>2, <1>3, FlowFacts DEF LeavesWell, Leaves, Flow
<1>5. /\ \A k : FlowTo(k)' = FlowTo(k) /\ Flow(k)' = Flow(k)
      /\ \A k : Bound(k) => Bound(k)' /\ Public(k)' = Public(k) /\ AnswerKey(k)' = AnswerKey(k)
      /\ Bound(step)' /\ Public(step)' = Address(ip, port)
      /\ AnswerKey(step)' = i
      /\ mIncommingTable'[i].ip = FlowTo(step).src /\ mIncommingTable'[i].port = SourcePort
  BY <1>2, <1>3, PoolBound
<1>6. step \in Nat /\ step >= 1 /\ test \in {"pooling", "overloading"} /\ (test = "pooling" => step = 1)
  BY PoolRequest DEF PoolMeant
<1>7. step \in 1 .. step
  BY <1>6
<1>8. step = 1 \/ Bound(1)
  <2>1. step = 1 \/ step >= 2
    BY <1>6
  <2>2. QED
    BY <1>6, <2>1 DEF PoolLearnt
<1>9. ~Bound(1) => step = 1 /\ DOMAIN mOutgoingTable = {}
  <2> SUFFICES ASSUME ~Bound(1), NEW o \in DOMAIN mOutgoingTable, step = 1 PROVE FALSE
    BY <1>8
  <2>1. PICK k \in 1 .. step : o = Flow(k)
    BY DEF PoolReady
  <2>2. k = 1
    BY <2>1
  <2>3. QED
    BY <2>1, <2>2 DEF Bound
<1>10. Exclusive' = Exclusive /\ SamePort' = SamePort
  BY <1>4 DEF Exclusive, SamePort
<1>11. \A o \in DOMAIN mOutgoingTable' : \E k \in 1 .. step : o = Flow(k)
  BY <1>1, <1>4, <1>7 DEF PoolReady
<1>12. mConfig.mPortOverloading => \A o \in DOMAIN mOutgoingTable' : mOutgoingTable'[o].port = SourcePort
  BY <1>4 DEF PoolReady
<1>13. Exclusive => \A x \in DOMAIN mIncommingTable' :
                      \E k \in 1 .. step : Bound(k)' /\ x = AnswerKey(k)' /\ LeadsTo(x, k)'
  <2> SUFFICES ASSUME Exclusive, NEW x \in DOMAIN mIncommingTable'
               PROVE  \E k \in 1 .. step : Bound(k)' /\ x = AnswerKey(k)' /\ LeadsTo(x, k)'
    OBVIOUS
  <2>1. CASE x = i
    <3>1. LeadsTo(x, step)'
      <4>1. FlowTo(step)' = FlowTo(step)
        BY <1>5
      <4>2. QED
        BY <1>5, <2>1, <4>1 DEF LeadsTo
    <3>2. QED
      BY <1>5, <1>7, <2>1, <3>1
  <2>2. CASE x # i
    <3>1. x \in DOMAIN mIncommingTable /\ mIncommingTable'[x] = mIncommingTable[x]
      BY <1>4, <2>2 DEF Admitted
    <3>2. PICK k \in 1 .. step : Bound(k) /\ x = AnswerKey(k) /\ LeadsTo(x, k)
      BY <3>1 DEF PoolReady
    <3>3. LeadsTo(x, k)'
      BY <1>5, <3>1, <3>2 DEF LeadsTo
    <3>4. QED
      BY <1>5, <3>2, <3>3
  <2>3. QED
    BY <2>1, <2>2
<1>14. Bound(1)' => (Public(1)'.port = SourcePort <=> SamePort)
  <2>1. CASE Bound(1)
    BY <1>5, <2>1 DEF PoolReady
  <2>2. CASE ~Bound(1)
    <3>1. key \notin DOMAIN mOutgoingTable /\ step = 1 /\ (port = SourcePort <=> SamePort)
      BY <1>4, <1>9, <2>2
    <3>2. Public(step)'.port = port
      BY <1>5 DEF Address
    <3>3. Public(1)'.port = port
      BY <3>1, <3>2
    <3>4. QED
      BY <3>1, <3>3
  <2>3. QED
    BY <2>1, <2>2
<1>15. PoolReady'
  BY <1>4, <1>5, <1>10, <1>11, <1>12, <1>13, <1>14 DEF PoolReady
<1>16. PoolLearnt'
  <2>1. step % 2 = 0 => step >= 2
    BY <1>6
  <2>2. test = "overloading" /\ step >= 2 => Bound(1)
    BY DEF PoolLearnt
  <2>3. QED
    BY <1>5, <2>1, <2>2 DEF PoolLearnt
<1>17. QED
  BY <1>15, <1>16

\* Nothing of this changes with the steps that leave the NAT and the test where they are.
LEMMA PoolSame ==
  ASSUME UNCHANGED <<vars, test, step, mapped, changed, report>>
  PROVE  /\ PoolReady' = PoolReady /\ PoolLearnt' = PoolLearnt
         /\ \A p : PoolWay(p)' = PoolWay(p)
         /\ \A w : TellsFlow(w)' = TellsFlow(w)
         /\ Bound(step)' = Bound(step)
<1>1. UNCHANGED <<mConfig, mThread, mOutgoingTable, mIncommingTable, mAvailablePorts, test, step,
                  mapped, changed, report>>
  BY DEF vars
<1>2. /\ \A k : FlowTo(k)' = FlowTo(k) /\ Flow(k)' = Flow(k)
      /\ \A a, p, b, q : IncommingPk(a, p, b, q)' = IncommingPk(a, p, b, q)
  BY <1>1, SameFlows
<1>3. \A k : Bound(k)' = Bound(k) /\ Public(k)' = Public(k) /\ AnswerKey(k)' = AnswerKey(k)
  <2> SUFFICES ASSUME NEW k
               PROVE  Bound(k)' = Bound(k) /\ Public(k)' = Public(k) /\ AnswerKey(k)' = AnswerKey(k)
    OBVIOUS
  <2>1. Bound(k)' = Bound(k) /\ Public(k)' = Public(k)
    BY <1>1, <1>2 DEF Bound, Public
  <2>2. AnswerKey(k)' = AnswerKey(k)
    BY <1>2, <2>1 DEF AnswerKey
  <2>3. QED
    BY <2>1, <2>2
<1>4. PoolReady' = PoolReady
  BY <1>1, <1>2, <1>3 DEF PoolReady, LeadsTo, Exclusive, SamePort
<1>5. PoolLearnt' = PoolLearnt
  BY <1>1, <1>3 DEF PoolLearnt
<1>6. \A w : TellsFlow(w)' = TellsFlow(w)
  BY <1>1, <1>3 DEF TellsFlow
<1>7. Wire' = Wire
  BY <1>1, SameRequest
<1>8. \A p : PoolWay(p)' = PoolWay(p)
  BY <1>1, <1>2, <1>3, <1>6, <1>7 DEF PoolWay, LeadsTo
<1>9. Bound(step)' = Bound(step)
  BY <1>1, <1>3
<1>10. QED
  BY <1>4, <1>5, <1>6, <1>8, <1>9

\* The packets of a request under way: there is at most one.
LEMMA PoolWait ==
  ASSUME SessionTypeOK, OneRequest, PoolInv, PoolMeant, phase = "wait", NEW p \in net
  PROVE  /\ Asks /\ Slot = "P" /\ net = {p} /\ mRcvQueue["P"] = <<>>
         /\ step \in Nat /\ step >= 1
         /\ PoolReady /\ PoolLearnt /\ PoolWay(p)
         /\ me["P"] = Address(FlowTo(step).src, SourcePort)
         /\ p \in FromClient \cup ToServer \cup FromServer \cup ToClient /\ TypeOK
<1>1. Asks /\ Slot = "P" /\ step \in Nat /\ step >= 1
  BY PoolRequest DEF Asks
<1>2. PoolReady /\ PoolLearnt /\ PoolWay(p) /\ me["P"] = Address(FlowTo(step).src, SourcePort)
  BY <1>1 DEF PoolInv
<1>3. net = {p} /\ mRcvQueue["P"] = <<>>
  BY <1>1 DEF OneRequest
<1>4. QED
  BY <1>1, <1>2, <1>3 DEF SessionTypeOK, NetType

\* The request leaves, for the server.
LEMMA PoolOutgoing ==
  ASSUME SessionTypeOK, IInv, IInv', OneRequest, PoolInv, SourcePort # 0, PoolMeant, phase = "wait",
         NEW p \in net, Outgoing(p)
  PROVE  /\ PoolReady' /\ PoolLearnt' /\ mRcvQueue'["P"] = <<>>
         /\ \E q : net' = {q} /\ PoolWay(q)'
<1>1. /\ Asks /\ net = {p} /\ mRcvQueue["P"] = <<>>
      /\ PoolReady /\ PoolLearnt /\ PoolWay(p)
      /\ p \in FromClient \cup ToServer \cup FromServer \cup ToClient /\ TypeOK
  BY PoolWait
<1>2. p \in FromClient /\ p.src \in PrivateIPs /\ p.src \notin PublicIPs
  BY <1>1, Sides, AddressAssumption DEF Outgoing
<1>3. UNCHANGED <<test, step, phase, mapped, changed, report, mRcvQueue>>
  BY DEF Outgoing, clientVars
<1>4. PICK pk : pk = FlowTo(step)
  OBVIOUS
<1>5. Header(p) = pk /\ p.wire = Wire
  BY <1>1, <1>2, <1>4 DEF PoolWay
<1>6. PICK ip, port : LeavesWell(pk, ip, port)
  BY <1>1, <1>4, <1>5, PoolLeaves DEF Outgoing
<1>7. PoolReady' /\ PoolLearnt'
  BY <1>1, <1>3, <1>4, <1>6, PoolKept
<1>8. /\ \A k : FlowTo(k)' = FlowTo(k) /\ Flow(k)' = Flow(k)
      /\ Bound(step)' /\ Public(step)' = Address(ip, port)
      /\ AnswerKey(step)' \in DOMAIN mIncommingTable'
      /\ mIncommingTable'[AnswerKey(step)'].ip = FlowTo(step).src
      /\ mIncommingTable'[AnswerKey(step)'].port = SourcePort
  BY <1>1, <1>3, <1>4, <1>6, PoolBound DEF LeavesWell
<1>9. sent' # Nothing /\ sent'.from[1] = ip /\ sent'.from[2] = port
  BY <1>6 DEF LeavesWell, Leaves
<1>10. PICK q \in ToServer :
         /\ net' = (net \ {p}) \cup {q}
         /\ q.src = sent'.from[1] /\ q.sport = sent'.from[2]
         /\ q.dst = p.dst /\ q.dport = p.dport /\ q.wire = p.wire
  BY <1>1, <1>2, <1>9, OutgoingPacket
<1>11. net' = {q}
  BY <1>1, <1>10
<1>12. q.src \in NatIPs /\ q.dst \in PublicIPs
  BY DEF ToServer, Between
<1>13. q.src \notin PrivateIPs /\ q.src \notin PublicIPs /\ q.dst \notin NatIPs /\ q.dst \notin PrivateIPs
  BY <1>12, AddressAssumption
<1>14. q.src = Public(step)'.ip /\ q.sport = Public(step)'.port
  BY <1>8, <1>9, <1>10 DEF Address
<1>15. q.dst = ServerAIP /\ q.dport = ServerPort1 /\ q.wire = Wire
  <2>1. p.dst = pk.dst /\ p.dport = pk.dport
    BY <1>5 DEF Header
  <2>2. pk.dst = ServerAIP /\ pk.dport = ServerPort1
    BY <1>4, PoolPackets DEF PoolMeant
  <2>3. QED
    BY <1>5, <1>10, <2>1, <2>2
<1>16. Wire' = Wire /\ FlowTo(step)' = FlowTo(step)
  BY <1>3, <1>8, SameRequest
<1>17. PoolWay(q)'
  BY <1>3, <1>8, <1>12, <1>13, <1>14, <1>15, <1>16 DEF PoolWay, LeadsTo
<1>18. QED
  BY <1>1, <1>3, <1>7, <1>11, <1>17

\* The answer finds the entry that leads to who asked.
LEMMA PoolIncomming ==
  ASSUME SessionTypeOK, IInv, OneRequest, PoolInv, PoolMeant, phase = "wait",
         NEW p \in net, Incomming(p)
  PROVE  /\ PoolReady' /\ PoolLearnt' /\ mRcvQueue'["P"] = <<>>
         /\ \E q : net' = {q} /\ PoolWay(q)'
<1>1. /\ Asks /\ net = {p} /\ mRcvQueue["P"] = <<>>
      /\ PoolReady /\ PoolLearnt /\ PoolWay(p)
      /\ p \in FromClient \cup ToServer \cup FromServer \cup ToClient /\ TypeOK
  BY PoolWait
<1>2. /\ p \in FromServer /\ Header(p) \in InPackets
      /\ p.src \in PublicIPs /\ p.src \notin PrivateIPs /\ p.dst \in NatIPs
  BY <1>1, Sides, AddressAssumption DEF Incomming
<1>3. UNCHANGED <<test, step, phase, mapped, changed, report, mRcvQueue>>
  BY DEF Incomming, clientVars
<1>4. PICK pk : pk = Header(p)
  OBVIOUS
<1>5. PICK key : key = AnswerKey(step)
  OBVIOUS
<1>6. /\ Bound(step) /\ key \in DOMAIN mIncommingTable
      /\ mIncommingTable[key].ip = FlowTo(step).src /\ mIncommingTable[key].port = SourcePort
      /\ TellsFlow(p.wire) /\ p.src = ServerAIP /\ p.sport = ServerPort1
      /\ p.dst = Public(step).ip /\ p.dport = Public(step).port
  BY <1>1, <1>2, <1>5 DEF PoolWay, LeadsTo
<1>7. FilterKey(pk) = key
  <2>1. FlowTo(step).dst = ServerAIP /\ FlowTo(step).dport = ServerPort1
    BY PoolPackets DEF PoolMeant
  <2>2. pk.src = ServerAIP /\ pk.sport = ServerPort1 /\ pk.dst = Public(step).ip /\ pk.dport = Public(step).port
    BY <1>4, <1>6 DEF Header
  <2>3. QED
    BY <1>5, <2>1, <2>2 DEF FilterKey, AnswerKey
<1>8. /\ UNCHANGED <<mConfig, mThread, mIncommingTable, mAvailablePorts>>
      /\ DOMAIN mOutgoingTable' = DOMAIN mOutgoingTable
      /\ \A o \in DOMAIN mOutgoingTable : /\ mOutgoingTable'[o].ip = mOutgoingTable[o].ip
                                          /\ mOutgoingTable'[o].port = mOutgoingTable[o].port
                                          /\ mOutgoingTable'[o].age = 0
      /\ sent' # Nothing
  <2>1. pk \in InPackets /\ TreatIncommingPacket(pk)
    BY <1>2, <1>4 DEF Incomming
  <2>2. \A o \in DOMAIN mOutgoingTable : mOutgoingTable[o].age = 0
    BY <1>1 DEF PoolReady
  <2>3. QED
    BY <1>1, <1>6, <1>7, <2>1, <2>2, IncommingPasses
<1>9. /\ \A k : FlowTo(k)' = FlowTo(k) /\ Flow(k)' = Flow(k)
      /\ \A k : Bound(k) => Bound(k)' /\ Public(k)' = Public(k) /\ AnswerKey(k)' = AnswerKey(k)
      /\ \A k : Bound(k)' => Bound(k)
  <2>1. \A k : FlowTo(k)' = FlowTo(k) /\ Flow(k)' = Flow(k)
    BY <1>3, <1>8, SameFlows
  <2>2. \A k : Bound(k) => Bound(k)' /\ Public(k)' = Public(k) /\ AnswerKey(k)' = AnswerKey(k)
    BY <1>3, <1>8, SameBound
  <2>3. \A k : Bound(k)' => Bound(k)
    BY <1>8, <2>1 DEF Bound
  <2>4. QED
    BY <2>1, <2>2, <2>3
<1>10. PoolReady'
  <2>1. Exclusive' = Exclusive /\ SamePort' = SamePort
    BY <1>8 DEF Exclusive, SamePort
  <2>2. \A i, k : LeadsTo(i, k)' = LeadsTo(i, k)
    BY <1>8, <1>9 DEF LeadsTo
  <2>3. Bound(1)' => (Public(1)'.port = SourcePort <=> SamePort)
    BY <1>1, <1>9 DEF PoolReady
  <2>4. Exclusive => \A i \in DOMAIN mIncommingTable :
                       \E k \in 1 .. step : Bound(k)' /\ i = AnswerKey(k)' /\ LeadsTo(i, k)'
    BY <1>1, <1>9, <2>2 DEF PoolReady
  <2>5. QED
    BY <1>1, <1>3, <1>8, <1>9, <2>1, <2>3, <2>4 DEF PoolReady
<1>11. PoolLearnt'
  <2>1. step % 2 = 0 => step >= 2
    BY <1>1, PoolWait
  <2>2. QED
    BY <1>1, <1>3, <1>9, <2>1 DEF PoolLearnt
<1>12. PICK q \in ToClient :
          /\ net' = (net \ {p}) \cup {q}
          /\ q.src = p.src /\ q.sport = p.sport /\ q.wire = p.wire
          /\ q.dst = mIncommingTable[FilterKey(Header(p))].ip
          /\ q.dport = mIncommingTable[FilterKey(Header(p))].port
  <2>1. \/ sent' = Nothing /\ net' = net \ {p}
        \/ \E q \in ToClient :
             /\ net' = (net \ {p}) \cup {q}
             /\ FilterKey(Header(p)) \in DOMAIN mIncommingTable
             /\ q.src = p.src /\ q.sport = p.sport /\ q.wire = p.wire
             /\ q.dst = mIncommingTable[FilterKey(Header(p))].ip
             /\ q.dport = mIncommingTable[FilterKey(Header(p))].port
    BY <1>1, <1>2, IncommingPacket
  <2>2. QED
    BY <1>8, <2>1
<1>13. net' = {q} /\ q.dst = FlowTo(step).src /\ q.dport = SourcePort
  BY <1>1, <1>4, <1>6, <1>7, <1>12
<1>14. /\ q.src \in PublicIPs /\ q.src \notin PrivateIPs /\ q.src \notin NatIPs
       /\ q.dst \in PrivateIPs /\ q.dst \notin NatIPs
  BY AddressAssumption DEF ToClient, Between
<1>15. /\ Bound(step)' /\ AnswerKey(step)' = key /\ Public(step)' = Public(step)
       /\ FlowTo(step)' = FlowTo(step)
  BY <1>3, <1>5, <1>6, <1>9
<1>16. TellsFlow(q.wire)'
  <2>1. PICK w : w = q.wire
    OBVIOUS
  <2>2. Learned(decode(w), MAPPED_ADDRESS) = Public(step)'
    BY <1>6, <1>12, <1>15, <2>1 DEF TellsFlow
  <2>3. TellsFlow(w)'
    BY <1>3, <2>2 DEF TellsFlow
  <2>4. QED
    BY <2>1, <2>3
<1>17. PoolWay(q)'
  BY <1>3, <1>6, <1>8, <1>12, <1>13, <1>14, <1>15, <1>16 DEF PoolWay, LeadsTo
<1>18. QED
  BY <1>1, <1>3, <1>10, <1>11, <1>13, <1>17

\* The server answers from where it was asked, and tells where the flow is bound.
LEMMA PoolServe ==
  ASSUME SessionTypeOK, OneRequest, PoolInv, PoolMeant, phase = "wait", NEW p \in net, Serve(p)
  PROVE  /\ PoolReady' /\ PoolLearnt' /\ mRcvQueue'["P"] = <<>>
         /\ \E q : net' = {q} /\ PoolWay(q)'
<1>1. /\ Asks /\ net = {p} /\ mRcvQueue["P"] = <<>>
      /\ PoolReady /\ PoolLearnt /\ PoolWay(p)
      /\ p \in FromClient \cup ToServer \cup FromServer \cup ToClient /\ TypeOK
  BY PoolWait
<1>2. /\ p \in ToServer /\ p.src \in NatIPs /\ p.src \notin PublicIPs /\ p.src \notin PrivateIPs
  BY <1>1, Sides, AddressAssumption DEF Serve
<1>3. /\ Bound(step) /\ AnswerKey(step) \in DOMAIN mIncommingTable /\ LeadsTo(AnswerKey(step), step)
      /\ p.wire = Wire /\ p.src = Public(step).ip /\ p.sport = Public(step).port
      /\ p.dst = ServerAIP /\ p.dport = ServerPort1
  BY <1>1, <1>2 DEF PoolWay
<1>4. PICK msg : msg = decode(p.wire)
  OBVIOUS
<1>5. PICK source : source = Source(p, msg.attrs[CHANGE_REQUEST])
  OBVIOUS
<1>6. PICK q : q = Answer(p)
  OBVIOUS
<1>7. /\ ~msg.attrs[CHANGE_REQUEST].ip /\ ~msg.attrs[CHANGE_REQUEST].port
      /\ RESPONSE_ADDRESS \notin DOMAIN msg.attrs
  BY <1>3, <1>4, WireIs DEF PoolMeant
<1>8. /\ decode(p.wire) # Failed
      /\ q \in FromServer /\ q.src = source.ip /\ q.sport = source.port
      /\ q.dst = p.src /\ q.dport = p.sport
      /\ Learned(decode(q.wire), MAPPED_ADDRESS) = Address(p.src, p.sport)
  BY <1>2, <1>4, <1>5, <1>6, <1>7, AnswerIs
<1>9. source.ip = ServerAIP /\ source.port = ServerPort1
  BY <1>3, <1>5, <1>7 DEF Source, Address
<1>10. TellsFlow(q.wire)
  BY <1>3, <1>8 DEF TellsFlow, Public, Address
<1>11. /\ q.src \in PublicIPs /\ q.src \notin PrivateIPs /\ q.src \notin NatIPs
       /\ q.dst \in NatIPs /\ q.dst \notin PrivateIPs
  BY <1>8, AddressAssumption DEF FromServer, Between
<1>12. PoolWay(q)
  BY <1>3, <1>8, <1>9, <1>10, <1>11 DEF PoolWay
<1>13. /\ UNCHANGED <<vars, test, step, mapped, changed, report, mRcvQueue>> /\ net' = {q}
  BY <1>1, <1>6, <1>8 DEF Serve, clientVars
<1>14. PoolReady' /\ PoolLearnt' /\ PoolWay(q)'
  BY <1>1, <1>12, <1>13, PoolSame
<1>15. QED
  BY <1>1, <1>13, <1>14

\* The answer reaches the client that waits for it.
LEMMA PoolDeliver ==
  ASSUME SessionTypeOK, OneRequest, PoolInv, PoolMeant, phase = "wait", NEW p \in net, Deliver(p)
  PROVE  /\ PoolReady' /\ PoolLearnt' /\ net' = {} /\ mRcvQueue'["P"] # <<>>
         /\ \A i \in 1 .. Len(mRcvQueue'["P"]) : Bound(step)' /\ TellsFlow(mRcvQueue["P"][i])'
<1>1. /\ net = {p} /\ mRcvQueue["P"] = <<>>
      /\ PoolReady /\ PoolLearnt /\ PoolWay(p)
      /\ me["P"] = Address(FlowTo(step).src, SourcePort)
  BY PoolWait
<1>2. p.src \in PublicIPs /\ p.src \notin PrivateIPs /\ p.dst \in PrivateIPs
  BY AddressAssumption DEF Deliver
<1>3. Bound(step) /\ TellsFlow(p.wire) /\ p.dst = FlowTo(step).src /\ p.dport = SourcePort
  BY <1>1, <1>2 DEF PoolWay
<1>4. PICK w : w = p.wire
  OBVIOUS
<1>5. /\ UNCHANGED <<vars, test, step, mapped, changed, report>> /\ net' = {}
      /\ mRcvQueue'["P"] = <<w>>
  <2>1. UNCHANGED <<vars, test, step, mapped, changed, report>> /\ net' = net \ {p}
    BY DEF Deliver, clientVars
  <2>2. mRcvQueue'["P"] = IF me["P"] = Address(p.dst, p.dport)
                          THEN Append(mRcvQueue["P"], p.wire) ELSE mRcvQueue["P"]
    BY DEF Deliver, Slots
  <2>3. Append(<<>>, w) = <<w>>
    OBVIOUS
  <2>4. QED
    BY <1>1, <1>3, <1>4, <2>1, <2>2, <2>3
<1>6. PoolReady' /\ PoolLearnt' /\ Bound(step)' /\ TellsFlow(w)'
  BY <1>1, <1>3, <1>4, <1>5, PoolSame
<1>7. \A i \in 1 .. Len(mRcvQueue'["P"]) : mRcvQueue'["P"][i] = w
  BY <1>5
<1>8. mRcvQueue'["P"] # <<>>
  <2>1. <<w>> # <<>>
    OBVIOUS
  <2>2. QED
    BY <1>5, <2>1
<1>9. QED
  BY <1>5, <1>6, <1>7, <1>8

\* Calls fail one by one.
LEMMA PoolFails ==
  ASSUME fails \in Nat, [SessionNext]_allVars
  PROVE  /\ fails' \in Nat /\ (AllUp' => AllUp /\ fails' = fails)
         /\ UNCHANGED <<mConfig, test>>
<1>1. fails' = fails \/ fails' = fails + 1
  <2>1. CASE ClientStep
    BY <2>1 DEF ClientStep, StartParts, ServerStart, Ask, AskDeaf, Retry, Answered, Unanswered, CreateFails,
       Receive, ThreadFails, LifetimeThreadFails, OverloadingThreadFails, SleepTick, Wake, StopParts,
       Joined, Fail, othersVars
  <2>2. CASE ServerStep
    BY <2>2 DEF ServerStep, ServerBegins, ServerLeaves, Fail
  <2>3. CASE \E p \in net : Carry(p) \/ Lose(p)
    BY <2>3 DEF Carry, Lose, Outgoing, Incomming, Serve, Unheard, Deliver, othersVars
  <2>4. QED
    BY <2>1, <2>2, <2>3 DEF SessionNext, allVars, sessionVars
<1>2. QED
  BY <1>1, ConfigStays DEF AllUp

\* A packet that is carried stays under way or arrives; one that does not was lost.
LEMMA PoolCarry ==
  ASSUME SessionTypeOK, IInv, IInv', OneRequest, PoolInv, SourcePort # 0,
         NEW p \in net, Carry(p) \/ Lose(p)
  PROVE  PoolInv'
<1>1. SessionNext /\ fails \in Nat
  BY DEF SessionNext, PoolInv
<1>2. /\ fails' \in Nat /\ (AllUp' => AllUp /\ fails' = fails) /\ UNCHANGED <<mConfig, test>>
  BY <1>1, PoolFails
<1>3. UNCHANGED <<step, phase, me, retries, server, mapped, changed, report>> /\ Asks' = Asks
  <2>1. UNCHANGED clientVars
    BY OnTheWay
  <2>2. UNCHANGED server
    BY DEF Carry, Outgoing, Incomming, Serve, Unheard, Deliver, Lose, othersVars
  <2>3. QED
    BY <2>1, <2>2 DEF clientVars, Asks
<1>4. phase \notin {"start", "ask", "sleep"}
  BY DEF OneRequest
<1>5. PoolMeant' => PoolMeant
  BY <1>2, <1>3 DEF PoolMeant
<1>6. /\ test \in {"pooling", "overloading"} /\ AllUp' =>
           /\ Asks => server \in {"created", "loop"}
           /\ test = "pooling" /\ Asks /\ step # 1 => mapped[1] # NoAddress
  BY <1>2 DEF PoolInv
<1>7. CASE ~(PoolMeant' /\ phase = "wait")
  BY <1>2, <1>3, <1>4, <1>6, <1>7 DEF PoolInv, Asks
<1>8. CASE PoolMeant' /\ phase = "wait"
  <2>1. /\ PoolMeant /\ net = {p} /\ mRcvQueue["P"] = <<>> /\ PoolReady /\ PoolLearnt
        /\ step \in Nat /\ step >= 1 /\ me["P"] = Address(FlowTo(step).src, SourcePort)
    BY <1>5, <1>8, PoolWait
  <2>2. /\ retries \in Nat /\ lost \in 0 .. MaxLost /\ MaxLost \in Nat
        /\ retries <= lost + 1
        /\ server \in {"created", "loop"}
    BY <1>6, <1>8, <2>1, SessionConstants DEF PoolInv, Asks, PoolMeant
  <2>3. me'["P"] = Address(FlowTo(step)'.src, SourcePort)
    <3>1. FlowTo(step)' = FlowTo(step)
      BY <1>2, <1>3, SameFlows
    <3>2. QED
      BY <1>3, <2>1, <3>1
  <2>4. /\ PoolReady' /\ PoolLearnt' /\ \A q \in net' : PoolWay(q)'
        /\ \A i \in 1 .. Len(mRcvQueue'["P"]) : Bound(step)' /\ TellsFlow(mRcvQueue["P"][i])'
        /\ lost' \in 0 .. MaxLost
        /\ retries <= lost' + (IF net' = {} /\ mRcvQueue'["P"] = <<>> THEN 0 ELSE 1)
    <3>1. CASE Outgoing(p) \/ Incomming(p) \/ Serve(p)
      <4>1. /\ PoolReady' /\ PoolLearnt' /\ mRcvQueue'["P"] = <<>>
            /\ \E q : net' = {q} /\ PoolWay(q)'
        BY <1>8, <2>1, <3>1, PoolOutgoing, PoolIncomming, PoolServe
      <4>2. lost' = lost
        BY <3>1 DEF Outgoing, Incomming, Serve
      <4>3. net' # {} /\ \A q \in net' : PoolWay(q)'
        BY <4>1
      <4>4. QED
        BY <2>2, <4>1, <4>2, <4>3
    <3>2. CASE Deliver(p)
      <4>1. /\ PoolReady' /\ PoolLearnt' /\ net' = {} /\ mRcvQueue'["P"] # <<>>
            /\ \A i \in 1 .. Len(mRcvQueue'["P"]) : Bound(step)' /\ TellsFlow(mRcvQueue["P"][i])'
        BY <1>8, <2>1, <3>2, PoolDeliver
      <4>2. lost' = lost
        BY <3>2 DEF Deliver
      <4>3. QED
        BY <2>2, <4>1, <4>2
    <3>3. CASE Unheard(p) \/ Lose(p)
      <4>1. /\ lost < MaxLost /\ lost' = lost + 1 /\ net' = net \ {p}
            /\ mRcvQueue' = mRcvQueue /\ UNCHANGED vars
        BY <2>2, <3>3 DEF Unheard, Lose
      <4>2. net' = {} /\ mRcvQueue'["P"] = <<>>
        BY <2>1, <4>1
      <4>3. lost' \in 0 .. MaxLost /\ retries <= lost' /\ lost' \in Int
        <5>1. lost' \in 0 .. MaxLost /\ retries <= lost'
          BY <2>2, <4>1
        <5>2. QED
          BY <5>1
      <4>4. (IF net' = {} /\ mRcvQueue'["P"] = <<>> THEN 0 ELSE 1) = 0
        BY <4>2
      <4>5. retries <= lost' + 0
        BY <4>3
      <4>6. PoolReady' /\ PoolLearnt'
        BY <1>2, <1>3, <2>1, <4>1, PoolSame
      <4>7. QED
        BY <4>2, <4>3, <4>4, <4>5, <4>6
    <3>4. QED
      BY <3>1, <3>2, <3>3 DEF Carry
  <2>5. QED
    BY <1>2, <1>3, <1>6, <1>8, <2>2, <2>3, <2>4 DEF PoolInv, Asks
<1>9. QED
  BY <1>7, <1>8

\* The test has started: the NAT runs, and its tables are empty.
LEMMA PoolStart ==
  ASSUME SessionTypeOK, IInv, PoolInv, StartParts
  PROVE  PoolInv'
<1>1. /\ phase = "start" /\ phase' = "ask" /\ step' = 1 /\ UNCHANGED <<me, report>>
      /\ Start(mConfig, [t \in Threads |-> "loop"]) /\ ServerStart
  BY DEF StartParts
<1>2. /\ fails \in Nat /\ fails' \in Nat /\ (AllUp' => AllUp /\ fails' = fails)
      /\ UNCHANGED <<mConfig, test>>
  BY PoolFails DEF PoolInv, SessionNext, ClientStep
<1> SUFFICES ASSUME test \in {"pooling", "overloading"} PROVE PoolInv'
  BY <1>1, <1>2 DEF PoolInv, PoolMeant
<1>3. (\A t \in Threads : mThread[t] = "none") /\ me["P"] = NoAddress /\ report = {}
  BY <1>1 DEF PoolInv
<1>4. AllUp' => server' = "created"
  BY <1>1, <1>2 DEF ServerStart, Fail
<1>5. /\ DOMAIN mOutgoingTable = {} /\ DOMAIN mIncommingTable = {} /\ DOMAIN mAvailablePorts = {}
  BY <1>3 DEF IInv, StoppedIsEmpty
<1>6. /\ mThread' = [t \in Threads |-> "loop"]
      /\ mAvailablePorts' = [ip \in NatIPs |-> {}]
      /\ mOutgoingTable' = mOutgoingTable /\ mIncommingTable' = mIncommingTable
  BY <1>1, <1>3, <1>5 DEF Start
<1>7. ~Bound(1)'
  BY <1>5, <1>6 DEF Bound
<1>8. PoolReady'
  BY <1>5, <1>6, <1>7 DEF PoolReady
<1>9. PoolLearnt'
  BY <1>1, <1>3 DEF PoolLearnt
<1>10. QED
  BY <1>1, <1>2, <1>3, <1>4, <1>8, <1>9 DEF PoolInv, Asks

\* The request is the packet of its flow.
LEMMA PoolAsks ==
  ASSUME SessionTypeOK, PoolMeant, Asks
  PROVE  PoolWay(Datagram(From, To, Wire))
<1>1. PICK p : p = Datagram(From, To, Wire)
  OBVIOUS
<1>2. /\ From = Address(FlowTo(step).src, SourcePort) /\ To = A1
      /\ FlowTo(step).src \in PrivateIPs /\ ServerAIP \in PublicIPs
  BY PoolRequest, FlowFacts, SessionConstants
<1>3. /\ p.src = FlowTo(step).src /\ p.sport = SourcePort
      /\ p.dst = ServerAIP /\ p.dport = ServerPort1 /\ p.wire = Wire
  BY <1>1, <1>2 DEF Datagram, Address, A1
<1>4. Header(p) = FlowTo(step)
  BY <1>3 DEF Header, FlowTo, PoolMeant
<1>5. p.src \in PrivateIPs /\ p.src \notin NatIPs /\ p.src \notin PublicIPs
      /\ p.dst \notin NatIPs /\ p.dst \notin PrivateIPs
  BY <1>2, <1>3, AddressAssumption
<1>6. QED
  BY <1>1, <1>3, <1>4, <1>5 DEF PoolWay

\* The first sending: a capture for the client's endpoint has been started.
LEMMA PoolAsk ==
  ASSUME SessionTypeOK, OneRequest, PoolInv, Ask \/ AskDeaf
  PROVE  PoolInv'
<1>1. /\ fails \in Nat /\ fails' \in Nat /\ (AllUp' => AllUp /\ fails' = fails)
      /\ UNCHANGED <<mConfig, test>>
  BY PoolFails DEF PoolInv, SessionNext, ClientStep
<1>2. /\ phase = "ask" /\ phase' = "wait" /\ UNCHANGED <<vars, step, server, mapped, changed, report>>
      /\ retries' = 1 /\ lost' = 0 /\ net' = net \cup {Datagram(From, To, Wire)}
      /\ mRcvQueue' = mRcvQueue \/ mRcvQueue' = [s \in Slots |-> <<>>]
  BY DEF Ask, AskDeaf, SendFirst
<1>3. PoolMeant' => PoolMeant
  BY <1>1, <1>2 DEF PoolMeant
<1>4. test \in {"pooling", "overloading"} /\ AllUp' =>
        /\ server \in {"created", "loop"}
        /\ test = "pooling" /\ step # 1 => mapped[1] # NoAddress
  BY <1>1, <1>2 DEF PoolInv, Asks
<1>5. CASE ~PoolMeant'
  BY <1>1, <1>2, <1>4, <1>5 DEF PoolInv, Asks
<1>6. CASE PoolMeant'
  <2>1. PoolMeant /\ Asks /\ AllUp' /\ ~AskDeaf
    BY <1>1, <1>2, <1>3, <1>6 DEF Asks, AskDeaf, Fail, PoolMeant
  <2>2. net = {} /\ mRcvQueue'["P"] = <<>>
    BY <1>2 DEF OneRequest, Slots
  <2>3. /\ From = Address(FlowTo(step).src, SourcePort) /\ Slot = "P" /\ Creates
    BY <2>1, PoolRequest
  <2>4. me'["P"] = Address(FlowTo(step)'.src, SourcePort)
    <3>1. me' = [me EXCEPT ![Slot] = From]
      BY <2>1, <2>3 DEF Ask
    <3>2. me \in [Slots -> ClientAddress \cup {NoAddress}] /\ "P" \in Slots
      BY DEF SessionTypeOK, ClientType, Slots
    <3>3. FlowTo(step)' = FlowTo(step)
      BY <1>1, <1>2, SameFlows
    <3>4. QED
      BY <2>3, <3>1, <3>2, <3>3
  <2>5. PICK p : p = Datagram(From, To, Wire)
    OBVIOUS
  <2>6. net' = {p} /\ PoolWay(p)
    BY <1>2, <2>1, <2>2, <2>5, PoolAsks
  <2>7. PoolReady' /\ PoolLearnt' /\ PoolWay(p)'
    BY <1>1, <1>2, <2>1, <2>6, PoolSame DEF PoolInv
  <2>8. retries' \in Nat /\ lost' \in 0 .. MaxLost /\ retries' <= lost' + 1
    BY <1>2, SessionConstants
  <2>9. retries' <= lost' + (IF net' = {} /\ mRcvQueue'["P"] = <<>> THEN 0 ELSE 1)
    BY <2>6, <2>8
  <2>10. QED
    BY <1>1, <1>2, <1>4, <1>6, <2>1, <2>2, <2>4, <2>6, <2>7, <2>8, <2>9 DEF PoolInv, Asks
<1>7. QED
  BY <1>5, <1>6

\* The request is repeated when it, or its answer, was lost.
LEMMA PoolRetry ==
  ASSUME ~Late, SessionTypeOK, PoolInv, Retry
  PROVE  PoolInv'
<1>1. /\ fails \in Nat /\ fails' \in Nat /\ (AllUp' => AllUp /\ fails' = fails)
      /\ UNCHANGED <<mConfig, test>>
  BY PoolFails DEF PoolInv, SessionNext, ClientStep
<1>2. /\ phase = "wait" /\ phase' = "wait"
      /\ UNCHANGED <<vars, step, server, me, lost, mRcvQueue, mapped, changed, report>>
      /\ retries' = retries + 1
      /\ net = {} /\ net' = {Datagram(From, request.to, request.wire)} /\ mRcvQueue[Slot] = <<>>
  BY WaitedOut DEF Retry, othersVars
<1>3. PoolMeant' => PoolMeant
  BY <1>1, <1>2 DEF PoolMeant
<1>4. test \in {"pooling", "overloading"} /\ AllUp' =>
        /\ server \in {"created", "loop"}
        /\ test = "pooling" /\ step # 1 => mapped[1] # NoAddress
  BY <1>1, <1>2 DEF PoolInv, Asks
<1>5. CASE ~PoolMeant'
  BY <1>1, <1>2, <1>4, <1>5 DEF PoolInv, Asks
<1>6. CASE PoolMeant'
  <2>1. PoolMeant /\ Asks /\ Slot = "P"
    BY <1>2, <1>3, <1>6, PoolRequest DEF Asks
  <2>2. /\ PoolReady /\ PoolLearnt /\ me["P"] = Address(FlowTo(step).src, SourcePort)
        /\ retries \in Nat /\ lost \in 0 .. MaxLost /\ retries <= lost + 0
    BY <1>2, <2>1 DEF PoolInv
  <2>3. FlowTo(step)' = FlowTo(step)
    BY <1>1, <1>2, SameFlows
  <2>4. request.to = To /\ request.wire = Wire
    BY <1>2 DEF SessionTypeOK, ClientType, Requested
  <2>5. PICK p : p = Datagram(From, To, Wire)
    OBVIOUS
  <2>6. net' = {p} /\ PoolWay(p)
    BY <1>2, <2>1, <2>4, <2>5, PoolAsks
  <2>7. PoolReady' /\ PoolLearnt' /\ PoolWay(p)'
    BY <1>1, <1>2, <2>2, <2>6, PoolSame
  <2>8. retries' \in Nat /\ lost' \in 0 .. MaxLost /\ retries' <= lost' + 1
    BY <1>2, <2>2, SessionConstants
  <2>9. retries' <= lost' + (IF net' = {} /\ mRcvQueue'["P"] = <<>> THEN 0 ELSE 1)
    BY <2>6, <2>8
  <2>10. mRcvQueue'["P"] = <<>>
    BY <1>2, <2>1
  <2>11. me'["P"] = Address(FlowTo(step)'.src, SourcePort)
    BY <1>2, <2>2, <2>3
  <2>12. \A q \in net' : PoolWay(q)'
    BY <2>6, <2>7
  <2>13. \A i \in 1 .. Len(mRcvQueue'["P"]) : FALSE
    BY <2>10
  <2>14. UNCHANGED <<step, server, mapped>> /\ phase' = "wait"
    BY <1>2
  <2>15. QED
    BY <1>1, <1>4, <2>7, <2>8, <2>9, <2>11, <2>12, <2>13, <2>14 DEF PoolInv, Asks, PoolMeant
<1>7. QED
  BY <1>5, <1>6

\* What came of a request: NATReq2 and NATReq3 conclude from an answer that tells where
\* the flow is bound; without one while every part is up there is no request that counts.
LEMMA PoolTaken ==
  ASSUME ~Late, MaxLost <= 2, SessionTypeOK, PoolInv, test \in {"pooling", "overloading"},
         Answered \/ Unanswered
  PROVE  \E msg :
           /\ Conclude(msg)
           /\ msg # Failed => /\ Answers \subseteq DOMAIN msg.attrs
                              /\ Learned(msg, MAPPED_ADDRESS) \in NatAddress
           /\ PoolMeant => /\ msg # Failed /\ Bound(step)
                           /\ Learned(msg, MAPPED_ADDRESS) = Public(step)
<1>1. phase = "wait" /\ Slot = "P" /\ request.slot = "P"
  BY DEF Answered, Unanswered, SessionTypeOK, ClientType, Requested, Slot
<1>2. CASE Answered
  <2>1. PICK w : w = Head(mRcvQueue["P"])
    OBVIOUS
  <2>2. mRcvQueue["P"] # <<>> /\ Conclude(decode(w))
    BY <1>1, <1>2, <2>1 DEF Answered
  <2>3. mRcvQueue["P"] \in Seq(AnswerWires)
    BY DEF SessionTypeOK, NetType, Slots
  <2>4. w \in AnswerWires /\ w = mRcvQueue["P"][1] /\ 1 \in 1 .. Len(mRcvQueue["P"])
    BY <2>1, <2>2, <2>3
  <2>5. PoolMeant => Bound(step) /\ TellsFlow(w)
    BY <1>1, <2>4 DEF PoolInv
  <2>6. PICK msg : msg = decode(w)
    OBVIOUS
  <2>7. msg # Failed /\ Answers \subseteq DOMAIN msg.attrs /\ Learned(msg, MAPPED_ADDRESS) \in NatAddress
    BY <2>4, <2>6, AnswerFacts
  <2>8. PoolMeant => Bound(step) /\ Learned(msg, MAPPED_ADDRESS) = Public(step)
    BY <2>5, <2>6 DEF TellsFlow
  <2>9. Conclude(msg)
    BY <2>2, <2>6
  <2>10. QED
    BY <2>7, <2>8, <2>9
<1>3. CASE Unanswered
  <2>1. Conclude(Failed) /\ retries = 3 /\ net = {} /\ mRcvQueue["P"] = <<>>
    BY <1>1, <1>3, WaitedOut DEF Unanswered
  <2>2. PoolMeant => lost \in 0 .. MaxLost /\ retries <= lost + 0 /\ MaxLost \in Nat
    BY <1>1, <2>1, SessionConstants DEF PoolInv
  <2>3. ~PoolMeant
    BY <2>1, <2>2
  <2>4. QED
    BY <2>1, <2>3
<1>4. QED
  BY <1>2, <1>3

\* Flows of the odd requests of NATReq3, and of all of NATReq2, are the first's.
LEMMA FirstFlow ==
  ASSUME test = "overloading", step % 2 = 1
  PROVE  Flow(step) = Flow(1) /\ Public(step) = Public(1) /\ Bound(step) = Bound(1)
<1>1. FlowTo(step).src = FlowTo(1).src
  <2>1. step % 2 # 0 /\ 1 % 2 # 0
    OBVIOUS
  <2>2. QED
    BY <2>1, FlowFacts
<1>2. FlowTo(step) = FlowTo(1)
  BY <1>1, PoolPackets
<1>3. QED
  BY <1>2 DEF Flow, Public, Bound

\* The next request finds the NAT as the one before has left it.
LEMMA PoolNext ==
  ASSUME PoolReady, UNCHANGED <<vars, test>>, step \in Nat, step' = step + 1
  PROVE  PoolReady' /\ \A k : Bound(k)' = Bound(k) /\ Public(k)' = Public(k)
<1>1. UNCHANGED <<mConfig, mThread, mOutgoingTable, mIncommingTable, mAvailablePorts>>
  BY DEF vars
<1>2. /\ \A k : FlowTo(k)' = FlowTo(k) /\ Flow(k)' = Flow(k)
      /\ \A a, p, b, q : IncommingPk(a, p, b, q)' = IncommingPk(a, p, b, q)
  BY <1>1, SameFlows
<1>3. \A k : Bound(k)' = Bound(k) /\ Public(k)' = Public(k) /\ AnswerKey(k)' = AnswerKey(k)
  <2> SUFFICES ASSUME NEW k
               PROVE  Bound(k)' = Bound(k) /\ Public(k)' = Public(k) /\ AnswerKey(k)' = AnswerKey(k)
    OBVIOUS
  <2>1. Bound(k)' = Bound(k) /\ Public(k)' = Public(k)
    BY <1>1, <1>2 DEF Bound, Public
  <2>2. AnswerKey(k)' = AnswerKey(k)
    BY <1>2, <2>1 DEF AnswerKey
  <2>3. QED
    BY <2>1, <2>2
<1>4. \A k \in 1 .. step : k \in 1 .. step'
  OBVIOUS
<1>5. \A o \in DOMAIN mOutgoingTable : \E k \in 1 .. step' : o = Flow(k)
  BY <1>4 DEF PoolReady
<1>6. \A i, k : LeadsTo(i, k)' = LeadsTo(i, k)
  BY <1>1, <1>2 DEF LeadsTo
<1>7. Exclusive => \A i \in DOMAIN mIncommingTable :
                     \E k \in 1 .. step' : Bound(k)' /\ i = AnswerKey(k)' /\ LeadsTo(i, k)'
  BY <1>3, <1>4, <1>6 DEF PoolReady
<1>8. Exclusive' = Exclusive /\ SamePort' = SamePort
  BY <1>1 DEF Exclusive, SamePort
<1>9. Bound(1)' => (Public(1)'.port = SourcePort <=> SamePort)
  BY <1>3 DEF PoolReady
<1>10. PoolReady'
  BY <1>1, <1>2, <1>5, <1>7, <1>8, <1>9 DEF PoolReady
<1>11. QED
  BY <1>3, <1>10

\* What a test goes on with after an answer, or without one.
LEMMA PoolConclude ==
  ASSUME ~Late, MaxLost <= 2, SessionTypeOK, PoolInv, Answered \/ Unanswered
  PROVE  PoolInv'
<1>1. /\ fails \in Nat /\ fails' = fails
      /\ UNCHANGED <<mConfig, test, server>> /\ phase = "wait" /\ UNCHANGED vars
  BY DEF PoolInv, Answered, Unanswered, Conclude, vars
<1>2. phase' # "start"
  <2>1. PICK msg : Conclude(msg) /\ (msg = Failed \/ \E w \in AnswerWires : msg = decode(w))
    <3>1. CASE Unanswered
      BY <3>1 DEF Unanswered
    <3>2. CASE Answered
      <4>1. PICK w : w = Head(mRcvQueue[request.slot])
        OBVIOUS
      <4>2. Conclude(decode(w)) /\ mRcvQueue[request.slot] # <<>>
        BY <3>2, <4>1 DEF Answered
      <4>3. mRcvQueue[request.slot] \in Seq(AnswerWires)
        BY <1>1 DEF SessionTypeOK, ClientType, NetType, Requested, Slot, Slots
      <4>4. w \in AnswerWires
        BY <4>1, <4>2, <4>3
      <4>5. QED
        BY <4>2, <4>4
    <3>3. QED
      BY <3>1, <3>2
  <2>2. msg # Failed => Answers \subseteq DOMAIN msg.attrs
    BY <2>1, AnswerFacts
  <2>3. QED
    BY <1>1, <2>1, <2>2, ConcludeMoves DEF SessionTypeOK
<1> SUFFICES ASSUME test \in {"pooling", "overloading"} PROVE PoolInv'
  BY <1>1, <1>2 DEF PoolInv, PoolMeant
<1>3. PICK msg :
        /\ Conclude(msg)
        /\ msg # Failed => /\ Answers \subseteq DOMAIN msg.attrs
                           /\ Learned(msg, MAPPED_ADDRESS) \in NatAddress
        /\ PoolMeant => /\ msg # Failed /\ Bound(step)
                        /\ Learned(msg, MAPPED_ADDRESS) = Public(step)
  BY PoolTaken
<1>4. \/ phase' = "ended"
      \/ phase' = "ask" /\ step' = step + 1 /\ Go
  <2>1. CASE test = "pooling"
    BY <1>3, <2>1 DEF Conclude, Pooling, Finish, Go, Proceed
  <2>2. CASE test = "overloading"
    BY <1>3, <2>2 DEF Conclude, Overloading, Finish, Go, Proceed
  <2>3. QED
    BY <2>1, <2>2
<1>5. CASE phase' = "ended"
  BY <1>1, <1>5 DEF PoolInv, Asks
<1>6. CASE phase' = "ask" /\ step' = step + 1 /\ Go
  <2>1. step \in 1 .. Last /\ Last \in 1 .. MaxStep /\ MaxStep \in Nat
    BY <1>1, LastType, SessionConstants DEF SessionTypeOK, ClientType, Asks
  <2>2. step \in Nat /\ step >= 1 /\ step \in 1 .. MaxStep /\ step' # 1
    BY <1>6, <2>1
  <2>3. mapped' = [mapped EXCEPT ![step] = IF msg = Failed THEN mapped[step] ELSE Learned(msg, MAPPED_ADDRESS)]
    BY <1>3 DEF Conclude
  <2>4. mapped \in [1 .. MaxStep -> NatAddress \cup {NoAddress}]
    BY DEF SessionTypeOK, ClientType
  <2>5. me'["P"] = NoAddress /\ report' = report
    <3>1. me' = [me EXCEPT !["P"] = NoAddress]
      BY <1>6 DEF Go
    <3>2. me \in [Slots -> ClientAddress \cup {NoAddress}] /\ "P" \in Slots
      BY DEF SessionTypeOK, ClientType, Slots
    <3>3. QED
      BY <1>6, <3>1, <3>2 DEF Go, Proceed
  <2>6. AllUp /\ test = "pooling" => mapped'[1] # NoAddress
    <3> SUFFICES ASSUME AllUp, test = "pooling" PROVE mapped'[1] # NoAddress
      OBVIOUS
    <3>1. CASE step = 1
      <4>1. PoolMeant
        BY <3>1 DEF PoolMeant
      <4>2. mapped'[1] = Learned(msg, MAPPED_ADDRESS)
        BY <1>3, <2>2, <2>3, <2>4, <3>1, <4>1
      <4>3. \A a \in NatAddress : a # NoAddress
        BY AddressAssumption DEF NatAddress, NoAddress, Address
      <4>4. QED
        BY <1>3, <4>1, <4>2, <4>3
    <3>2. CASE step # 1
      <4>1. mapped[1] # NoAddress
        BY <1>1, <3>2 DEF PoolInv, Asks
      <4>2. mapped'[1] = mapped[1]
        <5>1. 1 \in 1 .. MaxStep
          BY <2>1
        <5>2. QED
          BY <2>3, <2>4, <3>2, <5>1
      <4>3. QED
        BY <4>1, <4>2
    <3>3. QED
      BY <3>1, <3>2
  <2>7. PoolMeant' => PoolMeant /\ test = "overloading"
    BY <1>1, <2>2 DEF PoolMeant, AllUp
  <2>8. ASSUME PoolMeant' PROVE PoolReady' /\ PoolLearnt'
    <3>1. PoolMeant /\ test = "overloading" /\ PoolReady /\ PoolLearnt
      BY <1>1, <2>7, <2>8 DEF PoolInv, Asks
    <3>2. PoolReady' /\ \A k : Bound(k)' = Bound(k) /\ Public(k)' = Public(k)
      BY <1>1, <1>6, <2>2, <3>1, PoolNext
    <3>3. msg # Failed /\ Bound(step) /\ Learned(msg, MAPPED_ADDRESS) = Public(step)
      BY <1>3, <3>1
    <3>4. mapped'[step] = Public(step)
      BY <2>2, <2>3, <2>4, <3>3
    <3>5. Bound(1)
      <4>1. step = 1 \/ step >= 2
        BY <2>2
      <4>2. QED
        BY <3>1, <3>3, <4>1 DEF PoolLearnt
    <3>6. step' % 2 = 0 => mapped'[step' - 1] = Public(1)
      <4> SUFFICES ASSUME step' % 2 = 0 PROVE mapped'[step' - 1] = Public(1)
        OBVIOUS
      <4>1. step % 2 = 1 /\ step' - 1 = step
        BY <1>6, <2>2
      <4>2. Public(step) = Public(1)
        BY <3>1, <4>1, FirstFlow
      <4>3. QED
        BY <3>4, <4>1, <4>2
    <3>7. PoolLearnt'
      BY <1>1, <2>5, <3>1, <3>2, <3>5, <3>6 DEF PoolLearnt
    <3>8. QED
      BY <3>2, <3>7
  <2>9. AllUp' = AllUp /\ (AllUp => server' \in {"created", "loop"})
    BY <1>1 DEF PoolInv, Asks, AllUp
  <2>10. QED
    BY <1>1, <1>6, <2>5, <2>6, <2>8, <2>9 DEF PoolInv, Asks
<1>7. QED
  BY <1>4, <1>5, <1>6

\* A Create or a thread that fails is a call that fails.
LEMMA PoolUncreated ==
  ASSUME SessionTypeOK, PoolInv, test \in {"pooling", "overloading"}, CreateFails \/ ThreadFails
  PROVE  ~AllUp'
<1>1. fails \in Nat /\ Slot = "P"
  BY DEF PoolInv, Slot
<1>2. CASE ThreadFails
  BY <1>1, <1>2 DEF ThreadFails, LifetimeThreadFails, OverloadingThreadFails, Fail, AllUp
<1>3. CASE CreateFails
  <2>1. CASE AllUp
    <3>1. me[Slot] = NoAddress
      BY <1>1, <1>3, <2>1 DEF PoolInv, CreateFails
    <3>2. fails' = fails + 1
      BY <1>3, <3>1 DEF CreateFails, Fail
    <3>3. QED
      BY <1>1, <3>2 DEF AllUp
  <2>2. CASE ~AllUp
    <3>1. fails' = fails \/ fails' = fails + 1
      BY <1>3 DEF CreateFails, Fail
    <3>2. QED
      BY <1>1, <2>2, <3>1 DEF AllUp
  <2>3. QED
    BY <2>1, <2>2
<1>4. QED
  BY <1>2, <1>3

\* The other steps of the client end the test or fail.
LEMMA PoolOther ==
  ASSUME SessionTypeOK, PoolInv,
         CreateFails \/ ThreadFails \/ Receive \/ SleepTick \/ Wake \/ StopParts \/ Joined
  PROVE  PoolInv'
<1>1. /\ fails \in Nat /\ fails' \in Nat /\ (AllUp' => AllUp /\ fails' = fails)
      /\ UNCHANGED <<mConfig, test>>
  BY PoolFails DEF PoolInv, SessionNext, ClientStep
<1> SUFFICES ASSUME test \in {"pooling", "overloading"} PROVE PoolInv'
  BY <1>1 DEF PoolInv, PoolMeant
<1>2. phase # "sleep"
  BY DEF SessionTypeOK, ClientType
<1>3. CASE CreateFails \/ ThreadFails
  <2>1. ~AllUp'
    BY <1>3, PoolUncreated
  <2>2. phase' # "start"
    <3>1. CASE ThreadFails
      BY <3>1 DEF ThreadFails, LifetimeThreadFails, OverloadingThreadFails, Finish
    <3>2. CASE CreateFails
      BY <3>2 DEF CreateFails, PoolingUncreated, Overloading, Finish, Go, Proceed
    <3>3. QED
      BY <1>3, <3>1, <3>2
  <2>3. QED
    BY <1>1, <2>1, <2>2 DEF PoolInv, PoolMeant
<1>4. CASE StopParts \/ Joined
  <2>1. phase' \in {"join", "over"}
    BY <1>4 DEF StopParts, Joined
  <2>2. QED
    BY <1>1, <2>1 DEF PoolInv, Asks
<1>5. ~(Receive \/ SleepTick \/ Wake)
  BY <1>2 DEF Receive, SleepTick, Wake
<1>6. QED
  BY <1>3, <1>4, <1>5

\* The server comes up unless something failed, and leaves when the test has ended.
LEMMA PoolServer ==
  ASSUME SessionTypeOK, PoolInv, ServerStep \/ UNCHANGED allVars
  PROVE  PoolInv'
<1>1. [SessionNext]_allVars
  BY DEF SessionNext
<1>2. /\ fails \in Nat /\ fails' \in Nat /\ (AllUp' => AllUp /\ fails' = fails)
      /\ UNCHANGED <<mConfig, test>>
  BY <1>1, PoolFails DEF PoolInv
<1>3. UNCHANGED <<vars, step, phase, me, retries, lost, mRcvQueue, net, mapped, changed, report>>
  BY DEF ServerStep, ServerBegins, ServerLeaves, clientVars, allVars, sessionVars
<1>4. AllUp' /\ Asks => server' = server \/ server' = "loop"
  BY <1>2 DEF ServerStep, ServerBegins, ServerLeaves, mTerminate, Asks, Fail, allVars, sessionVars
<1>5. Asks' = Asks /\ (PoolMeant' => PoolMeant)
  BY <1>2, <1>3 DEF Asks, PoolMeant
<1>6. /\ PoolReady' = PoolReady /\ PoolLearnt' = PoolLearnt
      /\ \A p : PoolWay(p)' = PoolWay(p)
      /\ \A w : TellsFlow(w)' = TellsFlow(w)
      /\ Bound(step)' = Bound(step)
  BY <1>2, <1>3, PoolSame
<1>7. FlowTo(step)' = FlowTo(step)
  BY <1>2, <1>3, SameFlows
<1>8. mThread' = mThread
  BY <1>3 DEF vars
<1>9. test \in {"pooling", "overloading"} /\ phase' = "start" =>
        (\A t \in Threads : mThread'[t] = "none") /\ me'["P"] = NoAddress /\ report' = {}
  BY <1>3, <1>8 DEF PoolInv
<1>10. AllUp' /\ test \in {"pooling", "overloading"} =>
         /\ Asks' => server' \in {"created", "loop"}
         /\ phase' = "ask" => me'["P"] = NoAddress
         /\ test = "pooling" /\ Asks' /\ step' # 1 => mapped'[1] # NoAddress
  BY <1>2, <1>3, <1>4, <1>5 DEF PoolInv
<1>11. PoolMeant' /\ Asks' => PoolReady' /\ PoolLearnt'
  BY <1>5, <1>6 DEF PoolInv
<1>12. PoolMeant' /\ phase' = "wait" =>
         /\ me'["P"] = Address(FlowTo(step)'.src, SourcePort)
         /\ \A p \in net : PoolWay(p)'
         /\ \A i \in 1 .. Len(mRcvQueue["P"]) : Bound(step)' /\ TellsFlow(mRcvQueue["P"][i])'
         /\ retries' \in Nat /\ lost' \in 0 .. MaxLost
         /\ retries' <= lost' + (IF net = {} /\ mRcvQueue["P"] = <<>> THEN 0 ELSE 1)
  BY <1>3, <1>5, <1>6, <1>7 DEF PoolInv
<1>13. QED
  BY <1>2, <1>3, <1>9, <1>10, <1>11, <1>12 DEF PoolInv

LEMMA PoolInit == SessionInit => PoolInv
BY DEF SessionInit, Init, PoolInv, Asks, Slots

\* Every step keeps what is known of the clients' flows.
LEMMA PoolSteps ==
  ASSUME ~Late, MaxLost <= 2, SourcePort # 0, SessionTypeOK, IInv, IInv', OneRequest, PoolInv,
         [SessionNext]_allVars
  PROVE  PoolInv'
<1>1. CASE ServerStep \/ UNCHANGED allVars
  BY <1>1, PoolServer
<1>2. CASE \E p \in net : Carry(p) \/ Lose(p)
  BY <1>2, PoolCarry
<1>3. CASE ClientStep
  <2>1. CASE StartParts
    BY <2>1, PoolStart
  <2>2. CASE Ask \/ AskDeaf
    BY <2>2, PoolAsk
  <2>3. CASE Retry
    BY <2>3, PoolRetry
  <2>4. CASE Answered \/ Unanswered
    BY <2>4, PoolConclude
  <2>5. CASE CreateFails \/ ThreadFails \/ Receive \/ SleepTick \/ Wake \/ StopParts \/ Joined
    BY <2>5, PoolOther
  <2>6. QED
    BY <1>3, <2>1, <2>2, <2>3, <2>4, <2>5 DEF ClientStep
<1>4. QED
  BY <1>1, <1>2, <1>3 DEF SessionNext

-----------------------------------------------------------------------------
(* What NATReq2 and NATReq3 find.                                           *)

\* How a test of the pooling behaviour or of port overloading comes to its end.
LEMMA PoolEndsBy ==
  ASSUME SessionTypeOK, [SessionNext]_allVars, test \in {"pooling", "overloading"}, phase' = "ended"
  PROVE  \/ phase = "ended" /\ UNCHANGED <<report, mapped, step>>
         \/ Answered \/ Unanswered
         \/ CreateFails \/ ThreadFails
<1>1. CASE ServerStep \/ UNCHANGED allVars
  BY <1>1 DEF ServerStep, ServerBegins, ServerLeaves, clientVars, allVars, sessionVars
<1>2. CASE \E p \in net : Carry(p) \/ Lose(p)
  <2>1. UNCHANGED clientVars
    BY <1>2, OnTheWay
  <2>2. QED
    BY <2>1 DEF clientVars
<1>3. CASE ClientStep
  <2>1. phase # "sleep"
    BY DEF SessionTypeOK, ClientType
  <2>2. ~(StartParts \/ Ask \/ AskDeaf \/ Retry)
    BY DEF StartParts, Ask, AskDeaf, SendFirst, Retry
  <2>3. ~(Receive \/ SleepTick \/ Wake \/ StopParts \/ Joined)
    BY <2>1 DEF Receive, SleepTick, Wake, StopParts, Joined
  <2>4. QED
    BY <1>3, <2>2, <2>3 DEF ClientStep
<1>4. QED
  BY <1>1, <1>2, <1>3 DEF SessionNext

\* NATReq2 ends with "Random" for a NAT that pairs addresses only if its first request
\* told nothing.
LEMMA PairedEnds ==
  ASSUME SessionTypeOK, PairedInv, PairedMeant, Answered \/ Unanswered \/ CreateFails,
         phase' = "ended"
  PROVE  \/ report' = {"Paired"}
         \/ phase = "wait" /\ step # 1 /\ mapped[1] = NoAddress /\ mapped'[1] = NoAddress /\ fails' = fails
<1>1. test = "pooling"
  BY DEF PairedMeant
<1>2. CASE CreateFails
  <2>1. PoolingUncreated
    BY <1>1, <1>2 DEF CreateFails
  <2>2. QED
    BY <2>1 DEF PoolingUncreated, Finish, Proceed
<1>3. CASE Unanswered
  <2>1. Pooling(Failed)
    BY <1>1, <1>3 DEF Unanswered, Conclude
  <2>2. QED
    BY <2>1 DEF Pooling, Finish, Go, Proceed
<1>4. CASE Answered
  <2>1. phase = "wait" /\ fails' = fails /\ request.slot = "P"
    BY <1>1, <1>4 DEF Answered, SessionTypeOK, ClientType, Requested, Slot
  <2>2. PICK w : w = Head(mRcvQueue["P"])
    OBVIOUS
  <2>3. mRcvQueue["P"] # <<>> /\ Conclude(decode(w))
    BY <1>4, <2>1, <2>2 DEF Answered
  <2>4. mRcvQueue["P"] \in Seq(AnswerWires) /\ "P" \in Slots
    BY DEF SessionTypeOK, NetType, Slots
  <2>5. w = mRcvQueue["P"][1] /\ 1 \in 1 .. Len(mRcvQueue["P"])
    BY <2>2, <2>3, <2>4
  <2>6. TellsFirst(w)
    BY <2>1, <2>4, <2>5 DEF PairedInv, Asks
  <2>7. PICK msg : msg = decode(w)
    OBVIOUS
  <2>8. Learned(msg, MAPPED_ADDRESS).ip = FirstIP /\ Conclude(msg)
    BY <2>3, <2>6, <2>7 DEF TellsFirst
  <2>9. /\ Pooling(msg)
        /\ mapped' = [mapped EXCEPT ![step] =
                        IF msg = Failed THEN mapped[step] ELSE Learned(msg, MAPPED_ADDRESS)]
    BY <1>1, <2>8 DEF Conclude
  <2>10. step \in 1 .. MaxStep /\ 1 \in 1 .. MaxStep
    <3>1. step \in 1 .. Last /\ Last \in 1 .. MaxStep /\ MaxStep \in Nat
      BY <2>1, LastType, SessionConstants DEF SessionTypeOK, ClientType, Asks
    <3>2. QED
      BY <3>1
  <2>11. mapped[1] = NoAddress \/ mapped[1].ip = FirstIP
    BY <2>1, <2>10 DEF PairedInv, Asks
  <2>12. mapped \in [1 .. MaxStep -> NatAddress \cup {NoAddress}]
    BY DEF SessionTypeOK, ClientType
  <2>13. step > 1 => step # 1 /\ mapped'[1] = mapped[1]
    BY <2>9, <2>10, <2>12
  <2>14. \/ report' = {"Paired"}
         \/ step > 1 /\ Learned(msg, MAPPED_ADDRESS).ip # mapped[1].ip
    BY <2>9 DEF Pooling, Finish, Go, Proceed
  <2>15. QED
    BY <2>1, <2>8, <2>11, <2>13, <2>14
<1>5. QED
  BY <1>2, <1>3, <1>4

\* NATReq3 ends in a round of both clients, and finds in it what the configuration says.
LEMMA OverloadingEnds ==
  ASSUME ~Late, MaxLost <= 2, SessionTypeOK, IInv, PoolInv, PoolMeant, test = "overloading",
         Answered \/ Unanswered, phase' = "ended"
  PROVE  /\ step' = step
         /\ "preservation" \in report' <=> SamePort
         /\ mConfig.mPortOverloading => "overloading" \in report'
         /\ mapped'[step].ip = mapped'[step - 1].ip =>
              ("overloading" \in report' <=> mConfig.mPortOverloading)
<1>1. PICK msg :
        /\ Conclude(msg)
        /\ msg # Failed => /\ Answers \subseteq DOMAIN msg.attrs
                           /\ Learned(msg, MAPPED_ADDRESS) \in NatAddress
        /\ PoolMeant => /\ msg # Failed /\ Bound(step)
                        /\ Learned(msg, MAPPED_ADDRESS) = Public(step)
  BY PoolTaken
<1>2. Asks /\ TypeOK /\ BindingExclusive
  BY DEF Asks, Answered, Unanswered, SessionTypeOK, IInv
<1>3. step \in Nat /\ step >= 1 /\ step \in 1 .. MaxStep
  BY <1>2, PoolRequest
<1>4. PoolReady /\ report = {} /\ (step >= 2 => Bound(1)) /\ (step % 2 = 0 => mapped[step - 1] = Public(1))
  BY <1>2 DEF PoolInv, PoolLearnt
<1>5. step % 2 = 0 /\ Finish(Round(msg))
  <2>1. Overloading(msg)
    BY <1>1 DEF Conclude
  <2>2. ~Go
    BY DEF Go, Proceed
  <2>3. step % 2 # 1 /\ Finish(Round(msg))
    BY <1>4, <2>1, <2>2 DEF Overloading
  <2>4. QED
    BY <1>3, <2>3
<1>6. step >= 2 /\ step - 1 \in 1 .. MaxStep /\ step - 1 # step
  <2>1. 1 % 2 # 0
    OBVIOUS
  <2>2. step # 1
    BY <1>5, <2>1
  <2>3. MaxStep \in Nat
    BY SessionConstants
  <2>4. QED
    BY <1>3, <2>2, <2>3
<1>7. Bound(1) /\ Bound(step) /\ mapped[step - 1] = Public(1)
  BY <1>1, <1>4, <1>5, <1>6
<1>8. /\ Public(1).ip \in NatIPs /\ Public(1).mask = {}
      /\ Public(step).ip \in NatIPs /\ Public(step).mask = {}
      /\ Public(1).port = mOutgoingTable[Flow(1)].port
      /\ Public(step).port = mOutgoingTable[Flow(step)].port
  BY <1>2, <1>7, PublicFacts
<1>9. Public(1) # NoAddress
  BY <1>8, AddressAssumption DEF NoAddress, Address
<1>10. mapped'[step] = Public(step) /\ mapped'[step - 1] = Public(1)
  <2>1. mapped' = [mapped EXCEPT ![step] = IF msg = Failed THEN mapped[step] ELSE Learned(msg, MAPPED_ADDRESS)]
    BY <1>1 DEF Conclude
  <2>2. mapped \in [1 .. MaxStep -> NatAddress \cup {NoAddress}]
    BY DEF SessionTypeOK, ClientType
  <2>3. QED
    BY <1>1, <1>3, <1>6, <1>7, <2>1, <2>2
<1>11. GotA /\ PortA = Public(1).port
  BY <1>7, <1>9 DEF GotA, PortA
<1>12. report' = Round(msg) /\ step' = step
  BY <1>5 DEF Finish
<1>13. "preservation" \in report' <=> Public(1).port = SourcePort
  BY <1>11, <1>12 DEF Round
<1>14. "overloading" \in report' <=> Public(1).port = SourcePort /\ Public(step).port = Public(1).port
  BY <1>1, <1>11, <1>12 DEF Round
<1>15. "preservation" \in report' <=> SamePort
  BY <1>4, <1>7, <1>13 DEF PoolReady
<1>16. mConfig.mPortOverloading => "overloading" \in report'
  BY <1>4, <1>7, <1>8, <1>14 DEF PoolReady, Bound
<1>17. ASSUME Public(step).ip = Public(1).ip, "overloading" \in report', ~mConfig.mPortOverloading
       PROVE  FALSE
  <2>1. SameAddress(Public(1), Public(step))
    BY <1>8, <1>14, <1>17 DEF SameAddress
  <2>2. Exclusive
    BY <1>17 DEF Exclusive, PoolMeant
  <2>3. Flow(1) = Flow(step)
    BY <1>2, <1>7, <2>1, <2>2, SamePublic
  <2>4. FlowTo(1) = FlowTo(step)
    BY <1>2, <2>3, PoolOwn
  <2>5. FlowTo(step).src = ClientB
    BY <1>5, FlowFacts
  <2>6. FlowTo(1).src = ClientA
    <3>1. 1 % 2 # 0
      OBVIOUS
    <3>2. QED
      BY <3>1, FlowFacts
  <2>7. QED
    BY <2>4, <2>5, <2>6, SessionAssumption
<1>18. QED
  BY <1>10, <1>12, <1>15, <1>16, <1>17

\* The first half of PoolVerdicts: what NATReq2 finds.
PairedVerdict ==
  Ended("pooling") /\ mConfig.mIPAssignMode = "Paired" /\ (AllUp \/ mapped[1] # NoAddress) =>
    report = {"Paired"}

\* That needs neither a quick network nor few losses.
PairedTold ==
  Ended("pooling") /\ mConfig.mIPAssignMode = "Paired" /\ mapped[1] # NoAddress => report = {"Paired"}

LEMMA PairedToldStep ==
  ASSUME SessionTypeOK, PairedInv, PairedTold, [SessionNext]_allVars
  PROVE  PairedTold'
<1>1. UNCHANGED <<mConfig, test>>
  BY ConfigStays
<1> SUFFICES ASSUME phase' = "ended", PairedMeant, mapped'[1] # NoAddress
             PROVE  report' = {"Paired"}
  BY <1>1 DEF PairedTold, Ended, PairedMeant
<1>2. CASE phase = "ended" /\ UNCHANGED <<report, mapped, step>>
  BY <1>2 DEF PairedTold, Ended, PairedMeant
<1>3. CASE Answered \/ Unanswered \/ CreateFails
  BY <1>3, PairedEnds
<1>4. test = "pooling" /\ ~ThreadFails
  BY DEF PairedMeant, ThreadFails, LifetimeThreadFails, OverloadingThreadFails
<1>5. QED
  BY <1>2, <1>3, <1>4, PoolEndsBy

LEMMA PairedVerdictStep ==
  ASSUME SessionTypeOK, PairedInv, PoolInv, PairedVerdict, [SessionNext]_allVars
  PROVE  PairedVerdict'
<1>1. UNCHANGED <<mConfig, test>> /\ (AllUp' => AllUp)
  BY PoolFails DEF PoolInv
<1> SUFFICES ASSUME phase' = "ended", PairedMeant, AllUp' \/ mapped'[1] # NoAddress
             PROVE  report' = {"Paired"}
  BY <1>1 DEF PairedVerdict, Ended, PairedMeant
<1>2. CASE phase = "ended" /\ UNCHANGED <<report, mapped, step>>
  BY <1>1, <1>2 DEF PairedVerdict, Ended, PairedMeant
<1>3. CASE Answered \/ Unanswered \/ CreateFails
  <2>1. AllUp /\ phase = "wait" /\ step # 1 => mapped[1] # NoAddress
    BY DEF PoolInv, PairedMeant, Asks
  <2>2. QED
    BY <1>1, <1>3, <2>1, PairedEnds
<1>4. test = "pooling" /\ ~ThreadFails
  BY DEF PairedMeant, ThreadFails, LifetimeThreadFails, OverloadingThreadFails
<1>5. QED
  BY <1>2, <1>3, <1>4, PoolEndsBy

\* Its second half: what NATReq3 finds.
OverloadingVerdict ==
  Ended("overloading") /\ mConfig.mMappingBehavior # "NotNated" /\ AllUp =>
    /\ "preservation" \in report <=> SamePort
    /\ mConfig.mPortOverloading => "overloading" \in report
    /\ mapped[step].ip = mapped[step - 1].ip =>
         ("overloading" \in report <=> mConfig.mPortOverloading)

LEMMA OverloadingVerdictStep ==
  ASSUME ~Late, MaxLost <= 2, SessionTypeOK, IInv, PoolInv, OverloadingVerdict, [SessionNext]_allVars
  PROVE  OverloadingVerdict'
<1>1. UNCHANGED <<mConfig, test>> /\ (AllUp' => AllUp)
  BY PoolFails DEF PoolInv
<1>2. SamePort' = SamePort
  BY <1>1 DEF SamePort
<1> SUFFICES ASSUME phase' = "ended", test = "overloading",
                    mConfig.mMappingBehavior # "NotNated", AllUp'
             PROVE  /\ "preservation" \in report' <=> SamePort
                    /\ mConfig.mPortOverloading => "overloading" \in report'
                    /\ mapped'[step'].ip = mapped'[step' - 1].ip =>
                         ("overloading" \in report' <=> mConfig.mPortOverloading)
  BY <1>1, <1>2 DEF OverloadingVerdict, Ended
<1>3. CASE phase = "ended" /\ UNCHANGED <<report, mapped, step>>
  BY <1>1, <1>3 DEF OverloadingVerdict, Ended
<1>4. CASE Answered \/ Unanswered
  <2>1. PoolMeant
    BY <1>1 DEF PoolMeant
  <2>2. QED
    BY <1>4, <2>1, OverloadingEnds
<1>5. ~(CreateFails \/ ThreadFails)
  BY PoolUncreated
<1>6. QED
  BY <1>3, <1>4, <1>5, PoolEndsBy

LEMMA PoolVerdictInit == SessionInit => PairedTold /\ PairedVerdict /\ OverloadingVerdict
BY DEF SessionInit, PairedTold, PairedVerdict, OverloadingVerdict, Ended

\* NATReq2 never calls a NAT with paired addresses random once its first request was
\* answered: whatever is lost, however slow the network is and whichever part did not
\* come up, for the first address has a port for every request.
THEOREM PairedNotRandom == SessionSpec => []PairedTold
<1>1. SessionInit => PairedInv /\ PairedTold
  BY PairedInit, PoolVerdictInit
<1>2. SessionTypeOK /\ IInv /\ PairedInv /\ PairedTold /\ [SessionNext]_allVars
        => PairedInv' /\ PairedTold'
  BY PairedSteps, PairedToldStep
<1>3. QED
  BY <1>1, <1>2, SessionTypesCorrect, SessionBindings, PTL DEF SessionSpec

\* What holds while NATReq2 or NATReq3 goes on, in a network that is not slow and loses no
\* more than two packets of a transaction, for clients with a source port other than 0,
\* which a NAT without port preservation hands out first.
THEOREM PoolFlowsKnown ==
  ~Late /\ MaxLost <= 2 /\ SourcePort # 0 => (SessionSpec => []PoolInv)
<1> SUFFICES ASSUME ~Late, MaxLost <= 2, SourcePort # 0 PROVE SessionSpec => []PoolInv
  OBVIOUS
<1>1. SessionInit => OneRequest /\ PoolInv
  BY OneInit, PoolInit
<1>2. SessionTypeOK /\ IInv /\ IInv' /\ OneRequest /\ PoolInv /\ [SessionNext]_allVars
        => OneRequest' /\ PoolInv'
  BY OneStep, PoolSteps
<1>3. QED
  BY <1>1, <1>2, SessionTypesCorrect, SessionBindings, PTL DEF SessionSpec

\* NATReq2 calls a NAT with paired addresses paired, and NATReq3 finds port preservation,
\* and overloading when both clients are mapped to one address, as they were configured.
THEOREM PoolsFound ==
  ~Late /\ MaxLost <= 2 /\ SourcePort # 0 => (SessionSpec => []PoolVerdicts)
<1> SUFFICES ASSUME ~Late, MaxLost <= 2, SourcePort # 0 PROVE SessionSpec => []PoolVerdicts
  OBVIOUS
<1>1. SessionInit => PairedInv /\ PairedVerdict /\ OverloadingVerdict
  BY PairedInit, PoolVerdictInit
<1>2. SessionTypeOK /\ IInv /\ PairedInv /\ PoolInv /\ PairedVerdict /\ OverloadingVerdict
        /\ [SessionNext]_allVars
        => PairedInv' /\ PairedVerdict' /\ OverloadingVerdict'
  BY PairedSteps, PairedVerdictStep, OverloadingVerdictStep
<1>3. SessionSpec => []PoolInv
  BY PoolFlowsKnown
<1>4. PairedVerdict /\ OverloadingVerdict => PoolVerdicts
  BY DEF PairedVerdict, OverloadingVerdict, PoolVerdicts
<1>5. QED
  BY <1>1, <1>2, <1>3, <1>4, SessionTypesCorrect, SessionBindings, PTL DEF SessionSpec

-----------------------------------------------------------------------------
(* NATReq6: two flows of one client, the first idle while the test sleeps.  *)

\* The two flows, how long the first has been idle, and the identifier of answers to ip:port.
OldKey         == KeyOf(PortTo(1))
NewKey         == KeyOf(PortTo(2))
Old            == Address(mOutgoingTable[OldKey].ip, mOutgoingTable[OldKey].port)
New            == Address(mOutgoingTable[NewKey].ip, mOutgoingTable[NewKey].port)
Elapsed        == slept - sleep
AnswersTo(e)   == IncommingPk(ServerAIP, ServerPort1, e.ip, e.port)

\* A NAT that translates, and every part is up.
LifeMeant == AllUp /\ test = "lifetime" /\ mConfig.mMappingBehavior # "NotNated"

\* The NAT runs and holds nothing but the two flows, the second one fresh.
LifeReady ==
  /\ mThread = [t \in Threads |-> "loop"]
  /\ DOMAIN mAvailablePorts = NatIPs
  /\ DOMAIN mOutgoingTable \subseteq {OldKey, NewKey}
  /\ NewKey \in DOMAIN mOutgoingTable => step = 2 /\ mOutgoingTable[NewKey].age = 0
  /\ mConfig.mPortOverloading =>
       \A ip \in NatIPs : \A q \in mAvailablePorts[ip] :
         q = SourcePort \/ (q = SourcePort + 1 /\ NewKey \in DOMAIN mOutgoingTable)

\* The first flow is bound to e, answers to e reach the client, and one incoming entry goes
\* with the binding.
HeldAt(e) ==
  /\ mOutgoingTable[OldKey].ip = e.ip /\ mOutgoingTable[OldKey].port = e.port
  /\ AnswersTo(e) \in DOMAIN mIncommingTable
  /\ mIncommingTable[AnswersTo(e)].ip = ClientA /\ mIncommingTable[AnswersTo(e)].port = SourcePort
  /\ mIncommingTable[AnswersTo(e)].reverse = OldKey
  /\ \A i \in DOMAIN mIncommingTable : mIncommingTable[i].reverse = OldKey => i = AnswersTo(e)
  /\ mConfig.mPortOverloading => e.port = SourcePort

\* Before the second request: the first binding is as old as the sleep, or was not made.
LifeFirst ==
  IF OldKey \in DOMAIN mOutgoingTable
  THEN /\ HeldAt(Old)
       /\ mOutgoingTable[OldKey].age = IF Elapsed < Timeout THEN Elapsed ELSE Timeout
  ELSE /\ DOMAIN mOutgoingTable = {} /\ DOMAIN mIncommingTable = {}
       /\ \A ip \in NatIPs : mAvailablePorts[ip] = {}

\* From then on: it is where the first answer has told, and alive if the sleep was short;
\* or it was torn down, after the second flow was bound, and nothing gets through any more.
LifeSecond ==
  /\ IF OldKey \in DOMAIN mOutgoingTable
     THEN HeldAt(mapped[1]) /\ (mOutgoingTable[OldKey].age < Timeout <=> slept < Timeout)
     ELSE /\ slept >= Timeout /\ NewKey \in DOMAIN mOutgoingTable
          /\ AnswersTo(mapped[1]) \notin DOMAIN mIncommingTable
  /\ NewKey \in DOMAIN mOutgoingTable => New.ip # mapped[1].ip \/ New.port # mapped[1].port

\* A packet in flight: the request of its step, or an answer to the first flow's endpoint.
LifeWay(p) ==
  LET e == IF step = 1 THEN Old ELSE mapped[1]
  IN  /\ p.src \in PrivateIPs => Header(p) = PortTo(step)
      /\ p.src \notin PrivateIPs => KeyOf(PortTo(step)) \in DOMAIN mOutgoingTable
      /\ p.src \notin PublicIPs => p.wire = Wire
      /\ p.src \in NatIPs => /\ step = 1 => p.src = Old.ip /\ p.sport = Old.port
                             /\ p.dst = ServerAIP /\ p.dport = ServerPort1
      /\ p.src \in PublicIPs =>
           /\ p.src = ServerAIP /\ p.sport = ServerPort1
           /\ step = 1 => Learned(decode(p.wire), MAPPED_ADDRESS) = Old
      /\ p.dst \in NatIPs => p.dst = e.ip /\ p.dport = e.port
      /\ p.dst \in PrivateIPs => /\ p.dst = ClientA /\ p.dport = SourcePort
                                 /\ step = 2 => slept < Timeout

\* What the first request's transaction has got, and how often it has asked.
FirstCount ==
  /\ \A i \in 1 .. Len(mRcvQueue["P"]) :
       OldKey \in DOMAIN mOutgoingTable /\ Learned(decode(mRcvQueue["P"][i]), MAPPED_ADDRESS) = Old
  /\ retries <= lost + (IF net = {} /\ mRcvQueue["P"] = <<>> THEN 0 ELSE 1)

\* What the second thread has got or may still get: it gives up only when two requests or
\* answers were lost, or the binding was.
SecondCount ==
  /\ mRcvQueue["S"] = <<>> /\ receivedB \in {"waiting", "yes", "no"}
  /\ IF slept < Timeout
     THEN /\ receivedB = "waiting" => retries <= lost + Len(mRcvQueue["P"]) + (IF net = {} THEN 0 ELSE 1)
          /\ receivedB = "no" => lost >= 2
     ELSE mRcvQueue["P"] = <<>> /\ receivedB # "yes"

LifeInv ==
  /\ fails \in Nat /\ lost \in Nat
  /\ test = "lifetime" /\ phase = "start" =>
       /\ \A t \in Threads : mThread[t] = "none"
       /\ me["P"] = NoAddress /\ receivedB = "waiting"
  /\ test = "lifetime" => /\ slept \in Nat /\ sleep \in 0 .. slept
                          /\ phase = "start" \/ (Asks /\ step = 1) => sleep = slept
                          /\ Asks /\ step = 2 => sleep = 0
  /\ LifeMeant /\ (Asks \/ phase = "sleep") =>
       /\ server \in {"created", "loop"} /\ LifeReady
       /\ IF step = 1 THEN LifeFirst /\ receivedB = "waiting" ELSE LifeSecond
       /\ me["P"] = IF step = 1 /\ phase = "ask" THEN NoAddress ELSE Opened
  /\ LifeMeant /\ (phase = "sleep" \/ (phase = "ask" /\ step = 2)) =>
       OldKey \in DOMAIN mOutgoingTable /\ mapped[1] = Old /\ receivedB = "waiting"
  /\ LifeMeant /\ phase = "wait" =>
       /\ \A p \in net : LifeWay(p) /\ net = {p}
       /\ retries \in Nat
       /\ step = 2 => me["S"] = Address(ClientA, SourcePort + 1)
       /\ IF step = 1 THEN FirstCount ELSE SecondCount

\* The two flows' packets, and what their identifiers tell apart.
LEMMA LifePackets ==
  /\ \A k \in {1, 2} : PortTo(k) \in OutPackets
  /\ PortTo(1) = [src |-> ClientA, sport |-> SourcePort, dst |-> ServerAIP, dport |-> ServerPort1]
  /\ PortTo(2) = [src |-> ClientA, sport |-> SourcePort + 1, dst |-> ServerAIP, dport |-> ServerPort1]
  /\ SourcePort \in Nat /\ SourcePort # SourcePort + 1
<1>1. SourcePort \in Nat /\ 0 \in 0 .. NumMessages /\ 1 \in 0 .. NumMessages
  BY SessionConstants
<1>2. SourcePort + 0 \in ClientPorts /\ SourcePort + 1 \in ClientPorts
  BY <1>1, SessionConstants
<1>3. SourcePort + 1 - 1 = SourcePort /\ SourcePort + 0 = SourcePort /\ SourcePort + 2 - 1 = SourcePort + 1
  BY <1>1
<1>4. /\ PortTo(1) = [src |-> ClientA, sport |-> SourcePort, dst |-> ServerAIP, dport |-> ServerPort1]
      /\ PortTo(2) = [src |-> ClientA, sport |-> SourcePort + 1, dst |-> ServerAIP, dport |-> ServerPort1]
  BY <1>3 DEF PortTo
<1>5. PortTo(1) \in OutPackets /\ PortTo(2) \in OutPackets
  BY <1>2, <1>3, <1>4, SessionConstants DEF OutPackets, Packet
<1>6. QED
  BY <1>1, <1>4, <1>5

LEMMA LifeKeys ==
  ASSUME TypeOK, LifeMeant
  PROVE  OldKey # NewKey
<1>1. mConfig.mMappingBehavior \in {"EndPointIndependent", "AddressDependent", "AddressPortDependent"}
  BY ConfigAssumption DEF LifeMeant, TypeOK, Config, Mappings
<1>2. /\ OldKey = OutgoingPk(ClientA, SourcePort, ServerAIP, ServerPort1)
      /\ NewKey = OutgoingPk(ClientA, SourcePort + 1, ServerAIP, ServerPort1)
  BY LifePackets DEF OldKey, NewKey, KeyOf
<1>3. OldKey[2] = SourcePort /\ NewKey[2] = SourcePort + 1
  BY <1>1, <1>2 DEF OutgoingPk
<1>4. QED
  BY <1>3, LifePackets

\* The request under way is the packet of its flow.
LEMMA LifeRequest ==
  ASSUME SessionTypeOK, LifeMeant, Asks
  PROVE  /\ step \in {1, 2}
         /\ To = A1 /\ Slot = (IF step = 1 THEN "P" ELSE "S") /\ Creates
         /\ From = Address(ClientA, PortTo(step).sport)
         /\ KeyOf(PortTo(step)) = IF step = 1 THEN OldKey ELSE NewKey
<1>1. test = "lifetime" /\ test \in Tests /\ step \in 1 .. Last /\ Last = 2
  BY DEF LifeMeant, SessionTypeOK, ClientType, Last
<1>2. step \in {1, 2}
  BY <1>1
<1>3. To = A1 /\ Slot = (IF step = 1 THEN "P" ELSE "S") /\ Creates
  BY <1>1, <1>2 DEF To, Slot, Creates
<1>4. From = Address(ClientA, PortTo(step).sport)
  BY <1>1, <1>2, LifePackets DEF From
<1>5. QED
  BY <1>2, <1>3, <1>4 DEF OldKey, NewKey

\* What an admitted packet with the answers' identifier key makes of the incoming entries
\* inc: an entry for it is there, its own unless the key was taken.
Entered(pk, key, inc, new) ==
  /\ DOMAIN new = DOMAIN inc \cup {key}
  /\ \A i \in DOMAIN inc : i # key => new[i] = inc[i]
  /\ \/ key \in DOMAIN inc /\ new[key] = inc[key]
     \/ /\ new[key].ip = pk.src /\ new[key].port = pk.sport
        /\ new[key].reverse = KeyOf(pk)

LEMMA AdmitEnters ==
  ASSUME NEW pk, NEW ip, NEW port, NEW inc
  PROVE  Entered(pk, IncommingPk(pk.dst, pk.dport, ip, port), inc, Admit(inc, pk, ip, port))
<1>1. PICK key : key = IncommingPk(pk.dst, pk.dport, ip, port)
  OBVIOUS
<1>2. PICK new : new = Admit(inc, pk, ip, port)
  OBVIOUS
<1>3. PICK entry : entry = [ip |-> pk.src, port |-> pk.sport,
                            reverse |-> OutgoingPk(pk.src, pk.sport, pk.dst, pk.dport)]
  OBVIOUS
<1>4. PICK rest : rest = IF mConfig.mPortOverloading THEN Without(inc, {key}) ELSE inc
  OBVIOUS
<1>5. new = InsertTraffic(rest, key, entry)
  BY <1>1, <1>2, <1>3, <1>4 DEF Admit
<1>6. entry.ip = pk.src /\ entry.port = pk.sport /\ entry.reverse = KeyOf(pk)
  BY <1>3 DEF KeyOf
<1>7. CASE rest = inc
  <2>1. Entered(pk, key, inc, new)
    BY <1>5, <1>6, <1>7 DEF InsertTraffic, Put, Entered
  <2>2. QED
    BY <1>1, <1>2, <2>1
<1>8. CASE rest = Without(inc, {key})
  <2>1. key \notin DOMAIN rest
    BY <1>8 DEF Without
  <2>2. new = Put(rest, key, entry)
    BY <1>5, <2>1 DEF InsertTraffic
  <2>3. DOMAIN rest = DOMAIN inc \ {key} /\ \A i \in DOMAIN rest : rest[i] = inc[i]
    BY <1>8 DEF Without
  <2>4. Entered(pk, key, inc, new)
    BY <1>6, <2>2, <2>3 DEF Put, Entered
  <2>5. QED
    BY <1>1, <1>2, <2>4
<1>9. QED
  BY <1>4, <1>7, <1>8

\* The packet pk leaves from ip:port, where its flow is bound, at once if it was not, and
\* its answers may come; no other binding is touched.
Departs(pk, ip, port) ==
  /\ UNCHANGED <<mConfig, mThread>> /\ DOMAIN mAvailablePorts' = DOMAIN mAvailablePorts
  /\ ip \in NatIPs /\ sent' # Nothing /\ sent'.from[1] = ip /\ sent'.from[2] = port
  /\ DOMAIN mOutgoingTable' = DOMAIN mOutgoingTable \cup {KeyOf(pk)}
  /\ \A o \in DOMAIN mOutgoingTable : o # KeyOf(pk) => mOutgoingTable'[o] = mOutgoingTable[o]
  /\ mOutgoingTable'[KeyOf(pk)].ip = ip /\ mOutgoingTable'[KeyOf(pk)].port = port
  /\ mOutgoingTable'[KeyOf(pk)].age = 0
  /\ IF KeyOf(pk) \in DOMAIN mOutgoingTable
     THEN /\ ip = mOutgoingTable[KeyOf(pk)].ip /\ port = mOutgoingTable[KeyOf(pk)].port
          /\ mAvailablePorts' = mAvailablePorts
     ELSE mConfig.mPortOverloading =>
            /\ port = pk.sport
            /\ \A x \in DOMAIN mAvailablePorts : \A q \in mAvailablePorts'[x] :
                 q \in mAvailablePorts[x] \/ q = pk.sport
  /\ Entered(pk, IncommingPk(pk.dst, pk.dport, ip, port), mIncommingTable, mIncommingTable')

\* A packet whose flow is bound leaves from there.
LEMMA RefreshDeparts ==
  ASSUME TypeOK, NEW pk, OutgoingRefresh(pk)
  PROVE  Departs(pk, mOutgoingTable[KeyOf(pk)].ip, mOutgoingTable[KeyOf(pk)].port)
<1>1. PICK key : key = KeyOf(pk)
  OBVIOUS
<1>2. PICK e : e = mOutgoingTable[key]
  OBVIOUS
<1>3. /\ key \in DOMAIN mOutgoingTable /\ e \in Binding
      /\ UNCHANGED <<mConfig, mThread, mAvailablePorts>>
      /\ UpdateLastTrafficTime(key) /\ Emit(e.ip, e.port, pk.dst, pk.dport)
      /\ mIncommingTable' = Admit(mIncommingTable, pk, e.ip, e.port)
  BY <1>1, <1>2 DEF OutgoingRefresh, TypeOK, IsTable
<1>4. /\ DOMAIN mOutgoingTable' = DOMAIN mOutgoingTable
      /\ \A o \in DOMAIN mOutgoingTable : o # key => mOutgoingTable'[o] = mOutgoingTable[o]
      /\ mOutgoingTable'[key].ip = e.ip /\ mOutgoingTable'[key].port = e.port
      /\ mOutgoingTable'[key].age = 0
  BY <1>2, <1>3 DEF UpdateLastTrafficTime, Put, Binding
<1>5. e.ip \in NatIPs /\ sent'.from[1] = e.ip /\ sent'.from[2] = e.port /\ sent' # Nothing
  BY <1>3, AddressAssumption DEF Binding, Emit, Nothing
<1>6. Entered(pk, IncommingPk(pk.dst, pk.dport, e.ip, e.port), mIncommingTable, mIncommingTable')
  BY <1>3, AdmitEnters
<1>7. Departs(pk, e.ip, e.port)
  BY <1>1, <1>2, <1>3, <1>4, <1>5, <1>6 DEF Departs
<1>8. QED
  BY <1>1, <1>2, <1>7

\* A packet for which a binding is made leaves from there.
LEMMA BindDeparts ==
  ASSUME NEW pk, NEW ip \in NatIPs, NEW port, Bind(pk, ip, port, mOutgoingTable, mIncommingTable),
         DOMAIN mAvailablePorts' = DOMAIN mAvailablePorts,
         KeyOf(pk) \notin DOMAIN mOutgoingTable,
         mConfig.mPortOverloading =>
           /\ port = pk.sport
           /\ \A x \in DOMAIN mAvailablePorts : \A q \in mAvailablePorts'[x] :
                q \in mAvailablePorts[x] \/ q = pk.sport
  PROVE  Departs(pk, ip, port)
<1>1. PICK key : key = KeyOf(pk)
  OBVIOUS
<1>2. /\ UNCHANGED <<mConfig, mThread>> /\ Emit(ip, port, pk.dst, pk.dport)
      /\ mIncommingTable' = Admit(mIncommingTable, pk, ip, port)
      /\ DOMAIN mOutgoingTable' = DOMAIN mOutgoingTable \cup {key}
      /\ \A o \in DOMAIN mOutgoingTable : mOutgoingTable'[o] = mOutgoingTable[o]
      /\ mOutgoingTable'[key].age = 0
      /\ mOutgoingTable'[key].ip = ip /\ mOutgoingTable'[key].port = port
  BY <1>1 DEF Bind, InsertTraffic, Put
<1>3. sent'.from[1] = ip /\ sent'.from[2] = port /\ sent' # Nothing
  BY <1>2, AddressAssumption DEF Emit, Nothing
<1>4. Entered(pk, IncommingPk(pk.dst, pk.dport, ip, port), mIncommingTable, mIncommingTable')
  BY <1>2, AdmitEnters
<1>5. QED
  BY <1>1, <1>2, <1>3, <1>4 DEF Departs

\* A port is left for a request whose flow is not bound: one flow at most is, and with
\* overloading the port asked for is free.
LEMMA LifePortLeft ==
  ASSUME SessionTypeOK, IInv, LifeMeant, Asks, MaxPort >= 2, LifeReady,
         IF step = 1 THEN LifeFirst ELSE LifeSecond,
         KeyOf(PortTo(step)) \notin DOMAIN mOutgoingTable
  PROVE  /\ \E ip \in NatIPs : ~Exhausted(ip)
         /\ ~NoneFree(PortTo(step)) \/ ~mConfig.mPortOverloading
<1>1. FirstIP \in NatIPs /\ FirstIP \in DOMAIN mAvailablePorts /\ step \in {1, 2} /\ MaxPort \in Nat
  BY FirstTried, LifeRequest, ConstantTypes DEF LifeReady
<1>2. 0 \in Bits /\ 1 \in Bits /\ 0 < MaxPort /\ 1 < MaxPort
  BY <1>1 DEF Bits
<1>3. CASE step = 1
  <2>1. mAvailablePorts[FirstIP] = {}
    BY <1>1, <1>3 DEF LifeFirst, OldKey
  <2>2. ~Exhausted(FirstIP) /\ IsFree(FirstIP, PortTo(step).sport)
    BY <1>1, <1>2, <2>1 DEF Exhausted, IsFree
  <2>3. QED
    BY <1>1, <2>2 DEF NoneFree
<1>4. CASE step # 1
  <2>1. step = 2 /\ NewKey \notin DOMAIN mOutgoingTable
    BY <1>1, <1>4 DEF NewKey
  <2>2. CASE mConfig.mPortOverloading
    <3>1. \A q \in mAvailablePorts[FirstIP] : q = SourcePort
      BY <1>1, <2>1, <2>2 DEF LifeReady
    <3>2. ~(0 \in mAvailablePorts[FirstIP] /\ 1 \in mAvailablePorts[FirstIP])
      BY <3>1
    <3>3. ~Exhausted(FirstIP)
      BY <1>1, <1>2, <3>2 DEF Exhausted
    <3>4. IsFree(FirstIP, PortTo(step).sport)
      BY <1>1, <2>1, <3>1, LifePackets DEF IsFree
    <3>5. QED
      BY <1>1, <3>3, <3>4 DEF NoneFree
  <2>3. CASE ~mConfig.mPortOverloading
    <3> SUFFICES ASSUME Exhausted(FirstIP) PROVE FALSE
      BY <1>1, <2>3
    <3>1. {0, 1} \subseteq mAvailablePorts[FirstIP]
      BY <1>1, <1>2 DEF Exhausted
    <3>2. \A q \in mAvailablePorts[FirstIP] :
            q < MaxPort => \E o \in DOMAIN mOutgoingTable : Endpoint(o) = <<FirstIP, q>>
      BY <1>1, <2>3 DEF IInv, PortsAccounted, Exclusive
    <3>3. PICK o0 \in DOMAIN mOutgoingTable : Endpoint(o0) = <<FirstIP, 0>>
      BY <1>2, <3>1, <3>2
    <3>4. PICK o1 \in DOMAIN mOutgoingTable : Endpoint(o1) = <<FirstIP, 1>>
      BY <1>2, <3>1, <3>2
    <3>5. <<FirstIP, 0>> # <<FirstIP, 1>>
      OBVIOUS
    <3>6. o0 = OldKey /\ o1 = OldKey
      BY <2>1 DEF LifeReady
    <3>7. QED
      BY <3>3, <3>4, <3>5, <3>6
  <2>4. QED
    BY <2>2, <2>3
<1>5. QED
  BY <1>3, <1>4

\* The request leaves, and is fresh.
LEMMA LifeDeparts ==
  ASSUME SessionTypeOK, IInv, LifeMeant, Asks, MaxPort >= 2, LifeReady,
         IF step = 1 THEN LifeFirst /\ sleep = slept ELSE LifeSecond,
         slept \in Nat, TreatOutgoingPacket(PortTo(step))
  PROVE  \E ip, port : Departs(PortTo(step), ip, port)
<1>1. PICK pk : pk = PortTo(step)
  OBVIOUS
<1>2. TypeOK /\ step \in {1, 2} /\ pk \in OutPackets /\ TreatOutgoingPacket(pk)
  BY <1>1, LifeRequest, LifePackets DEF IInv
<1>3. KeyOf(pk) \in DOMAIN mOutgoingTable => mOutgoingTable[KeyOf(pk)].age = 0
  <2>1. CASE step = 1
    <3>1. Elapsed = 0 /\ Elapsed < Timeout
      BY <2>1, ConstantTypes DEF Elapsed
    <3>2. KeyOf(pk) = OldKey
      BY <1>1, <2>1 DEF OldKey
    <3>3. QED
      BY <2>1, <3>1, <3>2 DEF LifeFirst
  <2>2. CASE step = 2
    BY <1>1, <2>2 DEF LifeReady, NewKey
  <2>3. QED
    BY <1>2, <2>1, <2>2
<1>4. CASE OutgoingExpire(pk)
  BY <1>3, <1>4, ConstantTypes DEF OutgoingExpire, Expire
<1>5. CASE OutgoingRefresh(pk)
  BY <1>1, <1>2, <1>5, RefreshDeparts
<1>6. CASE BindSamePort(pk)
  <2>1. PICK ini \in Starts, k \in 0 .. (N - 1) :
          /\ mAvailablePorts' = ReserverPort(IPAt(ini, k), pk.sport)
          /\ Bind(pk, IPAt(ini, k), pk.sport, mOutgoingTable, mIncommingTable)
    BY <1>6 DEF BindSamePort
  <2>2. PICK ip : ip = IPAt(ini, k)
    OBVIOUS
  <2>3. ip \in NatIPs
    BY <2>2, IPAtType, ConstantTypes DEF Starts
  <2>4. /\ DOMAIN mAvailablePorts' = DOMAIN mAvailablePorts
        /\ \A x \in DOMAIN mAvailablePorts : \A q \in mAvailablePorts'[x] :
             q \in mAvailablePorts[x] \/ q = pk.sport
        /\ Bind(pk, ip, pk.sport, mOutgoingTable, mIncommingTable)
    BY <2>1, <2>2 DEF ReserverPort
  <2>5. KeyOf(pk) \notin DOMAIN mOutgoingTable
    BY <1>6 DEF BindSamePort, Unbound
  <2>6. Departs(pk, ip, pk.sport)
    BY <2>3, <2>4, <2>5, BindDeparts
  <2>7. QED
    BY <1>1, <2>6
<1>7. CASE BindFirstAvailable(pk)
  <2>1. PICK ini \in SearchFrom, k \in 0 .. (N - 1), port \in Ports :
          /\ mAvailablePorts' = ReserveFirst(Tried(ini, k), IPAt(ini, k), port)
          /\ Bind(pk, IPAt(ini, k), port, mOutgoingTable, mIncommingTable)
    BY <1>7 DEF BindFirstAvailable
  <2>2. PICK ip : ip = IPAt(ini, k)
    OBVIOUS
  <2>3. ip \in NatIPs
    BY <2>2, IPAtType, ConstantTypes DEF SearchFrom, Starts
  <2>4. DOMAIN mAvailablePorts' = DOMAIN mAvailablePorts /\ Bind(pk, ip, port, mOutgoingTable, mIncommingTable)
    BY <2>1, <2>2 DEF ReserveFirst
  <2>5. KeyOf(pk) \notin DOMAIN mOutgoingTable /\ ~mConfig.mPortOverloading
    BY <1>7 DEF BindFirstAvailable, Unbound, AnyPortWillDo
  <2>6. Departs(pk, ip, port)
    BY <2>3, <2>4, <2>5, BindDeparts
  <2>7. QED
    BY <1>1, <2>6
<1>8. CASE BindOverloaded(pk) \/ OutgoingDrop(pk)
  <2>1. KeyOf(pk) \notin DOMAIN mOutgoingTable
    BY <1>8 DEF BindOverloaded, OutgoingDrop, Unbound
  <2>2. (\E ip \in NatIPs : ~Exhausted(ip)) /\ (~NoneFree(pk) \/ ~mConfig.mPortOverloading)
    BY <1>1, <2>1, LifePortLeft
  <2>3. QED
    BY <1>8, <2>2 DEF BindOverloaded, OutgoingDrop
<1>9. QED
  BY <1>2, <1>4, <1>5, <1>6, <1>7, <1>8 DEF TreatOutgoingPacket

\* What identifies the answers to an endpoint tells its address and its port.
LEMMA AnswersDiffer ==
  ASSUME TypeOK, NEW e, NEW f, e.ip # f.ip \/ e.port # f.port
  PROVE  AnswersTo(e) # AnswersTo(f)
BY AnswerEnds DEF AnswersTo

\* The definitions that say what a session's state is change with it alone.
LEMMA LifeSame ==
  ASSUME UNCHANGED <<mConfig, mThread, mOutgoingTable, mIncommingTable, mAvailablePorts>>
  PROVE  /\ OldKey' = OldKey /\ NewKey' = NewKey /\ Old' = Old /\ New' = New
         /\ \A e : AnswersTo(e)' = AnswersTo(e) /\ HeldAt(e)' = HeldAt(e)
         /\ UNCHANGED <<test, step, slept, sleep, mapped>> => 
              LifeReady' = LifeReady /\ LifeFirst' = LifeFirst /\ LifeSecond' = LifeSecond
<1>1. OldKey' = OldKey /\ NewKey' = NewKey
  BY DEF OldKey, NewKey, KeyOf, OutgoingPk, PortTo
<1>2. Old' = Old /\ New' = New
  BY <1>1 DEF Old, New
<1>3. \A e : AnswersTo(e)' = AnswersTo(e)
  BY DEF AnswersTo, IncommingPk
<1>4. \A e : HeldAt(e)' = HeldAt(e)
  BY <1>1, <1>3 DEF HeldAt
<1>5. ASSUME UNCHANGED <<test, step, slept, sleep, mapped>> 
      PROVE  LifeReady' = LifeReady /\ LifeFirst' = LifeFirst /\ LifeSecond' = LifeSecond
  <2>1. LifeReady' = LifeReady
    BY <1>1, <1>5 DEF LifeReady
  <2>2. LifeFirst' = LifeFirst
    BY <1>1, <1>2, <1>4, <1>5 DEF LifeFirst, Elapsed
  <2>3. LifeSecond' = LifeSecond
    BY <1>1, <1>2, <1>3, <1>4, <1>5 DEF LifeSecond
  <2>4. QED
    BY <2>1, <2>2, <2>3
<1>6. QED
  BY <1>1, <1>2, <1>3, <1>4, <1>5

\* The identifiers change with the configuration alone.
LEMMA LifeIds ==
  ASSUME UNCHANGED mConfig
  PROVE  /\ OldKey' = OldKey /\ NewKey' = NewKey
         /\ \A a, p, b, q : IncommingPk(a, p, b, q)' = IncommingPk(a, p, b, q)
BY DEF OldKey, NewKey, KeyOf, OutgoingPk, PortTo, IncommingPk

\* The first request has left: its flow is bound, and its answers may come.
LEMMA LifeOutFirst ==
  ASSUME SessionTypeOK, IInv, LifeMeant, step = 1, UNCHANGED <<test, step, sleep, slept>>,
         sleep = slept, slept \in Nat, LifeReady, LifeFirst,
         NEW ip, NEW port, Departs(PortTo(1), ip, port)
  PROVE  /\ LifeReady' /\ LifeFirst'
         /\ OldKey \in DOMAIN mOutgoingTable' /\ Old'.ip = ip /\ Old'.port = port
<1>1. PICK pk : pk = PortTo(1)
  OBVIOUS
<1>2. /\ pk.src = ClientA /\ pk.sport = SourcePort /\ pk.dst = ServerAIP /\ pk.dport = ServerPort1
      /\ KeyOf(pk) = OldKey /\ OldKey # NewKey /\ Departs(pk, ip, port)
  BY <1>1, LifePackets, LifeKeys DEF OldKey, IInv
<1>3. PICK key : key = IncommingPk(ServerAIP, ServerPort1, ip, port)
  OBVIOUS
<1>4. /\ UNCHANGED <<mConfig, mThread>> /\ DOMAIN mAvailablePorts' = DOMAIN mAvailablePorts
      /\ DOMAIN mOutgoingTable' = DOMAIN mOutgoingTable \cup {OldKey}
      /\ mOutgoingTable'[OldKey].ip = ip /\ mOutgoingTable'[OldKey].port = port
      /\ mOutgoingTable'[OldKey].age = 0
  BY <1>2 DEF Departs
<1>5. Entered(pk, key, mIncommingTable, mIncommingTable')
  BY <1>2, <1>3 DEF Departs
<1>6. /\ DOMAIN mIncommingTable' = DOMAIN mIncommingTable \cup {key}
      /\ \A i \in DOMAIN mIncommingTable : i # key => mIncommingTable'[i] = mIncommingTable[i]
      /\ \/ key \in DOMAIN mIncommingTable /\ mIncommingTable'[key] = mIncommingTable[key]
         \/ /\ mIncommingTable'[key].ip = ClientA /\ mIncommingTable'[key].port = SourcePort
            /\ mIncommingTable'[key].reverse = OldKey
  BY <1>2, <1>5 DEF Entered
<1>7. IF OldKey \in DOMAIN mOutgoingTable
      THEN /\ ip = mOutgoingTable[OldKey].ip /\ port = mOutgoingTable[OldKey].port
           /\ mAvailablePorts' = mAvailablePorts
      ELSE mConfig.mPortOverloading =>
             /\ port = SourcePort
             /\ \A x \in DOMAIN mAvailablePorts : \A q \in mAvailablePorts'[x] :
                  q \in mAvailablePorts[x] \/ q = SourcePort
  BY <1>2 DEF Departs
<1>8. /\ \A i \in DOMAIN mIncommingTable : mIncommingTable[i].reverse = OldKey => i = key
      /\ key \in DOMAIN mIncommingTable => /\ mIncommingTable[key].ip = ClientA
                                           /\ mIncommingTable[key].port = SourcePort
                                           /\ mIncommingTable[key].reverse = OldKey
      /\ mConfig.mPortOverloading => port = SourcePort
  <2>1. CASE OldKey \in DOMAIN mOutgoingTable
    <3>1. HeldAt(Old) /\ Old.ip = ip /\ Old.port = port
      BY <1>7, <2>1 DEF LifeFirst, Old, Address
    <3>2. AnswersTo(Old) = key
      BY <1>3, <3>1 DEF AnswersTo
    <3>3. QED
      BY <3>1, <3>2 DEF HeldAt
  <2>2. CASE OldKey \notin DOMAIN mOutgoingTable
    BY <1>7, <2>2 DEF LifeFirst
  <2>3. QED
    BY <2>1, <2>2
<1>9. /\ OldKey' = OldKey /\ NewKey' = NewKey
      /\ IncommingPk(ServerAIP, ServerPort1, ip, port)' = key
  BY <1>3, <1>4, LifeIds
<1>10. Old'.ip = ip /\ Old'.port = port /\ AnswersTo(Old)' = key
  <2>1. Old'.ip = ip /\ Old'.port = port
    BY <1>4, <1>9 DEF Old, Address
  <2>2. QED
    BY <1>9, <2>1 DEF AnswersTo
<1>11. HeldAt(Old)'
  BY <1>4, <1>6, <1>8, <1>9, <1>10 DEF HeldAt
<1>12. Elapsed' = 0 /\ 0 < Timeout
  BY ConstantTypes DEF Elapsed
<1>13. LifeFirst'
  BY <1>4, <1>9, <1>11, <1>12 DEF LifeFirst
<1>14. mConfig.mPortOverloading =>
         \A x \in NatIPs : \A q \in mAvailablePorts'[x] : q = SourcePort
  <2>1. NewKey \notin DOMAIN mOutgoingTable
    BY DEF LifeReady
  <2>2. CASE OldKey \in DOMAIN mOutgoingTable
    BY <1>7, <2>1, <2>2 DEF LifeReady
  <2>3. CASE OldKey \notin DOMAIN mOutgoingTable
    BY <1>7, <2>3 DEF LifeReady, LifeFirst
  <2>4. QED
    BY <2>2, <2>3
<1>15. LifeReady'
  <2>1. NewKey \notin DOMAIN mOutgoingTable'
    BY <1>2, <1>4 DEF LifeReady
  <2>2. QED
    BY <1>4, <1>9, <1>14, <2>1 DEF LifeReady
<1>16. QED
  BY <1>4, <1>10, <1>13, <1>15

\* The second request has left: it leaves the first flow alone, bound or torn down.
LEMMA LifeOutSecond ==
  ASSUME SessionTypeOK, IInv, IInv', LifeMeant, step = 2, UNCHANGED <<test, step, sleep, slept, mapped>>,
         LifeReady, LifeSecond, NEW ip, NEW port, Departs(PortTo(2), ip, port)
  PROVE  LifeReady' /\ LifeSecond' /\ NewKey \in DOMAIN mOutgoingTable'
<1>1. PICK pk : pk = PortTo(2)
  OBVIOUS
<1>2. /\ pk.src = ClientA /\ pk.sport = SourcePort + 1 /\ pk.dst = ServerAIP /\ pk.dport = ServerPort1
      /\ KeyOf(pk) = NewKey /\ OldKey # NewKey /\ Departs(pk, ip, port) /\ TypeOK
  BY <1>1, LifePackets, LifeKeys DEF NewKey, IInv
<1>3. PICK key : key = IncommingPk(ServerAIP, ServerPort1, ip, port)
  OBVIOUS
<1>4. /\ UNCHANGED <<mConfig, mThread>> /\ DOMAIN mAvailablePorts' = DOMAIN mAvailablePorts
      /\ DOMAIN mOutgoingTable' = DOMAIN mOutgoingTable \cup {NewKey}
      /\ \A o \in DOMAIN mOutgoingTable : o # NewKey => mOutgoingTable'[o] = mOutgoingTable[o]
      /\ mOutgoingTable'[NewKey].ip = ip /\ mOutgoingTable'[NewKey].port = port
      /\ mOutgoingTable'[NewKey].age = 0
  BY <1>2 DEF Departs
<1>5. Entered(pk, key, mIncommingTable, mIncommingTable')
  BY <1>2, <1>3 DEF Departs
<1>6. /\ DOMAIN mIncommingTable' = DOMAIN mIncommingTable \cup {key}
      /\ \A i \in DOMAIN mIncommingTable : i # key => mIncommingTable'[i] = mIncommingTable[i]
      /\ \/ key \in DOMAIN mIncommingTable /\ mIncommingTable'[key] = mIncommingTable[key]
         \/ mIncommingTable'[key].reverse = NewKey
  BY <1>2, <1>5 DEF Entered
<1>7. IF NewKey \in DOMAIN mOutgoingTable
      THEN /\ ip = mOutgoingTable[NewKey].ip /\ port = mOutgoingTable[NewKey].port
           /\ mAvailablePorts' = mAvailablePorts
      ELSE mConfig.mPortOverloading =>
             /\ port = SourcePort + 1
             /\ \A x \in DOMAIN mAvailablePorts : \A q \in mAvailablePorts'[x] :
                  q \in mAvailablePorts[x] \/ q = SourcePort + 1
  BY <1>2 DEF Departs
<1>8. ip # mapped[1].ip \/ port # mapped[1].port
  <2>1. CASE NewKey \in DOMAIN mOutgoingTable
    BY <1>7, <2>1 DEF LifeSecond, New, Address
  <2>2. CASE NewKey \notin DOMAIN mOutgoingTable
    <3>1. OldKey \in DOMAIN mOutgoingTable /\ HeldAt(mapped[1])
      BY <2>2 DEF LifeSecond
    <3>2. CASE mConfig.mPortOverloading
      BY <1>7, <2>2, <3>1, <3>2, LifePackets DEF HeldAt
    <3>3. CASE ~mConfig.mPortOverloading
      <4>1. /\ OldKey \in DOMAIN mOutgoingTable' /\ NewKey \in DOMAIN mOutgoingTable'
            /\ mOutgoingTable'[OldKey] = mOutgoingTable[OldKey]
        BY <1>2, <1>4, <3>1
      <4>2. BindingExclusive' /\ Exclusive'
        BY <1>4, <3>3 DEF IInv, Exclusive
      <4>3. Endpoint(OldKey)' # Endpoint(NewKey)'
        <5>1. \A o, n \in DOMAIN mOutgoingTable' : Endpoint(o)' = Endpoint(n)' => o = n
          BY <4>2 DEF BindingExclusive
        <5>2. OldKey' = OldKey /\ NewKey' = NewKey
          BY <1>4, LifeIds
        <5>3. PICK o, n : o = OldKey /\ n = NewKey
          OBVIOUS
        <5>4. Endpoint(o)' # Endpoint(n)'
          BY <1>2, <4>1, <5>1, <5>3
        <5>5. QED
          BY <5>2, <5>3, <5>4 DEF Endpoint
      <4>4. QED
        BY <1>4, <3>1, <4>1, <4>3, LifeIds DEF Endpoint, HeldAt
    <3>4. QED
      BY <3>2, <3>3
  <2>3. QED
    BY <2>1, <2>2
<1>9. PICK e : e = mapped[1]
  OBVIOUS
<1>10. AnswersTo(e) # key
  <2>1. PICK f : f = Address(ip, port)
    OBVIOUS
  <2>2. f.ip = ip /\ f.port = port
    BY <2>1 DEF Address
  <2>3. AnswersTo(e) # AnswersTo(f)
    BY <1>2, <1>8, <1>9, <2>2, AnswersDiffer
  <2>4. QED
    BY <1>3, <2>2, <2>3 DEF AnswersTo
<1>11. OldKey' = OldKey /\ NewKey' = NewKey /\ mapped' = mapped
  BY <1>4, LifeIds
<1>12. AnswersTo(e)' = AnswersTo(e)
  BY <1>4 DEF AnswersTo, IncommingPk
<1>13. /\ New'.ip # e.ip \/ New'.port # e.port
  BY <1>4, <1>8, <1>9, <1>11 DEF New, Address
<1>14. OldKey \in DOMAIN mOutgoingTable' <=> OldKey \in DOMAIN mOutgoingTable
  BY <1>2, <1>4
<1>15. ASSUME OldKey \in DOMAIN mOutgoingTable PROVE LifeSecond'
  <2>1. HeldAt(e) /\ (mOutgoingTable[OldKey].age < Timeout <=> slept < Timeout)
    BY <1>9, <1>15 DEF LifeSecond
  <2>2. mOutgoingTable'[OldKey] = mOutgoingTable[OldKey]
    BY <1>2, <1>4, <1>15
  <2>3. /\ AnswersTo(e) \in DOMAIN mIncommingTable'
        /\ mIncommingTable'[AnswersTo(e)] = mIncommingTable[AnswersTo(e)]
    BY <1>6, <1>10, <2>1 DEF HeldAt
  <2>4. \A i \in DOMAIN mIncommingTable' : mIncommingTable'[i].reverse = OldKey => i = AnswersTo(e)
    BY <1>2, <1>6, <2>1 DEF HeldAt
  <2>5. HeldAt(e)'
    BY <1>4, <1>11, <1>12, <2>1, <2>2, <2>3, <2>4 DEF HeldAt
  <2>6. HeldAt(mapped[1])'
    BY <1>9, <1>11, <2>5 DEF HeldAt, AnswersTo, IncommingPk
  <2>7. mOutgoingTable'[OldKey'].age < Timeout <=> slept' < Timeout
    BY <1>11, <2>1, <2>2
  <2>8. OldKey' \in DOMAIN mOutgoingTable'
    BY <1>11, <1>14, <1>15
  <2>9. New'.ip # mapped'[1].ip \/ New'.port # mapped'[1].port
    BY <1>9, <1>11, <1>13
  <2>10. QED
    BY <2>6, <2>7, <2>8, <2>9 DEF LifeSecond
<1>16. ASSUME OldKey \notin DOMAIN mOutgoingTable PROVE LifeSecond'
  <2>1. slept >= Timeout /\ AnswersTo(e) \notin DOMAIN mIncommingTable
    BY <1>9, <1>16 DEF LifeSecond
  <2>2. AnswersTo(e) \notin DOMAIN mIncommingTable'
    BY <1>6, <1>10, <2>1
  <2>3. AnswersTo(mapped[1])' = AnswersTo(e)
    BY <1>9, <1>11, <1>12 DEF AnswersTo, IncommingPk
  <2>4. OldKey' \notin DOMAIN mOutgoingTable' /\ NewKey' \in DOMAIN mOutgoingTable'
    BY <1>4, <1>11, <1>14, <1>16
  <2>5. New'.ip # mapped'[1].ip \/ New'.port # mapped'[1].port
    BY <1>9, <1>11, <1>13
  <2>6. QED
    BY <2>1, <2>2, <2>3, <2>4, <2>5 DEF LifeSecond
<1>17. mConfig.mPortOverloading =>
         \A x \in NatIPs : \A q \in mAvailablePorts'[x] : q = SourcePort \/ q = SourcePort + 1
  BY <1>7 DEF LifeReady
<1>18. LifeReady'
  <2>1. DOMAIN mOutgoingTable' \subseteq {OldKey, NewKey} /\ NewKey \in DOMAIN mOutgoingTable'
    BY <1>4 DEF LifeReady
  <2>2. mThread' = mThread /\ mConfig' = mConfig /\ DOMAIN mAvailablePorts' = NatIPs
    BY <1>4 DEF LifeReady
  <2>3. QED
    BY <1>4, <1>11, <1>17, <2>1, <2>2 DEF LifeReady
<1>19. LifeSecond'
  BY <1>15, <1>16
<1>20. QED
  BY <1>4, <1>18, <1>19

\* The packet of a request under way is the only one.
LEMMA LifeWait ==
  ASSUME SessionTypeOK, IInv, LifeInv, LifeMeant, phase = "wait", NEW p \in net
  PROVE  /\ Asks /\ step \in {1, 2} /\ test = "lifetime" /\ net = {p}
         /\ LifeReady /\ (IF step = 1 THEN LifeFirst /\ sleep = slept ELSE LifeSecond)
         /\ LifeWay(p) /\ me["P"] = Opened /\ slept \in Nat
         /\ step = 2 => me["S"] = Address(ClientA, SourcePort + 1)
         /\ p \in FromClient \cup ToServer \cup FromServer \cup ToClient /\ TypeOK
<1>1. Asks /\ step \in {1, 2} /\ test = "lifetime"
  BY LifeRequest DEF Asks, LifeMeant
<1>2. /\ LifeReady /\ (IF step = 1 THEN LifeFirst ELSE LifeSecond)
      /\ me["P"] = Opened /\ slept \in Nat /\ (step = 1 => sleep = slept)
  BY <1>1 DEF LifeInv
<1>3. LifeWay(p) /\ net = {p} /\ (step = 2 => me["S"] = Address(ClientA, SourcePort + 1))
  BY DEF LifeInv
<1>4. QED
  BY <1>1, <1>2, <1>3 DEF SessionTypeOK, NetType, IInv

\* The request leaves, for the server.
LEMMA LifeOutgoing ==
  ASSUME SessionTypeOK, IInv, IInv', LifeInv, MaxPort >= 2, LifeMeant, phase = "wait",
         NEW p \in net, Outgoing(p)
  PROVE  /\ LifeReady' /\ (IF step = 1 THEN LifeFirst' ELSE LifeSecond')
         /\ \E q : net' = {q} /\ LifeWay(q)'
         /\ OldKey \in DOMAIN mOutgoingTable => /\ OldKey' \in DOMAIN mOutgoingTable'
                                                /\ step = 1 => Old' = Old
<1>1. /\ Asks /\ step \in {1, 2} /\ net = {p} /\ test = "lifetime"
      /\ LifeReady /\ (IF step = 1 THEN LifeFirst /\ sleep = slept ELSE LifeSecond)
      /\ LifeWay(p) /\ slept \in Nat
      /\ p \in FromClient \cup ToServer \cup FromServer \cup ToClient /\ TypeOK
  BY LifeWait
<1>2. p \in FromClient /\ p.src \in PrivateIPs /\ p.src \notin PublicIPs
  BY <1>1, Sides, AddressAssumption DEF Outgoing
<1>3. UNCHANGED <<test, step, phase, mapped, changed, sleep, slept>>
  BY DEF Outgoing, clientVars
<1>4. Header(p) = PortTo(step) /\ p.wire = Wire
  BY <1>1, <1>2 DEF LifeWay
<1>5. PICK ip, port : Departs(PortTo(step), ip, port)
  BY <1>1, <1>4, LifeDeparts DEF Outgoing
<1>6. /\ LifeReady' /\ (IF step = 1 THEN LifeFirst' ELSE LifeSecond')
      /\ KeyOf(PortTo(step)) \in DOMAIN mOutgoingTable'
      /\ step = 1 => Old'.ip = ip /\ Old'.port = port
  <2>1. CASE step = 1
    BY <1>1, <1>3, <1>5, <2>1, LifeOutFirst DEF OldKey
  <2>2. CASE step = 2
    BY <1>1, <1>3, <1>5, <2>2, LifeOutSecond DEF NewKey
  <2>3. QED
    BY <1>1, <2>1, <2>2
<1>7. UNCHANGED mConfig /\ sent' # Nothing /\ sent'.from[1] = ip /\ sent'.from[2] = port
  BY <1>5 DEF Departs
<1>8. PICK q \in ToServer :
         /\ net' = (net \ {p}) \cup {q}
         /\ q.src = sent'.from[1] /\ q.sport = sent'.from[2]
         /\ q.dst = p.dst /\ q.dport = p.dport /\ q.wire = p.wire
  BY <1>1, <1>2, <1>7, OutgoingPacket
<1>9. net' = {q}
  BY <1>1, <1>8
<1>10. q.src \in NatIPs /\ q.dst \in PublicIPs
  BY DEF ToServer, Between
<1>11. q.src \notin PrivateIPs /\ q.src \notin PublicIPs /\ q.dst \notin NatIPs /\ q.dst \notin PrivateIPs
  BY <1>10, AddressAssumption
<1>12. q.dst = ServerAIP /\ q.dport = ServerPort1 /\ q.wire = Wire'
  <2>1. p.dst = PortTo(step).dst /\ p.dport = PortTo(step).dport
    BY <1>4 DEF Header
  <2>2. PortTo(step).dst = ServerAIP /\ PortTo(step).dport = ServerPort1
    BY <1>1, LifePackets
  <2>3. Wire' = Wire
    BY <1>3, SameRequest
  <2>4. QED
    BY <1>4, <1>8, <2>1, <2>2, <2>3
<1>13. KeyOf(PortTo(step))' \in DOMAIN mOutgoingTable'
  BY <1>1, <1>3, <1>6, <1>7, LifeIds DEF OldKey, NewKey
<1>14. step = 1 => q.src = Old'.ip /\ q.sport = Old'.port
  BY <1>6, <1>7, <1>8
<1>15. LifeWay(q)'
  BY <1>3, <1>10, <1>11, <1>12, <1>13, <1>14 DEF LifeWay
<1>16. OldKey \in DOMAIN mOutgoingTable => /\ OldKey' \in DOMAIN mOutgoingTable'
                                           /\ step = 1 => Old' = Old
  <2> SUFFICES ASSUME OldKey \in DOMAIN mOutgoingTable
               PROVE  OldKey' \in DOMAIN mOutgoingTable' /\ (step = 1 => Old' = Old)
    OBVIOUS
  <2>1. OldKey' = OldKey /\ OldKey \in DOMAIN mOutgoingTable'
    BY <1>5, <1>7, LifeIds DEF Departs
  <2>2. step = 1 => Old' = Old
    <3> SUFFICES ASSUME step = 1 PROVE Old' = Old
      OBVIOUS
    <3>1. KeyOf(PortTo(step)) = OldKey
      BY DEF OldKey
    <3>2. /\ mOutgoingTable'[OldKey].ip = mOutgoingTable[OldKey].ip
          /\ mOutgoingTable'[OldKey].port = mOutgoingTable[OldKey].port
      BY <1>5, <3>1 DEF Departs
    <3>3. QED
      BY <2>1, <3>2 DEF Old
  <2>3. QED
    BY <2>1, <2>2
<1>17. QED
  BY <1>6, <1>9, <1>15, <1>16

\* An answer to e finds the entry of e; that of the first flow leads back to its binding.
LEMMA LifeFilter ==
  ASSUME LifeMeant, NEW e, NEW pk, pk.src = ServerAIP, pk.sport = ServerPort1,
         pk.dst = e.ip, pk.dport = e.port
  PROVE  FilterKey(pk) = AnswersTo(e) /\ (HeldAt(e) => BindingKey(pk) = OldKey)
<1>1. FilterKey(pk) = AnswersTo(e)
  BY DEF FilterKey, AnswersTo
<1>2. OldKey = OutgoingPk(ClientA, SourcePort, ServerAIP, ServerPort1)
  BY LifePackets DEF OldKey, KeyOf
<1>3. HeldAt(e) => BindingKey(pk) = OldKey
  BY <1>1, <1>2 DEF BindingKey, HeldAt
<1>4. QED
  BY <1>1, <1>3

\* An answer to the first flow, while it is alive, is let in and leaves it alive.
LEMMA LifeLetIn ==
  ASSUME TypeOK, LifeMeant, NEW e, NEW pk, pk.src = ServerAIP, pk.sport = ServerPort1,
         pk.dst = e.ip, pk.dport = e.port, HeldAt(e), OldKey \in DOMAIN mOutgoingTable,
         mOutgoingTable[OldKey].age < Timeout, TreatIncommingPacket(pk)
  PROVE  /\ UNCHANGED <<mConfig, mThread, mIncommingTable, mAvailablePorts>>
         /\ DOMAIN mOutgoingTable' = DOMAIN mOutgoingTable
         /\ \A o \in DOMAIN mOutgoingTable :
              /\ mOutgoingTable'[o].ip = mOutgoingTable[o].ip
              /\ mOutgoingTable'[o].port = mOutgoingTable[o].port
              /\ o # OldKey => mOutgoingTable'[o] = mOutgoingTable[o]
         /\ mOutgoingTable'[OldKey].age = mOutgoingTable[OldKey].age \/ mOutgoingTable'[OldKey].age = 0
         /\ sent' # Nothing
<1>1. FilterKey(pk) = AnswersTo(e) /\ BindingKey(pk) = OldKey
  BY LifeFilter
<1>2. FilterKey(pk) \in DOMAIN mIncommingTable
  BY <1>1 DEF HeldAt
<1>3. /\ mOutgoingTable[OldKey] \in Binding /\ mOutgoingTable[OldKey].age \in Nat /\ Timeout \in Nat
      /\ ~(mOutgoingTable[OldKey].age >= Timeout)
  BY ConstantTypes DEF TypeOK, IsTable, Binding
<1>4. IncommingForward(pk)
  BY <1>1, <1>2, <1>3 DEF TreatIncommingPacket, IncommingExpire, IncommingForwardUnbound, IncommingDrop, Expire
<1>5. /\ UNCHANGED <<mConfig, mThread, mIncommingTable, mAvailablePorts>> /\ Forward(pk)
      /\ UpdateLastTrafficTime(OldKey) \/ UNCHANGED mOutgoingTable
  BY <1>1, <1>4 DEF IncommingForward
<1>6. sent' # Nothing
  <2>1. sent'.from[1] = ServerAIP
    BY <1>5 DEF Forward, Emit
  <2>2. QED
    BY <2>1, SessionConstants, AddressAssumption DEF Nothing
<1>7. CASE UNCHANGED mOutgoingTable
  BY <1>5, <1>6, <1>7
<1>8. CASE UpdateLastTrafficTime(OldKey)
  <2>1. PICK b : b = mOutgoingTable[OldKey]
    OBVIOUS
  <2>2. PICK c : c = [b EXCEPT !.age = 0]
    OBVIOUS
  <2>3. mOutgoingTable' = Put(mOutgoingTable, OldKey, c) /\ c.age = 0 /\ c.ip = b.ip /\ c.port = b.port
    BY <1>3, <1>8, <2>1, <2>2 DEF UpdateLastTrafficTime, Binding
  <2>4. /\ DOMAIN mOutgoingTable' = DOMAIN mOutgoingTable /\ mOutgoingTable'[OldKey] = c
        /\ \A o \in DOMAIN mOutgoingTable : o # OldKey => mOutgoingTable'[o] = mOutgoingTable[o]
    BY <2>3 DEF Put
  <2>5. QED
    BY <1>5, <1>6, <2>1, <2>3, <2>4
<1>9. QED
  BY <1>5, <1>7, <1>8

\* One that comes too late is the packet that tears the first flow down.
LEMMA LifeTornDown ==
  ASSUME TypeOK, LifeMeant, NEW e, NEW pk, pk.src = ServerAIP, pk.sport = ServerPort1,
         pk.dst = e.ip, pk.dport = e.port, HeldAt(e), OldKey \in DOMAIN mOutgoingTable,
         ~(mOutgoingTable[OldKey].age < Timeout), TreatIncommingPacket(pk)
  PROVE  /\ UNCHANGED <<mConfig, mThread>> /\ DOMAIN mAvailablePorts' = DOMAIN mAvailablePorts
         /\ \A x \in DOMAIN mAvailablePorts : mAvailablePorts'[x] \subseteq mAvailablePorts[x]
         /\ DOMAIN mOutgoingTable' = DOMAIN mOutgoingTable \ {OldKey}
         /\ \A o \in DOMAIN mOutgoingTable' : mOutgoingTable'[o] = mOutgoingTable[o]
         /\ AnswersTo(e) \notin DOMAIN mIncommingTable'
         /\ sent' = Nothing
<1>1. FilterKey(pk) = AnswersTo(e) /\ BindingKey(pk) = OldKey
  BY LifeFilter
<1>2. FilterKey(pk) \in DOMAIN mIncommingTable
  BY <1>1 DEF HeldAt
<1>3. IncommingExpire(pk)
  BY <1>1, <1>2 DEF TreatIncommingPacket, IncommingForward, IncommingForwardUnbound, IncommingDrop
<1>4. Expire(OldKey)
  BY <1>1, <1>3 DEF IncommingExpire
<1>5. Cleaned(mIncommingTable, OldKey) = {AnswersTo(e)}
  <2>1. Matching(mIncommingTable, OldKey) = {AnswersTo(e)}
    BY DEF Matching, HeldAt
  <2>2. DOMAIN mIncommingTable \subseteq TrafficId
    BY DEF TypeOK, IsTable
  <2>3. QED
    BY <2>1, <2>2, CleanOne
<1>6. AnswersTo(e) \notin DOMAIN mIncommingTable'
  BY <1>4, <1>5 DEF Expire, Clean, Without
<1>7. /\ UNCHANGED <<mConfig, mThread>> /\ sent' = Nothing
      /\ DOMAIN mOutgoingTable' = DOMAIN mOutgoingTable \ {OldKey}
      /\ \A o \in DOMAIN mOutgoingTable' : mOutgoingTable'[o] = mOutgoingTable[o]
  BY <1>4 DEF Expire, Without
<1>8. /\ DOMAIN mAvailablePorts' = DOMAIN mAvailablePorts
      /\ \A x \in DOMAIN mAvailablePorts : mAvailablePorts'[x] \subseteq mAvailablePorts[x]
  BY <1>4 DEF Expire, FreePort
<1>9. QED
  BY <1>6, <1>7, <1>8

\* Letting an answer in keeps what is known of the two flows.
LEMMA LifeStays ==
  ASSUME TypeOK, LifeMeant, UNCHANGED <<step, mConfig, mThread, mIncommingTable, mAvailablePorts>>,
         DOMAIN mOutgoingTable' = DOMAIN mOutgoingTable, LifeReady, OldKey \in DOMAIN mOutgoingTable,
         \A o \in DOMAIN mOutgoingTable :
           /\ mOutgoingTable'[o].ip = mOutgoingTable[o].ip
           /\ mOutgoingTable'[o].port = mOutgoingTable[o].port
           /\ o # OldKey => mOutgoingTable'[o] = mOutgoingTable[o]
  PROVE  /\ OldKey' = OldKey /\ NewKey' = NewKey /\ Old' = Old
         /\ NewKey \in DOMAIN mOutgoingTable => New' = New
         /\ LifeReady' /\ \A e : HeldAt(e) => HeldAt(e)'
<1>1. OldKey' = OldKey /\ NewKey' = NewKey /\ OldKey # NewKey
  BY LifeIds, LifeKeys
<1>2. Old' = Old
  BY <1>1 DEF Old
<1>3. NewKey \in DOMAIN mOutgoingTable => New' = New
  BY <1>1 DEF New
<1>4. LifeReady'
  BY <1>1 DEF LifeReady
<1>5. ASSUME NEW e, HeldAt(e) PROVE HeldAt(e)'
  <2>1. AnswersTo(e)' = AnswersTo(e)
    BY DEF AnswersTo, IncommingPk
  <2>2. QED
    BY <1>1, <1>5, <2>1 DEF HeldAt
<1>6. QED
  BY <1>1, <1>2, <1>3, <1>4, <1>5

\* The first answer passes the NAT.
LEMMA LifeInFirst ==
  ASSUME SessionTypeOK, TypeOK, LifeInv, LifeMeant, phase = "wait", step = 1, NEW p \in net, Incomming(p), IInv
  PROVE  /\ LifeReady' /\ LifeFirst' /\ OldKey' \in DOMAIN mOutgoingTable' /\ Old' = Old
         /\ \E q : net' = {q} /\ LifeWay(q)'
<1>1. /\ Asks /\ net = {p} /\ test = "lifetime" /\ LifeReady /\ LifeFirst /\ sleep = slept
      /\ LifeWay(p) /\ slept \in Nat
      /\ p \in FromClient \cup ToServer \cup FromServer \cup ToClient
  BY LifeWait
<1>2. /\ p \in FromServer /\ Header(p) \in InPackets
      /\ p.src \in PublicIPs /\ p.src \notin PrivateIPs /\ p.dst \in NatIPs
  BY <1>1, Sides, AddressAssumption DEF Incomming
<1>3. UNCHANGED <<test, step, phase, mapped, changed, sleep, slept>>
  BY DEF Incomming, clientVars
<1>4. PICK pk : pk = Header(p)
  OBVIOUS
<1>5. PICK e : e = Old
  OBVIOUS
<1>6. /\ KeyOf(PortTo(1)) \in DOMAIN mOutgoingTable /\ p.src = ServerAIP /\ p.sport = ServerPort1
      /\ Learned(decode(p.wire), MAPPED_ADDRESS) = Old /\ p.dst = Old.ip /\ p.dport = Old.port
  BY <1>1, <1>2 DEF LifeWay
<1>7. OldKey \in DOMAIN mOutgoingTable
  BY <1>6 DEF OldKey
<1>8. HeldAt(e) /\ mOutgoingTable[OldKey].age = 0 /\ 0 < Timeout
  <2>1. Elapsed = 0 /\ 0 < Timeout
    BY <1>1, ConstantTypes DEF Elapsed
  <2>2. QED
    BY <1>1, <1>5, <1>7, <2>1 DEF LifeFirst
<1>9. /\ pk.src = ServerAIP /\ pk.sport = ServerPort1 /\ pk.dst = e.ip /\ pk.dport = e.port
      /\ TreatIncommingPacket(pk)
  BY <1>4, <1>5, <1>6 DEF Header, Incomming
<1>10. /\ UNCHANGED <<mConfig, mThread, mIncommingTable, mAvailablePorts>>
       /\ DOMAIN mOutgoingTable' = DOMAIN mOutgoingTable
       /\ \A o \in DOMAIN mOutgoingTable :
            /\ mOutgoingTable'[o].ip = mOutgoingTable[o].ip
            /\ mOutgoingTable'[o].port = mOutgoingTable[o].port
            /\ o # OldKey => mOutgoingTable'[o] = mOutgoingTable[o]
       /\ mOutgoingTable'[OldKey].age = 0
       /\ sent' # Nothing
  BY <1>7, <1>8, <1>9, LifeLetIn
<1>11. /\ OldKey' = OldKey /\ NewKey' = NewKey /\ Old' = Old
       /\ LifeReady' /\ HeldAt(e)'
  BY <1>1, <1>3, <1>7, <1>8, <1>10, LifeStays
<1>12. LifeFirst'
  <2>1. HeldAt(Old)'
    BY <1>5, <1>11 DEF HeldAt, AnswersTo, IncommingPk
  <2>2. Elapsed' = 0 /\ 0 < Timeout
    BY <1>1, <1>3, <1>8 DEF Elapsed
  <2>3. OldKey' \in DOMAIN mOutgoingTable' /\ mOutgoingTable'[OldKey'].age = 0
    BY <1>7, <1>10, <1>11
  <2>4. QED
    BY <2>1, <2>2, <2>3 DEF LifeFirst
<1>13. PICK q \in ToClient :
          /\ net' = (net \ {p}) \cup {q}
          /\ q.src = p.src /\ q.sport = p.sport /\ q.wire = p.wire
          /\ q.dst = mIncommingTable[FilterKey(Header(p))].ip
          /\ q.dport = mIncommingTable[FilterKey(Header(p))].port
  BY <1>2, <1>10, IncommingPacket
<1>14. q.dst = ClientA /\ q.dport = SourcePort
  <2>1. FilterKey(pk) = AnswersTo(e)
    BY <1>9, LifeFilter
  <2>2. QED
    BY <1>4, <1>8, <1>13, <2>1 DEF HeldAt
<1>15. net' = {q}
  BY <1>1, <1>13
<1>16. /\ q.src \in PublicIPs /\ q.src \notin PrivateIPs /\ q.src \notin NatIPs
       /\ q.dst \in PrivateIPs /\ q.dst \notin NatIPs
  BY AddressAssumption DEF ToClient, Between
<1>17. KeyOf(PortTo(step))' \in DOMAIN mOutgoingTable'
  BY <1>3, <1>7, <1>10, <1>11 DEF OldKey
<1>18. Learned(decode(q.wire), MAPPED_ADDRESS) = Old'
  BY <1>6, <1>11, <1>13
<1>19. Learned(decode(q.wire), MAPPED_ADDRESS)' = Old'
  BY <1>18
<1>20. LifeWay(q)'
  BY <1>3, <1>6, <1>13, <1>14, <1>16, <1>17, <1>19 DEF LifeWay
<1>21. QED
  BY <1>7, <1>10, <1>11, <1>12, <1>15, <1>20

\* After a short sleep the answer reaches the first endpoint.
LEMMA LifeInAlive ==
  ASSUME SessionTypeOK, IInv, LifeInv, LifeMeant, phase = "wait", step = 2, slept < Timeout,
         NEW p \in net, Incomming(p)
  PROVE  LifeReady' /\ LifeSecond' /\ \E q : net' = {q} /\ LifeWay(q)'
<1>1. /\ Asks /\ net = {p} /\ test = "lifetime" /\ LifeReady /\ LifeSecond /\ TypeOK
      /\ LifeWay(p) /\ slept \in Nat
      /\ p \in FromClient \cup ToServer \cup FromServer \cup ToClient
  BY LifeWait
<1>2. /\ p \in FromServer /\ Header(p) \in InPackets
      /\ p.src \in PublicIPs /\ p.src \notin PrivateIPs /\ p.dst \in NatIPs
  BY <1>1, Sides, AddressAssumption DEF Incomming
<1>3. UNCHANGED <<test, step, phase, mapped, changed, sleep, slept>>
  BY DEF Incomming, clientVars
<1>4. PICK pk : pk = Header(p)
  OBVIOUS
<1>5. PICK e : e = mapped[1]
  OBVIOUS
<1>6. /\ KeyOf(PortTo(2)) \in DOMAIN mOutgoingTable /\ p.src = ServerAIP /\ p.sport = ServerPort1
      /\ p.dst = mapped[1].ip /\ p.dport = mapped[1].port
  BY <1>1, <1>2 DEF LifeWay
<1>7. NewKey \in DOMAIN mOutgoingTable
  BY <1>6 DEF NewKey
<1>8. OldKey \in DOMAIN mOutgoingTable /\ HeldAt(e) /\ mOutgoingTable[OldKey].age < Timeout
  <2>1. ~(slept >= Timeout)
    BY <1>1, ConstantTypes
  <2>2. QED
    BY <1>1, <1>5, <2>1 DEF LifeSecond
<1>9. /\ pk.src = ServerAIP /\ pk.sport = ServerPort1 /\ pk.dst = e.ip /\ pk.dport = e.port
      /\ TreatIncommingPacket(pk)
  BY <1>4, <1>5, <1>6 DEF Header, Incomming
<1>10. /\ UNCHANGED <<mConfig, mThread, mIncommingTable, mAvailablePorts>>
       /\ DOMAIN mOutgoingTable' = DOMAIN mOutgoingTable
       /\ \A o \in DOMAIN mOutgoingTable :
            /\ mOutgoingTable'[o].ip = mOutgoingTable[o].ip
            /\ mOutgoingTable'[o].port = mOutgoingTable[o].port
            /\ o # OldKey => mOutgoingTable'[o] = mOutgoingTable[o]
       /\ mOutgoingTable'[OldKey].age = mOutgoingTable[OldKey].age \/ mOutgoingTable'[OldKey].age = 0
       /\ sent' # Nothing
  BY <1>1, <1>8, <1>9, LifeLetIn
<1>11. /\ OldKey' = OldKey /\ NewKey' = NewKey /\ New' = New
       /\ LifeReady' /\ HeldAt(e)'
  BY <1>1, <1>3, <1>7, <1>8, <1>10, LifeStays
<1>12. LifeSecond'
  <2>1. HeldAt(mapped[1])'
    BY <1>3, <1>5, <1>11 DEF HeldAt, AnswersTo, IncommingPk
  <2>2. mOutgoingTable'[OldKey'].age < Timeout <=> slept' < Timeout
    BY <1>3, <1>8, <1>10, <1>11, ConstantTypes
  <2>3. OldKey' \in DOMAIN mOutgoingTable'
    BY <1>8, <1>10, <1>11
  <2>4. New'.ip # mapped'[1].ip \/ New'.port # mapped'[1].port
    BY <1>1, <1>3, <1>7, <1>11 DEF LifeSecond
  <2>5. QED
    BY <2>1, <2>2, <2>3, <2>4 DEF LifeSecond
<1>13. PICK q \in ToClient :
          /\ net' = (net \ {p}) \cup {q}
          /\ q.src = p.src /\ q.sport = p.sport /\ q.wire = p.wire
          /\ q.dst = mIncommingTable[FilterKey(Header(p))].ip
          /\ q.dport = mIncommingTable[FilterKey(Header(p))].port
  BY <1>1, <1>2, <1>10, IncommingPacket
<1>14. q.dst = ClientA /\ q.dport = SourcePort
  <2>1. FilterKey(pk) = AnswersTo(e)
    BY <1>9, LifeFilter
  <2>2. QED
    BY <1>4, <1>8, <1>13, <2>1 DEF HeldAt
<1>15. net' = {q}
  BY <1>1, <1>13
<1>16. /\ q.src \in PublicIPs /\ q.src \notin PrivateIPs /\ q.src \notin NatIPs
       /\ q.dst \in PrivateIPs /\ q.dst \notin NatIPs
  BY AddressAssumption DEF ToClient, Between
<1>17. KeyOf(PortTo(step))' \in DOMAIN mOutgoingTable'
  BY <1>3, <1>7, <1>10, <1>11 DEF NewKey
<1>18. LifeWay(q)'
  BY <1>3, <1>6, <1>13, <1>14, <1>16, <1>17 DEF LifeWay
<1>19. QED
  BY <1>11, <1>12, <1>15, <1>18

\* After a long one it does not get in: the first answer tears the flow down, the next
\* finds no entry.
LEMMA LifeInLate ==
  ASSUME SessionTypeOK, IInv, LifeInv, LifeMeant, phase = "wait", step = 2, ~(slept < Timeout),
         NEW p \in net, Incomming(p)
  PROVE  LifeReady' /\ LifeSecond' /\ net' = {}
<1>1. /\ Asks /\ net = {p} /\ test = "lifetime" /\ LifeReady /\ LifeSecond /\ TypeOK
      /\ LifeWay(p) /\ slept \in Nat
      /\ p \in FromClient \cup ToServer \cup FromServer \cup ToClient
  BY LifeWait
<1>2. /\ p \in FromServer /\ p.src \in PublicIPs /\ p.src \notin PrivateIPs /\ p.dst \in NatIPs
  BY <1>1, Sides, AddressAssumption DEF Incomming
<1>3. UNCHANGED <<test, step, phase, mapped, changed, sleep, slept>>
  BY DEF Incomming, clientVars
<1>4. PICK pk : pk = Header(p)
  OBVIOUS
<1>5. PICK e : e = mapped[1]
  OBVIOUS
<1>6. /\ KeyOf(PortTo(2)) \in DOMAIN mOutgoingTable /\ p.src = ServerAIP /\ p.sport = ServerPort1
      /\ p.dst = mapped[1].ip /\ p.dport = mapped[1].port
  BY <1>1, <1>2 DEF LifeWay
<1>7. NewKey \in DOMAIN mOutgoingTable /\ slept >= Timeout
  BY <1>1, <1>6, ConstantTypes DEF NewKey
<1>8. /\ pk.src = ServerAIP /\ pk.sport = ServerPort1 /\ pk.dst = e.ip /\ pk.dport = e.port
      /\ TreatIncommingPacket(pk)
  BY <1>4, <1>5, <1>6 DEF Header, Incomming
<1>9. sent' = Nothing => net' = {}
  BY <1>1 DEF Incomming, Translated
<1>10. CASE OldKey \in DOMAIN mOutgoingTable
  <2>1. HeldAt(e) /\ ~(mOutgoingTable[OldKey].age < Timeout)
    BY <1>1, <1>5, <1>10 DEF LifeSecond
  <2>2. /\ UNCHANGED <<mConfig, mThread>> /\ DOMAIN mAvailablePorts' = DOMAIN mAvailablePorts
        /\ \A x \in DOMAIN mAvailablePorts : mAvailablePorts'[x] \subseteq mAvailablePorts[x]
        /\ DOMAIN mOutgoingTable' = DOMAIN mOutgoingTable \ {OldKey}
        /\ \A o \in DOMAIN mOutgoingTable' : mOutgoingTable'[o] = mOutgoingTable[o]
        /\ AnswersTo(e) \notin DOMAIN mIncommingTable'
        /\ sent' = Nothing
    BY <1>1, <1>8, <1>10, <2>1, LifeTornDown
  <2>3. OldKey' = OldKey /\ NewKey' = NewKey /\ OldKey # NewKey
    BY <1>1, <2>2, LifeIds, LifeKeys
  <2>4. NewKey \in DOMAIN mOutgoingTable' /\ New' = New
    BY <1>7, <2>2, <2>3 DEF New
  <2>5. AnswersTo(mapped[1])' = AnswersTo(e)
    BY <1>3, <1>5, <2>2 DEF AnswersTo, IncommingPk
  <2>6. OldKey' \notin DOMAIN mOutgoingTable'
    BY <2>2, <2>3
  <2>7. New'.ip # mapped'[1].ip \/ New'.port # mapped'[1].port
    BY <1>1, <1>3, <1>7, <2>4 DEF LifeSecond
  <2>8. LifeSecond'
    BY <1>3, <1>7, <2>2, <2>3, <2>4, <2>5, <2>6, <2>7 DEF LifeSecond
  <2>9. LifeReady'
    BY <1>1, <1>3, <2>2, <2>3, <2>4 DEF LifeReady
  <2>10. QED
    BY <1>9, <2>2, <2>8, <2>9
<1>11. CASE OldKey \notin DOMAIN mOutgoingTable
  <2>1. AnswersTo(e) \notin DOMAIN mIncommingTable /\ FilterKey(pk) = AnswersTo(e)
    BY <1>1, <1>5, <1>8, <1>11, LifeFilter DEF LifeSecond
  <2>2. IncommingDrop(pk)
    BY <1>8, <2>1 DEF TreatIncommingPacket, IncommingExpire, IncommingForward, IncommingForwardUnbound, Passes
  <2>3. UNCHANGED <<mConfig, mThread, mOutgoingTable, mIncommingTable, mAvailablePorts>> /\ sent' = Nothing
    BY <2>2 DEF IncommingDrop
  <2>4. LifeReady' /\ LifeSecond'
    BY <1>1, <1>3, <2>3, LifeSame
  <2>5. QED
    BY <1>9, <2>3, <2>4
<1>12. QED
  BY <1>10, <1>11

\* Nothing of this changes with the steps that leave the NAT and the test where they are.
LEMMA LifeWaySame ==
  ASSUME UNCHANGED <<vars, test, step, slept, mapped, changed>>
  PROVE  /\ \A q : LifeWay(q)' = LifeWay(q)
         /\ OldKey' = OldKey /\ Old' = Old
         /\ UNCHANGED sleep => LifeReady' = LifeReady /\ LifeFirst' = LifeFirst /\ LifeSecond' = LifeSecond
<1>1. UNCHANGED <<mConfig, mThread, mOutgoingTable, mIncommingTable, mAvailablePorts>>
  BY DEF vars
<1>2. /\ OldKey' = OldKey /\ Old' = Old
      /\ UNCHANGED sleep => LifeReady' = LifeReady /\ LifeFirst' = LifeFirst /\ LifeSecond' = LifeSecond
  BY <1>1, LifeSame
<1>3. Wire' = Wire
  BY SameRequest
<1>4. KeyOf(PortTo(step))' = KeyOf(PortTo(step))
  BY <1>1 DEF KeyOf, OutgoingPk, PortTo
<1>5. ASSUME NEW q PROVE LifeWay(q)' = LifeWay(q)
  BY <1>1, <1>2, <1>3, <1>4 DEF LifeWay, PortTo
<1>6. QED
  BY <1>2, <1>5

\* The second request asks for its answer to go to where the first was mapped.
LEMMA LifeElsewhere ==
  ASSUME test = "lifetime", step = 2, NEW p, p.wire = Wire
  PROVE  Answer(p).dst = mapped[1].ip /\ Answer(p).dport = mapped[1].port
<1>1. PICK e : e = mapped[1]
  OBVIOUS
<1>2. PICK i, c : i = (test = "filtering" /\ step = 2) /\ c = (test = "filtering" /\ step \in {2, 3})
  OBVIOUS
<1>3. p.wire = encode(addAttribute(createBindingRequest(step, i, c), RESPONSE_ADDRESS, e))
  BY <1>1, <1>2 DEF Wire
<1>4. /\ DOMAIN decode(p.wire).attrs = {CHANGE_REQUEST, RESPONSE_ADDRESS}
      /\ decode(p.wire).attrs[RESPONSE_ADDRESS] = e
  BY <1>3, RequestElsewhere
<1>5. PICK sender : sender = Address(p.src, p.sport)
  OBVIOUS
<1>6. getAttribute(decode(p.wire), RESPONSE_ADDRESS, sender) = e
  BY <1>4 DEF getAttribute
<1>7. Answer(p).dst = e.ip /\ Answer(p).dport = e.port
  BY <1>5, <1>6 DEF Answer, Datagram
<1>8. QED
  BY <1>1, <1>7

\* The server answers from where it was asked, to where the first flow was mapped.
LEMMA LifeServe ==
  ASSUME SessionTypeOK, IInv, LifeInv, LifeMeant, phase = "wait", NEW p \in net, Serve(p)
  PROVE  UNCHANGED vars /\ \E q : net' = {q} /\ LifeWay(q)'
<1>1. /\ Asks /\ net = {p} /\ test = "lifetime" /\ step \in {1, 2} /\ LifeWay(p)
      /\ p \in FromClient \cup ToServer \cup FromServer \cup ToClient
  BY LifeWait
<1>2. /\ p \in ToServer /\ p.src \in NatIPs /\ p.src \notin PublicIPs /\ p.src \notin PrivateIPs
  BY <1>1, Sides, AddressAssumption DEF Serve
<1>3. /\ KeyOf(PortTo(step)) \in DOMAIN mOutgoingTable /\ p.wire = Wire
      /\ p.dst = ServerAIP /\ p.dport = ServerPort1
      /\ step = 1 => p.src = Old.ip /\ p.sport = Old.port
  BY <1>1, <1>2 DEF LifeWay
<1>4. PICK msg : msg = decode(p.wire)
  OBVIOUS
<1>5. PICK source : source = Source(p, msg.attrs[CHANGE_REQUEST])
  OBVIOUS
<1>6. PICK q : q = Answer(p)
  OBVIOUS
<1>7. /\ ~msg.attrs[CHANGE_REQUEST].ip /\ ~msg.attrs[CHANGE_REQUEST].port
      /\ step = 1 => RESPONSE_ADDRESS \notin DOMAIN msg.attrs
  <2>1. /\ decode(Wire).attrs[CHANGE_REQUEST].ip = FALSE
        /\ decode(Wire).attrs[CHANGE_REQUEST].port = FALSE
    BY <1>1, WireIs
  <2>2. step = 1 => ~(test = "lifetime" /\ step = 2)
    OBVIOUS
  <2>3. step = 1 => RESPONSE_ADDRESS \notin DOMAIN decode(Wire).attrs
    BY <2>2, WireIs
  <2>4. QED
    BY <1>3, <1>4, <2>1, <2>3
<1>8. /\ decode(p.wire) # Failed
      /\ q \in FromServer /\ q.src = source.ip /\ q.sport = source.port
      /\ step = 1 => q.dst = p.src /\ q.dport = p.sport
      /\ Learned(decode(q.wire), MAPPED_ADDRESS) = Address(p.src, p.sport)
  BY <1>2, <1>4, <1>5, <1>6, <1>7, AnswerIs
<1>9. source.ip = ServerAIP /\ source.port = ServerPort1
  BY <1>3, <1>5, <1>7 DEF Source, Address
<1>10. step = 2 => q.dst = mapped[1].ip /\ q.dport = mapped[1].port
  BY <1>1, <1>3, <1>6, LifeElsewhere
<1>11. step = 1 => Learned(decode(q.wire), MAPPED_ADDRESS) = Old
  BY <1>3, <1>8 DEF Old, Address
<1>12. /\ q.src \in PublicIPs /\ q.src \notin PrivateIPs /\ q.src \notin NatIPs
       /\ q.dst \in NatIPs /\ q.dst \notin PrivateIPs
  BY <1>8, AddressAssumption DEF FromServer, Between
<1>13. LifeWay(q)
  BY <1>1, <1>3, <1>8, <1>9, <1>10, <1>11, <1>12 DEF LifeWay
<1>14. /\ UNCHANGED <<vars, test, step, slept, mapped, changed>> /\ net' = {q}
  BY <1>1, <1>6, <1>8 DEF Serve, clientVars
<1>15. LifeWay(q)'
  BY <1>13, <1>14, LifeWaySame
<1>16. QED
  BY <1>14, <1>15

\* The answer reaches the first endpoint's queue, never the second's.
LEMMA LifeDeliver ==
  ASSUME SessionTypeOK, IInv, LifeInv, LifeMeant, phase = "wait", NEW p \in net, Deliver(p)
  PROVE  /\ UNCHANGED vars /\ net' = {}
         /\ mRcvQueue'["P"] = Append(mRcvQueue["P"], p.wire)
         /\ step = 2 => mRcvQueue'["S"] = mRcvQueue["S"] /\ slept < Timeout
         /\ step = 1 => OldKey \in DOMAIN mOutgoingTable /\ Learned(decode(p.wire), MAPPED_ADDRESS) = Old
<1>1. /\ Asks /\ net = {p} /\ step \in {1, 2} /\ LifeWay(p) /\ me["P"] = Opened
      /\ step = 2 => me["S"] = Address(ClientA, SourcePort + 1)
  BY LifeWait
<1>2. p.src \in PublicIPs /\ p.src \notin PrivateIPs /\ p.dst \in PrivateIPs
  BY AddressAssumption DEF Deliver
<1>3. /\ p.dst = ClientA /\ p.dport = SourcePort /\ (step = 2 => slept < Timeout)
      /\ KeyOf(PortTo(step)) \in DOMAIN mOutgoingTable
      /\ step = 1 => Learned(decode(p.wire), MAPPED_ADDRESS) = Old
  BY <1>1, <1>2 DEF LifeWay
<1>4. UNCHANGED vars /\ net' = {}
  BY <1>1 DEF Deliver
<1>5. mRcvQueue'["P"] = Append(mRcvQueue["P"], p.wire)
  BY <1>1, <1>3 DEF Deliver, Slots, Opened
<1>6. step = 2 => mRcvQueue'["S"] = mRcvQueue["S"]
  <2>1. Address(ClientA, SourcePort + 1) # Address(p.dst, p.dport)
    BY <1>3, LifePackets DEF Address
  <2>2. QED
    BY <1>1, <2>1 DEF Deliver, Slots
<1>7. QED
  BY <1>3, <1>4, <1>5, <1>6 DEF OldKey

\* What becomes of the packet: it goes on, arrives, is lost, or comes too late.
LEMMA LifeMoved ==
  ASSUME SessionTypeOK, IInv, IInv', LifeInv, MaxPort >= 2, LifeMeant, phase = "wait",
         NEW p \in net, Carry(p) \/ Lose(p)
  PROVE  /\ LifeReady' /\ (IF step = 1 THEN LifeFirst' ELSE LifeSecond')
         /\ \/ (\E q : net' = {q} /\ LifeWay(q)') /\ mRcvQueue' = mRcvQueue /\ lost' = lost
            \/ /\ net' = {} /\ mRcvQueue' = mRcvQueue /\ lost' = lost
               /\ step = 2 /\ ~(slept < Timeout)
            \/ net' = {} /\ mRcvQueue' = mRcvQueue /\ lost' = lost + 1
            \/ /\ net' = {} /\ lost' = lost /\ mRcvQueue'["P"] = Append(mRcvQueue["P"], p.wire)
               /\ step = 2 => mRcvQueue'["S"] = mRcvQueue["S"] /\ slept < Timeout
               /\ step = 1 => /\ OldKey' \in DOMAIN mOutgoingTable'
                              /\ Learned(decode(p.wire), MAPPED_ADDRESS) = Old'
<1>1. /\ Asks /\ net = {p} /\ step \in {1, 2}
      /\ LifeReady /\ (IF step = 1 THEN LifeFirst ELSE LifeSecond) /\ TypeOK
  BY LifeWait
<1>2. server \in {"created", "loop"}
  BY <1>1 DEF LifeInv
<1>3. UNCHANGED <<test, step, sleep, slept, mapped, changed>>
  BY OnTheWay DEF clientVars
<1>4. UNCHANGED vars => LifeReady' /\ (IF step = 1 THEN LifeFirst' ELSE LifeSecond')
  BY <1>1, <1>3, LifeWaySame
<1>5. CASE Outgoing(p)
  <2>1. mRcvQueue' = mRcvQueue /\ lost' = lost
    BY <1>5 DEF Outgoing
  <2>2. QED
    BY <1>5, <2>1, LifeOutgoing
<1>6. CASE Incomming(p)
  <2>1. mRcvQueue' = mRcvQueue /\ lost' = lost
    BY <1>6 DEF Incomming
  <2>2. CASE step = 1
    BY <1>1, <1>6, <2>1, <2>2, LifeInFirst
  <2>3. CASE step = 2 /\ slept < Timeout
    BY <1>6, <2>1, <2>3, LifeInAlive
  <2>4. CASE step = 2 /\ ~(slept < Timeout)
    BY <1>6, <2>1, <2>4, LifeInLate
  <2>5. QED
    BY <1>1, <2>2, <2>3, <2>4
<1>7. CASE Serve(p)
  <2>1. mRcvQueue' = mRcvQueue /\ lost' = lost
    BY <1>7 DEF Serve
  <2>2. UNCHANGED vars /\ \E q : net' = {q} /\ LifeWay(q)'
    BY <1>7, LifeServe
  <2>3. QED
    BY <1>4, <2>1, <2>2
<1>8. CASE Unheard(p) \/ Lose(p)
  <2>1. mRcvQueue' = mRcvQueue /\ lost' = lost + 1 /\ net' = net \ {p} /\ UNCHANGED vars
    BY <1>2, <1>8 DEF Unheard, Lose
  <2>2. QED
    BY <1>1, <1>4, <2>1
<1>9. CASE Deliver(p)
  <2>1. /\ UNCHANGED vars /\ net' = {}
        /\ mRcvQueue'["P"] = Append(mRcvQueue["P"], p.wire)
        /\ step = 2 => mRcvQueue'["S"] = mRcvQueue["S"] /\ slept < Timeout
        /\ step = 1 => OldKey \in DOMAIN mOutgoingTable /\ Learned(decode(p.wire), MAPPED_ADDRESS) = Old
    BY <1>9, LifeDeliver
  <2>2. lost' = lost
    BY <1>9 DEF Deliver
  <2>3. OldKey' = OldKey /\ Old' = Old /\ mOutgoingTable' = mOutgoingTable
    BY <1>3, <2>1, LifeWaySame DEF vars
  <2>4. QED
    BY <1>4, <2>1, <2>2, <2>3
<1>10. QED
  BY <1>5, <1>6, <1>7, <1>8, <1>9 DEF Carry

\* The counts go with it.
LEMMA LifeCounted ==
  ASSUME SessionTypeOK, IInv, IInv', OneRequest, LifeInv, MaxPort >= 2, LifeMeant, phase = "wait",
         NEW p \in net, Carry(p) \/ Lose(p)
  PROVE  IF step = 1 THEN FirstCount' ELSE SecondCount'
<1>1. /\ Asks /\ net = {p} /\ step \in {1, 2} /\ test = "lifetime"
  BY LifeWait
<1>2. /\ UNCHANGED <<step, slept, retries, receivedB>>
  BY OnTheWay DEF clientVars
<1>3. retries \in Nat /\ lost \in Nat /\ (IF step = 1 THEN FirstCount ELSE SecondCount)
  BY DEF LifeInv
<1>4. mRcvQueue["P"] \in Seq(AnswerWires)
  BY DEF SessionTypeOK, NetType, Slots
<1>5. \/ (\E q : net' = {q}) /\ mRcvQueue' = mRcvQueue /\ lost' = lost
      \/ /\ net' = {} /\ mRcvQueue' = mRcvQueue /\ lost' = lost
         /\ step = 2 /\ ~(slept < Timeout)
      \/ net' = {} /\ mRcvQueue' = mRcvQueue /\ lost' = lost + 1
      \/ /\ net' = {} /\ lost' = lost /\ mRcvQueue'["P"] = Append(mRcvQueue["P"], p.wire)
         /\ step = 2 => mRcvQueue'["S"] = mRcvQueue["S"] /\ slept < Timeout
         /\ step = 1 => /\ OldKey' \in DOMAIN mOutgoingTable'
                        /\ Learned(decode(p.wire), MAPPED_ADDRESS) = Old'
  BY LifeMoved
<1>6. CASE step = 1
  <2>1. mRcvQueue["P"] = <<>>
    BY <1>1, <1>6 DEF OneRequest, Slot
  <2>2. retries <= lost + 1
    BY <1>1, <1>3, <1>6 DEF FirstCount
  <2>3. CASE (\E q : net' = {q}) /\ mRcvQueue' = mRcvQueue /\ lost' = lost
    <3>1. net' # {} /\ \A i \in 1 .. Len(mRcvQueue'["P"]) : FALSE
      BY <2>1, <2>3
    <3>2. QED
      BY <1>2, <1>3, <1>6, <2>2, <2>3, <3>1 DEF FirstCount
  <2>4. CASE net' = {} /\ mRcvQueue' = mRcvQueue /\ lost' = lost + 1
    <3>1. mRcvQueue'["P"] = <<>> /\ \A i \in 1 .. Len(mRcvQueue'["P"]) : FALSE
      BY <2>1, <2>4
    <3>2. retries' <= lost' + 0
      BY <1>2, <1>3, <2>2, <2>4
    <3>3. QED
      BY <1>6, <2>4, <3>1, <3>2 DEF FirstCount
  <2>5. CASE /\ net' = {} /\ lost' = lost /\ mRcvQueue'["P"] = Append(mRcvQueue["P"], p.wire)
             /\ OldKey' \in DOMAIN mOutgoingTable' /\ Learned(decode(p.wire), MAPPED_ADDRESS) = Old'
    <3>1. PICK w : w = p.wire
      OBVIOUS
    <3>2. mRcvQueue'["P"] = <<w>>
      BY <2>1, <2>5, <3>1
    <3>3. <<w>> # <<>> /\ Len(<<w>>) = 1 /\ <<w>>[1] = w
      OBVIOUS
    <3>4. mRcvQueue'["P"] # <<>> /\ \A i \in 1 .. Len(mRcvQueue'["P"]) : mRcvQueue'["P"][i] = w
      BY <3>2, <3>3
    <3>5. retries' <= lost' + 1
      BY <1>2, <1>3, <2>2, <2>5
    <3>6. QED
      BY <1>6, <2>5, <3>1, <3>4, <3>5 DEF FirstCount
  <2>6. step = 1 /\ step # 2
    BY <1>6
  <2>7. \/ (\E q : net' = {q}) /\ mRcvQueue' = mRcvQueue /\ lost' = lost
        \/ net' = {} /\ mRcvQueue' = mRcvQueue /\ lost' = lost + 1
        \/ /\ net' = {} /\ lost' = lost /\ mRcvQueue'["P"] = Append(mRcvQueue["P"], p.wire)
           /\ OldKey' \in DOMAIN mOutgoingTable' /\ Learned(decode(p.wire), MAPPED_ADDRESS) = Old'
    BY <1>5, <2>6
  <2>8. QED
    BY <2>3, <2>4, <2>5, <2>7
<1>7. CASE step = 2
  <2>1. /\ mRcvQueue["S"] = <<>>
        /\ slept < Timeout => /\ receivedB = "waiting" => retries <= lost + Len(mRcvQueue["P"]) + 1
                              /\ receivedB = "no" => lost >= 2
        /\ ~(slept < Timeout) => mRcvQueue["P"] = <<>> /\ receivedB # "yes"
        /\ receivedB \in {"waiting", "yes", "no"}
    <3>1. SecondCount /\ net # {}
      BY <1>1, <1>3, <1>7
    <3>2. QED
      BY <3>1 DEF SecondCount
  <2>2. Len(mRcvQueue["P"]) \in Nat
    BY <1>4
  <2>3. /\ mRcvQueue'["S"] = <<>>
        /\ ~(slept < Timeout) => mRcvQueue'["P"] = <<>> /\ receivedB # "yes"
    BY <1>5, <1>7, <2>1
  <2>4. slept < Timeout /\ receivedB = "no" => lost' >= 2
    BY <1>3, <1>5, <2>1
  <2>5. ASSUME slept < Timeout, receivedB = "waiting"
        PROVE  retries <= lost' + Len(mRcvQueue'["P"]) + (IF net' = {} THEN 0 ELSE 1)
    <3>1. retries <= lost + Len(mRcvQueue["P"]) + 1
      BY <2>1, <2>5
    <3>2. CASE (\E q : net' = {q}) /\ mRcvQueue' = mRcvQueue /\ lost' = lost
      BY <3>1, <3>2
    <3>3. CASE net' = {} /\ mRcvQueue' = mRcvQueue /\ lost' = lost + 1
      <4>1. PICK n : n = Len(mRcvQueue["P"])
        OBVIOUS
      <4>2. n \in Nat /\ retries <= lost + n + 1 /\ lost' = lost + 1
        BY <2>2, <3>1, <3>3, <4>1
      <4>3. retries <= lost' + n + 0
        BY <1>3, <4>2
      <4>4. QED
        BY <3>3, <4>1, <4>3
    <3>4. CASE net' = {} /\ lost' = lost /\ mRcvQueue'["P"] = Append(mRcvQueue["P"], p.wire)
      <4>1. Len(mRcvQueue'["P"]) = Len(mRcvQueue["P"]) + 1
        BY <1>4, <3>4
      <4>2. retries <= lost' + Len(mRcvQueue'["P"]) + 0
        BY <1>3, <2>2, <3>1, <3>4, <4>1
      <4>3. QED
        BY <3>4, <4>2
    <3>5. QED
      BY <1>5, <2>5, <3>2, <3>3, <3>4
  <2>6. QED
    BY <1>2, <1>7, <2>1, <2>3, <2>4, <2>5 DEF SecondCount
<1>8. QED
  BY <1>1, <1>6, <1>7

\* A packet that is carried stays under way or arrives; one that does not was lost.
LEMMA LifeCarry ==
  ASSUME SessionTypeOK, IInv, IInv', OneRequest, LifeInv, MaxPort >= 2,
         NEW p \in net, Carry(p) \/ Lose(p)
  PROVE  LifeInv'
<1>1. fails \in Nat /\ lost \in Nat
  BY DEF LifeInv
<1>2. UNCHANGED <<fails, server>> /\ (lost' = lost \/ lost' = lost + 1)
  BY DEF Carry, Outgoing, Incomming, Serve, Unheard, Deliver, Lose, othersVars
<1>3. UNCHANGED <<test, step, phase, sleep, slept, me, retries, receivedB>> /\ Asks' = Asks
  BY OnTheWay DEF clientVars, Asks
<1>4. phase \notin {"start", "ask", "sleep"} /\ mConfig' = mConfig
  BY ConfigStays DEF OneRequest, SessionNext
<1>5. LifeMeant' = LifeMeant
  BY <1>2, <1>3, <1>4 DEF LifeMeant, AllUp
<1>6. /\ fails' \in Nat /\ lost' \in Nat
      /\ test = "lifetime" => /\ slept \in Nat /\ sleep \in 0 .. slept
                              /\ Asks /\ step = 1 => sleep = slept
                              /\ Asks /\ step = 2 => sleep = 0
  BY <1>1, <1>2 DEF LifeInv
<1>7. CASE ~(LifeMeant /\ phase = "wait")
  <2>1. ~(LifeMeant' /\ (Asks' \/ phase' = "sleep")) /\ ~(LifeMeant' /\ phase' = "wait")
    BY <1>3, <1>4, <1>5, <1>7 DEF Asks
  <2>2. QED
    BY <1>3, <1>4, <1>6, <2>1 DEF LifeInv
<1>8. CASE LifeMeant /\ phase = "wait"
  <2>1. /\ LifeReady' /\ (IF step = 1 THEN LifeFirst' ELSE LifeSecond')
        /\ \/ (\E q : net' = {q} /\ LifeWay(q)')
           \/ net' = {}
    BY <1>8, LifeMoved
  <2>2. IF step = 1 THEN FirstCount' ELSE SecondCount'
    BY <1>8, LifeCounted
  <2>3. /\ me["P"] = Opened /\ step \in {1, 2} /\ Asks
        /\ step = 2 => me["S"] = Address(ClientA, SourcePort + 1)
    BY <1>8, LifeWait
  <2>4. \A q \in net' : LifeWay(q)' /\ net' = {q}
    BY <2>1
  <2>5. server \in {"created", "loop"} /\ retries \in Nat /\ (step = 1 => receivedB = "waiting")
    BY <1>8, <2>3 DEF LifeInv
  <2>6. Opened' = Opened
    BY DEF Opened
  <2>7. QED
    BY <1>2, <1>3, <1>4, <1>6, <1>8, <2>1, <2>2, <2>3, <2>4, <2>5, <2>6 DEF LifeInv
<1>9. QED
  BY <1>7, <1>8

\* The test has started: the NAT runs, and its tables are empty.
LEMMA LifeStart ==
  ASSUME SessionTypeOK, IInv, LifeInv, StartParts
  PROVE  LifeInv'
<1>1. /\ phase = "start" /\ phase' = "ask" /\ step' = 1 /\ UNCHANGED <<me, receivedB, sleep, slept, lost>>
      /\ Start(mConfig, [t \in Threads |-> "loop"]) /\ ServerStart
  BY DEF StartParts
<1>2. /\ fails' \in Nat /\ (AllUp' => AllUp /\ fails' = fails) /\ UNCHANGED <<mConfig, test>> /\ lost \in Nat
  BY PoolFails DEF LifeInv, SessionNext, ClientStep
<1> SUFFICES ASSUME test = "lifetime" PROVE LifeInv'
  BY <1>1, <1>2 DEF LifeInv, LifeMeant
<1>3. /\ \A t \in Threads : mThread[t] = "none"
      /\ me["P"] = NoAddress /\ receivedB = "waiting"
      /\ slept \in Nat /\ sleep \in 0 .. slept /\ sleep = slept
  BY <1>1 DEF LifeInv
<1>4. AllUp' => server' = "created"
  BY <1>1, <1>2 DEF ServerStart, Fail
<1>5. /\ DOMAIN mOutgoingTable = {} /\ DOMAIN mIncommingTable = {} /\ DOMAIN mAvailablePorts = {}
  BY <1>3 DEF IInv, StoppedIsEmpty
<1>6. /\ mThread' = [t \in Threads |-> "loop"]
      /\ mAvailablePorts' = [ip \in NatIPs |-> {}]
      /\ mOutgoingTable' = mOutgoingTable /\ mIncommingTable' = mIncommingTable
  BY <1>1, <1>3, <1>5 DEF Start
<1>7. LifeReady'
  BY <1>5, <1>6 DEF LifeReady
<1>8. LifeFirst'
  BY <1>5, <1>6 DEF LifeFirst
<1>9. QED
  BY <1>1, <1>2, <1>3, <1>4, <1>7, <1>8 DEF LifeInv, LifeMeant, Asks

\* The request is the packet of its flow.
LEMMA LifeAsks ==
  ASSUME SessionTypeOK, LifeMeant, Asks
  PROVE  LifeWay(Datagram(From, To, Wire))
<1>1. PICK p : p = Datagram(From, To, Wire)
  OBVIOUS
<1>2. /\ From = Address(ClientA, PortTo(step).sport) /\ To = A1 /\ step \in {1, 2}
      /\ ClientA \in PrivateIPs /\ ServerAIP \in PublicIPs
  BY LifeRequest, SessionConstants
<1>3. /\ p.src = ClientA /\ p.sport = PortTo(step).sport
      /\ p.dst = ServerAIP /\ p.dport = ServerPort1 /\ p.wire = Wire
  BY <1>1, <1>2 DEF Datagram, Address, A1
<1>4. Header(p) = PortTo(step)
  BY <1>2, <1>3, LifePackets DEF Header
<1>5. p.src \in PrivateIPs /\ p.src \notin NatIPs /\ p.src \notin PublicIPs
      /\ p.dst \notin NatIPs /\ p.dst \notin PrivateIPs
  BY <1>2, <1>3, AddressAssumption
<1>6. QED
  BY <1>1, <1>3, <1>4, <1>5 DEF LifeWay

\* The first sending, from the first endpoint or from the second.
LEMMA LifeAsk ==
  ASSUME SessionTypeOK, OneRequest, LifeInv, Ask \/ AskDeaf
  PROVE  LifeInv'
<1>1. /\ fails \in Nat /\ fails' \in Nat /\ (AllUp' => AllUp /\ fails' = fails)
      /\ UNCHANGED <<mConfig, test>>
  BY PoolFails DEF LifeInv, SessionNext, ClientStep
<1>2. /\ phase = "ask" /\ phase' = "wait"
      /\ UNCHANGED <<vars, step, server, sleep, slept, receivedB, mapped, changed>>
      /\ retries' = 1 /\ lost' = 0 /\ net' = net \cup {Datagram(From, To, Wire)}
      /\ mRcvQueue' = mRcvQueue \/ mRcvQueue' = [s \in Slots |-> <<>>]
  BY DEF Ask, AskDeaf, SendFirst
<1>3. LifeMeant' => LifeMeant
  BY <1>1 DEF LifeMeant
<1>4. test = "lifetime" => /\ slept \in Nat /\ sleep \in 0 .. slept
                           /\ step = 1 => sleep = slept
                           /\ step = 2 => sleep = 0
  BY <1>2 DEF LifeInv, Asks
<1>5. CASE ~LifeMeant'
  BY <1>1, <1>2, <1>4, <1>5 DEF LifeInv, Asks
<1>6. CASE LifeMeant'
  <2>1. LifeMeant /\ Asks /\ ~AskDeaf
    BY <1>1, <1>2, <1>3, <1>6 DEF Asks, AskDeaf, Fail, LifeMeant
  <2>2. net = {} /\ mRcvQueue'["P"] = <<>> /\ mRcvQueue'["S"] = <<>>
    BY <1>2 DEF OneRequest, Slots
  <2>3. /\ step \in {1, 2} /\ Slot = (IF step = 1 THEN "P" ELSE "S") /\ Creates
        /\ From = Address(ClientA, PortTo(step).sport)
    BY <2>1, LifeRequest
  <2>4. /\ server \in {"created", "loop"} /\ LifeReady
        /\ IF step = 1 THEN LifeFirst ELSE LifeSecond
        /\ receivedB = "waiting" /\ (step = 2 => me["P"] = Opened)
    BY <1>2, <2>1, <2>3 DEF LifeInv
  <2>5. me'["P"] = Opened /\ (step = 2 => me'["S"] = Address(ClientA, SourcePort + 1))
    <3>1. me' = [me EXCEPT ![Slot] = From]
      BY <2>1, <2>3 DEF Ask
    <3>2. me \in [Slots -> ClientAddress \cup {NoAddress}] /\ "P" \in Slots /\ "S" \in Slots
      BY DEF SessionTypeOK, ClientType, Slots
    <3>3. CASE step = 1
      BY <2>3, <3>1, <3>2, <3>3, LifePackets DEF Opened
    <3>4. CASE step = 2
      BY <2>3, <2>4, <3>1, <3>2, <3>4, LifePackets
    <3>5. QED
      BY <2>3, <3>3, <3>4
  <2>6. PICK p : p = Datagram(From, To, Wire)
    OBVIOUS
  <2>7. net' = {p} /\ LifeWay(p)
    BY <1>2, <2>1, <2>2, <2>6, LifeAsks
  <2>8. LifeReady' /\ (IF step = 1 THEN LifeFirst' ELSE LifeSecond') /\ LifeWay(p)'
    BY <1>1, <1>2, <2>4, <2>7, LifeWaySame
  <2>9. \A q \in net' : LifeWay(q)' /\ net' = {q}
    BY <2>7, <2>8
  <2>10. net' # {} /\ \A i \in 1 .. Len(mRcvQueue'["P"]) : FALSE
    BY <2>2, <2>7
  <2>11. Len(mRcvQueue'["P"]) = 0
    BY <2>2
  <2>12. FirstCount'
    BY <1>2, <2>10 DEF FirstCount
  <2>13. SecondCount'
    BY <1>2, <2>2, <2>4, <2>10, <2>11 DEF SecondCount
  <2>14. Opened' = Opened
    BY DEF Opened
  <2>15. QED
    BY <1>1, <1>2, <1>4, <2>4, <2>5, <2>8, <2>9, <2>12, <2>13, <2>14 DEF LifeInv, Asks
<1>7. QED
  BY <1>5, <1>6

\* The request is repeated when it, or its answer, was lost or has reached the other queue.
LEMMA LifeRetry ==
  ASSUME ~Late, SessionTypeOK, LifeInv, Retry
  PROVE  LifeInv'
<1>1. /\ fails \in Nat /\ fails' \in Nat /\ (AllUp' => AllUp /\ fails' = fails)
      /\ UNCHANGED <<mConfig, test>> /\ lost \in Nat
  BY PoolFails DEF LifeInv, SessionNext, ClientStep
<1>2. /\ phase = "wait" /\ phase' = "wait"
      /\ UNCHANGED <<vars, step, server, sleep, slept, me, lost, mRcvQueue, receivedB, mapped, changed>>
      /\ retries' = retries + 1
      /\ net = {} /\ net' = {Datagram(From, request.to, request.wire)} /\ mRcvQueue[Slot] = <<>>
  BY WaitedOut DEF Retry, othersVars
<1>3. LifeMeant' => LifeMeant
  BY <1>1 DEF LifeMeant
<1>4. test = "lifetime" => /\ slept \in Nat /\ sleep \in 0 .. slept
                           /\ step = 1 => sleep = slept
                           /\ step = 2 => sleep = 0
  BY <1>2 DEF LifeInv, Asks
<1>5. CASE ~LifeMeant'
  BY <1>1, <1>2, <1>4, <1>5 DEF LifeInv, Asks
<1>6. CASE LifeMeant'
  <2>1. LifeMeant /\ Asks
    BY <1>2, <1>3, <1>6 DEF Asks
  <2>2. step \in {1, 2} /\ Slot = (IF step = 1 THEN "P" ELSE "S")
    BY <2>1, LifeRequest
  <2>3. /\ server \in {"created", "loop"} /\ LifeReady
        /\ IF step = 1 THEN LifeFirst /\ receivedB = "waiting" ELSE LifeSecond
        /\ me["P"] = Opened
        /\ step = 2 => me["S"] = Address(ClientA, SourcePort + 1)
        /\ retries \in Nat
        /\ IF step = 1 THEN FirstCount ELSE SecondCount
    BY <1>2, <2>1 DEF LifeInv
  <2>4. request.to = To /\ request.wire = Wire
    BY <1>2 DEF SessionTypeOK, ClientType, Requested
  <2>5. PICK p : p = Datagram(From, To, Wire)
    OBVIOUS
  <2>6. net' = {p} /\ LifeWay(p)
    BY <1>2, <2>1, <2>4, <2>5, LifeAsks
  <2>7. /\ LifeReady' /\ (IF step = 1 THEN LifeFirst' ELSE LifeSecond') /\ LifeWay(p)'
        /\ OldKey' = OldKey /\ Old' = Old
    BY <1>1, <1>2, <2>3, <2>6, LifeWaySame
  <2>8. net' # {} /\ \A q \in net' : LifeWay(q)' /\ net' = {q}
    BY <2>6, <2>7
  <2>9. step = 1 => FirstCount'
    <3> SUFFICES ASSUME step = 1 PROVE FirstCount'
      OBVIOUS
    <3>1. mRcvQueue["P"] = <<>> /\ \A i \in 1 .. Len(mRcvQueue["P"]) : FALSE
      BY <1>2, <2>2
    <3>2. retries <= lost + 0
      BY <1>2, <2>3, <3>1 DEF FirstCount
    <3>3. retries' <= lost' + 1
      BY <1>1, <1>2, <2>3, <3>2
    <3>4. \A i \in 1 .. Len(mRcvQueue'["P"]) : FALSE
      BY <1>2, <3>1
    <3>5. QED
      BY <2>8, <3>3, <3>4 DEF FirstCount
  <2>10. step = 2 => SecondCount'
    <3> SUFFICES ASSUME step = 2 PROVE SecondCount'
      OBVIOUS
    <3>1. SecondCount /\ mRcvQueue["P"] \in Seq(AnswerWires)
      BY <2>3 DEF SessionTypeOK, NetType, Slots
    <3>2. PICK n : n = Len(mRcvQueue["P"])
      OBVIOUS
    <3>3. n \in Nat
      BY <3>1, <3>2
    <3>4. slept < Timeout /\ receivedB = "waiting" => retries <= lost + n + 0
      BY <1>2, <3>1, <3>2 DEF SecondCount
    <3>5. slept < Timeout /\ receivedB = "waiting" => retries' <= lost + n + 1
      BY <1>1, <1>2, <2>3, <3>3, <3>4
    <3>6. QED
      BY <1>2, <2>8, <3>1, <3>2, <3>5 DEF SecondCount
  <2>11. Opened' = Opened
    BY DEF Opened
  <2>12. QED
    BY <1>1, <1>2, <1>4, <2>2, <2>3, <2>7, <2>8, <2>9, <2>10, <2>11 DEF LifeInv, Asks
<1>7. QED
  BY <1>5, <1>6

\* The second thread takes what it waited for, or gives up.
LEMMA LifeReceive ==
  ASSUME SessionTypeOK, LifeInv, Receive
  PROVE  LifeInv'
<1>1. /\ fails \in Nat /\ lost \in Nat /\ UNCHANGED fails
  BY DEF LifeInv, Receive, othersVars
<1>2. /\ phase = "wait" /\ test = "lifetime" /\ step = 2 /\ receivedB = "waiting"
      /\ UNCHANGED <<vars, test, step, phase, server, sleep, slept, me, net, lost, retries, mapped, changed>>
  BY DEF Receive, othersVars
<1>3. LifeMeant' = LifeMeant /\ mConfig' = mConfig
  BY <1>1, <1>2 DEF LifeMeant, AllUp, vars
<1>4. slept \in Nat /\ sleep \in 0 .. slept /\ sleep = 0
  BY <1>2 DEF LifeInv, Asks
<1>5. CASE ~LifeMeant
  BY <1>1, <1>2, <1>3, <1>4, <1>5 DEF LifeInv, Asks
<1>6. CASE LifeMeant
  <2>1. /\ server \in {"created", "loop"} /\ LifeReady /\ LifeSecond /\ me["P"] = Opened
        /\ me["S"] = Address(ClientA, SourcePort + 1)
        /\ retries \in Nat /\ SecondCount
        /\ \A p \in net : LifeWay(p) /\ net = {p}
    BY <1>2, <1>6 DEF LifeInv, Asks
  <2>2. /\ LifeReady' /\ LifeSecond' /\ \A p \in net' : LifeWay(p)' /\ net' = {p}
    BY <1>2, <2>1, LifeWaySame
  <2>3. mRcvQueue \in [Slots -> Seq(AnswerWires)] /\ mRcvQueue["S"] = <<>> /\ {"P", "S"} = Slots
    BY <2>1 DEF SessionTypeOK, NetType, SecondCount, Slots
  <2>4. SecondCount'
    <3>1. CASE mRcvQueue["P"] # <<>>
      <4>1. receivedB' = "yes" /\ mRcvQueue'["S"] = <<>>
        BY <2>3, <3>1 DEF Receive
      <4>2. slept < Timeout
        BY <2>1, <3>1 DEF SecondCount
      <4>3. QED
        BY <1>2, <4>1, <4>2 DEF SecondCount
    <3>2. CASE mRcvQueue["P"] = <<>>
      <4>1. receivedB' = "no" /\ mRcvQueue' = mRcvQueue /\ retries = 3
        BY <2>3, <3>2 DEF Receive
      <4>2. Len(mRcvQueue["P"]) = 0
        BY <3>2
      <4>3. slept < Timeout => 3 <= lost + 0 + (IF net = {} THEN 0 ELSE 1)
        BY <1>2, <2>1, <4>1, <4>2 DEF SecondCount
      <4>4. slept < Timeout => lost >= 2
        BY <1>1, <4>3
      <4>5. QED
        BY <1>2, <2>3, <3>2, <4>1, <4>4 DEF SecondCount
    <3>3. QED
      BY <3>1, <3>2
  <2>5. Opened' = Opened
    BY DEF Opened
  <2>6. QED
    BY <1>1, <1>2, <1>4, <2>1, <2>2, <2>4, <2>5 DEF LifeInv, Asks
<1>7. QED
  BY <1>5, <1>6

\* When the test has ended nothing more is known.
LEMMA LifeRest ==
  ASSUME LifeInv, fails' \in Nat, lost' \in Nat, phase' \in {"ended", "join", "over"},
         UNCHANGED <<test, sleep, slept>>
  PROVE  LifeInv'
BY DEF LifeInv, Asks

\* The first answer tells where the flow is bound; after the second request the test ends.
LEMMA LifeConclude ==
  ASSUME ~Late, SessionTypeOK, LifeInv, Answered \/ Unanswered
  PROVE  LifeInv'
<1>1. /\ fails \in Nat /\ UNCHANGED fails /\ lost \in Nat /\ UNCHANGED lost
      /\ UNCHANGED <<test, server, sleep, slept, receivedB, vars>> /\ phase = "wait"
  BY DEF LifeInv, Answered, Unanswered, Conclude
<1> SUFFICES ASSUME test = "lifetime" PROVE LifeInv'
  BY <1>1 DEF LifeInv, LifeMeant
<1>2. PICK msg : /\ Conclude(msg)
                 /\ \/ msg = Failed
                    \/ mRcvQueue[Slot] # <<>> /\ msg = decode(Head(mRcvQueue[Slot]))
  BY DEF Answered, Unanswered, SessionTypeOK, ClientType, Requested
<1>3. Lifetime(msg) /\ step \in {1, 2}
  BY <1>1, <1>2 DEF Conclude, SessionTypeOK, ClientType, Last, Asks
<1>4. \/ \E found : Finish(found)
      \/ step = 1 /\ msg # Failed /\ phase' = "sleep" /\ UNCHANGED <<step, report, me>>
  BY <1>3 DEF Lifetime
<1>5. CASE \E found : Finish(found)
  BY <1>1, <1>5, LifeRest DEF Finish
<1>6. CASE step = 1 /\ msg # Failed /\ phase' = "sleep" /\ UNCHANGED <<step, report, me>>
  <2>1. slept \in Nat /\ sleep \in 0 .. slept
    BY DEF LifeInv
  <2>2. LifeMeant' = LifeMeant
    BY <1>1 DEF LifeMeant, AllUp, vars
  <2>3. CASE ~LifeMeant
    BY <1>1, <1>6, <2>1, <2>2, <2>3 DEF LifeInv, Asks
  <2>4. CASE LifeMeant
    <3>1. /\ server \in {"created", "loop"} /\ LifeReady /\ LifeFirst /\ receivedB = "waiting"
          /\ me["P"] = Opened /\ FirstCount
      BY <1>1, <1>6, <2>4 DEF LifeInv, Asks
    <3>2. PICK w : w = Head(mRcvQueue["P"])
      OBVIOUS
    <3>3. OldKey \in DOMAIN mOutgoingTable /\ Learned(decode(w), MAPPED_ADDRESS) = Old
      <4>1. mRcvQueue["P"] # <<>> /\ mRcvQueue["P"] \in Seq(AnswerWires)
        BY <1>2, <1>6 DEF Slot, SessionTypeOK, NetType, Slots
      <4>2. 1 \in 1 .. Len(mRcvQueue["P"]) /\ w = mRcvQueue["P"][1]
        BY <3>2, <4>1
      <4>3. QED
        BY <3>1, <4>2 DEF FirstCount
    <3>4. msg = decode(w)
      BY <1>2, <1>6, <3>2 DEF Slot
    <3>5. mapped'[1] = Old
      <4>1. mapped \in [1 .. MaxStep -> NatAddress \cup {NoAddress}] /\ 1 \in 1 .. MaxStep
        <5>1. MaxStep \in Nat /\ MaxStep >= 1
          BY SessionConstants DEF MaxStep
        <5>2. QED
          BY <5>1 DEF SessionTypeOK, ClientType
      <4>2. mapped' = [mapped EXCEPT ![1] = Learned(msg, MAPPED_ADDRESS)]
        BY <1>2, <1>6 DEF Conclude
      <4>3. QED
        BY <3>3, <3>4, <4>1, <4>2
    <3>6. UNCHANGED <<mConfig, mThread, mOutgoingTable, mIncommingTable, mAvailablePorts>>
      BY <1>1 DEF vars
    <3>7. OldKey' = OldKey /\ NewKey' = NewKey /\ Old' = Old /\ \A e : HeldAt(e)' = HeldAt(e)
      BY <3>6, LifeSame
    <3>8. LifeReady'
      BY <1>6, <3>1, <3>6, <3>7 DEF LifeReady
    <3>9. HeldAt(Old)' = HeldAt(Old)
      <4>1. PICK e : e = Old
        OBVIOUS
      <4>2. QED
        BY <3>6, <3>7, <4>1 DEF HeldAt, AnswersTo, IncommingPk
    <3>10. LifeFirst'
      BY <1>1, <3>1, <3>6, <3>7, <3>9 DEF LifeFirst, Elapsed
    <3>11. Opened' = Opened
      BY DEF Opened
    <3>12. QED
      BY <1>1, <1>6, <2>1, <3>1, <3>3, <3>5, <3>6, <3>7, <3>8, <3>10, <3>11 DEF LifeInv, Asks
  <2>5. QED
    BY <2>3, <2>4
<1>7. QED
  BY <1>4, <1>5, <1>6

\* While the test sleeps the binding grows as old as the sleep.
LEMMA LifeTick ==
  ASSUME SessionTypeOK, IInv, LifeInv, SleepTick
  PROVE  LifeInv'
<1>1. /\ phase = "sleep" /\ sleep > 0 /\ sleep' = sleep - 1 /\ Tick
      /\ UNCHANGED <<test, server, fails, step, phase, slept, me, receivedB, mapped, lost>>
  BY DEF SleepTick, othersVars
<1>2. test = "lifetime" /\ step = 1
  BY <1>1 DEF SessionTypeOK, ClientType
<1>3. fails \in Nat /\ lost \in Nat /\ slept \in Nat /\ sleep \in 0 .. slept
  BY <1>2 DEF LifeInv
<1>4. sleep' \in 0 .. slept /\ Elapsed \in Nat /\ Elapsed' = Elapsed + 1
  BY <1>1, <1>3 DEF Elapsed
<1>5. UNCHANGED <<mConfig, mThread, mIncommingTable, mAvailablePorts>>
  BY <1>1 DEF Tick
<1>6. LifeMeant' = LifeMeant
  BY <1>1, <1>5 DEF LifeMeant, AllUp
<1>7. CASE ~LifeMeant
  BY <1>1, <1>2, <1>3, <1>4, <1>6, <1>7 DEF LifeInv, Asks
<1>8. CASE LifeMeant
  <2>1. /\ server \in {"created", "loop"} /\ LifeReady /\ LifeFirst /\ receivedB = "waiting"
        /\ me["P"] = Opened /\ OldKey \in DOMAIN mOutgoingTable /\ mapped[1] = Old
    BY <1>1, <1>2, <1>8 DEF LifeInv
  <2>2. PICK b : b = mOutgoingTable[OldKey]
    OBVIOUS
  <2>3. b \in Binding /\ HeldAt(Old) /\ b.age = (IF Elapsed < Timeout THEN Elapsed ELSE Timeout)
    BY <2>1, <2>2 DEF LifeFirst, IInv, TypeOK, IsTable
  <2>4. PICK c : c = [b EXCEPT !.age = IF @ < Timeout THEN @ + 1 ELSE Timeout]
    OBVIOUS
  <2>5. /\ c.ip = b.ip /\ c.port = b.port
        /\ c.age = (IF b.age < Timeout THEN b.age + 1 ELSE Timeout)
    BY <2>3, <2>4 DEF Binding
  <2>6. DOMAIN mOutgoingTable' = DOMAIN mOutgoingTable /\ mOutgoingTable'[OldKey] = c
    BY <1>1, <2>1, <2>2, <2>4 DEF Tick
  <2>7. c.age = IF Elapsed' < Timeout THEN Elapsed' ELSE Timeout
    BY <1>4, <2>3, <2>5, ConstantTypes
  <2>8. /\ OldKey' = OldKey /\ NewKey' = NewKey
    BY <1>5, LifeIds
  <2>9. Old' = Old
    BY <2>2, <2>5, <2>6, <2>8 DEF Old
  <2>10. LifeReady'
    <3>1. NewKey' \notin DOMAIN mOutgoingTable'
      BY <1>2, <2>1, <2>6, <2>8 DEF LifeReady
    <3>2. QED
      BY <1>5, <2>1, <2>6, <2>8, <3>1 DEF LifeReady
  <2>11. HeldAt(Old)'
    <3>1. PICK e : e = Old
      OBVIOUS
    <3>2. AnswersTo(e)' = AnswersTo(e)
      BY <1>5 DEF AnswersTo, IncommingPk
    <3>3. HeldAt(e)'
      BY <1>5, <2>2, <2>3, <2>5, <2>6, <2>8, <3>1, <3>2 DEF HeldAt
    <3>4. QED
      BY <2>9, <3>1, <3>3 DEF HeldAt, AnswersTo, IncommingPk
  <2>12. LifeFirst'
    BY <2>1, <2>6, <2>7, <2>8, <2>11 DEF LifeFirst
  <2>13. Opened' = Opened
    BY DEF Opened
  <2>14. QED
    BY <1>1, <1>2, <1>3, <1>4, <1>5, <2>1, <2>6, <2>8, <2>9, <2>10, <2>12, <2>13 DEF LifeInv, Asks
<1>9. QED
  BY <1>7, <1>8

\* When it wakes the binding is as old as the sleep was, and where the answer has told.
LEMMA LifeWake ==
  ASSUME SessionTypeOK, LifeInv, Wake
  PROVE  LifeInv'
<1>1. /\ phase = "sleep" /\ sleep = 0 /\ step' = 2 /\ phase' = "ask"
      /\ UNCHANGED <<vars, test, server, fails, sleep, slept, me, receivedB, mapped, lost>>
  BY DEF Wake, othersVars
<1>2. test = "lifetime" /\ step = 1
  BY <1>1 DEF SessionTypeOK, ClientType
<1>3. fails \in Nat /\ lost \in Nat /\ slept \in Nat /\ sleep \in 0 .. slept
  BY <1>2 DEF LifeInv
<1>4. UNCHANGED <<mConfig, mThread, mOutgoingTable, mIncommingTable, mAvailablePorts>>
  BY <1>1 DEF vars
<1>5. LifeMeant' = LifeMeant
  BY <1>1, <1>4 DEF LifeMeant, AllUp
<1>6. CASE ~LifeMeant
  BY <1>1, <1>2, <1>3, <1>5, <1>6 DEF LifeInv, Asks
<1>7. CASE LifeMeant
  <2>1. /\ server \in {"created", "loop"} /\ LifeReady /\ LifeFirst /\ receivedB = "waiting"
        /\ me["P"] = Opened /\ OldKey \in DOMAIN mOutgoingTable /\ mapped[1] = Old
    BY <1>1, <1>2, <1>7 DEF LifeInv
  <2>2. /\ OldKey' = OldKey /\ NewKey' = NewKey /\ Old' = Old /\ \A e : HeldAt(e)' = HeldAt(e)
    BY <1>4, LifeSame
  <2>3. NewKey \notin DOMAIN mOutgoingTable
    BY <1>2, <2>1 DEF LifeReady
  <2>4. LifeReady'
    BY <1>4, <2>1, <2>2, <2>3 DEF LifeReady
  <2>5. Elapsed = slept
    BY <1>1, <1>3 DEF Elapsed
  <2>6. mOutgoingTable[OldKey].age < Timeout <=> slept < Timeout
    BY <1>3, <2>1, <2>5, ConstantTypes DEF LifeFirst
  <2>7. HeldAt(mapped[1])'
    <3>1. PICK e : e = mapped[1]
      OBVIOUS
    <3>2. HeldAt(e)'
      BY <2>1, <2>2, <3>1 DEF LifeFirst
    <3>3. QED
      BY <1>1, <3>1, <3>2 DEF HeldAt, AnswersTo, IncommingPk
  <2>8. OldKey' \in DOMAIN mOutgoingTable' /\ NewKey' \notin DOMAIN mOutgoingTable'
        /\ (mOutgoingTable'[OldKey'].age < Timeout <=> slept' < Timeout)
    BY <1>1, <1>4, <2>1, <2>2, <2>3, <2>6
  <2>9. LifeSecond'
    BY <2>7, <2>8 DEF LifeSecond
  <2>10. Opened' = Opened
    BY DEF Opened
  <2>11. QED
    BY <1>1, <1>3, <1>4, <2>1, <2>2, <2>4, <2>8, <2>9, <2>10 DEF LifeInv, Asks
<1>8. QED
  BY <1>6, <1>7

\* What fails ends the test, or leaves a part down.
LEMMA LifeFails ==
  ASSUME SessionTypeOK, LifeInv, CreateFails \/ ThreadFails
  PROVE  LifeInv'
<1>1. /\ fails \in Nat /\ fails' \in Nat /\ (AllUp' => fails' = fails)
      /\ UNCHANGED <<mConfig, test, sleep, slept, lost>> /\ lost \in Nat
  BY PoolFails DEF LifeInv, SessionNext, ClientStep, CreateFails, ThreadFails
<1> SUFFICES ASSUME test = "lifetime" PROVE LifeInv'
  BY <1>1 DEF LifeInv, LifeMeant
<1>2. \/ \E found : Finish(found)
      \/ fails' = fails + 1 /\ phase = "wait" /\ UNCHANGED <<step, phase, me>>
  <2>1. CASE CreateFails
    BY <2>1 DEF CreateFails
  <2>2. CASE ThreadFails
    BY <2>2 DEF ThreadFails, LifetimeThreadFails, OverloadingThreadFails, Fail
  <2>3. QED
    BY <2>1, <2>2
<1>3. CASE \E found : Finish(found)
  BY <1>1, <1>3, LifeRest DEF Finish
<1>4. CASE fails' = fails + 1 /\ phase = "wait" /\ UNCHANGED <<step, phase, me>>
  <2>1. ~LifeMeant'
    BY <1>1, <1>4 DEF LifeMeant
  <2>2. QED
    BY <1>1, <1>4, <2>1 DEF LifeInv, Asks
<1>5. QED
  BY <1>2, <1>3, <1>4

\* The server's thread changes nothing of this while the test asks.
LEMMA LifeServer ==
  ASSUME SessionTypeOK, LifeInv, ServerStep \/ UNCHANGED allVars
  PROVE  LifeInv'
<1>1. /\ fails \in Nat /\ fails' \in Nat /\ (AllUp' => AllUp /\ fails' = fails)
      /\ UNCHANGED <<mConfig, test>>
  <2>1. [SessionNext]_allVars /\ fails \in Nat
    BY DEF SessionNext, LifeInv
  <2>2. QED
    BY <2>1, PoolFails
<1>2. UNCHANGED <<vars, test, step, phase, sleep, slept, me, mRcvQueue, retries, receivedB, mapped, changed,
                  net, lost>>
  BY DEF ServerStep, ServerBegins, ServerLeaves, allVars, sessionVars, clientVars
<1>3. LifeMeant' => LifeMeant
  BY <1>1 DEF LifeMeant
<1>4. LifeMeant' /\ (Asks \/ phase = "sleep") => server' \in {"created", "loop"}
  <2> SUFFICES ASSUME LifeMeant', Asks \/ phase = "sleep" PROVE server' \in {"created", "loop"}
    OBVIOUS
  <2>1. server \in {"created", "loop"} /\ fails' = fails
    BY <1>1, <1>3 DEF LifeInv, LifeMeant
  <2>2. QED
    BY <1>1, <2>1 DEF ServerStep, ServerBegins, ServerLeaves, mTerminate, Fail, Asks, allVars, sessionVars
<1>5. /\ \A q : LifeWay(q)' = LifeWay(q)
      /\ OldKey' = OldKey /\ Old' = Old
      /\ LifeReady' = LifeReady /\ LifeFirst' = LifeFirst /\ LifeSecond' = LifeSecond
  BY <1>2, LifeWaySame
<1>6. Asks' = Asks /\ Opened' = Opened /\ UNCHANGED <<mThread, mOutgoingTable>>
  BY <1>2 DEF Asks, Opened, vars
<1>7. FirstCount' = FirstCount
  BY <1>2, <1>5, <1>6 DEF FirstCount
<1>8. SecondCount' = SecondCount
  BY <1>2 DEF SecondCount
<1>9. QED
  BY <1>1, <1>2, <1>3, <1>4, <1>5, <1>6, <1>7, <1>8 DEF LifeInv

\* A session starts with nothing known.
LEMMA LifeInit == SessionInit => LifeInv
<1> SUFFICES ASSUME SessionInit PROVE LifeInv
  OBVIOUS
<1>1. test = "lifetime" => slept \in Nat /\ sleep = slept
  BY SessionAssumption DEF SessionInit
<1>2. me["P"] = NoAddress
  BY DEF SessionInit, Slots
<1>3. QED
  BY <1>1, <1>2 DEF SessionInit, Init, LifeInv, Asks

\* Every step keeps what is known of NATReq6's two flows.
LEMMA LifeSteps ==
  ~Late /\ MaxPort >= 2 /\ SessionTypeOK /\ IInv /\ IInv' /\ OneRequest /\ LifeInv /\ [SessionNext]_allVars
    => LifeInv'
<1> SUFFICES ASSUME ~Late, MaxPort >= 2, SessionTypeOK, IInv, IInv', OneRequest, LifeInv,
                    [SessionNext]_allVars
             PROVE  LifeInv'
  OBVIOUS
<1>1. CASE ClientStep
  <2>1. CASE StopParts \/ Joined
    <3>1. phase' \in {"join", "over"} /\ UNCHANGED <<test, fails, sleep, slept, lost>>
      BY <2>1 DEF StopParts, Joined, othersVars
    <3>2. fails' \in Nat /\ lost' \in Nat
      BY <3>1 DEF LifeInv
    <3>3. QED
      BY <3>1, <3>2, LifeRest
  <2>2. QED
    BY <1>1, <2>1, LifeStart, LifeAsk, LifeRetry, LifeConclude, LifeFails, LifeReceive, LifeTick,
       LifeWake DEF ClientStep
<1>2. CASE \E p \in net : Carry(p) \/ Lose(p)
  BY <1>2, LifeCarry
<1>3. CASE ServerStep \/ UNCHANGED allVars
  BY <1>3, LifeServer
<1>4. QED
  BY <1>1, <1>2, <1>3 DEF SessionNext

-----------------------------------------------------------------------------
(* What NATReq6 finds.                                                      *)

\* How a test of the binding's lifetime comes to its end.
LEMMA LifeEndsBy ==
  ASSUME SessionTypeOK, LifeInv, [SessionNext]_allVars, test = "lifetime", phase' = "ended"
  PROVE  \/ phase = "ended" /\ UNCHANGED <<report, slept>> /\ (lost' < 2 => lost < 2)
         \/ Answered \/ Unanswered
         \/ CreateFails \/ ThreadFails
<1>1. CASE ServerStep \/ UNCHANGED allVars
  BY <1>1 DEF ServerStep, ServerBegins, ServerLeaves, clientVars, allVars, sessionVars
<1>2. CASE \E p \in net : Carry(p) \/ Lose(p)
  <2>1. UNCHANGED clientVars
    BY <1>2, OnTheWay
  <2>2. lost' = lost \/ lost' = lost + 1
    BY <1>2 DEF Carry, Lose, Outgoing, Incomming, Serve, Unheard, Deliver
  <2>3. lost' < 2 => lost < 2
    BY <2>2 DEF LifeInv
  <2>4. QED
    BY <2>1, <2>3 DEF clientVars
<1>3. CASE ClientStep
  <2>1. ~(StartParts \/ Ask \/ AskDeaf \/ Retry)
    BY DEF StartParts, Ask, AskDeaf, SendFirst, Retry
  <2>2. ~(Receive \/ SleepTick \/ Wake \/ StopParts \/ Joined)
    BY DEF Receive, SleepTick, Wake, StopParts, Joined
  <2>3. QED
    BY <1>3, <2>1, <2>2 DEF ClientStep
<1>4. QED
  BY <1>1, <1>2, <1>3 DEF SessionNext

\* With every part up it ends neither in a Create nor for want of a thread.
LEMMA LifeCreated ==
  ASSUME SessionTypeOK, OneRequest, LifeInv, LifeMeant, AllUp', CreateFails \/ ThreadFails
  PROVE  FALSE
<1>1. fails \in Nat /\ fails = 0 /\ fails' = 0 /\ test = "lifetime"
  BY DEF LifeInv, LifeMeant, AllUp
<1>2. ~Fail
  BY <1>1 DEF Fail
<1>3. ~ThreadFails
  BY <1>1, <1>2 DEF ThreadFails, LifetimeThreadFails, OverloadingThreadFails
<1>4. CreateFails /\ phase = "ask" /\ me[Slot] # NoAddress
  BY <1>2, <1>3 DEF CreateFails
<1>5. Asks /\ step \in {1, 2} /\ Slot = (IF step = 1 THEN "P" ELSE "S")
  BY <1>1, <1>4, LifeRequest DEF Asks
<1>6. CASE step = 1
  BY <1>4, <1>5, <1>6 DEF LifeInv
<1>7. CASE step = 2
  BY <1>4, <1>5, <1>7 DEF OneRequest
<1>8. QED
  BY <1>5, <1>6, <1>7

\* NATReq6 ends after its second request, and finds what the sleep was long enough for.
LEMMA LifetimeEnds ==
  ASSUME ~Late, SessionTypeOK, OneRequest, LifeInv, LifeMeant, lost < 2, Answered \/ Unanswered,
         phase' = "ended"
  PROVE  report' = {IF slept >= Timeout THEN "expired" ELSE "alive"}
<1>1. /\ test = "lifetime" /\ phase = "wait" /\ Asks /\ lost \in Nat /\ slept \in Nat
      /\ request.slot = Slot
  BY DEF LifeInv, LifeMeant, Asks, Answered, Unanswered, SessionTypeOK, ClientType, Requested
<1>2. step \in {1, 2} /\ Slot = (IF step = 1 THEN "P" ELSE "S")
  BY <1>1, LifeRequest
<1>3. CASE step = 1
  <2>1. FirstCount
    BY <1>1, <1>3 DEF LifeInv
  <2>2. CASE Answered
    <3>1. PICK w : w = Head(mRcvQueue["P"])
      OBVIOUS
    <3>2. mRcvQueue["P"] # <<>> /\ mRcvQueue["P"] \in Seq(AnswerWires) /\ Conclude(decode(w))
      BY <1>1, <1>2, <1>3, <2>2, <3>1 DEF Answered, SessionTypeOK, NetType, Slots
    <3>3. decode(w) # Failed
      BY <3>1, <3>2, AnswerFacts
    <3>4. PICK msg : msg = decode(w)
      OBVIOUS
    <3>5. Lifetime(msg) /\ msg # Failed
      BY <1>1, <3>2, <3>3, <3>4 DEF Conclude
    <3>6. QED
      BY <1>3, <3>5 DEF Lifetime
  <2>3. CASE Unanswered
    <3>1. net = {} /\ mRcvQueue["P"] = <<>> /\ retries = 3
      BY <1>1, <1>2, <1>3, <2>3, WaitedOut DEF Unanswered
    <3>2. 3 <= lost
      BY <1>1, <2>1, <3>1 DEF FirstCount
    <3>3. QED
      BY <1>1, <3>2
  <2>4. QED
    BY <2>2, <2>3
<1>4. CASE step = 2
  <2>1. SecondCount
    BY <1>1, <1>4 DEF LifeInv
  <2>2. Unanswered
    BY <1>1, <1>2, <1>4, <2>1 DEF Answered, SecondCount
  <2>3. Lifetime(Failed)
    BY <1>1, <2>2 DEF Unanswered, Conclude
  <2>4. receivedB # "waiting" /\ report' = {IF receivedB = "yes" THEN "alive" ELSE "expired"}
    BY <1>4, <2>3 DEF Lifetime, Finish
  <2>5. CASE slept < Timeout
    <3>1. receivedB = "yes"
      BY <1>1, <2>1, <2>4, <2>5 DEF SecondCount
    <3>2. ~(slept >= Timeout)
      BY <1>1, <2>5, ConstantTypes
    <3>3. QED
      BY <2>4, <3>1, <3>2
  <2>6. CASE ~(slept < Timeout)
    <3>1. receivedB # "yes"
      BY <2>1, <2>6 DEF SecondCount
    <3>2. slept >= Timeout
      BY <1>1, <2>6, ConstantTypes
    <3>3. QED
      BY <2>4, <3>1, <3>2
  <2>7. QED
    BY <2>5, <2>6
<1>5. QED
  BY <1>2, <1>3, <1>4

LEMMA LifetimeStep ==
  ~Late /\ SessionTypeOK /\ OneRequest /\ LifeInv /\ LifetimeVerdict /\ [SessionNext]_allVars
    => LifetimeVerdict'
<1> SUFFICES ASSUME ~Late, SessionTypeOK, OneRequest, LifeInv, LifetimeVerdict, [SessionNext]_allVars,
                    phase' = "ended", test' = "lifetime", mConfig'.mMappingBehavior # "NotNated",
                    lost' < 2, AllUp'
             PROVE  report' = {IF slept' >= Timeout THEN "expired" ELSE "alive"}
  BY DEF LifetimeVerdict, Ended
<1>1. UNCHANGED <<mConfig, test>> /\ AllUp
  BY PoolFails DEF LifeInv
<1>2. LifeMeant
  BY <1>1 DEF LifeMeant
<1>3. CASE phase = "ended" /\ UNCHANGED <<report, slept>> /\ (lost' < 2 => lost < 2)
  BY <1>1, <1>3 DEF LifetimeVerdict, Ended
<1>4. CASE Answered \/ Unanswered
  <2>1. lost' = lost /\ slept' = slept
    BY <1>4 DEF Answered, Unanswered, Conclude
  <2>2. QED
    BY <1>2, <1>4, <2>1, LifetimeEnds
<1>5. ~(CreateFails \/ ThreadFails)
  BY <1>2, LifeCreated
<1>6. test = "lifetime"
  BY <1>1
<1>7. QED
  BY <1>3, <1>4, <1>5, <1>6, LifeEndsBy

LEMMA LifetimeInit == SessionInit => LifetimeVerdict
BY DEF SessionInit, LifetimeVerdict, Ended

\* What holds while NATReq6 goes on, in a network that is not slow and whatever is lost: the
\* first flow's binding is as old as the client has slept, and once the second request is
\* under way it is alive, and leads to the client, exactly if the sleep was short; it is
\* torn down only after the second flow was bound elsewhere.
THEOREM IdleFlowKnown == ~Late /\ MaxPort >= 2 => (SessionSpec => []LifeInv)
<1> SUFFICES ASSUME ~Late, MaxPort >= 2 PROVE SessionSpec => []LifeInv
  OBVIOUS
<1>1. SessionInit => OneRequest /\ LifeInv
  BY OneInit, LifeInit
<1>2. SessionTypeOK /\ IInv /\ IInv' /\ OneRequest /\ LifeInv /\ [SessionNext]_allVars
        => OneRequest' /\ LifeInv'
  BY OneStep, LifeSteps
<1>3. QED
  BY <1>1, <1>2, SessionTypesCorrect, SessionBindings, PTL DEF SessionSpec

\* NATReq6 finds out whether the time it slept outlives a binding: for every time and
\* every lifetime, when every part came up and fewer than two packets were lost.
THEOREM LifetimeFound == ~Late /\ MaxPort >= 2 => (SessionSpec => []LifetimeVerdict)
<1> SUFFICES ASSUME ~Late, MaxPort >= 2 PROVE SessionSpec => []LifetimeVerdict
  OBVIOUS
<1>1. SessionInit => OneRequest /\ LifetimeVerdict
  BY OneInit, LifetimeInit
<1>2. SessionTypeOK /\ OneRequest /\ LifeInv /\ LifetimeVerdict /\ [SessionNext]_allVars
        => OneRequest' /\ LifetimeVerdict'
  BY OneStep, LifetimeStep
<1>3. SessionSpec => []LifeInv
  BY IdleFlowKnown
<1>4. QED
  BY <1>1, <1>2, <1>3, SessionTypesCorrect, SessionBindings, PTL DEF SessionSpec
=================================================================================
