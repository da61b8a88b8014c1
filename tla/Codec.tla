---------------------------------- MODULE Codec ----------------------------------
(***************************************************************************)
(* Messages in bytes: encode and decode of CSTUNMsg, CSTUNAttribute and     *)
(* CSTUNAttributeDecoder, and the way of a message from CRawSocket::Send to *)
(* the payload CCaptureApi hands out.  Module STUNMsg is what they promise. *)
(*                                                                         *)
(* A sender builds a message attribute by attribute; the message leaves,    *)
(* is captured and decoded, one attribute per step.  Instead, a server of   *)
(* another make may send a response with a text in its SERVER attribute.    *)
(* An address is [ip, port], ip being four bytes.                          *)
(***************************************************************************)
EXTENDS STUNMsg, SequencesExt, Bitwise

CONSTANTS
  Ips, Ports,   \* the addresses that attributes carry
  Ticks, Rands, \* what GetTickCount() and rand() may return
  ServerTexts   \* the texts other servers tell of themselves, in bytes

ASSUME CodecAssumption ==
  /\ \A ip \in Ips : ip \in [1 .. 4 -> 0 .. 255]
  /\ Ports \subseteq 0 .. 65535
  /\ Ticks \cup Rands \subseteq Nat
  /\ \A text \in ServerTexts : \A i \in DOMAIN text : text[i] \in 0 .. 255

VARIABLES
  mHandle, \* the sender's raw socket: "none", "null" or "open"
  sockets, \* the sockets the system holds open for it
  stage,   \* "idle", "build", "send", "wire", "header", "decode", ... "over"
  msg,     \* the message built, or the one the other server means
  wire,    \* its bytes: the array encoded, then the payload captured
  frame,   \* the frame sent: the fields of the IP header read back, and the payload
  offset,  \* how far it is decoded, a byte
  res,     \* what is decoded so far
  sent     \* auxiliary: what is on the wire in the terms of STUNMsg

vars == <<mHandle, sockets, stage, msg, wire, frame, offset, res, sent>>

-----------------------------------------------------------------------------
(* Bytes.                                                                  *)

Word(w)     == <<w \div 256, w % 256>>
ntohs(s, i) == s[i + 1] * 256 + s[i + 2]   \* of the two bytes at offset i

TypeCode == [BINDING_REQUEST |-> 1, BINDING_RESPONSE |-> 257, BINDING_ERROR_RESPONSE |-> 273,
             SHARED_SECRET_REQUEST |-> 2, SHARED_SECRET_RESPONSE |-> 258,
             SHARED_SECRET_ERROR_RESPONSE |-> 274]

Types      == DOMAIN TypeCode
TypeOf(w)  == CHOOSE t \in Types : TypeCode[t] = w

HEADER_LENGTH         == 20
TRANSACTION_ID_LENGTH == 16
ADDRESS_FAMILY_IPV4   == 1

\* Eight bytes are taken of each of two 32-bit numbers; a shift by 32 or more
\* starts again or gives 0, as the build has it.
Bytes8(n, again) ==
  [i \in 1 .. 8 |-> IF i <= 4 \/ again THEN (n \div 256 ^ ((i - 1) % 4)) % 256 ELSE 0]
TransactionIDs ==
  {Bytes8(left, again) \o Bytes8(right, again) : left \in Ticks, right \in Rands, again \in BOOLEAN}

AddressValues == [ip : Ips, port : Ports]

\* The port is XOR-ed with the id's first two bytes in the order of the machine.
applyXorBytes(address, id) ==
  [ip   |-> [i \in 1 .. 4 |-> address.ip[i] ^^ id[i]],
   port |-> address.port ^^ (id[2] * 256 + id[1])]

-----------------------------------------------------------------------------
(* Encoding.                                                               *)

\* CSTUNAttribute::encode.
EncodeAttribute(att, value) ==
  CASE att \in Addresses ->
         Word(att) \o Word(getDataLength(att)) \o <<0, ADDRESS_FAMILY_IPV4>>
           \o Word(value.port) \o value.ip
    [] att = CHANGE_REQUEST ->
         Word(att) \o Word(getDataLength(att))
           \o <<0, 0, 0, (IF value.ip THEN 4 ELSE 0) + (IF value.port THEN 2 ELSE 0)>>
    [] OTHER -> <<>>

\* The types in their order, that of a CIdTbl's items, and a message's attributes
\* in that order.
TypesInOrder == <<MAPPED_ADDRESS, RESPONSE_ADDRESS, CHANGE_REQUEST, SOURCE_ADDRESS,
  CHANGED_ADDRESS, USERNAME, PASSWORD, MESSAGE_INTEGRITY, ERROR_CODE, UNKNOWN_ATTRIBUTES,
  REFLECTED_FROM, XOR_ONLY, UNKNOWN_OPTIONAL, XOR_MAPPED_ADDRESS, SERVER>>

EncodeAttributes(m) ==
  LET types == SelectSeq(TypesInOrder, LAMBDA a : a \in DOMAIN m.attrs)
  IN  FlattenSeq([i \in DOMAIN types |-> EncodeAttribute(types[i], m.attrs[types[i]])])

\* Mutant: an attribute that leaves no bytes counts for nothing.
EncodeBytesCounted(m) ==
  Word(TypeCode[m.type]) \o Word(Len(EncodeAttributes(m))) \o m.id \o EncodeAttributes(m)

\* The body's length counts the header of every attribute, the attributes that
\* leave no bytes included.
EncodeBytes(m) ==
  Word(TypeCode[m.type]) \o Word(SizeOf(DOMAIN m.attrs)) \o m.id \o EncodeAttributes(m)

-----------------------------------------------------------------------------
(* The sender.                                                             *)

\* The factories and CSTUNAttribute's setters: what an attribute may carry.
Values(att, id) ==
  CASE att = XOR_MAPPED_ADDRESS -> {applyXorBytes(a, id) : a \in AddressValues}
    [] att \in Addresses        -> AddressValues
    [] att = CHANGE_REQUEST     -> [ip : BOOLEAN, port : BOOLEAN]
    [] OTHER                    -> {"none"}

Init ==
  /\ mHandle = "none" /\ sockets = 0
  /\ stage = "idle"
  /\ msg = Failed /\ wire = <<>> /\ frame = <<>> /\ offset = 0 /\ res = Failed
  /\ sent = Failed

\* CreateSender: socket() may fail, and so may setsockopt(), which leaves the
\* socket open.
CreateSender ==
  /\ stage = "idle"
  /\ \/ /\ mHandle' = "none" /\ sockets' = sockets /\ stage' = "over"
        /\ UNCHANGED msg
     \/ /\ mHandle' = "open" /\ sockets' = sockets + 1 /\ stage' = "over"
        /\ UNCHANGED msg
     \/ /\ mHandle' = "open" /\ sockets' = sockets + 1 /\ stage' = "build"
        /\ \E type \in Types, id \in TransactionIDs :
             msg' = [type |-> type, id |-> id, attrs |-> NoAttributes]
  /\ UNCHANGED <<wire, frame, offset, res, sent>>

Add(att) ==
  /\ stage = "build"
  /\ \E value \in Values(att, msg.id) : msg' = addAttribute(msg, att, value)
  /\ stage' = IF msg' = Failed THEN "decoded" ELSE "build"
  /\ UNCHANGED <<mHandle, sockets, wire, frame, offset, res, sent>>

RemoveAttribute(att) ==
  /\ stage = "build"
  /\ msg' = removeAttribute(msg, att)
  /\ UNCHANGED <<mHandle, sockets, stage, wire, frame, offset, res, sent>>

\* A message without its mandatory attributes is not encoded.
Encode ==
  /\ stage = "build"
  /\ IF validateAttributePresentity(msg)
     THEN wire' = EncodeBytes(msg) /\ stage' = "send"
     ELSE wire' = <<>> /\ stage' = "decoded"
  /\ sent' = encode(msg)
  /\ UNCHANGED <<mHandle, sockets, msg, frame, offset, res>>

ETHERNET_LENGTH == 14
IP_LENGTH       == 20
UDP_LENGTH      == 8

\* Send: an IP and an UDP header are put before the message; the system adds
\* the one of the link.  sendto() may fail.
Send ==
  /\ stage = "send" /\ mHandle = "open"
  /\ \/ /\ frame' = [ip_hl   |-> IP_LENGTH \div 4,
                     ip_len  |-> (IP_LENGTH + UDP_LENGTH + Len(wire)) % 65536,
                     payload |-> wire]
        /\ stage' = "wire" /\ UNCHANGED sent
     \/ /\ stage' = "decoded" /\ sent' = Failed /\ UNCHANGED frame
  /\ wire' = <<>>
  /\ UNCHANGED <<mHandle, sockets, msg, offset, res>>

\* realThreadProc: the payload is as long as the IP header says.
Capture ==
  /\ stage = "wire"
  /\ LET len == ETHERNET_LENGTH + IP_LENGTH + UDP_LENGTH + Len(frame.payload)   \* hdr->len
     IN  /\ len >= ETHERNET_LENGTH + IP_LENGTH + UDP_LENGTH
         /\ len >= ETHERNET_LENGTH + frame.ip_len
  /\ wire' = SubSeq(frame.payload, 1, frame.ip_len - frame.ip_hl * 4 - UDP_LENGTH)
  /\ frame' = <<>> /\ stage' = "header"
  /\ UNCHANGED <<mHandle, sockets, msg, offset, res, sent>>

\* Another server answers with the mandatory addresses and says who it is.
OtherServer ==
  /\ stage = "idle"
  /\ \E id \in TransactionIDs, a \in AddressValues, text \in ServerTexts, before \in BOOLEAN :
       LET types  == <<MAPPED_ADDRESS, SOURCE_ADDRESS, CHANGED_ADDRESS, XOR_MAPPED_ADDRESS>>
           bytes  == FlattenSeq([i \in DOMAIN types |-> EncodeAttribute(types[i], a)])
           server == Word(SERVER) \o Word(Len(text)) \o text
           length == Len(bytes) + Len(server)
       IN  /\ sent' = [type |-> BINDING_RESPONSE, id |-> id, length |-> length, bytes |-> length,
                       body |-> [t \in Range(types) \cup {SERVER} |->
                                   IF t = SERVER THEN "none" ELSE a]]
           /\ msg' = decode(sent')
           /\ wire' = Word(TypeCode[BINDING_RESPONSE]) \o Word(length) \o id
                        \o IF before THEN server \o bytes ELSE bytes \o server
  /\ stage' = "header"
  /\ UNCHANGED <<mHandle, sockets, frame, offset, res>>

\* TerminateSender: closing may fail, and then the handle stays.
TerminateSender ==
  /\ stage = "decoded" /\ mHandle = "open"
  /\ \/ mHandle' = "null" /\ sockets' = sockets - 1
     \/ UNCHANGED <<mHandle, sockets>>
  /\ stage' = "over"
  /\ UNCHANGED <<msg, wire, frame, offset, res, sent>>

-----------------------------------------------------------------------------
(* Decoding.                                                               *)

length == ntohs(wire, 2)

Throw == stage' = "decoded" /\ res' = Failed /\ UNCHANGED offset

\* CSTUNMsg::decode up to its loop.
DecodeHeader ==
  /\ stage = "header"
  /\ IF Len(wire) < HEADER_LENGTH \/ Len(wire) - HEADER_LENGTH < length
     THEN Throw
     ELSE /\ res' = [type |-> TypeOf(ntohs(wire, 0)), id |-> SubSeq(wire, 5, 4 + TRANSACTION_ID_LENGTH),
                     attrs |-> NoAttributes]
          /\ offset' = HEADER_LENGTH
          /\ stage' = "decode"
  /\ UNCHANGED <<mHandle, sockets, msg, wire, frame, sent>>

\* Mutant: the family is not skipped.
DecodeBodyAtFamily(att, at) ==
  IF att \in Addresses
  THEN [port |-> ntohs(wire, (at + 1) % 256), ip |-> [i \in 1 .. 4 |-> wire[((at + 3) % 256) + i]]]
  ELSE "none"

\* decodeAttributeBody: its offset is a byte; an attribute of another type keeps
\* no value.
DecodeBody(att, at) ==
  CASE att \in Addresses     -> [port |-> ntohs(wire, (at + 2) % 256),
                                 ip   |-> [i \in 1 .. 4 |-> wire[((at + 4) % 256) + i]]]
    [] att = CHANGE_REQUEST -> LET flags == wire[((at + 3) % 256) + 1]
                               IN  [ip |-> (flags & 4) > 0, port |-> (flags & 2) > 0]
    [] OTHER                -> "none"

\* Mutant: the decoder advances a copy of the offset.
AdvanceCopy(off, len) == off

Advance(off, len) == (off + ATT_HEADER + len) % 256

\* The loop's turn: CSTUNAttributeDecoder::decode and addAttribute.
DecodeAttribute ==
  /\ stage = "decode" /\ offset < HEADER_LENGTH + length
  /\ LET left == HEADER_LENGTH + length - offset
         att  == ntohs(wire, offset)
         len  == ntohs(wire, offset + 2)
         more == addAttribute(res, att, DecodeBody(att, offset + 4))
     IN  IF left < ATT_HEADER \/ len > left \/ att \in NotImplemented \/ more = Failed
         THEN Throw
         ELSE /\ res' = more
              /\ offset' = Advance(offset, len)
              /\ UNCHANGED stage
  /\ UNCHANGED <<mHandle, sockets, msg, wire, frame, sent>>

Decoded ==
  /\ stage = "decode" /\ offset >= HEADER_LENGTH + length
  /\ stage' = "decoded"
  /\ UNCHANGED <<mHandle, sockets, msg, wire, frame, offset, res, sent>>

Decode == DecodeHeader \/ DecodeAttribute \/ Decoded

Next ==
  \/ CreateSender \/ Encode \/ Send \/ Capture \/ OtherServer \/ TerminateSender
  \/ \E att \in Range(TypesInOrder) : Add(att) \/ RemoveAttribute(att)
  \/ Decode

Spec == Init /\ [][Next]_vars /\ WF_vars(Decode)

-----------------------------------------------------------------------------
(* Properties.                                                             *)

\* A byte suffices for the offset.
Fits == Len(wire) < 256

\* CSTUNAttribute::equals and CSTUNMsg::equals: the message's compares which
\* attributes there are, the attribute's what an address or a request says.
attributeEquals(att, one, other) ==
  att \in Addresses \cup {CHANGE_REQUEST} => one = other

equals(one, other) ==
  /\ one.type = other.type
  /\ DOMAIN one.attrs \subseteq DOMAIN other.attrs
  /\ Cardinality(DOMAIN one.attrs) = Cardinality(DOMAIN other.attrs)
  /\ SizeOf(DOMAIN one.attrs) = SizeOf(DOMAIN other.attrs)

\* What a message says survives its way through bytes, headers and back: the
\* decoded message equals the one built, by the code's own comparisons, under the
\* id it was given, and the XOR-ed address is the plain one again.  It does so
\* for messages whose attributes all have an encoding.
DecodesWhatWasSent ==
  stage = "decoded" /\ sent # Failed /\ Fits
    /\ (mHandle = "open" => DOMAIN msg.attrs \subseteq Addresses \cup {CHANGE_REQUEST}) =>
      /\ res # Failed /\ equals(msg, res) /\ res.id = msg.id
      /\ \A att \in DOMAIN msg.attrs : attributeEquals(att, msg.attrs[att], res.attrs[att])
      /\ mHandle = "open" /\ XOR_MAPPED_ADDRESS \in DOMAIN msg.attrs =>
           applyXorBytes(res.attrs[XOR_MAPPED_ADDRESS], res.id) \in AddressValues

\* The bytes do what module STUNMsg says of messages as wholes, whatever was
\* added, removed, left out or cannot be encoded: what comes out of the decoder,
\* or that nothing does, is what its decode gives.
ImplementsSTUNMsg ==
  stage = "decoded" /\ Fits => res = decode(sent)

\* The decoder comes to an end on every message shorter than 256 bytes.  (On a
\* longer one its offset may start again from 0, and the loop with it.)
DecodeEnds == (stage \in {"header", "decode"} /\ Fits) ~> (stage = "decoded")
==================================================================================
