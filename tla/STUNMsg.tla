--------------------------------- MODULE STUNMsg ---------------------------------
(***************************************************************************)
(* Messages and attributes: src/Source/STUNMsg.cpp, STUNAttribute.cpp,      *)
(* STUNAttributeDecoder.cpp and STUNMsgFactory.cpp.                         *)
(*                                                                         *)
(* A message is [type, id, attrs], attrs mapping the types of its           *)
(* attributes (the keys of mAttributes, a CIdTbl) to their values: an       *)
(* endpoint, or the two flags of a change request.  On the wire it is       *)
(* [type, length, id, body, bytes]: length is what its header claims of the *)
(* attributes, body the attributes that are really there, bytes how long    *)
(* they are.  (No sender puts a type there twice; module Codec has them in  *)
(* their order.)  An address is [ip, port, mask], mask being the            *)
(* transaction ids it is XOR-ed with.                                      *)
(***************************************************************************)
EXTENDS Integers, Sequences, FiniteSets

\* The message types, and the attribute types; UNKNOWN_OPTIONAL stands for those
\* without a name here.
BINDING_REQUEST              == "BINDING_REQUEST"
BINDING_RESPONSE             == "BINDING_RESPONSE"
BINDING_ERROR_RESPONSE       == "BINDING_ERROR_RESPONSE"
SHARED_SECRET_REQUEST        == "SHARED_SECRET_REQUEST"
SHARED_SECRET_RESPONSE       == "SHARED_SECRET_RESPONSE"
SHARED_SECRET_ERROR_RESPONSE == "SHARED_SECRET_ERROR_RESPONSE"

MAPPED_ADDRESS     == 1
RESPONSE_ADDRESS   == 2
CHANGE_REQUEST     == 3
SOURCE_ADDRESS     == 4
CHANGED_ADDRESS    == 5
USERNAME           == 6
PASSWORD           == 7
MESSAGE_INTEGRITY  == 8
ERROR_CODE         == 9
UNKNOWN_ATTRIBUTES == 10
REFLECTED_FROM     == 11
XOR_ONLY           == 33
UNKNOWN_OPTIONAL   == 32768
XOR_MAPPED_ADDRESS == 32800
SERVER             == 32802

Addresses == {MAPPED_ADDRESS, RESPONSE_ADDRESS, SOURCE_ADDRESS, CHANGED_ADDRESS,
              REFLECTED_FROM, XOR_MAPPED_ADDRESS}

\* The columns of mAttributePresentities: what a message must carry (M), and what
\* it may carry (O, and C, which no code tells from O).
Mandatory ==
  [BINDING_REQUEST              |-> {},
   BINDING_RESPONSE             |-> {MAPPED_ADDRESS, SOURCE_ADDRESS, CHANGED_ADDRESS,
                                     XOR_MAPPED_ADDRESS},
   BINDING_ERROR_RESPONSE       |-> {ERROR_CODE},
   SHARED_SECRET_REQUEST        |-> {},
   SHARED_SECRET_RESPONSE       |-> {USERNAME, PASSWORD},
   SHARED_SECRET_ERROR_RESPONSE |-> {ERROR_CODE}]

Optional ==
  [BINDING_REQUEST              |-> {RESPONSE_ADDRESS, CHANGE_REQUEST, USERNAME,
                                     MESSAGE_INTEGRITY, XOR_ONLY},
   BINDING_RESPONSE             |-> {MESSAGE_INTEGRITY, REFLECTED_FROM, SERVER},
   BINDING_ERROR_RESPONSE       |-> {UNKNOWN_ATTRIBUTES, SERVER},
   SHARED_SECRET_REQUEST        |-> {},
   SHARED_SECRET_RESPONSE       |-> {SERVER},
   SHARED_SECRET_ERROR_RESPONSE |-> {UNKNOWN_ATTRIBUTES, SERVER}]

Named == Addresses \cup {CHANGE_REQUEST, USERNAME, PASSWORD, MESSAGE_INTEGRITY, ERROR_CODE,
                         UNKNOWN_ATTRIBUTES, XOR_ONLY, SERVER}

\* Every message may carry attributes the program does not know.
Presentity(type, att) ==
  CASE att \in Mandatory[type]                  -> "M"
    [] att \in Optional[type] \/ att \notin Named -> "O"
    [] OTHER                                     -> "N_A"

-----------------------------------------------------------------------------
(* Building messages.                                                      *)

Failed == [type |-> "exception"]

NoAttributes == [a \in {} |-> 0]

\* addAttribute, for each type in DOMAIN new: an attribute the message may not
\* carry throws; one it has already stays.
addAttributes(msg, new) ==
  IF msg = Failed \/ \E a \in DOMAIN new : Presentity(msg.type, a) = "N_A"
  THEN Failed
  ELSE [msg EXCEPT !.attrs = [a \in DOMAIN @ \cup DOMAIN new |->
                                IF a \in DOMAIN @ THEN @[a] ELSE new[a]]]

addAttribute(msg, att, value) == addAttributes(msg, [a \in {att} |-> value])

removeAttribute(msg, att) ==
  [msg EXCEPT !.attrs = [a \in DOMAIN @ \ {att} |-> @[a]]]

getAttribute(msg, att, default) == IF att \in DOMAIN msg.attrs THEN msg.attrs[att] ELSE default

\* The loop ends before REFLECTED_FROM and so never looks for XOR_MAPPED_ADDRESS.
validateAttributePresentity(msg) ==
  \A att \in MAPPED_ADDRESS .. UNKNOWN_ATTRIBUTES :
    Presentity(msg.type, att) = "M" => att \in DOMAIN msg.attrs

createBindingRequest(id, changeIP, changePort) ==
  addAttribute([type |-> BINDING_REQUEST, id |-> id, attrs |-> NoAttributes],
               CHANGE_REQUEST, [ip |-> changeIP, port |-> changePort])

\* XOR with a transaction id undoes itself.
applyXor(address, id) ==
  [address EXCEPT !.mask = IF id \in @ THEN @ \ {id} ELSE @ \cup {id}]

createBindingResponse(id, mapped, source, changed) ==
  addAttributes([type |-> BINDING_RESPONSE, id |-> id, attrs |-> NoAttributes],
    [a \in {MAPPED_ADDRESS, SOURCE_ADDRESS, CHANGED_ADDRESS, XOR_MAPPED_ADDRESS} |->
       CASE a = MAPPED_ADDRESS     -> mapped
         [] a = SOURCE_ADDRESS     -> source
         [] a = CHANGED_ADDRESS    -> changed
         [] a = XOR_MAPPED_ADDRESS -> applyXor(mapped, id)])

-----------------------------------------------------------------------------
(* The wire.                                                               *)

ATT_HEADER       == 4
getDataLength(a) == IF a \in Addresses THEN 8 ELSE IF a = CHANGE_REQUEST THEN 4 ELSE 0

\* How long attributes of these types are together, each with its header.
SizeOf(types) ==
  ATT_HEADER * Cardinality(types)
    + getDataLength(MAPPED_ADDRESS) * Cardinality(types \cap Addresses)
    + getDataLength(CHANGE_REQUEST) * Cardinality(types \cap {CHANGE_REQUEST})

\* An attribute that is neither an address nor a change request leaves no bytes
\* although its header is counted.
encode(msg) ==
  IF msg = Failed \/ ~validateAttributePresentity(msg)
  THEN Failed
  ELSE LET types == {a \in DOMAIN msg.attrs : getDataLength(a) > 0}
       IN  [type |-> msg.type, id |-> msg.id, length |-> SizeOf(DOMAIN msg.attrs),
            body |-> [a \in types |-> msg.attrs[a]], bytes |-> SizeOf(types)]

\* The types whose decoding throws.
NotImplemented == {MESSAGE_INTEGRITY, PASSWORD, USERNAME}

\* The attributes are read one after the other until the offset, which starts
\* behind the header, reaches the length the message claims; where the bytes end
\* before that, reading on throws.  (offset is a byte: module STUNMsg is about
\* messages shorter than 256 bytes, as all of this program's are.)
Whole(wire) == wire.length <= wire.bytes

decode(wire) ==
  IF \/ wire = Failed \/ ~Whole(wire)
     \/ \E a \in DOMAIN wire.body : a \in NotImplemented \/ Presentity(wire.type, a) = "N_A"
  THEN Failed
  ELSE [type |-> wire.type, id |-> wire.id, attrs |-> wire.body]
==================================================================================
