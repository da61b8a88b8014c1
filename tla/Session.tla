--------------------------------- MODULE Session ---------------------------------
(***************************************************************************)
(* A test session: the clients' STUN transactions (STUNClientTransaction), *)
(* the five NAT tests (NATReq1, 2, 3, 6, 8) and a STUN server (STUNServer)  *)
(* on the two sides of the simulated NAT of module NATSim, over a network   *)
(* that loses packets and may be slow.  One test runs against a NAT that    *)
(* has just been started, as in the simulator.                             *)
(*                                                                         *)
(* Time is kept only where the tests measure it: the NAT's clock ticks      *)
(* while NATReq6 sleeps; elsewhere the seconds of a test are short of       *)
(* mTimeout.  Transaction ids are numbers, fresh for every request (the     *)
(* code takes them from the clock and rand()).                             *)
(***************************************************************************)
EXTENDS NATSim, STUNMsg

CONSTANTS
  ClientA, ClientB,          \* two private hosts
  SourcePort,                \* their configured port
  ServerAIP, ServerBIP,      \* the server's addresses
  ServerPort1, ServerPort2,  \* and ports
  NumMessages,               \* numMessages of the tests 2 and 3
  Sleeps,                    \* how long NATReq6 may be told to sleep, in ticks
  MaxLost,                   \* a bound on the packets lost within one transaction
  MaxFails,                  \* a bound on the calls that fail in one test
  Late                       \* packets may take longer than a wait of GetMsg

ASSUME SessionAssumption ==
  /\ {ClientA, ClientB} \subseteq PrivateIPs /\ ClientA # ClientB
  /\ PublicIPs = {ServerAIP, ServerBIP} /\ ServerAIP # ServerBIP
  /\ ServerPorts = {ServerPort1, ServerPort2} /\ ServerPort1 # ServerPort2
  /\ SourcePort \in Nat /\ SourcePort .. (SourcePort + NumMessages) \subseteq ClientPorts
  /\ NumMessages \in Nat \ {0} /\ Sleeps \subseteq Nat
  /\ MaxLost \in Nat /\ MaxFails \in Nat /\ Late \in BOOLEAN

Tests == {"mapping", "filtering", "pooling", "lifetime", "overloading"}
Slots == {"P", "S"}   \* the transactions a test may have open (S: only NATReq6)

VARIABLES
  test,      \* the test
  step,      \* where it is: the number of its request, 0 when it has ended
  phase,     \* "ask", "wait" for the answer, "sleep", "ended", "join" the server, "over"
  sleep,     \* the ticks NATReq6 still has to sleep
  slept,     \* the ticks it was told to sleep
  me,        \* slot -> the endpoint its transaction captures for, or NoAddress
  mRcvQueue, \* slot -> the captured messages: [wire, from]
  request,   \* the request under way: [slot, to, wire]
  retries,   \* how often it was sent
  receivedB, \* NATReq6's second thread: "waiting", "yes", "no"
  mapped,    \* the mapped address each answer told, by step
  changed,   \* CHANGED_ADDRESS of the first answer
  report,    \* the verdict, a set of findings
  net,       \* the packets in flight
  lost,      \* how many the transaction under way has lost
  server,    \* the server's thread: "none", "created", in its "loop", "deaf", "over"
  fails,     \* how many calls have failed
  matched    \* auxiliary: every answer taken had the id of the request

sessionVars == <<test, step, phase, sleep, slept, me, mRcvQueue, request, retries, receivedB,
                 mapped, changed, report, net, lost, server, fails, matched>>
allVars     == <<vars, sessionVars>>
clientVars  == <<test, step, phase, sleep, slept, me, request, retries, receivedB, mapped,
                 changed, report, matched>>
othersVars  == <<server, fails>>

Address(ip, port) == [ip |-> ip, port |-> port, mask |-> {}]
NoAddress         == Address(NoIP, 0)
MaxStep           == 2 * NumMessages + 3

\* CSTUNServer as it is constructed.
ServerInit == server = "none"

SessionInit ==
  /\ Init /\ ServerInit
  /\ test \in Tests
  /\ step = 0 /\ phase = "start"
  /\ slept \in IF test = "lifetime" THEN Sleeps ELSE {0}
  /\ sleep = slept
  /\ me = [s \in Slots |-> NoAddress]
  /\ mRcvQueue = [s \in Slots |-> <<>>]
  /\ request = [slot |-> "P", to |-> NoAddress, wire |-> Failed]
  /\ retries = 0 /\ receivedB = "waiting"
  /\ mapped = [i \in 1 .. MaxStep |-> NoAddress]
  /\ changed = NoAddress
  /\ report = {}
  /\ net = {} /\ lost = 0
  /\ fails = 0
  /\ matched = TRUE

\* A call that fails.
Fail == fails < MaxFails /\ fails' = fails + 1

\* The server's Start creates its thread.
ServerStart ==
  \/ server' = "created" /\ UNCHANGED fails
  \/ server' = "none" /\ Fail

\* ThreadTest starts the NAT and the server before it runs the test, whatever
\* Start returns.
StartParts ==
  /\ phase = "start"
  /\ Start(mConfig, [t \in Threads |-> "loop"])
  /\ ServerStart
  /\ step' = 1 /\ phase' = "ask"
  /\ UNCHANGED <<test, sleep, slept, me, mRcvQueue, request, retries, receivedB, mapped, changed,
                 report, net, lost, matched>>

\* ThreadTest stops them when the test has ended.
StopParts ==
  /\ phase = "ended"
  /\ Stop
  /\ phase' = "join"
  /\ UNCHANGED <<othersVars, test, step, sleep, slept, me, mRcvQueue, request, retries, receivedB,
                 mapped, changed, report, net, lost, matched>>

\* The server's Stop joins its thread, if there is one.
Joined ==
  /\ phase = "join" /\ server \in {"none", "over"}
  /\ phase' = "over" /\ server' = "none"
  /\ UNCHANGED <<vars, fails, test, step, sleep, slept, me, mRcvQueue, request, retries, receivedB,
                 mapped, changed, report, net, lost, matched>>

-----------------------------------------------------------------------------
(* The requests of the tests.                                              *)

Datagram(from, to, wire) ==
  [src |-> from.ip, sport |-> from.port, dst |-> to.ip, dport |-> to.port, wire |-> wire]

A1 == Address(ServerAIP, ServerPort1)

\* Mutant: NATReq6 does not change its port.
FromSamePort ==
  CASE test = "pooling" -> Address(ClientA, SourcePort + step - 1)
    [] test = "overloading" -> Address(IF step % 2 = 1 THEN ClientA ELSE ClientB, SourcePort)
    [] OTHER -> Address(ClientA, SourcePort)

\* NATReq3 sends from the second client every other time, NATReq2 from a new
\* port every time, NATReq6 from the next port once it has slept.
From ==
  CASE test = "pooling" -> Address(ClientA, SourcePort + step - 1)
    [] test = "overloading" -> Address(IF step % 2 = 1 THEN ClientA ELSE ClientB, SourcePort)
    [] test = "lifetime" -> Address(ClientA, IF step = 1 THEN SourcePort ELSE SourcePort + 1)
    [] OTHER -> Address(ClientA, SourcePort)

\* Mutant: NATReq1's second request goes to the other port as well.
ToChanged == IF test = "mapping" /\ step \in {2, 3} THEN changed ELSE A1

\* NATReq1 goes to the other address, then to its other port; everything else
\* to the first.
To ==
  CASE test = "mapping" /\ step = 2 -> Address(changed.ip, ServerPort1)
    [] test = "mapping" /\ step = 3 -> changed
    [] OTHER -> A1

\* Mutant: NATReq8's second request asks for another port only.
WireSameIP == encode(createBindingRequest(step, FALSE, test = "filtering" /\ step \in {2, 3}))

\* NATReq8 asks for an answer from elsewhere, NATReq6 for one to its first endpoint.
Wire ==
  LET plain == createBindingRequest(step, test = "filtering" /\ step = 2,
                                          test = "filtering" /\ step \in {2, 3})
  IN  encode(IF test = "lifetime" /\ step = 2
             THEN addAttribute(plain, RESPONSE_ADDRESS, mapped[1])
             ELSE plain)

-----------------------------------------------------------------------------
(* The transaction: Create, SendAndReceive, Receive.                       *)

Slot == IF test = "lifetime" /\ step = 2 THEN "S" ELSE "P"

\* NATReq2 and 3 create a transaction for every request, NATReq6 two, the others one.
Creates == test \in {"pooling", "overloading"} \/ step = 1 \/ Slot = "S"

\* The transaction is ready: the first sending.  NATReq3 makes a new one every
\* time, and with it a queue; the others keep theirs.
SendFirst ==
  /\ mRcvQueue' = IF test = "overloading" THEN [s \in Slots |-> <<>>] ELSE mRcvQueue
  /\ request' = [slot |-> Slot, to |-> To, wire |-> Wire]
  /\ net' = net \cup {Datagram(From, To, Wire)}
  /\ retries' = 1 /\ lost' = 0
  /\ phase' = "wait"
  /\ UNCHANGED <<vars, server, test, step, sleep, slept, receivedB, mapped, changed, report, matched>>

\* A capture that runs is not started again.
Ask ==
  /\ phase = "ask" /\ (Creates => me[Slot] = NoAddress)
  /\ me' = IF Creates THEN [me EXCEPT ![Slot] = From] ELSE me
  /\ UNCHANGED fails
  /\ SendFirst

\* The capture cannot be prepared, which Start does not tell: no answer is heard.
AskDeaf ==
  /\ phase = "ask" /\ Creates /\ me[Slot] = NoAddress
  /\ Fail
  /\ UNCHANGED me
  /\ SendFirst

\* Mutant: the wait is shorter than the way there and back.
WaitOverEarly(s) == mRcvQueue[s] = <<>>

\* A wait of GetMsg ends without a message: never with one on the way, unless
\* the network is slow.
WaitOver(s) == mRcvQueue[s] = <<>> /\ (Late \/ net = {})

\* Mutant: a retry is not counted.
RetryUncounted ==
  /\ phase = "wait" /\ WaitOver(request.slot) /\ retries < 3
  /\ net' = net \cup {Datagram(From, request.to, request.wire)}
  /\ UNCHANGED <<vars, othersVars, test, step, phase, sleep, slept, me, mRcvQueue, request, retries, receivedB,
                 mapped, changed, report, lost, matched>>

\* The same request again, three times in all.
Retry ==
  /\ phase = "wait" /\ WaitOver(request.slot) /\ retries < 3
  /\ net' = net \cup {Datagram(From, request.to, request.wire)}
  /\ retries' = retries + 1
  /\ UNCHANGED <<vars, othersVars, test, step, phase, sleep, slept, me, mRcvQueue, request, receivedB,
                 mapped, changed, report, lost, matched>>

\* Terminate, or the transaction's destructor: the captures stop.
Finish(found) ==
  /\ report' = found
  /\ phase' = "ended"
  /\ me' = [s \in Slots |-> NoAddress]
  /\ UNCHANGED step

Proceed == step' = step + 1 /\ phase' = "ask" /\ UNCHANGED report

\* NATReq2 and 3 terminate their transaction before the next request.
Go ==
  /\ Proceed
  /\ me' = IF test \in {"pooling", "overloading"} THEN [me EXCEPT !["P"] = NoAddress] ELSE me

-----------------------------------------------------------------------------
(* What a test makes of an answer, or of its absence (Failed).             *)

Learned(msg, att) == getAttribute(msg, att, NoAddress)

\* NATReq1 compares what XOR_MAPPED_ADDRESS hides.
Unmasked(msg) == applyXor(Learned(msg, XOR_MAPPED_ADDRESS), msg.id)

\* CSTUNAddress::equals.
SameAddress(one, other) == one.port = other.port /\ one.ip = other.ip /\ one.mask = other.mask

Answers == {CHANGED_ADDRESS, XOR_MAPPED_ADDRESS, MAPPED_ADDRESS}

Mapping(msg) ==
  IF msg = Failed \/ ~(Answers \subseteq DOMAIN msg.attrs)
  THEN Finish({})
  ELSE CASE step = 1 -> IF Learned(msg, MAPPED_ADDRESS) = me["P"] THEN Finish({"NotNated"}) ELSE Go
         [] step = 2 -> IF SameAddress(Unmasked(msg), mapped[1])
                        THEN Finish({"EndPointIndependent"}) ELSE Go
         [] step = 3 -> Finish({IF SameAddress(Unmasked(msg), mapped[2])
                                THEN "AddressDependent" ELSE "AddressPortDependent"})

\* NATReq8 goes on although its first request was not answered.
Filtering(msg) ==
  CASE step = 1 -> IF msg # Failed /\ CHANGED_ADDRESS \notin DOMAIN msg.attrs THEN Finish({})
                                                                             ELSE Go
    [] step = 2 -> IF msg # Failed THEN Finish({"AddressIndependent"}) ELSE Go
    [] step = 3 -> Finish({IF msg # Failed THEN "AddressDependent" ELSE "AddressPortDependent"})

\* Mutant: the ports are compared too.
PoolingWhole(msg) ==
  IF step > 1 /\ msg # Failed /\ Learned(msg, MAPPED_ADDRESS) # mapped[1]
  THEN Finish({"Random"})
  ELSE IF step = NumMessages THEN Finish({"Paired"}) ELSE Go

\* NATReq2 compares with the first answer, or what stands for it if there was none.
Pooling(msg) ==
  IF step > 1 /\ msg # Failed /\ Learned(msg, MAPPED_ADDRESS).ip # mapped[1].ip
  THEN Finish({"Random"})
  ELSE IF step = NumMessages THEN Finish({"Paired"}) ELSE Go

\* The ports NATReq3 has seen in this round, that of client B being msg's.
PortA   == mapped[step - 1].port
GotA    == mapped[step - 1] # NoAddress
Round(msg) ==
  IF ~GotA THEN {}
  ELSE (IF PortA = SourcePort THEN {"preservation"} ELSE {})
         \cup (IF msg # Failed /\ PortA = SourcePort /\ Learned(msg, MAPPED_ADDRESS).port = PortA
               THEN {"overloading"} ELSE {})

\* What NATReq3 assumes until a round shows otherwise; when it could not create a
\* thread no round is looked at any more.
Both == {"preservation", "overloading"}

Overloading(msg) ==
  LET seen == IF report = {} THEN Round(msg) ELSE report
  IN  IF step % 2 = 1 \/ (step < 2 * NumMessages /\ seen = Both) THEN Go ELSE Finish(seen)

\* NATReq6 sleeps after its first answer.  After the second request both threads
\* are joined; client A's answer counts as expired too.
Lifetime(msg) ==
  IF step = 1
  THEN IF msg = Failed THEN Finish({}) ELSE phase' = "sleep" /\ UNCHANGED <<step, report, me>>
  ELSE /\ receivedB # "waiting"
       /\ Finish({IF msg = Failed /\ receivedB = "yes" THEN "alive" ELSE "expired"})

Conclude(msg) ==
  /\ mapped' = [mapped EXCEPT ![step] =
       IF msg = Failed THEN @
       ELSE IF test = "mapping" THEN Unmasked(msg) ELSE Learned(msg, MAPPED_ADDRESS)]
  /\ changed' = IF step = 1 /\ msg # Failed THEN Learned(msg, CHANGED_ADDRESS) ELSE changed
  /\ CASE test = "mapping" -> Mapping(msg)
       [] test = "filtering" -> Filtering(msg)
       [] test = "pooling" -> Pooling(msg)
       [] test = "overloading" -> Overloading(msg)
       [] test = "lifetime" -> Lifetime(msg)
  /\ UNCHANGED <<vars, server, test, sleep, slept, request, retries, receivedB, net, lost>>

\* The first message captured is the answer, whichever request it answers.
Answered ==
  /\ phase = "wait" /\ mRcvQueue[request.slot] # <<>>
  /\ mRcvQueue' = [mRcvQueue EXCEPT ![request.slot] = Tail(@)]
  /\ LET msg == decode(Head(mRcvQueue[request.slot]))
     IN  /\ Conclude(msg)
         /\ matched' = (matched /\ msg # Failed /\ msg.id = request.wire.id)
  /\ UNCHANGED fails

Unanswered ==
  /\ phase = "wait" /\ WaitOver(request.slot) /\ retries = 3
  /\ Conclude(Failed)
  /\ UNCHANGED <<mRcvQueue, matched, fails>>

\* NATReq2 goes on after a Create that failed, and does not Terminate it: if it
\* was the sender that failed the capture runs, and no later Create succeeds.
PoolingUncreated ==
  \/ step = NumMessages /\ Finish({"Paired"})
  \/ step < NumMessages /\ Proceed /\ me' \in {me, [me EXCEPT !["P"] = IF @ = NoAddress THEN From ELSE @]}

\* Create fails: NATReq1, 6 and 8 end without a finding, NATReq3 goes on as if
\* not answered.
CreateFails ==
  /\ phase = "ask" /\ Creates
  /\ IF me[Slot] = NoAddress THEN Fail ELSE UNCHANGED fails
  /\ CASE test = "pooling" -> PoolingUncreated
       [] test = "overloading" -> Overloading(Failed)
       [] OTHER -> Finish({})
  /\ UNCHANGED <<vars, server, test, sleep, slept, mRcvQueue, request, retries, receivedB, mapped,
                 changed, net, lost, matched>>

\* NATReq6's second thread waits once for a message to the first endpoint: from 3
\* to 6 seconds after the first sending, so it may give up from the third one on.
Receive ==
  /\ test = "lifetime" /\ step = 2 /\ phase = "wait" /\ receivedB = "waiting"
  /\ IF mRcvQueue["P"] # <<>>
     THEN receivedB' = "yes" /\ mRcvQueue' = [mRcvQueue EXCEPT !["P"] = Tail(@)]
     ELSE /\ retries = 3 \/ (mRcvQueue["S"] # <<>> /\ WaitOver("P"))
          /\ receivedB' = "no" /\ UNCHANGED mRcvQueue
  /\ UNCHANGED <<vars, othersVars, test, step, phase, sleep, slept, me, request, retries, mapped,
                 changed, report, net, lost, matched>>

\* A thread of NATReq6 cannot be created.  Both are joined all the same: without
\* client A's nothing is asked, without client B's nothing is received.
LifetimeThreadFails ==
  /\ test = "lifetime" /\ step = 2 /\ Fail
  /\ \/ /\ phase = "ask" /\ UNCHANGED receivedB
        /\ Finish({IF mRcvQueue["P"] = <<>> THEN "expired" ELSE "alive"})
     \/ /\ phase = "wait" /\ receivedB = "waiting" /\ receivedB' = "no"
        /\ UNCHANGED <<step, phase, me, report>>

\* A thread of NATReq3 cannot be created: the next is, and all further rounds run.
OverloadingThreadFails ==
  /\ test = "overloading" /\ phase = "ask" /\ Fail
  /\ IF step = 2 * NumMessages
     THEN Finish(Both)
     ELSE step' = step + 1 /\ report' = Both /\ UNCHANGED <<phase, me>>
  /\ UNCHANGED receivedB

ThreadFails ==
  /\ LifetimeThreadFails \/ OverloadingThreadFails
  /\ UNCHANGED <<vars, server, test, sleep, slept, mRcvQueue, request, retries, mapped, changed,
                 net, lost, matched>>

SleepTick ==
  /\ phase = "sleep" /\ sleep > 0
  /\ Tick
  /\ sleep' = sleep - 1
  /\ UNCHANGED <<othersVars, test, step, phase, slept, me, mRcvQueue, request, retries, receivedB, mapped,
                 changed, report, net, lost, matched>>

Wake ==
  /\ phase = "sleep" /\ sleep = 0
  /\ step' = 2 /\ phase' = "ask"
  /\ UNCHANGED <<vars, othersVars, test, sleep, slept, me, mRcvQueue, request, retries, receivedB,
                 mapped, changed, report, net, lost, matched>>

-----------------------------------------------------------------------------
(* The network, the NAT and the server.                                    *)

Header(p) == [src |-> p.src, sport |-> p.sport, dst |-> p.dst, dport |-> p.dport]

\* A packet the NAT has translated goes on, or is gone.
Translated(p) ==
  net' = (net \ {p}) \cup
           (IF sent' = Nothing THEN {}
            ELSE {[p EXCEPT !.src = sent'.from[1], !.sport = sent'.from[2],
                            !.dst = sent'.to[1], !.dport = sent'.to[2]]})

Outgoing(p) ==
  /\ p.src \in PrivateIPs
  /\ TreatOutgoingPacket(Header(p))
  /\ Translated(p)
  /\ UNCHANGED <<clientVars, othersVars, mRcvQueue, lost>>

Incomming(p) ==
  /\ p.src \in PublicIPs /\ p.dst \in NatIPs
  /\ TreatIncommingPacket(Header(p))
  /\ Translated(p)
  /\ UNCHANGED <<clientVars, othersVars, mRcvQueue, lost>>

OtherIP(ip)     == IF ip = ServerAIP THEN ServerBIP ELSE ServerAIP
OtherPort(port) == IF port = ServerPort1 THEN ServerPort2 ELSE ServerPort1

\* Where the server answers from.
Source(p, change) ==
  Address(IF change.ip THEN OtherIP(p.dst) ELSE p.dst,
          IF change.port THEN OtherPort(p.dport) ELSE p.dport)

\* The server's answer; every request of this program has a CHANGE_REQUEST, so
\* the one the loop keeps from an earlier message is never used.
Answer(p) ==
  LET msg    == decode(p.wire)
      source == Source(p, msg.attrs[CHANGE_REQUEST])
      sender == Address(p.src, p.sport)
      other  == Address(OtherIP(source.ip), OtherPort(source.port))
  IN  Datagram(source, getAttribute(msg, RESPONSE_ADDRESS, sender),
               encode(createBindingResponse(msg.id, sender, source, other)))

Serve(p) ==
  /\ server = "loop"
  /\ p.src \in NatIPs /\ p.dst \in PublicIPs
  /\ net' = (net \ {p}) \cup (IF decode(p.wire) = Failed THEN {} ELSE {Answer(p)})
  /\ UNCHANGED <<vars, clientVars, othersVars, mRcvQueue, lost>>

\* The server's thread sets up its capture and its sender; one that fails ends
\* the thread, but for a capture that cannot be prepared: it hears nothing.
ServerBegins ==
  /\ server = "created"
  /\ \/ server' = "loop" /\ UNCHANGED fails
     \/ server' \in {"deaf", "over"} /\ Fail
  /\ UNCHANGED <<vars, clientVars, mRcvQueue, net, lost>>

mTerminate == phase = "join"

\* The loop looks at mTerminate between two messages.
ServerLeaves ==
  /\ server \in {"loop", "deaf"} /\ mTerminate
  /\ server' = "over"
  /\ UNCHANGED <<vars, clientVars, fails, mRcvQueue, net, lost>>

\* Nobody listens at the server's address; before the thread has begun it is a loss.
Unheard(p) ==
  /\ p.src \in NatIPs /\ p.dst \in PublicIPs
  /\ \/ server = "created" /\ lost < MaxLost /\ lost' = lost + 1
     \/ server \in {"none", "deaf", "over"} /\ UNCHANGED lost
  /\ net' = net \ {p}
  /\ UNCHANGED <<vars, clientVars, othersVars, mRcvQueue>>

\* A packet reaches a private host, where a capture for its endpoint queues it.
Deliver(p) ==
  /\ p.src \in PublicIPs /\ p.dst \in PrivateIPs
  /\ net' = net \ {p}
  /\ mRcvQueue' = [s \in Slots |-> IF me[s] = Address(p.dst, p.dport)
                                   THEN Append(mRcvQueue[s], p.wire) ELSE mRcvQueue[s]]
  /\ UNCHANGED <<vars, clientVars, othersVars, lost>>

Lose(p) ==
  /\ lost < MaxLost /\ lost' = lost + 1
  /\ net' = net \ {p}
  /\ UNCHANGED <<vars, clientVars, othersVars, mRcvQueue>>

-----------------------------------------------------------------------------
Carry(p) == Outgoing(p) \/ Incomming(p) \/ Serve(p) \/ Unheard(p) \/ Deliver(p)

ClientStep ==
  StartParts \/ Ask \/ AskDeaf \/ Retry \/ Answered \/ Unanswered \/ CreateFails \/ Receive
  \/ ThreadFails \/ SleepTick \/ Wake \/ StopParts \/ Joined

ServerStep == ServerBegins \/ ServerLeaves

SessionNext == ClientStep \/ ServerStep \/ \E p \in net : Carry(p) \/ Lose(p)

SessionSpec == SessionInit /\ [][SessionNext]_allVars

\* The threads run, and every packet in flight is delivered, handled or lost.
FairSession ==
  /\ SessionSpec
  /\ WF_allVars(ClientStep)
  /\ WF_allVars(ServerStep)
  /\ WF_allVars(\E p \in net : Carry(p))

-----------------------------------------------------------------------------
(* Properties.  The NAT is one the test is meant for: it translates, and     *)
(* what a verdict rests on holds (each property says what).                  *)

Ended(t) == phase = "ended" /\ test = t
AllUp    == fails = 0   \* every part of the session came up

\* NATReq1 finds the mapping behaviour of a NAT without port overloading, over
\* the three flows and their retries, whatever the filter and the port policy;
\* and if a part of the session did not come up it finds that or nothing.
MappingVerdict ==
  Ended("mapping") /\ mConfig.mMappingBehavior # "NotNated" /\ ~mConfig.mPortOverloading =>
    report \in {{mConfig.mMappingBehavior}} \cup (IF AllUp THEN {} ELSE {{}})

\* NATReq8 finds the filtering behaviour of every NAT that translates: two losses
\* in a row do not make an answer look filtered.  (With a part missing they do.)
FilteringVerdict ==
  Ended("filtering") /\ mConfig.mMappingBehavior # "NotNated" /\ AllUp =>
    report = {mConfig.mFilteringBehavior}

\* NATReq6 finds out whether the time it slept outlives a binding, although the
\* binding is only torn down by the packet that asks, and its retries ask again.
\* (When two packets are lost, its second thread may give up too early.)
LifetimeVerdict ==
  Ended("lifetime") /\ mConfig.mMappingBehavior # "NotNated" /\ lost < 2 /\ AllUp =>
    report = {IF slept >= Timeout THEN "expired" ELSE "alive"}

\* NATReq2 never calls a NAT with paired addresses random, unless its first
\* request was not answered; NATReq3 finds overloading and port preservation if
\* the NAT maps both clients to one address.
PoolVerdicts ==
  /\ Ended("pooling") /\ mConfig.mIPAssignMode = "Paired" /\ (AllUp \/ mapped[1] # NoAddress) =>
       report = {"Paired"}
  /\ Ended("overloading") /\ mConfig.mMappingBehavior # "NotNated" /\ AllUp =>
       /\ "preservation" \in report <=> SamePort
       /\ mConfig.mPortOverloading => "overloading" \in report
       /\ mapped[step].ip = mapped[step - 1].ip =>
            ("overloading" \in report <=> mConfig.mPortOverloading)

\* STUNMsg.h:73 says of the transaction id that it "is used to correlate requests
\* and responses": an answer taken is the answer to the request under way.
TransactionMatched == matched

\* Every test comes to its end, answered or not, and so do the threads that ran
\* for it: Stop does not join a server's thread for ever.
TestEnds == <>(phase = "over" /\ server = "none")
==================================================================================
