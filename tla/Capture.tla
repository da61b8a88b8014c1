--------------------------------- MODULE Capture ---------------------------------
(***************************************************************************)
(* CCaptureApi of src/Source/CaptureApi.cpp: a thread that reads packets    *)
(* from a pcap handle into a CQueue, and the object's owner, which starts   *)
(* and stops captures and polls the queue.  The queue is module Queue.      *)
(*                                                                         *)
(* An item of Data is a packet [dst, dport].  The addresses and ports of    *)
(* the source are treated like those of the destination and are left out.  *)
(***************************************************************************)
EXTENDS Queue, FiniteSets

CONSTANTS
  Asks,      \* the captures the owner may ask for: [dsts, ports], empty sets for any
  MaxFails,  \* a bound on the Starts that fail
  MaxTurns   \* a bound on the turns of GetMsg's loop within its timeout

Owner  == "main"
Reader == "capture"

ASSUME CaptureAssumption ==
  /\ Threads = {Owner, Reader}
  /\ MaxFails \in Nat /\ MaxTurns \in Nat

VARIABLES
  mThread,        \* a handle is held
  mCapturing,     \* the last PrepareCapture succeeded
  mTerminate,     \* the reader is asked to leave
  mCap_t,         \* "null" or "open": the pcap handle
  mInAddressDst,  \* the addresses of the filter
  mPortsDst,      \* its ports
  mFp,            \* the packets the installed filter lets through
  rpc,            \* the reader: "none", "test", "next", "packet", "insert", "exited"
  packet,         \* the packet it has captured
  mpc,            \* the owner: "idle", "poll", "got", "join", "empty", "gone"
  destroying,     \* the Stop under way is the destructor's
  turns,          \* turns left of GetMsg's loop
  asked,          \* auxiliary: what the last successful Start was asked for
  left,           \* auxiliary: the addresses of the Starts that failed since the addresses
                  \* were last emptied
  earlier,        \* auxiliary: the packets in the queue from before that Start
  fails           \* auxiliary: the Starts that failed

ownerVars == <<mThread, mCapturing, mTerminate, mCap_t, mInAddressDst, mPortsDst, mFp, mpc,
               destroying, turns, asked, left, fails>>
ctlVars   == <<rpc, packet, ownerVars, earlier>>
vars      == <<queueVars, ctlVars>>

Any(S, x)         == S = {} \/ x \in S
Passing(dsts, ps) == {x \in Data : Any(dsts, x.dst) /\ Any(ps, x.dport)}

Init ==
  /\ QueueInit
  /\ mThread = FALSE /\ mCapturing = FALSE /\ mTerminate = FALSE
  /\ mCap_t = "null"
  /\ mInAddressDst = {} /\ mPortsDst = {} /\ mFp = {}
  /\ rpc = "none" /\ packet = NoData /\ mpc = "idle" /\ destroying = FALSE
  /\ turns = 0
  /\ asked = [dsts |-> {}, ports |-> {}] /\ left = {} /\ earlier = 0 /\ fails = 0

-----------------------------------------------------------------------------
(* The owner.                                                              *)

\* The addresses are added to those there are, the ports replace them.
AskPorts(a) ==
  /\ mInAddressDst' = mInAddressDst \cup a.dsts
  /\ mPortsDst' = a.ports

\* The two overloads without ports, for lists and for one address, leave the
\* ports as they are.
AskAddresses(a) ==
  /\ a.ports = {}
  /\ mInAddressDst' = mInAddressDst \cup a.dsts
  /\ UNCHANGED mPortsDst

AskAddress(a) ==
  /\ \E dst \in a.dsts : a = [dsts |-> {dst}, ports |-> {}] /\ mInAddressDst' = mInAddressDst \cup {dst}
  /\ UNCHANGED mPortsDst

\* A capture that runs is not started again.
Ask(a) ==
  /\ mpc = "idle" /\ ~mThread
  /\ AskPorts(a) \/ AskAddresses(a) \/ AskAddress(a)

\* The handle is opened, the filter installed and the thread created.  A filter
\* without addresses and ports is reported as bad and installed all the same.
Start(a) ==
  /\ Ask(a)
  /\ mFp' = Passing(mInAddressDst', mPortsDst')
  /\ mCap_t' = "open" /\ mCapturing' = TRUE
  /\ mTerminate' = FALSE /\ mThread' = TRUE /\ rpc' = "test"
  /\ asked' = a /\ earlier' = Len(order)
  /\ UNCHANGED <<queueVars, packet, mpc, destroying, turns, left, fails>>

\* No network, no handle, no filter (Start returns true), or no thread (Start
\* returns false): what was done so far stays.
StartFails(a) ==
  /\ Ask(a)
  /\ fails < MaxFails /\ fails' = fails + 1
  /\ \/ mCapturing' = FALSE /\ UNCHANGED <<mCap_t, mFp, mTerminate>>
     \/ mCapturing' = FALSE /\ mCap_t' = "null" /\ UNCHANGED <<mFp, mTerminate>>
     \/ /\ mCapturing' = FALSE /\ mCap_t' = "open"
        /\ UNCHANGED <<mFp, mTerminate>>
     \/ /\ mCapturing' = TRUE /\ mCap_t' = "open" /\ mTerminate' = FALSE
        /\ mFp' = Passing(mInAddressDst', mPortsDst')
  /\ left' = left \cup a.dsts
  /\ UNCHANGED <<queueVars, mThread, rpc, packet, mpc, destroying, turns, asked, earlier>>

GetMsg ==
  /\ mpc = "idle"
  /\ mpc' = "poll" /\ turns' = MaxTurns
  /\ UNCHANGED <<queueVars, mThread, mCapturing, mTerminate, mCap_t, mInAddressDst, mPortsDst,
                 mFp, rpc, packet, destroying, asked, left, earlier, fails>>

Poll ==
  /\ mpc = "poll"
  /\ CallGet(Owner)
  /\ mpc' = "got"
  /\ UNCHANGED <<mThread, mCapturing, mTerminate, mCap_t, mInAddressDst, mPortsDst, mFp, rpc,
                 packet, destroying, turns, asked, left, earlier, fails>>

\* Mutant: now is not read again.
ClockStands == UNCHANGED turns

\* The time that has passed is counted in turns of the loop.
TimePasses == turns' = turns - 1

\* GetMsg returns with a packet or when its time is up, and turns otherwise.
Polled ==
  /\ mpc = "got"
  /\ Leave(Owner)
  /\ IF result[Owner] # NoData \/ turns = 0
     THEN mpc' = "idle" /\ UNCHANGED turns
     ELSE mpc' = "poll" /\ TimePasses
  /\ UNCHANGED <<mThread, mCapturing, mTerminate, mCap_t, mInAddressDst, mPortsDst, mFp, rpc,
                 packet, destroying, asked, left, earlier, fails>>

\* Mutant: the reader is not told.
TellNobody == UNCHANGED mTerminate

\* mTerminate, which the reader tests.
TellReader == mTerminate' = TRUE

\* Stop, and the destructor, which stops first.
Stop(dtor) ==
  /\ mpc = "idle"
  /\ destroying' = dtor
  /\ IF mThread
     THEN TellReader /\ mpc' = "join"
     ELSE mpc' = (IF dtor THEN "empty" ELSE "idle") /\ UNCHANGED mTerminate
  /\ UNCHANGED <<queueVars, mThread, mCapturing, mCap_t, mInAddressDst, mPortsDst, mFp, rpc,
                 packet, turns, asked, left, earlier, fails>>

StopRest ==
  /\ mThread' = FALSE
  /\ mpc' = IF destroying THEN "empty" ELSE "idle"
  /\ mCap_t' = "null" /\ mCapturing' = FALSE
  /\ mFp' = IF mCapturing THEN {} ELSE mFp
  /\ UNCHANGED <<queueVars, mTerminate, mPortsDst, packet, destroying, turns, asked, earlier, fails>>

\* Mutant: the handle is closed without waiting for the reader.
StopUnjoined ==
  /\ mpc = "join"
  /\ rpc' = rpc
  /\ mInAddressDst' = {} /\ left' = {}
  /\ StopRest

\* Mutant: the addresses stay.
StopKeepAddresses ==
  /\ mpc = "join" /\ rpc = "exited" /\ rpc' = "none"
  /\ UNCHANGED mInAddressDst /\ left' = {}
  /\ StopRest

\* The reader has returned: the addresses and the handle go, the ports and the
\* queued packets stay.
StopJoined ==
  /\ mpc = "join" /\ rpc = "exited" /\ rpc' = "none"
  /\ mInAddressDst' = {} /\ left' = {}
  /\ StopRest

\* The destructor then deletes the queue.
Empty ==
  /\ mpc = "empty"
  /\ \/ pc[Owner] = "out" /\ CallRemoveAll(Owner) /\ UNCHANGED mpc
     \/ Leave(Owner) /\ mpc' = "gone"
  /\ UNCHANGED <<mThread, mCapturing, mTerminate, mCap_t, mInAddressDst, mPortsDst, mFp, rpc,
                 packet, destroying, turns, asked, left, earlier, fails>>

-----------------------------------------------------------------------------
(* The reader: realThreadProc.                                             *)

Test ==
  /\ rpc = "test"
  /\ rpc' = IF mTerminate THEN "exited" ELSE "next"
  /\ UNCHANGED <<queueVars, packet, ownerVars, earlier>>

\* pcap_next_ex times out or fails, or its packet is short, cut or not IP.
NextNothing ==
  /\ rpc = "next"
  /\ rpc' = "test"
  /\ UNCHANGED <<queueVars, packet, ownerVars, earlier>>

\* It returns a packet that passed the filter.  (There is room for it: the heap
\* is as large as it need be.)
NextPacket(x) ==
  /\ rpc = "next"
  /\ x \in mFp
  /\ live # Nodes
  /\ packet' = x
  /\ rpc' = "packet"
  /\ UNCHANGED <<queueVars, ownerVars, earlier>>

\* The packet is inserted once the lock is had.
InsertPacket ==
  /\ rpc = "packet"
  /\ CallInsert(Reader, packet)
  /\ rpc' = "insert"
  /\ UNCHANGED <<packet, ownerVars, earlier>>

Inserted ==
  /\ rpc = "insert"
  /\ Leave(Reader)
  /\ rpc' = "test"
  /\ UNCHANGED <<packet, ownerVars, earlier>>

-----------------------------------------------------------------------------
\* A step inside an operation of the queue.  What is taken out is the oldest.
QueueStep(t) ==
  /\ Inside(t)
  /\ earlier' = IF earlier > 0 /\ Len(order') < Len(order) THEN earlier - 1 ELSE earlier
  /\ UNCHANGED <<rpc, packet, ownerVars>>

OwnerStep  == Poll \/ Polled \/ StopJoined \/ Empty \/ QueueStep(Owner)
ReaderStep == Test \/ NextNothing \/ (\E x \in Data : NextPacket(x)) \/ InsertPacket
                \/ Inserted \/ QueueStep(Reader)

Next ==
  \/ \E a \in Asks : Start(a) \/ StartFails(a)
  \/ GetMsg
  \/ \E dtor \in BOOLEAN : Stop(dtor)
  \/ OwnerStep
  \/ ReaderStep

Spec == Init /\ [][Next]_vars

\* The threads are scheduled, and pcap_next_ex returns within its timeout of 100 ms.
Fairness == WF_vars(OwnerStep) /\ WF_vars(ReaderStep)

FairSpec == Spec /\ Fairness

-----------------------------------------------------------------------------
(* Properties.                                                             *)

\* The reader never hands pcap a handle that Stop has closed, and a destroyed
\* object leaves neither a reader nor a packet behind.
ReadsOpenHandle ==
  /\ rpc = "next" => mCap_t = "open"
  /\ mpc = "gone" => live = {} /\ rpc = "none"

\* However the sessions before it went: what a capture adds to the queue is what its
\* Start asked for, and what the Starts that failed since the last Stop asked for, whose
\* addresses stay.  What an earlier session left in the queue comes before all that.
SessionServesItsOwn ==
  mThread => \A i \in DOMAIN order :
    i > earlier => Contents[i] \in Passing(asked.dsts \cup left, asked.ports)

\* Stop returns: the reader sees mTerminate wherever it stands, in the middle of
\* an insertion or waiting for the lock the owner's polls take.
StopReturns == mpc = "join" ~> mpc # "join"

\* GetMsg returns, with a packet or without, while the reader goes on inserting.
GetMsgReturns == mpc = "poll" ~> mpc = "idle"
==================================================================================
