----------------------------- MODULE NATSimThreads -----------------------------
(***************************************************************************)
(* The simulated NAT with its two threads interleaved.  A table locks      *)
(* itself for one call at a time, so a handler is cut at its calls: what   *)
(* it found by one call (an index, a reference to an item, a time) it uses *)
(* in later ones, whatever the other thread did in between.  Start and     *)
(* Stop are cut where threads are created and joined.                      *)
(*                                                                         *)
(* The reading of a free port and its reservation are one step: only the   *)
(* private thread reserves, so a port it found free stays free.            *)
(*                                                                         *)
(* After each packet a thread traces both tables.  ToString takes no lock:  *)
(* it is a walk over the array and its items, during which the other thread *)
(* may insert (and replace the array) or remove (and delete an item).  The  *)
(* walk is torn then, and what it does is undefined: it may come to its end *)
(* all the same, with a garbled trace, or to a fault.                      *)
(*                                                                         *)
(* What a handler does through a reference to a deleted item is undefined, *)
(* too, and GetItem with an index beyond the items ends the process        *)
(* ("throw;" with no exception): everything stops then, in fault.          *)
(***************************************************************************)
EXTENDS NATSim

CONSTANTS
  MaxAge,      \* bound: the clock stands still when an entry is this old
  MaxLate,     \* bound: the ticks that may pass while a handler holds Now
  MaxTimeouts  \* bound: the declared timeouts after which no packet is taken until Stop

ASSUME BoundAssumption == MaxAge \in Nat /\ MaxLate \in Nat /\ MaxTimeouts \in Nat

VARIABLES
  mTerminate,
  main,    \* where the thread that calls Start and Stop stands
  pc,      \* where each capture thread stands
  loc,     \* the locals of its packet's handler
  fault,   \* "none", or how the process came to undefined behaviour
  torn,    \* the threads under whose walk over a table the other one changed it
  expired  \* auxiliary: the timeouts declared by handlers since the last Stop

tables   == <<mOutgoingTable, mIncommingTable, mAvailablePorts>>
life     == <<mConfig, mThread, mTerminate, main>>
tvars    == <<tables, life, sent, pc, loc, fault, torn, expired>>

\* A reference to an item of a table: dead once the item is deleted.
NoRef  == [key |-> <<NoIP, 0, NoIP, 0>>, live |-> FALSE]
Ref(k) == [key |-> k, live |-> TRUE]

\* key: outgoingPk; inKey: incommingPk; outIdx, outRef: the index and the item
\* found in the outgoing table; inIdx, inRef: in the incoming one; ini, i: the
\* address tried first and now; ip, port: the binding; fresh: it is a new one.
Locals(pk) ==
  [pk |-> pk, late |-> 0, key |-> NoRef.key, inKey |-> NoRef.key,
   outIdx |-> 0, inIdx |-> 0, outRef |-> NoRef, inRef |-> NoRef,
   ini |-> 0, i |-> 0, ip |-> NoIP, port |-> 0, fresh |-> FALSE]

NoPacket == Locals([src |-> NoIP, sport |-> 0, dst |-> NoIP, dport |-> 0])

ThreadsInit ==
  /\ Init
  /\ mTerminate = FALSE
  /\ main = "idle"
  /\ pc = [t \in Threads |-> "test"]
  /\ loc = [t \in Threads |-> NoPacket]
  /\ fault = "none"
  /\ torn = {}
  /\ expired = 0

-----------------------------------------------------------------------------
(* Start and Stop, called by one thread.                                   *)

Create(t, outcome, from, to, failed) ==
  /\ main = from /\ fault = "none"
  /\ mThread' = IF mThread[t] = "none" THEN [mThread EXCEPT ![t] = outcome] ELSE mThread
  /\ mTerminate' = IF mThread[t] = "none" THEN FALSE ELSE mTerminate
  /\ main' = IF mThread[t] = "none" /\ outcome # "none" THEN to ELSE failed
  /\ sent' = Nothing
  /\ UNCHANGED <<tables, pc, loc, fault, expired>>

StartPublic(c, outcome) ==
  /\ c = mConfig \/ \A t \in Threads : mThread[t] = "none"
  /\ mConfig' = c
  /\ Create("public", outcome, "idle", "started", "failed")

StartPrivate(outcome) ==
  /\ \/ Create("private", outcome, "started", "ports", "idle")
     \/ Create("private", outcome, "failed", "idle", "idle")
  /\ UNCHANGED mConfig

\* InsertIP for the next address: the port arrays are handed out one by one,
\* when both threads already run.
StartPorts ==
  LET ip == NATPublicIPs[CHOOSE i \in 1 .. N :
                           /\ NATPublicIPs[i] \notin DOMAIN mAvailablePorts
                           /\ \A j \in 1 .. (i - 1) : NATPublicIPs[j] \in DOMAIN mAvailablePorts]
  IN  /\ main = "ports" /\ fault = "none"
      /\ mAvailablePorts' = [x \in DOMAIN mAvailablePorts \cup {ip} |->
                               IF x = ip THEN {} ELSE mAvailablePorts[x]]
      /\ main' = IF NatIPs \subseteq DOMAIN mAvailablePorts' THEN "idle" ELSE "ports"
      /\ sent' = Nothing
      /\ UNCHANGED <<mConfig, mThread, mTerminate, mOutgoingTable, mIncommingTable,
                     pc, loc, fault, expired>>

StopBegin ==
  /\ main = "idle" /\ fault = "none"
  /\ mTerminate' = TRUE
  /\ main' = "joinPublic"
  /\ sent' = Nothing
  /\ UNCHANGED <<mConfig, mThread, tables, pc, loc, fault, expired>>

StopJoinPublic ==
  /\ main = "joinPublic" /\ fault = "none" /\ mThread["public"] # "loop"
  /\ main' = "joinPrivate"
  /\ sent' = Nothing
  /\ UNCHANGED <<mConfig, mThread, mTerminate, tables, pc, loc, fault, expired>>

StopJoinPrivate ==
  /\ main = "joinPrivate" /\ fault = "none" /\ mThread["private"] # "loop"
  /\ main' = "idle"
  /\ Stop
  /\ expired' = 0
  /\ UNCHANGED <<mTerminate, pc, loc, fault>>

-----------------------------------------------------------------------------
(* The steps of a capture thread.                                          *)

\* Thread t goes from one label to another, with the locals of its handler.
Goes(t, from, to) ==
  /\ mThread[t] = "loop" /\ fault = "none"
  /\ pc[t] = from
  /\ pc' = [pc EXCEPT ![t] = to]

Silent == sent' = Nothing /\ UNCHANGED <<life, fault, expired>>
Quiet  == Silent /\ UNCHANGED tables

Keeps(t)      == UNCHANGED loc
Sets(t, l)    == loc' = [loc EXCEPT ![t] = l]

\* Items that leave a table take the references to them along.
Dies(r, K) == IF r.key \in K THEN [r EXCEPT !.live = FALSE] ELSE r

DropIncomming(K) ==
  /\ mIncommingTable' = Without(mIncommingTable, K)
  /\ loc' = [u \in Threads |-> [loc[u] EXCEPT !.inRef = Dies(@, K)]]

DropOutgoing(K) ==
  /\ mOutgoingTable' = Without(mOutgoingTable, K)
  /\ loc' = [u \in Threads |-> [loc[u] EXCEPT !.outRef = Dies(@, K)]]

Fault(t, from, how) ==
  /\ mThread[t] = "loop" /\ fault = "none"
  /\ pc[t] = from
  /\ fault' = how
  /\ sent' = Nothing
  /\ UNCHANGED <<tables, life, pc, loc, expired>>

\* Mutant: mTerminate is looked at before the first packet only.
TestOnce(t) ==
  /\ mThread[t] = "loop" /\ fault = "none" /\ pc[t] = "test"
  /\ pc' = [pc EXCEPT ![t] = "wait"]
  /\ Sets(t, NoPacket)
  /\ sent' = Nothing
  /\ UNCHANGED <<tables, life, fault, expired>>

\* The loop: mTerminate is looked at between packets only, and GetMsg waits for
\* a packet or gives up.
Test(t) ==
  /\ mThread[t] = "loop" /\ fault = "none" /\ pc[t] = "test"
  /\ IF mTerminate
     THEN mThread' = [mThread EXCEPT ![t] = "exited"] /\ UNCHANGED pc
     ELSE pc' = [pc EXCEPT ![t] = "wait"] /\ UNCHANGED mThread
  /\ Sets(t, NoPacket)
  /\ sent' = Nothing
  /\ UNCHANGED <<tables, mConfig, mTerminate, main, fault, expired>>

GetNoMsg(t) == Goes(t, "wait", "test") /\ Quiet /\ Keeps(t)

\* What the loop traces behind every packet: mOutgoingTable.ToString(), then
\* mIncommingTable.ToString().  Between two labels a walk is under way.
Traces(t) ==
  /\ Goes(t, "listOut", "listIn") \/ Goes(t, "listIn", "test")
  /\ Quiet /\ Keeps(t)

\* A call of another thread that inserts or removes under a walk tears it.  (An
\* insertion that finds its identifier writes LastTraffic only, which is not traced.)
Changes(label) ==
  \/ label = "listOut" /\ DOMAIN mOutgoingTable' # DOMAIN mOutgoingTable
  \/ label = "listIn" /\ DOMAIN mIncommingTable' # DOMAIN mIncommingTable

Tears == torn' = {t \in Threads : pc'[t] = pc[t] /\ (t \in torn \/ Changes(pc[t]))}

GetOutPacket(pk) ==
  /\ expired < MaxTimeouts
  /\ Goes("private", "wait", "findOut")
  /\ Sets("private", [Locals(pk) EXCEPT !.key = KeyOf(pk)])
  /\ Quiet

GetInPacket(pk) ==
  /\ expired < MaxTimeouts
  /\ Goes("public", "wait", "findIn")
  /\ Sets("public", Locals(pk))
  /\ Quiet

-----------------------------------------------------------------------------
(* What the handlers share: an entry of the outgoing table, found, timed   *)
(* out or refreshed.                                                       *)

\* FindItem(outgoingPk).  The public thread makes the key of the item its
\* inRef points at.
FindOut(t, to, missing) ==
  LET d   == mIncommingTable[loc[t].inRef.key]
      key == IF t = "private" THEN loc[t].key
             ELSE OutgoingPk(d.ip, d.port, loc[t].pk.src, loc[t].pk.sport)
      found == key \in DOMAIN mOutgoingTable
      l == [loc[t] EXCEPT !.key = key]
  IN  /\ t = "public" => loc[t].inRef.live
      /\ Goes(t, "findOut", IF found THEN to ELSE missing)
      /\ IF found
         THEN Sets(t, [l EXCEPT !.outIdx = Position(mOutgoingTable, key)])
         ELSE \E ini \in (IF t = "private" THEN Starts ELSE {0}) :
                Sets(t, [l EXCEPT !.ini = ini, !.i = ini])
      /\ Quiet

GetOut(t) ==
  /\ Held(mOutgoingTable, loc[t].outIdx)
  /\ Goes(t, "getOut", "check")
  /\ Sets(t, [loc[t] EXCEPT !.outRef = Ref(At(mOutgoingTable, loc[t].outIdx))])
  /\ Quiet

\* Now - LastTraffic, Now having been read when the handler began: a later
\* LastTraffic wraps around to a long time.
Elapsed(t)  == mOutgoingTable[loc[t].outRef.key].age - loc[t].late
TimedOut(t) == Elapsed(t) < 0 \/ Elapsed(t) >= Timeout

Check(t) ==
  LET e == mOutgoingTable[loc[t].outRef.key]
      refresh == t = "private" \/ mConfig.mIncommingRefreshTimeout
  IN  /\ loc[t].outRef.live
      /\ Goes(t, "check", CASE TimedOut(t) -> "clean"
                            [] ~TimedOut(t) /\ refresh -> "refresh"
                            [] OTHER -> "send")
      /\ Sets(t, [loc[t] EXCEPT !.late = 0,
                    !.inKey = IF t = "private"
                              THEN IncommingPk(loc[t].pk.dst, loc[t].pk.dport, e.ip, e.port)
                              ELSE @])
      /\ expired' = IF TimedOut(t) THEN expired + 1 ELSE expired
      /\ sent' = Nothing
      /\ UNCHANGED <<tables, life, fault>>

CleanEntry(t) ==
  /\ loc[t].outRef.live
  /\ Goes(t, "clean", "free")
  /\ DropIncomming(Cleaned(mIncommingTable, loc[t].outRef.key))
  /\ Silent /\ UNCHANGED <<mOutgoingTable, mAvailablePorts>>

FreeEntry(t) ==
  LET e == mOutgoingTable[loc[t].outRef.key]
  IN  /\ loc[t].outRef.live
      /\ Goes(t, "free", "remove")
      /\ mAvailablePorts' = FreePort(e.ip, e.port)
      /\ Silent /\ UNCHANGED <<mOutgoingTable, mIncommingTable>> /\ Keeps(t)

\* Remove(Idx) and UpdateLastTrafficTime(Idx) take whatever stands there now.
RemoveEntry(t) ==
  /\ Goes(t, "remove", "listOut")
  /\ DropOutgoing(IF Held(mOutgoingTable, loc[t].outIdx)
                  THEN {At(mOutgoingTable, loc[t].outIdx)} ELSE {})
  /\ Silent /\ UNCHANGED <<mIncommingTable, mAvailablePorts>>

RefreshEntry(t) ==
  /\ Goes(t, "refresh", "send")
  /\ IF Held(mOutgoingTable, loc[t].outIdx)
     THEN UpdateLastTrafficTime(At(mOutgoingTable, loc[t].outIdx))
     ELSE UNCHANGED mOutgoingTable
  /\ Silent /\ UNCHANGED <<mIncommingTable, mAvailablePorts>> /\ Keeps(t)

-----------------------------------------------------------------------------
(* The public thread.                                                      *)

FindIn ==
  LET key   == FilterKey(loc["public"].pk)
      found == key \in DOMAIN mIncommingTable
  IN  /\ Goes("public", "findIn", IF found THEN "getIn" ELSE "listOut")
      /\ Sets("public", [loc["public"] EXCEPT
           !.inKey = key, !.inIdx = IF found THEN Position(mIncommingTable, key) ELSE 0])
      /\ Quiet

GetIn ==
  /\ Held(mIncommingTable, loc["public"].inIdx)
  /\ Goes("public", "getIn", "findOut")
  /\ Sets("public", [loc["public"] EXCEPT !.inRef = Ref(At(mIncommingTable, loc["public"].inIdx))])
  /\ Quiet

SendIn ==
  LET l == loc["public"]
      d == mIncommingTable[l.inRef.key]
  IN  /\ l.inRef.live
      /\ Goes("public", "send", "listOut")
      /\ Emit(l.pk.src, l.pk.sport, d.ip, d.port)
      /\ UNCHANGED <<tables, life, loc, fault, expired>>

-----------------------------------------------------------------------------
(* The private thread.                                                     *)

P == loc["private"]

\* The address tried now.  A round over the addresses ends at the one it began
\* with; what follows depends on which round it was.
IP == IPAt(0, P.i)

AfterRound(round) ==
  CASE round = "search" /\ mConfig.mPortOverloading -> "share"
    [] round = "search" /\ ~mConfig.mPortOverloading /\ mConfig.mPortPreservation -> "again"
    [] round = "again" -> "any"
    [] OTHER -> "listOut"

\* Mutant: the port is returned before its bit is set.
TakesUnmarked(from, port, ports) ==
  /\ Goes("private", from, "bind")
  /\ Sets("private", [P EXCEPT !.ip = IP, !.port = port, !.fresh = TRUE,
                               !.inKey = IncommingPk(P.pk.dst, P.pk.dport, IP, port)])
  /\ Quiet

Takes(from, port, ports) ==
  /\ Goes("private", from, "bind")
  /\ Sets("private", [P EXCEPT !.ip = IP, !.port = port, !.fresh = TRUE,
                               !.inKey = IncommingPk(P.pk.dst, P.pk.dport, IP, port)])
  /\ mAvailablePorts' = ports
  /\ Silent /\ UNCHANGED <<mOutgoingTable, mIncommingTable>>

GoesOn(round, ports) ==
  LET next  == (P.i + 1) % N
      first == IF AfterRound(round) = "share" THEN P.ini ELSE 0
  IN  /\ \/ /\ next # P.ini
            /\ Goes("private", round, round)
            /\ Sets("private", [P EXCEPT !.i = next])
         \/ /\ next = P.ini
            /\ Goes("private", round, AfterRound(round))
            /\ Sets("private", [P EXCEPT !.i = first, !.ini = first])
      /\ mAvailablePorts' = ports
      /\ Silent /\ UNCHANGED <<mOutgoingTable, mIncommingTable>>

TrySamePort(round) ==
  \/ IsFree(IP, P.pk.sport) /\ Takes(round, P.pk.sport, ReserverPort(IP, P.pk.sport))
  \/ ~IsFree(IP, P.pk.sport) /\ GoesOn(round, mAvailablePorts)

TryAnyPort(round) ==
  \/ \E port \in Ports : Obtains(IP, port) /\ Takes(round, port, ReserveFirst({}, IP, port))
  \/ Exhausted(IP) /\ GoesOn(round, Exhaust({IP}))

SearchPort ==
  \/ SamePort /\ TrySamePort("search")
  \/ ~SamePort /\ TryAnyPort("search")
  \/ TrySamePort("again")
  \/ TryAnyPort("any")

deletePk == IncommingPk(P.pk.dst, P.pk.dport, IP, P.pk.sport)

SharePort ==
  \/ /\ Goes("private", "share", "unlist")
     /\ DropIncomming(Cleaned(mIncommingTable, deletePk))
     /\ Silent /\ UNCHANGED <<mOutgoingTable, mAvailablePorts>>
  \/ /\ Goes("private", "unlist", "reserve")
     /\ DropOutgoing({deletePk})
     /\ Silent /\ UNCHANGED <<mIncommingTable, mAvailablePorts>>
  \/ Takes("reserve", P.pk.sport, ReserverPort(IP, P.pk.sport))

\* Mutant: the earlier entry is deleted whether or not ports are overloaded.
AdmittingAlways == "delete"

\* Mutant: the earlier entry is never deleted.
AdmittingBehind == "admit"

\* With overloading an earlier entry of the key is deleted first.
Admitting == IF mConfig.mPortOverloading THEN "delete" ELSE "admit"

BindOut ==
  /\ Goes("private", "bind", Admitting)
  /\ mOutgoingTable' = InsertTraffic(mOutgoingTable, P.key,
                         [ip |-> P.ip, port |-> P.port, age |-> 0, reverse |-> P.inKey])
  /\ Silent /\ UNCHANGED <<mIncommingTable, mAvailablePorts>> /\ Keeps("private")

\* Over an existing binding the packet leaves before its answer is admitted.
SendOut ==
  LET e == mOutgoingTable[P.outRef.key]
  IN  /\ P.outRef.live
      /\ Goes("private", "send", Admitting)
      /\ Emit(e.ip, e.port, P.pk.dst, P.pk.dport)
      /\ UNCHANGED <<tables, life, loc, fault, expired>>

DeleteIn ==
  /\ Goes("private", "delete", "admit")
  /\ DropIncomming({P.inKey})
  /\ Silent /\ UNCHANGED <<mOutgoingTable, mAvailablePorts>>

AdmitIn ==
  /\ Goes("private", "admit", IF P.fresh THEN "sendNew" ELSE "listOut")
  /\ mIncommingTable' = InsertTraffic(mIncommingTable, P.inKey,
                          [ip |-> P.pk.src, port |-> P.pk.sport, reverse |-> P.key])
  /\ Silent /\ UNCHANGED <<mOutgoingTable, mAvailablePorts>> /\ Keeps("private")

SendNew ==
  /\ Goes("private", "sendNew", "listOut")
  /\ Emit(P.ip, P.port, P.pk.dst, P.pk.dport)
  /\ UNCHANGED <<tables, life, loc, fault, expired>>

-----------------------------------------------------------------------------
(* Undefined behaviour and the end of the process.                         *)

Dangles(t) ==
  \/ ~loc[t].outRef.live /\ \E from \in {"check", "clean", "free"} : Fault(t, from, "dangling")
  \/ t = "private" /\ ~loc[t].outRef.live /\ Fault(t, "send", "dangling")
  \/ t = "public" /\ ~loc[t].inRef.live
       /\ \E from \in {"findOut", "send"} : Fault(t, from, "dangling")

Throws(t) ==
  \/ ~Held(mOutgoingTable, loc[t].outIdx) /\ Fault(t, "getOut", "throw")
  \/ ~Held(mIncommingTable, loc[t].inIdx) /\ Fault(t, "getIn", "throw")

\* A torn walk reads an array or an item that was deleted, or a place that is not an item's.
Strays(t) == t \in torn /\ \E from \in {"listOut", "listIn"} : Fault(t, from, "torn")

Ended == fault # "none" /\ UNCHANGED tvars

-----------------------------------------------------------------------------
\* A handler that has read Now and not yet compared it.
HoldsNow(t) == pc[t] \in {"findIn", "getIn", "findOut", "getOut", "check"}

ClockTick ==
  /\ fault = "none"
  /\ \A o \in DOMAIN mOutgoingTable : mOutgoingTable[o].age < MaxAge
  /\ \A t \in Threads : HoldsNow(t) => loc[t].late < MaxLate
  /\ mOutgoingTable' = [o \in DOMAIN mOutgoingTable |-> [mOutgoingTable[o] EXCEPT !.age = @ + 1]]
  /\ loc' = [t \in Threads |-> [loc[t] EXCEPT !.late = IF HoldsNow(t) THEN @ + 1 ELSE @]]
  /\ sent' = Nothing
  /\ UNCHANGED <<life, mIncommingTable, mAvailablePorts, pc, fault, expired>>

CaptureThread(t) ==
  \/ Test(t)
  \/ GetNoMsg(t)
  \/ Traces(t)
  \/ FindOut(t, "getOut", IF t = "private" THEN "search" ELSE "send")
  \/ GetOut(t)
  \/ Check(t)
  \/ CleanEntry(t)
  \/ FreeEntry(t)
  \/ RemoveEntry(t)
  \/ RefreshEntry(t)
  \/ Dangles(t)
  \/ Throws(t)
  \/ Strays(t)

PublicThread ==
  \/ \E pk \in InPackets : GetInPacket(pk)
  \/ FindIn
  \/ GetIn
  \/ SendIn
  \/ CaptureThread("public")

PrivateThread ==
  \/ \E pk \in OutPackets : GetOutPacket(pk)
  \/ SearchPort
  \/ SharePort
  \/ BindOut
  \/ SendOut
  \/ DeleteIn
  \/ AdmitIn
  \/ SendNew
  \/ CaptureThread("private")

MainThread ==
  \/ \E c \in Configs, outcome \in {"none", "loop", "exited"} : StartPublic(c, outcome)
  \/ \E outcome \in {"none", "loop", "exited"} : StartPrivate(outcome)
  \/ StartPorts
  \/ StopBegin
  \/ StopJoinPublic
  \/ StopJoinPrivate

ThreadsNext ==
  \/ PublicThread /\ Tears
  \/ PrivateThread /\ Tears
  \/ MainThread /\ Tears
  \/ ClockTick /\ Tears
  \/ Ended

\* The scheduler runs every thread; Start and Stop are called by choice, but
\* once called they go on.
ThreadsSpec ==
  /\ ThreadsInit /\ [][ThreadsNext]_tvars
  /\ WF_tvars(PublicThread /\ Tears) /\ WF_tvars(PrivateThread /\ Tears)
  /\ WF_tvars(StopJoinPublic /\ Tears) /\ WF_tvars(StopJoinPrivate /\ Tears)

-----------------------------------------------------------------------------
(* Properties.                                                             *)

Locally ==
  [pk : [src : Nat, sport : Nat, dst : Nat, dport : Nat], late : 0 .. MaxLate,
   key : TrafficId, inKey : TrafficId, outIdx : Nat, inIdx : Nat,
   outRef : [key : TrafficId, live : BOOLEAN], inRef : [key : TrafficId, live : BOOLEAN],
   ini : 0 .. (N - 1), i : 0 .. (N - 1), ip : NatIPs \cup {NoIP}, port : Ports,
   fresh : BOOLEAN]

PrivateLabels == {"test", "wait", "findOut", "getOut", "check", "clean", "free", "remove",
                  "refresh", "send", "search", "again", "any", "share", "unlist", "reserve",
                  "bind", "delete", "admit", "sendNew", "listOut", "listIn"}
PublicLabels  == {"test", "wait", "findIn", "getIn", "findOut", "getOut", "check", "clean",
                  "free", "remove", "refresh", "send", "listOut", "listIn"}

\* The type of every variable.
ThreadsTypeOK ==
  /\ mConfig \in Configs
  /\ mThread \in [Threads -> {"none", "loop", "exited"}]
  /\ mTerminate \in BOOLEAN
  /\ main \in {"idle", "started", "failed", "ports", "joinPublic", "joinPrivate"}
  /\ IsTable(mOutgoingTable, [ip : NatIPs, port : Ports, reverse : TrafficId,
                              age : 0 .. MaxAge])
  /\ IsTable(mIncommingTable, Target)
  /\ DOMAIN mAvailablePorts \subseteq NatIPs
  /\ mAvailablePorts \in [DOMAIN mAvailablePorts -> SUBSET Bits]
  /\ pc["private"] \in PrivateLabels /\ pc["public"] \in PublicLabels
  /\ loc \in [Threads -> Locally]
  /\ fault \in {"none", "dangling", "throw", "torn"} /\ torn \subseteq Threads
  /\ expired \in Nat

\* Until a timeout is declared, and without overloading, no index runs out of its
\* table and no reference outlives its item, however the calls interleave: the one
\* way to undefined behaviour is that the private thread adds an entry to a table
\* while the public thread traces it.  The private thread's own walks are never torn
\* until then, with overloading neither.
NoFault ==
  expired = 0 =>
    /\ "private" \notin torn
    /\ Exclusive => fault = "none" \/ (fault = "torn" /\ torn = {"public"})

\* The public thread's trace, "Refresh traffic time for outgoing entry", with
\* the addresses of outgoingPk (NATSim.cpp:688), is true of the entry at Idx2,
\* which it refreshes.
RefreshesTracedEntry ==
  pc["public"] = "refresh" =>
    /\ Held(mOutgoingTable, loc["public"].outIdx)
    /\ At(mOutgoingTable, loc["public"].outIdx) = loc["public"].key

\* Until then, without overloading: what is bound is reserved, and what is
\* reserved below MaxPort is bound or about to be.
PortsHeld ==
  expired = 0 /\ Exclusive =>
    /\ \A o \in DOMAIN mOutgoingTable :
         /\ mOutgoingTable[o].ip \in DOMAIN mAvailablePorts
         /\ mOutgoingTable[o].port \in mAvailablePorts[mOutgoingTable[o].ip]
    /\ \A ip \in DOMAIN mAvailablePorts : \A port \in mAvailablePorts[ip] :
         \/ port >= MaxPort
         \/ \E o \in DOMAIN mOutgoingTable : Endpoint(o) = <<ip, port>>
         \/ pc["private"] = "bind" /\ <<P.ip, P.port>> = <<ip, port>>

\* Until then two flows never share a public endpoint, at any point of a handler.
FreshBindingExclusive == expired = 0 => BindingExclusive

\* An answer to pk finds its way back: through the incoming table to its sender,
\* over a binding that is still there.
Answered(pk, ip, port) ==
  LET answer == [src |-> pk.dst, sport |-> pk.dport, dst |-> ip, dport |-> port]
      e == mIncommingTable[FilterKey(answer)]
  IN  /\ FilterKey(answer) \in DOMAIN mIncommingTable
      /\ <<e.ip, e.port>> = <<pk.src, pk.sport>>
      /\ BindingKey(answer) \in DOMAIN mOutgoingTable

\* So it is once the handler of a packet is done, whatever the public thread, Start
\* and Stop did between its calls, until a timeout is declared.  Left out is a NAT that
\* neither translates nor overloads: all its flows have the same, empty key.
AnsweredWhenDone ==
  [][expired = 0 /\ (mConfig.mPortOverloading \/ mConfig.mMappingBehavior # "NotNated")
     /\ pc["private"] \in {"admit", "sendNew"} /\ pc'["private"] = "listOut" =>
       Answered(P.pk, P.inKey[3], P.inKey[4])']_tvars

\* Stop returns, unless the process came to grief: each thread gets round to
\* looking at mTerminate.
StopReturns == main = "joinPublic" ~> main = "idle" \/ fault # "none"
================================================================================
