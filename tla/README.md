# A TLA+ development of NATDetector

NATDetector captures and sends UDP packets in order to (a) *simulate* NATs of any
behaviour on one machine, (b) run a STUN server with two addresses and ports, and
(c) run the client-side *requirement tests* that tell from STUN answers how the NAT in
between maps, filters, refreshes, pools addresses and overloads ports. A Windows program
(`NATSimulator`) draws a topology, writes a configuration file per NAT, server and test,
and starts all three.

This directory holds TLA+ modules translated from `src/`, TLC configurations, and TLAPS
proofs. Below, `D/` stands for `src/Win_NatDetector/NATSimulator/`, and a file without
a path is in `src/Source/`.

## 1. Inventory

| Component | Source | State | Operations | Interacts with |
|---|---|---|---|---|
| Simulated NAT | `NATSim.cpp/.h` | configuration flags, two thread handles, outgoing and incoming table, port arrays | `Start`, `Stop`, `readNatConfig`, `TreatOutgoingPacket` (private thread), `TreatIncommingPacket` (public thread) | capture (packets in), raw sender (packets out), tables and port arrays (shared by both threads), advise callbacks to the editor |
| Translation table | `NATSimTrafficTable.cpp`, `NATSimTrafficId.cpp` | array of (id, IP, port, reverse id, last traffic) ordered by id | `InsertTraffic`, `DeleteTraffic`, `UpdateLastTrafficTime`, `Clean` | inherits `CIdTbl` |
| Ordered table | `UtilTemplates.h` `CIdTbl` | `m_Tbl`, `m_Elements`, `m_Size`, a recursive lock | `FindItem`, `GetItem`, `GetId`, `Insert`, `Modify`, `Remove`, `RemoveAll`, `IncreaseSize`, assignment | base of the tables, the port arrays, message attributes |
| Port arrays | `NATSimPortsArray.cpp` | one byte array of reserved bits per public address | `InsertIP`, `IsFree`, `ReserverPort`, `FreePort`, `ReserveFirstAvailablePort` | both handlers |
| Queues | `UtilTemplates.h` `CQueue`, `STUNQueue`, `CaptureQueue` | linked list and lock | `Insert`, `Get`, `RemoveAll` | capture thread to its reader |
| Packet capture | `CaptureApi.cpp` | pcap handle, filter, thread, queue | three forms of `Start`, `Stop`, `GetMsg` with a timeout, the capturing thread | NAT threads, STUN server, client transactions |
| Raw sender | `RawSocket.cpp` | handle, buffers | `CreateSender`, `Send`, `TerminateSender` | everybody who sends |
| STUN server | `STUNServer.cpp` | addresses, thread, the last CHANGE-REQUEST flags | `Start`, `Stop`, the server loop | capture, sender, messages |
| STUN client transaction | `STUNClientTransaction.cpp` | sender, capture | `Create`, `SendAndReceive` (3 sends), `Receive`, `Terminate` | requirement tests, server, NAT |
| Requirement tests | `NATReq1/2/3/6/8.cpp` | verdict | `Test` | transactions; threads of their own (3 and 6) |
| STUN messages | `STUN*.cpp` | header and attribute table | build, validate, encode, decode | server and client |
| Topology editor, test driver | `D/NATSimulatorDoc.cpp`, `D/NATSimulatorView.cpp`, `D/*Dlg.cpp` | elements, links, canvas, running tests | insert, link, delete, dialogs, save and open, `CreateConfigFiles`, `ThreadTest` | starts and stops NATs, server, tests |
| Configuration files | `UtilConfigFile.cpp` | lines of a file | `GetString`, `GetLong`, `GetStringList` | written by the editor, read by NAT, server, tests |
| Strings, bytes, trace, lock | `Util*.cpp` | | | everybody |
| Address and bind tables | `NATSimAddr*.cpp`, `NATSimBindTable.cpp` | | | unused |
| Console test program | `Win_NatDetector/Test/Main.cpp` | none | a menu, commented out | |

What makes each correct, and what is hard about it:

- **Simulated NAT.** No two flows share a public address and port (unless overloading
  says so); a port is reserved exactly while it is bound; the incoming table admits
  exactly what the filtering behaviour says of live bindings; an answer reaches whoever
  asked. Hard: a binding lives in three structures which two threads change in several
  calls each; timeouts are found lazily, by whichever packet comes first; the `Clean` that
  undoes a binding has a loop that skips elements; nine combinations of behaviours, times
  the flags, share one handler.
- **Tables.** The array stays ordered, the search ends and finds, the allocation suffices,
  `Clean` removes what its caller relies on.
- **Queue and capture.** What `GetMsg` returns was captured in this session, in its
  order; `Stop` returns and nobody reads a closed handle. Hard: two threads at the one
  node of a short list; a `Start` that fails half way; a queue kept from session to session.
- **Messages.** What is decoded is what was encoded, and the decoder ends. Hard: lengths,
  offsets and masks, in variables of one byte.
- **Server, transaction, tests.** A test's verdict is that of the NAT it looks through,
  in spite of lost packets, retries, late answers, parts that do not come up and bindings
  the test itself makes.
- **Editor and driver.** Links stay mutual, canvas and document agree, files say what was
  drawn, a test tests what was chosen. Hard: everything is found by index, and indices
  move with every deletion while tests run in other threads.

## 2. Modules

| Module | Models | State and code |
|---|---|---|
| `TrafficTable` | traffic identifiers and a table as a function; what `Clean`'s loop removes | no state; used by all |
| `NATSim` | `CNATSim` with its port arrays | variables have the members' names; `mThread` is handle and loop of the two threads together; `sent` is the packet the last handler emitted |
| `NATSimThreads` | the same NAT, extending `NATSim`, with the handlers cut at their table calls and `Start`/`Stop` at creating and joining threads | `pc`, `loc`: where each capture thread stands and its handler's locals; `main`: the thread that calls `Start` and `Stop`; `fault`; `torn`: the threads whose walk over a table the other one changed; `expired` is auxiliary |
| `TrafficMap` | the abstract table: one atomic map operation each, with its answer | |
| `IdTbl` | `CIdTbl` and `CNATSimTrafficTable` on the array | `m_Tbl`, `m_Size`; `cleaning` is the local state of `Clean`'s loop |
| `FindItem` | the half-splitting search, a step per turn | locals of `FindItem`; `pc` |
| `Fifo` | the abstract queue | |
| `Queue` | `CQueue`, one action per assignment under the lock | `m_First`, `m_Last`, `Next_`, `Prev`, `pData`, `live`; `order` is auxiliary |
| `Capture` | `CCaptureApi`, extending `Queue`: owner and capture thread | members' names; `mpc`, `rpc`: where owner and reader stand; `mFp`: the filter as the packets it passes; `left`, `earlier` are auxiliary: the addresses of failed `Start`s that stay, and the packets an earlier session left |
| `STUNMsg` | messages as wholes: build, validate, encode, decode | no state |
| `Codec` | `CSTUNMsg`, `CSTUNAttribute` and their decoders on bytes, with the IP and UDP headers a message travels in | `msg` being built, `sent` bytes, `res` being decoded, `offset`, `stage`; extends `STUNMsg` |
| `Session` | a client, one of the five tests, `CSTUNClientTransaction`, a network, `NATSim`, `CSTUNServer` | `phase`, `step`: where the test stands; `me`: the endpoints captured; `net`: packets in flight; `server`; `report` |
| `Topology` | `CNATSimulatorDoc`: elements, links, documents, files, the threads of a test | `mArrayElements`, `element`, `file`, `thread` |
| `Editor` | what `Topology` leaves out: addresses, options, dialogs, canvas, saved lines, configuration lines and their readers; extends `Topology` | `data`, `mListCtrlCanvas`, counters of the `InitIPAdrress` family, `read`: what the parts of a test got from their files |
| `MC*` | instances for TLC | |
| `*Proofs` | theorems | |

How they fit. `NATSim` uses the table as a function (`TrafficTable`). `IdTbl` shows that
the array does what `TrafficMap`, written with the same operators, says; in particular
that `Clean`'s skipping loop removes exactly `Cleaned`. `IdTbl` in turn uses the search as
the relation `Finds`, which `FindItem` establishes. `Capture` is `Queue` and its two users,
and implements `Fifo`, which is how `Session` sees a capture. `Codec` implements `STUNMsg`,
which is how `Session` sees a message. `Session` contains the whole of `NATSim`: the tests
are run through the NAT's own handlers, not through a description of what a NAT does.
`Editor` contains `Topology`; what it writes is read by the readers of NAT, server and tests.

Abstractions. An IP address is the rank of its string under `strcmp` (all the tables
compare); `""` is 0 and `"0.0.0.0"` is 1; only `Codec` has addresses of four bytes. A clock
reading is replaced by the age of each outgoing entry, capped at `Timeout`. `LastTraffic` of
incoming entries is written and never read, and is left out. A packet's payload does not
matter to the NAT. The callbacks `mAdvise*Function` change nothing but marks on the canvas
(`Editor`). In `NATSim` packets are taken in any order, any number of times, or not at all;
a handler is one step, taken while no other handler runs; a `Start` may meet any outcome of
`pthread_create`, capture and sender. The configuration changes only while no thread exists,
as in the program's own drivers.

`NATSimThreads` gives that atomicity up. A table is locked for the length of one call, so one
call is one action, with one exception: `ToString`, which both threads call for both tables
after each packet to trace them, takes no lock and is a walk that begins at one label
(`listOut`, `listIn`) and ends at the next. What the other thread inserts or removes meanwhile
tears it (`torn`), and a torn walk comes to its end or, as undefined behaviour may, to a fault.
Between two calls the other thread may do anything: an index found
by `FindItem` is used later by `GetItem`, `Remove`, `UpdateLastTrafficTime`; the references
`TrafficData` and `TrafficData2` die with their items (`live`); `Now` is read at the start
of a handler, and `late` counts the ticks since, so that `Elapsed` may be negative, which as
an unsigned difference is a timeout. Using a dead reference is undefined behaviour and a
`throw;` without an exception ends the process; the model records these, and a torn walk's
end, in `fault` and stops. Reading a free port and reserving it are one step, since only the private thread
reserves. `Start` creates the public thread, then the private one, then hands out the port
arrays address by address, with both threads running.

`Session` has packets that are lost (at most `MaxLost`), overtake each other, and are
answered late (`Late`); parts that do not come up (at most `MaxFails`: a client's `Create`,
a capture that cannot be prepared although `Start` says it was, a thread of NATReq3 or NATReq6, the
server's capture or sender); a server that sets up its capture in its own thread after the
test may have begun, and is joined at the end. Time passes while NATReq6 sleeps.

In `Topology` a test's thread goes through phases with the user's actions in between: up to
its dialog (`StartTest`); the answer and `CreateConfigFiles` (`Confirm`, or `Cancel`); the
raising of `mTesting` (`SetTesting`, `NATSimulatorDoc.cpp:1288`); the start of the parts
(`Run`); and their end (`End`). `CreateConfigFiles` is one step: the files it writes have the
same names in every test and an edit in the midst of writing them is not modelled. While the
dialog is open or the files are written `mTesting` is down, so the user may close the document
(`OnCloseDocument`). The thread then goes on with deleted elements; this is undefined, and the
model records it (`Stray`) and opens no document after it.

## 3. Runs

Configurations replace no definition. Where `CHECK_DEADLOCK FALSE` is given, the system
really stops: a capture object that was destroyed, a session that is over, a message that is
decoded, a user who does nothing more within the bounds.

| Run | Question | Bounds and why they suffice |
|---|---|---|
| `nat` (`MCNATSim`) | are endpoints exclusive, do tables, filters and ports stay in step, do answers arrive? | two private hosts with one port, two public hosts with two, two public addresses with ports 0 and 1: flows of one host with equal and different far ends, ports that run out on one address, then on both, and are reused after a timeout; Timeout 2 so that a refresh can come between. `NATConfigs`: filters no finer than the mapping, finer ones, no mapping, overloading |
| `nat_threads` (`MCNATSimThreads`) | what survives any interleaving of the two handlers, `Start` and `Stop` | one public host and one port on each side, so that two flows compete for one public port (`MaxPort` 1); five configurations: preservation and plain search, refreshing and plain public thread, a filter as fine as the mapping, coarser and finer, overloading. `MaxAge`, `MaxLate`, `MaxTimeouts` 1: an entry can time out before or after `Now` was read, and after the first declared timeout no packet is taken until `Stop` |
| `nat_refresh` (`MCNATSimThreads`) | does the public thread refresh the entry it names? **Violated** | two flows, two ports; no clock, so no timeout is needed |
| `find_item` (`MCFindItem`) | does the search end and find? | all arrays of five identifiers' subsets, eleven searched identifiers around them, initial Idx 0 or garbage |
| `id_tbl` (`MCIdTbl`) | does the array implement the map? | four identifiers: a run of three neighbours for `Clean`, room for two growths of step 2; other tables to assign, empty, half full and full. The view leaves out `reply`, which no action reads |
| `capture` (`MCCapture`) | is the queue a FIFO queue at every assignment, does a capture serve its own session, do `Stop` and `GetMsg` return? | two nodes, so that the list is empty, has one node that is first and last, and has two; three packets, of two addresses and two ports; sessions with ports and without; one failed `Start`; one turn of the poll's clock (`MaxTurns`). 885 213 states |
| `session` (`MCSession`) | is each test's verdict the NAT's configuration, does every test end? | two clients, two server addresses with two ports, two NAT addresses, three client ports of which a test uses consecutive ones; two losses, so that the third sending is needed; one failed part; sleeps below and at `Timeout`; every combination of behaviours and flags a test looks at (`AllConfigs`). 231 127 states |
| `session_late` (`MCSession`) | is an answer that of the request under way, when it may take longer than one wait? **Violated** | one configuration, no loss |
| `codec` (`MCCodec`) | is what arrives what was sent, does the decoder end? | two addresses, two ports and transaction ids with bits in common in every byte; texts of another server so that messages have 88, 252 and 256 bytes: below, at and beyond what an offset of one byte can reach. 761 805 states |
| `topology` (`MCTopology`) | do links stay mutual, files add up to routes, tests use what was chosen, documents stay open? | three elements of four types and two links: a NAT behind a NAT, a client and a server at one; two test threads (symmetric). 487 698 states |
| `topology_assert` (`MCTopology`) | does the index asserted in `GetItemData` always exist? **Violated** | as above with all types, no tests |
| `editor` (`MCEditor`) | does the canvas show the document, is a saved document opened as it was, do the parts read what was drawn, are the right elements marked? | three drags, one dialog, one test, one change under it, two links; options that leave the defaults in every field. The restrictions that keep it finite are named in the module: dialogs behind the last drag, NATs joined by different sides, tests of one client, started only when a client and a server exist. 611 133 states |

### What the properties say, and under which conditions

- `BindingExclusive`, `PortsAccounted`, `TablesMirror`, `ReplyReachesSender`,
  `OnlyOverLiveBinding` (`nat`). The last three carry conditions on the configuration, which
  say something of the code in their own right: when the filter is *finer* than the mapping,
  a binding has several incoming entries, neighbours in the table, and `Clean` leaves every
  second one; the handler then forwards without a binding. When the filter is *coarser*, one
  incoming entry stands for several bindings' far ends and packets pass that the outgoing
  table cannot account for.
- `NoFault`, `PortsHeld`, `FreshBindingExclusive`, `AnsweredWhenDone`, `StopReturns`
  (`nat_threads`). The first four hold *until a timeout is declared* (`expired = 0`); the
  first two without overloading. `NoFault` does not say that there is no undefined behaviour
  until then, for there is: the public thread traces a table while the private thread inserts
  into it and replaces the array (`NATSim.cpp:102`, `NATSimTrafficTable.cpp:124`), and the run
  reaches that fault. It says that this is the only way: no index, no reference, and no walk of
  the private thread, next to which nobody inserts. With a timeout the private thread frees a port and removes
  an entry in separate calls, by an index the public thread may have shifted, and TLC finds
  each of the four violated after that; with overloading `DeleteTraffic` removes an item the
  public thread may hold a reference to.
- `WellLinked`, `ImplementsFifo`, `ReadsOpenHandle`, `SessionServesItsOwn`, `StopReturns`,
  `GetMsgReturns` (`capture`). `Stop` empties the addresses but not the queue, and a `Start`
  that fails empties neither, so a session may be served more than it asked for.
  `SessionServesItsOwn` says exactly how much: behind the packets an earlier session left
  (`earlier`), the queue holds only what this `Start` asked for or what a `Start` that failed
  since the last `Stop` asked for (`left`).
- `MappingVerdict`, `FilteringVerdict`, `LifetimeVerdict`, `PoolVerdicts` (`session`) are
  claimed of NATs that translate; the mapping verdict without port overloading (three flows
  that share a port look like one endpoint), the lifetime verdict for fewer than two losses
  (the second thread of NATReq6 waits once), the others whatever is lost within the bound.
  When a part failed, the mapping test finds the truth or nothing, and the others may be
  wrong: silence reads as a filter or as expiry. `TransactionMatched` holds as long as no
  answer takes longer than a wait. `TestEnds` holds always.
- `DecodesWhatWasSent`, `ImplementsSTUNMsg`, `DecodeEnds` (`codec`) are claimed for messages
  that *fit* one byte's offset. Beyond 255 bytes the decoder's copy of the offset wraps
  (`STUNMsg.cpp:535`), and the loop may read the same attributes again and again. The
  program builds no message of that length; another server may send one.
- `LinksMutual`, `RoutesComplete`, `ChosenIsTested`, `TestKeepsDocument` (`topology`). The
  second holds for topologies without real hosts, whose NATs are linked by opposite sides and
  not through clients or servers. `ChosenIsTested` compares two counts: real hosts are counted
  when the files are written (`NATSimulatorDoc.cpp:579`) and not when the test is told what to
  use (`:1357`). Until an element comes or goes, the place of a simulated client or server
  among the files is its letter or number *plus the real hosts of its kind before it*; where
  there are none the test uses what the user chose, and every server that is started reads its
  own file. Behind a real host it does not. `TestKeepsDocument` holds from the raising of
  `mTesting` on and for tests that do not overlap: the first to end resets the flag of both.
  Before the flag nothing keeps the document open.
- `CanvasMirrors`, `AddressesDistinct`, `ConfigReachesParts`, `SavedIsOpened`,
  `MarksInvolved` (`editor`). Addresses are distinct until the user enters one or opens a
  document; the rest of the conditions are those of `topology`.

### Fairness

`NATSim` and `IdTbl` have none: nothing obliges a host to send. `NATSimThreads`: weak
fairness of each capture thread (the scheduler runs it; `GetMsg` gives up after 300
hundredths of a second, and a table call waits only for another call) and of the two joins of
`Stop`. `Capture`: weak fairness of the owner's and the reader's steps (the scheduler runs
both, and `pcap_next_ex` returns after 100 ms at the latest, packet or not); nothing obliges
the owner to call anything. `Session`: weak fairness of the client, of the server's thread,
and of packets being carried; nothing keeps a packet from being lost but `MaxLost`.
`Codec`: weak fairness of the decoder's turns, and `FindItem` of the search's: a loop that
waits for nothing. `Topology` and `Editor` have none: nothing obliges a user.

### Findings

- `nat_refresh`: the public thread looks `outgoingPk` up, and later refreshes by the index;
  the private thread inserts in between, another flow's entry is refreshed, and the trace of
  `NATSim.cpp:688` names the wrong one.
- `session_late`: `STUNMsg.h:73` says the transaction id correlates requests and responses;
  nothing compares it.
- `topology_assert`: a document with a real host is saved without it, but with the links to
  it, and opening it violates the assertion of `NATSimulatorDoc.cpp:532`.

Met while modelling, modelled as the code has them, without a run of their own:

- A reservation that fails sets the bits beyond the last port of its address, and
  `NATSim.h:79` promises more ports than `NATSimPortsArray.cpp:101` allocates.
- `addAttribute` is described as replacing an attribute; the table keeps the old one.
  `equals` is described as comparing; it compares which attributes are present.
- The X-port mask uses the id's bytes in the machine's order in one place
  (`STUNAttribute.h:296`) and in the network's in another (`STUNAttribute.cpp:436`).
- Transaction ids made in the same tick and second are equal.
- The header of `SendAndReceive` describes nine retransmissions from 100 ms on; it sends
  three times, 3 s apart (`STUNClientTransaction.cpp:77`).
- `CCaptureApi::Start` returns true when the filter could not be prepared: the client or
  server that called it hears nothing. An empty address is "every" in the trace only.
- After a failed `Create` NATReq2 does not terminate the transaction, so that later ones fail
  too. When a thread of NATReq3 could not be created, it looks at no round any more and
  reports preservation and overloading. With no answers
  at all NATReq8 reports `AddressPortDependent`.
- NATReq3 reads client B's device from A's key (`NATReq3.cpp:277`). The tests read
  `StunServerN.config`, the editor writes `STUNServerN.config` (the same file under Windows).
- A second `mHandle < 0` is asked of an unsigned handle and never true; a socket whose
  `setsockopt` failed is not closed.
- `CQueue::GetElements` leaves its lock twice (`UtilTemplates.h:166`); nothing calls it.
  Assigning a `CIdTbl` to itself empties it. `RemoveIP` of the port arrays never removes an
  address that has no reserved port; nothing calls it either.
- `GetString` takes the first line that begins with the key, so that a key which is the
  prefix of another one may meet the other's line.
- Option lines of a NAT are written twice in a saved document; reading takes the last. In a
  configuration file a second line of the assign mode is chosen by the *filtering*
  (`NATSimulatorDoc.cpp:684`); it follows the right one, and the reader takes the first.
- The counters of addresses start again when a document is opened, so that later elements
  get addresses that exist. The name of a NAT is not updated when NATs are linked. The
  position saved is not the one on the canvas. The test to run is read again after its
  confirmation, so that the combo box may change it in between.

## 4. Proofs

All theorems hold for every value of the constants under the named assumptions:
`AddressAssumption` (addresses of the three zones are distinct and are neither `""` nor
`"0.0.0.0"`), `PortAssumption`, `ConfigAssumption`, `BoundAssumption` (the bounds of
`NATSimThreads` are naturals); `TableAssumption` (the searched array is ordered),
`IdAssumption`, `StaleAssumption`, `StepAssumption`, `OtherAssumption` (a table that is
assigned is itself ordered and fits its room); `QueueAssumption`, `CaptureAssumption` (the
owner and the reader are the two threads of the queue); `SessionAssumption` (two private
hosts, two server addresses and ports, consecutive client ports, sleeps of whole ticks); `TopologyAssumption`;
`EditorAssumption` (no real hosts, whose contents are not modelled).

- `NATSimProofs`. `TypeCorrect`; `InductiveInvariant` for
  `IInv = TypeOK ∧ StoppedIsEmpty ∧ KeysFit ∧ BindingExclusive ∧ PortsAccounted ∧ TablesMirror`,
  from which `ExclusiveBindings`, `AccountedPorts`, `MirroredTables`; and the action
  properties `RepliesReachSenders`, `InOnlyOverLiveBindings`. Why the strengthening:
  exclusiveness of a new binding needs every bound port to be reserved (`PortsAccounted`);
  freeing a port keeps that only if nobody else holds it (`BindingExclusive`);
  `TablesMirror` needs that a free port has no incoming entry, which is again ports plus
  mirror; `KeysFit` ties a binding to the keys its configuration makes, and
  `StoppedIsEmpty` lets the configuration change. On a timeout the mirror shows that just
  one entry carries the reverse id, so `Clean`, in spite of its loop, removes it
  (`Run` is a singleton).
- `ThreadsProofs`: the two handlers, interleaved call by call, with `Start` and `Stop`.
  `TInv = Shared ∧ Stopped ∧ Handlers ∧ Ledger`: types; what holds while a thread is missing;
  what each handler knows at each of its labels (`TypedAt`, and `CalmAt` as long as no
  timeout was declared and ports are exclusive); and the claims themselves. The argument
  is rely and guarantee at the level of labels: until a timeout, entries are only added, so
  that an index in range stays in range and a reference stays alive (`Held`), and the one
  thread that binds owns the port between reserving and binding. An entry added *before* an
  index moves it onto another flow, which `Held` allows and `nat_refresh` shows. From `TInv`:
  `HeldPorts`, `ExclusiveWhileFresh`. `WalksTorn`, for `TornInv`, says which unlocked walks may be
  torn (until a timeout, the public thread's only) and that
  no process comes to grief in a walk that was not; with it `ThreadsTypeCorrect` and
  `NoFaultBeforeTimeout`.
  `FlowsKept` is what answers need on top, `AnswerInv`: only the private thread adds to the
  tables, so the index *it* found is its own flow's until it uses it (`FlowAt`, by label); and
  every incoming entry belongs to the owner of the binding it comes in for (`Owned`), because
  a new binding's endpoint is nobody else's. With overloading `Owned` is lost, but the key
  is deleted before it is admitted again, so that the flow just handled is answered all
  the same. Filters finer than the mapping are included: only `Clean`, on a timeout, tells
  them apart. A NAT that neither translates nor overloads is left out: the
  code's switch makes the same empty key of all its flows. Hence `HandledIsAnswered`.
- `FindItemProofs`. `SearchInvariant`, then `SearchFindsPosition`, `SearchNarrowed`,
  `SearchNarrows` (the interval shrinks at every turn: the variant of the loop).
- `IdTblProofs`. `TableOrdered`, `TableTyped`, through every operation, every turn of
  `Clean`, and assignment; and the refinement `ArrayImplementsMap`: each step on the array is
  a step of `TrafficMap` or a stutter. `FullInv = IInv ∧ CleanInv`; `CleanInv` compares the array
  with the table as it was when `Clean`'s loop began: what is gone was to go (`Cleaned`, every
  other member of a run of matching neighbours) and stood before the item the loop looks at
  next, what the loop has stepped over was to stay, and if the next item matches it is one
  to go. So the loop's last step is the map's `Clean` and the others stutter.
- `QueueProofs`. `QueueInvariant` for
  `QueueInv = QueueTypeOK ∧ MutualExclusion ∧ WellLinked ∧ Staged`, where `Staged` says what
  the thread inside the lock holds at each of its assignments; from it `QueueWellLinked`, and
  `QueueImplementsFifo`: with the contents of the list as the abstract queue, counting is the
  step that inserts, taking off the step that gets, and all others stutter.
  Of the capture object: `CaptureUsesQueue` (each step of owner and reader is a step of the queue),
  so that `CaptureImplementsFifo` and `CaptureWellLinked` follow from the queue's theorems;
  `CaptureInvariant` for `CaptureInv = QueueInv ∧ Control ∧ Served`, where `Control` ties the
  two program counters to the handle and the lock, and `Served` says
  that the filter passes nothing but what the present `Start` and those in `left` asked for,
  and that all in the queue but its first `earlier` packets passed it; from it `CaptureReadsOpenHandle` and `CaptureServesItsOwn`.
- `SessionProofs`, five layers. (1) `SessionTypesCorrect`: types of everything that is in
  flight, captured or remembered; it needs what a message carries after it was encoded and
  decoded (`RoundTrip`, `RequestArrives`, `AnswerArrives`). `SessionUsesNATSim`: a session's
  steps are the NAT's or leave it alone, so that `SessionBindings` carries `IInv` over.
  (2) `AnswersMatched`, from `OneRequest`: in a network that is not slow, packets and
  captured messages all have the number of the request under way, and but for NATReq6's
  second request there is one packet or one message at a time. (3) `MappingFound` and
  `FilteringFound`, from `FlowsKnown`, the invariant `MeantInv ∧ CountInv`. `MeantInv` ties
  four actors to the test's flows: the NAT has bound what was asked and nothing else, no
  entry has aged, an answer that comes in finds its entry and leads to the client, a packet
  in flight belongs to the flow of this request, and what the client remembers of earlier
  requests is where their flows are still bound. `CountInv` relates sendings to losses: a
  request whose answer gets through (`Hears`) is repeated only after a loss, so it is not
  given up; one whose answer does not get through is never answered. That two flows share an
  endpoint exactly if they share a binding is the NAT's `BindingExclusive`.
  (4) `PairedNotRandom`, from `PairedInv`: a NAT that pairs addresses leaves the first one
  only when it has no port for a request there, and NATReq2 asks for fewer ports than there
  are (`FirstBound`), so that every binding, every packet and every answer has the first
  address; this needs nothing of the network or of the parts. `PoolsFound` adds `PoolInv`
  (`PoolFlowsKnown`), which does for the flows of the two clients of NATReq3, and for
  NATReq2's first request, what `MeantInv` and `CountInv` do for NATReq1 and 8: client A's
  flow, bound in an empty NAT, has the source port exactly if the configuration says so
  (`SamePort`), what the client remembers of it is still where it is bound in the round's
  second request, and without overloading the two clients' endpoints differ, which is
  `BindingExclusive` again.
  (5) `LifetimeFound`, from `LifeInv` (`IdleFlowKnown`): two flows of one client, two
  transactions, and time. Until the second request, the binding of the first flow is as old
  as the client has slept, capped at `Timeout` (`LifeFirst`). From then on (`LifeSecond`) it
  is alive exactly if the sleep was short: requests name the second flow's binding only, and
  an answer to the first endpoint refreshes a binding that lives or leaves it alone, and
  tears down one that has expired. That answer exists only since the second flow was bound,
  at an endpoint of its own, so that the one told in the first answer is not handed out
  again and what comes in for it later is dropped. `FirstCount` and `SecondCount` relate
  sendings to losses: the second thread gives up only after two losses, or when the binding
  has expired. Hence the condition `lost < 2` of the verdict; `LifeInv` itself needs no
  bound on losses.
- `TopologyProofs`. `TestsKeepDocument`: `mTesting` is up whenever a test is past raising
  it, unless tests overlap; a test in its dialog or at its files has no such protection.
  `DocumentFits`, for
  `DocInv = DocumentType ∧ (¬skewed ∧ ¬asserted ⇒ Fits) ∧ FileInv(disk)`, from which
  `LinksStayMutual`: `Fits` alone is not inductive, since a saved document is opened again.
  `FileInv` says what a file gives when it is read: if its indices fit, the links that were
  written, at both their ends. That is what `ReadBack` shows of `WriteDocument` and
  `ReadLinks` (the line of an element is found by its index and no other line is), in spite
  of the real hosts that are left out. `ChosenAreTested`, from `ChosenInv`: the lists of the
  dialog, the files and the names are all counted over the same elements (`Known`,
  `NameFound`) as long as no element comes or goes; links, which may, change no count
  (`SameElements`). A real host is counted once and not the second time; the places up to
  an element's are those of the simulated hosts and those of the real ones, which are apart,
  so the two counts add up (`BeforeTwo`, `CountedTwice`). The lemmas on `AtPlaces` number the places of a sequence without gaps
  (`Ranks`), by cardinalities instead of induction. The theorem does not need that tests do
  not overlap. `RoutesAddUp`: what `IsReachable` finds is at the end of a way of at most
  `Count + 1` steps (`NearWay`), and a way that is no longer stays in what it finds
  (`WayNear`), both by induction as the least counterexample (`Least`, `UpTo`). Of those
  ways a shortest has only NATs between its ends (`BetweenNATs`): a client or a server has
  one neighbour, and coming back to where one was is no shortest way. So the NATs of the
  way list each other, one side of each link being private and the other public.
- `EditorProofs`, on top of these. `EditorInv = SimulatedInv ∧ Mirror ∧ ChosenInv ∧ ReportsInv`.
  `SimulatedInv`: without real hosts nothing is left out of a file, so that what is saved
  fits when it is opened (`WrittenFits`), no index is asserted and the document's `Fits`
  holds outright. `Mirror`: each item has the type of the element at its place and the text
  of its contents, which is what `CanvasShows` says; it takes two lists that are appended to
  and shortened alike, a NAT's new private address carried to the item of its *index*, and a
  canvas rebuilt from a file. `ReportsInv`: until elements come or go, each index under which
  a running test reports is that of an element of the document that takes part (`RunReports`,
  with `ChosenInv` for the clients), which gives `MarksFit`. `EditorTopology`: every step but a
  mark is one of `Topology`, so its invariants carry over.

The hypotheses of the session's theorems are those of the code: `~Late` (no packet outlives
a wait of `GetMsg`; `session_late` shows that it is needed), `MaxLost <= 2` (`SendAndReceive`
sends three times), `MaxPort >= 3` (NATReq1 binds up to three ports of one address, of
65 535; NATReq6 two, hence `MaxPort >= 2` there), and `SourcePort # 0` for `PoolsFound`: the search for a port begins at 0, so that a
NAT without port preservation would seem to preserve that one.

The type invariants of `NATSim`, `NATSimThreads`, `Queue`, `Capture` and `Topology` are
proved (or part of what is proved) and no longer run.

Only model-checked, and why:

- all liveness (`Terminates`, both `StopReturns`, `GetMsgReturns`, `TestEnds`, `DecodeEnds`),
  which the prover does not do;
- `codec`: recursion over bytes and bitwise operators, which may not be near a theorem;
- `AddressesDistinct` of `Editor`, which holds for the bounds of its run and not for every
  value of them: after enough links of NATs the counter of their private addresses would
  reach the last numbers of the public ones. `SavedIsOpened` and `ConfigReachesParts`: what
  is read from lines by `SelectSeq`, which is recursive.

## 5. Not modelled

- `CUtilString`, `CUtilByteArray`, `CUtilTrace`: helpers. `CUtilCriticalSection` is what
  makes a table's call one action; the queue's has its own variable.
- `NATSimAddr*`, `NATSimBindTable`: an earlier form of the tables, used by nothing.
- The console test program: its body is commented out.
- WinPcap and pthreads-win32: vendored. Their effects (a read that returns in time, a join
  that returns when the thread has ended, a call that fails) are in the models.
- The receiving half of `CRawSocket` and its checksums; `RemoveIP` and
  `GetFirstReservedPort`; `CaptureApi::GetDevices`; building shared secrets and error
  responses: nothing calls them, or they change nothing. The source half of the capture
  filter is treated like the destination half.
- Of the NAT: a second `Start` that changes the file under running threads. The failures of
  its own `Start` are in `NATSim` and `NATSimThreads`; in `Session` it is up.
- Of the tests: what a join of a thread that was never created does beyond returning.
- Of the editor: positions, animations, the rows of the message list, the link-mode toggle,
  the layout of dialogs; the addresses of real hosts; a configuration file that cannot be
  created; the C++ arrays `ThreadTest` sizes before its dialog and fills after it, which
  hold what `thread` holds; the combo boxes changing test or device under a test.
- Copies of `CSTUNMsg` (its attribute table's assignment is in `IdTbl`).

Left to do, were this to go on: a run of `Session` over `NATSimThreads` instead of `NATSim`
(handlers cut at their table calls multiply the states of a session), and a proof of
`SavedIsOpened` (with the lines of a key found by their places).
