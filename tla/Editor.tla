--------------------------------- MODULE Editor ---------------------------------
(***************************************************************************)
(* The topology editor with what its elements hold: addresses, options, the  *)
(* canvas that shows them, the saved document and the configuration files    *)
(* by which they reach the parts of a test (NATSimulatorDoc.cpp,            *)
(* NATSimulatorView.cpp, the dialogs, UtilConfigFile.cpp and the readers of   *)
(* NATSim.cpp and STUNServer.cpp).  Module Topology holds the elements, the  *)
(* links and the test threads; every action here is one of its actions with  *)
(* the rest of the handler, or a handler that leaves the topology alone.     *)
(*                                                                         *)
(* Positions and the rows of the message table are left out.  The user has   *)
(* chosen a device and a test.  An address is its four numbers, a file the   *)
(* sequence of its lines.                                                  *)
(***************************************************************************)
EXTENDS Topology

CONSTANTS
  Device,     \* the device chosen
  Offered,    \* the options of a NAT the user may choose in its dialog
  MaxDrags,   \* a bound on the elements dragged
  MaxEdits,   \* a bound on the dialogs answered
  MaxTests    \* a bound on the tests run

\* The elements whose contents are modelled; those of real hosts are in Topology only.
ASSUME EditorAssumption == Types \subseteq Simulated

VARIABLES
  data,            \* object -> its addresses, ports and options
  next,            \* the mNext... counters of the document
  mListCtrlCanvas, \* the items, one for each element
  saved,           \* the lines of the saved elements, in the order of disk.elements
  config,          \* the configuration files
  read,            \* tester -> what the parts it runs have read
  reports,         \* tester -> the indices under which they report their messages
  edits,           \* the dialogs answered
  drags,           \* the elements dragged
  tests,           \* the tests run
  fresh,           \* auxiliary: every address comes from the counters
  touched,         \* auxiliary: the document changed under the test
  kept             \* auxiliary: the contents of the saved elements

auxVars    == <<edits, drags, tests, fresh, touched, kept>>
fileVars   == <<config, read, reports>>
editorVars == <<topoVars, data, next, mListCtrlCanvas, saved, fileVars, auxVars>>

-----------------------------------------------------------------------------
(* Elements.                                                               *)

NoData == [IPsA |-> <<>>, IPsB |-> <<>>]

\* InitIPAdrress.
InitIPAdrress ==
  [NATPublic |-> 125, NATPrivate |-> 3, Public |-> 0, Private |-> 2, PrivateIPNatToNat |-> 1]

Defaults ==
  [Mapping |-> "eMEndPointIndependent", Filtering |-> "eFAddressIndependent", Timeout |-> 300,
   InboundRefresh |-> FALSE, PortPreservation |-> TRUE, PortOverloading |-> FALSE,
   AssignIPsMode |-> "eAPaired"]

\* GetNextElementToInsert: what the next element of a type is to hold.
NextElement(type) ==
  CASE type = "eNAT" ->
         [IPsA    |-> <<<<217, next.NATPublic, 242, 39>>, <<217, next.NATPublic, 242, 40>>>>,
          IPsB    |-> <<<<192, 168, next.NATPrivate, 1>>>>,
          options |-> Defaults]
    [] type = "eSTUNClient" ->
         [IPsA |-> <<<<192, 168, 3, next.Private>>>>, IPsB |-> <<>>, PortsA |-> <<10000>>]
    [] type = "eSTUNServer" ->
         [IPsA |-> <<<<169, next.Public, 209, 22>>>>, PortsA |-> <<3478>>,
          IPsB |-> <<<<169, next.Public, 208, 27>>>>, PortsB |-> <<3479>>]

\* Mutant: only the counters of NATs go on.
AdvanceNATs(type) ==
  IF type = "eNAT" THEN [next EXCEPT !.NATPublic = @ + 1, !.NATPrivate = @ + 1] ELSE next

\* ... and the counters behind it.
Advance(type) ==
  CASE type = "eNAT"        -> [next EXCEPT !.NATPublic = @ + 1, !.NATPrivate = @ + 1]
    [] type = "eSTUNClient" -> [next EXCEPT !.Private = @ + 1]
    [] type = "eSTUNServer" -> [next EXCEPT !.Public = @ + 1]

\* The Name of an element, the text of its item.
Name(type, d) ==
  CASE type = "eNAT"        -> <<d.IPsB[1], d.IPsA[1]>>
    [] type = "eSTUNClient" -> <<d.IPsA[1]>>
    [] type = "eSTUNServer" -> <<d.IPsA[1], d.IPsB[1]>>

\* InsertItem and SetCheck.
NewItem(type, d) == [text |-> Name(type, d), image |-> type, marked |-> FALSE, checked |-> TRUE]

\* OnInitialUpdate: the canvas of a document of such elements.
OnInitialUpdate(elements, contents) ==
  [n \in DOMAIN elements |-> NewItem(elements[n].Type, contents[n])]

EditorInit ==
  /\ TopologyInit
  /\ data = [x \in Elements |-> NoData]
  /\ next = InitIPAdrress
  /\ mListCtrlCanvas = <<>> /\ saved = <<>>
  /\ config = [nats |-> <<>>, servers |-> <<>>, clients |-> <<>>]
  /\ read = [t \in Testers |-> <<>>] /\ reports = [t \in Testers |-> {}]
  /\ edits = 0 /\ drags = 0 /\ tests = 0 /\ fresh = TRUE /\ touched = FALSE /\ kept = <<>>

\* A bound: under a test there is one change, behind the last test none.
Settled == IF Tested THEN ~touched ELSE tests < MaxTests

\* The next element is taken.
OnLvnBegindragListElements(type) ==
  /\ Editing /\ drags < MaxDrags
  /\ drags' = drags + 1
  /\ next' = Advance(type)

\* It is inserted if it is dropped on the canvas.
OnLButtonUp(type, dropped) ==
  \/ /\ dropped /\ InsertElement(type)
     /\ data' = [data EXCEPT ![mArrayElements'[Count + 1]] = NextElement(type)]
     /\ mListCtrlCanvas' = Append(mListCtrlCanvas, NewItem(type, NextElement(type)))
  \/ ~dropped /\ UNCHANGED <<topoVars, data, mListCtrlCanvas>>

\* Nothing comes between: the view has the mouse.
DragElement(type, dropped) ==
  /\ Settled /\ OnLvnBegindragListElements(type) /\ OnLButtonUp(type, dropped)
  /\ touched' = Tested
  /\ UNCHANGED <<saved, fileVars, edits, tests, fresh, kept>>

\* The item goes with its element.
DeleteItem(i) ==
  /\ Settled /\ OnDeleteitem(i)
  /\ touched' = Tested
  /\ data' = [data EXCEPT ![GetItemData(i)] = NoData]
  /\ mListCtrlCanvas' = RemoveAt(mListCtrlCanvas, i + 1)
  /\ UNCHANGED <<next, saved, fileVars, edits, drags, tests, fresh, kept>>

\* OnNMCustomdrawListCanvas: the lines, each from the item of an element to the item
\* of the index that a linked one holds.
Drawn ==
  UNION {{<<n, element[link.to].Index + 1>> : link \in Range(element[mArrayElements[n]].links)} :
         n \in DOMAIN mListCtrlCanvas}

\* Mutant: only the document learns of the address.
LinkUnseen(x, y) ==
  LET ip == [data[x].IPsA[1] EXCEPT ![4] = next.PrivateIPNatToNat]
  IN  /\ data' = [data EXCEPT ![y].IPsB = <<ip>>]
      /\ next' = [next EXCEPT !.PrivateIPNatToNat = @ + 1]
      /\ UNCHANGED mListCtrlCanvas

\* The NAT at the end of a link gets a private address in the network of the
\* public ones of the NAT at its start, whichever sides the link joins.
LinkNATs(x, y) ==
  LET ip == [data[x].IPsA[1] EXCEPT ![4] = next.PrivateIPNatToNat]
  IN  /\ data' = [data EXCEPT ![y].IPsB = <<ip>>]
      /\ next' = [next EXCEPT !.PrivateIPNatToNat = @ + 1]
      /\ mListCtrlCanvas' = [mListCtrlCanvas EXCEPT
           ![element[y].Index + 1].text = Name("eNAT", data'[y])]

\* The sides that CNatConnectDlg leaves of two NATs: the public one of the first and
\* the private one of the second, unless the user clicks others.  (A bound: they
\* differ; Topology has them all.)
NatConnectDlg == {sides \in Connectors \X Connectors : sides[1] # sides[2]}

\* A line is drawn from item to item.
Link(i, j) ==
  LET x == GetItemData(i)
      y == GetItemData(j)
      sides == IF IsNAT(x) /\ IsNAT(y) THEN NatConnectDlg ELSE {<<"ePublic", "ePublic">>}
  IN  /\ Settled /\ \E side \in sides : ValidateLink(i, j, side[1], side[2])
      /\ touched' = Tested
      /\ \/ IsNAT(x) /\ IsNAT(y) /\ LinkNATs(x, y)
         \/ ~(IsNAT(x) /\ IsNAT(y)) /\ UNCHANGED <<data, next, mListCtrlCanvas>>
      /\ UNCHANGED <<saved, fileVars, edits, drags, tests, fresh, kept>>

-----------------------------------------------------------------------------
(* Dialogs.                                                                *)

UserIP   == <<10, 0, 0, 1>>
UserPort == 5000

\* A list of addresses after the buttons: one added in front, or the first deleted.
\* OnBnClickedOk refuses an empty list.
Lists(ips) == {ips, <<UserIP>> \o ips, Tail(ips)} \ {<<>>}

\* What OnBnClickedOk leaves of a NAT.  (A bound: one list changes, or the options
\* do, or nothing, as after Cancel.)
NATConfigDlg(d) ==
  {[d EXCEPT !.IPsA = a] : a \in Lists(d.IPsA)} \cup
  {[d EXCEPT !.IPsB = b] : b \in Lists(d.IPsB)} \cup
  {[d EXCEPT !.options = o] : o \in Offered}

\* ... of a client ...
StunClientConfigDlg(d) == {d, [d EXCEPT !.IPsA = <<UserIP>>, !.PortsA = <<UserPort>>]}

\* ... and of a server.
StunServerConfigDlg(d) == {d, [d EXCEPT !.IPsB = <<UserIP>>, !.PortsA = <<UserPort>>]}

Answers(type, d) ==
  CASE type = "eNAT"        -> NATConfigDlg(d)
    [] type = "eSTUNClient" -> StunClientConfigDlg(d)
    [] type = "eSTUNServer" -> StunServerConfigDlg(d)

\* OnNMDblclkListCanvas: the dialog of the element, then its Name and its text.
\* (A bound: behind the last drag.)
OnNMDblclkListCanvas(i) ==
  LET x == GetItemData(i)
  IN  /\ Editing /\ Settled /\ drags = MaxDrags /\ edits < MaxEdits
      /\ edits' = edits + 1 /\ touched' = Tested /\ fresh' = FALSE
      /\ \E answer \in Answers(element[x].Type, data[x]) :
           /\ data' = [data EXCEPT ![x] = answer]
           /\ mListCtrlCanvas' = [mListCtrlCanvas EXCEPT
                ![i + 1].text = Name(element[x].Type, answer)]
      /\ UNCHANGED <<topoVars, next, saved, fileVars, drags, tests, kept>>

\* OnMarkall, OnUnmarkall.  (A bound: while a test runs.)
OnMarkall(check) ==
  /\ open /\ ~asserted /\ \E t \in Testers : thread[t].phase = "running"
  /\ mListCtrlCanvas' = [n \in DOMAIN mListCtrlCanvas |->
                           [mListCtrlCanvas[n] EXCEPT !.checked = check]]
  /\ UNCHANGED <<topoVars, data, next, saved, fileVars, auxVars>>

OnCleantrafficmarks ==
  /\ open /\ ~asserted
  /\ mListCtrlCanvas' = [n \in DOMAIN mListCtrlCanvas |->
       [mListCtrlCanvas[n] EXCEPT !.image = element[mArrayElements[n]].Type, !.marked = FALSE]]
  /\ UNCHANGED <<topoVars, data, next, saved, fileVars, auxVars>>

-----------------------------------------------------------------------------
(* Lines of files.                                                         *)

Line(key, value)  == <<<<key>>, value>>
Section(name)     == <<<<"#", name>>, "">>
List(key, values) == [n \in DOMAIN values |-> <<<<key, n>>, values[n]>>]
Flag(bool)        == IF bool THEN "1" ELSE "0"

MappingBehavior ==
  [eMNotNated |-> "NotNated", eMEndPointIndependent |-> "EndPointIndependent",
   eMAddressDependent |-> "AddressDependent", eMAddressPortDependent |-> "AddressPortDependent"]

FilteringBehavior ==
  [eFAddressIndependent |-> "AddressIndependent", eFAddressDependent |-> "AddressDependent",
   eFAddressPortDependent |-> "AddressPortDependent"]

\* The member of an enumeration that a text names.
Named(enumeration, text, otherwise) ==
  IF \E member \in DOMAIN enumeration : enumeration[member] = text
  THEN CHOOSE member \in DOMAIN enumeration : enumeration[member] = text
  ELSE otherwise

OptionLines(options) ==
  <<Line("MappingBehavior", MappingBehavior[options.Mapping]),
    Line("FilteringBehavior", FilteringBehavior[options.Filtering]),
    Line("TimeOut", options.Timeout),
    Line("IncommingRefreshTimeOut", Flag(options.InboundRefresh)),
    Line("PortPreservation", Flag(options.PortPreservation)),
    Line("PortOverloading", Flag(options.PortOverloading)),
    Line("IPAssignMode", IF options.AssignIPsMode = "eAPaired" THEN "Paired" ELSE "Random")>>

\* Mutant: the addresses are in what is written twice.
WriteNATTwice(d) ==
  LET aux == OptionLines(d.options) \o List("NATPrivateIP", d.IPsB) \o List("NATPublicIP", d.IPsA)
  IN  aux \o aux

\* WriteDocument: Aux, with the options, is written once before the addresses are
\* added to it and once after.
WriteNAT(d) ==
  LET aux == OptionLines(d.options)
  IN  aux \o (aux \o List("NATPrivateIP", d.IPsB) \o List("NATPublicIP", d.IPsA))

WriteElement(x) ==
  LET d == data[x]
  IN  CASE element[x].Type = "eNAT"        -> WriteNAT(d)
        [] element[x].Type = "eSTUNClient" ->
             <<Line("ClientIP", d.IPsA[1]), Line("ClientPort", d.PortsA[1])>>
        [] element[x].Type = "eSTUNServer" ->
             <<Line("ServerAIP", d.IPsA[1]), Line("ServerBIP", d.IPsB[1]),
               Line("ServerPort1", d.PortsA[1]), Line("ServerPort2", d.PortsB[1])>>

\* What the loops of the Read functions Add, line by line, to an array, and what
\* they leave in a member that each line sets anew.
Added(lines, key) ==
  LET those == SelectSeq(lines, LAMBDA line : line[1][1] = key)
  IN  [n \in DOMAIN those |-> those[n][2]]
Latest(lines, key) == LET all == Added(lines, key) IN all[Len(all)]

ReadNAT(lines) ==
  [IPsA |-> Added(lines, "NATPublicIP"), IPsB |-> Added(lines, "NATPrivateIP"),
   options |->
     [Mapping           |-> Named(MappingBehavior, Latest(lines, "MappingBehavior"), ""),
      Filtering         |-> Named(FilteringBehavior, Latest(lines, "FilteringBehavior"), ""),
      Timeout           |-> Latest(lines, "TimeOut"),
      InboundRefresh    |-> Latest(lines, "IncommingRefreshTimeOut") # "0",
      PortPreservation  |-> Latest(lines, "PortPreservation") # "0",
      PortOverloading   |-> Latest(lines, "PortOverloading") # "0",
      AssignIPsMode     |-> IF Latest(lines, "IPAssignMode") = "Paired" THEN "eAPaired"
                            ELSE "eARandom"]]

ReadSTUNClient(lines) ==
  [IPsA |-> Added(lines, "ClientIP"), IPsB |-> <<>>, PortsA |-> Added(lines, "ClientPort")]

ReadSTUNServer(lines) ==
  [IPsA |-> Added(lines, "ServerAIP"), PortsA |-> Added(lines, "ServerPort1"),
   IPsB |-> Added(lines, "ServerBIP"), PortsB |-> Added(lines, "ServerPort2")]

ReadElement(type, lines) ==
  CASE type = "eNAT"        -> ReadNAT(lines)
    [] type = "eSTUNClient" -> ReadSTUNClient(lines)
    [] type = "eSTUNServer" -> ReadSTUNServer(lines)

-----------------------------------------------------------------------------
(* Documents.                                                              *)

\* The document is closed, having been saved (WriteDocument) or not.
CloseDocument(saving) ==
  LET those == Those(Simulated)
  IN  /\ Settled /\ OnCloseDocument(IF saving THEN WriteDocument ELSE disk)
      /\ saved' = IF saving THEN [n \in DOMAIN those |-> WriteElement(those[n])] ELSE saved
      /\ kept'  = IF saving THEN [n \in DOMAIN those |-> data[those[n]]] ELSE kept
      /\ data'  = [x \in Elements |-> NoData]
      /\ mListCtrlCanvas' = <<>>
      /\ UNCHANGED <<next, fileVars, edits, drags, tests, fresh, touched>>

NewDocument ==
  /\ OnNewDocument
  /\ next' = InitIPAdrress /\ fresh' = TRUE
  /\ saved' = <<>> /\ kept' = <<>>
  /\ UNCHANGED <<data, mListCtrlCanvas, fileVars, edits, drags, tests, touched>>

\* The elements are read, the counters start anew, and the canvas is filled.
OpenDocument ==
  LET contents == [n \in DOMAIN saved |-> ReadElement(disk.elements[n].Type, saved[n])]
  IN  /\ OnOpenDocument
      /\ data' = [x \in Elements |-> IF x \in DOMAIN saved THEN contents[x] ELSE NoData]
      /\ next' = InitIPAdrress /\ fresh' = (saved = <<>>)
      /\ mListCtrlCanvas' = OnInitialUpdate(disk.elements, contents)
      /\ saved' = <<>> /\ kept' = <<>>
      /\ UNCHANGED <<fileVars, edits, drags, tests, touched>>

-----------------------------------------------------------------------------
(* Configuration files.                                                    *)

\* Those a NAT takes for private hosts, in the order of its links, and for
\* public ones, in the order of the array.
PrivateHosts(x) ==
  LET Hosts(link) ==
        IF element[link.to].Type = "eSTUNClient" \/ (IsNAT(link.to) /\ link.connector = "ePublic")
        THEN data[link.to].IPsA ELSE <<>>
  IN  FlattenSeq([k \in DOMAIN element[x].links |-> Hosts(element[x].links[k])])

PublicHosts(x) ==
  LET servers == SelectSeq(mArrayElements, LAMBDA y : y \in PublicIPs(x))
  IN  FlattenSeq([n \in DOMAIN servers |-> <<data[servers[n]].IPsA[1], data[servers[n]].IPsB[1]>>])

\* The assign mode is written a second time; if it is random, only under a
\* filtering that has the number of eARandom.
NATFile(x) ==
  LET options == data[x].options
      again   == CASE options.AssignIPsMode = "eAPaired"       -> <<Line("IPAssignMode", "Paired")>>
                   [] OTHER -> IF options.Filtering = "eFAddressDependent"
                               THEN <<Line("IPAssignMode", "Random")>> ELSE <<>>
  IN  <<Section("NATSim")>> \o OptionLines(options) \o again \o
      <<Line("PublicDev", Device), Line("PrivateDev", Device)>> \o
      List("NATPrivateIP", data[x].IPsB) \o List("NATPublicIP", data[x].IPsA) \o
      List("PrivateIP", PrivateHosts(x)) \o List("PublicIP", PublicHosts(x))

ServerFile(x) ==
  LET d    == data[x]
      nats == SelectSeq([k \in DOMAIN element[x].links |-> element[x].links[k].to], IsNAT)
  IN  <<Section("STUNServer"), Line("ServerDev", Device),
        Line("ServerAIP", d.IPsA[1]), Line("ServerBIP", d.IPsB[1]),
        Line("ServerPort1", d.PortsA[1]), Line("ServerPort2", d.PortsB[1]), Section("NATSim")>> \o
      List("NATPublicIP", FlattenSeq([n \in DOMAIN nats |-> data[nats[n]].IPsA]))

\* The clients of all elements, by their letters.
ClientsFile ==
  LET clients  == Those(Clients)
      Lines(n) == <<<<<<"Client", n, "Dev">>, Device>>,
                    <<<<"Client", n, "IP">>, data[clients[n]].IPsA[1]>>,
                    <<<<"Client", n, "Port">>, data[clients[n]].PortsA[1]>>>>
  IN  <<Section("STUNClient")>> \o FlattenSeq([n \in DOMAIN clients |-> Lines(n)])

\* The files of a test, written by its confirmation.  (Those that an earlier
\* one left with higher numbers are read only if elements came meanwhile.)
ConfirmTest(t, clients, server) ==
  /\ Confirm(t, clients, server)
  /\ config' = [nats    |-> [n \in DOMAIN Those({"eNAT"}) |-> NATFile(Those({"eNAT"})[n])],
                servers |-> [n \in DOMAIN Those(Servers) |-> ServerFile(Those(Servers)[n])],
                clients |-> ClientsFile]
  /\ touched' = FALSE
  /\ UNCHANGED <<data, next, mListCtrlCanvas, saved, read, reports, edits, drags, tests, fresh, kept>>

\* GetString: the value of the first line with the key behind the header of the
\* section; the sections that follow are searched too.  (A key is the beginning
\* of a line: PublicIP1 would find PublicIP10, but comes first.)
Found(file, section, key) ==
  {n \in DOMAIN file : file[n][1] = key /\ \E h \in 1 .. (n - 1) : file[h] = Section(section)}

First(lines) == CHOOSE n \in lines : \A m \in lines : n <= m

GetString(file, section, key, byDefault) ==
  LET found == Found(file, section, key)
  IN  IF found = {} THEN byDefault ELSE file[First(found)][2]

\* GetStringList: up to the first number that is missing.
GetStringList(file, section, key) ==
  LET Missing(n) == Found(file, section, <<key, n>>) = {}
      length == CHOOSE n \in 0 .. Len(file) : Missing(n + 1) /\ \A m \in 1 .. n : ~Missing(m)
  IN  [n \in 1 .. length |-> GetString(file, section, <<key, n>>, "")]

readNatConfig(file) ==
  LET String(key, byDefault) == GetString(file, "NATSim", <<key>>, byDefault)
      True(key) == String(key, "0") = "1"
  IN  [mPrivateIPs    |-> GetStringList(file, "NATSim", "PrivateIP"),
       mPublicIPs     |-> GetStringList(file, "NATSim", "PublicIP"),
       mNATPublicIPs  |-> GetStringList(file, "NATSim", "NATPublicIP"),
       mNATPrivateIPs |-> GetStringList(file, "NATSim", "NATPrivateIP"),
       devices        |-> {String("PublicDev", "en0"), String("PrivateDev", "en0")},
       mTimeout       |-> String("TimeOut", 60) * 1000,
       mMappingBehavior   |-> Named(MappingBehavior, String("MappingBehavior", "AddressPortDependent"),
                                    "eMAddressPortDependent"),
       mFilteringBehavior |-> Named(FilteringBehavior,
                                    String("FilteringBehavior", "AddressPortDependent"),
                                    "eFAddressPortDependent"),
       mIncommingRefreshTimeout |-> True("IncommingRefreshTimeOut"),
       mPortPreservation |-> True("PortPreservation"),
       mPortOverloading  |-> True("PortOverloading"),
       mIPAssignMode     |-> IF String("IPAssignMode", "Paired") = "Paired" THEN "eAPaired"
                             ELSE "eARandom"]

readSTUNServerConfig(file) ==
  LET String(key, byDefault) == GetString(file, "STUNServer", <<key>>, byDefault)
  IN  [mNATPublicIPs |-> GetStringList(file, "NATSim", "NATPublicIP"),
       addresses |-> <<String("ServerAIP", <<69, 0, 209, 22>>), String("ServerBIP", <<69, 0, 208, 27>>)>>,
       ports     |-> <<String("ServerPort1", 3478) % 2^16, String("ServerPort2", 3478) % 2^16>>,
       mDevice   |-> String("ServerDev", "en0")]

\* What a test reads of its client and of its server.
readClient(file, letter) ==
  LET String(key, byDefault) == GetString(file, "STUNClient", <<"Client", letter, key>>, byDefault)
  IN  [sourceAddress |-> String("IP", <<192, 168, 0, 14>>),
       sourcePort    |-> String("Port", 10000) % 2^16, device |-> String("Dev", "en0")]

readServer(file) ==
  [addressSTUNServer |-> GetString(file, "STUNServer", <<"ServerAIP">>, <<69, 0, 208, 27>>),
   portSTUNServer    |-> GetString(file, "STUNServer", <<"ServerPort1">>, 3478) % 2^16]

\* Mutant: the parts are counted from zero.
FileFromZero(files, n) == IF n - 1 \in DOMAIN files THEN files[n - 1] ELSE <<>>

\* A file that is not there is read like an empty one.
File(files, n) == IF n \in DOMAIN files THEN files[n] ELSE <<>>

\* Mutant: a part reports under its number, not under its element's index.
ReportsNumbered(parts, chosen) ==
  {n - 1 : n \in DOMAIN parts.nats} \cup {n - 1 : n \in DOMAIN parts.servers} \cup
  {chosen[n].Index : n \in DOMAIN chosen}

\* The indices under which the parts and the test report: those that the
\* elements hold when the parts are started.
Reports(parts, chosen) ==
  LET IsThere(client) == \E x \in InDocument :
        element[x].Type = "eSTUNClient" /\ element[x].Index = client.Index
  IN  {element[parts.nats[n]].Index : n \in DOMAIN parts.nats} \cup
      {element[parts.servers[n]].Index : n \in DOMAIN parts.servers} \cup
      {IF IsThere(chosen[n]) THEN chosen[n].Index ELSE 0 : n \in DOMAIN chosen}

\* The parts and the test read their files.
RunTest(t) ==
  LET run == thread'[t]
  IN  /\ Run(t)
      /\ read' = [read EXCEPT ![t] =
           [nats    |-> [n \in DOMAIN run.parts.nats |-> readNatConfig(File(config.nats, n))],
            servers |-> [n \in DOMAIN run.parts.servers |->
                           readSTUNServerConfig(File(config.servers, n))],
            clients |-> [n \in DOMAIN run.fromClient |->
                           readClient(config.clients, run.fromClient[n])],
            server  |-> readServer(File(config.servers, run.toServer))]]
      /\ reports' = [reports EXCEPT ![t] = Reports(run.parts, run.clients)]
      /\ UNCHANGED <<data, next, mListCtrlCanvas, saved, config, auxVars>>

\* OnUpdate: the item of an index is marked if it is checked; one that is gone counts
\* as checked, and GetItemData asserts.
OnUpdate(index) ==
  /\ asserted' = (index >= Count)
  /\ mListCtrlCanvas' =
       IF index < Count /\ mListCtrlCanvas[index + 1].checked
       THEN [mListCtrlCanvas EXCEPT ![index + 1].image  = element[GetItemData(index)].Type,
                                    ![index + 1].marked = TRUE]
       ELSE mListCtrlCanvas

\* AdviseSnd, AdviseRcv: a part has sent or received a message.
Advise(t, index) ==
  /\ open /\ ~asserted /\ thread[t].phase = "running"
  /\ OnUpdate(index)
  /\ UNCHANGED <<open, mArrayElements, element, disk, skewed, testVars, edited,
                 data, next, saved, fileVars, auxVars>>

EndTest(t) ==
  /\ End(t)
  /\ read' = [read EXCEPT ![t] = <<>>] /\ reports' = [reports EXCEPT ![t] = {}]
  /\ config' = [nats |-> <<>>, servers |-> <<>>, clients |-> <<>>]
  /\ UNCHANGED <<data, next, mListCtrlCanvas, saved, auxVars>>

\* (A bound: there is whom to test.)
OnBnClickedButtonRunTest(t) ==
  /\ Those(Clients) # <<>> /\ Those(Servers) # <<>>
  /\ StartTest(t) /\ tests < MaxTests
  /\ tests' = tests + 1
  /\ UNCHANGED <<data, next, mListCtrlCanvas, saved, fileVars, edits, drags, fresh, touched, kept>>

CancelTest(t) ==
  /\ Cancel(t)
  /\ touched' = FALSE
  /\ UNCHANGED <<data, next, mListCtrlCanvas, saved, fileVars, edits, drags, tests, fresh, kept>>

\* What the topology does alone: the flag is raised, or a test lost its document.
TestGoesOn(t) ==
  /\ SetTesting(t) \/ Stray(t)
  /\ UNCHANGED <<data, next, mListCtrlCanvas, saved, fileVars, auxVars>>

EditorNext ==
  \/ \E type \in Types, dropped \in BOOLEAN : DragElement(type, dropped)
  \/ \E i \in Indices : DeleteItem(i) \/ OnNMDblclkListCanvas(i)
  \/ \E i, j \in Indices : Link(i, j)
  \/ \E check \in BOOLEAN : OnMarkall(check)
  \/ OnCleantrafficmarks
  \/ \E saving \in BOOLEAN : CloseDocument(saving)
  \/ NewDocument \/ OpenDocument
  \/ \E t \in Testers :
       \/ OnBnClickedButtonRunTest(t) \/ CancelTest(t) \/ TestGoesOn(t) \/ RunTest(t) \/ EndTest(t)
       \/ \E index \in reports[t] : Advise(t, index)
       \/ /\ thread[t].phase = "dialog"
          /\ \E answer \in TestDlg(t) : Len(answer.clients) = 1 /\
               ConfirmTest(t, answer.clients, answer.server)

EditorSpec == EditorInit /\ [][EditorNext]_editorVars
-----------------------------------------------------------------------------
(* Properties.                                                             *)

\* What the canvas shows: at the place of every element there is an item of its
\* type with the addresses it has now, whatever was dragged, linked, deleted,
\* answered in dialogs, saved, opened and marked by running tests; and every line
\* joins the items of two elements that are linked.
CanvasMirrors ==
  open => /\ Len(mListCtrlCanvas) = Count
          /\ \A n \in DOMAIN mListCtrlCanvas :
               LET x == mArrayElements[n]
               IN  /\ mListCtrlCanvas[n].text = Name(element[x].Type, data[x])
                   /\ mListCtrlCanvas[n].image = element[x].Type
          /\ \A line \in Drawn :
               /\ line[2] \in DOMAIN mListCtrlCanvas
               /\ mArrayElements[line[2]] \in LinkedTo(mArrayElements[line[1]])

\* No two elements share an address as long as the user enters none and opens no
\* document, whose addresses the counters would give out again.
AddressesDistinct ==
  LET Addresses(x) == Range(data[x].IPsA) \cup Range(data[x].IPsB)
  IN  fresh => \A x, y \in InDocument : x # y => Addresses(x) \cap Addresses(y) = {}

\* A saved document comes back with every address, port and option it was saved
\* with.
SavedIsOpened ==
  [][~open /\ open' /\ mArrayElements' # <<>> =>
       [n \in DOMAIN mArrayElements' |-> data'[mArrayElements'[n]]] = kept]_editorVars

\* The NAT that was read from a file is the one the user drew.
ReadsNAT(got, x, hosts, servers) ==
  LET options == data[x].options
  IN  /\ got.mNATPublicIPs = data[x].IPsA /\ got.mNATPrivateIPs = data[x].IPsB
      /\ Range(got.mPrivateIPs) = UNION {Range(data[y].IPsA) : y \in hosts}
      /\ Range(got.mPublicIPs) = UNION {{data[y].IPsA[1], data[y].IPsB[1]} : y \in servers}
      /\ got.devices = {Device}
      /\ got.mTimeout = options.Timeout * 1000
      /\ [Mapping |-> got.mMappingBehavior, Filtering |-> got.mFilteringBehavior,
          Timeout |-> options.Timeout, InboundRefresh |-> got.mIncommingRefreshTimeout,
          PortPreservation |-> got.mPortPreservation, PortOverloading |-> got.mPortOverloading,
          AssignIPsMode |-> got.mIPAssignMode] = options

\* What the user drew is what the parts of a test read: every NAT has the options,
\* the addresses and the hosts of its element, every server and the test's
\* client and server theirs.  (Provided that the document is left alone from
\* the files on.)
ConfigReachesParts ==
  \A t \in Testers :
    LET run == thread[t]
        got == read[t]
    IN  run.phase = "running" /\ ~edited /\ ~touched /\ ~overlapped /\ NoReal =>
          /\ \A n \in DOMAIN run.parts.nats :
               ReadsNAT(got.nats[n], run.parts.nats[n],
                        run.files.nats[n].PrivateIPs, run.files.nats[n].PublicIPs)
          /\ \A n \in DOMAIN run.parts.servers :
               LET d == data[run.parts.servers[n]]
               IN  /\ got.servers[n].addresses = <<d.IPsA[1], d.IPsB[1]>>
                   /\ got.servers[n].ports = <<d.PortsA[1], d.PortsB[1]>>
                   /\ Range(got.servers[n].mNATPublicIPs) =
                        UNION {Range(data[y].IPsA) : y \in run.files.servers[n].NATPublicIPs}
          /\ \A n \in DOMAIN run.clients :
               LET d == data[run.clients[n].object]
               IN  /\ got.clients[n].sourceAddress = d.IPsA[1]
                   /\ got.clients[n].sourcePort = d.PortsA[1]
          /\ got.server.addressSTUNServer = data[run.server.object].IPsA[1]
          /\ got.server.portSTUNServer = data[run.server.object].PortsA[1]

\* The elements a running test has to do with.
Involved(run) ==
  Range(run.parts.nats) \cup Range(run.parts.servers) \cup
  {run.clients[n].object : n \in DOMAIN run.clients}

\* A mark goes to an element that takes part in a test: the index by which a part
\* reports, taken when it was started, still is its element's.  (Provided that
\* no element comes or goes under the test.)
MarksInvolved ==
  [][\A n \in DOMAIN mListCtrlCanvas :
       /\ mArrayElements' = mArrayElements /\ ~edited /\ ~overlapped /\ NoReal
       /\ ~mListCtrlCanvas[n].marked /\ mListCtrlCanvas'[n].marked
       => \E t \in Testers : thread[t].phase = "running" /\ mArrayElements[n] \in Involved(thread[t])
     ]_editorVars
==================================================================================
