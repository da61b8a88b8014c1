--------------------------------- MODULE Topology ---------------------------------
(***************************************************************************)
(* The topology editor and its test driver: src/Win_NatDetector/            *)
(* NATSimulator/NATSimulatorDoc.cpp, with the commands of                   *)
(* NATSimulatorView.cpp and the dialogs' answers.  The user edits a         *)
(* document of linked elements, saves, closes and opens it; test threads    *)
(* write its configuration files and start the parts it is made of, while   *)
(* the user may go on editing.                                             *)
(*                                                                         *)
(* An element is an object with its place in the array (Index) and its      *)
(* links; addresses and options are left out, and a configuration file      *)
(* names elements where the program writes their addresses.                *)
(***************************************************************************)
EXTENDS Integers, Sequences, FiniteSets, SequencesExt

CONSTANTS
  MaxElements,  \* a bound on the elements of the document
  MaxLinks,     \* a bound on the links of the document
  Types,        \* the element types the user drags into it
  Testers       \* the test threads, a bound on StartTest

Elements   == 1 .. MaxElements   \* the objects
Connectors == {"ePublic", "ePrivate"}
Simulated  == {"eNAT", "eSTUNClient", "eSTUNServer"}
Clients    == {"eSTUNClient", "eSTUNClientReal"}
Servers    == {"eSTUNServer", "eSTUNServerReal"}
Real       == {"eSTUNClientReal", "eSTUNServerReal"}

ASSUME TopologyAssumption ==
  Types \subseteq Simulated \cup Real /\ MaxElements \in Nat /\ MaxLinks \in Nat

VARIABLES
  open,           \* a document is open
  mArrayElements, \* its elements, in their order
  element,        \* object -> [Type, Index, links]: LinkedTo and LinkedInDevice together
  disk,           \* the saved document
  mTesting,       \* its flag
  thread,         \* tester -> its ThreadTest
  asserted,       \* an ASSERT has failed
  skewed,         \* auxiliary: a document was opened whose indices did not fit
  overlapped,     \* auxiliary: two tests ran at a time
  edited          \* auxiliary: elements came or went under the test

docVars  == <<open, mArrayElements, element, disk, asserted, skewed>>
testVars == <<mTesting, thread, overlapped>>
topoVars == <<docVars, testVars, edited>>

NoDocument == [elements |-> <<>>, links |-> <<>>]
NoThread == [phase |-> "none"]
NewElement(type, index) == [Type |-> type, Index |-> index, links |-> <<>>]
Freed    == NewElement("freed", 0)

TopologyInit ==
  /\ open = TRUE /\ mArrayElements = <<>>
  /\ element = [x \in Elements |-> Freed]
  /\ disk = NoDocument
  /\ mTesting = FALSE
  /\ thread = [t \in Testers |-> NoThread]
  /\ asserted = FALSE /\ skewed = FALSE /\ overlapped = FALSE /\ edited = FALSE

-----------------------------------------------------------------------------
(* The array.                                                              *)

Count          == Len(mArrayElements)
Indices        == 0 .. (Count - 1)
GetItemData(i) == mArrayElements[i + 1]
Item(i)        == element[GetItemData(i)]
InDocument     == {GetItemData(i) : i \in Indices}

\* The entries of a sequence at some of its places, in their order.
Before(places, n) == {m \in places : m < n}
AtPlaces(seq, places) ==
  [k \in 1 .. Cardinality(places) |->
     seq[CHOOSE n \in places : Cardinality(Before(places, n)) = k - 1]]

\* The elements of some types, in the order of the array.
PlacesOf(types) == {n \in DOMAIN mArrayElements : element[mArrayElements[n]].Type \in types}
Those(types)    == AtPlaces(mArrayElements, PlacesOf(types))

Tested  == \E t \in Testers : thread[t].phase # "none"
\* A document whose indices do not fit is not edited further (a bound).
Editing == open /\ ~asserted /\ ~skewed

\* A bound: under a test the user edits until elements have come or gone.
Void == Tested /\ edited

\* The entries of all LinkedTo arrays.
AllLinks == {p \in Indices \X (1 .. 2 * MaxLinks) : p[2] \in DOMAIN Item(p[1]).links}

-----------------------------------------------------------------------------
(* Links.                                                                  *)

IsNAT(x) == element[x].Type = "eNAT"

\* A step of IsReachableAux from the element of index i: over every link, but
\* between two NATs only if it enters the other one at its private side.
Leads(i, link) == IsNAT(GetItemData(i)) /\ IsNAT(link.to) => link.connector = "ePrivate"

Steps ==
  {p \in Indices \X Indices :
     \E k \in DOMAIN Item(p[1]).links : /\ element[Item(p[1]).links[k].to].Index = p[2]
                                        /\ Leads(p[1], Item(p[1]).links[k])}

\* Where steps lead to from a start, as many as there are elements.
Near(nodes, steps, start) ==
  LET near[n \in 0 .. Count] ==
        IF n = 0 THEN start
        ELSE near[n - 1] \cup {j \in nodes : \E i \in near[n - 1] : <<i, j>> \in steps}
  IN  near[Count]

\* The search goes by the indices the elements hold.  It finds what some way of
\* at least one step leads to, in whatever order it visits the elements.
IsReachable(to, from) == to \in Near(Indices, Steps, {j \in Indices : <<from, j>> \in Steps})

\* A simulated client or server is linked to a NAT it does not reach yet, from
\* either end; two NATs, and the real hosts, are linked whatever there is.
Linkable(start, end) ==
  /\ start.Index # end.Index
  /\ start.Type \in Simulated \ {"eNAT"} =>
       end.Type = "eNAT" /\ ~IsReachable(end.Index, start.Index)
  /\ start.Type = "eNAT" /\ end.Type \in Simulated \ {"eNAT"} =>
       ~IsReachable(start.Index, end.Index)

Joined(x, y, connector) ==
  [element[x] EXCEPT !.links = Append(@, [to |-> y, connector |-> connector])]

\* ValidateLink: each end of a link keeps the connector of the other one.  The
\* user says which if both are NATs; other links are public on both sides.
ValidateLink(i, j, connectorI, connectorJ) ==
  LET x == GetItemData(i)
      y == GetItemData(j)
  IN  /\ Editing /\ Linkable(element[x], element[y])
      /\ (IsNAT(x) /\ IsNAT(y)) \/ (connectorI = "ePublic" /\ connectorJ = "ePublic")
      /\ ~Void /\ Cardinality(AllLinks) < 2 * MaxLinks
      /\ element' = [element EXCEPT ![x] = Joined(x, y, connectorJ),
                                    ![y] = Joined(y, x, connectorI)]
      /\ UNCHANGED <<open, mArrayElements, disk, asserted, skewed, testVars, edited>>

-----------------------------------------------------------------------------
(* Elements.                                                               *)

InsertElement(type) ==
  /\ Editing /\ ~Void /\ Count < MaxElements
  /\ LET x == CHOOSE x \in Elements : x \notin InDocument
     IN  /\ mArrayElements' = Append(mArrayElements, x)
         /\ element' = [element EXCEPT ![x] = NewElement(type, Count)]
  /\ edited' = (edited \/ Tested)
  /\ UNCHANGED <<open, disk, asserted, skewed, testVars>>

\* Mutant: the entry that moves up after a removal is not looked at.
UnlinkFirst(links, x) ==
  IF \E k \in DOMAIN links : links[k].to = x
  THEN RemoveAt(links, CHOOSE k \in DOMAIN links :
                         links[k].to = x /\ \A l \in 1 .. (k - 1) : links[l].to # x)
  ELSE links

Unlink(links, x) == AtPlaces(links, {k \in DOMAIN links : links[k].to # x})

\* OnDeleteitem: the elements behind move up, and all links to it go.  No test
\* stops it.
OnDeleteitem(i) ==
  LET x == GetItemData(i)
      Behind(y) == \E j \in Indices : j > i /\ GetItemData(j) = y
      Place(y)  == CHOOSE j \in Indices : GetItemData(j) = y
  IN  /\ Editing /\ ~Void
      /\ mArrayElements' = [n \in 1 .. (Count - 1) |-> GetItemData(IF n <= i THEN n - 1 ELSE n)]
      /\ element' = [y \in Elements |->
           IF y = x THEN Freed
           ELSE [element[y] EXCEPT !.links = Unlink(@, x),
                                   !.Index = IF Behind(y) THEN Place(y) - 1 ELSE @]]
      /\ edited' = (edited \/ Tested)
      /\ UNCHANGED <<open, disk, asserted, skewed, testVars>>

-----------------------------------------------------------------------------
(* Files of documents.                                                     *)

\* WriteDocument leaves the real hosts out, but not the links to them, and
\* writes the indices the elements hold.
WriteDocument ==
  LET kept     == Those(Simulated)
      Saved(x) == [Type |-> element[x].Type, Index |-> element[x].Index]
      Line(x)  == [from |-> element[x].Index,
                   to |-> [k \in DOMAIN element[x].links |->
                             [index     |-> element[element[x].links[k].to].Index,
                              connector |-> element[x].links[k].connector]]]
      lines    == [n \in DOMAIN kept |-> Line(kept[n])]
  IN  [elements |-> [n \in DOMAIN kept |-> Saved(kept[n])],
       links    |-> AtPlaces(lines, {n \in DOMAIN lines : lines[n].to # <<>>})]

\* Mutant: a test does not keep its document.
CloseAnyway == TRUE

\* CanCloseFrame, OnCloseDocument.
MayClose == ~mTesting

\* The document is closed, having been saved or not.
OnCloseDocument(saved) ==
  /\ Editing /\ ~Void /\ MayClose
  /\ disk' = saved
  /\ open' = FALSE /\ mArrayElements' = <<>>
  /\ element' = [x \in Elements |-> Freed]
  /\ edited' = (edited \/ Tested)
  /\ UNCHANGED <<asserted, skewed, testVars>>

\* Another document, but not next to a test that lost its own.  (A bound: what was
\* saved is opened next or never, and once.)
OnNewDocument ==
  /\ ~open /\ ~asserted /\ ~Tested
  /\ open' = TRUE /\ mTesting' = FALSE
  /\ disk' = NoDocument
  /\ UNCHANGED <<mArrayElements, element, asserted, skewed, thread, overlapped, edited>>

\* The indices the lines of the links mention.
Mentioned ==
  {disk.links[n].from : n \in DOMAIN disk.links} \cup
  UNION {{disk.links[n].to[k].index : k \in DOMAIN disk.links[n].to} : n \in DOMAIN disk.links}

\* The links that the lines of a file give the element they mention as the p-th.
ReadLinks(lines, p) ==
  LET those   == AtPlaces(lines, {n \in DOMAIN lines : lines[n].from + 1 = p})
      Read(to) == [k \in DOMAIN to |-> [to |-> to[k].index + 1, connector |-> to[k].connector]]
  IN  FlattenSeq([n \in DOMAIN those |-> Read(those[n].to)])

\* Serialize and the Read functions: the elements come back in their order with
\* the index they had, and the lines of the links are read as positions in the
\* array.  GetItemData asserts that these exist.
OnOpenDocument ==
  LET m == Len(disk.elements) IN
  /\ ~open /\ ~asserted /\ ~Tested
  /\ open' = TRUE /\ mTesting' = FALSE
  /\ asserted' = \E index \in Mentioned : index >= m
  /\ skewed' = \E p \in 1 .. m : disk.elements[p].Index + 1 # p
  /\ mArrayElements' = [p \in 1 .. m |-> p]
  /\ element' = [x \in Elements |->
       IF x > m THEN Freed
       ELSE [Type  |-> disk.elements[x].Type,
             Index |-> disk.elements[x].Index,
             links |-> ReadLinks(disk.links, x)]]
  /\ disk' = NoDocument
  /\ UNCHANGED <<thread, overlapped, edited>>

-----------------------------------------------------------------------------
(* CreateConfigFiles.                                                      *)

LinkedTo(x) == {element[x].links[k].to : k \in DOMAIN element[x].links}

\* Mutant: the NATs behind this one are those at its public side.
PrivateIPsPrivate(x) ==
  {y \in LinkedTo(x) : element[y].Type = "eSTUNClient"} \cup
  {y \in LinkedTo(x) : IsNAT(y) /\ [to |-> y, connector |-> "ePrivate"] \in
                         {element[x].links[k] : k \in DOMAIN element[x].links}}

\* Whom a NAT's file lists as private hosts, by their addresses: the clients
\* linked to it and the NATs whose public connector is.
PrivateIPs(x) ==
  {y \in LinkedTo(x) : element[y].Type = "eSTUNClient"} \cup
  {y \in LinkedTo(x) : IsNAT(y) /\ [to |-> y, connector |-> "ePublic"] \in
                         {element[x].links[k] : k \in DOMAIN element[x].links}}

\* Whom it lists as public hosts.
PublicIPs(x) ==
  {y \in InDocument : /\ element[y].Index # element[x].Index
                      /\ element[y].Type = "eSTUNServer"
                      /\ IsReachable(element[y].Index, element[x].Index)}

\* Whom a server's file lists.
NATPublicIPs(x) == {y \in LinkedTo(x) : IsNAT(y)}

\* A file for each server and NAT, numbered in the order of the array, and one
\* for the clients, lettered in that order.
CreateConfigFiles ==
  LET servers == Those(Servers)
      nats    == Those({"eNAT"})
  IN  [clients |-> Those(Clients),
       servers |-> [n \in DOMAIN servers |->
                      [object |-> servers[n], NATPublicIPs |-> NATPublicIPs(servers[n])]],
       nats    |-> [n \in DOMAIN nats |->
                      [object |-> nats[n], PrivateIPs |-> PrivateIPs(nats[n]),
                       PublicIPs |-> PublicIPs(nats[n])]]]

-----------------------------------------------------------------------------
(* The test thread.                                                        *)

Listed(types) ==
  [n \in DOMAIN Those(types) |-> [object |-> Those(types)[n], Index |-> element[Those(types)[n]].Index]]

\* StartTest, whether a test runs or not, and ThreadTest up to its dialog, which
\* shows the clients and servers there are.
StartTest(t) ==
  /\ Editing /\ thread[t].phase = "none" /\ Count > 0
  /\ thread' = [thread EXCEPT ![t] = [phase |-> "dialog", clients |-> Listed(Clients),
                                      servers |-> Listed(Servers)]]
  /\ overlapped' = Tested
  /\ edited' = (Tested /\ edited)
  /\ UNCHANGED <<docVars, mTesting>>

\* Nothing of the document is used then.
Cancel(t) ==
  /\ thread[t].phase = "dialog"
  /\ thread' = [thread EXCEPT ![t] = NoThread]
  /\ UNCHANGED <<docVars, mTesting, overlapped, edited>>

\* What OnBnClickedOk of the dialog lets pass: one server, and one client, or two for
\* the overloading test.
TestDlg(t) ==
  LET clients == thread[t].clients
      servers == thread[t].servers
  IN  [clients : {<<clients[a]>> : a \in DOMAIN clients} \cup
                 {<<clients[p[1]], clients[p[2]]>> :
                    p \in {p \in (DOMAIN clients) \X (DOMAIN clients) : p[1] < p[2]}},
       server  : {servers[s] : s \in DOMAIN servers}]

\* Then the files are written; until the flag is raised the document may be closed.
Confirm(t, clients, server) ==
  /\ Editing /\ thread[t].phase = "dialog"
  /\ thread' = [thread EXCEPT ![t] = [phase |-> "files", clients |-> clients, server |-> server,
                                      files |-> CreateConfigFiles]]
  /\ UNCHANGED <<docVars, mTesting, overlapped, edited>>

SetTesting(t) ==
  /\ Editing /\ thread[t].phase = "files"
  /\ mTesting' = TRUE
  /\ thread' = [thread EXCEPT ![t] = [phase |-> "testing", clients |-> @.clients,
                                      server |-> @.server, files |-> @.files]]
  /\ UNCHANGED <<docVars, overlapped, edited>>

\* Mutant: the letter goes on with every element.
NameOfAny(type, index) ==
  LET found == {n \in DOMAIN mArrayElements : element[mArrayElements[n]].Index = index}
  IN  IF found = {} THEN 1 ELSE CHOOSE n \in found : \A m \in found : m <= n

\* The number, or the letter, of the element with that index among those of a type.
NameOf(type, index) ==
  LET found == {n \in DOMAIN Those({type}) : element[Those({type})[n]].Index = index}
  IN  IF found = {} THEN 1 ELSE CHOOSE n \in found : \A m \in found : m <= n

\* The NATs and the servers are started, the n-th with the n-th file, and the
\* test is told the letters and the number of those chosen.
Run(t) ==
  /\ Editing /\ thread[t].phase = "testing"
  /\ thread' = [thread EXCEPT ![t] =
       [phase      |-> "running",
        clients    |-> @.clients, server |-> @.server, files |-> @.files,
        fromClient |-> [n \in DOMAIN @.clients |-> NameOf("eSTUNClient", @.clients[n].Index)],
        toServer   |-> NameOf("eSTUNServer", @.server.Index),
        parts      |-> [nats |-> Those({"eNAT"}), servers |-> Those({"eSTUNServer"})]]]
  /\ UNCHANGED <<docVars, mTesting, overlapped, edited>>

\* The parts are stopped.
End(t) ==
  /\ Editing /\ thread[t].phase = "running"
  /\ thread' = [thread EXCEPT ![t] = NoThread]
  /\ mTesting' = FALSE
  /\ UNCHANGED <<docVars, overlapped, edited>>

\* A test whose document was closed goes on with what was deleted: what it does is
\* undefined.  (A bound: it stays, and no document comes again.)
Stray(t) ==
  /\ ~open /\ thread[t].phase \in {"dialog", "files", "testing", "running"}
  /\ thread' = [thread EXCEPT ![t] = [phase |-> "stray"]]
  /\ UNCHANGED <<docVars, mTesting, overlapped, edited>>

TopologyNext ==
  \/ \E i, j \in Indices, ci, cj \in Connectors : ValidateLink(i, j, ci, cj)
  \/ \E type \in Types : InsertElement(type)
  \/ \E i \in Indices : OnDeleteitem(i)
  \/ \E saved \in {disk, WriteDocument} : OnCloseDocument(saved)
  \/ OnNewDocument \/ OnOpenDocument
  \/ \E t \in Testers : \/ StartTest(t) \/ Cancel(t) \/ SetTesting(t)
                          \/ Run(t) \/ End(t) \/ Stray(t)
  \/ \E t \in Testers :
       /\ thread[t].phase = "dialog"
       /\ \E answer \in TestDlg(t) : Confirm(t, answer.clients, answer.server)

TopologySpec == TopologyInit /\ [][TopologyNext]_topoVars
-----------------------------------------------------------------------------
(* Properties.                                                             *)

Objects(seq) == [n \in DOMAIN seq |-> seq[n].object]

NoReal == \A x \in InDocument : element[x].Type \notin Real

\* How many real hosts of a kind come before an index.
RealsAhead(types, index) == Cardinality(Before(PlacesOf(types \cap Real), index + 1))

Links(x, y) == {k \in DOMAIN element[x].links : element[x].links[k].to = y}
LinksBy(x, y, connector) == {k \in Links(x, y) : element[x].links[k].connector = connector}

\* The array, the indices and the links fit whatever is inserted, linked, deleted,
\* saved and opened: every element has the index of its place, and every link is
\* there from both its ends, none leading to an element that is gone.
LinksMutual ==
  ~skewed /\ ~asserted =>
    /\ \A i \in Indices : Item(i).Index = i
    /\ \A x \in InDocument : LinkedTo(x) \subseteq InDocument
    /\ \A x, y \in InDocument : Cardinality(Links(x, y)) = Cardinality(Links(y, x))

\* Every link of two NATs joins a private and a public side, and no client or
\* server is in between two NATs.
Proper ==
  /\ ~skewed /\ ~asserted /\ NoReal
  /\ \A x \in InDocument : ~IsNAT(x) => Len(element[x].links) <= 1
  /\ \A x, y \in InDocument : IsNAT(x) /\ IsNAT(y) =>
       Cardinality(LinksBy(x, y, "ePrivate")) = Cardinality(LinksBy(y, x, "ePublic"))

\* The NATs that carry a packet from n to s by what the files list: each lists
\* the one before as a private host and s as a public one.
Carriers(n, s) ==
  LET lists == {p \in InDocument \X InDocument :
                  IsNAT(p[2]) /\ p[1] \in PrivateIPs(p[2]) /\ s \in PublicIPs(p[2])}
  IN  Near(InDocument, lists, {n})

\* The files of a proper document, one for each element, add up to routes: if a
\* NAT lists a server, the NATs of the way there list each other and the server,
\* and the server lists the last of them.
RoutesComplete ==
  Proper => \A n, s \in InDocument :
    IsNAT(n) /\ s \in PublicIPs(n) => Carriers(n, s) \cap NATPublicIPs(s) # {}

\* The object is at the place that is as far behind a number as there are real hosts
\* of its kind before it.
FiledBehind(seq, number, types, index, object) ==
  LET place == number + RealsAhead(types, index)
  IN  place \in DOMAIN seq /\ seq[place] = object

\* The letters and numbers are counted once when the files are written, with the real
\* hosts, and again when they are used, without.  As long as no element has come or
\* gone, what was written for a chosen client or server, and for a server that is
\* started, falls behind what is used by exactly the real hosts of its kind before it:
\* where there are none, a test uses the client and the server the user chose, and
\* every part reads its own file; the NATs always do.
ChosenIsTested ==
  \A t \in Testers :
    LET run     == thread[t]
        servers == Objects(run.files.servers)
    IN  run.phase = "running" /\ ~edited =>
          /\ \A n \in DOMAIN run.clients :
               LET chosen == run.clients[n]
               IN  element[chosen.object].Type \in Simulated =>
                     FiledBehind(run.files.clients, run.fromClient[n], Clients,
                                 chosen.Index, chosen.object)
          /\ element[run.server.object].Type \in Simulated =>
               FiledBehind(servers, run.toServer, Servers, run.server.Index, run.server.object)
          /\ \A n \in DOMAIN run.parts.servers :
               LET part == run.parts.servers[n]
               IN  FiledBehind(servers, n, Servers, element[part].Index, part)
          /\ run.parts.nats = Objects(run.files.nats)

\* A document stays open while one of its tests runs, from the raising of the flag
\* on; unless two tests overlap, the first to end resetting the flag of both.  Before,
\* during the dialog and while the files are written, nothing keeps the user from
\* closing it under the test.
TestKeepsDocument ==
  ~open /\ ~overlapped => \A t \in Testers : thread[t].phase \notin {"testing", "running"}

\* NATSimulatorDoc.cpp:532 asserts of the index of every element looked up:
\* "mArrayElements.GetCount() > index".
AssertionHolds == ~asserted
==================================================================================
