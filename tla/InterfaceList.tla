----------------------------- MODULE InterfaceList -----------------------------
(***************************************************************************)
(* The tabs of a router's interfaces and of its VLANs, from the walks of    *)
(* the collectors (physicalInterfaces.go, vlans.go) to the cards drawn by   *)
(* PhysicalInterfacesList.tsx and VlanList.tsx, which are copies.           *)
(*                                                                          *)
(* A collector walks one table after another while the router goes on       *)
(* changing, and puts its list together from Go maps, in any order.  The    *)
(* component keeps what the user searched, filtered and opened while lists  *)
(* replace each other.  That the list shown is an older one is the matter   *)
(* of MonitorFeed: here the lists that arrive are shown.                    *)
(***************************************************************************)
EXTENDS Integers, Sequences, FiniteSets, SequencesExt

CONSTANTS
  Interfaces,    \* indices of the rows of the router's tables
  TypeOf,        \* the ifType of each of them
  TermsOf,       \* search terms found in its name, MAC or IP address
  IndexTermsOf,  \* search terms found in its index
  Terms,         \* what a user may search
  Statuses,      \* the statuses an interface may have: ifAdminStatus and ifOperStatus
  MaxChanges     \* bound: changes of the router during one collection

Tabs == {"interfaces", "vlans"}
Empty == ""

\* What the walks leave for a row that is not there any more.
Gone == [admin |-> 0, oper |-> 0]

\* IsPhysicalInterface and IsVlan: the types of which a tab's collector takes rows.
PhysicalTypes == {1, 6, 26, 62, 69, 117}
VlanTypes == {135, 136, 137, 222}
Types(t) == IF t = "interfaces" THEN PhysicalTypes ELSE VlanTypes

TablesAssumption ==
  /\ Empty \notin Terms /\ MaxChanges \in Nat /\ IsFiniteSet(Interfaces)
  /\ Statuses \subseteq [admin : 1..3, oper : 1..7]
  /\ TypeOf \in [Interfaces -> Nat]
  /\ TermsOf \in [Interfaces -> SUBSET Terms]
  /\ IndexTermsOf \in [Interfaces -> SUBSET Terms]

VARIABLES
  router,      \* the router's tables: a status, or Gone, for each index
  walk,        \* the collection under way
  list,        \* by tab, the list the page has
  tab,         \* the tab that is shown
  search, filter, expanded    \* the state of its component

component == <<tab, search, filter, expanded>>
vars == <<router, walk, list, component>>

Idle == [at |-> "idle"]
Entries == [index : Interfaces, admin : 0..3, oper : 0..7]
NoIndex == 0

TypeOK ==
  /\ router \in [Interfaces -> Statuses \cup {Gone}]
  /\ walk.at \in {"idle", "names", "types", "admin"}
  /\ list \in [Tabs -> Seq(Entries)]
  /\ tab \in Tabs
  /\ search \in Terms \cup {Empty} /\ filter \in {"all", "up", "down"}
  /\ expanded \in Interfaces \cup {NoIndex}

-----------------------------------------------------------------------------
(* What is shown *)

\* getAdminStatusInfo.
AdminInfo(status) ==
  CASE status = 1 -> "Ativo" [] status = 2 -> "Desativado" [] status = 3 -> "Testando"
    [] OTHER -> "Desconhecido"

\* getOperStatusInfo: dormant, not present and lower layer down are all unknown.
OperInfo(status) ==
  CASE status = 1 -> "Up" [] status = 2 -> "Down" [] status = 3 -> "Testando"
    [] OTHER -> "Unknown"

\* getInterfaceTypeLabel and getVlanTypeLabel: a type they do not name is a number.  The
\* VLANs of layer two, which are of type 135, are bridges to the one as to the other.
InterfaceLabel(type) ==
  CASE type = 6 -> "Ethernet" [] type = 24 -> "Loopback" [] type = 131 -> "Tunnel"
    [] type = 135 -> "Bridge" [] OTHER -> "Type"
VlanLabel(type) ==
  CASE type = 6 -> "Ethernet" [] type = 135 -> "Bridge" [] type = 136 -> "VLAN"
    [] OTHER -> "Type"
Label(i) == IF tab = "interfaces" THEN InterfaceLabel(TypeOf[i]) ELSE VlanLabel(TypeOf[i])

\* The search looks into name, MAC and addresses, and into the index of a VLAN.
InterfaceMatches(term, entry) == term = Empty \/ term \in TermsOf[entry.index]
VlanMatches(term, entry) == InterfaceMatches(term, entry) \/ term \in IndexTermsOf[entry.index]

\* "Inativas" is everything that is not up.
Passes(f, entry) ==
  \/ f = "all"
  \/ f = "up" /\ entry.oper = 1
  \/ f = "down" /\ entry.oper # 1

\* Array.filter: the entries that are in a set, in their order.  It is SelectSeq, by the
\* number of entries looked at, so that it can be reasoned about.
Only(entries, chosen) ==
  LET only[k \in 0..Len(entries)] ==
        IF k = 0 THEN <<>>
        ELSE IF entries[k] \in chosen THEN Append(only[k - 1], entries[k]) ELSE only[k - 1]
  IN  only[Len(entries)]

\* filteredInterfaces and filteredVlans.
FilteredInterfaces(entries, term, f) ==
  Only(entries, {e \in Entries : InterfaceMatches(term, e) /\ Passes(f, e)})
FilteredVlans(entries, term, f) ==
  Only(entries, {e \in Entries : VlanMatches(term, e) /\ Passes(f, e)})
Filtered(t, term, f) ==
  IF t = "interfaces" THEN FilteredInterfaces(list[t], term, f) ELSE FilteredVlans(list[t], term, f)

\* getStatusStats: the numbers on the chips, whatever is searched.
Stats(entries) ==
  LET up == Len(Only(entries, {e \in Entries : e.oper = 1}))
      down == Len(Only(entries, {e \in Entries : e.oper # 1}))
  IN  [up |-> up, down |-> down, all |-> Len(entries)]

\* What a card says when it is open; the addresses are those of the interface.
Details(entry) == [admin |-> AdminInfo(entry.admin)]

\* Mistake: the card at the place of the one that was opened.
CardByPlace(entry) ==
  [index |-> entry.index, label |-> Label(entry.index),
   oper |-> OperInfo(entry.oper), details |-> Details(entry),
   open |-> expanded # NoIndex /\ expanded <= Len(list[tab]) /\ list[tab][expanded] = entry]

\* A card: its title, its labels and, below, what opens.
Card(entry) ==
  [index |-> entry.index, label |-> Label(entry.index),
   oper |-> OperInfo(entry.oper), details |-> Details(entry), open |-> expanded = entry.index]

CardsOf(entries) == [k \in DOMAIN entries |-> Card(entries[k])]

Message(filtered) ==
  IF filtered # <<>> THEN "none"
  ELSE IF search # Empty \/ filter # "all" THEN "adjust the filters"
  ELSE "waiting for data"

\* The tab: a message instead of everything while there is no list; a header with the
\* counts, the search and the chips, the cards, and a message if none is left.
Waiting == [view |-> "waiting"]
Dashboard(entries, filtered) ==
  [view    |-> "list",
   shown   |-> Len(filtered), of |-> Len(entries),
   chips   |-> Stats(entries),
   cards   |-> CardsOf(filtered),
   message |-> Message(filtered)]

InterfacesTab ==
  IF list["interfaces"] = <<>> THEN Waiting
  ELSE Dashboard(list["interfaces"], FilteredInterfaces(list["interfaces"], search, filter))
VlansTab ==
  IF list["vlans"] = <<>> THEN Waiting
  ELSE Dashboard(list["vlans"], FilteredVlans(list["vlans"], search, filter))
Tab == IF tab = "interfaces" THEN InterfacesTab ELSE VlansTab

-----------------------------------------------------------------------------
(* The collection *)

Init ==
  /\ router \in [Interfaces -> Statuses \cup {Gone}]
  /\ walk = Idle
  /\ list = [t \in Tabs |-> <<>>]
  /\ tab = "interfaces"
  /\ search = Empty /\ filter = "all" /\ expanded = NoIndex

Present == {i \in Interfaces : router[i] # Gone}

\* An interface is created or removed, goes up or down; the walk remembers what it was.
Change(i, status) ==
  /\ router[i] # status
  /\ walk.at # "idle" => walk.changes < MaxChanges
  /\ router' = [router EXCEPT ![i] = status]
  /\ walk' = IF walk.at = "idle" THEN walk 
            ELSE [walk EXCEPT !.seen[i] = @ \cup {status}, !.changes = @ + 1]
  /\ UNCHANGED <<list, component>>

\* GetTreeAsIndexMap of the names: the rows the list will be made of.
WalkNames(t) ==
  /\ walk.at = "idle"
  /\ walk' = [at |-> "names", tab |-> t, rows |-> Present, changes |-> 0,
              seen |-> [i \in Interfaces |-> {router[i]}]]
  /\ UNCHANGED <<router, list, component>>

\* Of the types: a row that is gone meanwhile, or is of another type, is skipped.
WalkTypes ==
  /\ walk.at = "names"
  /\ walk' = [walk EXCEPT !.at = "types",
                !.rows = {i \in @ \cap Present : TypeOf[i] \in Types(walk.tab)}]
  /\ UNCHANGED <<router, list, component>>

\* Of the administrative status, and of the operational one: 0 for a row that is gone.
WalkAdmin ==
  /\ walk.at = "types"
  /\ walk' = [at |-> "admin", tab |-> walk.tab, rows |-> walk.rows, changes |-> walk.changes,
              seen |-> walk.seen, admin |-> [i \in walk.rows |-> router[i].admin]]
  /\ UNCHANGED <<router, list, component>>

\* The list arrives: the rows of the names in the order of a Go map.
Listed(order) ==
  [k \in DOMAIN order |->
     [index |-> order[k], admin |-> walk.admin[order[k]], oper |-> router[order[k]].oper]]

Collected(order) ==
  /\ walk.at = "admin"
  /\ list' = [list EXCEPT ![walk.tab] = Listed(order)]
  /\ walk' = Idle
  /\ UNCHANGED <<router, component>>

\* A walk fails: there is no list this time, and the last one stays.
WalkFails ==
  /\ walk.at # "idle"
  /\ walk' = Idle
  /\ UNCHANGED <<router, list, component>>

-----------------------------------------------------------------------------
(* The user *)

Search(term) ==
  /\ list[tab] # <<>> /\ search # term
  /\ search' = term
  /\ UNCHANGED <<router, walk, list, tab, filter, expanded>>

SetStatusFilter(f) ==
  /\ list[tab] # <<>> /\ filter # f
  /\ filter' = f
  /\ UNCHANGED <<router, walk, list, tab, search, expanded>>

\* toggleExpand, on a card that is shown: one card is open at a time.
ToggleExpand(i) ==
  /\ \E k \in DOMAIN Filtered(tab, search, filter) : Filtered(tab, search, filter)[k].index = i
  /\ expanded' = IF expanded = i THEN NoIndex ELSE i
  /\ UNCHANGED <<router, walk, list, tab, search, filter>>

\* The other tab: its component starts anew.
ChangeTab ==
  /\ tab' \in Tabs \ {tab}
  /\ search' = Empty /\ filter' = "all" /\ expanded' = NoIndex
  /\ UNCHANGED <<router, walk, list>>

Next ==
  \/ \E i \in Interfaces, s \in Statuses \cup {Gone} : Change(i, s)
  \/ \E t \in Tabs : WalkNames(t)
  \/ WalkTypes \/ WalkAdmin \/ WalkFails
  \/ walk.at = "admin" /\ \E order \in SetToSeqs(walk.rows) : Collected(order)
  \/ \E term \in Terms \cup {Empty} : Search(term)
  \/ \E f \in {"all", "up", "down"} : SetStatusFilter(f)
  \/ \E i \in Interfaces : ToggleExpand(i)
  \/ ChangeTab

Spec == Init /\ [][Next]_vars

-----------------------------------------------------------------------------
(* What the tabs promise *)

\* The chips count what their filter would show: up and down make up the whole, and with
\* nothing searched each filter shows as many cards as its chip says.
ChipsAgree ==
  LET shown == Tab IN
  shown.view = "list" =>
    /\ shown.chips.up + shown.chips.down = shown.of
    /\ \A f \in {"all", "up", "down"} : Len(Filtered(tab, Empty, f)) = shown.chips[f]

\* A card is opened and closed by nothing but its button: lists that arrive in another
\* order, with rows that joined or left, searches and filters leave it as it was.
CardsShown == ToSet(CardsOf(Filtered(tab, search, filter)))
OpenCardsStay ==
  [][UNCHANGED <<tab, expanded>> /\ <<list, search, filter>>' # <<list, search, filter>> =>
       \A before \in CardsShown, after \in CardsShown' :
         before.index = after.index => before.open = after.open]_vars

\* Every card is of an interface of the types of the tab's collector, once, whichever tab
\* the lists under way were collected for.
CardsAreOfTheTab ==
  LET shown == Tab IN
  shown.view = "list" =>
    \A k \in DOMAIN shown.cards :
      /\ TypeOf[shown.cards[k].index] \in Types(tab)
      /\ \A j \in DOMAIN shown.cards : shown.cards[j].index = shown.cards[k].index => j = k

\* Statuses are read in two walks and may not have been so together, but each was so,
\* of this very interface, at some time of the collection that brought it.
StatusesWereSo ==
  [][\A t \in Tabs : list'[t] # list[t] =>
       \A k \in DOMAIN list'[t] :
         LET entry == list'[t][k] IN
         /\ \E s \in walk.seen[entry.index] : s.admin = entry.admin
         /\ \E s \in walk.seen[entry.index] : s.oper = entry.oper]_vars
=============================================================================
