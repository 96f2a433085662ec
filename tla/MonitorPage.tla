----------------------------- MODULE MonitorPage -----------------------------
(***************************************************************************)
(* The monitoring page of a device, all of its parts in one specification: *)
(* the uptime card (UptimeClock), the charts (MonitorFeed), the dashboard  *)
(* tab (RouterCards) and the tabs of interfaces and vlans (InterfaceList). *)
(*                                                                         *)
(* The parts hand each other values that each module takes from a set of   *)
(* its own, and share no state.  So a behaviour is of one of them, part,   *)
(* while the others stay as they were at the beginning: interleaving them  *)
(* would show nothing that each does not show alone.                       *)
(***************************************************************************)
EXTENDS UptimeClock

CONSTANTS
    Devices, Pages, Watched, Values, MaxSamples, MaxRestarts, None,     \* MonitorFeed
    Cards, Averages, MaxDays, Totals,                                   \* RouterCards
    Interfaces, TypeOf, TermsOf, IndexTermsOf, Terms, Statuses, MaxChanges   \* InterfaceList

VARIABLES
    part,             \* the part this behaviour is of
    chartsKind, chartsStrict, chartsPage, chartsClock, collection, sending,
    routerData, memo, arrived,
    document, query, data, used, total,
    router, walk, list, tab, search, filter, expanded

chartsVars == <<chartsKind, chartsStrict, chartsPage, chartsClock, collection, sending,
                routerData, memo, arrived>>
cardsVars == <<document, query, data, used, total>>
listsVars == <<router, walk, list, tab, search, filter, expanded>>
pageVars == <<part, vars, chartsVars, cardsVars, listsVars>>

Charts == INSTANCE MonitorFeed WITH
    kind <- chartsKind, strict <- chartsStrict, page <- chartsPage, clock <- chartsClock
Dashboard == INSTANCE RouterCards
Lists == INSTANCE InterfaceList

ASSUME PartsAssumption ==
    /\ Charts!FeedAssumption /\ Dashboard!ValuesAssumption /\ Lists!TablesAssumption

Parts == {"clock", "charts", "dashboard", "lists"}

\* A part that does not run begins in one state: which one does not matter.
Still(name, state, states) == part # name => state = CHOOSE s \in states : TRUE

PageInit ==
    /\ part \in Parts
    /\ Init /\ Charts!Init /\ Dashboard!Init /\ Lists!Init
    /\ Still("clock", up, Starts)
    /\ Still("charts", <<chartsKind, chartsStrict>>, Pages \X BOOLEAN)
    /\ Still("lists", router, [Interfaces -> Statuses])

PageNext ==
    \/ /\ part = "clock" /\ Next
       /\ UNCHANGED <<part, chartsVars, cardsVars, listsVars>>
    \/ /\ part = "charts" /\ Charts!Next
       /\ UNCHANGED <<part, vars, cardsVars, listsVars>>
    \/ /\ part = "dashboard" /\ Dashboard!Next
       /\ UNCHANGED <<part, vars, chartsVars, listsVars>>
    \/ /\ part = "lists" /\ Lists!Next
       /\ UNCHANGED <<part, vars, chartsVars, cardsVars>>

PageSpec == PageInit /\ [][PageNext]_pageVars
-----------------------------------------------------------------------------
\* Every variable of the part that runs holds a value of its kind: no history or list is longer
\* than it may be, and the card's carries keep its seconds, minutes and hours a clock's.
PageTypeOK ==
    /\ part \in Parts
    /\ CASE part = "clock" -> TypeOK
         [] part = "charts" -> Charts!TypeOK
         [] part = "dashboard" -> Dashboard!TypeOK
         [] part = "lists" -> Lists!TypeOK

\* Whatever is sent for other devices, missed, restarted or run twice, a page's charts
\* are made of the newest samples that came to it, each once, of its own device, as of now.
ChartsAreRight == part = "charts" =>
    /\ Charts!WindowsAreNewest /\ Charts!ShownIsOwn /\ Charts!ChartsAreFresh
    /\ Charts!ChartsGoForward /\ Charts!CurrentIsLast

\* What a panel of the page says in one place agrees with what it says in another: the
\* uptime and the chip above it; value, subtitle, badge and chart of a card; use, free
\* space and slice of a ring; the chips of a tab and the cards its filters show, one for
\* each interface, in the tab of its type.
PanelsAgree ==
    /\ part = "clock" => FaceIsUptime
    /\ part = "dashboard" =>
          /\ Dashboard!ValueWithinChart /\ Dashboard!SubtitleAgrees
          /\ Dashboard!BadgeAgrees /\ Dashboard!RingsAddUp
    /\ part = "lists" => Lists!ChipsAgree /\ Lists!CardsAreOfTheTab

\* Lists that arrive in another order, with rows that came or went, leave an open card
\* open and the others closed, and each status was the interface's while it was collected.
ListsKeep == Lists!OpenCardsStay /\ Lists!StatusesWereSo
=============================================================================
