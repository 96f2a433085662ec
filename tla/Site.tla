--------------------------------- MODULE Site ---------------------------------
(***************************************************************************)
(* The rest of the site that keeps state of its own: the document of a     *)
(* router with its statistics (RouterStatistics), the table and the form   *)
(* of the devices' screens (DeviceTable, DeviceForm), the session of the   *)
(* browser's tabs (Session) and the dashboard of the traffic               *)
(* (VersionDashboard).                                                     *)
(*                                                                         *)
(* They share no state: the form tells the table nothing, and each module  *)
(* has in it what others may do to its devices.  So, as in MonitorPage, a  *)
(* behaviour is of one of them.                                            *)
(***************************************************************************)
EXTENDS RouterStatistics

CONSTANTS
    Ids, Names, None, MaxChanges,                                        \* both of
    Screens, OpenedWith, Filters, Sorts, PageSize, MaxLoads, NoFilter,   \* DeviceTable
    Existing, MaxSaves, MaxReloads, Blank, Default, Typed,        \* and DeviceForm
    Tabs, Users, MaxLogins,                                              \* Session
    HoursOfDay, Offset, WindowDays, DaysOfMonth, Gigabyte,
    Start, MaxHours                                                      \* VersionDashboard

VARIABLES
    part,             \* the part this behaviour is of
    screen, tableServer, url, query, table, loads, deletion, tableChanges, inTurn, strayed,
    place, formServer, born, rows, modal, form, saves, latest, formChanges,
    storage, tab, logins,
    now, counted, cache, open, selected

tableVars == <<screen, tableServer, url, query, table, loads, deletion, tableChanges,
               inTurn, strayed>>
formVars == <<place, formServer, born, rows, modal, form, saves, latest, formChanges>>
sessionVars == <<storage, tab, logins>>
trafficVars == <<now, counted, cache, open, selected>>
siteVars == <<part, vars, tableVars, formVars, sessionVars, trafficVars>>

Table == INSTANCE DeviceTable WITH server <- tableServer, changes <- tableChanges
Form == INSTANCE DeviceForm WITH server <- formServer, changes <- formChanges
Sessions == INSTANCE Session
Traffic == INSTANCE VersionDashboard

ASSUME PartsAssumption ==
    /\ Table!TableAssumption /\ Form!FormAssumption
    /\ Sessions!SessionAssumption /\ Traffic!CalendarAssumption

Parts == {"document", "table", "form", "session", "traffic"}

\* A part that does not run begins in one state: which one does not matter.
Still(name, state, states) == part # name => state = CHOOSE s \in states : TRUE

SiteInit ==
    /\ part \in Parts
    /\ Init /\ Table!Init /\ Form!Init /\ Sessions!Init /\ Traffic!Init
    /\ Still("document", older, SUBSET Averaged)
    /\ Still("table", <<screen, tableServer, url>>, Screens \X Table!FirstServers \X OpenedWith)
    /\ Still("form", formServer, Form!FirstServers)

SiteNext ==
    \/ /\ part = "document" /\ Next
       /\ UNCHANGED <<part, tableVars, formVars, sessionVars, trafficVars>>
    \/ /\ part = "table" /\ Table!Next
       /\ UNCHANGED <<part, vars, formVars, sessionVars, trafficVars>>
    \/ /\ part = "form" /\ Form!Next
       /\ UNCHANGED <<part, vars, tableVars, sessionVars, trafficVars>>
    \/ /\ part = "session" /\ Sessions!Next
       /\ UNCHANGED <<part, vars, tableVars, formVars, trafficVars>>
    \/ /\ part = "traffic" /\ Traffic!Next
       /\ UNCHANGED <<part, vars, tableVars, formVars, sessionVars>>

\* Every request is answered or fails, and React runs the effects of what it renders.
SiteFairness ==
    /\ WF_tableVars(part = "table" /\ Table!Answers)
    /\ WF_tableVars(part = "table" /\ Table!Deletions)
    /\ \A t \in Tabs : WF_sessionVars(part = "session" /\ Sessions!Check(t))

SiteSpec == SiteInit /\ [][SiteNext]_siteVars /\ SiteFairness
-----------------------------------------------------------------------------
\* Every variable of the part that runs holds a value of its kind: no page is longer than it may
\* be, no invalid form is sent, a tab shows a path that has a route.
SiteTypeOK ==
    /\ part \in Parts
    /\ CASE part = "document" -> TypeOK
         [] part = "table" -> Table!TypeOK
         [] part = "form" -> Form!TypeOK
         [] part = "session" -> Sessions!TypeOK
         [] part = "traffic" -> Traffic!TypeOK

\* Once all requests are answered nothing is loading, and the table shows the newest
\* request's answer unless that of an older one overtook it; whatever overtakes what, the
\* grid is on a page there is, a refresh asks for what the controls and the URL say, and
\* the reload after a deletion does not bring the device back.
TableIsRight == part = "table" =>
    /\ Table!QuietIsRight /\ Table!PageExists /\ Table!NewestIsCurrent
    /\ Table!ReloadFollowsDeletion /\ Table!UrlIsTheQuery
    /\ Table!PagesPartition

\* Whatever forms are opened, saved and refused while earlier saves are on their way, no
\* device gets another's fields or name, none that was deleted comes back, and a draft
\* that is refused stays.
FormKeeps ==
    /\ [](Form!NoCrossover /\ Form!NamesUnique)
    /\ Form!DeletedStaysDeleted /\ Form!DraftsSurviveErrors

\* Whatever tabs log in and out meanwhile, a guard's answer is shown for its own kind of
\* page and the menu names the user whose token is used, unless another tab has logged in
\* since it was drawn.
SessionIsRight == part = "session" =>
    Sessions!GuardsAnswerForTheirPage /\ Sessions!MenuNamesTheUser

\* The hours under a day are that day's, all that its row is made of, and dated right.
TrafficIsRight == part = "traffic" =>
    /\ Traffic!DetailIsOfItsDay /\ Traffic!DaysMatchTheirHours /\ Traffic!DatesReadRight

\* No progress indicator stays: not over a table, and not for the guard of a tab (any one
\* of them, as they are alike) unless its user keeps asking for pages.
ProgressEnds ==
    /\ part = "table" /\ table.loading ~> ~table.loading
    /\ Sessions!GuardSettles(CHOOSE t \in Tabs : TRUE)
=============================================================================
