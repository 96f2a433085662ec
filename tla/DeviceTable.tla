---------------------------- MODULE DeviceTable ----------------------------
(***************************************************************************)
(* The table of the routers, transmitters or switches: DataTable.tsx with  *)
(* the fetch of GenericDataTableFetch.tsx and the three screens that use   *)
(* it.  The table keeps its query (page, filter, sort) in its state and in *)
(* the URL, asks the server for the whole list at every change and cuts    *)
(* the page out of the answer.  No request is ever cancelled, a deletion   *)
(* ends with a reload, and the answers come in any order.                  *)
(***************************************************************************)
EXTENDS Integers, Sequences, FiniteSets, SequencesExt

CONSTANTS
    Screens,          \* the paths of the screens considered, of the three below
    OpenedWith,       \* the queries of the search parameters a table is opened with
    Ids,              \* the devices of the list, a set of integers: the server's order
    Names,            \* the values of the column that is filtered and sorted, integers: their order
    Filters,          \* the filters a user sets: names, or NoFilter
    Sorts,            \* the sort orders a user sets, of {"none", "asc", "desc"}
    PageSize,
    MaxLoads,         \* bound: how many requests for the list are sent
    MaxChanges,       \* bound: how often others change the devices
    NoFilter, None

Queries == [page : Nat, filter : Names \cup {NoFilter}, sort : {"none", "asc", "desc"}]

TableAssumption ==
    /\ Screens \subseteq {"/routers", "/transmitters", "/switches"}
    /\ OpenedWith \subseteq Queries
    /\ Filters \subseteq Names \cup {NoFilter} /\ Sorts \subseteq {"none", "asc", "desc"}
    /\ Ids \subseteq Int /\ Names \subseteq Int /\ PageSize \in Nat \ {0} /\ MaxLoads \in Nat
    /\ None \notin Ids /\ None \notin {"error", "crashed"}

VARIABLES
    screen,           \* the path of the screen the table is on
    server,           \* the devices the server has
    url,              \* the query in the search parameters
    query,            \* paginationModel, filterModel and sortModel
    table,            \* rowsState, isLoading and error
    loads,            \* every request for the list, in the order they were sent
    deletion,         \* for each device, a deletion on its way and the query of its closure
    changes,          \* how often others have changed the devices
    inTurn,           \* history: the request that was settled last was the newest then
    strayed           \* history: the search parameters were dropped by another navigation

vars == <<screen, server, url, query, table, loads, deletion, changes, inTurn, strayed>>

RoutersScreen == [path |-> "/routers", monitor |-> "/router"]
TransmittersScreen == [path |-> "/transmitters", monitor |-> "/transmitters"]
SwitchesScreen == [path |-> "/switches", monitor |-> None]
TheScreen == CHOOSE s \in {RoutersScreen, TransmittersScreen, SwitchesScreen} : s.path = screen

FirstQuery == [page |-> 0, filter |-> NoFilter, sort |-> "none"]
NoRows == [rows |-> <<>>, count |-> 0]

\* null, which is what the server sends for no devices: it becomes the one row.
Nil == [id |-> None, name |-> None, active |-> FALSE]
NoDeletion == [state |-> "none", query |-> FirstQuery]
-----------------------------------------------------------------------------
\* What a request is answered: useDataTableFetch.

\* A filter throws at a field of null.
Readable(S, f) == S # {} \/ f = NoFilter

Filtered(S, f) == {r \in S : f \in {NoFilter, r.name}}

\* Array.sort, which is stable: devices of one name stay in the server's order.
Before(a, b, s) ==
    \/ s = "asc" /\ a.name < b.name
    \/ s = "desc" /\ a.name > b.name
    \/ (s = "none" \/ a.name = b.name) /\ a.id < b.id

\* The k-th is the one that k - 1 others come before.
Preceding(r, S, s) == Cardinality({t \in S : Before(t, r, s)})
Sorted(S, s) == [k \in 1..Cardinality(S) |-> CHOOSE r \in S : Preceding(r, S, s) = k - 1]

\* The items of the response that are left; one that is not a list counts as one item.
Listed(S, q) == IF S = {} THEN <<Nil>> ELSE Sorted(Filtered(S, q.filter), q.sort)

Page(items, p) ==
    LET left == Len(items) - p * PageSize
    IN  [i \in 1..(IF left < PageSize THEN left ELSE PageSize) |-> items[p * PageSize + i]]

Answer(S, q) == [rows |-> Page(Listed(S, q), q.page), count |-> Len(Listed(S, q))]

LastPage(count) == IF count = 0 THEN 0 ELSE (count - 1) \div PageSize
-----------------------------------------------------------------------------
OnItsWay == {i \in DOMAIN loads : loads[i].state \in {"sent", "answered", "refused"}}
Deleting == {d \in Ids : deletion[d].state # "none"}

RoomFor(requests) == Len(loads) + Cardinality(Deleting) + requests <= MaxLoads
Room == RoomFor(1)

\* Of the requests that are done only the newest is remembered.
Past == [query |-> FirstQuery, reloadOf |-> None, state |-> "done", answer |-> NoRows]
Remembered(requests) ==
    [i \in DOMAIN requests |-> IF requests[i].state = "done" THEN Past ELSE requests[i]]
Settled(i) ==
    [loads EXCEPT ![i] = IF i = Len(loads) THEN [@ EXCEPT !.state = "done"] ELSE Past]

\* loadData with the query q, after the deletion of d if it is its reload: the error is
\* cleared, the rows stay until the answer.
Request(q, d) == [query |-> q, reloadOf |-> d, state |-> "sent", answer |-> NoRows]
Load(q, d) == loads' = Append(Remembered(loads), Request(q, d))
Loading == [table EXCEPT !.loading = TRUE, !.error = None]

\* The table is drawn: the error takes the place of the grid with its pages, filters,
\* sort orders and rows; the button that loads again is there in both.
GridShown == table.error = None

\* The grid throws at a row without an identity, and React takes the whole page away.
Crashed == table.error = "crashed"
Drawn(t) == IF Crashed THEN table
            ELSE IF Nil \in ToSet(t.rows) THEN [t EXCEPT !.error = "crashed", !.loading = FALSE]
            ELSE t

\* The buttons of a row, by the columns' getActions: to its monitor, where the screen has
\* one and the device is active, to its form, and to its deletion.
RowActions(r) ==
    {"edit", "delete"} \cup (IF TheScreen.monitor # None /\ r.active THEN {"monitor"} ELSE {})
Offered(action, r) == GridShown /\ r \in ToSet(table.rows) /\ action \in RowActions(r)

\* A handler sets its model, which reloads, and its part of the search parameters.
Turn(q) ==
    /\ q # query
    /\ query' = q
    /\ Room
    /\ Load(q, None)
    /\ table' = Loading
    /\ UNCHANGED <<screen, server, deletion, changes, inTurn, strayed>>

\* handlePaginationModelChange: the pages the grid offers are those of the row count.
TurnPage(p) ==
    /\ GridShown
    /\ p \in 0..LastPage(table.count)
    /\ url' = [url EXCEPT !.page = p]
    /\ Turn([query EXCEPT !.page = p])

\* The grid hears of a new filter or order in an effect and turns to its first page, which
\* calls handlePaginationModelChange before the table's own effect runs: on any other page
\* two requests are sent, the first for the page that is left.
TurnToStart(q, first) ==
    /\ q # query
    /\ query' = first
    /\ RoomFor(2)
    /\ loads' = Append(Append(Remembered(loads), Request(q, None)), Request(first, None))
    /\ table' = Loading
    /\ UNCHANGED <<screen, server, deletion, changes, inTurn, strayed>>

\* handleFilterModelChange.
SetFilter(f) ==
    /\ GridShown
    /\ url' = [url EXCEPT !.filter = f, !.page = 0]
    /\ LET q == [query EXCEPT !.filter = f]
       IN  IF query.page = 0 THEN Turn(q) ELSE TurnToStart(q, [q EXCEPT !.page = 0])

\* handleSortModelChange.
SetSort(s) ==
    /\ GridShown
    /\ url' = [url EXCEPT !.sort = s, !.page = 0]
    /\ LET q == [query EXCEPT !.sort = s]
       IN  IF query.page = 0 THEN Turn(q) ELSE TurnToStart(q, [q EXCEPT !.page = 0])

RefreshFirst ==      \* mistake: the load of the first render
    /\ ~table.loading
    /\ Room
    /\ Load(FirstQuery, None)
    /\ table' = Loading
    /\ UNCHANGED <<screen, server, url, query, deletion, changes, inTurn, strayed>>

\* loadData where there may be an error to clear: the grid is mounted again, and when its
\* rows have become fewer meanwhile it turns to the last page there is.
Outgrown == table.error = "error" /\ table.count > 0 /\ query.page > LastPage(table.count)
Reload(q, d) ==
    LET last == [query EXCEPT !.page = LastPage(table.count)]
    IN  IF Outgrown
        THEN /\ query' = last
             /\ url' = [url EXCEPT !.page = LastPage(table.count)]
             /\ loads' = Append(Append(Remembered(loads), Request(q, d)), Request(last, None))
        ELSE Load(q, d) /\ UNCHANGED <<url, query>>

\* handleRefresh.
Refresh ==
    /\ ~table.loading /\ ~Crashed
    /\ Room
    /\ Reload(query, None)
    /\ table' = Loading
    /\ UNCHANGED <<screen, server, deletion, changes, inTurn, strayed>>
-----------------------------------------------------------------------------
\* The answers.

\* The server answers a request, or it fails on the way.
Serve(i) ==
    /\ loads[i].state = "sent"
    /\ \/ /\ Readable(server, loads[i].query.filter)
          /\ loads' = [loads EXCEPT ![i].state = "answered",
                                    ![i].answer = Answer(server, loads[i].query)]
       \/ loads' = [loads EXCEPT ![i].state = "refused"]
    /\ UNCHANGED <<screen, server, url, query, table, deletion, changes, inTurn, strayed>>

\* The answer arrives, whichever request it is of.  When the count has changed and the
\* page is beyond it, the grid turns to the last page there is, which is a new request.
Arrive(i) ==
    /\ loads[i].state = "answered"
    /\ LET count == loads[i].answer.count
           rows == [rows |-> loads[i].answer.rows, count |-> count,
                    loading |-> FALSE, error |-> table.error]
           beyond == /\ count # table.count /\ table.error = None
                     /\ query.page > LastPage(count)
           last == [query EXCEPT !.page = LastPage(count)]
       IN  IF beyond
           THEN /\ query' = last
                /\ url' = [url EXCEPT !.page = LastPage(count)]
                /\ table' = [rows EXCEPT !.loading = TRUE]
                /\ loads' = Append(Remembered(Settled(i)), Request(last, None))
           ELSE /\ table' = Drawn(rows)
                /\ loads' = Settled(i)
                /\ UNCHANGED <<url, query>>
    /\ inTurn' = (i = Len(loads))
    /\ UNCHANGED <<screen, server, deletion, changes, strayed>>

FailSpinning(i) ==      \* mistake: the loading flag is reset inside the try block
    /\ loads[i].state = "refused"
    /\ table' = [table EXCEPT !.error = "error"]
    /\ loads' = Settled(i)
    /\ inTurn' = (i = Len(loads))
    /\ UNCHANGED <<screen, server, url, query, deletion, changes, strayed>>

\* The request has failed: the error takes the place of the grid.
Fail(i) ==
    /\ loads[i].state = "refused"
    /\ table' = Drawn([table EXCEPT !.error = "error", !.loading = FALSE])
    /\ loads' = Settled(i)
    /\ inTurn' = (i = Len(loads))
    /\ UNCHANGED <<screen, server, url, query, deletion, changes, strayed>>
-----------------------------------------------------------------------------
\* Deletions: handleRowDelete.

\* The user confirms the deletion of a row that is shown.
Delete(d) ==
    /\ \E r \in ToSet(table.rows) : r.id = d /\ Offered("delete", r)
    /\ deletion[d].state = "none"
    /\ Room
    /\ deletion' = [deletion EXCEPT ![d] = [state |-> "sent", query |-> query]]
    /\ table' = [table EXCEPT !.loading = TRUE]
    /\ UNCHANGED <<screen, server, url, query, loads, changes, inTurn, strayed>>

\* The server deletes the device, or fails to.
ServeDelete(d) ==
    /\ deletion[d].state = "sent"
    /\ \/ /\ server' = {r \in server : r.id # d}
          /\ deletion' = [deletion EXCEPT ![d].state = "deleted"]
       \/ /\ deletion' = [deletion EXCEPT ![d].state = "refused"]
          /\ UNCHANGED server
    /\ UNCHANGED <<screen, url, query, table, loads, changes, inTurn, strayed>>

\* The deletion is answered: the loadData of the render in which it was clicked is
\* called, not awaited, and the loading flag is reset while it is on its way.
Deleted(d) ==
    /\ deletion[d].state = "deleted"
    /\ Reload(deletion[d].query, d)
    /\ table' = Drawn([table EXCEPT !.loading = Outgrown, !.error = None])
    /\ deletion' = [deletion EXCEPT ![d] = NoDeletion]
    /\ UNCHANGED <<screen, server, changes, inTurn, strayed>>

DeleteFailed(d) ==
    /\ deletion[d].state = "refused"
    /\ table' = Drawn([table EXCEPT !.loading = FALSE])
    /\ deletion' = [deletion EXCEPT ![d] = NoDeletion]
    /\ UNCHANGED <<screen, server, url, query, loads, changes, inTurn, strayed>>
-----------------------------------------------------------------------------
\* The surroundings.

\* Somebody else creates, edits or deletes a device; so does the form of this screen,
\* which does not tell the table.  Bound: only while the table may still ask.
OthersChange(d) ==
    /\ changes < MaxChanges /\ Room
    /\ changes' = changes + 1
    /\ \E S \in {{}} \cup {{r} : r \in [id : {d}, name : Names, active : BOOLEAN]} :
          server' = {r \in server : r.id # d} \cup S
    /\ UNCHANGED <<screen, url, query, table, loads, deletion, inTurn, strayed>>

\* The screen's path is navigated to without its search parameters, as after a save:
\* the table stays as it is.
Stray ==
    /\ url # FirstQuery /\ ~Crashed
    /\ url' = FirstQuery
    /\ strayed' = TRUE
    /\ UNCHANGED <<screen, server, query, table, loads, deletion, changes, inTurn>>

\* The monitor action of a row leaves for its page and the user comes back, or he loads a
\* page that is blank again: the query is read from the URL, and what was on its way is
\* answered to nobody.
Reopened ==
    /\ query' = url
    /\ table' = [rows |-> <<>>, count |-> 0, loading |-> TRUE, error |-> None]
    /\ Room
    /\ loads' = Append([i \in DOMAIN loads |-> Past], Request(url, None))
    /\ strayed' = FALSE
    /\ inTurn' = TRUE

LeaveAndReturn ==
    /\ Deleting = {}
    /\ Crashed \/ \E r \in ToSet(table.rows) : Offered("monitor", r)
    /\ Reopened
    /\ UNCHANGED <<screen, server, url, deletion, changes>>
-----------------------------------------------------------------------------
FirstServers == {S \in SUBSET [id : Ids, name : Names, active : {TRUE}] :
                    IsFiniteSet(S) /\ \A r, s \in S : r.id = s.id => r = s}

Init ==
    /\ screen \in Screens
    /\ server \in FirstServers
    /\ url \in OpenedWith
    /\ query = url
    /\ table = [rows |-> <<>>, count |-> 0, loading |-> TRUE, error |-> None]
    /\ loads = <<Request(url, None)>>
    /\ deletion = [d \in Ids |-> NoDeletion]
    /\ changes = 0
    /\ inTurn = TRUE
    /\ strayed = FALSE

Answers == \E i \in DOMAIN loads : Serve(i) \/ Arrive(i) \/ Fail(i)
Deletions == \E d \in Ids : ServeDelete(d) \/ Deleted(d) \/ DeleteFailed(d)

Next ==
    \/ \E p \in 0..LastPage(table.count) : TurnPage(p)
    \/ \E f \in Filters : SetFilter(f)
    \/ \E s \in Sorts : SetSort(s)
    \/ Refresh \/ Stray \/ LeaveAndReturn
    \/ Answers \/ Deletions
    \/ \E d \in Ids : Delete(d) \/ OthersChange(d)

Spec == Init /\ [][Next]_vars

-----------------------------------------------------------------------------
Quiet == OnItsWay = {} /\ Deleting = {}

\* Every variable holds a value of its kind; the count is never less than the rows.
TypeOK ==
    /\ screen \in Screens
    /\ server \subseteq [id : Ids, name : Names, active : BOOLEAN]
    /\ {url, query} \subseteq Queries
    /\ table.rows \in Seq([id : Ids, name : Names, active : BOOLEAN] \cup {Nil})
    /\ Len(table.rows) <= table.count /\ Len(table.rows) <= PageSize
    /\ table.loading \in BOOLEAN /\ table.error \in {None, "error", "crashed"}
    /\ \A i \in DOMAIN loads : loads[i].state \in {"sent", "answered", "refused", "done"}
    /\ deletion \in [Ids -> [state : {"none", "sent", "deleted", "refused"},
                             query : Queries]]

\* Whatever the filter and the order, turning the pages of one answer shows every
\* device that matches exactly once.
PagesPartition ==
    server # {} =>
        LET matching == {r \in server : query.filter \in {NoFilter, r.name}}
            count == Answer(server, query).count
            pages == [p \in 0..LastPage(count) |->
                         ToSet(Answer(server, [query EXCEPT !.page = p]).rows)]
        IN  /\ count = Cardinality(matching)
            /\ UNION {pages[p] : p \in DOMAIN pages} = matching
            /\ \A p, q \in DOMAIN pages : p # q => pages[p] \cap pages[q] = {}

\* As long as nobody else has navigated, the URL names the query the table is asked
\* for: leaving the table and coming back, or sending the link, shows the same.
UrlIsTheQuery == ~strayed => url = query

\* Once everything is answered, nothing is loading, and the rows are those of the newest
\* request unless the answer of an older one came after it: whatever requests overlap,
\* and however many a click sends, only the order of the last two answers matters.
QuietIsRight ==
    Quiet =>
        /\ ~table.loading
        /\ inTurn /\ table.error = None =>
              LET answer == Last(loads).answer
              IN  table.rows = answer.rows /\ table.count = answer.count

\* Whatever overtakes what, the grid is on one of the pages it has, also when the devices
\* have become fewer while it was hidden behind an error.
PageExists ==
    GridShown /\ table.count > 0 => query.page <= LastPage(table.count)

\* Whatever overtakes what, the newest request is of the current query, unless it is
\* the reload of a deletion: refreshing always asks for what the controls show.
NewestIsCurrent ==
    Last(loads).reloadOf = None => Last(loads).query = query

\* The reload that follows a deletion is answered after it: unless somebody creates it
\* again, the device is not among the rows it brings.
ReloadFollowsDeletion ==
    \A i \in DOMAIN loads :
        changes = 0 /\ loads[i].reloadOf # None =>
            \A r \in ToSet(loads[i].answer.rows) : r.id # loads[i].reloadOf

\* As the grid's label for a list without rows says (noRowsLabel), every row that is drawn
\* is a device, also when there are none.
RowsAreDevices == Nil \notin ToSet(table.rows)
=============================================================================
