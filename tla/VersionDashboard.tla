---------------------------- MODULE VersionDashboard ----------------------------
(***************************************************************************)
(* The dashboard of IPv4 and IPv6 traffic: ipVersionMetricService.go, which *)
(* adds up the buckets of FlowAccounting by day and by hour of Brazil, the  *)
(* three queries of IPVersionMetrics.tsx with their cache, and the page of  *)
(* IPVersionDashboard.tsx, where a click on a day opens its hours.          *)
(*                                                                          *)
(* Time is counted in hours of Brazil, so that hour h is of the day         *)
(* h \div HoursOfDay, and a day is a number instead of its date.  How many  *)
(* flows an hour had does not matter: no number of theirs reaches the page. *)
(***************************************************************************)
EXTENDS Integers, Sequences, FiniteSetsExt, SequencesExt

CONSTANTS
  HoursOfDay,  \* 24
  Offset,      \* 3: hours of Brazil's day that UTC counts to the next one
  WindowDays,  \* 30
  DaysOfMonth, \* the length of every month
  Gigabyte,    \* 1024, in megabytes
  Start,       \* the hour it is at the beginning
  MaxHours     \* bound: hours that pass

Versions == {"ipv4", "ipv6"}

CalendarAssumption ==
  /\ HoursOfDay \in Nat \ {0} /\ Offset \in 1..(HoursOfDay - 1)
  /\ WindowDays \in Nat /\ DaysOfMonth \in Nat \ {0} /\ Gigabyte \in Nat \ {0}
  /\ Start \in Nat /\ MaxHours \in Nat

Hours == Start..(Start + MaxHours)
DayOf(h) == h \div HoursOfDay
Days == {DayOf(h) : h \in Hours}

\* The queries: two lists by day, and one of the hours of each day.  The one that
\* useIPVersionFlowsPercentByDay makes of "" while no day is selected is left out: it
\* always fails, and nothing shows it.
NoDay == -1
FlowsQuery == [list |-> "flows"]
BytesQuery == [list |-> "bytes"]
HoursQuery(d) == [hoursOf |-> d]
Queries == {FlowsQuery, BytesQuery} \cup {HoursQuery(d) : d \in Days}
NoQuery == [status |-> "pending", fetching |-> FALSE, has |-> FALSE, data |-> <<>>]

VARIABLES
  now,      \* the hour
  counted,  \* the hours that have buckets: flows were counted in them
  cache,    \* the browser's query cache, and the hour each answer is of
  open,     \* the dashboard is the page shown
  selected  \* selectedDate

vars == <<now, counted, cache, open, selected>>

-----------------------------------------------------------------------------
(* The service *)

\* AddDate(0, 0, -30).Truncate(24 * time.Hour): Truncate goes to a midnight of UTC.
StartOfWindow == ((now - WindowDays * HoursOfDay + Offset) \div HoursOfDay) * HoursOfDay - Offset
InWindow == {h \in Hours : h >= StartOfWindow}

\* $sort: a set of days in order, by the number of days looked at, of which there are no
\* more than hours.
InOrder(days) ==
  LET sorted[n \in 0..(MaxHours + 1)] ==
        IF n = 0 THEN <<>>
        ELSE IF DayOf(Start) + n - 1 \in days THEN Append(sorted[n - 1], DayOf(Start) + n - 1)
             ELSE sorted[n - 1]
  IN  sorted[MaxHours + 1]

\* The days of the window that have buckets, in order.
HoursInWindow(d) == {h \in counted \cap InWindow : DayOf(h) = d}
DaysCounted == InOrder({d \in Days : HoursInWindow(d) # {}})

\* What cursor.All makes of the numbers in the documents of the pipelines: the structs have
\* no bson tags, so it looks for them by their lowercased names and leaves them zero.  Only
\* date and hour are found.
NoShares == [ipv4Percentage |-> 0, ipv6Percentage |-> 0, totalFlows |-> 0]
NoMB == [v \in Versions |-> 0]

\* Mistake: grouped by the day of UTC.
FlowsPercentOfUTC ==
  LET Of(d) == {h \in counted \cap InWindow : (h + Offset) \div HoursOfDay = d}
      days == InOrder({d \in Days : Of(d) # {}})
  IN  [k \in DOMAIN days |-> [date |-> days[k], row |-> NoShares, of |-> Of(days[k])]]

\* GetIPVersionFlowsPercent.  Of a row, `of` is no field but history: the hours that were
\* grouped into it.
FlowsPercent == [k \in DOMAIN DaysCounted |->
                   [date |-> DaysCounted[k], row |-> NoShares, of |-> HoursInWindow(DaysCounted[k])]]

\* GetIPVersionBytes.
Bytes == [k \in DOMAIN DaysCounted |-> [date |-> DaysCounted[k], mb |-> NoMB]]

\* GetIPVersionFlowsPercentByDay: every hour of the day, from its midnight in Brazil,
\* also those without a bucket.
FlowsPercentByDay(d) ==
  [k \in 1..HoursOfDay |->
     [hour |-> k - 1, row |-> NoShares, of |-> counted \cap {d * HoursOfDay + k - 1}]]

\* What the three requests answer.
Served(q) ==
  IF q = FlowsQuery THEN FlowsPercent
  ELSE IF q = BytesQuery THEN Bytes ELSE FlowsPercentByDay(q.hoursOf)

-----------------------------------------------------------------------------
(* The page *)

\* The query of useIPVersionFlowsPercentByDay(selectedDate || ""), once a day is selected.
Detail == HoursQuery(selected)

\* isLoading: the first fetch is under way.
Loading(q) == cache[q].status = "pending" /\ cache[q].fetching
Failing(q) == cache[q].status = "error"

\* What `data` is, or an empty list for undefined.
Data(q) == cache[q].data
Added(Of(_), rows) == FoldLeft(LAMBDA sum, r : sum + Of(r), 0, rows)

\* avgIPv4Percentage and avgIPv6Percentage: every day counts the same.
Mean(v) ==
  LET Of(r) == IF v = "ipv4" THEN r.row.ipv4Percentage ELSE r.row.ipv6Percentage
  IN  IF Data(FlowsQuery) = <<>> THEN 0 ELSE Added(Of, Data(FlowsQuery)) \div Len(Data(FlowsQuery))

TotalFlows == Added(LAMBDA r : r.row.totalFlows, Data(FlowsQuery))
TotalMB(v) == Added(LAMBDA r : r.mb[v], Data(BytesQuery))

\* formatBytes, up to the digits.
FormatBytes(mb) == [mb |-> mb, unit |-> IF mb >= Gigabyte THEN "GB" ELSE "MB"]

MeanCard(v) == [value |-> Mean(v), chip |-> FormatBytes(TotalMB(v))]
FlowsCard == TotalFlows
VolumeCard == FormatBytes(TotalMB("ipv4") + TotalMB("ipv6"))
Pie == [v \in Versions |-> [value |-> Mean(v), mb |-> FormatBytes(TotalMB(v))]]

\* The date a day has, and the one formatDate writes: `new Date` takes the midnight of UTC,
\* which for a viewer in Brazil is still the day before; getDate is mended by one, getMonth not.
DateOf(d) == <<(d % DaysOfMonth) + 1, d \div DaysOfMonth>>
FormatDate(d) == LET local == DateOf(d - 1) IN <<local[1] + 1, local[2]>>

HasMultipleDataPoints == Len(Data(FlowsQuery)) >= 2

\* FlowPercentTooltip and BytesTooltip, for each point; without flows the total is left out.
FlowTooltip(by, point) ==
  [label |-> IF by = "hour" THEN point.hour ELSE point.date, ipv4 |-> point.row.ipv4Percentage,
   ipv6 |-> point.row.ipv6Percentage, total |-> point.row.totalFlows, of |-> point.of]
BytesTooltip(point) ==
  [label |-> point.date, volumes |-> [v \in Versions |-> FormatBytes(point.mb[v])],
   total |-> FormatBytes(point.mb["ipv4"] + point.mb["ipv6"])]

\* The chart of the percentages: of the days, or of the hours of the day selected.
EvolutionChart ==
  LET by == IF selected = NoDay THEN "date" ELSE "hour"
      points == IF selected = NoDay THEN Data(FlowsQuery) ELSE Data(Detail)
  IN  [kind |-> "chart", by |-> by, clickable |-> selected = NoDay,
       points |-> [k \in DOMAIN points |-> FlowTooltip(by, points[k])]]

EvolutionPanel ==
  IF selected # NoDay /\ Loading(Detail) THEN [kind |-> "spinner"]
  ELSE IF HasMultipleDataPoints \/ selected # NoDay THEN EvolutionChart
  ELSE [kind |-> "no data"]

BytesChart == [k \in DOMAIN Data(BytesQuery) |->
                 [tick |-> FormatDate(Data(BytesQuery)[k].date), bars |-> BytesTooltip(Data(BytesQuery)[k])]]

Header == IF selected = NoDay THEN "in real time" ELSE "hours of the day"

Skeletons == [view |-> "loading"]
ErrorMessage == [view |-> "error"]
Dashboard ==
  [view |-> "dashboard", header |-> Header, means |-> [v \in Versions |-> MeanCard(v)],
   flows |-> FlowsCard, volume |-> VolumeCard, pie |-> Pie,
   evolution |-> EvolutionPanel, bytes |-> BytesChart]

Page ==
  IF Loading(FlowsQuery) \/ Loading(BytesQuery) THEN Skeletons
  ELSE IF Failing(FlowsQuery) \/ Failing(BytesQuery) THEN ErrorMessage
  ELSE Dashboard

-----------------------------------------------------------------------------
DayRows == [date : Days, row : {NoShares}, of : SUBSET Hours]
HourRows == [hour : 0..(HoursOfDay - 1), row : {NoShares}, of : SUBSET Hours]

TypeOK ==
  /\ now \in Hours /\ counted \subseteq Hours
  /\ \A q \in Queries :
       /\ cache[q].status \in {"pending", "success", "error"}
       /\ cache[q].fetching \in BOOLEAN /\ cache[q].has \in BOOLEAN
  /\ Data(FlowsQuery) \in Seq(DayRows)
  /\ Data(BytesQuery) \in Seq([date : Days, mb : {NoMB}])
  /\ \A d \in Days : Data(HoursQuery(d)) \in Seq(HourRows)
  /\ open \in BOOLEAN /\ selected \in Days \cup {NoDay}

Init ==
  /\ now = Start
  /\ counted = {}
  /\ cache = [q \in Queries |-> NoQuery]
  /\ open = FALSE /\ selected = NoDay

Pass ==
  /\ now + 1 \in Hours
  /\ now' = now + 1
  /\ UNCHANGED <<counted, cache, open, selected>>

\* IncrementCounters of the pipeline, into a bucket of this hour, which is made by the first.
Count ==
  /\ now \notin counted
  /\ counted' = counted \cup {now}
  /\ UNCHANGED <<now, cache, open, selected>>

-----------------------------------------------------------------------------
(* The queries *)

\* The component looks at qs: what was never answered is fetched, what was answered is
\* fetched again if that was more than five minutes ago, here any of it.
Started(query) ==
  [query EXCEPT !.fetching = TRUE, !.status = IF query.has THEN @ ELSE "pending"]
Look(qs) ==
  \E stale \in SUBSET {q \in qs : cache[q].has} :
    cache' = [q \in Queries |->
                IF q \in qs /\ (~cache[q].has \/ q \in stale) THEN Started(cache[q]) ELSE cache[q]]

Observed ==
  IF ~open THEN {} ELSE {FlowsQuery, BytesQuery} \cup (IF selected = NoDay THEN {} ELSE {Detail})

\* The window is looked at again, or the network is back.
Refetch(q) ==
  /\ q \in Observed /\ ~cache[q].fetching
  /\ cache' = [cache EXCEPT ![q] = Started(@)]
  /\ UNCHANGED <<now, counted, open, selected>>

Answered(q) ==
  /\ cache[q].fetching
  /\ cache' = [cache EXCEPT ![q] = [status |-> "success", fetching |-> FALSE, has |-> TRUE,
                                    data |-> Served(q)]]
  /\ UNCHANGED <<now, counted, open, selected>>

\* It failed, and so did its one retry: the error, beside the data there may be.
Failed(q) ==
  /\ cache[q].fetching
  /\ cache' = [cache EXCEPT ![q].fetching = FALSE, ![q].status = "error"]
  /\ UNCHANGED <<now, counted, open, selected>>

\* Five minutes after nothing looks at it any more, an answer is forgotten.
Forget(q) ==
  /\ q \notin Observed /\ ~cache[q].fetching /\ cache[q] # NoQuery
  /\ cache' = [cache EXCEPT ![q] = NoQuery]
  /\ UNCHANGED <<now, counted, open, selected>>

-----------------------------------------------------------------------------
(* The user *)

Open ==
  /\ ~open
  /\ open' = TRUE /\ selected' = NoDay
  /\ Look({FlowsQuery, BytesQuery})
  /\ UNCHANGED <<now, counted>>

Leave ==
  /\ open
  /\ open' = FALSE /\ selected' = NoDay
  /\ UNCHANGED <<now, counted, cache>>

\* handlePointClick, on a point of the days' chart.
HandlePointClick(d) ==
  /\ open /\ Page.view = "dashboard"
  /\ EvolutionPanel.kind = "chart" /\ EvolutionPanel.clickable
  /\ \E k \in DOMAIN Data(FlowsQuery) : Data(FlowsQuery)[k].date = d
  /\ selected' = d
  /\ Look({HoursQuery(d)})
  /\ UNCHANGED <<now, counted, open>>

HandleBackToDaily ==
  /\ open /\ selected # NoDay /\ Page.view = "dashboard"
  /\ selected' = NoDay
  /\ UNCHANGED <<now, counted, cache, open>>

\* What the service answers depends on nothing the browser does.
ServiceNext == Pass \/ Count

Next ==
  \/ ServiceNext
  \/ \E q \in Queries : Refetch(q) \/ Answered(q) \/ Failed(q) \/ Forget(q)
  \/ Open \/ Leave
  \/ \E d \in Days : HandlePointClick(d)
  \/ HandleBackToDaily

Spec == Init /\ [][Next]_vars
-----------------------------------------------------------------------------
(* What the dashboard promises *)

Shown == open /\ Page.view = "dashboard"

\* The chart under "hours of the day" is of the day selected, whatever was selected before
\* and whichever answers came late: its points are the day's hours in order, each made of
\* that hour's buckets alone, and dates never mix with them.
DetailIsOfItsDay ==
  Shown /\ selected # NoDay /\ EvolutionPanel.kind = "chart" =>
    \A k \in DOMAIN EvolutionPanel.points :
      /\ EvolutionPanel.points[k].label = k - 1
      /\ EvolutionPanel.points[k].of \subseteq {selected * HoursOfDay + k - 1}

\* What is grouped into a day's row is what its hours are made of when it is clicked: the
\* two pipelines cut time at the same midnights, for every day but the first of the window.
FirstDay == DayOf(StartOfWindow)
DaysMatchTheirHours ==
  \A day \in ToSet(FlowsPercent) :
    day.date # FirstDay => day.of = UNION {hour.of : hour \in ToSet(FlowsPercentByDay(day.date))}

\* A viewer in Brazil reads the right dates under the charts, except on the first of a month.
DatesReadRight ==
  Shown => \A k \in DOMAIN BytesChart :
    LET date == DateOf(BytesChart[k].bars.label) IN date[1] # 1 => BytesChart[k].tick = date
=============================================================================
