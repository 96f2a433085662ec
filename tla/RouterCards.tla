------------------------------ MODULE RouterCards ------------------------------
(***************************************************************************)
(* The dashboard tab of a monitored router: the cards of the month, from    *)
(* the averages in the router's document (RouterStatistics), and the rings  *)
(* of memory and disk, from what the websocket has brought (MonitorFeed).   *)
(* RouterSnmpMonitor.tsx prepares them, RouterDashboard.tsx chooses their   *)
(* texts, StatCard.tsx and the two pie charts draw them.                    *)
(*                                                                          *)
(* Averages are in hundredths and everything shown is in tenths, as         *)
(* toFixed(1) rounds it.  A card or ring is the record of what it shows.    *)
(***************************************************************************)
EXTENDS Integers, Sequences, FiniteSets, SequencesExt

CONSTANTS
  Cards,         \* of "memory", "cpu" and "disk"
  Averages,      \* values of a day's average, in hundredths
  MaxDays,       \* bound: averages of each card
  Totals         \* by ring, what the device has in all, in tenths

Rings == {"memory", "disk"}

ValuesAssumption ==
  /\ Cards \subseteq {"memory", "cpu", "disk"}
  /\ Averages \subseteq Nat /\ MaxDays \in Nat
  /\ Totals \in [Rings -> Nat \ {0}]

VARIABLES
  document,      \* the averages the server has, by card
  query,         \* useRouter: "loading", "error" or "ready"
  data,          \* the averages its last answer had, by card
  used, total    \* what the rings were told, by ring; 0 if nothing yet

vars == <<document, query, data, used, total>>

TypeOK ==
  /\ document \in [Cards -> Seq(Averages)] /\ data \in [Cards -> Seq(Averages)]
  /\ \A c \in Cards : Len(document[c]) <= MaxDays
  /\ query \in {"loading", "error", "ready"}
  /\ \A r \in Rings : used[r] \in 0..Totals[r] /\ total[r] \in {0, Totals[r]}

-----------------------------------------------------------------------------
(* What is shown *)

\* toFixed(1) of a quotient of naturals, in tenths of its unit.
Rounded(numerator, denominator) == (2 * numerator + denominator) \div (2 * denominator)

Sum(values) == FoldSeq(LAMBDA x, y : x + y, 0, values)

\* monthlyMemoryData and its two copies: the rounded averages and their mean, here as
\* the sum and the number of days.  The filter of null and NaN keeps what Go stores.
Monthly(averages) ==
  LET values == [i \in DOMAIN averages |-> Rounded(averages[i], 10)]
  IN  [values |-> values, sum |-> Sum(values), days |-> Len(values)]

\* StatCard, trendPercentage: the change from the first day to the last, in tenths of a
\* per cent, under the sign that is written: a fall that rounds to nothing is "-0.0%".
Percent(kind, sign, tenths) == [kind |-> kind, sign |-> sign, tenths |-> tenths]
Trend(values) ==
  LET first == Head(values)
      change == Last(values) - first
  IN  CASE first = 0 /\ change = 0 -> Percent("NaN", "", 0)
        [] first = 0 /\ change > 0 -> Percent("Infinity", "+", 0)
        [] first > 0 /\ change < 0 -> Percent("number", "-", Rounded(-1000 * change, first))
        [] first > 0 /\ change = 0 -> Percent("number", "", 0)
        [] first > 0 /\ change > 0 -> Percent("number", "+", Rounded(1000 * change, first))

NoBadge == Percent("none", "", 0)

\* Mistake: the last day against the first.
BadgeBackwards(values) == IF values = <<>> THEN NoBadge ELSE Trend(Reverse(values))

\* StatCard: no badge without days, nor for "+0.0%" and "0.0%".
Badge(values) ==
  IF values = <<>> \/ Trend(values) \in {Percent("number", "+", 0), Percent("number", "", 0)}
  THEN NoBadge ELSE Trend(values)

\* StatCard: what it is given, its badge and its chart.
StatCard(value, subtitle, values) ==
  [value |-> value, subtitle |-> subtitle, badge |-> Badge(values), chart |-> values]

\* RouterDashboard: the value and the subtitle it gives a card.  The subtitle of the disk
\* looks at the mean, the others at the number of days.
Card(c, averages) ==
  LET month == Monthly(averages)
  IN  StatCard(IF month.sum > 0 THEN Rounded(month.sum, month.days) ELSE 0,
               IF (IF c = "disk" THEN month.sum > 0 ELSE month.days > 0)
               THEN "last month" ELSE "no data collected", month.values)

\* The pie charts: the per cent of use, in tenths, the free space as it is written, and
\* the free slice as it is drawn.
Ring(u, t) ==
  [percent |-> IF t > 0 THEN Rounded(1000 * u, t) ELSE 0,
   used    |-> u,
   free    |-> t - u,
   slice   |-> IF t - u > 0 THEN t - u ELSE 0]

MemoryUsagePieChart == Ring(used["memory"], total["memory"])
DiskUsagePieChart == Ring(used["disk"], total["disk"])

\* The page: a spinner, an error over everything, or the cards and the rings.
Page ==
  CASE query = "loading" -> [view |-> "spinner"]
    [] query = "error" -> [view |-> "error"]
    [] OTHER -> [view  |-> "dashboard",
                 cards |-> [c \in Cards |-> Card(c, data[c])],
                 rings |-> [memory |-> MemoryUsagePieChart, disk |-> DiskUsagePieChart]]

-----------------------------------------------------------------------------
(* What happens *)

Init ==
  /\ document = [c \in Cards |-> <<>>] /\ data = document
  /\ query = "loading"
  /\ used = [r \in Rings |-> 0] /\ total = used

\* RouterStatistics!Average: another day's average, after all the others.
Midnight(c, value) ==
  /\ Len(document[c]) < MaxDays
  /\ document' = [document EXCEPT ![c] = Append(@, value)]
  /\ UNCHANGED <<query, data, used, total>>

\* useRouter answers: at first, and again when the page is shown and the data is stale.
Answered ==
  /\ query' = "ready" /\ data' = document
  /\ UNCHANGED <<document, used, total>>

\* useRouter fails for the second time (retry: 1): the last data is kept, but not shown.
\* A page that has data does not go back to loading when it asks again.
Failed ==
  /\ query' = "error"
  /\ UNCHANGED <<document, data, used, total>>

\* A sample of memory_usage or disk_usage, every second or two minutes.
HearUsed(r, u) ==
  /\ used' = [used EXCEPT ![r] = u]
  /\ UNCHANGED <<document, query, data, total>>

\* The first sample of total_memory or total_disk, which may come long after the others
\* to a page that joined a collection that was running.
HearTotal(r) ==
  /\ total[r] = 0
  /\ total' = [total EXCEPT ![r] = Totals[r]]
  /\ UNCHANGED <<document, query, data, used>>

Next ==
  \/ \E c \in Cards, v \in Averages : Midnight(c, v)
  \/ Answered \/ Failed
  \/ \E r \in Rings : HearTotal(r) \/ \E u \in 0..Totals[r] : HearUsed(r, u)

Spec == Init /\ [][Next]_vars

-----------------------------------------------------------------------------
(* What the dashboard promises *)

Shown == Page.view = "dashboard"

\* The value of a card lies between the lowest and the highest day of its chart, although
\* the days are rounded before the mean is taken and the mean is rounded again.
ValueWithinChart ==
  Shown => \A c \in Cards :
    LET card == Page.cards[c] IN
    card.chart # <<>> =>
      /\ \E i \in DOMAIN card.chart : card.chart[i] <= card.value
      /\ \E i \in DOMAIN card.chart : card.value <= card.chart[i]

\* The cards of memory and processor say that nothing was collected exactly when they
\* have nothing to draw; idle routers, whose days are all zero, have data.
SubtitleAgrees ==
  Shown => \A c \in Cards \ {"disk"} :
    (Page.cards[c].subtitle = "no data collected") <=> (Page.cards[c].chart = <<>>)

\* Where a badge may point, between the first day and the last: there is none only if they
\* differ by less than 0.05%.
Little(first, last) == 2000 * (last - first) < first /\ last >= first
Points(badge, first, last) ==
  \/ badge.sign = "+" /\ last > first
  \/ badge.sign = "-" /\ last < first
  \/ badge.sign = "" /\ badge.kind = "none" /\ Little(first, last)
  \/ badge.sign = "" /\ badge.kind # "none" /\ last = first

\* The badge points where the chart goes: up only if the last day is above the first,
\* down only if it is below, and there is none only if they differ by less than 0.05%.
BadgeAgrees ==
  Shown => \A c \in Cards :
    LET card == Page.cards[c] IN
    card.chart # <<>> => Points(card.badge, Head(card.chart), Last(card.chart))

\* A ring never shows more than a full one, and from the moment its total is known its
\* slices make up the whole and the free space it writes is the free slice it draws.
RingsAddUp ==
  Shown => \A r \in Rings :
    LET ring == Page.rings[r] IN
    /\ ring.percent \in 0..1000
    /\ total[r] # 0 => ring.used + ring.slice = total[r] /\ ring.free = ring.slice
    /\ total[r] = 0 => ring.percent = 0
=============================================================================
