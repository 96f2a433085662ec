---------------------------- MODULE MonitorFeed ----------------------------
(***************************************************************************)
(* What a monitoring page makes of the metrics it receives: onmessage of   *)
(* useSnmpMonitor.ts and the memos of RouterSnmpMonitor.tsx and            *)
(* TransmitterSnmpMonitor.tsx.  The hub sends every message to every       *)
(* client, so a page also receives the metrics of devices that others      *)
(* watch.  The histories are Maps that the state updater changes in place, *)
(* React in strict mode runs the updater twice, and the charts are memos   *)
(* on the identity of the outer Map.                                       *)
(***************************************************************************)
EXTENDS Integers, Sequences, SequencesExt

CONSTANTS
    Devices,          \* the devices that are collected
    Pages,            \* the kinds of pages considered, of {"router", "transmitter"}
    Watched,          \* the metrics considered
    Values,           \* the values of a metric, of Nat
    MaxDataPoints,
    MaxSamples,       \* bound: how many samples are collected
    MaxRestarts,      \* bound: how often collections are restarted
    None              \* no device; also the value of a failed collection

FeedAssumption ==
    /\ Pages \subseteq {"router", "transmitter"}
    /\ Values \subseteq Nat /\ MaxDataPoints \in Nat \ {0} /\ None \notin Devices

VARIABLES
    kind,             \* the kind of the page
    strict,           \* whether React runs in strict mode
    page,             \* the device whose page is shown
    clock,            \* the server's time
    collection,       \* for each device, the number of its collection
    sending,          \* the samples that metric goroutines are about to broadcast
    routerData,       \* the histories, and the identity of the outer Map
    memo,             \* the charts, and what they were computed for
    arrived           \* history: every sample the page was sent since it was opened

vars == <<kind, strict, page, clock, collection, sending, routerData, memo, arrived>>

\* charts: the metrics drawn as a chart with their current value; at: the chart whose
\* length selects that value; held: the metrics of which one value is shown.
RouterPage ==
    [charts |-> {"memory_usage", "cpu_usage", "disk_usage", "temperature"},
     at |-> [m \in {"memory_usage", "cpu_usage", "disk_usage", "temperature"} |->
                IF m = "temperature" THEN "disk_usage" ELSE m],
     held |-> {"total_memory", "total_disk", "uptime", "physicalInterfaces", "vlans"}]
TransmitterPage ==
    [charts |-> {"cpu_usage", "memory_usage_percent", "temperature"},
     at |-> [m \in {"cpu_usage", "memory_usage_percent", "temperature"} |-> m],
     held |-> {"uptime"}]

Layout == IF kind = "router" THEN RouterPage ELSE TransmitterPage

Charted == Layout.charts \cap Watched
Held == Layout.held \cap Watched
NoHistories == [d \in Devices |-> [m \in Watched |-> <<>>]]
NoData == [of |-> NoHistories, version |-> 0]
NoMemo == [page |-> None, version |-> 0, charts |-> [m \in Charted |-> <<>>]]
-----------------------------------------------------------------------------
\* The newest samples of a history.
Newest(h) == SubSeq(h, IF Len(h) > MaxDataPoints THEN Len(h) - MaxDataPoints + 1 ELSE 1, Len(h))

\* A history after a sample: failed collections and duplicates are not kept.
Kept(h, s) ==
    IF s.value = None \/ \E i \in DOMAIN h : h[i].at = s.at /\ h[i].value = s.value
    THEN h ELSE Newest(Append(h, s))

UpdatedInPlace(r, s) ==      \* mistake: the outer Map is not copied
    [r EXCEPT !.of[s.device][s.metric] = Kept(@, s),
              !.version = IF r.of[s.device] = NoHistories[s.device] THEN @ + 1 ELSE @]

\* The updater of setRouterData: always another outer Map.
Updated(r, s) ==
    [r EXCEPT !.of[s.device][s.metric] = Kept(@, s), !.version = @ + 1]
-----------------------------------------------------------------------------
\* A chart has one point for each timestamp, the first of it.
Chart(h) ==
    FoldLeft(LAMBDA points, s : IF \E i \in DOMAIN points : points[i].at = s.at
                                THEN points ELSE Append(points, s), <<>>, h)

Charts(r, d) == [m \in Charted |-> Chart(r.of[d][m])]

\* The memos are computed again when the outer Map or the device is another one.
Rendered(r, d) ==
    IF memo.page = d /\ memo.version = r.version THEN memo
    ELSE [page |-> d, version |-> r.version, charts |-> Charts(r, d)]

\* The current values next to the charts, 0 if there is no such point.
Current(m) ==
    LET i == Len(memo.charts[Layout.at[m]])
    IN  IF i \in DOMAIN memo.charts[m] THEN memo.charts[m][i].value ELSE 0

\* const [data] = getMetricData(...): the oldest sample that is kept.
HeldSample(m) == IF routerData.of[page][m] = <<>> THEN None ELSE routerData.of[page][m][1]
-----------------------------------------------------------------------------
\* The server: a metric goroutine collects, then broadcasts.  One collection has one
\* goroutine for a metric; one that is stopped may still be about to broadcast.
Collect(d, m, v) ==
    /\ clock < MaxSamples
    /\ \A s \in sending : <<s.device, s.metric, s.collection>> # <<d, m, collection[d]>>
    /\ clock' = clock + 1
    /\ sending' = sending \cup {[device |-> d, metric |-> m, value |-> v, at |-> clock + 1,
                                 collection |-> collection[d]]}
    /\ UNCHANGED <<kind, strict, page, collection, routerData, memo, arrived>>

Restart(d) ==
    /\ collection[d] <= MaxRestarts
    /\ collection' = [collection EXCEPT ![d] = @ + 1]
    /\ UNCHANGED <<kind, strict, page, clock, sending, routerData, memo, arrived>>

\* onmessage: the message reaches the page, if one is open and connected; strict mode
\* runs the updater twice.
Receive(s) ==
    /\ s \in sending
    /\ sending' = sending \ {s}
    /\ IF page = None
       THEN UNCHANGED <<routerData, memo, arrived>>
       ELSE /\ routerData' = IF strict THEN Updated(Updated(routerData, s), s)
                             ELSE Updated(routerData, s)
            /\ memo' = Rendered(routerData', page)
            /\ arrived' = [arrived EXCEPT ![s.device][s.metric] =
                              IF s.value = None THEN @ ELSE Append(@, s)]
    /\ UNCHANGED <<kind, strict, page, clock, collection>>

\* The connection is down while a message is sent.
Miss(s) ==
    /\ s \in sending
    /\ sending' = sending \ {s}
    /\ UNCHANGED <<kind, strict, page, clock, collection, routerData, memo, arrived>>

Open(d) ==
    /\ page = None
    /\ page' = d
    /\ memo' = Rendered(NoData, d)
    /\ UNCHANGED <<kind, strict, clock, collection, sending, routerData, arrived>>

\* The page turns to another device: the histories stay.
Turn(d) ==
    /\ page \notin {None, d}
    /\ page' = d
    /\ memo' = Rendered(routerData, d)
    /\ UNCHANGED <<kind, strict, clock, collection, sending, routerData, arrived>>

Close ==
    /\ page # None
    /\ page' = None
    /\ routerData' = NoData
    /\ memo' = NoMemo
    /\ arrived' = NoHistories
    /\ UNCHANGED <<kind, strict, clock, collection, sending>>
-----------------------------------------------------------------------------
Init ==
    /\ kind \in Pages
    /\ strict \in BOOLEAN
    /\ page = None
    /\ clock = 0
    /\ collection = [d \in Devices |-> 1]
    /\ sending = {}
    /\ routerData = NoData
    /\ memo = NoMemo
    /\ arrived = NoHistories

Next ==
    \/ \E d \in Devices : Open(d) \/ Turn(d) \/ Restart(d)
    \/ \E d \in Devices, m \in Watched, v \in Values \cup {None} : Collect(d, m, v)
    \/ \E s \in sending : Receive(s) \/ Miss(s)
    \/ Close

Spec == Init /\ [][Next]_vars
-----------------------------------------------------------------------------
Samples == [device : Devices, metric : Watched, value : Values, at : Nat, collection : Nat]

\* Every variable holds a value of its kind; a history is never longer than configured.
TypeOK ==
    /\ kind \in Pages /\ strict \in BOOLEAN /\ page \in Devices \cup {None}
    /\ \A d \in Devices, m \in Watched :
          /\ routerData.of[d][m] \in Seq(Samples)
          /\ Len(routerData.of[d][m]) <= MaxDataPoints

\* However often the updater is run, the histories of a page are the newest samples
\* of each device and metric it was sent, each once: also those of the devices that
\* are not shown, which the hub sends all the same.
WindowsAreNewest ==
    page # None =>
        \A d \in Devices, m \in Watched :
            LET all == arrived[d][m]
                kept == routerData.of[d][m]
            IN  /\ Len(kept) = IF Len(all) < MaxDataPoints THEN Len(all) ELSE MaxDataPoints
                /\ \A i \in DOMAIN kept : kept[i] = all[Len(all) - Len(kept) + i]

\* A page shows samples of its own device only.
ShownIsOwn ==
    page # None =>
        /\ \A m \in Charted : \A i \in DOMAIN memo.charts[m] :
              memo.charts[m][i].device = page /\ memo.charts[m][i].metric = m
        /\ \A m \in Held : HeldSample(m) # None => HeldSample(m).device = page

\* Although the histories are changed in place, the memos are never of older ones.
ChartsAreFresh == page # None => memo.charts = Charts(routerData, page)

\* Unless its collection is restarted, the chart of a device goes forward in time.
ChartsGoForward ==
    page # None /\ collection[page] = 1 =>
        \A m \in Charted : \A i, j \in DOMAIN memo.charts[m] :
            i < j => memo.charts[m][i].at < memo.charts[m][j].at

IsCurrent(m) ==
    Current(m) = IF arrived[page][m] = <<>> THEN 0 ELSE Last(arrived[page][m]).value

\* What is shown as the current value is the last that arrived, whatever was missed or
\* shown before: of every chart but the temperature of a router.
CurrentIsLast ==
    page # None => \A m \in Charted : Layout.at[m] = m => IsCurrent(m)
=============================================================================
