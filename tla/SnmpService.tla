---------------------------- MODULE SnmpService ----------------------------
(***************************************************************************)
(* The collection of SNMP metrics of services/snmpService.go, composed     *)
(* with the hub it broadcasts to.  The HTTP handlers start and stop the    *)
(* collection of a device under one mutex; a started collection has one    *)
(* goroutine per metric, which outside that mutex collects, broadcasts and *)
(* waits for its ticker or for the collection to be stopped.               *)
(***************************************************************************)
EXTENDS Hub

CONSTANTS
    Devices,          \* the devices there are
    Metrics,          \* the metrics of a device, one goroutine each
    MaxCollections,   \* bound: how many collections are started
    Free              \* no device, no collection

Collections == 1..MaxCollections
Workers == Collections \X Metrics

\* The metric goroutines are producers of the hub; a message is the collection
\* it comes from.
ASSUME ProducersAssumption == Workers \subseteq Producers /\ Collections \subseteq Messages
ASSUME FreeAssumption == Free \notin Devices \cup Collections
ASSUME MaxAssumption == MaxCollections \in Nat

VARIABLES
    active,           \* SNMPService.activeChannels
    device,           \* the device of each DeviceCollection, Free for none yet
    stopped,          \* the collections that are not IsRunning, their StopCh closed
    worker,           \* the metric goroutines
    ticker,           \* the Ticker of each MetricCollection
    ticks             \* the tickers with a tick to receive

serviceVars == <<active, device, stopped, worker, ticker, ticks>>
vars == <<hubVars, serviceVars>>

Started == {k \in Collections : device[k] # Free}
WorkersOf(k) == {k} \X Metrics

ServiceInit ==
    /\ Init
    /\ active = [d \in Devices |-> Free]
    /\ device = [k \in Collections |-> Free]
    /\ stopped = {}
    /\ worker = [w \in Workers |-> "none"]
    /\ ticker = [w \in Workers |-> "nil"]
    /\ ticks = {}
-----------------------------------------------------------------------------
StartAnyway(d) ==      \* mistake: no check for an active collection
    \E k \in Collections \ Started :
        /\ \A j \in Collections \ Started : k <= j
        /\ active' = [active EXCEPT ![d] = k]
        /\ device' = [device EXCEPT ![k] = d]
        /\ worker' = [w \in Workers |-> IF w[1] = k THEN "collecting" ELSE worker[w]]
        /\ UNCHANGED <<hubVars, stopped, ticker, ticks>>

\* StartCollectionWithConfig: nothing if the device is being collected, or is not
\* found, or has no collector; else a new collection, registered and started.
StartCollection(d) ==
    /\ active[d] = Free
    /\ \E k \in Collections \ Started :
        /\ \A j \in Collections \ Started : k <= j
        /\ active' = [active EXCEPT ![d] = k]
        /\ device' = [device EXCEPT ![k] = d]
        /\ worker' = [w \in Workers |-> IF w[1] = k THEN "collecting" ELSE worker[w]]
    /\ UNCHANGED <<hubVars, stopped, ticker, ticks>>

\* What the loop over collection.Metrics leaves of the tickers of k: it stops those
\* it sees.  It reads them without the goroutines that write them knowing, so that
\* it may still find nil where a ticker has been set.
TickersStopped(k, left) ==
    /\ left \subseteq {w \in WorkersOf(k) : ticker[w] = "running"}
    /\ ticker' = [w \in Workers |-> IF w[1] = k /\ ticker[w] = "running" /\ w \notin left
                                    THEN "stopped" ELSE ticker[w]]
    /\ ticks' = {w \in ticks : w[1] # k \/ w \in left}

StopForgetsChannel(d) ==      \* mistake: StopCh is not closed
    LET k == active[d] IN
    /\ k # Free
    /\ active' = [active EXCEPT ![d] = Free]
    /\ \E left \in SUBSET WorkersOf(k) : TickersStopped(k, left)
    /\ UNCHANGED <<hubVars, device, stopped, worker>>

\* StopCollection: close(StopCh), stop the tickers, delete from the map.
StopCollection(d) ==
    LET k == active[d] IN
    /\ k # Free
    /\ active' = [active EXCEPT ![d] = Free]
    /\ stopped' = stopped \cup {k}
    /\ \E left \in SUBSET WorkersOf(k) : TickersStopped(k, left)
    /\ UNCHANGED <<hubVars, device, worker>>
-----------------------------------------------------------------------------
\* performMetricCollection: CollectFn returns, with a value, nothing or an error,
\* and the message that says so is broadcast.
Collect(w) ==
    /\ worker[w] = "collecting"
    /\ worker' = [worker EXCEPT ![w] = "broadcasting"]
    /\ Broadcast(w, w[1])
    /\ UNCHANGED <<active, device, stopped, ticker, ticks>>

\* Before the first wait, collectMetricData makes the ticker.
AwaitTick(w) ==
    /\ worker' = [worker EXCEPT ![w] = "waiting"]
    /\ ticker' = IF ticker[w] = "nil" THEN [ticker EXCEPT ![w] = "running"] ELSE ticker
    /\ UNCHANGED <<hubVars, active, device, stopped, ticks>>

\* Broadcast has returned; or the message could not be serialised.
CollectedAndSent(w) ==
    /\ worker[w] = "broadcasting" /\ outgoing[w] = None
    /\ AwaitTick(w)
NotSerialisedEnds(w) ==      \* mistake: the error ends collectMetricData
    /\ worker[w] = "collecting"
    /\ worker' = [worker EXCEPT ![w] = "done"]
    /\ UNCHANGED <<hubVars, active, device, stopped, ticker, ticks>>
NotSerialised(w) ==
    /\ worker[w] = "collecting"
    /\ AwaitTick(w)

Tick(w) ==
    /\ ticker[w] = "running" /\ w \notin ticks
    /\ ticks' = ticks \cup {w}
    /\ UNCHANGED <<hubVars, active, device, stopped, worker, ticker>>

\* The select of collectMetricData, either case when both are ready.
OnTick(w) ==
    /\ worker[w] = "waiting"
    /\ w \in ticks
    /\ ticks' = ticks \ {w}
    /\ worker' = [worker EXCEPT ![w] = "collecting"]
    /\ UNCHANGED <<hubVars, active, device, stopped, ticker>>

OnStop(w) ==
    /\ worker[w] = "waiting"
    /\ w[1] \in stopped
    /\ worker' = [worker EXCEPT ![w] = "done"]
    /\ ticker' = [ticker EXCEPT ![w] = "stopped"]
    /\ ticks' = ticks \ {w}
    /\ UNCHANGED <<hubVars, active, device, stopped>>
-----------------------------------------------------------------------------
MetricStep(w) == Collect(w) \/ NotSerialised(w) \/ CollectedAndSent(w) \/ OnTick(w) \/ OnStop(w)

ServiceNext ==
    \/ HubNext /\ UNCHANGED serviceVars
    \/ \E d \in Devices : StartCollection(d) \/ StopCollection(d)
    \/ \E w \in Workers : MetricStep(w) \/ Tick(w)

ServiceSpec == ServiceInit /\ [][ServiceNext]_vars

\* Every goroutine runs, an SNMP request ends (it has a timeout), a running ticker
\* ticks, and the random choice of select does not avoid StopCh for ever.  Of the hub
\* only Run is needed: nothing is asked of the viewers or of their pumps.
ServiceFairness ==
    \A w \in Workers :
        WF_vars(MetricStep(w)) /\ WF_vars(Tick(w)) /\ SF_vars(OnStop(w))

ServiceFairSpec == ServiceSpec /\ RunFairness /\ ServiceFairness
-----------------------------------------------------------------------------
\* Every variable holds a value of its kind, those of the hub included.
ServiceTypeOK ==
    /\ TypeOK
    /\ active \in [Devices -> Collections \cup {Free}]
    /\ device \in [Collections -> Devices \cup {Free}]
    /\ stopped \subseteq Collections
    /\ worker \in [Workers -> {"none", "collecting", "broadcasting", "waiting", "done"}]
    /\ ticker \in [Workers -> {"nil", "running", "stopped"}]
    /\ ticks \subseteq Workers

\* No collection runs out of reach: one that has not been stopped is the one the
\* map has for its device, so StopCollection finds it and no device has two.
NoOrphan ==
    \A k \in Started : k \notin stopped <=> active[device[k]] = k

\* When a device's collection has been replaced or removed from the map, all its
\* goroutines end, whatever the viewers do.
StoppedCollectionsEnd ==
    \A k \in Collections :
        k \in Started /\ active[device[k]] # k ~> \A w \in WorkersOf(k) : worker[w] = "done"

\* As long as its collection is not stopped, a metric that was started is collected again
\* and again: whatever it does now, also if it were done, it gets to collect, so that
\* neither an error nor a viewer that is slow or gone ends it.
MetricsKeepComing ==
    \A w \in Workers :
        worker[w] # "none" ~> worker[w] = "collecting" \/ w[1] \in stopped
=============================================================================
