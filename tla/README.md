# Verification of net_monitor

TLA+ specifications of `net_monitor`, a Go server that
collects IPFIX flows, SNMP metrics and SNMP traps from network devices, stores
them in MongoDB and shows them to a React frontend over HTTP and websockets.
Every definition is translated from the source; `PROJECT.json` names the lines.

## 1. Inventory

| component | state | operations | talks to |
|---|---|---|---|
| IPFIX pipeline (`netflow/`, `netflow/metrics/ipVersionMetric.go`) | two durable RabbitMQ queues; the template cache in memory; a document per exporter and five-minute bucket in MongoDB | `StartListener`, decoder workers, metric workers, `Process`, `updatePercentages` | RabbitMQ, MongoDB |
| Websocket hub (`websocket/hub.go`) | the map of clients, the channels `register`, `unregister`, `broadcast`, one `send` per client | `Run`, `Broadcast`, `ServeWS`, `readPump`, `writePump` | SNMP service and trap service (producers), browsers |
| SNMP collection service (`services/snmpService.go`) | the map of active collections, per collection a `StopCh` and a ticker per metric | `StartCollection`, `StopCollection`, `collectMetricData` | hub, collectors, database |
| Trap service (`services/snmpTrapService.go`, `snmp/trap/handlers/`) | cache of devices by address, handlers by vendor | `RegisterDevice`, `UnregisterDevice`, `handleTrap` | hub, device controllers |
| Schedulers (`snmp/mikrotik/Schedules/`, `services/schedulerManager.go`) | samples of the day and averages in each router document | collect every few minutes, average at midnight, `StopAll` | collectors, MongoDB, the routers' `Update` |
| Device services and controllers | router, transmitter and switch documents | CRUD | MongoDB, trap cache |
| Authentication (`services/authService.go`) | refresh tokens | login, refresh, logout, OAuth callback | MongoDB |
| Packet loss and DNS processors | none: they store nothing | `Process` | - |
| IP version dashboards (`services/ipVersionMetricService.go`) | none | aggregations | MongoDB |
| SNMP collectors (`snmp/`) and `config/metric_mappings.go` | none | requests to a device, formatting, choice of the OIDs | devices |
| Users, logs, repository, models, seeders, routes, middlewares | documents | single database calls | MongoDB |
| Frontend hook (`useSnmpMonitor.ts`) | connection state, timeouts, histories of metrics | `connect`, `disconnect`, socket events, `addMetricData` | hub |
| Link event list (`useTrapMonitor.ts`) | list and counts of link events, empty as it is fed | `handleMessage` | hub |
| Monitoring pages (`RouterSnmpMonitor.tsx`, `TransmitterSnmpMonitor.tsx` and their cards and lists) | memoised charts, the uptime card's clock, search, filter and open card of a list | render, tick, `toggleExpand` | hooks, router document |
| Device screens (`DataTable.tsx`, `GenericDataTableFetch.tsx`, the `ModalCreateEdit*`) | rows, query, URL, form, requests on their way | load, page, filter, sort, delete, open, save | HTTP API |
| Session (`App.tsx`, `useAuth.ts`, the route guards, the side menu) | token and user in local storage, a path and a guard per browser tab | log in, log out, navigate | HTTP API |
| Traffic dashboard (`IPVersionDashboard.tsx`, `api/IPVersionMetrics.tsx`) | cache of queries, day selected | open, click a day, go back, refetch | IP version dashboards |
| Themes, template parts, sign-in validation | none or cosmetic | - | - |

What is hard here:

* *IPFIX pipeline*: at-least-once delivery between stages, counters that are not
  idempotent, a cache without a lock shared by the decoders, a template that has to
  be the one that was in force when the data was sent, read-modify-write of the
  percentages, and crashes at every point in between. Correct means: of what reached the
  first queue nothing disappears but the data a restart forgot the template of and what a
  broken connection swallowed; double counting is bounded by the faults; flows
  are decoded with the right template; percentages belong to the counters.
* *Hub*: three kinds of goroutine close and use the same channels. Correct means: no
  panic, no blocked producer, no leaked client, and an unbroken feed for each viewer.
* *SNMP service*: start and stop from several handlers against goroutines that run
  outside the mutex. Correct means: a device has one collection, which can be stopped,
  whose goroutines then end, and which otherwise goes on whatever the viewers do.
* *Frontend hooks*: sockets, timers and promises that outlive the page that made them.
  Correct means: one connection, of the page shown, and a status that tells the truth.
* *Schedulers*: four schedules and the edits write one document, most of them what they
  read of it before. Correct means: no sample counts twice, and one is lost in no other
  way than the three the code has.
* *Monitoring pages*: what the hub sends is of every device and survives the page it
  was sent for; a clock counts on between samples; lists come in another order each
  time. Correct means: what is shown is of the device, the newest, and consistent.
* *Device screens*: requests that are never cancelled, closures of older renders, forms
  filled and emptied by effects. Correct means: the table shows what its controls say
  unless answers come out of order, a save writes what was typed for that device.
* *Session*, *traffic dashboard*: values read once and kept, answers that come late.
* *Trap service*: a cache of devices by address, kept by whoever creates or deletes
  one, over collections that allow an address twice. Correct means: a trap is reported
  of the device that is stored at its source, where no two operations met.
* *Authentication*: check-then-act sequences on shared state; see the hazards in
  `PROJECT.json`.

## 2. Plan

Done:

1. `Broker`, `FlowAccounting`, `NetflowPipeline`: the pipeline and the accounting it
   implements; `NetflowPipelineProofs`.
2. `Hub`, `HubFeed`: the hub and what a viewer sees; `HubProofs`,
   `HubFeedProofs`.
3. `SnmpService`: the collections composed with the hub; `SnmpServiceProofs`.
4. `SnmpMonitorHook`: the connection of `useSnmpMonitor.ts` and of the pages that use it;
   `SnmpMonitorHookProofs`.
5. `UptimeClock`, `MonitorFeed`, `RouterCards`, `InterfaceList`: the parts of the
   monitoring page, composed in `MonitorPage`; `MonitorPageProofs`.
6. `RouterStatistics`, `DeviceTable`, `DeviceForm`, `Session`, `VersionDashboard`: the
   rest of what keeps state, composed in `Site`; `SiteProofs`.
7. `TrapRegistry`: the device cache of the trap service against the collections of
   devices, with the controllers and the delayed registration of the start;
   `TrapRegistryProofs`.

Next, in this order:

8. `AuthSession`: rotation of refresh tokens by concurrent requests.
9. `IpfixDecode`, `MetricFallback`: pure modules for the parsing of flow sets and the
   choice of `createGenericCollectFunction`.

Every safety property a run checks is a theorem of section 5; what is left to the runs
alone is liveness.

## 3. Modules

### `Broker`, `NetflowPipeline`, `FlowAccounting`

`Broker` has one RabbitMQ queue as operators: a sequence whose entries are ready or
held by a worker. Delivery is in order and limited by the prefetch of `NewRabbitMQ`;
a requeued message returns to its place; the end of a connection requeues all it held.
RabbitMQ is not in the repository: these operators are marked external, or mapped to
the calls of `rabbitmq.go` that ask for the behaviour.

`NetflowPipeline` has a step for every access to a shared object:

| variable | code |
|---|---|
| `raw`, `dec` | queues `ipfix_raw_packets`, `ipfix_decoded_packets` |
| `cache` | `TemplateCache.templates` |
| `decoder[w]` | a goroutine of `StartDecoderWorkers`: idle, decoding at flow set `at`, publishing, about to acknowledge; `out` is the message it builds |
| `metric[w]` | a goroutine of `StartMetricWorkers`: about to increment, to read back, to set the percentages, to settle |
| `store` | collection `ip_version_metrics`; `pct` is the pair of counters the percentages were computed from |
| `now` | `time.Now().Truncate(5 * time.Minute)` |
| `up`, `rawConn`, `decConn` | the process and its two connections |
| `arrival`, `applied`, `excused`, `forgotten`, `lost`, `faults`, `seen` | history |

`TakeRaw` to `SettleRaw` are the loop of the decoders with each early `continue`:
`RefuseShort` (`ParseIPFIX` fails, the message is acknowledged), `RequeueRaw`
(publishing fails). The loop over flow sets is one step per flow set, `LearnTemplate`,
`DecodeData` or `SkipSet`, because the cache is shared. `TakeDecoded` to
`SettleDecoded` are the metric workers; the three database calls are three steps.
Faults are crashes (`Crash`), panics of the decoder on malformed datagrams
(`DecoderPanics`), broken connections, which nothing reopens before a restart, and
database errors with or without effect. A publication whose connection breaks right
after it may be lost although it returned nil, because there are no publisher
confirms; `BreakDecoded` has that choice and `lost` remembers it. A restart begins with
an empty cache: `forgotten` has the templates it lost until they are announced again, and
a datagram of which data is skipped for want of one is `lost` too. `excused` are only those
that never had anything to count.

A datagram is its exporter and its flow sets; a template is its record size, whether
its records are IPv4, IPv6 or neither, and whether all fields have the width
`decodeField` reads. Octet and packet counters move with the flow counters and are
left out. The other two processors store nothing: `packetLossMetric.go:64-73`
asserts `uint64` on values that JSON has made `float64`, and the storing code of
`dnsQuality.go:241-254` is commented out.

`FlowAccounting` is what the pipeline promises: flows are counted only of accepted
datagrams, once, plus at most twice per fault. `Accounting` instantiates it with the
refinement mapping.

### `Hub`, `HubFeed`

One step per channel operation. `fanout` is the place of `Run` inside its loop over
the clients: while it is not empty `Run` is not at its select, so nobody registers or
unregisters. `Offer` is one round of that loop, with its default case. `handler`,
`writer` and `reader` are the places of the goroutines of `ServeWS`, `writePump` and
`readPump`; the deferred calls are steps of their own where another goroutine can run
between them. Deadlines and pings appear as `LosePeer` and the failures it permits.
`panicked` records what would be a run-time panic. The message is data; `HubFeed`
adds history variables and messages that occur once.

### `SnmpService`

Extends `Hub`: the producers are the metric goroutines, `<<collection, metric>>`, and a
message is the collection it comes from. `StartCollection` and `StopCollection` are
atomic because both hold the service's mutex from the first to the last line.
`collectMetricData` is `Collect`, `CollectedAndSent` or `NotSerialised`, then `OnTick`
or `OnStop`. `StopCollection` reads `metric.Ticker` while the goroutine may be setting
it; this data race is the nondeterministic choice in `TickersStopped`. The module go.mod
asks for Go 1.23, where a stopped ticker delivers no stale tick.

### `SnmpMonitorHook`

JavaScript runs one task at a time, so an effect, a socket event or a timer is one step.
`hook` is the set of refs of `useSnmpMonitor` with `connectionStatus`; `sock[s]` is a
`WebSocket` with what the `connect` that made it closed over: its handlers, its pending
connection timeout, its promise, the `isConnected` of its render. `timers` are the
pending reconnect timers. `Mount`, `Switch` and `Leave` are the effect of
`RouterSnmpMonitor.tsx` (the one of `TransmitterSnmpMonitor.tsx` is the same), with the
hook's own cleanup; `Opens` and `Closes` are `onopen` and `onclose` with `onerror`.
`CleanSockets`, `CleanTimers` and `Cleaned` are `cleanupConnection`, which leaves the
connection timeout alone. A logged-in user with a token is assumed. `StrictMode`, which
in development builds runs each effect twice, is not modelled.

Two behaviours of the model are worth knowing, although nothing in the repository
forbids them: the timeout of an abandoned attempt sets the status of a newer, open
connection to `disconnected`; and a page's first connection is not retried when it is
lost, because its `onclose` sees the `isConnected` of the render before it.

### `TrapRegistry`

`stored` is the three collections of devices under one set of identities, with the
collection of each (`KindOf`); `cache` is `deviceCache`. `ListAll` and `RegisterListed` are the
goroutine that `InitDependencies` starts: it sleeps, then lists one collection after the
other and registers what was active when it listed. A request has the device in hand
that it inserted or found, `request[q]`: `Insert` and `RegisterCreated` are
`CreateRoteador`, `Find`, `Unregister` and `Delete` are `DeleteRoteador`, `Update` the one
write of `UpdateRoteador` that anybody sees; transmitters and switches have the same
three. `RefuseName` is a creation that is refused: it registers the device nevertheless.

`strayed` is history: the addresses at which two operations met, two devices are stored,
or something went wrong since the process started. The code promises nothing there:
a refused device takes over its address, an edited one stays under its old one, and a
device listed before it is deleted is registered after. `TrapsAreAttributed` is about all other
addresses; `EventsGiveTheirSource` about all.

### `MonitorPage`: `UptimeClock`, `MonitorFeed`, `RouterCards`, `InterfaceList`

The parts of a device's monitoring page. They hand each other values (a sample, a
list) that each module takes from a set of its own, and share no state. So
`MonitorPage` instantiates all of them and a behaviour is of one, `part`, while the
others stay as they were in one initial state (`Still`); interleaving them would
multiply the states and show nothing that each does not show alone. `Site`, below, is
built the same way.

`UptimeClock` follows one number through four files: `GetTimeTicksOid` formats the
counter of hundredths (which starts anew after 42 949 672 seconds), the hook keeps the
newest ten samples, the page takes the first of them, `UptimeCard` parses it and counts
on. `Second` is a tick of the card's interval and of the device, `Sample` the arrival
of the sample that is due with the effect it triggers, `Miss` a sample that fails or
finds the connection down, `ChangeTab` a new card for the samples there are. `Format`
and `Parse` are the two conversions, `Increment` is `incrementUptime` with its carries;
`Status` and `Face` are what is drawn. Kept samples remember the `boot` they are of.

`MonitorFeed` is `onmessage` with `addMetricData`, and the memos of the two pages.
`collection[d]` numbers the collections of a device, so that a goroutine of a stopped
one, which may still broadcast, is another than that of its successor. `Updated` is the
updater of `setRouterData`: it changes the inner histories in place and copies the outer
Map, whose identity is `version`; in strict mode `Receive` runs it twice. `Rendered` is
the memo: computed again when the outer Map or the device is another one. `RouterPage`
and `TransmitterPage` are data: which metrics are charts, which chart's length
selects the current value, and which metrics show one value (`[0]` of the history).

`RouterCards` is the dashboard tab: `monthlyMemoryData` and its copies (`Monthly`), the
value and subtitle of a card (`Card`), the badge of `StatCard` with the texts that
`toFixed` and a division by zero give (`Trend`, `Badge`), the two rings (`Ring`).
Numbers are in tenths or hundredths, as rounded, so that what is shown in one place can
be compared with what is shown in another.

`InterfaceList` goes from the walks of the collectors to the cards. `WalkNames` to
`Collected` are the requests of one collection, between which the router changes
(`Change`); a list comes from Go maps, so in any order. `Types` are the types of rows the
collectors take, `Label` what the two tabs call them. `Filtered`, `Stats`, `Card` and
`Dashboard` are what the two tabs draw, `expanded` the one card that is open.

### `Site`: `RouterStatistics`, `DeviceTable`, `DeviceForm`, `Session`, `VersionDashboard`

`RouterStatistics` has the writers of one router document. `Tick` and `Push` are
`collectAll…` and the goroutine it starts, for memory, CPU, disk and temperature;
`Midnight` and `Average` the read and the write of `calculateAverage…`, of all but the
temperature, with `MakeList` for a document without the list; `ReadRouter` and
`ReplaceRouter` the `GetById` and the `ReplaceOne` of `Update`; each step of a pair can be
followed by steps of the others. `lists` and `nulls` say which fields of the document are
arrays and which are null: `older` are the metrics the document is older than, whose lists
it lacks, and an edit writes those as null, onto which nothing can be pushed. `discarded`
is what an edit takes away because `models.Roteador` has no field for it (the
temperature), or the schedule of the CPU because it empties the list of the memory.
A sample is a name, an average the set of samples it was made of, so that counting
twice and losing can be said. `DayPasses` needs that nothing is under way: requests and
database calls have timeouts of seconds, the calculation runs once a day.

`DeviceTable` has a request per load: `Serve` is the server's answer, as of then,
`Arrive` and `Fail` its arrival in any order; `Turn` is what the handlers of page,
filter and sort do (state, search parameters, load). On any page but the first the grid
answers a new filter or order by turning to the first page, which is a second request at
once (`TurnToStart`); a grid that is mounted again behind an error, with fewer rows, turns
to its last page (`Outgrown`, `Reload`). `Deleted` calls the `loadData` of the
render in which the row was clicked, with the query of then. `Answer` is
`useDataTableFetch`: it filters, sorts and cuts the page out of the whole list, and takes
an answer that is no array as one item (`Listed`). The sort is written by what it does:
the k-th device is the one that k - 1 others come before (`Sorted`), and devices the
comparison calls equal keep the server's order (`Before`). `Crashed` is the page without
an error boundary.

`DeviceForm` is the modal of routers, transmitters and switches, whose three copies
demand the same fields (`FormAssumption`). The effect that fills the form runs when the
row *object* changes (`Filled`; each load makes new ones), the one that empties it when
the mutation its hook observes (`latest`) has succeeded. `Check`, `Insert` and `Replace`
are the service's look-up and write, with the unique index of names.

`Session`: `storage` is the local storage, shared by the tabs; `tab[t]` the path, the
answer of the guard that stands before it and what the side menu shows. `At` is a
navigation inside a tab: a guard of the same place in the route tree is kept, another
starts by checking; so does the same one after a path that `Layout`'s `Navigate` redirects. `Check` is `checkAuthStatus` with what the two guards do with it.
`Links` are the links each page has, `Route` what the routes of `App.tsx` make of them.

`VersionDashboard`: `FlowsPercent`, `Bytes` and `FlowsPercentByDay` are the aggregations
of `ipVersionMetricService.go` over the buckets the pipeline fills (`Count`), by days and
hours of Brazil, in a window that begins at a midnight of UTC. The structs that the
answers are decoded into have no bson tags, so that of a row only its date or hour is
found and every number is zero (`NoShares`, `NoMB`): a row's history field `of` has the
hours it was grouped from, and the flows themselves are left out. `cache` is the cache of
queries with the retry, the refetch and the expiry the client is configured with; `Page`
is all that is drawn.

## 4. Runs

Each `.cfg` gives all constants. Symmetry is used for workers, clients, producers,
devices and ports, in safety runs only. Every run has `CHECK_DEADLOCK FALSE`: the
inputs are finite (each datagram, client, collection, socket, sample, request and login
is bounded), so a behaviour may stop.

| run | properties | shows |
|---|---|---|
| `pipeline_no_faults` | `TypeOK`, `PercentagesFresh` | two buckets, two exporters and a template redefined between its data, without faults |
| `pipeline_faults` | `DecodersExclusive`, `PercentagesCurrent`, `NothingLost`, `TemplatesLatest`, `AccountingImplemented` | any two faults of all kinds, a panic that every redelivery repeats among them: no race of decoders, nothing lost but to a forgotten template or a swallowed publication, the template in force, bounded double counting |
| `pipeline_live` | `EventuallyHandled` | with transient database errors every queued datagram is counted or refused in the end |
| `hub_feed` | `TypeOK`, `NoPanic`, `LiveClientsServed`, `UnbrokenFeed` | the hub's safety, and what a viewer sees |
| `hub_live` | `BroadcastsReturn`, `ConnectionsReleased` | no viewer blocks a producer, nothing of a lost viewer stays |
| `snmp_safety` | `ServiceTypeOK`, `NoOrphan` | over the composed hub: every collection can be stopped |
| `snmp_live` | `StoppedCollectionsEnd`, `MetricsKeepComing` | over the composed hub: a stopped one ends, another goes on |
| `hook` | `TypeOK`, `OneLiveSocket`, `StatusIsTrue`, `StartsAreStopped`, `OneRetry`, `ConnectAnswers` | one live socket, a true status, every start stopped, every connect answered |
| `monitor_page` | `PageTypeOK`, `BetweenSampleAndDevice`, `ChartsAreRight`, `PanelsAgree`, `ListsKeep` | the parts of the monitoring page |
| `site` | `SiteTypeOK`, `CountedOnce`, `LostOnlyBetween`, `TableIsRight`, `SessionIsRight`, `TrafficIsRight`, `FormKeeps`, `ProgressEnds` | statistics, table, form, session and traffic dashboard |
| `trap_registry` | `EventsGiveTheirSource`, `TrapsAreAttributed` | devices created, edited, deleted, refused and listed by the start, at two addresses |
| `table_empty` | `RowsAreDevices` | a violation: the observation on empty lists below |

The properties of the two composites are conjunctions of named properties of the parts:
`ChartsAreRight` is five of `MonitorFeed`, `PanelsAgree`
four of `RouterCards`, one of `UptimeClock` and two of `InterfaceList`, `ListsKeep` two of
`InterfaceList`; `TableIsRight` is six of `DeviceTable`, `FormKeeps` four of `DeviceForm`,
`SessionIsRight` two of `Session`, `TrafficIsRight` three of `VersionDashboard`,
`ProgressEnds` one of `DeviceTable` and one of `Session`.

Bounds.

* *Pipeline, hub, service.* Two workers of each kind are enough for every conflict of
  two; the code has two decoders and four metric workers, which run the same loop. Two
  faults make one happen during the recovery from the other: a panic, a restart and a
  second panic of the redelivered datagram. Capacities of one or
  two messages instead of 256 make full channels an ordinary case: the code compares
  with the capacity only. Two viewers let one be dropped in the fan-out in which the
  other is served; `SendCap = 2` has a channel closed with messages in it, and four
  messages pass a full buffer, a write in progress and a queued broadcast.
* *Hook, page.* Two devices let a page be turned there and back, and four sockets allow
  a page, a switch, a reconnect and one more of either. `NearCarries` starts the clock
  just before the carries of a minute, an hour, a day and a week and before the counter
  starts anew; 12 seconds with a sample due every two and two kept have the window slide,
  a sample missed and a reboot between. Three samples pass a window of two; one restart
  gives a metric two goroutines. Averages that round to nothing and of much have every
  badge. Two VLANs make an order, and one change during a walk makes rows come or go; the
  lists of a VLAN and an Ethernet interface, and of three interfaces of both tabs with one
  status, were explored once, without an error.
* *Site.* Memory, CPU and temperature are three kinds of metric (the disk is like the
  memory); one editor and one sample of each have an edit open over a push and a midnight,
  in documents of every age. Two editors, whose states are many, were explored once, without an error.
  A page of one device and two devices make a second page and its disappearance; the table
  is opened by a link to the second page, from which a filter or an order sends two
  requests; three loads overtake each other with a deletion among them. A table that is
  opened on its first page, and four loads, were explored once. For the
  form one device to be edited and one to be created, two reloads and a change by
  others make a row object stale in each way; two tabs and two logins are a login of
  another user behind a tab's back. Days of three hours, of which UTC counts one to
  the next, and three hours that pass from the second of a day have buckets of one day on
  both sides of the window's beginning, and of another that is not the first two hours
  with buckets; the months of two days have both a first and another day.

* *Registry.* Two requests, the start and two devices of different collections at two
  addresses make every meeting of two; two faults are a crash, which starts the listing
  anew, and one more.

Fairness. Goroutines are scheduled fairly by the Go runtime (weak fairness of each).
`select` chooses at random among ready cases and blocked senders wait in line, so no
case is ignored for ever (strong fairness of `Register`, `Unregister`,
`TakeBroadcast`, `Accept`, `OnStop`). The broker delivers what it may. An SNMP request
has a timeout, so `CollectFn` returns. Of the hook only the connection timeouts are
fair; of the table, that requests are answered or fail (`Answers`, `Deletions`); of a
tab, that React runs the effect of a guard it has rendered (`Check`). Nothing is assumed
of the environment: no datagram arrives, no peer fails, nobody starts or stops a
collection, clicks or navigates, no process is restarted. `PipelineLive` has no crash
and no broken connection, because nothing in the code reconnects: after one of those
the pipeline stands still until an operator restarts it.

## 5. Proofs

Proved for all values of the constants, with only the named assumptions of each module:

* `NetflowPipelineProofs`: `TypeOK` with the inductive invariant `IInv`;
  `DecodersExclusive`; `PercentagesCurrent` and `PercentagesFresh`. The heart of
  `IInv` is `BusyHolds`: on an open connection a busy worker holds an entry of its
  queue. With a prefetch of 1 the broker then delivers to a second worker only when
  nobody is busy (`OneBusy`). `DownIsIdle` carries this over crashes, `WorkInProgress`
  says what a busy worker has at hand. When a connection breaks, entries return to the
  queue while their workers are still busy, but a closed connection delivers nothing,
  and it is opened again only with a new process.
  `NothingLost` (`NothingDisappears`), for any prefetch limit in its first part, that a
  queued datagram is under way, counted, excused or lost. The argument is that a
  message is acknowledged only by a worker that is at work on it and has handed it on.
  `KeptInv` has both halves: who holds an entry is busy with its message, on an open
  connection, and holds no other (`DecodersHoldOwn`, `MetricsHoldOwn`); and what a worker
  is about to acknowledge is in the next queue, counted, or has nothing to count
  (`HandedOn`). `Kept` is what follows from it. The second part, for a prefetch limit of
  one, says what is no excuse: a datagram that is not lost is decoded in full, except for
  data whose template nobody had announced before it. `ForgottenInv` says that a template
  that is neither cached nor forgotten was never announced by what is handled already, so
  a set skipped for want of it was announced by nobody, or forgotten.
  `TemplatesLatest` (`TemplatesInOrder`), for a prefetch limit of one. `OrderInv` compares
  the raw queue with the order of arrival: it is the part not handled yet, its first
  message is the only one held (`RawInOrder`); a cached template is the latest of the part
  handled, or of the first message (`CacheInOrder`); and the message a decoder builds used
  those (`DecoderInOrder`).
  The refinement of `FlowAccounting` (`AccountingHolds`), for a prefetch limit of one.
  `AccountInv` bounds what has been counted *and* what will be: `ToDecode` and `ToCount` are
  how often the flows of a datagram will still be counted if nothing fails. Their sum with `applied` is
  moved by the steps of the workers but not raised, and a fault raises it by two at most,
  one in each queue (`CountBounded`). With a larger limit two workers can hold two messages
  of one datagram when the connection breaks, and the bound is no longer true.
* `HubProofs`: `TypeOK` with `HubInv`, `NoPanic`, `LiveClientsServed`. `NoPanic` follows
  from `MapIsOpen` (a client in the map has an open channel) and `FanoutInMap` (the
  loop of `Run` only meets clients that are still in the map, because `Run` itself is
  the only one to delete them).
* `HubFeedProofs`: `UnbrokenFeed` (`FeedUnbroken`), over the hub's own invariants. The
  stream of a viewer is what was written to its connection, what `writePump` has in hand
  and what is buffered; `FeedInv` says that it follows the log of broadcasts from the
  viewer's registration on (`StreamsFollow`), that the channel holds what `Run` has still to
  take and a fan-out hands out what it took last (`LogOfRun`). `Run` appends to a stream
  (`HandingOver`), `writePump` moves on in it (`TakingInHand`, `WritingInHand`), and a
  viewer joins between two broadcasts only (`StreamBegins`).
* `SnmpServiceProofs`: the service implements the hub's specification
  (`ServiceImplementsHub`), so the hub's theorems hold in it (`HubSafeInService`), and
  `NoOrphan`, from an invariant that relates `active`, `device` and `stopped`; and
  `ServiceTypeOK` (`ServiceTypesHold`), of the service with the hub.
* `MonitorPageProofs`, the uptime: `UptimeClock`'s `TypeOK` (`ClockTypes`) and
  `BetweenSampleAndDevice` (`CardBetween`, and of the page `CardBetweenOnPage`), for any
  interval, number of samples kept and length of time. The
  lemmas are about the conversions: `FormatThenParse` (a formatted uptime is parsed to
  the same number of seconds), `IncrementAddsOne` (whatever carries, one second more),
  `SlidKeeps` (which samples a window keeps). The invariant `BetweenInv` adds to the
  types that samples of the present boot are no more than the device's uptime now
  (`SamplesArePast`), that the card has taken the value of the first sample kept
  (`CardTookFirst`), and that its clock is between that value and the device while they
  are of one boot (`ClockBetween`).
* `MonitorPageProofs`, the lists of interfaces: `ListsKeep` (`ListsKept`). `WalkInv` says
  that what a collection has read of a row is among what that row was while it ran, and
  that what a list on its way shows was read so; `OpenAsExpanded` that a card is open
  exactly when its row was expanded and is still listed.
* `MonitorPageProofs`, the charts: `ChartsAreRight` (`ChartsFollowTheFeed`), for any number
  of points and of metrics. `FeedInv` has, besides the types, that each sample is the only
  one of its time (`OwnTimes`), that the first collection has one sample of a metric on
  its way at most, so that these come in order (`FirstInOrder`), that a chart's window
  holds the newest that came (`Windows`), and that what `useMemo` keeps was computed from
  the data it is compared with (`MemosFresh`). That a chart is the history's end is an
  induction over the number of samples (`ChartIsHistory`).
* `MonitorPageProofs`, the types: `PageTypeOK` (`PageTypesHold`), for any finite sets of
  devices and interfaces.
* `MonitorPageProofs`, the panels: `PanelsAgree` (`PanelsAreConsistent`). A rounded
  quotient lies between two bounds when the quotient does (`RoundedBetween`), and a sum of
  values between the number of them times the least and times the greatest (`SumBetween`),
  so the mean is within its chart (`MeanIsWithin`); `BadgePoints` and `RingIsWhole` are
  about signs and shares. What a filter keeps of a list comes from places that increase
  (`KeepsFrom`), and two filters that exclude each other and leave nothing out add up
  (`KeepsParts`): both are inductions over the entries looked at. `ListsInv` says that the
  rows of a walk and of a list are of the types of its tab, each index at most once, from which
  the chips' counts and the cards follow. The face is the uptime by the conversions' lemmas
  (`FaceIsRight`).
* `SiteProofs`, the document: `TypeOK` (`StatisticsTypes`), `CountedOnce` (`NeverTwice`) and
  `LostOnlyBetween` (`LossesOverlap`), for any metrics, editors and samples. The
  difficulty is an edit that is open over a midnight: it could restore the day's list
  after its average was taken. `AtRest` is the argument: from the end of a day to the calculation of its
  average nobody changes the averages, and no edit stays open over the end of a day. So
  an edit that is open then has read the averages that are stored (`ReadOnce`): if it
  restores a day's list that has been averaged meanwhile, it takes that average away
  with it.
  The branches for documents without a list need `ListsAreThere`: only a document that is
  older than the lists of a metric can lack that of the day, however it is edited.
  `Fresh` says that samples are numbered as collected, `OwnSamples` and `ReadOwn` that lists
  hold stored samples of their metric, `ReadAll` that what would be written back misses
  only samples at risk or discarded.
* `SiteProofs`, the session: `SessionIsRight` (`SessionsAgree`), for any tabs, users and
  logins. `SessionInv` says that the stored token was given to the stored user, and
  `RightTab` of each tab that its guard's answer is of its own kind of page and that its
  menu has read the stored user unless somebody has logged in since. A logout leaves the
  user in the storage, so that no menu becomes wrong by it.
* `SiteProofs`, the form: `FormKeeps` (`FormsKeep`), for any devices, names, saves and
  changes of others. `FormInv` says that a draft, a row of the table and a save under way
  have nothing of another device than the one they are of (`OwnDraft`, `OwnRow`,
  `OwnSave`); `FilledIsOwn` is the effect that fills the form, `WrittenIsOwn` what the
  server makes of a save. `DeletedStays` and `DraftsSurvive` are its two action
  properties. It needs that `None` is no identity, which `FormAssumption` says.
* `SiteProofs`, the table: `TableIsRight` (`TableShowsTheDevices`), for any devices, names,
  page sizes and requests, whatever answers overtake others. The page's address and its
  newest request always ask what the controls say (`UrlIsTheQuery`, `NewestIsCurrent`).
  What
  comes out of order is remembered (`inTurn`), not excluded: `QuietInv` has that once
  nothing is on its way the rows are the newest request's answer, if that came last. That
  the page asked for is one the grid has (`PageKept`) is an invariant of its own, with each
  way the grid turns to a page: a control, a filter, an answer with fewer rows, and a reload
  behind an error.
  The rows are devices with their count (`RightAnswer`), and as long as nobody else changes
  devices, neither the server nor an answer on its way has a device whose deletion sent the
  reload (`RightReload`).
  The pages follow from the sort: of any finite set and any total order, the number of
  elements before one is its own number, and these are all the numbers from 0 on
  (`RanksAreNumbers`, an induction over the size of the set), so the list has each device
  once (`SortedIsAll`), and a place in it is on one page (`PagesApart`, `PagesOfAList`).
  It needs that `None` is no identity and no answer, and that a filter is a name
  (`TableAssumption`).
* `SiteProofs`, the types: `SiteTypeOK` (`SiteTypes`), of all five parts. Most follow from
  the invariants above; `FormTypes` adds what is only of the form: it is open on its own
  screen only, and what was sent passed the validation (`ValidNames`).
* `SiteProofs`, the traffic: `TrafficIsRight` (`TrafficFollowsItsDays`), for any hours,
  days and lengths of days. `TrafficInv` says of what the browser keeps that it is
  right for its query whenever it was asked for: a point of the hours' chart is made of
  that hour's buckets (`HoursRight`). A day that is not the window's first has all of its
  hours in the window, since the window begins at a midnight of UTC, in the middle of a day
  of Brazil (`HoursOfADay`), so its row is grouped from the hours its detail has
  (`DaysMatch`). `DateOfTheDayBefore` is the dates' arithmetic. There is nothing to say of
  sums and means: every number is zero.
* `SnmpMonitorHookProofs`: `TypeOK` (`HookTypes`), `OneLiveSocket` (`OnlyOwnSocketLives`),
  `StatusIsTrue` (`StatusNeverLies`), `StartsAreStopped` (`NoStartIsLeft`) and `OneRetry`
  (`RetryCanBeCleared`), for any number of devices and sockets. None of them is inductive
  alone: a step may always meet a socket, a handler or a timer of an earlier connection.
  `HookInv` says that each of these is harmless: a socket that is not `websocketRef`'s is
  detached and neither connecting nor open (`OthersAbandoned`), the one that is belongs to
  this instance and this page (`OwnSocket`, `DeviceIsView`), and a retry is pending only
  after the hook's own socket has closed (`RetryOfEnded`). `CleanedUp` is what
  `cleanupConnection` achieves, `OpeningKeeps` that `connect` from there restores it all;
  the rest is one lemma for each event.

* `TrapRegistryProofs`: `TypeOK` (`RegistryTypes`), `EventsGiveTheirSource`
  (`SourceIsGiven`) and `TrapsAreAttributed` (`AttributedUnlessOverlap`), for any
  devices, addresses and requests. The argument goes by address: at one that has not gone
  astray there is one device at most, one operation at most has the address in hand
  (`InHandIsCurrent`), and what it has in hand is what is stored; so what it registers is
  right, and when it ends registry and collections agree again (`AddressRight`).
  `UnbornIsNew` says that a new identity is nowhere yet.

The parts' theorems hold in the composites, whose steps are steps of one part or leave
it unchanged. `SessionsAgree`, `FormsKeep`, `TableShowsTheDevices`, `TrafficFollowsItsDays` and
`SiteTypes` are stated of `SiteSpec`, and `CardBetweenOnPage`, `ListsKept`,
`ChartsFollowTheFeed`, `PageTypesHold` and `PanelsAreConsistent` of `PageSpec`; they say so
of those steps (`SessionBehaves`, `TableBehaves` and the like).

Model-checked only: the liveness properties (`EventuallyHandled`, `BroadcastsReturn`,
`ConnectionsReleased`, `StoppedCollectionsEnd`, `MetricsKeepComing`, `ConnectAnswers`,
`ProgressEnds`), which with `ENABLED` are out of the prover's reach.
Inductions over the naturals are done through sets of numbers (`Induction`, from the
library's `WFMin`), as its induction theorems take an operator. The prover sees nothing in
`SelectSeq` and in the library's sorting: `InterfaceList` has its filter as a function of
the number of entries looked at (`Only`) for that, `VersionDashboard` orders its days
likewise (`InOrder`), and `DeviceTable` its devices by rank.

## Observations

One disagreement of the code with its own text is a run:

* `table_empty`: for an empty collection the repository sends `null`
  (`repository/repository.go:51`), which `api/GenericDataTableFetch.tsx:24` makes a list
  of one null row. The grid throws at it, where `DataTable.tsx:460` means to show its label
  for no rows.

Others were met while the modules were written; the models have the code's behaviour, and
the properties are stated so that they hold in spite of it:

* The current temperature of a router is chosen by the length of the disk's chart
  (`RouterSnmpMonitor.tsx:172`); `CurrentIsLast` leaves it out.
* The uptime, the totals and the lists of interfaces are the *oldest* of the ten samples
  kept (`RouterSnmpMonitor.tsx:175-189`): the card lags by up to ten samples. That is why
  `BetweenSampleAndDevice` has two bounds.
* The list of link events asks for a field `event`, where the server sends `event_type`
  (`useTrapMonitor.ts:78`, `interfaces/trap_handler.go:15-21`), so no trap of this server is
  ever listed, although `TrapEventsMonitor.tsx:54` says that they appear by themselves. It
  is not modelled for that reason.
* The samples of the temperature are pushed onto a list that `models.Roteador` has no field
  for (`temperatureCollectorSchedule.go:90-98`, `models/router.go:35-54`): every edit of the
  router drops all of them, and nothing averages them.
* For a router without a list of the CPU the calculator empties the list of the memory, and
  makes none (`cpuAverageCalculatorScheduler.go:63-66`); a router that is edited before its
  lists are made gets null for them, onto which no sample can be pushed. `LostOnlyBetween`
  names these two ways to lose stored samples, besides overlaps.
* The rows of the traffic's dashboard are decoded into structs without bson tags
  (`ipVersionMetricService.go:22-44`), while the pipelines name their fields in camel case:
  all shares, totals and volumes the dashboard shows are 0.
* A filter or an order set beyond the first page sends two requests, the first for a page
  that is left at once (`DataTable.tsx:124-193`). Neither is cancelled, so that a user who
  waits for each answer may see the wrong rows all the same; `QuietIsRight` says when.
* The tabs label a VLAN of layer two (135) "Bridge", and most types their collectors let
  through "Type n" (`VlanList.tsx:113-120`, `PhysicalInterfacesList.tsx:114-122`,
  `snmp/base.go:48-68`).
* A process that starts again knows no templates, and acknowledges data that needs one until
  the exporter announces it again (`ipfixDecoder.go:114`): these flows are never counted.
* A tab does not notice that another one has logged out, or in as somebody else, until it
  navigates to another kind of page (`useAuth.ts:8`).
* Links lead nowhere: `/transmitter/…` of a transmitter's tabs
  (`TransmitterSnmpMonitor.tsx:167`) and the lower menu's settings, about and feedback.
* The subtitle of the disk's card asks for an average above zero, the others for data
  (`RouterDashboard.tsx:84`).
* The averages are never trimmed, although the page says "Last 30 days"
  (`RouterSnmpMonitor.tsx:56`).
* The window of the traffic begins at a midnight of UTC, which cuts its first day in
  Brazil (`ipVersionMetricService.go:61`); `DaysMatchTheirHours` leaves that day out.
* `formatDate` writes the wrong date on the first of a month (`IPVersionDashboard.tsx:236`).
* The header says that the data is in real time; a query is fresh for five minutes and has
  no interval (`IPVersionMetrics.tsx:37`).
* `lng: 'pt'` turns off the language detection that is configured beside it (`i18n.ts:11`).

## 6. Not modelled

* Packet loss and DNS processors: they have no effect (above).
* Trap handlers: the variables they read from a trap, and the list of link events, which
  nothing reaches (above). The mutex of the registry, which two controllers have copies of, is modelled as
  one, or as the end of the process that a concurrent write of a map is.
* Authentication on the server (`AuthSession` in the plan): rotation of refresh tokens.
  The frontend stores none (`api/Login.tsx` only names it); a token is a number in `Session`.
* Users, logs, repository: single database calls.
* SNMP collectors and trap handlers, but for the uptime and the walks of interfaces and
  VLANs: conversions of device answers. A collector is an environment choice in
  `SnmpService`.
* `routerId` of the stored documents, set only on insertion: a bucket begun before a
  router is registered stays without it.
* The variants by router of the traffic's service, which no page calls.
* Reconnection to RabbitMQ: the code has none.
* `GetConnectedClients`, `GetClientsByDevice`: they read the hub's map without a lock,
  and nothing calls them.
* The address and credentials a running collection keeps when its device is edited; the
  password of a device, which is hashed again at every edit.
* The timers of the schedules (`schedulerManager.go`): a tick and a midnight come when
  they come.
* The answer 401 to an expired token, the validation of the sign-in form beyond
  "accepted", the choice of a language.
* `theme/`, `sharedTheme`, `NetworkBackground`, styling, animation and what is left
  of the template and has no route: they keep no state a property could be about.
* Initialisation, routes, seeders, middlewares: wiring.
