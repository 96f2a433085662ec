------------------------- MODULE SnmpServiceProofs -------------------------
(***************************************************************************)
(* Proofs about SnmpService: its metric goroutines are producers the hub   *)
(* was specified for, so that what is proved of Hub holds of the           *)
(* composition, and no collection runs out of the reach of StopCollection. *)
(***************************************************************************)
EXTENDS SnmpService, HubProofs

ServiceTypes ==
    /\ active \in [Devices -> Collections \cup {Free}]
    /\ device \in [Collections -> Devices \cup {Free}]
    /\ stopped \subseteq Collections

\* The map has running collections only, each under its own device.
ActiveIsRunning ==
    \A d \in Devices : active[d] # Free =>
        device[active[d]] = d /\ active[d] \notin stopped

StoppedWereStarted == stopped \subseteq Started

ServiceInv == ServiceTypes /\ ActiveIsRunning /\ StoppedWereStarted /\ NoOrphan

\* Every step of the composition is, for the hub, one of its own or none.
LEMMA ServiceStepIsHubStep == [ServiceNext]_vars => [Next]_hubVars
<1> SUFFICES ASSUME [ServiceNext]_vars PROVE [Next]_hubVars
  OBVIOUS
<1>1. CASE HubNext
  BY <1>1 DEF Next
<1>2. ASSUME NEW w \in Workers, Collect(w)
      PROVE  Next
  <2>1. Broadcast(w, w[1])
    BY <1>2 DEF Collect
  <2>2. w \in Producers /\ w[1] \in Messages
    BY ProducersAssumption DEF Workers
  <2> QED
    BY <2>1, <2>2 DEF Next
<1>3. CASE \/ \E d \in Devices : StartCollection(d) \/ StopCollection(d)
           \/ \E w \in Workers : \/ NotSerialised(w) \/ CollectedAndSent(w)
                                 \/ OnTick(w) \/ OnStop(w) \/ Tick(w)
           \/ UNCHANGED vars
  BY <1>3 DEF StartCollection, StopCollection, NotSerialised, CollectedAndSent,
              AwaitTick, OnTick, OnStop, Tick, vars
<1> QED
  BY <1>1, <1>2, <1>3 DEF ServiceNext, MetricStep

\* Only starting and stopping a collection touches the map.
LEMMA ServiceFrame ==
    ASSUME ServiceInv, UNCHANGED <<active, device, stopped>>
    PROVE  ServiceInv'
BY DEF ServiceInv, ServiceTypes, ActiveIsRunning, StoppedWereStarted, NoOrphan, Started

\* Starting takes a device without a collection and a collection never used.
LEMMA StartKeepsInv ==
    ASSUME ServiceInv, NEW d \in Devices, StartCollection(d)
    PROVE  ServiceInv'
<1>0. ServiceTypes /\ ActiveIsRunning /\ StoppedWereStarted /\ NoOrphan
  BY DEF ServiceInv
<1>1. PICK k \in Collections : /\ device[k] = Free
                              /\ active' = [active EXCEPT ![d] = k]
                              /\ device' = [device EXCEPT ![k] = d]
  BY DEF StartCollection, Started
<1>2. active[d] = Free /\ stopped' = stopped
  BY DEF StartCollection
<1>3. \A c \in Devices : active[c] # k
  BY <1>0, <1>1, FreeAssumption DEF ActiveIsRunning
<1>4. ServiceTypes'
  BY <1>0, <1>1, <1>2 DEF ServiceTypes
<1>5. k \notin stopped
  BY <1>0, <1>1 DEF StoppedWereStarted, Started
<1> QED
  BY <1>0, <1>1, <1>2, <1>3, <1>4, <1>5, FreeAssumption
     DEF ServiceInv, ServiceTypes, ActiveIsRunning, StoppedWereStarted, NoOrphan, Started

\* Stopping takes the collection out of the map and closes its StopCh.
LEMMA StopKeepsInv ==
    ASSUME ServiceInv, NEW d \in Devices, StopCollection(d)
    PROVE  ServiceInv'
<1>0. ServiceTypes /\ ActiveIsRunning /\ StoppedWereStarted /\ NoOrphan
  BY DEF ServiceInv
<1> DEFINE k == active[d]
<1>1. /\ k \in Collections /\ device[k] = d
      /\ active' = [active EXCEPT ![d] = Free]
      /\ stopped' = stopped \cup {k}
      /\ device' = device
  BY <1>0 DEF StopCollection, ServiceTypes, ActiveIsRunning
<1>2. \A c \in Devices : c # d => active[c] # k
  BY <1>0, <1>1, FreeAssumption DEF ActiveIsRunning
<1> HIDE DEF k
<1>3. ServiceTypes' /\ active'[d] = Free /\ \A c \in Devices : c # d => active'[c] = active[c]
  BY <1>0, <1>1 DEF ServiceTypes
<1>4. ActiveIsRunning'
  BY <1>0, <1>1, <1>2, <1>3 DEF ActiveIsRunning
<1>5. StoppedWereStarted'
  BY <1>0, <1>1, FreeAssumption DEF StoppedWereStarted, Started
<1>6. ASSUME NEW j \in Started'
      PROVE  j \notin stopped' <=> active'[device'[j]] = j
  <2>1. j \in Started /\ device'[j] = device[j] /\ device[j] \in Devices /\ j # Free
    BY <1>0, <1>1, <1>6, FreeAssumption DEF Started, ServiceTypes
  <2>2. CASE j = k
    BY <1>1, <1>3, <2>1, <2>2
  <2>3. CASE j # k
    <3>1. j \notin stopped <=> active[device[j]] = j
      BY <1>0, <2>1 DEF NoOrphan
    <3>2. device[j] # d => active'[device[j]] = active[device[j]]
      BY <1>3, <2>1
    <3>3. device[j] = d => active[d] # j
      BY <2>3 DEF k
    <3> QED
      BY <1>1, <1>3, <2>1, <2>3, <3>1, <3>2, <3>3
  <2> QED
    BY <2>2, <2>3
<1>7. NoOrphan'
  BY <1>6 DEF NoOrphan
<1> QED
  BY <1>3, <1>4, <1>5, <1>7 DEF ServiceInv

\* Every step keeps the invariant.
LEMMA ServiceInductive == ServiceInv /\ [ServiceNext]_vars => ServiceInv'
<1> SUFFICES ASSUME ServiceInv, [ServiceNext]_vars PROVE ServiceInv'
  OBVIOUS
<1>1. CASE \E d \in Devices : StartCollection(d)
  BY <1>1, StartKeepsInv
<1>2. CASE \E d \in Devices : StopCollection(d)
  BY <1>2, StopKeepsInv
<1>3. CASE \/ HubNext /\ UNCHANGED serviceVars
           \/ \E w \in Workers : MetricStep(w) \/ Tick(w)
           \/ UNCHANGED vars
  <2>1. UNCHANGED <<active, device, stopped>>
    BY <1>3 DEF MetricStep, Collect, NotSerialised, CollectedAndSent, AwaitTick,
                OnTick, OnStop, Tick, vars, serviceVars
  <2> QED
    BY <2>1, ServiceFrame
<1> QED
  BY <1>1, <1>2, <1>3 DEF ServiceNext

\* The goroutines and their tickers are in a state of theirs.
GoroutineTypes ==
    /\ worker \in [Workers -> {"none", "collecting", "broadcasting", "waiting", "done"}]
    /\ ticker \in [Workers -> {"nil", "running", "stopped"}]
    /\ ticks \subseteq Workers

LEMMA GoroutinesInductive == GoroutineTypes /\ [ServiceNext]_vars => GoroutineTypes'
<1> SUFFICES ASSUME GoroutineTypes, [ServiceNext]_vars PROVE GoroutineTypes'
  OBVIOUS
<1>1. ASSUME NEW d \in Devices, StartCollection(d) PROVE GoroutineTypes'
  BY <1>1 DEF StartCollection, GoroutineTypes
<1>2. ASSUME NEW d \in Devices, StopCollection(d) PROVE GoroutineTypes'
  BY <1>2 DEF StopCollection, TickersStopped, GoroutineTypes
<1>3. ASSUME NEW w \in Workers, Collect(w) PROVE GoroutineTypes'
  BY <1>3 DEF Collect, GoroutineTypes
<1>4. ASSUME NEW w \in Workers, NotSerialised(w) \/ CollectedAndSent(w) PROVE GoroutineTypes'
  BY <1>4 DEF NotSerialised, CollectedAndSent, AwaitTick, GoroutineTypes
<1>5. ASSUME NEW w \in Workers, OnTick(w) \/ OnStop(w) \/ Tick(w) PROVE GoroutineTypes'
  BY <1>5 DEF OnTick, OnStop, Tick, GoroutineTypes
<1>6. CASE (HubNext /\ UNCHANGED serviceVars) \/ UNCHANGED vars
  BY <1>6 DEF GoroutineTypes, serviceVars, vars
<1> QED
  BY <1>1, <1>2, <1>3, <1>4, <1>5, <1>6 DEF ServiceNext, MetricStep
-----------------------------------------------------------------------------
\* The composition is the hub in an environment it was specified for: every
\* behaviour of the service with the hub is one of Hub.
THEOREM ServiceImplementsHub == ServiceSpec => Spec
<1>1. ServiceInit => Init
  BY DEF ServiceInit
<1> QED
  BY <1>1, ServiceStepIsHubStep, PTL DEF ServiceSpec, Spec

\* With the metric goroutines as producers, the hub still never panics and serves
\* every responding viewer.
THEOREM HubSafeInService == ServiceSpec => []NoPanic /\ []LiveClientsServed
BY ServiceImplementsHub, NeverPanics, LiveClientsAlwaysServed, PTL

\* However starts and stops interleave, the map has exactly the running collections,
\* one per device: every one of them can be stopped.
THEOREM NothingOrphaned == ServiceSpec => []NoOrphan
<1>1. ServiceInit => ServiceInv
  BY DEF ServiceInit, ServiceInv, ServiceTypes, ActiveIsRunning, StoppedWereStarted,
         NoOrphan, Started
<1>2. ServiceInv => NoOrphan
  BY DEF ServiceInv
<1> QED
  BY <1>1, <1>2, ServiceInductive, PTL DEF ServiceSpec

\* Every variable of the service keeps its type, the hub's in its composition, too.
THEOREM ServiceTypesHold == ServiceSpec => []ServiceTypeOK
<1>1. ServiceInit => ServiceInv /\ GoroutineTypes
  BY DEF ServiceInit, ServiceInv, ServiceTypes, ActiveIsRunning, StoppedWereStarted,
         NoOrphan, Started, GoroutineTypes
<1>2. TypeOK /\ ServiceInv /\ GoroutineTypes => ServiceTypeOK
  BY DEF ServiceInv, ServiceTypes, GoroutineTypes, ServiceTypeOK
<1> QED
  BY <1>1, <1>2, ServiceInductive, GoroutinesInductive, ServiceImplementsHub, TypeCorrect, PTL
     DEF ServiceSpec
=============================================================================
