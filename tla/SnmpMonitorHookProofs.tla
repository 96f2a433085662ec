------------------------ MODULE SnmpMonitorHookProofs ------------------------
(***************************************************************************)
(* Proofs about SnmpMonitorHook: one live socket, a status that is true,   *)
(* no collection left running and one pending retry, for any number of     *)
(* devices and sockets.  What ties them together is that everything a step *)
(* may meet from an earlier connection, a socket, a handler or a timer, is *)
(* either the hook's own or was made harmless when it was given up.        *)
(***************************************************************************)
EXTENDS SnmpMonitorHook, TLAPS

HookRecords ==
    [ref : Sockets \cup {NoSocket}, connecting : BOOLEAN, should : BOOLEAN,
     device : Devices \cup {None}, timer : Sockets \cup {NoSocket},
     status : {"disconnected", "connecting", "connected"}]
SocketRecords ==
    [state : {"none", "connecting", "open", "closing", "closed"}, wired : BOOLEAN,
     deadline : BOOLEAN, promise : {"none", "pending", "yes", "no"}, asked : BOOLEAN,
     wasConnected : BOOLEAN, device : Devices \cup {None}, mount : Nat]

\* The hook's socket is wired to it, of its instance and for the page that is shown.
OwnSocket ==
    hook.ref # NoSocket =>
        /\ view # None
        /\ sock[hook.ref].wired
        /\ sock[hook.ref].device = view
        /\ sock[hook.ref].mount = mount
DeviceIsView == hook.device # None => hook.device = view

\* Every other socket is detached and closed, or about to be.
OthersAbandoned ==
    \A s \in Sockets : Live(s) \/ sock[s].wired => s = hook.ref

\* A retry is pending only after the hook's own socket has ended.
RetryOfEnded ==
    timers # {} => hook.ref # NoSocket /\ sock[hook.ref].state = "closed"

HookInv ==
    /\ TypeOK
    /\ OwnSocket /\ DeviceIsView /\ OthersAbandoned /\ RetryOfEnded
    /\ OneRetry /\ StatusIsTrue /\ StartsAreStopped
-----------------------------------------------------------------------------
\* The record sets are those of the type invariant.
LEMMA Types ==
    ASSUME TypeOK
    PROVE  /\ view \in Devices \cup {None} /\ mount \in Nat
           /\ hook \in HookRecords
           /\ hook.ref # NoSocket => hook.device # None
           /\ sock \in [Sockets -> SocketRecords]
           /\ timers \subseteq Sockets
           /\ requested \in [Devices -> {"none", "start", "stop"}]
BY DEF TypeOK, HookRecords, SocketRecords

LEMMA NoSocketIsNone == NoSocket \notin Sockets
BY DEF NoSocket, Sockets

\* A connection that is cleaned up leaves no live and no wired socket, and no timer.
LEMMA CleanedUp ==
    ASSUME HookInv
    PROVE  /\ CleanSockets \in [Sockets -> SocketRecords]
           /\ \A s \in Sockets : /\ ~CleanSockets[s].wired
                                 /\ CleanSockets[s].state \notin {"connecting", "open"}
           /\ CleanTimers = {}
           /\ Disconnected(hook) \in HookRecords
           /\ Cleaned(hook) \in HookRecords
<1> USE DEF HookInv
<1>1. sock \in [Sockets -> SocketRecords] /\ hook \in HookRecords
  BY Types
<1>2. ASSUME NEW s \in Sockets
      PROVE  Abandoned(sock[s]) \in SocketRecords
  BY <1>1 DEF Abandoned, SocketRecords
<1>3. CleanSockets \in [Sockets -> SocketRecords]
  BY <1>1, <1>2 DEF CleanSockets
<1>4. ASSUME NEW s \in Sockets
      PROVE  /\ ~CleanSockets[s].wired
             /\ CleanSockets[s].state \notin {"connecting", "open"}
  <2>1. CASE s = hook.ref
    <3>1. CleanSockets[s] = Abandoned(sock[s])
      BY <2>1 DEF CleanSockets
    <3>2. sock[s] \in SocketRecords
      BY <1>1
    <3>3. QED BY <3>1, <3>2 DEF Abandoned, SocketRecords
  <2>2. CASE s # hook.ref
    <3>1. CleanSockets[s] = sock[s]
      BY <2>2 DEF CleanSockets
    <3>2. ~Live(s) /\ ~sock[s].wired
      BY <2>2 DEF OthersAbandoned
    <3>3. QED BY <3>1, <3>2 DEF Live
  <2>3. QED BY <2>1, <2>2
<1>5. CleanTimers = {}
  BY DEF CleanTimers, OneRetry
<1>6. Cleaned(hook) \in HookRecords
  BY <1>1 DEF Cleaned, HookRecords
<1>7. Disconnected(hook) \in HookRecords
  BY <1>6 DEF Disconnected, HookRecords
<1>8. QED BY <1>3, <1>4, <1>5, <1>6, <1>7

\* From a connection that has been cleaned up, a new socket is the only one.
LEMMA OpeningKeeps ==
    ASSUME NEW socks \in [Sockets -> SocketRecords], NEW h \in HookRecords,
           NEW d \in Devices, NEW wasConnected \in BOOLEAN, NEW asked \in BOOLEAN,
           NEW m \in Nat,
           \A s \in Sockets : /\ ~socks[s].wired
                              /\ socks[s].state \notin {"connecting", "open"},
           Opening(socks, h, d, wasConnected, asked, m),
           view' = d, mount' = m, timers' = {},
           requested' \in [Devices -> {"none", "start", "stop"}],
           \A e \in Devices : requested'[e] = "start" => e = d
    PROVE  HookInv'
<1>1. PICK n \in Sockets :
        /\ sock' = [socks EXCEPT ![n] =
              [state |-> "connecting", wired |-> TRUE, deadline |-> TRUE,
               promise |-> "pending", asked |-> asked, wasConnected |-> wasConnected,
               device |-> d, mount |-> m]]
        /\ hook' = [h EXCEPT !.ref = n, !.connecting = TRUE, !.should = TRUE,
                             !.device = d, !.status = "connecting"]
  BY DEF Opening, Unused
<1>2. d # None
  BY NoneAssumption
<1>3. /\ hook' \in HookRecords
      /\ hook'.ref = n /\ hook'.device = d /\ hook'.status = "connecting"
  BY <1>1 DEF HookRecords
<1>4. /\ sock' \in [Sockets -> SocketRecords]
      /\ sock'[n].state = "connecting" /\ sock'[n].wired
      /\ sock'[n].device = d /\ sock'[n].mount = m
      /\ \A s \in Sockets : s # n => sock'[s] = socks[s]
  BY <1>1 DEF SocketRecords
<1>5. TypeOK'
  BY <1>2, <1>3, <1>4 DEF TypeOK, HookRecords, SocketRecords
<1>6. OwnSocket' /\ DeviceIsView'
  BY <1>2, <1>3, <1>4 DEF OwnSocket, DeviceIsView
<1>7. OthersAbandoned'
  BY <1>3, <1>4 DEF OthersAbandoned, Live
<1>8. RetryOfEnded' /\ OneRetry'
  BY DEF RetryOfEnded, OneRetry
<1>9. StatusIsTrue'
  BY <1>3, <1>4, NoSocketIsNone DEF StatusIsTrue
<1>10. StartsAreStopped'
  BY DEF StartsAreStopped
<1>11. QED BY <1>5, <1>6, <1>7, <1>8, <1>9, <1>10 DEF HookInv
-----------------------------------------------------------------------------
LEMMA InitHook == Init => HookInv
<1> SUFFICES ASSUME Init PROVE HookInv
  OBVIOUS
<1> USE DEF Init
<1>1. /\ hook = FreshHook /\ hook \in HookRecords
      /\ hook.ref = NoSocket /\ hook.device = None /\ ~hook.connecting
      /\ hook.status = "disconnected"
  BY DEF FreshHook, HookRecords
<1>2. /\ sock \in [Sockets -> SocketRecords]
      /\ \A s \in Sockets : sock[s].state = "none" /\ ~sock[s].wired
  BY DEF UnusedSocket, SocketRecords
<1>3. TypeOK
  BY <1>1, <1>2 DEF TypeOK, HookRecords, SocketRecords
<1>4. OwnSocket /\ DeviceIsView /\ OthersAbandoned /\ RetryOfEnded
  BY <1>1, <1>2 DEF OwnSocket, DeviceIsView, OthersAbandoned, RetryOfEnded, Live
<1>5. OneRetry /\ StatusIsTrue /\ StartsAreStopped
  BY <1>1 DEF OneRetry, StatusIsTrue, StartsAreStopped
<1>6. QED BY <1>3, <1>4, <1>5 DEF HookInv

\* The pages: they open and turn with a new socket, and leave without one.
LEMMA MountKeeps ==
    ASSUME HookInv, NEW d \in Devices, Mount(d)
    PROVE  HookInv'
<1> USE DEF HookInv
<1>1. view = None /\ view' = d /\ mount' = mount + 1 /\ timers' = timers /\ requested' = requested
  BY DEF Mount
<1>2. hook.ref = NoSocket
  BY <1>1 DEF OwnSocket
<1>3. timers' = {}
  BY <1>1, <1>2 DEF RetryOfEnded
<1>4. \A s \in Sockets : ~sock[s].wired /\ sock[s].state \notin {"connecting", "open"}
  BY <1>2, NoSocketIsNone DEF OthersAbandoned, Live
<1>5. \A e \in Devices : requested'[e] = "start" => e = d
  BY <1>1, NoneAssumption DEF StartsAreStopped
<1>6. FreshHook \in HookRecords
  BY DEF FreshHook, HookRecords
<1>7. Opening(sock, FreshHook, d, FALSE, TRUE, mount + 1)
  BY DEF Mount
<1>8. mount + 1 \in Nat
  BY Types
<1>9. sock \in [Sockets -> SocketRecords] /\ requested' \in [Devices -> {"none", "start", "stop"}]
  BY <1>1, Types
<1>10. QED BY <1>1, <1>3, <1>4, <1>5, <1>6, <1>7, <1>8, <1>9, OpeningKeeps

\* What is requested when a page is left or turned.
LEMMA StopsOnLeaving ==
    ASSUME HookInv, view # None, requested' = [requested EXCEPT ![view] = "stop"]
    PROVE  /\ requested' \in [Devices -> {"none", "start", "stop"}]
           /\ \A e \in Devices : requested'[e] # "start"
BY Types DEF HookInv, StartsAreStopped

LEMMA SwitchKeeps ==
    ASSUME HookInv, NEW d \in Devices, Switch(d)
    PROVE  HookInv'
<1>1. /\ view # None /\ view' = d /\ mount' = mount /\ timers' = CleanTimers
      /\ requested' = [requested EXCEPT ![view] = "stop"]
  BY DEF Switch
<1>2. ~Refused(Disconnected(hook), d)
  <2>1. Disconnected(hook).connecting = FALSE /\ Disconnected(hook).ref = NoSocket
    BY Types DEF HookInv, Disconnected, Cleaned, HookRecords
  <2>2. QED BY <2>1 DEF Refused
<1>3. Opening(CleanSockets, Disconnected(hook), d, hook.status = "connected", TRUE, mount)
  BY <1>2 DEF Switch
<1>4. mount \in Nat
  BY Types DEF HookInv
<1>5. QED BY <1>1, <1>3, <1>4, CleanedUp, StopsOnLeaving, OpeningKeeps

LEMMA LeaveKeeps ==
    ASSUME HookInv, Leave
    PROVE  HookInv'
<1>1. /\ view # None /\ view' = None /\ mount' = mount /\ timers' = CleanTimers
      /\ hook' = Disconnected(hook) /\ sock' = CleanSockets
      /\ requested' = [requested EXCEPT ![view] = "stop"]
  BY DEF Leave
<1>2. /\ hook' \in HookRecords
      /\ hook'.ref = NoSocket /\ hook'.device = None /\ ~hook'.connecting
      /\ hook'.status = "disconnected"
  <2>1. hook \in HookRecords
    BY Types DEF HookInv
  <2>2. QED BY <1>1, <2>1, CleanedUp DEF Disconnected, Cleaned, HookRecords
<1>3. TypeOK'
  BY <1>1, <1>2, Types, CleanedUp, StopsOnLeaving DEF HookInv, TypeOK, HookRecords, SocketRecords
<1>4. OwnSocket' /\ DeviceIsView' /\ OthersAbandoned' /\ RetryOfEnded'
  BY <1>1, <1>2, CleanedUp DEF OwnSocket, DeviceIsView, OthersAbandoned, RetryOfEnded, Live
<1>5. OneRetry' /\ StatusIsTrue' /\ StartsAreStopped'
  BY <1>1, <1>2, CleanedUp, StopsOnLeaving DEF OneRetry, StatusIsTrue, StartsAreStopped
<1>6. QED BY <1>3, <1>4, <1>5 DEF HookInv
-----------------------------------------------------------------------------
\* The events of a socket and the timers.  One that is not the hook's own can neither
\* open nor reach the hook's refs.

LEMMA OpensKeeps ==
    ASSUME HookInv, NEW s \in Sockets, Opens(s)
    PROVE  HookInv'
<1>1. /\ hook \in HookRecords /\ sock \in [Sockets -> SocketRecords]
      /\ UNCHANGED <<view, mount, timers>>
  BY Types DEF HookInv, Opens
<1>2. /\ s = hook.ref /\ sock[s].wired /\ sock[s].state = "connecting"
      /\ view # None /\ sock[s].device = view /\ sock[s].mount = mount
      /\ hook.ref # NoSocket
  BY NoSocketIsNone DEF HookInv, OthersAbandoned, Live, Opens, OwnSocket
<1>3. /\ sock' = [sock EXCEPT ![s] = [@ EXCEPT !.state = "open", !.deadline = FALSE,
                                               !.promise = "yes"]]
      /\ hook' = [hook EXCEPT !.status = "connected", !.connecting = FALSE]
      /\ requested' \in {requested, [requested EXCEPT ![view] = "start"]}
  BY <1>2 DEF Opens
<1>4. /\ hook' \in HookRecords /\ hook'.ref = s /\ hook'.device = hook.device
      /\ hook'.timer = hook.timer /\ ~hook'.connecting
  BY <1>1, <1>2, <1>3 DEF HookRecords
<1>5. /\ sock' \in [Sockets -> SocketRecords]
      /\ sock'[s].state = "open" /\ sock'[s].wired /\ sock'[s].device = view
      /\ sock'[s].mount = mount
      /\ \A r \in Sockets : r # s => sock'[r] = sock[r]
  <2> DEFINE opened == [sock[s] EXCEPT !.state = "open", !.deadline = FALSE, !.promise = "yes"]
  <2>1. sock[s] \in SocketRecords
    BY <1>1
  <2>2. /\ opened \in SocketRecords
        /\ opened.state = "open" /\ opened.wired /\ opened.device = view
        /\ opened.mount = mount
    BY <1>2, <2>1 DEF SocketRecords
  <2>3. sock' = [sock EXCEPT ![s] = opened]
    BY <1>3
  <2> HIDE DEF opened
  <2>4. QED BY <1>1, <2>2, <2>3
<1>6. timers' = {}
  BY <1>1, <1>2 DEF HookInv, RetryOfEnded
<1>7. TypeOK'
  BY <1>1, <1>2, <1>3, <1>4, <1>5, <1>6, Types DEF HookInv, TypeOK, HookRecords, SocketRecords
<1>8. OwnSocket' /\ DeviceIsView' /\ OthersAbandoned' /\ RetryOfEnded'
  BY <1>1, <1>2, <1>4, <1>5, <1>6
     DEF HookInv, OwnSocket, DeviceIsView, OthersAbandoned, RetryOfEnded, Live
<1>9. OneRetry' /\ StatusIsTrue'
  BY <1>1, <1>2, <1>4, <1>5, <1>6 DEF OneRetry, StatusIsTrue
<1>10. StartsAreStopped'
  BY <1>1, <1>3, Types DEF HookInv, StartsAreStopped
<1>11. QED BY <1>7, <1>8, <1>9, <1>10 DEF HookInv

LEMMA ClosesKeeps ==
    ASSUME HookInv, NEW s \in Sockets, Closes(s)
    PROVE  HookInv'
<1>1. /\ hook \in HookRecords /\ sock \in [Sockets -> SocketRecords] /\ timers \subseteq Sockets
      /\ UNCHANGED <<view, mount, requested>>
      /\ sock[s].state \in {"connecting", "open", "closing"}
  BY Types DEF HookInv, Closes
<1>2. CASE sock[s].wired
  <2>1. /\ s = hook.ref /\ view # None /\ sock[s].device = view /\ sock[s].mount = mount
        /\ hook.ref # NoSocket
    BY <1>2, NoSocketIsNone DEF HookInv, OthersAbandoned, OwnSocket
  <2>2. timers = {}
    BY <1>1, <2>1 DEF HookInv, RetryOfEnded
  <2>3. /\ sock' = [sock EXCEPT
                  ![s].state = "closed", ![s].deadline = FALSE,
                  ![s].promise = IF @ = "pending" THEN "no" ELSE @]
        /\ hook' = [hook EXCEPT !.status = "disconnected", !.connecting = FALSE,
                                !.timer = IF Reconnects(s) THEN s ELSE @]
        /\ timers' = IF Reconnects(s) THEN {s} ELSE {}
    BY <1>2, <2>2 DEF Closes
  <2>4. /\ hook' \in HookRecords /\ hook'.ref = s /\ hook'.device = hook.device
        /\ ~hook'.connecting /\ hook'.status = "disconnected"
        /\ Reconnects(s) => hook'.timer = s
    BY <1>1, <2>1, <2>3 DEF HookRecords
  <2>5. /\ sock' \in [Sockets -> SocketRecords]
        /\ sock'[s].state = "closed" /\ sock'[s].wired /\ sock'[s].device = view
        /\ sock'[s].mount = mount
        /\ \A r \in Sockets : r # s => sock'[r] = sock[r]
    <3> DEFINE answer == IF sock[s].promise = "pending" THEN "no" ELSE sock[s].promise
               ended == [sock[s] EXCEPT !.state = "closed", !.deadline = FALSE,
                                        !.promise = answer]
    <3>1. sock[s] \in SocketRecords
      BY <1>1
    <3>2. /\ ended \in SocketRecords
          /\ ended.state = "closed" /\ ended.wired /\ ended.device = view
          /\ ended.mount = mount
      BY <1>2, <2>1, <3>1 DEF SocketRecords
    <3>3. sock' = [sock EXCEPT ![s] = ended]
      BY <2>3
    <3> HIDE DEF ended
    <3>4. QED BY <1>1, <3>2, <3>3
  <2>6. TypeOK'
    BY <1>1, <2>1, <2>3, <2>4, <2>5, Types DEF HookInv, TypeOK, HookRecords, SocketRecords
  <2>7. OwnSocket' /\ DeviceIsView' /\ OthersAbandoned' /\ RetryOfEnded'
    BY <1>1, <2>1, <2>4, <2>5
       DEF HookInv, OwnSocket, DeviceIsView, OthersAbandoned, RetryOfEnded, Live
  <2>8. OneRetry' /\ StatusIsTrue' /\ StartsAreStopped'
    BY <1>1, <2>3, <2>4 DEF HookInv, OneRetry, StatusIsTrue, StartsAreStopped
  <2>9. QED BY <2>6, <2>7, <2>8 DEF HookInv
<1>3. CASE ~sock[s].wired
  <2>1. hook.ref # NoSocket => s # hook.ref
    BY <1>3 DEF HookInv, OwnSocket
  <2>2. sock' = [sock EXCEPT ![s].state = "closed"] /\ hook' = hook /\ timers' = timers
    BY <1>3 DEF Closes
  <2>3. /\ sock' \in [Sockets -> SocketRecords]
        /\ sock'[s].state = "closed" /\ ~sock'[s].wired
        /\ \A r \in Sockets : r # s => sock'[r] = sock[r]
    BY <1>1, <1>3, <2>2 DEF SocketRecords
  <2>4. hook.ref # NoSocket => sock'[hook.ref] = sock[hook.ref]
    BY <1>1, <2>1, <2>3 DEF HookRecords
  <2>5. TypeOK'
    BY <1>1, <2>2, <2>3, Types DEF HookInv, TypeOK, HookRecords, SocketRecords
  <2>6. OwnSocket' /\ DeviceIsView' /\ OthersAbandoned' /\ RetryOfEnded'
    BY <1>1, <2>1, <2>2, <2>3, <2>4
       DEF HookInv, OwnSocket, DeviceIsView, OthersAbandoned, RetryOfEnded, Live
  <2>7. OneRetry' /\ StatusIsTrue' /\ StartsAreStopped'
    BY <1>1, <2>2, <2>4 DEF HookInv, OneRetry, StatusIsTrue, StartsAreStopped
  <2>8. QED BY <2>5, <2>6, <2>7 DEF HookInv
<1>4. QED BY <1>2, <1>3

LEMMA TimesOutKeeps ==
    ASSUME HookInv, NEW s \in Sockets, TimesOut(s)
    PROVE  HookInv'
<1> DEFINE late == [sock[s] EXCEPT
        !.deadline = FALSE,
        !.state = IF sock[s].state = "connecting" THEN "closing" ELSE sock[s].state,
        !.promise = IF sock[s].state # "open" /\ sock[s].promise = "pending"
                    THEN "no" ELSE sock[s].promise]
<1>1. /\ hook \in HookRecords /\ sock \in [Sockets -> SocketRecords]
      /\ UNCHANGED <<view, mount, timers, requested>>
      /\ sock[s] \in SocketRecords
  BY Types DEF HookInv, TimesOut
<1>2. sock' = [sock EXCEPT ![s] = late]
  BY DEF TimesOut
<1>3. /\ late \in SocketRecords
      /\ late.wired = sock[s].wired /\ late.device = sock[s].device /\ late.mount = sock[s].mount
      /\ late.state = IF sock[s].state = "connecting" THEN "closing" ELSE sock[s].state
  BY <1>1 DEF SocketRecords
<1> HIDE DEF late
<1>4. /\ sock' \in [Sockets -> SocketRecords] /\ sock'[s] = late
      /\ \A r \in Sockets : r # s => sock'[r] = sock[r]
  BY <1>1, <1>2, <1>3
<1>5. /\ hook' \in HookRecords /\ hook'.ref = hook.ref /\ hook'.device = hook.device
      /\ hook'.timer = hook.timer
      /\ hook' = hook \/ (~hook'.connecting /\ hook'.status = "disconnected")
  <2>1. CASE sock[s].state # "open" /\ sock[s].mount = mount
    <3>1. hook' = [hook EXCEPT !.status = "disconnected", !.connecting = FALSE]
      BY <2>1 DEF TimesOut
    <3>2. hook'.connecting = FALSE
      BY <1>1, <3>1 DEF HookRecords
    <3>3. /\ hook' \in HookRecords /\ hook'.ref = hook.ref /\ hook'.device = hook.device
          /\ hook'.timer = hook.timer /\ hook'.status = "disconnected"
      BY <1>1, <3>1 DEF HookRecords
    <3>4. QED BY <3>2, <3>3
  <2>2. CASE ~(sock[s].state # "open" /\ sock[s].mount = mount)
    <3>1. hook' = hook
      BY <2>2 DEF TimesOut
    <3>2. QED BY <1>1, <3>1
  <2>3. QED BY <2>1, <2>2
<1>6. hook' = hook => sock[s].state = "open" \/ s # hook.ref \/ ~hook.connecting
  <2>1. SUFFICES ASSUME hook' = hook, sock[s].state # "open", s = hook.ref
                 PROVE  ~hook.connecting
    OBVIOUS
  <2>2. sock[s].mount = mount
    BY <2>1, NoSocketIsNone DEF HookInv, OwnSocket
  <2>3. hook' = [hook EXCEPT !.status = "disconnected", !.connecting = FALSE]
    BY <2>1, <2>2 DEF TimesOut
  <2>4. hook'.connecting = FALSE
    BY <1>1, <2>3 DEF HookRecords
  <2>5. QED BY <2>1, <2>4
<1>7. TypeOK'
  BY <1>1, <1>4, <1>5, Types DEF HookInv, TypeOK, HookRecords, SocketRecords
<1>8. hook.ref # NoSocket => hook.ref \in Sockets
  BY <1>1 DEF HookRecords
<1>9. \A r \in Sockets :
        /\ sock'[r].wired = sock[r].wired /\ sock'[r].device = sock[r].device
        /\ sock'[r].mount = sock[r].mount
        /\ sock[r].state \in {"open", "closed"} => sock'[r].state = sock[r].state
        /\ sock'[r].state \in {"connecting", "open"} => sock'[r].state = sock[r].state
        /\ r # s => sock'[r].state = sock[r].state
  BY <1>3, <1>4
<1>10. OwnSocket' /\ DeviceIsView' /\ RetryOfEnded'
  BY <1>1, <1>5, <1>8, <1>9 DEF HookInv, OwnSocket, DeviceIsView, RetryOfEnded
<1>11. OthersAbandoned'
  BY <1>5, <1>9 DEF HookInv, OthersAbandoned, Live
<1>12. StatusIsTrue'
  BY <1>1, <1>5, <1>6, <1>8, <1>9 DEF HookInv, StatusIsTrue
<1>13. OneRetry' /\ StartsAreStopped'
  BY <1>1, <1>5 DEF HookInv, OneRetry, StartsAreStopped
<1>14. QED BY <1>7, <1>10, <1>11, <1>12, <1>13 DEF HookInv

LEMMA RetryFiresKeeps ==
    ASSUME HookInv, NEW s \in Sockets, RetryFires(s)
    PROVE  HookInv'
<1>1. /\ s \in timers /\ UNCHANGED <<view, mount, requested>>
      /\ sock \in [Sockets -> SocketRecords]
  BY Types DEF HookInv, RetryFires
<1>2. CASE hook.device = None \/ ~hook.should \/ Refused(hook, hook.device)
  <2>1. timers' = timers \ {s} /\ hook' = hook /\ sock' = sock
    BY <1>2 DEF RetryFires
  <2>2. QED
    BY <1>1, <2>1 DEF HookInv, TypeOK, OwnSocket, DeviceIsView, OthersAbandoned, RetryOfEnded,
                      OneRetry, StatusIsTrue, StartsAreStopped, Live
<1>3. CASE ~(hook.device = None \/ ~hook.should \/ Refused(hook, hook.device))
  <2>1. /\ timers' = CleanTimers \ {s}
        /\ Opening(CleanSockets, Cleaned(hook), hook.device, sock[s].wasConnected, FALSE, mount)
    BY <1>3 DEF RetryFires
  <2>2. hook.device = view /\ hook.device \in Devices
    BY <1>3, Types DEF HookInv, DeviceIsView, HookRecords
  <2>3. sock[s].wasConnected \in BOOLEAN /\ mount \in Nat
    BY <1>1, Types DEF HookInv, SocketRecords
  <2>4. /\ requested' \in [Devices -> {"none", "start", "stop"}]
        /\ \A e \in Devices : requested'[e] = "start" => e = hook.device
    BY <1>1, <2>2, Types DEF HookInv, StartsAreStopped
  <2>5. timers' = {} /\ view' = hook.device /\ mount' = mount
    BY <1>1, <2>1, <2>2, CleanedUp
  <2>6. /\ CleanSockets \in [Sockets -> SocketRecords]
        /\ \A r \in Sockets : /\ ~CleanSockets[r].wired
                              /\ CleanSockets[r].state \notin {"connecting", "open"}
        /\ Cleaned(hook) \in HookRecords
    BY CleanedUp
  <2>7. QED
    <3> DEFINE d == hook.device
               was == sock[s].wasConnected
               socks == CleanSockets
               h == Cleaned(hook)
    <3>1. /\ d \in Devices /\ was \in BOOLEAN /\ mount \in Nat
          /\ socks \in [Sockets -> SocketRecords] /\ h \in HookRecords
          /\ \A r \in Sockets : ~socks[r].wired /\ socks[r].state \notin {"connecting", "open"}
          /\ Opening(socks, h, d, was, FALSE, mount)
          /\ view' = d /\ mount' = mount /\ timers' = {}
          /\ requested' \in [Devices -> {"none", "start", "stop"}]
          /\ \A e \in Devices : requested'[e] = "start" => e = d
      BY <2>1, <2>2, <2>3, <2>4, <2>5, <2>6
    <3> HIDE DEF d, was, socks, h
    <3>2. QED BY <3>1, OpeningKeeps
<1>4. QED BY <1>2, <1>3
-----------------------------------------------------------------------------
LEMMA HookInvariant == Spec => []HookInv
<1>1. HookInv /\ [Next]_vars => HookInv'
  <2> SUFFICES ASSUME HookInv, [Next]_vars PROVE HookInv'
    OBVIOUS
  <2>1. ASSUME NEW d \in Devices, Mount(d) \/ Switch(d) PROVE HookInv'
    BY <2>1, MountKeeps, SwitchKeeps
  <2>2. CASE Leave
    BY <2>2, LeaveKeeps
  <2>3. ASSUME NEW s \in Sockets, Opens(s) \/ Closes(s) \/ TimesOut(s) \/ RetryFires(s)
        PROVE  HookInv'
    BY <2>3, OpensKeeps, ClosesKeeps, TimesOutKeeps, RetryFiresKeeps
  <2>4. CASE UNCHANGED vars
    BY <2>4 DEF vars, HookInv, TypeOK, OwnSocket, DeviceIsView, OthersAbandoned, RetryOfEnded,
                OneRetry, StatusIsTrue, StartsAreStopped, Live
  <2>5. QED BY <2>1, <2>2, <2>3, <2>4 DEF Next
<1>2. QED BY InitHook, <1>1, PTL DEF Spec

\* Every variable keeps its type, and a hook with a socket knows its device.
THEOREM HookTypes == Spec => []TypeOK
<1>1. HookInv => TypeOK
  BY DEF HookInv
<1>2. QED BY HookInvariant, <1>1, PTL

\* useSnmpMonitor.ts never has two sockets to the hub, nor one for a page that is gone,
\* however pages are turned while sockets open and timers fire.
THEOREM OnlyOwnSocketLives == Spec => []OneLiveSocket
<1>1. HookInv => OneLiveSocket
  BY NoSocketIsNone DEF HookInv, OthersAbandoned, OwnSocket, OneLiveSocket
<1>2. QED BY HookInvariant, <1>1, PTL

\* connectionStatus says "connected", and isConnectingRef refuses a connect, only while
\* the page's own socket is open, or connecting.
THEOREM StatusNeverLies == Spec => []StatusIsTrue
<1>1. HookInv => StatusIsTrue
  BY DEF HookInv
<1>2. QED BY HookInvariant, <1>1, PTL

\* No start of a collection follows the stop that a page sends when it is left.
THEOREM NoStartIsLeft == Spec => []StartsAreStopped
<1>1. HookInv => StartsAreStopped
  BY DEF HookInv
<1>2. QED BY HookInvariant, <1>1, PTL

\* reconnectTimerRef holds every reconnect timer that is pending, so disconnect clears it.
THEOREM RetryCanBeCleared == Spec => []OneRetry
<1>1. HookInv => OneRetry
  BY DEF HookInv
<1>2. QED BY HookInvariant, <1>1, PTL
=============================================================================
