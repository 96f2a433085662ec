-------------------------- MODULE SnmpMonitorHook --------------------------
(***************************************************************************)
(* The connection of a monitoring page to the hub: the React hook          *)
(* useSnmpMonitor.ts and the effect of the pages that use it               *)
(* (RouterSnmpMonitor.tsx, TransmitterSnmpMonitor.tsx).  JavaScript runs   *)
(* one task at a time: an effect, an event of a socket or a timer is one   *)
(* step.  What is hard is what outlives a step: sockets that are abandoned *)
(* before they open, timers that fire into a later connection, and         *)
(* handlers that keep the state of the render that made them.              *)
(***************************************************************************)
EXTENDS Integers, FiniteSets

CONSTANTS
    Devices,          \* the devices that have a page
    MaxSockets,       \* bound: how many sockets are created
    None              \* no device

ASSUME SocketsAssumption == MaxSockets \in Nat
ASSUME NoneAssumption == None \notin Devices

Sockets == 1..MaxSockets
NoSocket == 0

VARIABLES
    view,             \* the device of the page that is shown
    mount,            \* which instance of the hook the page has
    hook,             \* its refs and its connection state
    sock,             \* the sockets created, with what their connect closed over
    timers,           \* sockets whose onclose has set a reconnect timer, still pending
    requested         \* history: the last collection request sent for each device

vars == <<view, mount, hook, sock, timers, requested>>

\* ref, connecting, should, device, timer: websocketRef, isConnectingRef,
\* shouldReconnectRef, currentDeviceRef, reconnectTimerRef; status: connectionStatus.
FreshHook == [ref |-> NoSocket, connecting |-> FALSE, should |-> FALSE, device |-> None,
              timer |-> NoSocket, status |-> "disconnected"]

\* wired: its handlers are set; deadline: its connection timeout is pending;
\* promise: what its connect returned; asked: the page awaits that promise;
\* wasConnected: isConnected in the closure of its connect.
UnusedSocket == [state |-> "none", wired |-> FALSE, deadline |-> FALSE, promise |-> "none",
                 asked |-> FALSE, wasConnected |-> FALSE, device |-> None, mount |-> 0]

Init ==
    /\ view = None
    /\ mount = 0
    /\ hook = FreshHook
    /\ sock = [s \in Sockets |-> UnusedSocket]
    /\ timers = {}
    /\ requested = [d \in Devices |-> "none"]

Live(s) == sock[s].state \in {"connecting", "open"}
Unused == {s \in Sockets : sock[s].state = "none"}
-----------------------------------------------------------------------------
AbandonedSilently(s) ==      \* mistake: a connecting socket is only detached
    [s EXCEPT !.wired = FALSE, !.state = IF @ = "open" THEN "closing" ELSE @]

AbandonedForgotten(s) == s      \* mistake: only the reference is dropped

AbandonedWithTimeout(s) ==      \* mistake: the connection timeout is cleared, too
    [s EXCEPT !.wired = FALSE, !.deadline = FALSE,
              !.state = IF @ \in {"connecting", "open"} THEN "closing" ELSE @]

\* cleanupConnection, as what it leaves of the sockets, the timers and the refs.  The
\* timeout of the connection is not among what it clears.
Abandoned(s) ==
    [s EXCEPT !.wired = FALSE,
              !.state = IF @ \in {"connecting", "open"} THEN "closing" ELSE @]

CleanSockets ==
    [s \in Sockets |-> IF s = hook.ref THEN Abandoned(sock[s]) ELSE sock[s]]

TimersKept == timers      \* mistake: the pending reconnect is not cleared

CleanTimers == timers \ {hook.timer}

Cleaned(h) == [h EXCEPT !.ref = NoSocket, !.timer = NoSocket, !.connecting = FALSE]

\* disconnect.
Disconnected(h) == [Cleaned(h) EXCEPT !.should = FALSE, !.device = None,
                                      !.status = "disconnected"]

OpeningNameless(socks, h, d, wasConnected, asked, m) ==      \* mistake: forgets the device
    \E s \in Unused :
        /\ \A r \in Unused : s <= r
        /\ sock' = [socks EXCEPT ![s] =
              [state |-> "connecting", wired |-> TRUE, deadline |-> TRUE,
               promise |-> "pending", asked |-> asked, wasConnected |-> wasConnected,
               device |-> d, mount |-> m]]
        /\ hook' = [h EXCEPT !.ref = s, !.connecting = TRUE, !.should = TRUE,
                             !.status = "connecting"]

\* connect(d), from a hook h whose connection has been cleaned up: a new socket.
Opening(socks, h, d, wasConnected, asked, m) ==
    \E s \in Unused :
        /\ \A r \in Unused : s <= r
        /\ sock' = [socks EXCEPT ![s] =
              [state |-> "connecting", wired |-> TRUE, deadline |-> TRUE,
               promise |-> "pending", asked |-> asked, wasConnected |-> wasConnected,
               device |-> d, mount |-> m]]
        /\ hook' = [h EXCEPT !.ref = s, !.connecting = TRUE, !.should = TRUE,
                             !.device = d, !.status = "connecting"]

\* connect(d) refuses, or has nothing to do.
Refused(h, d) ==
    \/ h.connecting
    \/ h.ref # NoSocket /\ h.device = d /\ sock[h.ref].state = "open"
-----------------------------------------------------------------------------
\* The effect of the page.

\* The page opens: a new instance of the hook, whose first render is not connected.
Mount(d) ==
    /\ view = None
    /\ view' = d
    /\ mount' = mount + 1
    /\ Opening(sock, FreshHook, d, FALSE, TRUE, mount + 1)
    /\ UNCHANGED <<timers, requested>>

\* The page turns to another device: stopCollection, disconnect, then connect, of the
\* render that saw the state before the disconnect.
Switch(d) ==
    /\ view \notin {None, d}
    /\ view' = d
    /\ timers' = CleanTimers
    /\ requested' = [requested EXCEPT ![view] = "stop"]
    /\ IF Refused(Disconnected(hook), d)
       THEN hook' = Disconnected(hook) /\ sock' = CleanSockets
       ELSE Opening(CleanSockets, Disconnected(hook), d, hook.status = "connected", TRUE, mount)
    /\ UNCHANGED mount

\* The page closes: the cleanup of the hook, then that of the page.
Leave ==
    /\ view # None
    /\ view' = None
    /\ hook' = Disconnected(hook)
    /\ sock' = CleanSockets
    /\ timers' = CleanTimers
    /\ requested' = [requested EXCEPT ![view] = "stop"]
    /\ UNCHANGED mount
-----------------------------------------------------------------------------
\* The events of a socket.

\* onopen; when the page awaits it, initCollection goes on with startCollection.
Opens(s) ==
    /\ sock[s].state = "connecting"
    /\ IF sock[s].wired
       THEN /\ sock' = [sock EXCEPT ![s] = [@ EXCEPT !.state = "open", !.deadline = FALSE,
                                                     !.promise = "yes"]]
            /\ hook' = [hook EXCEPT !.status = "connected", !.connecting = FALSE]
            /\ requested' = IF sock[s].asked
                            THEN [requested EXCEPT ![sock[s].device] = "start"]
                            ELSE requested
       ELSE /\ sock' = [sock EXCEPT ![s].state = "open"]
            /\ UNCHANGED <<hook, requested>>
    /\ UNCHANGED <<view, mount, timers>>

ClosesUnnoticed(s) ==      \* mistake: onclose does not update the status
    /\ sock[s].state \in {"connecting", "open", "closing"}
    /\ sock' = [sock EXCEPT ![s] = [@ EXCEPT !.state = "closed", !.deadline = FALSE]]
    /\ UNCHANGED <<view, mount, hook, timers, requested>>

\* The connection fails, ends, or its closing is complete: onclose, and before it
\* onerror if it had never been open.
Reconnects(s) == hook.should /\ hook.device # None /\ sock[s].wasConnected

Closes(s) ==
    /\ sock[s].state \in {"connecting", "open", "closing"}
    /\ IF sock[s].wired
       THEN /\ sock' = [sock EXCEPT
                  ![s].state = "closed", ![s].deadline = FALSE,
                  ![s].promise = IF @ = "pending" THEN "no" ELSE @]
            /\ hook' = [hook EXCEPT !.status = "disconnected", !.connecting = FALSE,
                                    !.timer = IF Reconnects(s) THEN s ELSE @]
            /\ timers' = IF Reconnects(s) THEN timers \cup {s} ELSE timers
       ELSE /\ sock' = [sock EXCEPT ![s].state = "closed"]
            /\ UNCHANGED <<hook, timers>>
    /\ UNCHANGED <<view, mount, requested>>
-----------------------------------------------------------------------------
\* The timers.

\* The connection timeout, which only a socket that opened or ended has cleared.
TimesOut(s) ==
    /\ sock[s].deadline
    /\ sock' = [sock EXCEPT
          ![s].deadline = FALSE,
          ![s].state = IF @ = "connecting" THEN "closing" ELSE @,
          ![s].promise = IF sock[s].state # "open" /\ @ = "pending" THEN "no" ELSE @]
    /\ hook' = IF sock[s].state # "open" /\ sock[s].mount = mount
               THEN [hook EXCEPT !.status = "disconnected", !.connecting = FALSE]
               ELSE hook
    /\ UNCHANGED <<view, mount, timers, requested>>

\* The reconnect timer, with the connect of the closure that set it.
RetryFires(s) ==
    /\ s \in timers
    /\ IF hook.device = None \/ ~hook.should \/ Refused(hook, hook.device)
       THEN timers' = timers \ {s} /\ UNCHANGED <<hook, sock>>
       ELSE /\ timers' = CleanTimers \ {s}
            /\ Opening(CleanSockets, Cleaned(hook), hook.device, sock[s].wasConnected,
                       FALSE, mount)
    /\ UNCHANGED <<view, mount, requested>>
-----------------------------------------------------------------------------
Next ==
    \/ \E d \in Devices : Mount(d) \/ Switch(d)
    \/ Leave
    \/ \E s \in Sockets : Opens(s) \/ Closes(s) \/ TimesOut(s) \/ RetryFires(s)

Spec == Init /\ [][Next]_vars

\* A timer that is set fires unless it is cleared.  Nothing is asked of the network.
FairSpec == Spec /\ \A s \in Sockets : WF_vars(TimesOut(s))
-----------------------------------------------------------------------------
\* Every variable holds a value of its kind, and a hook with a socket knows for which
\* device it is: the reconnect has nothing else to go by.
TypeOK ==
    /\ view \in Devices \cup {None}
    /\ mount \in Nat
    /\ hook \in [ref : Sockets \cup {NoSocket}, connecting : BOOLEAN, should : BOOLEAN,
                 device : Devices \cup {None}, timer : Sockets \cup {NoSocket},
                 status : {"disconnected", "connecting", "connected"}]
    /\ hook.ref # NoSocket => hook.device # None
    /\ sock \in [Sockets -> [state : {"none", "connecting", "open", "closing", "closed"},
                             wired : BOOLEAN, deadline : BOOLEAN,
                             promise : {"none", "pending", "yes", "no"}, asked : BOOLEAN,
                             wasConnected : BOOLEAN, device : Devices \cup {None},
                             mount : Nat]]
    /\ timers \subseteq Sockets
    /\ requested \in [Devices -> {"none", "start", "stop"}]

\* However pages are turned while sockets open and timers fire, there is one socket
\* to the hub at most: the current one, for the device of the page that is shown.
OneLiveSocket ==
    \A s \in Sockets :
        Live(s) => s = hook.ref /\ view # None /\ sock[s].device = view

\* The page says it is connected only while its own socket is open, and connect is
\* refused as "already connecting" only while it is: a page never stays without a
\* connection because of an attempt that was abandoned.
StatusIsTrue ==
    /\ hook.status = "connected" =>
          hook.ref # NoSocket /\ sock[hook.ref].state = "open" /\ sock[hook.ref].device = view
    /\ hook.connecting => hook.ref # NoSocket /\ sock[hook.ref].state = "connecting"

\* A page that is left has asked the server to stop its collection after it asked for
\* the start: the continuation of a slow connect never starts one afterwards.
StartsAreStopped ==
    \A d \in Devices : requested[d] = "start" => view = d

\* At most one reconnect timer is pending, the one disconnect can clear.
OneRetry ==
    \A s \in timers : s = hook.timer

\* Whoever awaits connect gets an answer, also when the attempt was abandoned: then
\* the timeout that nothing cleared gives it.
ConnectAnswers ==
    \A s \in Sockets : sock[s].promise = "pending" ~> sock[s].promise \in {"yes", "no"}
=============================================================================
