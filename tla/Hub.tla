-------------------------------- MODULE Hub --------------------------------
(***************************************************************************)
(* The websocket hub of websocket/hub.go.  One goroutine, Run, owns the    *)
(* set of clients; per client there are the goroutine of the HTTP handler, *)
(* which registers it, and the two pumps; any number of other goroutines   *)
(* broadcast.  They meet at unbuffered channels (register, unregister) and *)
(* at buffered ones (broadcast, and send of each client).  One step is one *)
(* channel operation or one use of a connection.                           *)
(***************************************************************************)
EXTENDS Integers, Sequences, FiniteSets

CONSTANTS
    Clients,          \* the Client values ServeWS creates, each used once
    Producers,        \* the goroutines that call Broadcast
    Messages,         \* what they broadcast
    BroadcastCap,     \* capacity of Hub.broadcast, 256 in the code
    SendCap,          \* capacity of Client.send, 256 in the code
    None              \* no message

ASSUME CapAssumption == BroadcastCap \in Nat \ {0} /\ SendCap \in Nat \ {0}
ASSUME NoneAssumption == None \notin Messages

VARIABLES
    clients,          \* Hub.clients
    broadcast,        \* Hub.broadcast
    fanout,           \* where Run is: the message it hands out, the clients to go
    outgoing,         \* the message each producer is blocked on in Broadcast
    send,             \* Client.send: what is buffered
    closed,           \* the clients whose send channel is closed
    panicked,         \* a send channel was closed twice, or sent on when closed
    handler,          \* the goroutine in ServeWS
    writer,           \* the goroutine in writePump
    inHand,           \* the message it has received from send
    reader,           \* the goroutine in readPump
    open,             \* the clients whose connection this process has open
    lost              \* the clients whose peer is gone or has stopped responding

hubVars == <<clients, broadcast, fanout, outgoing, send, closed, panicked, handler,
             writer, inHand, reader, open, lost>>

Selecting == [msg |-> None, todo |-> {}]
InSelect == fanout.todo = {}

Init ==
    /\ clients = {}
    /\ broadcast = <<>>
    /\ fanout = Selecting
    /\ outgoing = [p \in Producers |-> None]
    /\ send = [c \in Clients |-> <<>>]
    /\ closed = {}
    /\ panicked = FALSE
    /\ handler = [c \in Clients |-> "none"]
    /\ writer = [c \in Clients |-> "none"]
    /\ inHand = [c \in Clients |-> None]
    /\ reader = [c \in Clients |-> "none"]
    /\ open = {}
    /\ lost = {}
-----------------------------------------------------------------------------
\* The producers.

\* Broadcast(message) is called.
Broadcast(p, message) ==
    /\ outgoing[p] = None
    /\ outgoing' = [outgoing EXCEPT ![p] = message]
    /\ UNCHANGED <<clients, broadcast, fanout, send, closed, panicked, handler,
                   writer, inHand, reader, open, lost>>

AcceptUnbounded(p) ==      \* mistake: a channel without a limit
    /\ outgoing[p] # None
    /\ broadcast' = Append(broadcast, outgoing[p])
    /\ outgoing' = [outgoing EXCEPT ![p] = None]
    /\ UNCHANGED <<clients, fanout, send, closed, panicked, handler, writer, inHand,
                   reader, open, lost>>

\* The channel takes it, and Broadcast returns.
Accept(p) ==
    /\ outgoing[p] # None
    /\ Len(broadcast) < BroadcastCap
    /\ broadcast' = Append(broadcast, outgoing[p])
    /\ outgoing' = [outgoing EXCEPT ![p] = None]
    /\ UNCHANGED <<clients, fanout, send, closed, panicked, handler, writer, inHand,
                   reader, open, lost>>
-----------------------------------------------------------------------------
\* The connections.

\* ServeWS accepts and upgrades a request.  (One that it refuses, for its token,
\* its parameters or the upgrade itself, leaves no trace.)
ServeWS(c) ==
    /\ handler[c] = "none"
    /\ handler' = [handler EXCEPT ![c] = "registering"]
    /\ open' = open \cup {c}
    /\ UNCHANGED <<clients, broadcast, fanout, outgoing, send, closed, panicked,
                   writer, inHand, reader, lost>>

\* client.hub.register <- client meets Run in its select.
Register(c) ==
    /\ InSelect
    /\ handler[c] = "registering"
    /\ handler' = [handler EXCEPT ![c] = "starting"]
    /\ clients' = clients \cup {c}
    /\ UNCHANGED <<broadcast, fanout, outgoing, send, closed, panicked, writer, inHand,
                   reader, open, lost>>

\* ServeWS starts the pumps and returns.
StartPumps(c) ==
    /\ handler[c] = "starting"
    /\ handler' = [handler EXCEPT ![c] = "done"]
    /\ writer' = [writer EXCEPT ![c] = "select"]
    /\ reader' = [reader EXCEPT ![c] = "reading"]
    /\ UNCHANGED <<clients, broadcast, fanout, outgoing, send, closed, panicked,
                   inHand, open, lost>>

\* The peer goes away, is silent for longer than the deadlines allow, or sends more
\* than the read limit.
LosePeer(c) ==
    /\ c \in open \ lost
    /\ lost' = lost \cup {c}
    /\ UNCHANGED <<clients, broadcast, fanout, outgoing, send, closed, panicked,
                   handler, writer, inHand, reader, open>>
-----------------------------------------------------------------------------
\* Run.

CloseSend(c) ==
    /\ closed' = closed \cup {c}
    /\ panicked' = (panicked \/ c \in closed)

UnregisterUnchecked(c) ==      \* mistake: no check that the client is still there
    /\ InSelect
    /\ reader[c] = "unregistering"
    /\ reader' = [reader EXCEPT ![c] = "closing"]
    /\ clients' = clients \ {c}
    /\ CloseSend(c)
    /\ UNCHANGED <<broadcast, fanout, outgoing, send, handler, writer, inHand, open, lost>>

\* c.hub.unregister <- c meets Run in its select.
Unregister(c) ==
    /\ InSelect
    /\ reader[c] = "unregistering"
    /\ reader' = [reader EXCEPT ![c] = "closing"]
    /\ IF c \in clients
       THEN clients' = clients \ {c} /\ CloseSend(c)
       ELSE UNCHANGED <<clients, closed, panicked>>
    /\ UNCHANGED <<broadcast, fanout, outgoing, send, handler, writer, inHand, open, lost>>

\* Run receives a broadcast and sets out to hand it to the clients there are.
TakeBroadcast ==
    /\ InSelect
    /\ broadcast # <<>>
    /\ broadcast' = Tail(broadcast)
    /\ fanout' = IF clients = {} THEN Selecting
                 ELSE [msg |-> Head(broadcast), todo |-> clients]
    /\ UNCHANGED <<clients, outgoing, send, closed, panicked, handler, writer, inHand,
                   reader, open, lost>>

Visited(c) ==
    fanout' = IF fanout.todo = {c} THEN Selecting
              ELSE [msg |-> fanout.msg, todo |-> fanout.todo \ {c}]

OfferBlocking(c) ==      \* mistake: a send without the default case
    /\ c \in fanout.todo
    /\ Visited(c)
    /\ Len(send[c]) < SendCap
    /\ send' = [send EXCEPT ![c] = Append(@, fanout.msg)]
    /\ panicked' = (panicked \/ c \in closed)
    /\ UNCHANGED <<clients, closed, broadcast, outgoing, handler, writer, inHand, reader,
                   open, lost>>

OfferKeeping(c) ==      \* mistake: a slow client is closed but not deleted
    /\ c \in fanout.todo
    /\ Visited(c)
    /\ IF Len(send[c]) < SendCap
       THEN /\ send' = [send EXCEPT ![c] = Append(@, fanout.msg)]
            /\ panicked' = (panicked \/ c \in closed)
            /\ UNCHANGED <<clients, closed>>
       ELSE CloseSend(c) /\ UNCHANGED <<clients, send>>
    /\ UNCHANGED <<broadcast, outgoing, handler, writer, inHand, reader, open, lost>>

OfferSkipping(c) ==      \* mistake: a full client is passed over
    /\ c \in fanout.todo
    /\ Visited(c)
    /\ send' = IF Len(send[c]) < SendCap
               THEN [send EXCEPT ![c] = Append(@, fanout.msg)] ELSE send
    /\ panicked' = (panicked \/ c \in closed)
    /\ UNCHANGED <<clients, closed, broadcast, outgoing, handler, writer, inHand, reader,
                   open, lost>>

\* The next client, in the order of the map: a full one is dropped.
Offer(c) ==
    /\ c \in fanout.todo
    /\ Visited(c)
    /\ IF Len(send[c]) < SendCap
       THEN /\ send' = [send EXCEPT ![c] = Append(@, fanout.msg)]
            /\ panicked' = (panicked \/ c \in closed)
            /\ UNCHANGED <<clients, closed>>
       ELSE /\ clients' = clients \ {c}
            /\ CloseSend(c)
            /\ UNCHANGED send
    /\ UNCHANGED <<broadcast, outgoing, handler, writer, inHand, reader, open, lost>>
-----------------------------------------------------------------------------
\* The pumps.

\* writePump receives from send; a closed channel first yields what it holds.
WriterTakes(c) ==
    /\ writer[c] = "select"
    /\ send[c] # <<>>
    /\ send' = [send EXCEPT ![c] = Tail(@)]
    /\ inHand' = [inHand EXCEPT ![c] = Head(send[c])]
    /\ writer' = [writer EXCEPT ![c] = "writing"]
    /\ UNCHANGED <<clients, broadcast, fanout, outgoing, closed, panicked, handler,
                   reader, open, lost>>

\* WriteMessage succeeds.  To a lost peer it may, as long as buffers take it.
Write(c) ==
    /\ writer[c] = "writing"
    /\ c \in open
    /\ writer' = [writer EXCEPT ![c] = "select"]
    /\ inHand' = [inHand EXCEPT ![c] = None]
    /\ UNCHANGED <<clients, broadcast, fanout, outgoing, send, closed, panicked,
                   handler, reader, open, lost>>

\* The deferred calls of writePump.
WriterReturns(c) ==
    /\ writer' = [writer EXCEPT ![c] = "done"]
    /\ open' = open \ {c}
    /\ UNCHANGED <<clients, broadcast, fanout, outgoing, send, closed, panicked,
                   handler, reader, lost>>

\* WriteMessage fails: with the message it had, or with a ping.
WriteFails(c) ==
    /\ writer[c] \in {"select", "writing"}
    /\ c \notin open \/ c \in lost
    /\ inHand' = [inHand EXCEPT ![c] = None]
    /\ WriterReturns(c)

\* The channel is closed and empty: a close message, whose error is ignored.
WriterEnds(c) ==
    /\ writer[c] = "select"
    /\ send[c] = <<>> /\ c \in closed
    /\ UNCHANGED inHand
    /\ WriterReturns(c)

ReadMissesLocalClose(c) ==      \* mistake: only the peer ends the loop
    /\ reader[c] = "reading"
    /\ c \in lost
    /\ reader' = [reader EXCEPT ![c] = "unregistering"]
    /\ UNCHANGED <<clients, broadcast, fanout, outgoing, send, closed, panicked,
                   handler, writer, inHand, open, lost>>

\* ReadMessage fails: the peer is lost, or writePump has closed the connection.
ReadFails(c) ==
    /\ reader[c] = "reading"
    /\ c \notin open \/ c \in lost
    /\ reader' = [reader EXCEPT ![c] = "unregistering"]
    /\ UNCHANGED <<clients, broadcast, fanout, outgoing, send, closed, panicked,
                   handler, writer, inHand, open, lost>>

\* After Unregister, the second deferred call of readPump.
ReaderCloses(c) ==
    /\ reader[c] = "closing"
    /\ reader' = [reader EXCEPT ![c] = "done"]
    /\ open' = open \ {c}
    /\ UNCHANGED <<clients, broadcast, fanout, outgoing, send, closed, panicked,
                   handler, writer, inHand, lost>>
-----------------------------------------------------------------------------
Run ==
    \/ TakeBroadcast
    \/ \E c \in Clients : Register(c) \/ Unregister(c) \/ Offer(c)

WritePump(c) == WriterTakes(c) \/ Write(c) \/ WriteFails(c) \/ WriterEnds(c)
ReadPump(c) == ReadFails(c) \/ ReaderCloses(c)

\* What is in this module: the producers' calls are left to the environment.
HubNext ==
    \/ Run
    \/ \E p \in Producers : Accept(p)
    \/ \E c \in Clients : \/ ServeWS(c) \/ StartPumps(c) \/ LosePeer(c)
                          \/ WritePump(c) \/ ReadPump(c)

Next ==
    \/ HubNext
    \/ \E p \in Producers, message \in Messages : Broadcast(p, message)

Spec == Init /\ [][Next]_hubVars

\* Every goroutine that can run does.  Select chooses among its ready cases at
\* random, and goroutines blocked on one channel are served in order, so no case
\* and no sender is passed over for ever.  Nothing makes a request arrive, a peer
\* disappear, a producer broadcast or a write to a live peer fail.
RunFairness ==
    /\ WF_hubVars(Run)
    /\ SF_hubVars(TakeBroadcast)
    /\ \A p \in Producers : SF_hubVars(Accept(p))

ClientFairness ==
    \A c \in Clients :
        /\ SF_hubVars(Register(c)) /\ SF_hubVars(Unregister(c))
        /\ WF_hubVars(StartPumps(c))
        /\ WF_hubVars(WritePump(c))
        /\ WF_hubVars(ReadPump(c))

FairSpec == Spec /\ RunFairness /\ ClientFairness
-----------------------------------------------------------------------------
\* Every variable holds a value of its kind, and no channel more than it may.
TypeOK ==
    /\ clients \subseteq Clients
    /\ broadcast \in Seq(Messages) /\ Len(broadcast) <= BroadcastCap
    /\ fanout \in [msg : Messages \cup {None}, todo : SUBSET Clients]
    /\ outgoing \in [Producers -> Messages \cup {None}]
    /\ send \in [Clients -> Seq(Messages)]
    /\ \A c \in Clients : Len(send[c]) <= SendCap
    /\ closed \subseteq Clients
    /\ panicked \in BOOLEAN
    /\ handler \in [Clients -> {"none", "registering", "starting", "done"}]
    /\ writer \in [Clients -> {"none", "select", "writing", "done"}]
    /\ inHand \in [Clients -> Messages \cup {None}]
    /\ reader \in [Clients -> {"none", "reading", "unregistering", "closing", "done"}]
    /\ open \subseteq Clients
    /\ lost \subseteq Clients

\* Run closes a send channel at two places and sends at a third, the readers ask
\* for it at any moment: no channel is closed twice or sent on once closed, which
\* would panic in the one goroutine that serves every client.
NoPanic == ~panicked

\* A viewer that responds is disconnected only because its buffer was full: while
\* it is registered its connection is open and, once started, both pumps work.
LiveClientsServed ==
    \A c \in clients \ lost :
        /\ c \in open
        /\ handler[c] = "done" => writer[c] # "done" /\ reader[c] = "reading"

\* A slow or vanished viewer never blocks the hub: every Broadcast returns.
BroadcastsReturn ==
    \A p \in Producers : outgoing[p] # None ~> outgoing[p] = None

\* A connection that failed, or whose client was dropped for being slow, is given
\* up for good: out of the map, both pumps ended, connection closed.
Released(c) ==
    c \notin clients /\ c \notin open /\ writer[c] = "done" /\ reader[c] = "done"
ConnectionsReleased ==
    \A c \in Clients : c \in lost \cup closed ~> Released(c)
-----------------------------------------------------------------------------
\* The strengthening that makes NoPanic and LiveClientsServed inductive: the map
\* has the registered clients whose channel is open, a fan-out visits only clients
\* that are still there, and a connection outlives its client's place in the map
\* unless its peer is lost.
MapIsOpen == clients \cap closed = {}
FanoutInMap == fanout.todo \subseteq clients /\ (~InSelect => fanout.msg # None)
PumpsFollowHandler ==
    \A c \in Clients :
        /\ c \in clients \cup closed => handler[c] \in {"starting", "done"}
        /\ handler[c] # "done" => writer[c] = "none" /\ reader[c] = "none"
        /\ handler[c] \in {"registering", "starting"} => c \in open
        /\ handler[c] = "done" => writer[c] # "none" /\ reader[c] # "none"
        /\ handler[c] \in {"starting", "done"} => c \in clients \cup closed
        /\ c \in open \cup lost => handler[c] # "none"
ConnectionsInUse ==
    \A c \in Clients :
        handler[c] = "done" /\ c \notin lost \cup closed =>
            c \in open /\ writer[c] # "done" /\ reader[c] = "reading"

HubInv == NoPanic /\ MapIsOpen /\ FanoutInMap /\ PumpsFollowHandler /\ ConnectionsInUse
=============================================================================
