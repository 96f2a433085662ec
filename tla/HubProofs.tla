----------------------------- MODULE HubProofs -----------------------------
(***************************************************************************)
(* Proofs about Hub: type correctness, that Run never closes a channel     *)
(* twice or sends on a closed one, and that it disconnects a responding    *)
(* viewer for no other reason than a full buffer, for any number of        *)
(* viewers, producers and messages and any capacities.                     *)
(***************************************************************************)
EXTENDS Hub, SequenceTheorems, TLAPS

\* A channel that is appended to or taken from holds messages still.
LEMMA ChannelTypes ==
    ASSUME NEW q \in Seq(Messages)
    PROVE  /\ Len(q) \in Nat
           /\ \A m \in Messages : /\ Append(q, m) \in Seq(Messages)
                                 /\ Len(Append(q, m)) = Len(q) + 1
           /\ q # <<>> => /\ Head(q) \in Messages
                          /\ Tail(q) \in Seq(Messages)
                          /\ Len(Tail(q)) = Len(q) - 1
BY LenProperties, AppendProperties, HeadTailProperties

\* Initially everything is typed.
LEMMA TypeInit == Init => TypeOK
<1> SUFFICES ASSUME Init PROVE TypeOK
  OBVIOUS
<1>1. <<>> \in Seq(Messages) /\ Len(<<>>) = 0 /\ BroadcastCap \in Nat /\ SendCap \in Nat
  BY EmptySeq, CapAssumption
<1>2. /\ broadcast \in Seq(Messages) /\ Len(broadcast) <= BroadcastCap
      /\ send \in [Clients -> Seq(Messages)]
      /\ \A c \in Clients : Len(send[c]) <= SendCap
  BY <1>1 DEF Init
<1>3. fanout \in [msg : Messages \cup {None}, todo : SUBSET Clients]
  BY DEF Init, Selecting
<1> QED
  BY <1>2, <1>3 DEF Init, TypeOK

\* A step of Run keeps every variable typed.
LEMMA TypeRun == TypeOK /\ FanoutInMap /\ Run => TypeOK'
<1> SUFFICES ASSUME TypeOK, FanoutInMap, Run PROVE TypeOK'
  OBVIOUS
<1>1. CASE TakeBroadcast
  <2>1. /\ broadcast \in Seq(Messages) /\ broadcast # <<>>
        /\ Len(broadcast) \in Nat /\ Len(broadcast) <= BroadcastCap
    BY <1>1, ChannelTypes DEF TypeOK, TakeBroadcast
  <2>2. /\ broadcast' \in Seq(Messages) /\ Len(broadcast') = Len(broadcast) - 1
        /\ Head(broadcast) \in Messages
    BY <1>1, <2>1, ChannelTypes DEF TakeBroadcast
  <2>3. Len(broadcast') <= BroadcastCap
    BY <2>1, <2>2, CapAssumption
  <2>4. fanout' \in [msg : Messages \cup {None}, todo : SUBSET Clients]
    BY <1>1, <2>2 DEF TypeOK, TakeBroadcast, Selecting
  <2> QED
    BY <1>1, <2>2, <2>3, <2>4 DEF TypeOK, TakeBroadcast
<1>2. ASSUME NEW c \in Clients, Register(c)
      PROVE  TypeOK'
  BY <1>2 DEF TypeOK, Register
<1>3. ASSUME NEW c \in Clients, Unregister(c)
      PROVE  TypeOK'
  BY <1>3 DEF TypeOK, Unregister, CloseSend
<1>4. ASSUME NEW c \in Clients, Offer(c)
      PROVE  TypeOK'
  <2>1. fanout' \in [msg : Messages \cup {None}, todo : SUBSET Clients]
    BY <1>4 DEF TypeOK, Offer, Visited, Selecting
  <2>2. clients' \subseteq Clients /\ closed' \subseteq Clients
    BY <1>4 DEF TypeOK, Offer, CloseSend
  <2>5. panicked' \in BOOLEAN
    <3>1. panicked' = (panicked \/ c \in closed)
      BY <1>4 DEF Offer, CloseSend
    <3> QED
      BY <3>1
  <2>3. fanout.msg \in Messages
    BY <1>4 DEF TypeOK, FanoutInMap, Offer, InSelect
  <2>4. /\ send' \in [Clients -> Seq(Messages)]
        /\ \A d \in Clients : Len(send'[d]) <= SendCap
    <3>1. send \in [Clients -> Seq(Messages)] /\ \A d \in Clients : Len(send[d]) <= SendCap
      BY DEF TypeOK
    <3>2. CASE send' = send
      BY <3>1, <3>2
    <3>3. CASE Len(send[c]) < SendCap /\ send' = [send EXCEPT ![c] = Append(send[c], fanout.msg)]
      <4>1. /\ Append(send[c], fanout.msg) \in Seq(Messages)
            /\ Len(Append(send[c], fanout.msg)) = Len(send[c]) + 1 /\ Len(send[c]) \in Nat
        BY <2>3, <3>1, ChannelTypes
      <4>2. Len(Append(send[c], fanout.msg)) <= SendCap
        BY <3>3, <4>1, CapAssumption
      <4> QED
        BY <3>1, <3>3, <4>1, <4>2
    <3> QED
      BY <1>4, <3>2, <3>3 DEF Offer
  <2> QED
    BY <1>4, <2>1, <2>2, <2>4, <2>5 DEF TypeOK, Offer
<1> QED
  BY <1>1, <1>2, <1>3, <1>4 DEF Run

\* A step of a client's goroutines or of its peer keeps every variable typed.
LEMMA TypeClient ==
    ASSUME TypeOK, NEW c \in Clients,
           ServeWS(c) \/ StartPumps(c) \/ LosePeer(c) \/ WritePump(c) \/ ReadPump(c)
    PROVE  TypeOK'
<1>1. CASE ServeWS(c) \/ StartPumps(c) \/ LosePeer(c)
  BY <1>1 DEF TypeOK, ServeWS, StartPumps, LosePeer
<1>2. CASE WriterTakes(c)
  <2>1. send \in [Clients -> Seq(Messages)] /\ \A d \in Clients : Len(send[d]) <= SendCap
    BY DEF TypeOK
  <2>2. /\ Head(send[c]) \in Messages /\ Tail(send[c]) \in Seq(Messages)
        /\ Len(Tail(send[c])) <= SendCap
    BY <1>2, <2>1, ChannelTypes, CapAssumption DEF WriterTakes
  <2>3. /\ send' \in [Clients -> Seq(Messages)]
        /\ \A d \in Clients : Len(send'[d]) <= SendCap
    BY <1>2, <2>1, <2>2 DEF WriterTakes
  <2> QED
    BY <1>2, <2>2, <2>3 DEF TypeOK, WriterTakes
<1>3. CASE Write(c)
  BY <1>3 DEF TypeOK, Write
<1>4. CASE WriteFails(c)
  BY <1>4 DEF TypeOK, WriteFails, WriterReturns
<1>5. CASE WriterEnds(c)
  BY <1>5 DEF TypeOK, WriterEnds, WriterReturns
<1>6. CASE ReadPump(c)
  BY <1>6 DEF TypeOK, ReadPump, ReadFails, ReaderCloses
<1> QED
  BY <1>1, <1>2, <1>3, <1>4, <1>5, <1>6 DEF WritePump

\* A step of a producer keeps every variable typed.
LEMMA TypeProducer ==
    ASSUME TypeOK, NEW p \in Producers,
           Accept(p) \/ \E message \in Messages : Broadcast(p, message)
    PROVE  TypeOK'
<1>1. CASE Accept(p)
  <2>1. outgoing[p] \in Messages /\ broadcast \in Seq(Messages)
    BY <1>1 DEF TypeOK, Accept
  <2>2. /\ broadcast' \in Seq(Messages) /\ Len(broadcast') = Len(broadcast) + 1
        /\ Len(broadcast) \in Nat /\ Len(broadcast) < BroadcastCap
    BY <1>1, <2>1, ChannelTypes DEF Accept
  <2>3. Len(broadcast') <= BroadcastCap
    BY <2>2, CapAssumption
  <2> QED
    BY <1>1, <2>2, <2>3 DEF TypeOK, Accept
<1>2. CASE \E message \in Messages : Broadcast(p, message)
  BY <1>2 DEF TypeOK, Broadcast
<1> QED
  BY <1>1, <1>2
-----------------------------------------------------------------------------
\* Initially no client is in the map and no channel closed.
LEMMA InvInit == Init => HubInv
BY DEF Init, HubInv, NoPanic, MapIsOpen, FanoutInMap, PumpsFollowHandler,
       ConnectionsInUse, Selecting, InSelect

\* Run closes the channel of a client exactly when it takes it out of the map.
LEMMA InvRun == TypeOK /\ HubInv /\ Run => HubInv'
<1> SUFFICES ASSUME TypeOK, HubInv, Run PROVE HubInv'
  OBVIOUS
<1> USE DEF HubInv
<1>1. CASE TakeBroadcast
  <2>1. FanoutInMap'
    <3>1. Head(broadcast) \in Messages
      BY <1>1, ChannelTypes DEF TypeOK, TakeBroadcast
    <3> QED
      BY <1>1, <3>1, NoneAssumption DEF TakeBroadcast, FanoutInMap, InSelect, Selecting
  <2> QED
    BY <1>1, <2>1 DEF TakeBroadcast, NoPanic, MapIsOpen, PumpsFollowHandler, ConnectionsInUse
<1>2. ASSUME NEW c \in Clients, Register(c)
      PROVE  HubInv'
  <2>1. c \notin closed
    BY <1>2 DEF Register, PumpsFollowHandler
  <2>2. NoPanic' /\ MapIsOpen' /\ FanoutInMap'
    BY <1>2, <2>1 DEF Register, NoPanic, MapIsOpen, FanoutInMap, InSelect
  <2>3. PumpsFollowHandler' /\ ConnectionsInUse'
    BY <1>2 DEF TypeOK, Register, PumpsFollowHandler, ConnectionsInUse
  <2> QED
    BY <2>2, <2>3
<1>3. ASSUME NEW c \in Clients, Unregister(c)
      PROVE  HubInv'
  <2>1. NoPanic' /\ MapIsOpen' /\ FanoutInMap'
    BY <1>3 DEF Unregister, CloseSend, NoPanic, MapIsOpen, FanoutInMap, InSelect
  <2>2. PumpsFollowHandler' /\ ConnectionsInUse'
    BY <1>3 DEF TypeOK, Unregister, CloseSend, PumpsFollowHandler, ConnectionsInUse
  <2> QED
    BY <2>1, <2>2
<1>4. ASSUME NEW c \in Clients, Offer(c)
      PROVE  HubInv'
  <2>1. c \in clients /\ c \notin closed /\ fanout.msg # None
    BY <1>4 DEF Offer, FanoutInMap, MapIsOpen, InSelect
  <2>2. NoPanic' /\ MapIsOpen'
    BY <1>4, <2>1 DEF Offer, CloseSend, NoPanic, MapIsOpen
  <2>3. FanoutInMap'
    BY <1>4, <2>1 DEF TypeOK, Offer, Visited, FanoutInMap, InSelect, Selecting
  <2>4. PumpsFollowHandler' /\ ConnectionsInUse'
    BY <1>4, <2>1 DEF Offer, CloseSend, PumpsFollowHandler, ConnectionsInUse
  <2> QED
    BY <2>2, <2>3, <2>4
<1> QED
  BY <1>1, <1>2, <1>3, <1>4 DEF Run

\* Nothing else touches the map or closes a channel.
LEMMA InvOthers ==
    ASSUME TypeOK, HubInv,
           \/ \E p \in Producers : Accept(p) \/ \E message \in Messages : Broadcast(p, message)
           \/ \E c \in Clients : \/ ServeWS(c) \/ StartPumps(c) \/ LosePeer(c)
                                 \/ WritePump(c) \/ ReadPump(c)
           \/ UNCHANGED hubVars
    PROVE  HubInv'
<1> USE DEF HubInv
<1>1. UNCHANGED <<clients, closed, panicked, fanout>>
  BY DEF Accept, Broadcast, ServeWS, StartPumps, LosePeer, WritePump, WriterTakes, Write,
         WriteFails, WriterEnds, WriterReturns, ReadPump, ReadFails, ReaderCloses, hubVars
<1>2. NoPanic' /\ MapIsOpen' /\ FanoutInMap'
  BY <1>1 DEF NoPanic, MapIsOpen, FanoutInMap, InSelect
<1>3. CASE \/ \E p \in Producers : Accept(p) \/ \E message \in Messages : Broadcast(p, message)
           \/ UNCHANGED hubVars
  <2>1. UNCHANGED <<handler, writer, reader, open, lost>>
    BY <1>3 DEF Accept, Broadcast, hubVars
  <2> QED
    BY <1>1, <1>2, <2>1 DEF PumpsFollowHandler, ConnectionsInUse
<1>4. ASSUME NEW c \in Clients, ServeWS(c) \/ StartPumps(c) \/ LosePeer(c)
      PROVE  HubInv'
  <2>1. PumpsFollowHandler' /\ ConnectionsInUse'
    <3>1. CASE ServeWS(c)
      BY <1>1, <3>1 DEF TypeOK, ServeWS, PumpsFollowHandler, ConnectionsInUse
    <3>2. CASE StartPumps(c)
      BY <1>1, <3>2 DEF TypeOK, StartPumps, PumpsFollowHandler, ConnectionsInUse
    <3>3. CASE LosePeer(c)
      BY <1>1, <3>3 DEF TypeOK, LosePeer, PumpsFollowHandler, ConnectionsInUse
    <3> QED
      BY <1>4, <3>1, <3>2, <3>3
  <2> QED
    BY <1>2, <2>1
<1>5. ASSUME NEW c \in Clients, WritePump(c)
      PROVE  HubInv'
  <2>1. writer[c] \in {"select", "writing"} /\ UNCHANGED <<handler, reader, lost>>
    BY <1>5 DEF WritePump, WriterTakes, Write, WriteFails, WriterEnds, WriterReturns
  <2>2. handler[c] = "done"
    BY <2>1 DEF TypeOK, PumpsFollowHandler
  <2>3. CASE WriterTakes(c) \/ Write(c)
    <3>1. /\ writer' \in [Clients -> {"none", "select", "writing", "done"}]
          /\ writer'[c] \in {"select", "writing"} /\ open' = open
          /\ \A d \in Clients : d # c => writer'[d] = writer[d]
      BY <2>3 DEF TypeOK, WriterTakes, Write
    <3> QED
      BY <1>1, <1>2, <2>1, <2>2, <3>1 DEF PumpsFollowHandler, ConnectionsInUse
  <2>4. CASE WriteFails(c) \/ WriterEnds(c)
    <3>1. /\ writer'[c] = "done" /\ open' = open \ {c}
          /\ \A d \in Clients : d # c => writer'[d] = writer[d]
      BY <2>4 DEF TypeOK, WriteFails, WriterEnds, WriterReturns
    <3>2. c \in lost \/ c \in closed
      BY <2>2, <2>4 DEF WriteFails, WriterEnds, ConnectionsInUse
    <3> QED
      BY <1>1, <1>2, <2>1, <2>2, <3>1, <3>2 DEF PumpsFollowHandler, ConnectionsInUse
  <2> QED
    BY <1>5, <2>3, <2>4 DEF WritePump
<1>6. ASSUME NEW c \in Clients, ReadPump(c)
      PROVE  HubInv'
  <2>1. reader[c] \in {"reading", "closing"} /\ UNCHANGED <<handler, writer, lost>>
    BY <1>6 DEF ReadPump, ReadFails, ReaderCloses
  <2>2. handler[c] = "done"
    BY <2>1 DEF TypeOK, PumpsFollowHandler
  <2>3. c \in lost \/ c \in closed
    BY <1>6, <2>2 DEF ReadPump, ReadFails, ReaderCloses, ConnectionsInUse
  <2>4. /\ reader'[c] \in {"unregistering", "done"} /\ open' \in {open, open \ {c}}
        /\ \A d \in Clients : d # c => reader'[d] = reader[d]
    BY <1>6 DEF TypeOK, ReadPump, ReadFails, ReaderCloses
  <2> QED
    BY <1>1, <1>2, <2>1, <2>2, <2>3, <2>4 DEF PumpsFollowHandler, ConnectionsInUse
<1> QED
  BY <1>3, <1>4, <1>5, <1>6

\* Every step keeps the type invariant and the strengthening.
LEMMA Inductive == TypeOK /\ HubInv /\ [Next]_hubVars => TypeOK' /\ HubInv'
<1> SUFFICES ASSUME TypeOK, HubInv, [Next]_hubVars PROVE TypeOK' /\ HubInv'
  OBVIOUS
<1>1. CASE Run
  BY <1>1, TypeRun, InvRun DEF HubInv
<1>2. CASE \E p \in Producers : Accept(p) \/ \E message \in Messages : Broadcast(p, message)
  BY <1>2, TypeProducer, InvOthers
<1>3. CASE \E c \in Clients : \/ ServeWS(c) \/ StartPumps(c) \/ LosePeer(c)
                              \/ WritePump(c) \/ ReadPump(c)
  BY <1>3, TypeClient, InvOthers
<1>4. CASE UNCHANGED hubVars
  BY <1>4, InvOthers DEF TypeOK, hubVars
<1> QED
  BY <1>1, <1>2, <1>3, <1>4 DEF Next, HubNext
-----------------------------------------------------------------------------
\* In every reachable state each variable holds a value of its kind and no channel
\* holds more than its capacity; with it, the strengthening of the proofs.
THEOREM TypeCorrect == Spec => []TypeOK /\ []HubInv
<1>1. Init => TypeOK /\ HubInv
  BY TypeInit, InvInit
<1> QED
  BY <1>1, Inductive, PTL DEF Spec

\* The goroutine that serves every viewer never panics on a send channel, in
\* whatever order the readers unregister, Run drops slow clients and the handlers
\* start their pumps.
THEOREM NeverPanics == Spec => []NoPanic
<1>1. HubInv => NoPanic
  BY DEF HubInv
<1> QED
  BY <1>1, TypeCorrect, PTL

\* A registered viewer that responds has its connection open and both pumps working.
THEOREM LiveClientsAlwaysServed == Spec => []LiveClientsServed
<1>1. TypeOK /\ HubInv => LiveClientsServed
  BY DEF TypeOK, HubInv, MapIsOpen, PumpsFollowHandler, ConnectionsInUse, LiveClientsServed
<1> QED
  BY <1>1, TypeCorrect, PTL
=============================================================================
