------------------------------- MODULE Broker -------------------------------
(***************************************************************************)
(* One durable RabbitMQ queue as src/netflow/rabbitmq.go uses it: a        *)
(* persistent FIFO queue, one consumer with explicit acknowledgements,     *)
(* and a prefetch limit on that consumer.  A queue is a sequence of        *)
(* entries; a delivered message keeps its place, marked with the worker    *)
(* that holds it, until it is acknowledged or requeued.  The broker itself *)
(* is not part of the repository: what it does is modelled from how the    *)
(* code relies on it.                                                      *)
(***************************************************************************)
EXTENDS Integers, Sequences, FiniteSets, SequencesExt

CONSTANT Ready          \* the mark of an entry no worker holds

\* Channel.Publish: a persistent message joins the tail of the queue.
Published(queue, msg) == Append(queue, [msg |-> msg, by |-> Ready])

HeldEntries(queue) == {i \in DOMAIN queue : queue[i].by # Ready}
ReadyEntries(queue) == {i \in DOMAIN queue : queue[i].by = Ready}
HeldBy(queue, w) == {i \in DOMAIN queue : queue[i].by = w}

\* Consume with autoAck = false delivers in order, and after Qos(n, 0, false)
\* at most n messages are unacknowledged at a time; 0 is "no limit", what the
\* channel has when the Qos call fails, which NewRabbitMQ only logs.
MayDeliverUnlimited(queue, i, prefetch) ==      \* mistake: Qos has no effect
    /\ i \in ReadyEntries(queue)
    /\ \A j \in ReadyEntries(queue) : i <= j

MayDeliver(queue, i, prefetch) ==
    /\ i \in ReadyEntries(queue)
    /\ \A j \in ReadyEntries(queue) : i <= j
    /\ prefetch = 0 \/ Cardinality(HeldEntries(queue)) < prefetch

Delivered(queue, i, w) == [queue EXCEPT ![i] = [@ EXCEPT !.by = w]]

\* d.Ack(false), and d.Nack(false, false): the message leaves the queue.
Acked(queue, i) == RemoveAt(queue, i)

\* d.Nack(false, true): the message returns to the place it was taken from.
Requeued(queue, i) == [queue EXCEPT ![i] = [@ EXCEPT !.by = Ready]]

\* The connection of the consumer is gone: all its deliveries are requeued.
AllRequeued(queue) == [i \in DOMAIN queue |-> [queue[i] EXCEPT !.by = Ready]]
=============================================================================
