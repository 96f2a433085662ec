------------------------------ MODULE HubFeed ------------------------------
(***************************************************************************)
(* What a viewer sees of the broadcasts: Hub with history variables, and   *)
(* messages that are each broadcast once so that they can be told apart.   *)
(***************************************************************************)
EXTENDS Hub, SequencesExt

VARIABLES
    log,              \* the messages Hub.broadcast has taken, in order
    taken,            \* how many of them Run has received
    from,             \* how many it had when each client registered
    written           \* what each writePump has written to its connection

history == <<log, taken, from, written>>
feedVars == <<hubVars, history>>

FeedInit ==
    /\ Init
    /\ log = <<>> /\ taken = 0
    /\ from = [c \in Clients |-> 0]
    /\ written = [c \in Clients |-> <<>>]

Fresh(message) == message \notin Range(log) \cup {outgoing[p] : p \in Producers}

BroadcastH(p, message) ==
    Fresh(message) /\ Broadcast(p, message) /\ UNCHANGED history

AcceptH(p) ==
    Accept(p) /\ log' = Append(log, outgoing[p]) /\ UNCHANGED <<taken, from, written>>

TakeBroadcastH ==
    TakeBroadcast /\ taken' = taken + 1 /\ UNCHANGED <<log, from, written>>

RegisterH(c) ==
    Register(c) /\ from' = [from EXCEPT ![c] = taken] /\ UNCHANGED <<log, taken, written>>

WriteH(c) ==
    /\ Write(c)
    /\ written' = [written EXCEPT ![c] = Append(@, inHand[c])]
    /\ UNCHANGED <<log, taken, from>>

OtherH(c) ==
    /\ \/ ServeWS(c) \/ StartPumps(c) \/ LosePeer(c) \/ Unregister(c) \/ Offer(c)
       \/ WriterTakes(c) \/ WriteFails(c) \/ WriterEnds(c) \/ ReadPump(c)
    /\ UNCHANGED history

FeedNext ==
    \/ \E p \in Producers : AcceptH(p) \/ \E message \in Messages : BroadcastH(p, message)
    \/ TakeBroadcastH
    \/ \E c \in Clients : RegisterH(c) \/ WriteH(c) \/ OtherH(c)

FeedSpec == FeedInit /\ [][FeedNext]_feedVars
-----------------------------------------------------------------------------
\* What Run has handed to c: written, being written and buffered.
Stream(c) ==
    written[c] \o (IF inHand[c] = None THEN <<>> ELSE <<inHand[c]>>) \o send[c]

Handed(c) == IF c \in fanout.todo THEN taken - 1 ELSE taken

\* A viewer sees an unbroken run of the broadcasts, from the first one after its
\* registration on, in order, none missing and none twice; and while it is in the
\* map with its writePump running, Run has handed it every one of them so far.
UnbrokenFeed ==
    \A c \in Clients :
        /\ IsPrefix(written[c], SubSeq(log, from[c] + 1, Len(log)))
        /\ c \in clients /\ writer[c] # "done" =>
                Stream(c) = SubSeq(log, from[c] + 1, Handed(c))
-----------------------------------------------------------------------------
\* The strengthening that makes UnbrokenFeed inductive: the channel holds what Run has
\* still to take, a fan-out hands out the message taken last, and the stream of a client
\* is the log from its registration on, up to Handed while it is in the map, up to less
\* once it was dropped.  Of a writePump that has ended only what it wrote remains.
HistoryOK ==
    /\ log \in Seq(Messages) /\ taken \in 0..Len(log)
    /\ from \in [Clients -> Nat] /\ \A c \in Clients : from[c] <= taken
    /\ written \in [Clients -> Seq(Messages)]

LogOfRun ==
    /\ Len(broadcast) = Len(log) - taken
    /\ \A i \in 1..Len(broadcast) : broadcast[i] = log[taken + i]
    /\ ~InSelect => taken > 0 /\ fanout.msg = log[taken]

Follows(seq, start) == \A i \in 1..Len(seq) : seq[i] = log[start + i]

StreamFollows(c) ==
    /\ writer[c] = "writing" <=> inHand[c] # None
    /\ handler[c] \in {"none", "registering"} => Stream(c) = <<>>
    /\ Follows(written[c], from[c]) /\ from[c] + Len(written[c]) <= taken
    /\ writer[c] # "done" =>
            /\ Follows(Stream(c), from[c])
            /\ from[c] + Len(Stream(c)) <= taken
            /\ c \in clients => from[c] + Len(Stream(c)) = Handed(c)

StreamsFollow == \A c \in Clients : StreamFollows(c)

FeedInv == HistoryOK /\ LogOfRun /\ StreamsFollow
=============================================================================
