---------------------------- MODULE HubFeedProofs ----------------------------
(***************************************************************************)
(* Proofs about HubFeed: what a viewer sees is an unbroken run of the      *)
(* broadcasts, for any number of viewers, producers and messages and any   *)
(* capacities.                                                             *)
(***************************************************************************)
EXTENDS HubFeed, HubProofs

\* Every step of the feed is a step of the hub.
LEMMA FeedStepIsHubStep == [FeedNext]_feedVars => [Next]_hubVars
BY DEF FeedNext, feedVars, AcceptH, BroadcastH, TakeBroadcastH, RegisterH, WriteH, OtherH,
       Next, HubNext, Run, WritePump

(***************************************************************************)
(* Streams.                                                                *)
(***************************************************************************)

\* Three sequences after each other: their length and type.
LEMMA ThreeSequences ==
    ASSUME NEW a \in Seq(Messages), NEW b \in Seq(Messages), NEW s \in Seq(Messages)
    PROVE  /\ a \o b \in Seq(Messages)
           /\ a \o b \o s \in Seq(Messages)
           /\ Len(a \o b \o s) = Len(a) + Len(b) + Len(s)
           /\ \A i \in 1..Len(a) : (a \o b \o s)[i] = a[i]
<1>1. /\ a \o b \in Seq(Messages) /\ Len(a \o b) = Len(a) + Len(b)
      /\ \A i \in 1..(Len(a) + Len(b)) :
            (a \o b)[i] = IF i <= Len(a) THEN a[i] ELSE b[i - Len(a)]
  BY ConcatProperties
<1> DEFINE g == a \o b
<1>2. g \in Seq(Messages) /\ Len(g) = Len(a) + Len(b)
  BY <1>1
<1> HIDE DEF g
<1>3. /\ g \o s \in Seq(Messages) /\ Len(g \o s) = Len(g) + Len(s)
      /\ \A i \in 1..(Len(g) + Len(s)) :
            (g \o s)[i] = IF i <= Len(g) THEN g[i] ELSE s[i - Len(g)]
  BY <1>2, ConcatProperties
<1>4. Len(a) \in Nat /\ Len(b) \in Nat /\ Len(s) \in Nat
  BY LenProperties
<1>5. ASSUME NEW i \in 1..Len(a)
      PROVE  (g \o s)[i] = a[i]
  <2>1. i \in 1..(Len(a) + Len(b)) /\ i <= Len(a)
    BY <1>4
  <2>2. (a \o b)[i] = a[i]
    BY <1>1, <2>1
  <2>3. i \in 1..(Len(g) + Len(s)) /\ i <= Len(g)
    BY <1>2, <1>4, <2>1
  <2> QED
    BY <1>3, <2>2, <2>3 DEF g
<1> QED
  BY <1>1, <1>2, <1>3, <1>5 DEF g

\* What Run hands over is appended to the stream.
LEMMA HandingOver ==
    ASSUME NEW a \in Seq(Messages), NEW b \in Seq(Messages), NEW s \in Seq(Messages),
           NEW m \in Messages
    PROVE  a \o b \o Append(s, m) = Append(a \o b \o s, m)
<1>1. a \o b \in Seq(Messages) /\ a \o b \o s \in Seq(Messages) /\ <<m>> \in Seq(Messages)
  BY ThreeSequences
<1>2. Append(s, m) = s \o <<m>> /\ Append(a \o b \o s, m) = (a \o b \o s) \o <<m>>
  BY <1>1, AppendIsConcat
<1> QED
  BY <1>1, <1>2, ConcatAssociative, SMTT(30)

\* writePump takes the first of what is buffered in hand: the stream is the same.
LEMMA TakingInHand ==
    ASSUME NEW a \in Seq(Messages), NEW s \in Seq(Messages), s # <<>>
    PROVE  a \o <<>> \o s = a \o <<Head(s)>> \o Tail(s)
<1>1. /\ Head(s) \in Messages /\ Tail(s) \in Seq(Messages)
      /\ Len(Tail(s)) = Len(s) - 1
      /\ \A i \in 1..Len(Tail(s)) : Tail(s)[i] = s[i + 1]
  BY HeadTailProperties
<1>2. Len(s) \in Nat /\ <<Head(s)>> \in Seq(Messages) /\ Len(<<Head(s)>>) = 1
  BY <1>1, LenProperties
<1>3. /\ <<Head(s)>> \o Tail(s) \in Seq(Messages)
      /\ Len(<<Head(s)>> \o Tail(s)) = Len(s)
      /\ \A i \in 1..Len(s) :
            (<<Head(s)>> \o Tail(s))[i] = IF i <= 1 THEN <<Head(s)>>[i] ELSE Tail(s)[i - 1]
  <2>1. /\ <<Head(s)>> \o Tail(s) \in Seq(Messages)
        /\ Len(<<Head(s)>> \o Tail(s)) = 1 + Len(Tail(s))
        /\ \A i \in 1..(1 + Len(Tail(s))) :
            (<<Head(s)>> \o Tail(s))[i] = IF i <= 1 THEN <<Head(s)>>[i] ELSE Tail(s)[i - 1]
    BY <1>1, <1>2, ConcatProperties
  <2>2. 1 + Len(Tail(s)) = Len(s)
    BY <1>1, <1>2
  <2> QED
    BY <2>1, <2>2
<1>4. ASSUME NEW i \in 1..Len(s)
      PROVE  s[i] = (<<Head(s)>> \o Tail(s))[i]
  <2>1. CASE i = 1
    <3>1. Head(s) = s[1]
      OBVIOUS
    <3> QED
      BY <1>3, <2>1, <3>1
  <2>2. CASE i # 1
    <3>1. i - 1 \in 1..Len(Tail(s)) /\ ~(i <= 1) /\ (i - 1) + 1 = i
      BY <1>1, <1>2, <2>2
    <3> QED
      BY <1>1, <1>3, <3>1
  <2> QED
    BY <2>1, <2>2
<1>5. s = <<Head(s)>> \o Tail(s)
  <2> DEFINE u == <<Head(s)>> \o Tail(s)
  <2>1. u \in Seq(Messages) /\ Len(s) = Len(u) /\ \A i \in 1..Len(s) : s[i] = u[i]
    BY <1>3, <1>4
  <2> HIDE DEF u
  <2>2. s = u
    BY <2>1, SeqEqual
  <2> QED
    BY <2>2 DEF u
<1>6. a \o <<>> = a
  BY ConcatEmptySeq
<1>7. a \o <<Head(s)>> \o Tail(s) = a \o (<<Head(s)>> \o Tail(s))
  BY <1>1, <1>2, ConcatAssociative
<1> QED
  BY <1>5, <1>6, <1>7

\* What is in hand is written: the stream is the same.
LEMMA WritingInHand ==
    ASSUME NEW a \in Seq(Messages), NEW s \in Seq(Messages), NEW m \in Messages
    PROVE  Append(a, m) \o <<>> \o s = a \o <<m>> \o s
<1>1. Append(a, m) = a \o <<m>> /\ Append(a, m) \in Seq(Messages)
  BY AppendIsConcat, AppendProperties
<1>2. Append(a, m) \o <<>> = Append(a, m)
  BY <1>1, ConcatEmptySeq
<1> QED
  BY <1>1, <1>2

\* The stream of a client is a sequence of messages that begins with what was written.
LEMMA StreamTypes ==
    ASSUME TypeOK, HistoryOK, NEW c \in Clients
    PROVE  /\ Stream(c) \in Seq(Messages)
           /\ Len(Stream(c)) \in Nat /\ Len(written[c]) \in Nat /\ Len(send[c]) \in Nat
           /\ Len(Stream(c)) = Len(written[c]) + (IF inHand[c] = None THEN 0 ELSE 1)
                                + Len(send[c])
           /\ \A i \in 1..Len(written[c]) : Stream(c)[i] = written[c][i]
<1> DEFINE w == written[c]
           h == IF inHand[c] = None THEN <<>> ELSE <<inHand[c]>>
           u == send[c]
<1>1. w \in Seq(Messages) /\ u \in Seq(Messages)
  BY DEF TypeOK, HistoryOK
<1>2. h \in Seq(Messages) /\ Len(h) = IF inHand[c] = None THEN 0 ELSE 1
  BY EmptySeq DEF TypeOK
<1>3. Stream(c) = w \o h \o u
  BY DEF Stream
<1> HIDE DEF w, h, u
<1>0. /\ w \o h \o u \in Seq(Messages)
      /\ Len(w \o h \o u) = Len(w) + Len(h) + Len(u)
      /\ \A i \in 1..Len(w) : (w \o h \o u)[i] = w[i]
  <2>1. w \in Seq(Messages) /\ h \in Seq(Messages) /\ u \in Seq(Messages)
    BY <1>1, <1>2
  <2> QED
    BY <2>1, ThreeSequences
<1>4. /\ Stream(c) \in Seq(Messages)
      /\ Len(Stream(c)) = Len(w) + Len(h) + Len(u)
      /\ \A i \in 1..Len(w) : Stream(c)[i] = w[i]
  BY <1>0, <1>3
<1>5. Len(w) \in Nat /\ Len(u) \in Nat /\ Len(Stream(c)) \in Nat
  BY <1>1, <1>4, LenProperties
<1> QED
  BY <1>2, <1>4, <1>5 DEF w, u

-----------------------------------------------------------------------------
(***************************************************************************)
(* The log and where Run is in it.                                         *)
(***************************************************************************)

\* The log only grows, at its end.
LogGrows == /\ Len(log) <= Len(log') /\ taken <= taken'
            /\ \A i \in 1..Len(log) : log'[i] = log[i]

\* A producer's message joins the channel and the log.
LEMMA AcceptedInLog ==
    ASSUME TypeOK, HistoryOK, LogOfRun, NEW p \in Producers, AcceptH(p)
    PROVE  HistoryOK' /\ LogOfRun' /\ LogGrows
<1> DEFINE m == outgoing[p]
<1>1. /\ m \in Messages /\ log \in Seq(Messages) /\ broadcast \in Seq(Messages)
      /\ Len(log) \in Nat /\ Len(broadcast) \in Nat
      /\ taken \in 0..Len(log)
  BY LenProperties DEF TypeOK, HistoryOK, AcceptH, Accept
<1>2. /\ log' = Append(log, m) /\ broadcast' = Append(broadcast, m)
      /\ UNCHANGED <<taken, from, written, fanout>>
  BY DEF AcceptH, Accept
<1> HIDE DEF m
<1>3. /\ log' \in Seq(Messages) /\ Len(log') = Len(log) + 1
      /\ \A i \in 1..Len(log) : log'[i] = log[i]
      /\ log'[Len(log) + 1] = m
  BY <1>1, <1>2, AppendProperties
<1>4. /\ Len(broadcast') = Len(broadcast) + 1
      /\ \A i \in 1..Len(broadcast) : broadcast'[i] = broadcast[i]
      /\ broadcast'[Len(broadcast) + 1] = m
  BY <1>1, <1>2, AppendProperties
<1>5. HistoryOK'
  BY <1>1, <1>2, <1>3 DEF HistoryOK
<1>6. Len(broadcast) = Len(log) - taken
  BY DEF LogOfRun
<1>7. ASSUME NEW i \in 1..Len(broadcast')
      PROVE  broadcast'[i] = log'[taken + i]
  <2>1. CASE i = Len(broadcast) + 1
    <3>1. taken + i = Len(log) + 1
      BY <1>1, <1>6, <2>1
    <3> QED
      BY <1>3, <1>4, <2>1, <3>1
  <2>2. CASE i # Len(broadcast) + 1
    <3>1. i \in 1..Len(broadcast) /\ taken + i \in 1..Len(log)
      BY <1>1, <1>4, <1>6, <2>2
    <3> QED
      BY <1>3, <1>4, <3>1 DEF LogOfRun
  <2> QED
    BY <2>1, <2>2
<1>8. ~InSelect' => taken' > 0 /\ fanout'.msg = log'[taken']
  <2>1. ASSUME ~InSelect' PROVE taken > 0 /\ fanout.msg = log[taken]
    BY <1>2, <2>1 DEF LogOfRun, InSelect
  <2>2. taken > 0 => taken \in 1..Len(log)
    BY <1>1
  <2> QED
    BY <1>2, <1>3, <2>1, <2>2
<1>9. LogOfRun'
  <2>1. Len(broadcast') = Len(log') - taken'
    BY <1>1, <1>2, <1>3, <1>4, <1>6
  <2>2. \A i \in 1..Len(broadcast') : broadcast'[i] = log'[taken' + i]
    BY <1>2, <1>7
  <2> QED
    BY <1>8, <2>1, <2>2 DEF LogOfRun
<1> QED
  BY <1>1, <1>2, <1>3, <1>5, <1>9 DEF LogGrows

\* Run takes the next message of the log.
LEMMA TakenFromLog ==
    ASSUME TypeOK, HistoryOK, LogOfRun, TakeBroadcastH
    PROVE  HistoryOK' /\ LogOfRun' /\ LogGrows
<1>1. /\ log \in Seq(Messages) /\ broadcast \in Seq(Messages) /\ broadcast # <<>>
      /\ Len(log) \in Nat /\ Len(broadcast) \in Nat \ {0}
      /\ taken \in 0..Len(log) /\ from \in [Clients -> Nat]
      /\ \A c \in Clients : from[c] <= taken
  BY LenProperties, EmptySeq DEF TypeOK, HistoryOK, TakeBroadcastH, TakeBroadcast
<1>2. /\ broadcast' = Tail(broadcast) /\ taken' = taken + 1
      /\ UNCHANGED <<log, from, written>>
      /\ fanout' = IF clients = {} THEN Selecting
                   ELSE [msg |-> Head(broadcast), todo |-> clients]
  BY DEF TakeBroadcastH, TakeBroadcast
<1>3. /\ Len(broadcast') = Len(broadcast) - 1 /\ Head(broadcast) = broadcast[1]
      /\ \A i \in 1..Len(broadcast') : broadcast'[i] = broadcast[i + 1]
  BY <1>1, <1>2, HeadTailProperties
<1>4. Len(broadcast) = Len(log) - taken
  BY DEF LogOfRun
<1>5. taken' \in 0..Len(log') /\ \A c \in Clients : from'[c] <= taken'
  BY <1>1, <1>2, <1>4
<1>6. HistoryOK'
  BY <1>1, <1>2, <1>5 DEF HistoryOK
<1>7. ASSUME NEW i \in 1..Len(broadcast')
      PROVE  broadcast'[i] = log'[taken' + i]
  <2>1. i + 1 \in 1..Len(broadcast) /\ taken + (i + 1) = taken' + i
    BY <1>1, <1>2, <1>3
  <2>2. broadcast[i + 1] = log[taken + (i + 1)]
    BY <2>1 DEF LogOfRun
  <2> QED
    BY <1>2, <1>3, <2>1, <2>2
<1>8. ~InSelect' => taken' > 0 /\ fanout'.msg = log'[taken']
  <2>1. 1 \in 1..Len(broadcast)
    BY <1>1
  <2>2. Head(broadcast) = log[taken + 1]
    BY <1>3, <2>1 DEF LogOfRun
  <2> QED
    BY <1>1, <1>2, <2>2 DEF InSelect, Selecting
<1>9. Len(broadcast') = Len(log') - taken'
  BY <1>1, <1>2, <1>3, <1>4
<1>10. LogOfRun'
  BY <1>7, <1>8, <1>9 DEF LogOfRun
<1> QED
  BY <1>1, <1>2, <1>6, <1>10 DEF LogGrows

\* Nothing else concerns the log.
LEMMA LogUntouched ==
    ASSUME TypeOK, HistoryOK, LogOfRun,
           UNCHANGED <<log, taken, broadcast>>,
           fanout' = fanout \/ InSelect' \/ (~InSelect /\ fanout'.msg = fanout.msg)
    PROVE  LogOfRun' /\ LogGrows
<1>1. Len(log) \in Nat /\ taken \in Nat
  BY LenProperties DEF HistoryOK
<1>2. LogGrows
  BY <1>1 DEF LogGrows
<1>3. ~InSelect' => ~InSelect /\ fanout'.msg = fanout.msg
  BY DEF InSelect
<1> QED
  BY <1>2, <1>3 DEF LogOfRun

-----------------------------------------------------------------------------
(***************************************************************************)
(* The streams.                                                            *)
(***************************************************************************)

\* What followed the log still does when it has grown.
LEMMA FollowsLonger ==
    ASSUME HistoryOK, HistoryOK', LogGrows, NEW seq \in Seq(Messages), NEW start \in Nat,
           Follows(seq, start), start + Len(seq) <= taken
    PROVE  /\ \A i \in 1..Len(seq) : seq[i] = log'[start + i]
           /\ start + Len(seq) <= taken'
<1>1. Len(seq) \in Nat /\ Len(log) \in Nat /\ taken \in 0..Len(log)
  BY LenProperties DEF HistoryOK
<1>2. ASSUME NEW i \in 1..Len(seq)
      PROVE  seq[i] = log'[start + i]
  <2>1. start + i \in 1..Len(log)
    BY <1>1
  <2> QED
    BY <2>1 DEF Follows, LogGrows
<1>3. taken' \in Nat
  BY LenProperties DEF HistoryOK
<1>4. start + Len(seq) <= taken'
  BY <1>1, <1>3 DEF LogGrows
<1> QED
  BY <1>2, <1>4

\* A client whose stream a step leaves alone: it still follows the log, if it is still
\* handed what it was.
LEMMA StreamLeftAlone ==
    ASSUME TypeOK, HistoryOK, HistoryOK', LogGrows, NEW c \in Clients, StreamFollows(c),
           written'[c] = written[c], inHand'[c] = inHand[c], send'[c] = send[c],
           from'[c] = from[c],
           writer'[c] = "writing" <=> writer[c] = "writing",
           writer'[c] # "done" => writer[c] # "done",
           handler'[c] \in {"none", "registering"} => handler[c] \in {"none", "registering"},
           c \in clients' => c \in clients /\ Handed(c)' = Handed(c)
    PROVE  StreamFollows(c)'
<1> DEFINE w == written[c]
           u == Stream(c)
           n == from[c]
<1>1. w \in Seq(Messages) /\ u \in Seq(Messages) /\ n \in Nat
  BY StreamTypes DEF HistoryOK
<1>2. Stream(c)' = Stream(c)
  BY DEF Stream
<1>3. Follows(w, n) /\ n + Len(w) <= taken
  BY DEF StreamFollows
<1>4. writer[c] # "done" => Follows(u, n) /\ n + Len(u) <= taken
  BY DEF StreamFollows
<1> HIDE DEF w, u, n
<1>5. (\A i \in 1..Len(w) : w[i] = log'[n + i]) /\ n + Len(w) <= taken'
  BY <1>1, <1>3, FollowsLonger
<1>6. writer[c] # "done" =>
        (\A i \in 1..Len(u) : u[i] = log'[n + i]) /\ n + Len(u) <= taken'
  BY <1>1, <1>4, FollowsLonger
<1>7. Follows(written[c], from[c])' /\ (from[c] + Len(written[c]) <= taken)'
  BY <1>5 DEF Follows, w, n
<1>8. (writer[c] # "done")' => /\ Follows(Stream(c), from[c])'
                               /\ (from[c] + Len(Stream(c)) <= taken)'
  BY <1>2, <1>6 DEF Follows, u, n
<1>9. (writer[c] # "done" /\ c \in clients)' => (from[c] + Len(Stream(c)) = Handed(c))'
  BY <1>2 DEF StreamFollows
<1>10. /\ (writer[c] = "writing" <=> inHand[c] # None)'
       /\ (handler[c] \in {"none", "registering"} => Stream(c) = <<>>)'
  BY <1>2 DEF StreamFollows
<1> QED
  BY <1>7, <1>8, <1>9, <1>10 DEF StreamFollows

\* A registration: the stream begins with the next broadcast that Run takes.
LEMMA StreamBegins ==
    ASSUME TypeOK, HistoryOK, LogOfRun, NEW c \in Clients, StreamFollows(c), RegisterH(c)
    PROVE  StreamFollows(c)'
<1>1. Stream(c) = <<>> /\ (writer[c] = "writing" <=> inHand[c] # None)
  BY DEF StreamFollows, RegisterH, Register
<1>2. /\ UNCHANGED <<written, inHand, send, writer, fanout, taken, log>>
      /\ from'[c] = taken /\ handler'[c] = "starting" /\ fanout.todo = {}
  BY DEF RegisterH, Register, InSelect, HistoryOK, TypeOK
<1>3. Stream(c)' = <<>>
  BY <1>1, <1>2 DEF Stream
<1>4. Len(<<>>) = 0 /\ Len(written[c]) = 0 /\ taken \in Nat
  <2>1. /\ Len(Stream(c)) = Len(written[c]) + (IF inHand[c] = None THEN 0 ELSE 1) + Len(send[c])
        /\ Len(written[c]) \in Nat /\ Len(send[c]) \in Nat
    BY StreamTypes
  <2>2. Len(<<>>) = 0
    BY EmptySeq
  <2>3. Len(Stream(c)) = 0
    BY <1>1, <2>2
  <2>4. Len(log) \in Nat /\ taken \in 0..Len(log)
    BY LenProperties DEF HistoryOK
  <2>5. Len(written[c]) = 0
    <3> DEFINE k == IF inHand[c] = None THEN 0 ELSE 1
               a == Len(written[c])
               b == Len(send[c])
    <3>1. k \in Nat /\ a \in Nat /\ b \in Nat /\ 0 = a + k + b
      BY <2>1, <2>3
    <3> HIDE DEF k, a, b
    <3>2. a = 0
      BY <3>1
    <3> QED
      BY <3>2 DEF a
  <2> QED
    BY <2>2, <2>4, <2>5
<1>5. Handed(c)' = taken
  BY <1>2 DEF Handed
<1>6. Follows(written[c], from[c])' /\ (from[c] + Len(written[c]) <= taken)'
  BY <1>2, <1>4 DEF Follows
<1>7. /\ Follows(Stream(c), from[c])' /\ (from[c] + Len(Stream(c)) <= taken)'
      /\ (from[c] + Len(Stream(c)) = Handed(c))'
  BY <1>2, <1>3, <1>4, <1>5 DEF Follows
<1>8. (writer[c] = "writing" <=> inHand[c] # None)'
  BY <1>1, <1>2
<1> QED
  BY <1>2, <1>6, <1>7, <1>8 DEF StreamFollows

\* Run hands the message it took last to c, or drops c.
LEMMA StreamHanded ==
    ASSUME TypeOK, HubInv, HistoryOK, HistoryOK', LogOfRun, LogGrows,
           NEW c \in Clients, StreamFollows(c), Offer(c), UNCHANGED history
    PROVE  StreamFollows(c)'
<1>1. /\ c \in clients /\ c \in fanout.todo /\ ~InSelect
      /\ handler[c] \in {"starting", "done"}
  BY DEF HubInv, FanoutInMap, PumpsFollowHandler, Offer, InSelect
<1>2. fanout.msg \in Messages /\ fanout.msg = log[taken] /\ taken \in Nat
  <2>1. fanout.msg \in Messages
    BY <1>1 DEF TypeOK, HubInv, FanoutInMap
  <2> QED
    BY <1>1, <2>1, LenProperties DEF LogOfRun, HistoryOK
<1>3. /\ UNCHANGED <<written, inHand, writer, handler, from, taken, log>>
      /\ c \notin fanout'.todo
  BY DEF history, Offer, Visited, Selecting
<1>4. CASE ~(Len(send[c]) < SendCap)
  <2>1. send' = send /\ c \notin clients'
    BY <1>4 DEF Offer
  <2> QED
    BY <1>3, <2>1, StreamLeftAlone
<1>5. CASE Len(send[c]) < SendCap
  <2> DEFINE w == written[c]
             h == IF inHand[c] = None THEN <<>> ELSE <<inHand[c]>>
             u == send[c]
             m == fanout.msg
             t == Stream(c)
  <2>1. w \in Seq(Messages) /\ u \in Seq(Messages) /\ h \in Seq(Messages) /\ m \in Messages
    BY <1>2, EmptySeq DEF TypeOK, HistoryOK
  <2>2. send'[c] = Append(u, m)
    BY <1>5 DEF Offer, TypeOK
  <2>3. t = w \o h \o u /\ Stream(c)' = w \o h \o Append(u, m)
    BY <1>3, <2>2 DEF Stream
  <2>4. t \in Seq(Messages) /\ Len(t) \in Nat
    BY StreamTypes
  <2>5. from[c] \in Nat /\ Handed(c) = taken - 1 /\ Handed(c)' = taken
    BY <1>1, <1>3 DEF HistoryOK, Handed
  <2>6. writer[c] # "done" => Follows(t, from[c]) /\ from[c] + Len(t) = taken - 1
    BY <1>1, <2>5 DEF StreamFollows
  <2>7. Follows(w, from[c]) /\ from[c] + Len(w) <= taken
    BY DEF StreamFollows
  <2> HIDE DEF w, h, u, m, t
  <2>8. Stream(c)' = Append(t, m)
    BY <2>1, <2>3, HandingOver
  <2>9. /\ Len(Append(t, m)) = Len(t) + 1
        /\ \A i \in 1..Len(t) : Append(t, m)[i] = t[i]
        /\ Append(t, m)[Len(t) + 1] = m
    BY <2>1, <2>4, AppendProperties
  <2>10. ASSUME writer[c] # "done"
         PROVE  /\ Follows(Append(t, m), from[c])
                /\ from[c] + Len(Append(t, m)) = taken
    <3>1. from[c] + Len(Append(t, m)) = taken
      BY <1>2, <2>4, <2>5, <2>6, <2>9, <2>10
    <3>2. ASSUME NEW i \in 1..Len(Append(t, m))
          PROVE  Append(t, m)[i] = log[from[c] + i]
      <4>1. CASE i = Len(t) + 1
        BY <1>2, <2>9, <3>1, <4>1 DEF m
      <4>2. CASE i # Len(t) + 1
        <5>1. i \in 1..Len(t)
          BY <2>4, <2>9, <4>2
        <5> QED
          BY <2>6, <2>9, <2>10, <5>1 DEF Follows
      <4> QED
        BY <4>1, <4>2
    <3> QED
      BY <3>1, <3>2 DEF Follows
  <2>11. (writer[c] # "done")' => /\ Follows(Stream(c), from[c])'
                                  /\ (from[c] + Len(Stream(c)) = Handed(c))'
                                  /\ (from[c] + Len(Stream(c)) <= taken)'
    BY <1>2, <1>3, <2>5, <2>8, <2>10 DEF Follows
  <2>12. Follows(written[c], from[c])' /\ (from[c] + Len(written[c]) <= taken)'
    BY <1>3, <2>7 DEF Follows, w
  <2>13. (writer[c] = "writing" <=> inHand[c] # None)'
    BY <1>3 DEF StreamFollows
  <2>14. (handler[c] \notin {"none", "registering"})'
    BY <1>1, <1>3
  <2> QED
    BY <2>11, <2>12, <2>13, <2>14 DEF StreamFollows
<1> QED
  BY <1>4, <1>5

\* A step that only moves the messages of c on, from the buffer to the connection.
LEMMA StreamMovesOn ==
    ASSUME HistoryOK, NEW c \in Clients, StreamFollows(c),
           UNCHANGED <<from, taken, log, clients, fanout, handler>>,
           writer[c] # "done", Stream(c)' = Stream(c),
           Follows(written[c], from[c])', (from[c] + Len(written[c]) <= taken)',
           (writer[c] = "writing" <=> inHand[c] # None)'
    PROVE  StreamFollows(c)'
<1>1. Follows(Stream(c), from[c])' /\ (from[c] + Len(Stream(c)) <= taken)'
  BY DEF StreamFollows, Follows
<1>2. (c \in clients)' => (from[c] + Len(Stream(c)) = Handed(c))'
  BY DEF StreamFollows, Handed
<1>3. (handler[c] \in {"none", "registering"} => Stream(c) = <<>>)'
  BY DEF StreamFollows
<1> QED
  BY <1>1, <1>2, <1>3 DEF StreamFollows

\* writePump takes a message in hand.
LEMMA StreamTaken ==
    ASSUME TypeOK, HistoryOK, NEW c \in Clients, StreamFollows(c),
           WriterTakes(c), UNCHANGED history
    PROVE  StreamFollows(c)'
<1> DEFINE w == written[c]
           u == send[c]
<1>1. w \in Seq(Messages) /\ u \in Seq(Messages) /\ u # <<>> /\ inHand[c] = None
  BY DEF TypeOK, HistoryOK, WriterTakes, StreamFollows
<1>2. Head(u) \in Messages
  BY <1>1, HeadTailProperties
<1>3. /\ send'[c] = Tail(u) /\ inHand'[c] = Head(u)
      /\ writer[c] = "select" /\ writer'[c] = "writing"
      /\ UNCHANGED <<written, from, taken, log, clients, fanout, handler>>
  BY DEF TypeOK, WriterTakes, history
<1>4. inHand'[c] # None
  BY <1>2, <1>3, NoneAssumption
<1>5. Stream(c) = w \o <<>> \o u /\ Stream(c)' = w \o <<Head(u)>> \o Tail(u)
  BY <1>1, <1>3, <1>4 DEF Stream
<1>6. Follows(written[c], from[c])' /\ (from[c] + Len(written[c]) <= taken)'
  BY <1>3 DEF StreamFollows, Follows
<1> HIDE DEF w, u
<1>7. Stream(c)' = Stream(c)
  BY <1>1, <1>5, TakingInHand
<1> QED
  BY <1>3, <1>4, <1>6, <1>7, StreamMovesOn

\* writePump has written what it had in hand.
LEMMA StreamWritten ==
    ASSUME TypeOK, HistoryOK, NEW c \in Clients, StreamFollows(c), WriteH(c)
    PROVE  StreamFollows(c)'
<1> DEFINE w == written[c]
           u == send[c]
           m == inHand[c]
           x == Append(w, m)
<1>1. w \in Seq(Messages) /\ u \in Seq(Messages) /\ m \in Messages /\ m # None
  BY DEF TypeOK, HistoryOK, WriteH, Write, StreamFollows
<1>2. x \in Seq(Messages) /\ <<>> \in Seq(Messages) /\ Len(<<>>) = 0
  BY <1>1, AppendProperties, EmptySeq
<1>3. /\ written'[c] = x /\ inHand'[c] = None /\ send' = send
      /\ writer[c] = "writing" /\ writer'[c] = "select"
      /\ UNCHANGED <<from, taken, log, clients, fanout, handler>>
  BY DEF TypeOK, HistoryOK, WriteH, Write
<1>4. Stream(c) = w \o <<m>> \o u /\ Stream(c)' = x \o <<>> \o u
  BY <1>1, <1>3 DEF Stream
<1>5. /\ Follows(Stream(c), from[c]) /\ from[c] + Len(Stream(c)) <= taken
      /\ from[c] \in Nat /\ taken \in Nat
  BY <1>3, LenProperties DEF StreamFollows, HistoryOK
<1> HIDE DEF w, u, m
<1>6. Stream(c)' = Stream(c)
  BY <1>1, <1>4, WritingInHand DEF x
<1> HIDE DEF x
<1>7. /\ Len(Stream(c)) = Len(x) + 0 + Len(u)
      /\ \A i \in 1..Len(x) : Stream(c)[i] = x[i]
  <2>1. /\ Len(x \o <<>> \o u) = Len(x) + Len(<<>>) + Len(u)
        /\ \A i \in 1..Len(x) : (x \o <<>> \o u)[i] = x[i]
    BY <1>1, <1>2, ThreeSequences
  <2> QED
    BY <1>2, <1>4, <1>6, <2>1
<1>8. Len(x) \in Nat /\ Len(u) \in Nat
  BY <1>1, <1>2, LenProperties
<1>9. Follows(x, from[c]) /\ from[c] + Len(x) <= taken
  <2>1. from[c] + Len(x) <= taken
    BY <1>5, <1>7, <1>8
  <2>2. \A i \in 1..Len(x) : i \in 1..Len(Stream(c))
    BY <1>7, <1>8
  <2>3. \A i \in 1..Len(x) : x[i] = log[from[c] + i]
    BY <1>5, <1>7, <2>2 DEF Follows
  <2> QED
    BY <2>1, <2>3 DEF Follows
<1>10. Follows(written[c], from[c])' /\ (from[c] + Len(written[c]) <= taken)'
  BY <1>3, <1>9 DEF Follows
<1> QED
  BY <1>3, <1>6, <1>10, StreamMovesOn

\* writePump ends: what it has written stays.
LEMMA StreamEnded ==
    ASSUME TypeOK, HubInv, HistoryOK, NEW c \in Clients, StreamFollows(c),
           WriteFails(c) \/ WriterEnds(c), UNCHANGED history
    PROVE  StreamFollows(c)'
<1>1. writer'[c] = "done" /\ handler' = handler /\ writer[c] \in {"select", "writing"}
  BY DEF TypeOK, WriteFails, WriterEnds, WriterReturns
<1>2. handler[c] = "done"
  BY <1>1 DEF TypeOK, HubInv, PumpsFollowHandler
<1>3. inHand'[c] = None
  <2>1. CASE WriteFails(c)
    BY <2>1 DEF TypeOK, WriteFails
  <2>2. CASE WriterEnds(c)
    BY <2>2 DEF StreamFollows, WriterEnds
  <2> QED
    BY <2>1, <2>2
<1>4. Follows(written[c], from[c])' /\ (from[c] + Len(written[c]) <= taken)'
  BY DEF StreamFollows, Follows, history
<1> QED
  BY <1>1, <1>2, <1>3, <1>4 DEF StreamFollows

-----------------------------------------------------------------------------
(***************************************************************************)
(* The inductive invariant.                                                *)
(***************************************************************************)

\* Initially there is nothing to follow.
LEMMA FeedInvInit == FeedInit => FeedInv
<1> SUFFICES ASSUME FeedInit PROVE FeedInv
  OBVIOUS
<1>1. <<>> \in Seq(Messages) /\ Len(<<>>) = 0
  BY EmptySeq
<1>2. HistoryOK
  BY <1>1 DEF FeedInit, HistoryOK
<1>3. LogOfRun
  BY <1>1 DEF FeedInit, Init, LogOfRun, InSelect, Selecting
<1>4. ASSUME NEW c \in Clients
      PROVE  StreamFollows(c)
  <2>1. Stream(c) = <<>>
    <3>1. Stream(c) = <<>> \o <<>> \o <<>>
      BY DEF FeedInit, Init, Stream
    <3> QED
      BY <1>1, <3>1, ConcatEmptySeq
  <2>2. /\ writer[c] = "none" /\ inHand[c] = None /\ c \notin clients
        /\ written[c] = <<>> /\ from[c] = 0 /\ taken = 0
    BY DEF FeedInit, Init
  <2> QED
    BY <1>1, <2>1, <2>2 DEF StreamFollows, Follows
<1> QED
  BY <1>2, <1>3, <1>4 DEF FeedInv, StreamsFollow

\* The steps that do not concern the history.
LEMMA FeedInvOther ==
    ASSUME TypeOK, HubInv, FeedInv, NEW c \in Clients, OtherH(c)
    PROVE  FeedInv'
<1>1. HistoryOK /\ LogOfRun /\ \A d \in Clients : StreamFollows(d)
  BY DEF FeedInv, StreamsFollow
<1>2. UNCHANGED <<history, log, taken, from, written>>
  BY DEF OtherH, history
<1>3. HistoryOK'
  BY <1>1, <1>2 DEF HistoryOK
<1>4. LogOfRun' /\ LogGrows
  <2>1. UNCHANGED broadcast /\ (fanout' = fanout \/ InSelect' \/ (~InSelect /\ fanout'.msg = fanout.msg))
    BY DEF OtherH, ServeWS, StartPumps, LosePeer, Unregister, Offer, Visited, Selecting, InSelect,
           WriterTakes, WriteFails, WriterEnds, WriterReturns, ReadPump, ReadFails, ReaderCloses
  <2> QED
    BY <1>1, <1>2, <2>1, LogUntouched
<1>5. ASSUME NEW d \in Clients, d # c
      PROVE  StreamFollows(d)'
  <2>1. /\ written'[d] = written[d] /\ from'[d] = from[d]
        /\ inHand'[d] = inHand[d] /\ send'[d] = send[d]
        /\ writer'[d] = writer[d] /\ handler'[d] = handler[d]
    BY <1>2, <1>5 DEF TypeOK, OtherH, ServeWS, StartPumps, LosePeer, Unregister, Offer,
           WriterTakes, WriteFails, WriterEnds, WriterReturns, ReadPump, ReadFails, ReaderCloses
  <2>2. (d \in clients' => d \in clients) /\ (d \in fanout'.todo <=> d \in fanout.todo)
    BY <1>5 DEF TypeOK, OtherH, ServeWS, StartPumps, LosePeer, Unregister, Offer, Visited, Selecting,
           WriterTakes, WriteFails, WriterEnds, WriterReturns, ReadPump, ReadFails, ReaderCloses
  <2>3. Handed(d)' = Handed(d)
    BY <1>2, <2>2 DEF Handed
  <2> QED
    BY <1>1, <1>3, <1>4, <2>1, <2>2, <2>3, StreamLeftAlone
<1>6. StreamFollows(c)'
  <2>1. CASE Offer(c)
    BY <1>1, <1>2, <1>3, <1>4, <2>1, StreamHanded
  <2>2. CASE WriterTakes(c)
    BY <1>1, <1>2, <2>2, StreamTaken
  <2>3. CASE WriteFails(c) \/ WriterEnds(c)
    BY <1>1, <1>2, <2>3, StreamEnded
  <2>4. CASE ServeWS(c) \/ StartPumps(c) \/ LosePeer(c) \/ Unregister(c) \/ ReadPump(c)
    <3>1. /\ UNCHANGED <<inHand, send, fanout>> /\ (c \in clients' => c \in clients)
          /\ writer' = writer \/ StartPumps(c)
          /\ handler' = handler \/ StartPumps(c) \/ ServeWS(c)
      BY <2>4 DEF ServeWS, StartPumps, LosePeer, Unregister, ReadPump, ReadFails, ReaderCloses
    <3>2. StartPumps(c) => /\ writer[c] = "none" /\ writer'[c] = "select"
                           /\ handler'[c] = "done"
      BY DEF TypeOK, HubInv, PumpsFollowHandler, StartPumps
    <3>3. ServeWS(c) => handler[c] = "none"
      BY DEF ServeWS
    <3>4. Handed(c)' = Handed(c)
      BY <1>2, <3>1 DEF Handed
    <3>5. /\ writer'[c] = "writing" <=> writer[c] = "writing"
          /\ writer'[c] # "done" => writer[c] # "done"
          /\ handler'[c] \in {"none", "registering"} => handler[c] \in {"none", "registering"}
      BY <3>1, <3>2, <3>3
    <3> QED
      BY <1>1, <1>2, <1>3, <1>4, <3>1, <3>4, <3>5, StreamLeftAlone
  <2> QED
    BY <2>1, <2>2, <2>3, <2>4 DEF OtherH
<1> QED
  BY <1>3, <1>4, <1>5, <1>6 DEF FeedInv, StreamsFollow

\* The steps of the log, and the clients of which they are not.
LEMMA FeedInvLog ==
    ASSUME TypeOK, FeedInv,
           \/ \E p \in Producers : AcceptH(p) \/ \E message \in Messages : BroadcastH(p, message)
           \/ TakeBroadcastH
           \/ UNCHANGED feedVars
    PROVE  FeedInv'
<1>1. HistoryOK /\ LogOfRun /\ \A d \in Clients : StreamFollows(d)
  BY DEF FeedInv, StreamsFollow
<1>2. UNCHANGED <<written, from, inHand, send, writer, handler, clients>>
  BY DEF AcceptH, Accept, BroadcastH, Broadcast, TakeBroadcastH, TakeBroadcast, history,
         feedVars, hubVars
<1>3. HistoryOK' /\ LogOfRun' /\ LogGrows
  <2>1. CASE \E p \in Producers : AcceptH(p)
    BY <1>1, <2>1, AcceptedInLog
  <2>2. CASE TakeBroadcastH
    BY <1>1, <2>2, TakenFromLog
  <2>3. CASE \/ \E p \in Producers, message \in Messages : BroadcastH(p, message)
             \/ UNCHANGED feedVars
    <3>1. UNCHANGED <<log, taken, broadcast, fanout>>
      BY <2>3 DEF BroadcastH, Broadcast, history, feedVars, hubVars
    <3>2. LogOfRun' /\ LogGrows
      BY <1>1, <3>1, LogUntouched
    <3> QED
      BY <1>1, <1>2, <3>1, <3>2 DEF HistoryOK
  <2> QED
    BY <2>1, <2>2, <2>3
<1>4. ASSUME NEW c \in Clients
      PROVE  StreamFollows(c)'
  <2>1. c \in clients => Handed(c)' = Handed(c)
    <3>1. CASE TakeBroadcastH
      <4>1. Len(log) \in Nat /\ taken \in Nat
        BY <1>1, LenProperties DEF HistoryOK
      <4>2. c \in clients => /\ c \notin fanout.todo /\ c \in fanout'.todo
                             /\ taken' = taken + 1
        BY <3>1 DEF TakeBroadcastH, TakeBroadcast, InSelect
      <4> QED
        BY <4>1, <4>2 DEF Handed
    <3>2. CASE ~TakeBroadcastH
      <4>1. UNCHANGED <<fanout, taken>>
        BY <3>2 DEF AcceptH, Accept, BroadcastH, Broadcast, history, feedVars, hubVars
      <4> QED
        BY <4>1 DEF Handed
    <3> QED
      BY <3>1, <3>2
  <2> QED
    BY <1>1, <1>2, <1>3, <2>1, StreamLeftAlone
<1> QED
  BY <1>3, <1>4 DEF FeedInv, StreamsFollow

\* The steps that record where a client joined and what it was sent.
LEMMA FeedInvClient ==
    ASSUME TypeOK, FeedInv, NEW c \in Clients, RegisterH(c) \/ WriteH(c)
    PROVE  FeedInv'
<1>1. HistoryOK /\ LogOfRun /\ \A d \in Clients : StreamFollows(d)
  BY DEF FeedInv, StreamsFollow
<1>2. UNCHANGED <<log, taken, broadcast, fanout, send>>
  BY DEF RegisterH, Register, WriteH, Write
<1>3. HistoryOK'
  <2>1. CASE RegisterH(c)
    <3>1. taken \in Nat
      BY <1>1, LenProperties DEF HistoryOK
    <3> QED
      BY <1>1, <1>2, <2>1, <3>1 DEF RegisterH, HistoryOK
  <2>2. CASE WriteH(c)
    <3>1. inHand[c] \in Messages
      BY <1>1, <2>2 DEF TypeOK, WriteH, Write, StreamFollows
    <3>2. written[c] \in Seq(Messages)
      BY <1>1 DEF HistoryOK
    <3>3. Append(written[c], inHand[c]) \in Seq(Messages)
      BY <3>1, <3>2, AppendProperties
    <3> QED
      BY <1>1, <1>2, <2>2, <3>3 DEF WriteH, HistoryOK
  <2> QED
    BY <2>1, <2>2
<1>4. LogOfRun' /\ LogGrows
  BY <1>1, <1>2, LogUntouched
<1>5. ASSUME NEW d \in Clients, d # c
      PROVE  StreamFollows(d)'
  <2>1. /\ written'[d] = written[d] /\ from'[d] = from[d]
        /\ inHand'[d] = inHand[d] /\ send'[d] = send[d]
        /\ writer'[d] = writer[d] /\ handler'[d] = handler[d]
        /\ d \in clients' <=> d \in clients
    BY <1>1, <1>5 DEF HistoryOK, TypeOK, RegisterH, Register, WriteH, Write
  <2>2. Handed(d)' = Handed(d)
    BY <1>2 DEF Handed
  <2> QED
    BY <1>1, <1>3, <1>4, <2>1, <2>2, StreamLeftAlone
<1>6. StreamFollows(c)'
  BY <1>1, StreamBegins, StreamWritten
<1> QED
  BY <1>3, <1>4, <1>5, <1>6 DEF FeedInv, StreamsFollow

LEMMA FeedInductive ==
    TypeOK /\ HubInv /\ FeedInv /\ [FeedNext]_feedVars => FeedInv'
BY FeedInvOther, FeedInvLog, FeedInvClient DEF FeedNext

-----------------------------------------------------------------------------
(***************************************************************************)
(* What a viewer sees.                                                     *)
(***************************************************************************)

\* A stretch of the log, and a sequence that follows the log from its beginning on.
LEMMA StretchOfLog ==
    ASSUME HistoryOK, NEW start \in Nat, NEW end \in Nat, start <= end, end <= Len(log),
           NEW seq \in Seq(Messages), Follows(seq, start), start + Len(seq) <= end
    PROVE  /\ IsPrefix(seq, SubSeq(log, start + 1, end))
           /\ start + Len(seq) = end => seq = SubSeq(log, start + 1, end)
<1> DEFINE s == SubSeq(log, start + 1, end)
           n == Len(seq)
<1>1. log \in Seq(Messages) /\ Len(log) \in Nat /\ n \in Nat
  BY LenProperties DEF HistoryOK
<1>2. /\ s \in Seq(Messages) /\ Len(s) = end - start
      /\ \A i \in 1..(end - start) : s[i] = log[start + i]
  <2>1. /\ start + 1 \in 1..(Len(log) + 1) /\ end \in (start + 1) - 1..Len(log)
        /\ end - (start + 1) + 1 = end - start
    BY <1>1
  <2>2. /\ s \in Seq(Messages)
        /\ Len(s) = IF start + 1 <= end THEN end - (start + 1) + 1 ELSE 0
        /\ \A i \in 1..(end - (start + 1) + 1) : s[i] = log[start + 1 + i - 1]
    <3>1. \A i \in start + 1..end : log[i] \in Messages
      BY <1>1
    <3> QED
      BY <1>1, <2>1, <3>1, SubSeqProperties
  <2>3. Len(s) = end - start
    BY <2>1, <2>2
  <2>4. \A i \in 1..(end - start) : start + 1 + i - 1 = start + i
    OBVIOUS
  <2> QED
    BY <2>1, <2>2, <2>3, <2>4
<1> HIDE DEF s, n
<1>3. n <= Len(s) /\ \A i \in 1..n : i \in 1..Len(s) /\ i \in 1..(end - start)
  BY <1>1, <1>2 DEF n
<1>4. \A i \in 1..n : seq[i] = s[i]
  BY <1>2, <1>3 DEF Follows, n
<1>5. SubSeq(s, 1, n) = seq /\ SubSeq(seq, 1, n) = seq
  <2>1. ASSUME NEW t \in Seq(Messages), n <= Len(t), \A i \in 1..n : seq[i] = t[i]
        PROVE  SubSeq(t, 1, n) = seq
    <3> DEFINE u == SubSeq(t, 1, n)
    <3>1. Len(t) \in Nat
      BY LenProperties
    <3>2. /\ u \in Seq(Messages)
          /\ Len(u) = IF 1 <= n THEN n - 1 + 1 ELSE 0
          /\ \A i \in 1..(n - 1 + 1) : u[i] = t[1 + i - 1]
      BY <1>1, <2>1, <3>1, SubSeqProperties
    <3> HIDE DEF u
    <3>3. Len(u) = n /\ \A i \in 1..n : u[i] = t[i]
      BY <1>1, <3>2
    <3>4. u = seq
      BY <2>1, <3>2, <3>3, SeqEqual DEF n
    <3> QED
      BY <3>4 DEF u
  <2>2. n <= Len(seq) /\ \A i \in 1..n : seq[i] = seq[i]
    BY <1>1 DEF n
  <2>3. SubSeq(s, 1, n) = seq
    BY <1>2, <1>3, <1>4, <2>1
  <2>4. SubSeq(seq, 1, n) = seq
    BY <2>1, <2>2
  <2> QED
    BY <2>3, <2>4
<1>6. IsPrefix(seq, s)
  BY <1>3, <1>5 DEF IsPrefix, n
<1>7. ASSUME start + n = end
      PROVE  seq = s
  <2>1. Len(s) = n
    BY <1>1, <1>2, <1>7
  <2> QED
    BY <1>2, <1>4, <2>1, SeqEqual DEF n
<1> QED
  BY <1>6, <1>7 DEF s, n

LEMMA FollowingIsUnbroken == TypeOK /\ HubInv /\ FeedInv => UnbrokenFeed
<1> SUFFICES ASSUME TypeOK, HubInv, FeedInv, NEW c \in Clients
             PROVE  /\ IsPrefix(written[c], SubSeq(log, from[c] + 1, Len(log)))
                    /\ c \in clients /\ writer[c] # "done" =>
                            Stream(c) = SubSeq(log, from[c] + 1, Handed(c))
  BY DEF UnbrokenFeed
<1>1. /\ HistoryOK /\ LogOfRun /\ StreamFollows(c)
  BY DEF FeedInv, StreamsFollow
<1>2. /\ from[c] \in Nat /\ taken \in Nat /\ Len(log) \in Nat
      /\ from[c] <= taken /\ taken <= Len(log) /\ written[c] \in Seq(Messages)
      /\ Len(written[c]) \in Nat
  BY <1>1, LenProperties DEF HistoryOK
<1>3. IsPrefix(written[c], SubSeq(log, from[c] + 1, Len(log)))
  <2>1. Follows(written[c], from[c]) /\ from[c] + Len(written[c]) <= Len(log)
    BY <1>1, <1>2 DEF StreamFollows
  <2>2. from[c] <= Len(log)
    BY <1>2
  <2> QED
    BY <1>1, <1>2, <2>1, <2>2, StretchOfLog
<1>4. ASSUME c \in clients, writer[c] # "done"
      PROVE  Stream(c) = SubSeq(log, from[c] + 1, Handed(c))
  <2>1. Stream(c) \in Seq(Messages) /\ Len(Stream(c)) \in Nat
    BY <1>1, StreamTypes
  <2>2. Follows(Stream(c), from[c]) /\ from[c] + Len(Stream(c)) = Handed(c)
    BY <1>1, <1>4 DEF StreamFollows
  <2>3. Handed(c) \in Nat /\ from[c] <= Handed(c) /\ Handed(c) <= Len(log)
    <3>1. Handed(c) = taken \/ Handed(c) = taken - 1
      BY DEF Handed
    <3>2. Handed(c) <= taken /\ Handed(c) >= from[c]
      BY <1>2, <2>1, <2>2, <3>1
    <3> QED
      BY <1>2, <3>1, <3>2
  <2>4. from[c] + Len(Stream(c)) <= Handed(c)
    BY <2>2, <2>3
  <2> QED
    BY <1>1, <1>2, <2>1, <2>2, <2>3, <2>4, StretchOfLog
<1> QED
  BY <1>3, <1>4

\* In every run, for any number of viewers, producers and messages and any capacities:
\* a viewer's connection carries an unbroken stretch of the broadcasts in their order,
\* from the first after its registration on, however slow it is, whoever else comes and
\* goes and whenever it is dropped; and while it is in the map it has been handed all.
THEOREM FeedUnbroken == FeedSpec => []UnbrokenFeed
<1>1. FeedInit => TypeOK /\ HubInv /\ FeedInv
  BY TypeInit, InvInit, FeedInvInit DEF FeedInit
<1>2. TypeOK /\ HubInv /\ FeedInv /\ [FeedNext]_feedVars => (TypeOK /\ HubInv /\ FeedInv)'
  BY FeedStepIsHubStep, Inductive, FeedInductive
<1> QED
  BY <1>1, <1>2, FollowingIsUnbroken, PTL DEF FeedSpec

=============================================================================
