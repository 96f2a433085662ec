------------------------ MODULE NetflowPipelineProofs ------------------------
(***************************************************************************)
(* Proofs about NetflowPipeline, for any number of exporters, datagrams,   *)
(* workers, buckets and faults: type correctness; the exclusion that the   *)
(* prefetch limit gives the unlocked template cache; the accuracy of the   *)
(* stored percentages; that nothing queued disappears; that flows are      *)
(* decoded with the latest template; and that the pipeline implements the  *)
(* accounting of FlowAccounting.                                           *)
(***************************************************************************)
EXTENDS NetflowPipeline, SequenceTheorems, FiniteSetTheorems, TLAPS

(***************************************************************************)
(* The queue operators of Broker.                                          *)
(***************************************************************************)

\* A publication keeps the queue typed, keeps every entry, and adds one that
\* nobody holds.
LEMMA PublishedQueue ==
    ASSUME NEW M, NEW W, NEW q \in Seq(Entries(M, W)), NEW m \in M
    PROVE  /\ Published(q, m) \in Seq(Entries(M, W))
           /\ \A w \in W : HeldBy(q, w) \subseteq HeldBy(Published(q, m), w)
<1> DEFINE e == [msg |-> m, by |-> Ready]
<1>1. e \in Entries(M, W)
  BY DEF Entries
<1>2. /\ Append(q, e) \in Seq(Entries(M, W))
      /\ Len(Append(q, e)) = Len(q) + 1
      /\ \A i \in 1..Len(q) : Append(q, e)[i] = q[i]
  BY <1>1, AppendProperties
<1>3. DOMAIN q = 1..Len(q) /\ DOMAIN Append(q, e) = 1..Len(q) + 1 /\ Len(q) \in Nat
  BY <1>2, LenProperties
<1> QED
  BY <1>2, <1>3 DEF Published, HeldBy

\* With prefetch 1, a message is delivered only when nobody holds one.
LEMMA DeliverableQueue ==
    ASSUME NEW M, NEW W, Ready \notin W, NEW q \in Seq(Entries(M, W)),
           NEW i, MayDeliver(q, i, 1)
    PROVE  \A w \in W : HeldBy(q, w) = {}
<1>1. DOMAIN q = 1..Len(q) /\ Len(q) \in Nat
  BY LenProperties
<1>2. IsFiniteSet(1..Len(q))
  BY <1>1, FS_Interval, 1 \in Int
<1>3. IsFiniteSet(HeldEntries(q))
  BY <1>1, <1>2, FS_Subset DEF HeldEntries
<1>4. Cardinality(HeldEntries(q)) \in Nat /\ Cardinality(HeldEntries(q)) < 1
  BY <1>3, FS_CardinalityType DEF MayDeliver
<1>5. HeldEntries(q) = {}
  BY <1>3, <1>4, FS_EmptySet
<1> QED
  BY <1>5 DEF HeldEntries, HeldBy

\* A delivery keeps the queue typed and is held by the worker it went to.
LEMMA DeliveredQueue ==
    ASSUME NEW M, NEW W, NEW q \in Seq(Entries(M, W)),
           NEW i \in DOMAIN q, NEW w \in W
    PROVE  /\ q[i].msg \in M
           /\ Delivered(q, i, w) \in Seq(Entries(M, W))
           /\ i \in HeldBy(Delivered(q, i, w), w)
<1> DEFINE e == [q[i] EXCEPT !.by = w]
<1>1. i \in 1..Len(q)
  BY LenProperties
<1>2. q[i] \in Entries(M, W)
  BY <1>1, ElementOfSeq
<1>3. e \in Entries(M, W) /\ e.by = w
  BY <1>2 DEF Entries
<1>4. Delivered(q, i, w) = [q EXCEPT ![i] = e]
  BY DEF Delivered
<1>5. Delivered(q, i, w) \in Seq(Entries(M, W))
  BY <1>1, <1>3, <1>4, ExceptSeq
<1>6. i \in DOMAIN Delivered(q, i, w) /\ Delivered(q, i, w)[i] = e
  BY <1>4
<1> QED
  BY <1>2, <1>3, <1>5, <1>6 DEF HeldBy, Entries

\* Acknowledging or requeueing an entry, or all, keeps the queue typed.
LEMMA SettledQueue ==
    ASSUME NEW M, NEW W, NEW q \in Seq(Entries(M, W))
    PROVE  /\ \A i \in DOMAIN q : /\ Acked(q, i) \in Seq(Entries(M, W))
                                /\ Requeued(q, i) \in Seq(Entries(M, W))
           /\ AllRequeued(q) \in Seq(Entries(M, W))
<1>1. DOMAIN q = 1..Len(q) /\ Len(q) \in Nat
  BY LenProperties
<1>2. \A i \in 1..Len(q) : q[i] \in Entries(M, W)
  BY ElementOfSeq
<1>3. \A i \in 1..Len(q) : [q[i] EXCEPT !.by = Ready] \in Entries(M, W)
  BY <1>2 DEF Entries
<1>4. ASSUME NEW i \in DOMAIN q
      PROVE  Acked(q, i) \in Seq(Entries(M, W))
  <2>1. SubSeq(q, 1, i - 1) \in Seq(Entries(M, W))
    BY <1>1, <1>2, SubSeqProperties
  <2>2. SubSeq(q, i + 1, Len(q)) \in Seq(Entries(M, W))
    BY <1>1, <1>2, SubSeqProperties
  <2> QED
    BY <2>1, <2>2, ConcatProperties DEF Acked, RemoveAt
<1>5. ASSUME NEW i \in DOMAIN q
      PROVE  Requeued(q, i) \in Seq(Entries(M, W))
  BY <1>1, <1>3, ExceptSeq DEF Requeued
<1>6. AllRequeued(q) \in Seq(Entries(M, W))
  <2> DEFINE s == [i \in 1..Len(q) |-> [q[i] EXCEPT !.by = Ready]]
  <2>1. AllRequeued(q) = s
    BY <1>1 DEF AllRequeued
  <2>2. s \in [1..Len(q) -> Entries(M, W)]
    BY <1>3
  <2> QED
    BY <1>1, <2>1, <2>2, SeqDef
<1> QED
  BY <1>4, <1>5, <1>6
\* Settling or delivering an entry leaves the other workers their entries.
LEMMA OthersKeepTheirs ==
    ASSUME NEW M, NEW W, NEW q \in Seq(Entries(M, W)), NEW i \in DOMAIN q,
           NEW v, NEW j \in HeldBy(q, v), j # i
    PROVE  /\ HeldBy(Acked(q, i), v) # {}
           /\ HeldBy(Requeued(q, i), v) # {}
           /\ \A w : HeldBy(Delivered(q, i, w), v) # {}
<1>1. DOMAIN q = 1..Len(q) /\ Len(q) \in Nat
  BY LenProperties
<1>2. \A k \in 1..Len(q) : q[k] \in Entries(M, W)
  BY ElementOfSeq
<1>3. j \in 1..Len(q) /\ q[j].by = v
  BY <1>1 DEF HeldBy
<1>4. HeldBy(Acked(q, i), v) # {}
  <2> DEFINE left == SubSeq(q, 1, i - 1)
             right == SubSeq(q, i + 1, Len(q))
  <2>1. /\ left \in Seq(Entries(M, W)) /\ Len(left) = i - 1
        /\ \A k \in 1..(i - 1) : left[k] = q[k]
    BY <1>1, <1>2, SubSeqProperties
  <2>2. /\ right \in Seq(Entries(M, W)) /\ Len(right) = Len(q) - i
        /\ \A k \in 1..(Len(q) - i) : right[k] = q[i + k]
    BY <1>1, <1>2, SubSeqProperties
  <2>3. /\ Len(left \o right) = Len(q) - 1
        /\ left \o right \in Seq(Entries(M, W))
        /\ \A k \in 1..(Len(q) - 1) :
              (left \o right)[k] = IF k <= i - 1 THEN left[k] ELSE right[k - (i - 1)]
    <3> HIDE DEF left, right
    <3>1. i \in Int /\ Len(q) \in Int /\ (i - 1) + (Len(q) - i) = Len(q) - 1
      BY <1>1
    <3>2. /\ left \o right \in Seq(Entries(M, W))
          /\ Len(left \o right) = Len(left) + Len(right)
          /\ \A k \in 1..(Len(left) + Len(right)) :
                (left \o right)[k] = IF k <= Len(left) THEN left[k]
                                     ELSE right[k - Len(left)]
      BY <2>1, <2>2, ConcatProperties
    <3>3. Len(left) + Len(right) = Len(q) - 1
      BY <2>1, <2>2, <3>1
    <3> QED
      BY <2>1, <3>2, <3>3
  <2>4. DOMAIN (left \o right) = 1..(Len(q) - 1)
    BY <2>3, LenProperties
  <2>5. CASE j < i
    <3>1. j \in 1..(i - 1) /\ j \in 1..(Len(q) - 1)
      BY <1>1, <1>3, <2>5
    <3>2. (left \o right)[j] = q[j]
      BY <2>1, <2>3, <3>1
    <3> QED
      BY <1>3, <2>4, <3>1, <3>2 DEF HeldBy, Acked, RemoveAt
  <2>6. CASE j > i
    <3>1. /\ j - 1 \in 1..(Len(q) - 1) /\ ~(j - 1 <= i - 1)
          /\ j - i \in 1..(Len(q) - i) /\ (j - 1) - (i - 1) = j - i
          /\ i + (j - i) = j
      BY <1>1, <1>3, <2>6
    <3>2. (left \o right)[j - 1] = q[j]
      BY <2>2, <2>3, <3>1
    <3> QED
      BY <1>3, <2>4, <3>1, <3>2 DEF HeldBy, Acked, RemoveAt
  <2> QED
    BY <1>1, <1>3, <2>5, <2>6
<1>5. HeldBy(Requeued(q, i), v) # {}
  BY <1>1, <1>3 DEF HeldBy, Requeued
<1>6. ASSUME NEW w
      PROVE  HeldBy(Delivered(q, i, w), v) # {}
  BY <1>1, <1>3 DEF HeldBy, Delivered
<1> QED
  BY <1>4, <1>5, <1>6

-----------------------------------------------------------------------------
(***************************************************************************)
(* Type correctness.                                                       *)
(***************************************************************************)

\* The flow sets of a datagram are flow sets, and those with a key have one of Keys.
LEMMA ContentTypes ==
    ASSUME NEW d \in Datagrams, NEW i \in Nat \ {0}, i <= Len(Content[d].sets)
    PROVE  /\ Content[d].src \in Exporters
           /\ Content[d].sets[i] \in FlowSets
           /\ Content[d].sets[i].kind # "options" => Content[d].sets[i].key \in Keys
<1>1. Content[d].src \in Exporters /\ Content[d].sets \in Seq(FlowSets)
  BY ContentAssumption DEF ContentRecord
<1>3. /\ DOMAIN Content[d].sets = 1..Len(Content[d].sets)
      /\ Len(Content[d].sets) \in Nat
  BY <1>1, LenProperties
<1>2. Content[d].sets[i] \in FlowSets
  BY <1>1, <1>3, ElementOfSeq
<1>4. ASSUME Content[d].sets[i].kind # "options"
      PROVE  Content[d].sets[i].key \in Keys
  <2>1. i \in DOMAIN Content[d].sets
    BY <1>3
  <2> QED
    BY <1>4, <2>1 DEF Keys
<1> QED
  BY <1>1, <1>2, <1>4

\* What each kind of flow set carries.
LEMMA FlowSetTypes ==
    ASSUME NEW fs \in FlowSets
    PROVE  /\ fs.kind = "template" => fs.layout \in Layouts
           /\ fs.kind = "data" => fs.len \in Nat
<1>1. CASE fs \in [kind : {"template"}, key : Nat \X Nat, layout : Layouts]
  BY <1>1
<1>2. CASE fs \in [kind : {"data"}, key : Nat \X Nat, len : Nat]
  BY <1>2
<1>3. CASE fs \in [kind : {"options"}]
  BY <1>3
<1> QED
  BY <1>1, <1>2, <1>3 DEF FlowSets

\* A data set holds a natural number of records, of either family.
LEMMA RecordCountTypes ==
    ASSUME NEW len \in Nat, NEW layout \in Layouts
    PROVE  /\ RecordCount(len, layout) \in Nat
           /\ \A family : Count(RecordCount(len, layout), layout, family) \in Nat
<1>1. layout.size \in Nat
  BY DEF Layouts
<1>2. \A s \in Nat \ {0} : len \div s \in Nat
  OBVIOUS
<1>3. RecordCount(len, layout) \in Nat
  BY <1>1, <1>2 DEF RecordCount
<1> QED
  BY <1>3 DEF Count

\* The entry a busy worker settles is an entry of its queue.
LEMMA EntryOfWorker ==
    ASSUME TypeOK, BusyHolds
    PROVE  /\ \A w \in Decoders :
                decoder[w].pc # "idle" /\ rawConn => RawEntry(w) \in DOMAIN raw
           /\ \A w \in MetricWorkers :
                metric[w].pc # "idle" /\ decConn => DecEntry(w) \in DOMAIN dec
BY DEF BusyHolds, RawEntry, DecEntry, HeldBy

\* Initially everything is typed.
LEMMA TypeInit == Init => TypeOK
<1> SUFFICES ASSUME Init PROVE TypeOK
  OBVIOUS
<1>1. /\ raw \in Seq(Entries(Datagrams, Decoders))
      /\ dec \in Seq(Entries(Messages, MetricWorkers))
      /\ arrival \in Seq(Datagrams)
  BY EmptySeq DEF Init
<1>2. cache \in [Keys -> {None} \cup CachedTemplates]
  BY DEF Init, EmptyCache, CachedTemplates
<1>3. store \in [DocumentKeys -> {None} \cup Documents]
  BY DEF Init, DocumentKeys
<1>4. now \in Buckets /\ faults \in 0..MaxFaults
  BY BoundsAssumption DEF Init, Buckets
<1> QED
  BY <1>1, <1>2, <1>3, <1>4 DEF Init, TypeOK, IdleDecoder, IdleMetric, Local, DecoderLocals, MetricLocals, Readings

\* The local states the actions build are local states.
LEMMA LocalTypes ==
    /\ IdleDecoder \in DecoderLocals
    /\ IdleMetric \in MetricLocals
    /\ \A m \in Messages : Local("inc", m, None, None, "ok") \in MetricLocals
    /\ \A m \in Messages, key \in DocumentKeys, read \in Readings :
            Local("set", m, key, read, "ok") \in MetricLocals
    /\ \A l \in MetricLocals : [l EXCEPT !.pc = "settle"] \in MetricLocals
BY DEF IdleDecoder, IdleMetric, Local, DecoderLocals, MetricLocals, Readings

\* A decoder in its loop is at a flow set of its datagram.
LEMMA CurrentSetTypes ==
    ASSUME TypeOK, WorkInProgress, NEW w \in Decoders, AtFlowSet(w)
    PROVE  /\ CurrentSet(w) \in FlowSets
           /\ CurrentSet(w).kind # "options" => CurrentSet(w).key \in Keys
<1>1. decoder[w].at \in Nat \ {0} /\ decoder[w].out.d \in Datagrams
  BY DEF TypeOK, WorkInProgress, AtFlowSet, DecoderLocals, Messages
<1>2. decoder[w].at <= Len(Content[decoder[w].out.d].sets)
  BY DEF AtFlowSet
<1> QED
  BY <1>1, <1>2, ContentTypes DEF CurrentSet

\* Decoding a data set extends the decoded message, and nothing else.
LEMMA DecodedMessage ==
    ASSUME TypeOK, WorkInProgress, NEW w \in Decoders, DecodeData(w)
    PROVE  /\ decoder[w].pc = "decode"
           /\ UNCHANGED <<seen, raw, dec, cache, metric, store, now, network, faults,
                          history>>
           /\ \E out \in Messages : NextSet(w, out)
<1> DEFINE fs == CurrentSet(w)
           template == cache[fs.key]
           n == Records(fs, template)
           out == decoder[w].out
           new == [d |-> out.d,
                   v4 |-> out.v4 + Count(n, template.layout, "v4"),
                   v6 |-> out.v6 + Count(n, template.layout, "v6"),
                   uses |-> out.uses \cup {<<fs.key, template.from>>}]
<1>1. fs \in FlowSets /\ fs.key \in Keys /\ fs.len \in Nat
  <2>1. fs \in FlowSets /\ fs.kind = "data" /\ fs.key \in Keys
    BY CurrentSetTypes DEF DecodeData
  <2> QED
    BY <2>1, FlowSetTypes
<1>2. template \in [layout : Layouts, from : Datagrams]
  BY <1>1 DEF TypeOK, DecodeData, CachedTemplates
<1>3. /\ Count(n, template.layout, "v4") \in Nat
      /\ Count(n, template.layout, "v6") \in Nat
  BY <1>1, <1>2, RecordCountTypes DEF Records
<1>4. new \in Messages
  <2>1. out \in Messages
    BY DEF DecodeData, AtFlowSet, WorkInProgress
  <2>2. <<fs.key, template.from>> \in Keys \X Datagrams
    BY <1>1, <1>2
  <2> HIDE DEF fs, template, n, out
  <2> QED
    BY <1>3, <2>1, <2>2 DEF Messages
<1>5. NextSet(w, new)
  BY DEF DecodeData
<1>6. /\ decoder[w].pc = "decode"
      /\ UNCHANGED <<seen, raw, dec, cache, metric, store, now, network, faults, history>>
  BY DEF DecodeData, AtFlowSet
<1> QED
  BY <1>4, <1>5, <1>6

\* A step of a decoder goroutine keeps every variable typed.
LEMMA TypeDecoderStep ==
    ASSUME TypeOK, WorkInProgress, BusyHolds, NEW w \in Decoders,
           TakeRaw(w) \/ DecoderStep(w)
    PROVE  TypeOK'
<1>0. /\ decoder \in [Decoders -> DecoderLocals]
      /\ raw \in Seq(Entries(Datagrams, Decoders))
      /\ dec \in Seq(Entries(Messages, MetricWorkers))
      /\ decoder[w].pc # "idle" =>
            /\ decoder[w].out \in Messages
            /\ decoder[w].out.d \in Datagrams
  BY DEF TypeOK, WorkInProgress, Messages
<1>ack. ASSUME AckRaw(w), decoder[w].pc # "idle"
        PROVE  raw' \in Seq(Entries(Datagrams, Decoders))
  BY <1>0, <1>ack, SettledQueue, EntryOfWorker DEF AckRaw
<1>1. CASE TakeRaw(w)
  <2>1. PICK i \in DOMAIN raw :
            /\ raw' = Delivered(raw, i, w)
            /\ decoder' = [decoder EXCEPT ![w] =
                  [pc |-> "decode", at |-> 1, out |-> EmptyMessage(raw[i].msg)]]
    BY <1>1 DEF TakeRaw
  <2>2. raw' \in Seq(Entries(Datagrams, Decoders)) /\ raw[i].msg \in Datagrams
    BY <1>0, <2>1, DeliveredQueue
  <2>3. EmptyMessage(raw[i].msg) \in Messages
    BY <2>2 DEF EmptyMessage, Messages
  <2>4. decoder' \in [Decoders -> DecoderLocals]
    BY <1>0, <2>1, <2>3 DEF DecoderLocals
  <2> QED
    BY <1>1, <2>2, <2>4 DEF TypeOK, TakeRaw, network, history
<1>2. CASE RefuseShort(w)
  <2>1. raw' \in Seq(Entries(Datagrams, Decoders))
    BY <1>ack, <1>2 DEF RefuseShort
  <2>2. decoder' \in [Decoders -> DecoderLocals]
    BY <1>0, LocalTypes, <1>2 DEF RefuseShort
  <2>3. excused' \subseteq Datagrams
    BY <1>0, <1>2 DEF RefuseShort, TypeOK
  <2> QED
    BY <1>2, <2>1, <2>2, <2>3 DEF TypeOK, RefuseShort, network
<1>3. CASE LearnTemplate(w)
  <2> DEFINE fs == CurrentSet(w)
  <2>1. fs \in FlowSets /\ fs.key \in Keys /\ fs.kind = "template"
    BY <1>3, CurrentSetTypes DEF LearnTemplate
  <2>2. fs.layout \in Layouts
    BY <2>1, FlowSetTypes
  <2>3. cache' \in [Keys -> {None} \cup CachedTemplates]
    BY <1>0, <1>3, <2>1, <2>2 DEF TypeOK, LearnTemplate, AtFlowSet, CachedTemplates
  <2>4. decoder' \in [Decoders -> DecoderLocals]
    BY <1>0, <1>3 DEF LearnTemplate, NextSet, DecoderLocals
  <2> QED
    BY <1>3, <2>3, <2>4 DEF TypeOK, LearnTemplate, network, history
<1>4. CASE DecodeData(w)
  <2>1. PICK out \in Messages : NextSet(w, out)
    BY <1>4, DecodedMessage
  <2>2. UNCHANGED <<seen, raw, dec, cache, metric, store, now, network, faults, history>>
    BY <1>4, DecodedMessage
  <2>3. decoder' \in [Decoders -> DecoderLocals]
    BY <1>0, <2>1 DEF NextSet, DecoderLocals
  <2> QED
    BY <2>2, <2>3 DEF TypeOK, network, history
<1>5. CASE SkipSet(w)
  <2>1. decoder' \in [Decoders -> DecoderLocals]
    BY <1>0, <1>5 DEF SkipSet, AtFlowSet, NextSet, DecoderLocals
  <2>2. lost' \subseteq Datagrams
    BY <1>0, <1>5 DEF TypeOK, SkipSet, AtFlowSet
  <2> QED
    BY <1>5, <2>1, <2>2 DEF TypeOK, SkipSet, network, history
<1>6. CASE FinishDecoding(w)
  <2>1. decoder' \in [Decoders -> DecoderLocals]
    BY <1>0, <1>6 DEF FinishDecoding, DecoderLocals
  <2>2. excused' \subseteq Datagrams
    BY <1>0, <1>6 DEF FinishDecoding, TypeOK
  <2> QED
    BY <1>6, <2>1, <2>2 DEF TypeOK, FinishDecoding, network
<1>7. CASE PublishDecoded(w)
  <2>1. dec' \in Seq(Entries(Messages, MetricWorkers))
    BY <1>0, <1>7, PublishedQueue DEF PublishDecoded
  <2>2. decoder' \in [Decoders -> DecoderLocals]
    BY <1>0, <1>7 DEF PublishDecoded, DecoderLocals
  <2> QED
    BY <1>7, <2>1, <2>2 DEF TypeOK, PublishDecoded, network, history
<1>8. CASE RequeueRaw(w)
  <2>1. raw' \in Seq(Entries(Datagrams, Decoders))
    BY <1>0, <1>8, SettledQueue, EntryOfWorker DEF RequeueRaw
  <2>2. decoder' \in [Decoders -> DecoderLocals]
    BY <1>0, LocalTypes, <1>8 DEF RequeueRaw
  <2> QED
    BY <1>8, <2>1, <2>2 DEF TypeOK, RequeueRaw, network, history
<1>9. CASE SettleRaw(w)
  <2>1. raw' \in Seq(Entries(Datagrams, Decoders))
    BY <1>ack, <1>9 DEF SettleRaw
  <2>2. decoder' \in [Decoders -> DecoderLocals]
    BY <1>0, LocalTypes, <1>9 DEF SettleRaw
  <2> QED
    BY <1>9, <2>1, <2>2 DEF TypeOK, SettleRaw, network, history
<1> QED
  BY <1>1, <1>2, <1>3, <1>4, <1>5, <1>6, <1>7, <1>8, <1>9 DEF DecoderStep

\* Counting a message gives a document.
LEMMA CountedDocument ==
    ASSUME NEW w, metric[w].m \in Messages, NEW doc \in {None} \cup Documents
    PROVE  Counted(doc, w) \in Documents
<1>1. metric[w].m.v4 \in Nat /\ metric[w].m.v6 \in Nat
  BY DEF Messages
<1>2. CASE doc = None
  BY <1>1, <1>2 DEF Counted, Documents, Readings
<1>3. CASE doc \in Documents /\ doc # None
  BY <1>1, <1>3 DEF Counted, Documents, Readings
<1> QED
  BY <1>2, <1>3

\* A step of a metric goroutine keeps every variable typed.
LEMMA TypeMetricStep ==
    ASSUME TypeOK, WorkInProgress, BusyHolds, NEW w \in MetricWorkers,
           TakeDecoded(w) \/ MetricStep(w)
    PROVE  TypeOK'
<1>0. /\ metric \in [MetricWorkers -> MetricLocals]
      /\ dec \in Seq(Entries(Messages, MetricWorkers))
      /\ store \in [DocumentKeys -> {None} \cup Documents]
      /\ applied \in [Datagrams -> Nat]
      /\ faults \in 0..MaxFaults /\ MaxFaults \in Nat
      /\ metric[w].pc # "idle" => metric[w].m \in Messages
  BY BoundsAssumption DEF TypeOK, WorkInProgress
<1>fault. \A kind : MayFault(kind) => faults + 1 \in 0..MaxFaults
  BY <1>0 DEF MayFault
<1>1. CASE TakeDecoded(w)
  <2>1. PICK i \in DOMAIN dec :
            /\ dec' = Delivered(dec, i, w)
            /\ metric' = [metric EXCEPT ![w] =
                  Local("inc", dec[i].msg, None, None, "ok")]
    BY <1>1 DEF TakeDecoded
  <2>2. dec' \in Seq(Entries(Messages, MetricWorkers)) /\ dec[i].msg \in Messages
    BY <1>0, <2>1, DeliveredQueue
  <2>3. Local("inc", dec[i].msg, None, None, "ok") \in MetricLocals
    BY <2>2, LocalTypes
  <2>4. metric' \in [MetricWorkers -> MetricLocals]
    BY <1>0, <2>1, <2>3
  <2> QED
    BY <1>1, <2>2, <2>4 DEF TypeOK, TakeDecoded, network, history
<1>2. CASE NothingToCount(w)
  <2>1. metric' \in [MetricWorkers -> MetricLocals]
    BY <1>0, <1>2 DEF NothingToCount, MetricLocals
  <2> QED
    BY <1>2, <2>1 DEF TypeOK, NothingToCount, network, history
<1>3. CASE IncrementCounters(w)
  <2> DEFINE m == metric[w].m
             key == <<Content[m.d].src, now>>
  <2>1. /\ m \in Messages /\ m.d \in Datagrams /\ m.v4 \in Nat /\ m.v6 \in Nat
    BY <1>0, <1>3 DEF IncrementCounters, Messages
  <2>2. key \in DocumentKeys
    BY <2>1, ContentAssumption DEF ContentRecord, TypeOK, DocumentKeys
  <2>3. metric' \in [MetricWorkers -> MetricLocals] /\ faults' \in 0..MaxFaults
    BY <1>0, <1>3, <1>fault, <2>2 DEF IncrementCounters, Local, MetricLocals, Readings
  <2>4. Counted(store[key], w) \in Documents
    BY <1>0, <2>1, <2>2, CountedDocument
  <2>5. store' \in [DocumentKeys -> {None} \cup Documents]
    <3>1. store' = store \/ store' = [store EXCEPT ![key] = Counted(store[key], w)]
      BY <1>3 DEF IncrementCounters
    <3> HIDE DEF key
    <3> QED
      BY <1>0, <2>4, <3>1
  <2>6. applied' \in [Datagrams -> Nat]
    BY <1>0, <1>3, <2>1 DEF IncrementCounters
  <2> QED
    BY <1>3, <2>3, <2>5, <2>6 DEF TypeOK, IncrementCounters, network
<1>4. CASE ReadCounters(w)
  <2>1. store[metric[w].key] \in Documents
    BY <1>4 DEF WorkInProgress, ReadCounters
  <2> DEFINE read == <<store[metric[w].key].v4, store[metric[w].key].v6>>
  <2>2. read \in Readings
    BY <2>1 DEF Documents, Readings
  <2>3. metric[w].key \in DocumentKeys
    BY <1>4 DEF WorkInProgress, ReadCounters
  <2>4. \/ metric' = [metric EXCEPT ![w] = Local("set", metric[w].m, metric[w].key, read, "ok")]
        \/ metric' = [metric EXCEPT ![w].pc = "settle"]
    BY <1>4 DEF ReadCounters
  <2>5. metric' \in [MetricWorkers -> MetricLocals]
    <3>1. metric[w].m \in Messages
      BY <1>0, <1>4 DEF ReadCounters
    <3>2. Local("set", metric[w].m, metric[w].key, read, "ok") \in MetricLocals
      BY <2>2, <2>3, <3>1, LocalTypes
    <3>3. CASE metric' = [metric EXCEPT ![w].pc = "settle"]
      BY <1>0, <3>3, LocalTypes
    <3>4. CASE metric' = [metric EXCEPT
                  ![w] = Local("set", metric[w].m, metric[w].key, read, "ok")]
      BY <1>0, <3>2, <3>4
    <3> QED
      BY <2>4, <3>3, <3>4
  <2>6. faults' \in 0..MaxFaults
    BY <1>0, <1>4, <1>fault DEF ReadCounters
  <2> QED
    BY <1>4, <2>5, <2>6 DEF TypeOK, ReadCounters, network, history
<1>5. CASE SetPercentages(w)
  <2> DEFINE key == metric[w].key
             doc == [store[key] EXCEPT !.pct = metric[w].read]
  <2>1. /\ key \in DocumentKeys /\ store[key] \in Documents
        /\ metric[w].read \in Readings
    BY <1>5 DEF WorkInProgress, SetPercentages
  <2>2. doc \in Documents
    BY <2>1 DEF Documents
  <2>3. store' \in [DocumentKeys -> {None} \cup Documents]
    <3>1. store' = store \/ store' = [store EXCEPT ![key] = doc]
      BY <1>5 DEF SetPercentages
    <3> HIDE DEF key, doc
    <3> QED
      BY <1>0, <2>2, <3>1
  <2>4. metric' \in [MetricWorkers -> MetricLocals] /\ faults' \in 0..MaxFaults
    <3>1. metric' = [metric EXCEPT ![w].pc = "settle"]
      BY <1>5 DEF SetPercentages
    <3>2. metric' \in [MetricWorkers -> MetricLocals]
      BY <1>0, <3>1, LocalTypes
    <3>3. faults' \in 0..MaxFaults
      BY <1>0, <1>5, <1>fault DEF SetPercentages
    <3> QED
      BY <3>2, <3>3
  <2> QED
    BY <1>5, <2>3, <2>4 DEF TypeOK, SetPercentages, network, history
<1>6. CASE SettleDecoded(w)
  <2>1. dec' \in Seq(Entries(Messages, MetricWorkers))
    BY <1>0, <1>6, SettledQueue, EntryOfWorker DEF SettleDecoded
  <2>2. metric' \in [MetricWorkers -> MetricLocals]
    BY <1>0, <1>6, LocalTypes DEF SettleDecoded
  <2> QED
    BY <1>6, <2>1, <2>2 DEF TypeOK, SettleDecoded, network, history
<1> QED
  BY <1>1, <1>2, <1>3, <1>4, <1>5, <1>6 DEF MetricStep

\* A step of the environment, a fault or a restart keeps every variable typed.
LEMMA TypeOtherStep ==
    ASSUME TypeOK, WorkInProgress,
           \/ Tick
           \/ \E d \in Datagrams : Receive(d)
           \/ \E w \in Decoders : DecoderPanics(w)
           \/ Crash \/ Restart \/ BreakRaw \/ BreakDecoded
           \/ UNCHANGED vars
    PROVE  TypeOK'
<1>0. /\ raw \in Seq(Entries(Datagrams, Decoders))
      /\ dec \in Seq(Entries(Messages, MetricWorkers))
      /\ decoder \in [Decoders -> DecoderLocals]
      /\ arrival \in Seq(Datagrams)
      /\ faults \in 0..MaxFaults /\ MaxFaults \in Nat
  BY BoundsAssumption DEF TypeOK
<1>re. /\ AllRequeued(raw) \in Seq(Entries(Datagrams, Decoders))
       /\ AllRequeued(dec) \in Seq(Entries(Messages, MetricWorkers))
  BY <1>0, SettledQueue
<1>1. CASE Tick
  BY <1>1, BoundsAssumption DEF TypeOK, Tick, Buckets, network, history
<1>2. CASE \E d \in Datagrams : Receive(d)
  <2>1. PICK d \in Datagrams : Receive(d)
    BY <1>2
  <2>2. raw' \in Seq(Entries(Datagrams, Decoders))
    BY <1>0, <2>1, PublishedQueue DEF Receive
  <2>3. arrival' \in Seq(Datagrams)
    <3>1. arrival' = arrival \/ arrival' = Append(arrival, d)
      BY <2>1 DEF Receive
    <3> QED
      BY <1>0, <3>1, AppendProperties, SMTT(30)
  <2>4. seen' \subseteq Datagrams
    BY <2>1 DEF TypeOK, Receive
  <2> QED
    BY <2>1, <2>2, <2>3, <2>4 DEF TypeOK, Receive, network
<1>3. ASSUME Die, faults < MaxFaults
      PROVE  TypeOK'
  <2>1. decoder' \in [Decoders -> DecoderLocals]
    BY <1>3, LocalTypes DEF Die
  <2>2. metric' \in [MetricWorkers -> MetricLocals]
    BY <1>3, LocalTypes DEF Die
  <2>3. cache' \in [Keys -> {None} \cup CachedTemplates]
    BY <1>3 DEF Die, EmptyCache
  <2>4. faults' \in 0..MaxFaults
    BY <1>0, <1>3 DEF Die
  <2> QED
    BY <1>re, <1>3, <2>1, <2>2, <2>3, <2>4 DEF TypeOK, Die, history
<1>4. CASE Restart
  BY <1>4 DEF TypeOK, Restart, history
<1>5. CASE BreakRaw
  <2>1. faults' \in 0..MaxFaults
    BY <1>0, <1>5 DEF BreakRaw, MayFault
  <2> QED
    BY <1>re, <1>5, <2>1 DEF TypeOK, BreakRaw, history
<1>6. CASE BreakDecoded
  <2>1. faults' \in 0..MaxFaults
    BY <1>0, <1>6 DEF BreakDecoded, MayFault
  <2>2. decoder' \in [Decoders -> DecoderLocals]
    <3>1. \A l \in DecoderLocals : [l EXCEPT !.pc = "ack"] \in DecoderLocals
      BY DEF DecoderLocals
    <3>2. CASE decoder' = decoder
      BY <1>0, <3>2
    <3>3. CASE \E w \in Decoders : decoder' = [decoder EXCEPT ![w].pc = "ack"]
      BY <1>0, <3>1, <3>3
    <3> QED
      BY <1>6, <3>2, <3>3 DEF BreakDecoded
  <2>3. lost' \subseteq Datagrams
    <3>1. CASE UNCHANGED lost
      BY <3>1 DEF TypeOK
    <3>2. CASE \E w \in Decoders : /\ decoder[w].pc = "publish"
                                  /\ lost' = lost \cup {decoder[w].out.d}
      <4>1. PICK w \in Decoders : /\ decoder[w].pc = "publish"
                                  /\ lost' = lost \cup {decoder[w].out.d}
        BY <3>2
      <4>2. decoder[w].out \in Messages
        BY <4>1 DEF WorkInProgress
      <4> QED
        BY <4>1, <4>2 DEF TypeOK, Messages
    <3> QED
      BY <1>6, <3>1, <3>2 DEF BreakDecoded
  <2> QED
    BY <1>re, <1>6, <2>1, <2>2, <2>3 DEF TypeOK, BreakDecoded
<1>7. CASE UNCHANGED vars
  BY <1>7 DEF TypeOK, vars, network, history
<1> QED
  BY <1>1, <1>2, <1>3, <1>4, <1>5, <1>6, <1>7 DEF Crash, DecoderPanics, MayFault
-----------------------------------------------------------------------------
(***************************************************************************)
(* The inductive invariant.                                                *)
(***************************************************************************)

\* With prefetch 1, when a worker is given a message all workers are idle.
LEMMA TakenWhenIdle ==
    ASSUME TypeOK, IInv, Prefetch = 1
    PROVE  /\ \A w \in Decoders : TakeRaw(w) =>
                \A v \in Decoders : decoder[v].pc = "idle"
           /\ \A w \in MetricWorkers : TakeDecoded(w) =>
                \A v \in MetricWorkers : metric[v].pc = "idle"
<1>1. ASSUME NEW w \in Decoders, TakeRaw(w)
      PROVE  \A v \in Decoders : decoder[v].pc = "idle"
  <2>1. PICK i \in DOMAIN raw : MayDeliver(raw, i, 1)
    BY <1>1 DEF TakeRaw
  <2>2. \A v \in Decoders : HeldBy(raw, v) = {}
    <3>1. raw \in Seq(Entries(Datagrams, Decoders)) /\ Ready \notin Decoders
      BY WorkersAssumption DEF TypeOK
    <3> QED
      BY <2>1, <3>1, DeliverableQueue
  <2> QED
    BY <1>1, <2>2 DEF IInv, BusyHolds, TakeRaw
<1>2. ASSUME NEW w \in MetricWorkers, TakeDecoded(w)
      PROVE  \A v \in MetricWorkers : metric[v].pc = "idle"
  <2>1. PICK i \in DOMAIN dec : MayDeliver(dec, i, 1)
    BY <1>2 DEF TakeDecoded
  <2>2. \A v \in MetricWorkers : HeldBy(dec, v) = {}
    <3>1. dec \in Seq(Entries(Messages, MetricWorkers)) /\ Ready \notin MetricWorkers
      BY WorkersAssumption DEF TypeOK
    <3> QED
      BY <2>1, <3>1, DeliverableQueue
  <2> QED
    BY <1>2, <2>2 DEF IInv, BusyHolds, TakeDecoded
<1> QED
  BY <1>1, <1>2

\* Initially no worker is busy.
LEMMA InvInit == Init => IInv
BY DEF Init, IInv, WorkInProgress, DownIsIdle, BusyHolds, OneBusy, IdleDecoder,
       IdleMetric, Local
\* The workers of one kind keep their part of the invariant when those of the
\* other kind move.
DecodersOK ==
    /\ \A w \in Decoders : decoder[w].pc # "idle" => decoder[w].out \in Messages
    /\ rawConn => \A w \in Decoders : decoder[w].pc # "idle" => HeldBy(raw, w) # {}
    /\ Prefetch = 1 =>
        \A v, w \in Decoders :
            decoder[v].pc # "idle" /\ decoder[w].pc # "idle" => v = w
MetricWorkersOK ==
    /\ \A w \in MetricWorkers : metric[w].pc # "idle" => metric[w].m \in Messages
    /\ \A w \in MetricWorkers : metric[w].pc \in {"find", "set"} =>
            /\ metric[w].key \in DocumentKeys
            /\ store[metric[w].key] \in Documents
    /\ \A w \in MetricWorkers : metric[w].pc = "set" => metric[w].read \in Readings
    /\ decConn => \A w \in MetricWorkers : metric[w].pc # "idle" => HeldBy(dec, w) # {}
    /\ Prefetch = 1 =>
        \A v, w \in MetricWorkers :
            metric[v].pc # "idle" /\ metric[w].pc # "idle" => v = w

LEMMA InvParts == IInv <=> DownIsIdle /\ DecodersOK /\ MetricWorkersOK
BY DEF IInv, WorkInProgress, BusyHolds, OneBusy, DecodersOK, MetricWorkersOK

\* A step of a decoder goroutine keeps the decoders' part.
LEMMA InvDecoderStep ==
    ASSUME TypeOK, IInv, NEW w \in Decoders, TakeRaw(w) \/ DecoderStep(w)
    PROVE  DecodersOK'
<1>0. /\ decoder \in [Decoders -> DecoderLocals]
      /\ raw \in Seq(Entries(Datagrams, Decoders))
      /\ Ready \notin Decoders
  BY WorkersAssumption DEF TypeOK
<1>1. DecodersOK /\ WorkInProgress /\ BusyHolds
  BY InvParts DEF IInv
<1>2. CASE TakeRaw(w)
  <2>1. PICK i \in DOMAIN raw :
            /\ i \in ReadyEntries(raw)
            /\ raw' = Delivered(raw, i, w)
            /\ decoder' = [decoder EXCEPT ![w] =
                  [pc |-> "decode", at |-> 1, out |-> EmptyMessage(raw[i].msg)]]
    BY <1>2 DEF TakeRaw, MayDeliver
  <2>2. raw[i].msg \in Datagrams /\ HeldBy(raw', w) # {}
    BY <1>0, <2>1, DeliveredQueue
  <2>3. EmptyMessage(raw[i].msg) \in Messages
    BY <2>2 DEF EmptyMessage, Messages
  <2>4. ASSUME NEW v \in Decoders, v # w, HeldBy(raw, v) # {}
        PROVE  HeldBy(raw', v) # {}
    <3>1. PICK j \in HeldBy(raw, v) : j # i
      BY <1>0, <2>1, <2>4 DEF HeldBy, ReadyEntries
    <3> QED
      BY <1>0, <2>1, <3>1, OthersKeepTheirs
  <2>5. Prefetch = 1 => \A v \in Decoders : decoder[v].pc = "idle"
    BY <1>2, TakenWhenIdle
  <2>6. /\ decoder'[w].out \in Messages
        /\ \A v \in Decoders : v # w => decoder'[v] = decoder[v]
    BY <1>0, <2>1, <2>3
  <2>7. rawConn' = rawConn
    BY <1>2 DEF TakeRaw, network
  <2> QED
    BY <1>1, <2>2, <2>4, <2>5, <2>6, <2>7 DEF DecodersOK
<1>3. ASSUME decoder[w].pc # "idle", UNCHANGED <<raw, rawConn>>,
             decoder'[w].out \in Messages,
             \A v \in Decoders : v # w => decoder'[v] = decoder[v]
      PROVE  DecodersOK'
  BY <1>1, <1>3 DEF DecodersOK
<1>4. ASSUME decoder[w].pc # "idle", UNCHANGED rawConn,
             decoder' = [decoder EXCEPT ![w] = IdleDecoder],
             \/ raw' = raw /\ ~rawConn
             \/ raw' \in {Acked(raw, RawEntry(w)), Requeued(raw, RawEntry(w))}
      PROVE  DecodersOK'
  <2>1. /\ decoder'[w].pc = "idle"
        /\ \A v \in Decoders : v # w => decoder'[v] = decoder[v]
    BY <1>0, <1>4 DEF IdleDecoder
  <2>2. ASSUME NEW v \in Decoders, v # w, rawConn, HeldBy(raw, v) # {}
        PROVE  HeldBy(raw', v) # {}
    <3>1. RawEntry(w) \in DOMAIN raw /\ raw[RawEntry(w)].by = w
      BY <1>1, <1>4, <2>2 DEF DecodersOK, RawEntry, HeldBy
    <3>2. PICK j \in HeldBy(raw, v) : j # RawEntry(w)
      BY <2>2, <3>1 DEF HeldBy
    <3> QED
      BY <1>0, <1>4, <2>2, <3>1, <3>2, OthersKeepTheirs
  <2> QED
    BY <1>1, <1>4, <2>1, <2>2 DEF DecodersOK
<1>5. CASE RefuseShort(w)
  BY <1>4, <1>5 DEF RefuseShort, AckRaw, network
<1>6. CASE LearnTemplate(w)
  BY <1>0, <1>1, <1>3, <1>6 DEF LearnTemplate, AtFlowSet, NextSet, WorkInProgress, network
<1>7. CASE DecodeData(w)
  <2>1. PICK out \in Messages : NextSet(w, out)
    BY <1>1, <1>7, DecodedMessage
  <2>2. decoder[w].pc = "decode" /\ UNCHANGED <<raw, rawConn>>
    BY <1>1, <1>7, DecodedMessage DEF network
  <2>3. /\ decoder'[w].out \in Messages
        /\ \A v \in Decoders : v # w => decoder'[v] = decoder[v]
    BY <1>0, <2>1 DEF NextSet
  <2> QED
    BY <1>3, <2>2, <2>3
<1>8. CASE SkipSet(w)
  BY <1>0, <1>1, <1>3, <1>8 DEF SkipSet, AtFlowSet, NextSet, WorkInProgress, network
<1>9. CASE FinishDecoding(w)
  BY <1>0, <1>1, <1>3, <1>9 DEF FinishDecoding, WorkInProgress, DecoderLocals, network
<1>10. CASE PublishDecoded(w)
  BY <1>0, <1>1, <1>3, <1>10 DEF PublishDecoded, WorkInProgress, DecoderLocals, network
<1>11. CASE RequeueRaw(w)
  BY <1>4, <1>11 DEF RequeueRaw, network
<1>12. CASE SettleRaw(w)
  BY <1>4, <1>12 DEF SettleRaw, AckRaw, network
<1> QED
  BY <1>2, <1>5, <1>6, <1>7, <1>8, <1>9, <1>10, <1>11, <1>12 DEF DecoderStep

\* What a metric worker stores leaves documents where there were documents.
LEMMA DocumentsRemain ==
    ASSUME TypeOK, WorkInProgress, NEW w \in MetricWorkers, MetricStep(w)
    PROVE  \A k \in DocumentKeys : store[k] \in Documents => store'[k] \in Documents
<1>0. store \in [DocumentKeys -> {None} \cup Documents]
  BY DEF TypeOK
<1>1. CASE store' = store
  BY <1>1
<1>2. CASE IncrementCounters(w)
  <2> DEFINE key == <<Content[metric[w].m.d].src, now>>
  <2>1. store' = store \/ store' = [store EXCEPT ![key] = Counted(store[key], w)]
    BY <1>2 DEF IncrementCounters
  <2>2. metric[w].m \in Messages
    BY <1>2 DEF IncrementCounters, WorkInProgress
  <2> HIDE DEF key
  <2>3. \A k \in DocumentKeys : k = key => Counted(store[key], w) \in Documents
    BY <1>0, <2>2, CountedDocument
  <2> QED
    BY <1>0, <2>1, <2>3
<1>3. CASE SetPercentages(w)
  <2> DEFINE key == metric[w].key
             doc == [store[key] EXCEPT !.pct = metric[w].read]
  <2>1. doc \in Documents
    BY <1>3 DEF WorkInProgress, SetPercentages, Documents
  <2>2. store' = store \/ store' = [store EXCEPT ![key] = doc]
    BY <1>3 DEF SetPercentages
  <2> HIDE DEF key, doc
  <2> QED
    BY <1>0, <2>1, <2>2
<1>4. CASE NothingToCount(w) \/ ReadCounters(w) \/ SettleDecoded(w)
  BY <1>1, <1>4 DEF NothingToCount, ReadCounters, SettleDecoded
<1> QED
  BY <1>2, <1>3, <1>4 DEF MetricStep

\* A step of a metric goroutine keeps the metric workers' part.
LEMMA InvMetricStep ==
    ASSUME TypeOK, IInv, NEW w \in MetricWorkers, TakeDecoded(w) \/ MetricStep(w)
    PROVE  MetricWorkersOK'
<1>0. /\ metric \in [MetricWorkers -> MetricLocals]
      /\ dec \in Seq(Entries(Messages, MetricWorkers))
      /\ store \in [DocumentKeys -> {None} \cup Documents]
      /\ Ready \notin MetricWorkers
  BY WorkersAssumption DEF TypeOK
<1>1. MetricWorkersOK /\ WorkInProgress /\ BusyHolds
  BY InvParts DEF IInv
<1>2. CASE TakeDecoded(w)
  <2>1. PICK i \in DOMAIN dec :
            /\ i \in ReadyEntries(dec)
            /\ dec' = Delivered(dec, i, w)
            /\ metric' = [metric EXCEPT ![w] =
                  Local("inc", dec[i].msg, None, None, "ok")]
    BY <1>2 DEF TakeDecoded, MayDeliver
  <2>2. dec[i].msg \in Messages /\ HeldBy(dec', w) # {}
    BY <1>0, <2>1, DeliveredQueue
  <2>3. ASSUME NEW v \in MetricWorkers, v # w, HeldBy(dec, v) # {}
        PROVE  HeldBy(dec', v) # {}
    <3>1. PICK j \in HeldBy(dec, v) : j # i
      BY <1>0, <2>1, <2>3 DEF HeldBy, ReadyEntries
    <3> QED
      BY <1>0, <2>1, <3>1, OthersKeepTheirs
  <2>4. Prefetch = 1 => \A v \in MetricWorkers : metric[v].pc = "idle"
    BY <1>2, TakenWhenIdle
  <2>5. /\ metric'[w].pc = "inc" /\ metric'[w].m \in Messages
        /\ \A v \in MetricWorkers : v # w => metric'[v] = metric[v]
    BY <1>0, <2>1, <2>2 DEF Local
  <2>6. decConn' = decConn /\ store' = store
    BY <1>2 DEF TakeDecoded, network
  <2> QED
    BY <1>1, <2>2, <2>3, <2>4, <2>5, <2>6 DEF MetricWorkersOK
<1>3. ASSUME MetricStep(w), metric[w].pc # "idle", UNCHANGED <<dec, decConn>>,
             metric'[w].m \in Messages,
             metric'[w].pc \in {"find", "set"} =>
                metric'[w].key \in DocumentKeys /\ store'[metric'[w].key] \in Documents,
             metric'[w].pc = "set" => metric'[w].read \in Readings,
             \A v \in MetricWorkers : v # w => metric'[v] = metric[v]
      PROVE  MetricWorkersOK'
  <2>1. \A k \in DocumentKeys : store[k] \in Documents => store'[k] \in Documents
    BY <1>1, <1>3, DocumentsRemain
  <2> QED
    BY <1>1, <1>3, <2>1 DEF MetricWorkersOK
<1>4. CASE NothingToCount(w)
  <2>1. /\ metric'[w].pc = "settle" /\ metric'[w].m = metric[w].m
        /\ \A v \in MetricWorkers : v # w => metric'[v] = metric[v]
    BY <1>0, <1>4 DEF NothingToCount, MetricLocals
  <2> QED
    BY <1>1, <1>3, <1>4, <2>1 DEF NothingToCount, MetricStep, WorkInProgress, network
<1>5. CASE IncrementCounters(w)
  <2> DEFINE m == metric[w].m
             key == <<Content[m.d].src, now>>
  <2>1. /\ metric[w].pc = "inc" /\ m \in Messages /\ m.d \in Datagrams
        /\ UNCHANGED <<dec, decConn>>
    BY <1>1, <1>5 DEF IncrementCounters, WorkInProgress, Messages, network
  <2>2. key \in DocumentKeys
    BY <2>1, ContentAssumption DEF ContentRecord, TypeOK, DocumentKeys
  <2>3. PICK result \in {"ok", "refused", "timeout"} :
            /\ metric' = [metric EXCEPT ![w] =
                  Local(IF result = "ok" THEN "find" ELSE "settle", m, key, None, result)]
            /\ result # "refused" => store' = [store EXCEPT ![key] = Counted(store[key], w)]
    BY <1>5 DEF IncrementCounters
  <2>4. Counted(store[key], w) \in Documents
    BY <1>0, <2>1, <2>2, CountedDocument
  <2> HIDE DEF key
  <2>5. /\ metric'[w].m = m /\ metric'[w].key = key
        /\ metric'[w].pc = IF result = "ok" THEN "find" ELSE "settle"
        /\ \A v \in MetricWorkers : v # w => metric'[v] = metric[v]
    BY <1>0, <2>3 DEF Local
  <2>6. result = "ok" => store'[key] \in Documents
    BY <1>0, <2>2, <2>3, <2>4
  <2> QED
    BY <1>3, <1>5, <2>1, <2>2, <2>5, <2>6 DEF MetricStep
<1>6. CASE ReadCounters(w)
  <2> DEFINE key == metric[w].key
             read == <<store[key].v4, store[key].v6>>
  <2>1. /\ metric[w].pc = "find" /\ metric[w].m \in Messages
        /\ key \in DocumentKeys /\ store[key] \in Documents
        /\ UNCHANGED <<dec, decConn, store>>
    BY <1>1, <1>6 DEF ReadCounters, WorkInProgress, network
  <2>2. read \in Readings
    BY <2>1 DEF Documents, Readings
  <2>3. \/ metric' = [metric EXCEPT ![w] = Local("set", metric[w].m, key, read, "ok")]
        \/ metric' = [metric EXCEPT ![w].pc = "settle"]
    BY <1>6 DEF ReadCounters
  <2> HIDE DEF key, read
  <2>4. \A v \in MetricWorkers : v # w => metric'[v] = metric[v]
    BY <1>0, <2>3
  <2>5. CASE metric' = [metric EXCEPT ![w] = Local("set", metric[w].m, key, read, "ok")]
    <3>1. /\ metric'[w].m = metric[w].m /\ metric'[w].key = key
          /\ metric'[w].read = read
      BY <1>0, <2>5 DEF Local
    <3> QED
      BY <1>3, <1>6, <2>1, <2>2, <2>4, <3>1 DEF MetricStep
  <2>6. CASE metric' = [metric EXCEPT ![w].pc = "settle"]
    <3>1. metric'[w].m = metric[w].m /\ metric'[w].pc = "settle"
      BY <1>0, <2>6 DEF MetricLocals
    <3> QED
      BY <1>3, <1>6, <2>1, <2>4, <3>1 DEF MetricStep
  <2> QED
    BY <2>3, <2>5, <2>6
<1>7. CASE SetPercentages(w)
  <2>1. /\ metric'[w].pc = "settle" /\ metric'[w].m = metric[w].m
        /\ \A v \in MetricWorkers : v # w => metric'[v] = metric[v]
    BY <1>0, <1>7 DEF SetPercentages, MetricLocals
  <2>2. metric[w].pc = "set" /\ metric[w].m \in Messages /\ UNCHANGED <<dec, decConn>>
    BY <1>1, <1>7 DEF SetPercentages, WorkInProgress, network
  <2> QED
    BY <1>3, <1>7, <2>1, <2>2 DEF MetricStep
<1>8. CASE SettleDecoded(w)
  <2>1. /\ metric'[w].pc = "idle"
        /\ \A v \in MetricWorkers : v # w => metric'[v] = metric[v]
    BY <1>0, <1>8 DEF SettleDecoded, IdleMetric, Local
  <2>2. metric[w].pc = "settle" /\ store' = store /\ decConn' = decConn
    BY <1>8 DEF SettleDecoded, network
  <2>3. ASSUME NEW v \in MetricWorkers, v # w, decConn, HeldBy(dec, v) # {}
        PROVE  HeldBy(dec', v) # {}
    <3>1. DecEntry(w) \in DOMAIN dec /\ dec[DecEntry(w)].by = w
      BY <1>1, <2>2, <2>3 DEF MetricWorkersOK, DecEntry, HeldBy
    <3>2. PICK j \in HeldBy(dec, v) : j # DecEntry(w)
      BY <2>3, <3>1 DEF HeldBy
    <3>3. dec' \in {Acked(dec, DecEntry(w)), Requeued(dec, DecEntry(w))}
      BY <1>8, <2>3 DEF SettleDecoded
    <3> QED
      BY <1>0, <3>1, <3>2, <3>3, OthersKeepTheirs
  <2> QED
    BY <1>1, <2>1, <2>2, <2>3 DEF MetricWorkersOK
<1> QED
  BY <1>2, <1>4, <1>5, <1>6, <1>7, <1>8 DEF MetricStep

\* A decoder step does not touch what the metric workers hold, and the reverse.
LEMMA InvFrames ==
    ASSUME TypeOK, IInv
    PROVE  /\ \A w \in Decoders : TakeRaw(w) \/ DecoderStep(w) => MetricWorkersOK'
           /\ \A w \in MetricWorkers : TakeDecoded(w) \/ MetricStep(w) => DecodersOK'
<1>1. DecodersOK /\ MetricWorkersOK /\ WorkInProgress /\ BusyHolds
  BY InvParts DEF IInv
<1>2. ASSUME NEW w \in Decoders, TakeRaw(w) \/ DecoderStep(w)
      PROVE  MetricWorkersOK'
  <2>1. CASE UNCHANGED <<dec, metric, store, decConn>>
    BY <1>1, <2>1 DEF MetricWorkersOK
  <2>2. CASE PublishDecoded(w)
    <3>1. decoder[w].out \in Messages /\ dec \in Seq(Entries(Messages, MetricWorkers))
      BY <1>1, <2>2 DEF PublishDecoded, WorkInProgress, TypeOK
    <3>2. \A v \in MetricWorkers : HeldBy(dec, v) \subseteq HeldBy(dec', v)
      BY <2>2, <3>1, PublishedQueue DEF PublishDecoded
    <3>3. UNCHANGED <<metric, store, decConn>>
      BY <2>2 DEF PublishDecoded, network
    <3> QED
      BY <1>1, <3>2, <3>3 DEF MetricWorkersOK
  <2>3. CASE DecodeData(w)
    BY <1>1, <2>1, <2>3, DecodedMessage DEF network
  <2>4. CASE \/ TakeRaw(w) \/ RefuseShort(w) \/ LearnTemplate(w) \/ SkipSet(w)
             \/ FinishDecoding(w) \/ RequeueRaw(w) \/ SettleRaw(w)
    BY <2>1, <2>4 DEF TakeRaw, RefuseShort, LearnTemplate, SkipSet, FinishDecoding,
                      RequeueRaw, SettleRaw, network
  <2> QED
    BY <1>2, <2>2, <2>3, <2>4 DEF DecoderStep
<1>3. ASSUME NEW w \in MetricWorkers, TakeDecoded(w) \/ MetricStep(w)
      PROVE  DecodersOK'
  <2>1. UNCHANGED <<raw, decoder, rawConn>>
    BY <1>3 DEF TakeDecoded, MetricStep, NothingToCount, IncrementCounters, ReadCounters,
                SetPercentages, SettleDecoded, network
  <2> QED
    BY <1>1, <2>1 DEF DecodersOK
<1> QED
  BY <1>2, <1>3

\* Workers run in a live process only, and do not end it.
LEMMA InvUp ==
    ASSUME TypeOK, IInv,
           \/ \E w \in Decoders : TakeRaw(w) \/ DecoderStep(w)
           \/ \E w \in MetricWorkers : TakeDecoded(w) \/ MetricStep(w)
    PROVE  DownIsIdle'
<1>1. DownIsIdle /\ up \in BOOLEAN /\ WorkInProgress
  BY DEF IInv, TypeOK
<1>2. up' = up
  <2>1. CASE \E w \in Decoders : DecodeData(w)
    BY <1>1, <2>1, DecodedMessage DEF network
  <2>2. CASE \E w \in Decoders :
               \/ TakeRaw(w) \/ RefuseShort(w) \/ LearnTemplate(w) \/ SkipSet(w)
               \/ FinishDecoding(w) \/ PublishDecoded(w) \/ RequeueRaw(w) \/ SettleRaw(w)
    BY <2>2 DEF TakeRaw, RefuseShort, LearnTemplate, SkipSet, FinishDecoding,
                PublishDecoded, RequeueRaw, SettleRaw, network
  <2>3. CASE \E w \in MetricWorkers : TakeDecoded(w) \/ MetricStep(w)
    BY <2>3 DEF TakeDecoded, MetricStep, NothingToCount, IncrementCounters,
                ReadCounters, SetPercentages, SettleDecoded, network
  <2> QED
    BY <2>1, <2>2, <2>3 DEF DecoderStep
<1>3. up
  <2>1. CASE \E w \in Decoders : TakeRaw(w)
    BY <2>1 DEF TakeRaw
  <2>2. CASE \E w \in Decoders : DecoderStep(w)
    <3>1. PICK w \in Decoders : DecoderStep(w)
      BY <2>2
    <3>2. decoder[w].pc # "idle"
      BY <3>1 DEF DecoderStep, RefuseShort, LearnTemplate, DecodeData, SkipSet, AtFlowSet,
                  FinishDecoding, PublishDecoded, RequeueRaw, SettleRaw
    <3> QED
      BY <1>1, <3>2 DEF DownIsIdle
  <2>3. CASE \E w \in MetricWorkers : TakeDecoded(w)
    BY <2>3 DEF TakeDecoded
  <2>4. CASE \E w \in MetricWorkers : MetricStep(w)
    <3>1. PICK w \in MetricWorkers : MetricStep(w)
      BY <2>4
    <3>2. metric[w].pc # "idle"
      BY <3>1 DEF MetricStep, NothingToCount, IncrementCounters, ReadCounters,
                  SetPercentages, SettleDecoded
    <3> QED
      BY <1>1, <3>2 DEF DownIsIdle
  <2> QED
    BY <2>1, <2>2, <2>3, <2>4
<1> QED
  BY <1>2, <1>3 DEF DownIsIdle

\* A step of the environment, a fault or a restart keeps the invariant.
LEMMA InvOtherStep ==
    ASSUME TypeOK, IInv,
           \/ Tick
           \/ \E d \in Datagrams : Receive(d)
           \/ \E w \in Decoders : DecoderPanics(w)
           \/ Crash \/ Restart \/ BreakRaw \/ BreakDecoded
           \/ UNCHANGED vars
    PROVE  IInv'
<1>0. /\ raw \in Seq(Entries(Datagrams, Decoders))
      /\ decoder \in [Decoders -> DecoderLocals]
  BY DEF TypeOK
<1>1. DownIsIdle /\ DecodersOK /\ MetricWorkersOK
  BY InvParts
<1>frame. ASSUME UNCHANGED <<decoder, metric, store, dec, network>>,
                 \A v \in Decoders : HeldBy(raw, v) # {} => HeldBy(raw', v) # {}
          PROVE  IInv'
  <2>1. UNCHANGED <<up, rawConn, decConn>>
    BY <1>frame DEF network
  <2>2. DownIsIdle'
    BY <1>1, <1>frame, <2>1 DEF DownIsIdle
  <2>3. DecodersOK'
    BY <1>1, <1>frame, <2>1 DEF DecodersOK
  <2>4. MetricWorkersOK'
    BY <1>1, <1>frame, <2>1 DEF MetricWorkersOK
  <2> QED
    BY <2>2, <2>3, <2>4 DEF IInv, WorkInProgress, BusyHolds, OneBusy, DecodersOK,
                            MetricWorkersOK
<1>2. CASE UNCHANGED vars \/ Tick
  BY <1>2, <1>frame DEF vars, Tick, network
<1>3. CASE \E d \in Datagrams : Receive(d)
  <2>1. PICK d \in Datagrams : Receive(d)
    BY <1>3
  <2>2. \A v \in Decoders : HeldBy(raw, v) # {} => HeldBy(raw', v) # {}
    <3>1. raw' = raw \/ raw' = Published(raw, d)
      BY <2>1 DEF Receive
    <3>2. \A v \in Decoders : HeldBy(raw, v) \subseteq HeldBy(Published(raw, d), v)
      BY <1>0, PublishedQueue
    <3> QED
      BY <3>1, <3>2
  <2> QED
    BY <2>1, <2>2, <1>frame DEF Receive
<1>4. ASSUME Die
      PROVE  IInv'
  BY <1>4 DEF Die, IInv, WorkInProgress, DownIsIdle, BusyHolds, OneBusy, IdleDecoder,
              IdleMetric, Local
<1>5. CASE Restart
  <2>1. /\ \A w \in Decoders : decoder'[w].pc = "idle"
        /\ \A w \in MetricWorkers : metric'[w].pc = "idle"
        /\ up'
    BY <1>1, <1>5 DEF Restart, DownIsIdle
  <2> QED
    BY <2>1 DEF IInv, WorkInProgress, DownIsIdle, BusyHolds, OneBusy
<1>6. CASE BreakRaw
  <2>1. UNCHANGED <<decoder, metric, store, dec, up, decConn>> /\ ~rawConn'
    BY <1>6 DEF BreakRaw
  <2>2. DownIsIdle' /\ DecodersOK' /\ MetricWorkersOK'
    BY <1>1, <2>1 DEF DownIsIdle, DecodersOK, MetricWorkersOK
  <2> QED
    BY <2>2 DEF IInv, WorkInProgress, BusyHolds, OneBusy, DecodersOK,
                            MetricWorkersOK
<1>7. CASE BreakDecoded
  <2>1. \A v \in Decoders :
            /\ decoder'[v].pc = "idle" <=> decoder[v].pc = "idle"
            /\ decoder'[v].out = decoder[v].out
    BY <1>0, <1>7 DEF BreakDecoded, DecoderLocals
  <2>2. UNCHANGED <<raw, rawConn, metric, store, up>> /\ ~decConn'
    BY <1>7 DEF BreakDecoded
  <2>3. DownIsIdle' /\ DecodersOK' /\ MetricWorkersOK'
    BY <1>1, <2>1, <2>2 DEF DownIsIdle, DecodersOK, MetricWorkersOK
  <2> QED
    BY <2>3 DEF IInv, WorkInProgress, BusyHolds, OneBusy, DecodersOK,
                            MetricWorkersOK
<1> QED
  BY <1>2, <1>3, <1>4, <1>5, <1>6, <1>7 DEF Crash, DecoderPanics

\* Every step keeps the type invariant and the strengthening.
LEMMA Inductive == TypeOK /\ IInv /\ [Next]_vars => TypeOK' /\ IInv'
<1> SUFFICES ASSUME TypeOK, IInv, [Next]_vars
             PROVE  TypeOK' /\ IInv'
  OBVIOUS
<1>1. WorkInProgress /\ BusyHolds
  BY DEF IInv
<1>2. CASE \E w \in Decoders : TakeRaw(w) \/ DecoderStep(w)
  <2>1. TypeOK'
    BY <1>1, <1>2, TypeDecoderStep
  <2>2. DownIsIdle' /\ DecodersOK' /\ MetricWorkersOK'
    BY <1>2, InvUp, InvDecoderStep, InvFrames
  <2> QED
    BY <2>1, <2>2 DEF IInv, WorkInProgress, BusyHolds, OneBusy, DecodersOK, MetricWorkersOK
<1>3. CASE \E w \in MetricWorkers : TakeDecoded(w) \/ MetricStep(w)
  <2>1. TypeOK'
    BY <1>1, <1>3, TypeMetricStep
  <2>2. DownIsIdle' /\ DecodersOK' /\ MetricWorkersOK'
    BY <1>3, InvUp, InvMetricStep, InvFrames
  <2> QED
    BY <2>1, <2>2 DEF IInv, WorkInProgress, BusyHolds, OneBusy, DecodersOK, MetricWorkersOK
<1>4. CASE \/ Tick
           \/ \E d \in Datagrams : Receive(d)
           \/ \E w \in Decoders : DecoderPanics(w)
           \/ Crash \/ Restart \/ BreakRaw \/ BreakDecoded
           \/ UNCHANGED vars
  BY <1>1, <1>4, TypeOtherStep, InvOtherStep
<1> QED
  BY <1>2, <1>3, <1>4 DEF Next
-----------------------------------------------------------------------------
(***************************************************************************)
(* The stored percentages.                                                 *)
(***************************************************************************)

\* Steps that touch neither the documents nor the metric workers, or leave every
\* metric worker idle, keep the percentages as they are.
LEMMA PercentagesFrame ==
    ASSUME TypeOK, PercentagesCurrent, PercentagesFresh, store' = store,
           \/ UNCHANGED <<metric, faults>>
           \/ metric' = metric /\ faults' # 0
           \/ faults' # 0 /\ \A w \in MetricWorkers : metric'[w].pc = "idle"
    PROVE  PercentagesCurrent' /\ PercentagesFresh'
BY DEF PercentagesCurrent, PercentagesFresh

\* With prefetch 1 no other worker is between the counters and their percentages.
LEMMA PercentagesMetricStep ==
    ASSUME TypeOK, IInv, PercentagesCurrent, PercentagesFresh,
           NEW w \in MetricWorkers, TakeDecoded(w) \/ MetricStep(w)
    PROVE  PercentagesCurrent' /\ PercentagesFresh'
<1>0. /\ metric \in [MetricWorkers -> MetricLocals]
      /\ store \in [DocumentKeys -> {None} \cup Documents]
      /\ faults \in Nat
  BY BoundsAssumption DEF TypeOK
<1>1. OneBusy /\ WorkInProgress
  BY DEF IInv
<1>2. SUFFICES ASSUME Prefetch = 1
               PROVE  PercentagesCurrent' /\ PercentagesFresh'
  BY DEF PercentagesCurrent, PercentagesFresh
<1>3. CASE TakeDecoded(w)
  <2>1. metric[w].pc = "idle" /\ UNCHANGED <<store, faults>>
    BY <1>3 DEF TakeDecoded
  <2>2. /\ metric'[w].pc = "inc"
        /\ \A v \in MetricWorkers : v # w => metric'[v] = metric[v]
    BY <1>0, <1>3 DEF TakeDecoded, Local
  <2> QED
    BY <2>1, <2>2 DEF PercentagesCurrent, PercentagesFresh
<1>4. ASSUME metric[w].pc # "idle",
             \A v \in MetricWorkers : v # w => metric'[v] = metric[v]
      PROVE  \A v \in MetricWorkers :
                v # w => metric[v].pc = "idle" /\ metric'[v].pc = "idle"
  BY <1>1, <1>2, <1>4 DEF OneBusy
<1>5. CASE NothingToCount(w) \/ SettleDecoded(w)
  <2>1. /\ metric[w].pc \in {"inc", "settle"} /\ UNCHANGED <<store, faults>>
        /\ metric'[w].pc \in {"settle", "idle"}
        /\ \A v \in MetricWorkers : v # w => metric'[v] = metric[v]
    BY <1>0, <1>5 DEF NothingToCount, SettleDecoded, MetricLocals, IdleMetric, Local
  <2> QED
    BY <2>1 DEF PercentagesCurrent, PercentagesFresh
<1>6. CASE IncrementCounters(w)
  <2> DEFINE m == metric[w].m
             key == <<Content[m.d].src, now>>
  <2>1. PICK result \in {"ok", "refused", "timeout"} :
            /\ metric' = [metric EXCEPT ![w] =
                  Local(IF result = "ok" THEN "find" ELSE "settle", m, key, None, result)]
            /\ faults' = IF result = "ok" THEN faults ELSE faults + 1
            /\ result # "refused" => store' = [store EXCEPT ![key] = Counted(store[key], w)]
    BY <1>6 DEF IncrementCounters
  <2> HIDE DEF key
  <2>2. /\ metric'[w].pc = IF result = "ok" THEN "find" ELSE "settle"
        /\ metric'[w].key = key
        /\ \A v \in MetricWorkers : v # w => metric'[v] = metric[v]
    BY <1>0, <2>1 DEF Local
  <2>3. metric[w].pc = "inc"
    BY <1>6 DEF IncrementCounters
  <2>4. \A v \in MetricWorkers : metric'[v].pc # "set"
    BY <1>4, <2>2, <2>3
  <2>5. \A k \in DocumentKeys : k # key /\ result = "ok" => store'[k] = store[k]
    BY <1>0, <2>1
  <2>6. faults' = 0 => result = "ok" /\ faults = 0
    BY <1>0, <2>1
  <2>7. PercentagesCurrent'
    BY <2>4 DEF PercentagesCurrent
  <2>8. \A v \in MetricWorkers : metric[v].pc \notin {"find", "set"}
    BY <1>4, <2>2, <2>3
  <2>9. PercentagesFresh'
    BY <2>2, <2>5, <2>6, <2>8 DEF PercentagesFresh
  <2> QED
    BY <2>7, <2>9
<1>7. CASE ReadCounters(w)
  <2> DEFINE key == metric[w].key
             read == <<store[key].v4, store[key].v6>>
  <2>1. /\ metric[w].pc = "find" /\ store' = store
        /\ \/ /\ metric' = [metric EXCEPT ![w] = Local("set", metric[w].m, key, read, "ok")]
              /\ faults' = faults
           \/ /\ metric' = [metric EXCEPT ![w].pc = "settle"]
              /\ faults' = faults + 1
    BY <1>7 DEF ReadCounters
  <2>2. CASE metric' = [metric EXCEPT ![w] = Local("set", metric[w].m, key, read, "ok")]
             /\ faults' = faults
    <3>1. /\ metric'[w].pc = "set" /\ metric'[w].key = metric[w].key
          /\ metric'[w].read = <<store[metric[w].key].v4, store[metric[w].key].v6>>
          /\ \A v \in MetricWorkers : v # w => metric'[v] = metric[v]
      BY <1>0, <2>2 DEF Local
    <3> HIDE DEF key, read
    <3>2. PercentagesCurrent'
      BY <2>1, <3>1 DEF PercentagesCurrent
    <3>3. faults' = faults /\ store' = store
      BY <2>1, <2>2
    <3>4. PercentagesFresh'
      BY <3>1, <3>3 DEF PercentagesFresh
    <3> QED
      BY <3>2, <3>4
  <2>3. CASE metric' = [metric EXCEPT ![w].pc = "settle"] /\ faults' = faults + 1
    <3>1. /\ metric'[w].pc = "settle" /\ faults' # 0
          /\ \A v \in MetricWorkers : v # w => metric'[v] = metric[v]
      BY <1>0, <2>3 DEF MetricLocals
    <3> QED
      BY <2>1, <3>1 DEF PercentagesCurrent, PercentagesFresh
  <2> QED
    BY <2>1, <2>2, <2>3
<1>8. CASE SetPercentages(w)
  <2> DEFINE key == metric[w].key
             doc == [store[key] EXCEPT !.pct = metric[w].read]
  <2>1. /\ metric[w].pc = "set" /\ key \in DocumentKeys /\ store[key] \in Documents
        /\ \/ store' = [store EXCEPT ![key] = doc] /\ faults' = faults
           \/ store' = store /\ faults' = faults + 1
    BY <1>1, <1>8 DEF SetPercentages, WorkInProgress
  <2>2. /\ doc.v4 = store[key].v4 /\ doc.v6 = store[key].v6 /\ doc.pct = metric[w].read
    BY <2>1 DEF Documents
  <2>3. metric[w].read = <<store[key].v4, store[key].v6>>
    BY <1>2, <2>1 DEF PercentagesCurrent
  <2>4. /\ metric'[w].pc = "settle"
        /\ \A v \in MetricWorkers : v # w => metric'[v] = metric[v]
    BY <1>0, <1>8 DEF SetPercentages, MetricLocals
  <2>5. \A v \in MetricWorkers : metric'[v].pc # "set"
    BY <1>4, <2>1, <2>4
  <2>6. \A v \in MetricWorkers : v # w => metric[v].pc = "idle"
    BY <1>4, <2>1, <2>4
  <2> HIDE DEF doc
  <2>7. faults' = 0 => /\ faults = 0
                       /\ store'[key] = doc
                       /\ \A k \in DocumentKeys : k # key => store'[k] = store[k]
    BY <1>0, <2>1
  <2>8. PercentagesCurrent'
    BY <2>5 DEF PercentagesCurrent
  <2>9. ASSUME faults' = 0, NEW k \in DocumentKeys
        PROVE  store'[k] = None \/ store'[k].pct = <<store'[k].v4, store'[k].v6>>
    <3>1. CASE k = key
      BY <2>2, <2>3, <2>7, <2>9, <3>1
    <3>2. CASE k # key
      BY <1>2, <2>6, <2>7, <2>9, <3>2 DEF PercentagesFresh
    <3> QED
      BY <3>1, <3>2
  <2> QED
    BY <2>8, <2>9 DEF PercentagesFresh
<1> QED
  BY <1>3, <1>5, <1>6, <1>7, <1>8 DEF MetricStep

\* Every step keeps the percentages current and fresh.
LEMMA PercentagesStep ==
    TypeOK /\ IInv /\ PercentagesCurrent /\ PercentagesFresh /\ [Next]_vars
        => PercentagesCurrent' /\ PercentagesFresh'
<1> SUFFICES ASSUME TypeOK, IInv, PercentagesCurrent, PercentagesFresh, [Next]_vars
             PROVE  PercentagesCurrent' /\ PercentagesFresh'
  OBVIOUS
<1>0. faults \in Nat /\ WorkInProgress
  BY BoundsAssumption DEF TypeOK, IInv
<1>1. CASE \E w \in MetricWorkers : TakeDecoded(w) \/ MetricStep(w)
  BY <1>1, PercentagesMetricStep
<1>2. CASE \E w \in Decoders : TakeRaw(w) \/ DecoderStep(w)
  <2>1. PICK w \in Decoders : TakeRaw(w) \/ DecoderStep(w)
    BY <1>2
  <2>2. CASE DecodeData(w)
    BY <1>0, <2>2, DecodedMessage, PercentagesFrame
  <2>3. CASE \/ TakeRaw(w) \/ RefuseShort(w) \/ LearnTemplate(w) \/ SkipSet(w)
             \/ FinishDecoding(w) \/ PublishDecoded(w) \/ RequeueRaw(w) \/ SettleRaw(w)
    BY <2>3, PercentagesFrame
       DEF TakeRaw, RefuseShort, LearnTemplate, SkipSet, FinishDecoding,
           PublishDecoded, RequeueRaw, SettleRaw
  <2> QED
    BY <2>1, <2>2, <2>3 DEF DecoderStep
<1>3. CASE Tick \/ (\E d \in Datagrams : Receive(d)) \/ Restart \/ UNCHANGED vars
  BY <1>3, PercentagesFrame DEF Tick, Receive, Restart, vars
<1>4. CASE Crash \/ \E w \in Decoders : DecoderPanics(w)
  <2>1. Die
    BY <1>4 DEF Crash, DecoderPanics
  <2>2. /\ store' = store /\ faults' # 0
        /\ \A w \in MetricWorkers : metric'[w].pc = "idle"
    BY <1>0, <2>1 DEF Die, IdleMetric, Local
  <2> QED
    BY <2>2, PercentagesFrame
<1>5. CASE BreakRaw \/ BreakDecoded
  <2>1. store' = store /\ metric' = metric /\ faults' # 0
    BY <1>0, <1>5 DEF BreakRaw, BreakDecoded
  <2> QED
    BY <2>1, PercentagesFrame
<1> QED
  BY <1>1, <1>2, <1>3, <1>4, <1>5 DEF Next
-----------------------------------------------------------------------------
(***************************************************************************)
(* The theorems.                                                           *)
(***************************************************************************)

\* Type correctness: in every reachable state each variable holds a value of its
\* kind, and the strengthening of the proofs holds.
THEOREM TypeCorrect == Spec => []TypeOK /\ []IInv
<1>1. Init => TypeOK /\ IInv
  BY TypeInit, InvInit
<1> QED
  BY <1>1, Inductive, PTL DEF Spec

\* The prefetch limit of one protects the unlocked template cache: with any number
\* of decoder goroutines, whatever crashes, panics and broken connections there
\* are, two of them never run DecodeIPFIX at the same time.
THEOREM DecodersNeverRace == Spec => []DecodersExclusive
<1>1. IInv => DecodersExclusive
  BY DEF IInv, OneBusy, DecodersExclusive
<1> QED
  BY <1>1, TypeCorrect, PTL

\* updatePercentages never writes percentages of counters that have moved on, and
\* without faults no document nobody is updating shows any but its own.
THEOREM PercentagesAccurate == Spec => []PercentagesCurrent /\ []PercentagesFresh
<1>1. Init => PercentagesCurrent /\ PercentagesFresh
  <2>1. Init => \A k \in DocumentKeys : store[k] = None
    BY DEF Init, DocumentKeys
  <2>2. Init => \A w \in MetricWorkers : metric[w].pc = "idle"
    BY DEF Init, IdleMetric, Local
  <2> QED
    BY <2>1, <2>2 DEF PercentagesCurrent, PercentagesFresh
<1> QED
  BY <1>1, PercentagesStep, TypeCorrect, PTL DEF Spec

\* The same, of the documents alone: until something fails, one that nobody is updating
\* shows the percentages of its own counters.
THEOREM SettledPercentages == Spec => []PercentagesFresh
BY PercentagesAccurate, PTL
-----------------------------------------------------------------------------
(***************************************************************************)
(* What the queue operators do with the messages and their holders.        *)
(***************************************************************************)

\* An acknowledged entry is gone, the ones behind it move up.
Place(k, i) == IF k < i THEN k ELSE k + 1

LEMMA AckedEntries ==
    ASSUME NEW M, NEW W, NEW q \in Seq(Entries(M, W)), NEW i \in DOMAIN q
    PROVE  /\ DOMAIN q = 1..Len(q) /\ Len(q) \in Nat
           /\ DOMAIN Acked(q, i) = 1..(Len(q) - 1)
           /\ \A k \in 1..(Len(q) - 1) :
                Place(k, i) \in DOMAIN q \ {i} /\ Acked(q, i)[k] = q[Place(k, i)]
           /\ \A j \in DOMAIN q \ {i} :
                \E k \in 1..(Len(q) - 1) : Acked(q, i)[k] = q[j]
<1> DEFINE left == SubSeq(q, 1, i - 1)
           right == SubSeq(q, i + 1, Len(q))
           r == left \o right
<1>1. /\ DOMAIN q = 1..Len(q) /\ Len(q) \in Nat /\ i \in 1..Len(q)
      /\ \A k \in 1..Len(q) : q[k] \in Entries(M, W)
  BY LenProperties, ElementOfSeq
<1>2. /\ left \in Seq(Entries(M, W)) /\ Len(left) = i - 1
      /\ \A k \in 1..(i - 1) : left[k] = q[k]
  BY <1>1, SubSeqProperties
<1>3. /\ right \in Seq(Entries(M, W)) /\ Len(right) = Len(q) - i
      /\ \A k \in 1..(Len(q) - i) : right[k] = q[i + k]
  BY <1>1, SubSeqProperties
<1> HIDE DEF left, right
<1>4. /\ r \in Seq(Entries(M, W))
      /\ Len(r) = Len(left) + Len(right)
      /\ \A k \in 1..(Len(left) + Len(right)) :
            r[k] = IF k <= Len(left) THEN left[k] ELSE right[k - Len(left)]
  BY <1>2, <1>3, ConcatProperties
<1>5. Len(left) + Len(right) = Len(q) - 1
  BY <1>1, <1>2, <1>3
<1>6. DOMAIN r = 1..(Len(q) - 1)
  BY <1>4, <1>5, LenProperties
<1> HIDE DEF r
<1>7. ASSUME NEW k \in 1..(Len(q) - 1)
      PROVE  Place(k, i) \in DOMAIN q \ {i} /\ r[k] = q[Place(k, i)]
  <2>1. CASE k < i
    <3>1. k \in 1..(i - 1) /\ k <= Len(left) /\ k \in DOMAIN q \ {i}
      BY <1>1, <1>2, <2>1
    <3> QED
      BY <1>2, <1>4, <1>5, <2>1, <3>1 DEF Place
  <2>2. CASE ~(k < i)
    <3>1. /\ ~(k <= Len(left)) /\ k - Len(left) = k - i + 1
          /\ k - i + 1 \in 1..(Len(q) - i) /\ i + (k - i + 1) = k + 1
          /\ k + 1 \in DOMAIN q \ {i}
      BY <1>1, <1>2, <2>2
    <3> QED
      BY <1>3, <1>4, <1>5, <2>2, <3>1 DEF Place
  <2> QED
    BY <2>1, <2>2
<1>8. ASSUME NEW j \in DOMAIN q \ {i}
      PROVE  \E k \in 1..(Len(q) - 1) : r[k] = q[j]
  <2>1. CASE j < i
    <3>1. j \in 1..(Len(q) - 1) /\ Place(j, i) = j
      BY <1>1, <2>1 DEF Place
    <3> QED
      BY <1>7, <3>1
  <2>2. CASE j > i
    <3>1. j - 1 \in 1..(Len(q) - 1) /\ Place(j - 1, i) = j
      BY <1>1, <2>2 DEF Place
    <3> QED
      BY <1>7, <3>1
  <2> QED
    BY <1>1, <2>1, <2>2
<1>9. Acked(q, i) = r
  BY DEF Acked, RemoveAt, r, left, right
<1> QED
  BY <1>1, <1>6, <1>7, <1>8, <1>9

\* Publishing adds a message, acknowledging takes no other away, nothing else changes
\* what a queue holds.
LEMMA MessagesAfter ==
    ASSUME NEW M, NEW W, NEW q \in Seq(Entries(M, W))
    PROVE  /\ \A m \in M : MessagesIn(Published(q, m)) = MessagesIn(q) \cup {m}
           /\ MessagesIn(AllRequeued(q)) = MessagesIn(q)
           /\ \A i \in DOMAIN q :
                /\ MessagesIn(Requeued(q, i)) = MessagesIn(q)
                /\ \A w : MessagesIn(Delivered(q, i, w)) = MessagesIn(q)
                /\ MessagesIn(Acked(q, i)) \subseteq MessagesIn(q)
                /\ MessagesIn(q) \subseteq MessagesIn(Acked(q, i)) \cup {q[i].msg}
<1>1. /\ DOMAIN q = 1..Len(q) /\ Len(q) \in Nat
      /\ \A k \in 1..Len(q) : q[k] \in Entries(M, W)
  BY LenProperties, ElementOfSeq
<1>2. ASSUME NEW m \in M
      PROVE  MessagesIn(Published(q, m)) = MessagesIn(q) \cup {m}
  <2> DEFINE e == [msg |-> m, by |-> Ready]
             r == Append(q, e)
  <2>1. e \in Entries(M, W) /\ e.msg = m
    BY DEF Entries
  <2> HIDE DEF e
  <2>2. /\ r \in Seq(Entries(M, W)) /\ Len(r) = Len(q) + 1
        /\ \A i \in 1..Len(q) : r[i] = q[i]
        /\ r[Len(q) + 1] = e
    BY <2>1, AppendProperties
  <2>3. DOMAIN r = 1..(Len(q) + 1)
    BY <2>2, LenProperties
  <2> HIDE DEF r
  <2>4. DOMAIN r = DOMAIN q \cup {Len(q) + 1}
    BY <1>1, <2>3
  <2>5. MessagesIn(r) = MessagesIn(q) \cup {m}
    BY <1>1, <2>1, <2>2, <2>4 DEF MessagesIn
  <2> QED
    BY <2>5 DEF r, e, Published
<1>3. MessagesIn(AllRequeued(q)) = MessagesIn(q)
  <2>1. \A k \in DOMAIN q : [q[k] EXCEPT !.by = Ready].msg = q[k].msg
    BY <1>1 DEF Entries
  <2> QED
    BY <2>1 DEF MessagesIn, AllRequeued
<1>4. ASSUME NEW i \in DOMAIN q, NEW w
      PROVE  MessagesIn([q EXCEPT ![i] = [q[i] EXCEPT !.by = w]]) = MessagesIn(q)
  <2> DEFINE e == [q[i] EXCEPT !.by = w]
             r == [q EXCEPT ![i] = e]
  <2>1. e.msg = q[i].msg
    BY <1>1 DEF Entries
  <2> HIDE DEF e
  <2>2. DOMAIN r = DOMAIN q /\ \A k \in DOMAIN q : r[k].msg = q[k].msg
    BY <2>1
  <2> HIDE DEF r
  <2>3. MessagesIn(r) = MessagesIn(q)
    BY <2>2 DEF MessagesIn
  <2> QED
    BY <2>3 DEF r, e
<1>5. ASSUME NEW i \in DOMAIN q
      PROVE  /\ MessagesIn(Acked(q, i)) \subseteq MessagesIn(q)
             /\ MessagesIn(q) \subseteq MessagesIn(Acked(q, i)) \cup {q[i].msg}
  <2> DEFINE r == Acked(q, i)
  <2>0. /\ DOMAIN r = 1..(Len(q) - 1)
        /\ \A k \in 1..(Len(q) - 1) : Place(k, i) \in DOMAIN q \ {i} /\ r[k] = q[Place(k, i)]
        /\ \A j \in DOMAIN q \ {i} : \E k \in 1..(Len(q) - 1) : r[k] = q[j]
    BY AckedEntries
  <2> HIDE DEF r
  <2>1. /\ \A k \in DOMAIN r : \E j \in DOMAIN q : r[k] = q[j]
        /\ \A j \in DOMAIN q \ {i} : \E k \in DOMAIN r : r[k] = q[j]
    BY <2>0
  <2>2. MessagesIn(r) \subseteq MessagesIn(q)
    BY <2>1 DEF MessagesIn
  <2>3. MessagesIn(q) \subseteq MessagesIn(r) \cup {q[i].msg}
    BY <2>1 DEF MessagesIn
  <2> QED
    BY <2>2, <2>3 DEF r
<1> QED
  BY <1>2, <1>3, <1>4, <1>5 DEF Requeued, Delivered

\* The mark of one entry is changed.
LEMMA EntryMarked ==
    ASSUME NEW M, NEW W, NEW q \in Seq(Entries(M, W)), NEW i \in DOMAIN q, NEW w
    PROVE  LET r == [q EXCEPT ![i] = [q[i] EXCEPT !.by = w]] IN
                /\ DOMAIN r = DOMAIN q
                /\ r[i].by = w /\ r[i].msg = q[i].msg
                /\ \A k \in DOMAIN q \ {i} : r[k] = q[k]
<1> DEFINE e == [q[i] EXCEPT !.by = w]
<1>1. q[i] \in Entries(M, W)
  BY LenProperties, ElementOfSeq
<1>2. e.msg = q[i].msg /\ e.by = w
  BY <1>1 DEF Entries
<1> HIDE DEF e
<1>3. LET r == [q EXCEPT ![i] = e] IN
                /\ DOMAIN r = DOMAIN q
                /\ r[i].by = w /\ r[i].msg = q[i].msg
                /\ \A k \in DOMAIN q \ {i} : r[k] = q[k]
  BY <1>2
<1> QED
  BY <1>3 DEF e

\* Who holds what after the queue has changed, when no worker held two entries.
LEMMA HoldingsAfter ==
    ASSUME NEW M, NEW W, Ready \notin W, NEW q \in Seq(Entries(M, W)), HeldOnce(q)
    PROVE  /\ \A m \in M : /\ HeldOnce(Published(q, m))
                           /\ Holdings(Published(q, m)) = Holdings(q)
           /\ HeldOnce(AllRequeued(q)) /\ Holdings(AllRequeued(q)) = {}
           /\ \A i \in ReadyEntries(q), w \in W :
                (\A h \in Holdings(q) : h[1] # w) =>
                    /\ HeldOnce(Delivered(q, i, w))
                    /\ Holdings(Delivered(q, i, w)) = Holdings(q) \cup {<<w, q[i].msg>>}
<1>1. /\ DOMAIN q = 1..Len(q) /\ Len(q) \in Nat
      /\ \A k \in DOMAIN q : q[k] \in Entries(M, W)
  BY LenProperties, ElementOfSeq
<1>2. ASSUME NEW m \in M
      PROVE  HeldOnce(Published(q, m)) /\ Holdings(Published(q, m)) = Holdings(q)
  <2> DEFINE e == [msg |-> m, by |-> Ready]
             r == Append(q, e)
  <2>1. e \in Entries(M, W) /\ e.by = Ready
    BY DEF Entries
  <2> HIDE DEF e
  <2>2. /\ r \in Seq(Entries(M, W)) /\ Len(r) = Len(q) + 1
        /\ \A i \in 1..Len(q) : r[i] = q[i]
        /\ r[Len(q) + 1] = e
    BY <2>1, AppendProperties
  <2>3. DOMAIN r = 1..(Len(q) + 1)
    BY <2>2, LenProperties
  <2> HIDE DEF r
  <2>4. DOMAIN r = DOMAIN q \cup {Len(q) + 1}
    BY <1>1, <2>3
  <2>5. HeldEntries(r) = HeldEntries(q) /\ \A i \in HeldEntries(q) : r[i] = q[i]
    BY <1>1, <2>1, <2>2, <2>4 DEF HeldEntries
  <2>6. HeldOnce(r) /\ Holdings(r) = Holdings(q)
    BY <2>5 DEF HeldOnce, Holdings
  <2> QED
    BY <2>6 DEF r, e, Published
<1>3. HeldOnce(AllRequeued(q)) /\ Holdings(AllRequeued(q)) = {}
  <2>1. \A k \in DOMAIN q : [q[k] EXCEPT !.by = Ready].by = Ready
    BY <1>1 DEF Entries
  <2>2. HeldEntries(AllRequeued(q)) = {}
    BY <2>1 DEF HeldEntries, AllRequeued
  <2> QED
    BY <2>2 DEF HeldOnce, Holdings
<1>5. ASSUME NEW i \in ReadyEntries(q), NEW w \in W, \A h \in Holdings(q) : h[1] # w
      PROVE  /\ HeldOnce(Delivered(q, i, w))
             /\ Holdings(Delivered(q, i, w)) = Holdings(q) \cup {<<w, q[i].msg>>}
  <2> DEFINE r == Delivered(q, i, w)
  <2>1. i \in DOMAIN q /\ i \notin HeldEntries(q) /\ w # Ready
    BY DEF ReadyEntries, HeldEntries
  <2>2. /\ DOMAIN r = DOMAIN q /\ r[i].by = w /\ r[i].msg = q[i].msg
        /\ \A k \in DOMAIN q \ {i} : r[k] = q[k]
    BY <2>1, EntryMarked DEF Delivered
  <2> HIDE DEF r
  <2>3. HeldEntries(r) = HeldEntries(q) \cup {i}
    BY <2>1, <2>2 DEF HeldEntries
  <2>4. \A j \in HeldEntries(q) : /\ q[j].by # w /\ j # i /\ r[j] = q[j]
    <3>1. \A j \in HeldEntries(q) : <<q[j].by, q[j].msg>> \in Holdings(q)
      BY DEF Holdings
    <3>2. \A j \in HeldEntries(q) : j \in DOMAIN q \ {i}
      BY <2>1 DEF HeldEntries
    <3> QED
      BY <1>5, <2>2, <3>1, <3>2
  <2>5. HeldOnce(r)
    BY <2>2, <2>3, <2>4 DEF HeldOnce
  <2>6. Holdings(r) = Holdings(q) \cup {<<w, q[i].msg>>}
    BY <2>2, <2>3, <2>4 DEF Holdings
  <2> QED
    BY <2>5, <2>6 DEF r
<1> QED
  BY <1>2, <1>3, <1>5

\* A worker that settles its entry holds none, and the others hold what they held.
LEMMA HoldingsSettled ==
    ASSUME NEW M, NEW W, Ready \notin W, NEW q \in Seq(Entries(M, W)), HeldOnce(q),
           NEW w \in W, NEW i \in HeldBy(q, w)
    PROVE  /\ <<w, q[i].msg>> \in Holdings(q)
           /\ HeldOnce(Acked(q, i)) /\ HeldOnce(Requeued(q, i))
           /\ \A h \in Holdings(Acked(q, i)) : h \in Holdings(q) /\ h[1] # w
           /\ \A h \in Holdings(Requeued(q, i)) : h \in Holdings(q) /\ h[1] # w
<1>0. /\ DOMAIN q = 1..Len(q) /\ Len(q) \in Nat
      /\ \A k \in DOMAIN q : q[k] \in Entries(M, W)
  BY LenProperties, ElementOfSeq
<1>1. i \in DOMAIN q /\ q[i].by = w /\ i \in HeldEntries(q)
  BY DEF HeldBy, HeldEntries
<1>2. \A j \in HeldEntries(q) : j # i => q[j].by # w
  BY <1>1 DEF HeldOnce
<1>3. HeldOnce(Acked(q, i)) /\ (\A h \in Holdings(Acked(q, i)) : h \in Holdings(q) /\ h[1] # w)
  <2> DEFINE r == Acked(q, i)
  <2>0. /\ DOMAIN r = 1..(Len(q) - 1)
        /\ \A k \in 1..(Len(q) - 1) :
              Place(k, i) \in DOMAIN q \ {i} /\ r[k] = q[Place(k, i)]
    BY <1>1, AckedEntries
  <2>1. \A k \in HeldEntries(r) : /\ k \in 1..(Len(q) - 1)
                                  /\ Place(k, i) \in HeldEntries(q) \ {i}
                                  /\ r[k] = q[Place(k, i)]
    <3> HIDE DEF r
    <3> QED
      BY <2>0 DEF HeldEntries
  <2>2. \A k, l \in 1..(Len(q) - 1) : Place(k, i) = Place(l, i) => k = l
    BY <1>0, <1>1 DEF Place
  <2> HIDE DEF r
  <2>3. HeldOnce(r)
    BY <2>1, <2>2 DEF HeldOnce
  <2>4. (\A h \in Holdings(r) : h \in Holdings(q) /\ h[1] # w)
    BY <1>2, <2>1 DEF Holdings
  <2> QED
    BY <2>3, <2>4 DEF r
<1>4. HeldOnce(Requeued(q, i)) /\ (\A h \in Holdings(Requeued(q, i)) : h \in Holdings(q) /\ h[1] # w)
  <2> DEFINE r == Requeued(q, i)
  <2>1. /\ DOMAIN r = DOMAIN q /\ r[i].by = Ready
        /\ \A k \in DOMAIN q \ {i} : r[k] = q[k]
    BY <1>1, EntryMarked DEF Requeued
  <2> HIDE DEF r
  <2>2. \A k \in HeldEntries(r) : k \in HeldEntries(q) \ {i} /\ r[k] = q[k]
    BY <2>1 DEF HeldEntries
  <2>3. HeldOnce(r)
    BY <2>2 DEF HeldOnce
  <2>4. (\A h \in Holdings(r) : h \in Holdings(q) /\ h[1] # w)
    BY <1>2, <2>2 DEF Holdings
  <2> QED
    BY <2>3, <2>4 DEF r
<1> QED
  BY <1>1, <1>3, <1>4 DEF Holdings

\* Who holds entries of a queue, and which.
LEMMA HoldersAreWorkers ==
    ASSUME NEW M, NEW W, NEW q \in Seq(Entries(M, W))
    PROVE  \A h \in Holdings(q) : h[1] \in W /\ h[2] \in M
<1>1. \A k \in DOMAIN q : q[k] \in Entries(M, W)
  BY LenProperties, ElementOfSeq
<1> QED
  BY <1>1 DEF Holdings, HeldEntries, Entries
-----------------------------------------------------------------------------
(***************************************************************************)
(* Nothing is lost.  The workers' side: who holds a message is at work on  *)
(* it.                                                                     *)
(***************************************************************************)

\* A decoder keeps its datagram, or gives its entry back and is idle.
DecoderGoesOn(w) ==
    /\ UNCHANGED <<raw, rawConn>>
    /\ decoder[w].pc # "idle" /\ decoder'[w].pc # "idle"
    /\ decoder'[w].out.d = decoder[w].out.d
    /\ \A v \in Decoders : v # w => decoder'[v] = decoder[v]
DecoderSettles(w) ==
    /\ UNCHANGED rawConn
    /\ decoder[w].pc # "idle"
    /\ decoder' = [decoder EXCEPT ![w] = IdleDecoder]
    /\ \/ raw' = raw /\ ~rawConn
       \/ raw' \in {Acked(raw, RawEntry(w)), Requeued(raw, RawEntry(w))} /\ rawConn

LEMMA DecoderStepKinds ==
    ASSUME TypeOK, IInv, NEW w \in Decoders, DecoderStep(w)
    PROVE  DecoderGoesOn(w) \/ DecoderSettles(w)
<1>0. decoder \in [Decoders -> DecoderLocals] /\ WorkInProgress
  BY DEF TypeOK, IInv
<1>1. CASE RefuseShort(w)
  BY <1>1 DEF RefuseShort, AckRaw, DecoderSettles, network
<1>2. CASE LearnTemplate(w)
  BY <1>0, <1>2 DEF LearnTemplate, AtFlowSet, NextSet, DecoderGoesOn, network
<1>3. CASE DecodeData(w)
  <2>1. /\ decoder[w].pc = "decode" /\ UNCHANGED <<raw, rawConn>>
    BY <1>0, <1>3, DecodedMessage DEF network
  <2>2. /\ decoder'[w].pc = "decode" /\ decoder'[w].out.d = decoder[w].out.d
        /\ \A v \in Decoders : v # w => decoder'[v] = decoder[v]
    BY <1>0, <1>3 DEF DecodeData, NextSet
  <2> QED
    BY <2>1, <2>2 DEF DecoderGoesOn
<1>4. CASE SkipSet(w)
  BY <1>0, <1>4 DEF SkipSet, AtFlowSet, NextSet, DecoderGoesOn, network
<1>5. CASE FinishDecoding(w)
  BY <1>0, <1>5 DEF FinishDecoding, DecoderLocals, DecoderGoesOn, network
<1>6. CASE PublishDecoded(w)
  BY <1>0, <1>6 DEF PublishDecoded, DecoderLocals, DecoderGoesOn, network
<1>7. CASE RequeueRaw(w)
  BY <1>7 DEF RequeueRaw, DecoderSettles, network
<1>8. CASE SettleRaw(w)
  BY <1>8 DEF SettleRaw, AckRaw, DecoderSettles, network
<1> QED
  BY <1>1, <1>2, <1>3, <1>4, <1>5, <1>6, <1>7, <1>8 DEF DecoderStep

\* A metric worker keeps its message, or gives its entry back and is idle.
MetricGoesOn(w) ==
    /\ UNCHANGED <<dec, decConn>>
    /\ metric[w].pc # "idle" /\ metric'[w].pc # "idle"
    /\ metric'[w].m = metric[w].m
    /\ \A v \in MetricWorkers : v # w => metric'[v] = metric[v]
MetricSettles(w) ==
    /\ UNCHANGED decConn
    /\ metric[w].pc = "settle"
    /\ metric' = [metric EXCEPT ![w] = IdleMetric]
    /\ \/ dec' = dec /\ ~decConn
       \/ dec' = Requeued(dec, DecEntry(w)) /\ decConn
       \/ dec' = Acked(dec, DecEntry(w)) /\ decConn /\ metric[w].result = "ok"

LEMMA MetricStepKinds ==
    ASSUME TypeOK, IInv, NEW w \in MetricWorkers, MetricStep(w)
    PROVE  MetricGoesOn(w) \/ MetricSettles(w)
<1>0. metric \in [MetricWorkers -> MetricLocals]
  BY DEF TypeOK
<1>1. CASE NothingToCount(w)
  BY <1>0, <1>1 DEF NothingToCount, MetricLocals, MetricGoesOn, network
<1>2. CASE IncrementCounters(w)
  <2>1. metric[w].pc = "inc" /\ UNCHANGED <<dec, decConn>>
    BY <1>2 DEF IncrementCounters, network
  <2>2. PICK result \in {"ok", "refused", "timeout"} :
            metric' = [metric EXCEPT ![w] =
                Local(IF result = "ok" THEN "find" ELSE "settle", metric[w].m,
                      <<Content[metric[w].m.d].src, now>>, None, result)]
    BY <1>2 DEF IncrementCounters
  <2>3. /\ metric'[w].pc # "idle" /\ metric'[w].m = metric[w].m
        /\ \A v \in MetricWorkers : v # w => metric'[v] = metric[v]
    BY <1>0, <2>2 DEF Local
  <2> QED
    BY <2>1, <2>3 DEF MetricGoesOn
<1>3. CASE ReadCounters(w)
  <2>1. metric[w].pc = "find" /\ UNCHANGED <<dec, decConn>>
    BY <1>3 DEF ReadCounters, network
  <2>2. \/ metric' = [metric EXCEPT ![w].pc = "settle"]
        \/ \E key, read :
                metric' = [metric EXCEPT ![w] = Local("set", metric[w].m, key, read, "ok")]
    BY <1>3 DEF ReadCounters
  <2>3. /\ metric'[w].pc # "idle" /\ metric'[w].m = metric[w].m
        /\ \A v \in MetricWorkers : v # w => metric'[v] = metric[v]
    BY <1>0, <2>2 DEF Local, MetricLocals
  <2> QED
    BY <2>1, <2>3 DEF MetricGoesOn
<1>4. CASE SetPercentages(w)
  BY <1>0, <1>4 DEF SetPercentages, MetricLocals, MetricGoesOn, network
<1>5. CASE SettleDecoded(w)
  BY <1>5 DEF SettleDecoded, MetricSettles, network
<1> QED
  BY <1>1, <1>2, <1>3, <1>4, <1>5 DEF MetricStep

\* The decoders' entries after a step.
LEMMA DecodersHoldOwnStep ==
    ASSUME TypeOK, IInv, DecodersHoldOwn, Next
    PROVE  DecodersHoldOwn'
<1>0. /\ decoder \in [Decoders -> DecoderLocals]
      /\ raw \in Seq(Entries(Datagrams, Decoders)) /\ Ready \notin Decoders
      /\ \A h \in Holdings(raw) : h[1] \in Decoders
  BY WorkersAssumption, HoldersAreWorkers DEF TypeOK
<1>1. /\ HeldOnce(raw)
      /\ \A h \in Holdings(raw) :
            rawConn /\ decoder[h[1]].pc # "idle" /\ decoder[h[1]].out.d = h[2]
  BY DEF DecodersHoldOwn
<1>2. ASSUME HeldOnce(raw'),
             \A h \in Holdings(raw') :
                rawConn' /\ decoder'[h[1]].pc # "idle" /\ decoder'[h[1]].out.d = h[2]
      PROVE  DecodersHoldOwn'
  BY <1>2 DEF DecodersHoldOwn
<1>3. CASE \E w \in Decoders : TakeRaw(w)
  <2>1. PICK w \in Decoders : TakeRaw(w)
    BY <1>3
  <2>2. PICK i \in ReadyEntries(raw) :
            /\ raw' = Delivered(raw, i, w)
            /\ decoder' = [decoder EXCEPT ![w] =
                  [pc |-> "decode", at |-> 1, out |-> EmptyMessage(raw[i].msg)]]
    BY <2>1 DEF TakeRaw, MayDeliver
  <2>3. rawConn' /\ decoder[w].pc = "idle"
    BY <2>1 DEF TakeRaw, network
  <2>4. HeldOnce(raw') /\ Holdings(raw') = Holdings(raw) \cup {<<w, raw[i].msg>>}
    BY <1>0, <1>1, <2>2, <2>3, HoldingsAfter
  <2>5. /\ decoder'[w].pc = "decode" /\ decoder'[w].out.d = raw[i].msg
        /\ \A v \in Decoders : v # w => decoder'[v] = decoder[v]
    BY <1>0, <2>2 DEF EmptyMessage
  <2> QED
    BY <1>0, <1>1, <1>2, <2>3, <2>4, <2>5
<1>4. CASE \E w \in Decoders : DecoderStep(w)
  <2>1. PICK w \in Decoders : DecoderGoesOn(w) \/ DecoderSettles(w)
    BY <1>4, DecoderStepKinds
  <2>2. CASE DecoderGoesOn(w)
    <3>1. \A v \in Decoders : decoder[v].pc # "idle" => /\ decoder'[v].pc # "idle"
                                                       /\ decoder'[v].out.d = decoder[v].out.d
      BY <2>2 DEF DecoderGoesOn
    <3>2. raw' = raw /\ rawConn' = rawConn
      BY <2>2 DEF DecoderGoesOn
    <3> QED
      BY <1>0, <1>1, <1>2, <3>1, <3>2
  <2>3. CASE DecoderSettles(w)
    <3>1. \A v \in Decoders : v # w => decoder'[v] = decoder[v]
      BY <1>0, <2>3 DEF DecoderSettles
    <3>2. CASE raw' = raw /\ ~rawConn
      <4>1. Holdings(raw') = {}
        BY <1>1, <3>2
      <4> QED
        BY <1>1, <1>2, <3>2, <4>1
    <3>3. CASE raw' \in {Acked(raw, RawEntry(w)), Requeued(raw, RawEntry(w))} /\ rawConn
      <4>1. RawEntry(w) \in HeldBy(raw, w) /\ rawConn'
        BY <2>3, <3>3 DEF DecoderSettles, RawEntry, IInv, BusyHolds
      <4> DEFINE i == RawEntry(w)
      <4>2. /\ HeldOnce(Acked(raw, i)) /\ HeldOnce(Requeued(raw, i))
            /\ (\A h \in Holdings(Acked(raw, i)) : h \in Holdings(raw) /\ h[1] # w)
            /\ (\A h \in Holdings(Requeued(raw, i)) : h \in Holdings(raw) /\ h[1] # w)
        <5> HIDE DEF i
        <5>1. i \in HeldBy(raw, w) /\ w \in Decoders
          BY <4>1 DEF i
        <5>2. /\ raw \in Seq(Entries(Datagrams, Decoders)) /\ Ready \notin Decoders /\ HeldOnce(raw)
          BY <1>0, <1>1
        <5> QED
          BY <5>1, <5>2, HoldingsSettled
      <4>3. HeldOnce(raw') /\ (\A h \in Holdings(raw') : h \in Holdings(raw) /\ h[1] # w)
        BY <3>3, <4>2
      <4> QED
        BY <1>0, <1>1, <1>2, <3>1, <4>1, <4>3
    <3> QED
      BY <2>3, <3>2, <3>3 DEF DecoderSettles
  <2> QED
    BY <2>1, <2>2, <2>3
<1>5. CASE \E d \in Datagrams : Receive(d)
  <2>1. PICK d \in Datagrams : raw' = Published(raw, d) \/ raw' = raw
    BY <1>5 DEF Receive
  <2>2. HeldOnce(raw') /\ Holdings(raw') = Holdings(raw)
    BY <1>0, <1>1, <2>1, HoldingsAfter
  <2>3. UNCHANGED <<decoder, rawConn>>
    BY <1>5 DEF Receive, network
  <2> QED
    BY <1>1, <1>2, <2>2, <2>3
<1>6. CASE Die \/ BreakRaw
  <2>1. raw' = AllRequeued(raw)
    BY <1>6 DEF Die, BreakRaw
  <2>2. HeldOnce(raw') /\ Holdings(raw') = {}
    BY <1>0, <1>1, <2>1, HoldingsAfter
  <2> QED
    BY <1>2, <2>2
<1>7. CASE \/ \E w \in MetricWorkers : TakeDecoded(w) \/ MetricStep(w)
           \/ Tick \/ Restart \/ BreakDecoded
  <2>1. raw' = raw /\ (rawConn => rawConn')
    <3>1. CASE Restart \/ BreakDecoded \/ Tick
      BY <3>1 DEF Restart, BreakDecoded, Tick, network
    <3>2. CASE \E w \in MetricWorkers : TakeDecoded(w) \/ MetricStep(w)
      BY <3>2 DEF TakeDecoded, MetricStep, NothingToCount, IncrementCounters, ReadCounters,
                  SetPercentages, SettleDecoded, network
    <3> QED
      BY <1>7, <3>1, <3>2
  <2>2. \A v \in Decoders : decoder[v].pc # "idle" => /\ decoder'[v].pc # "idle"
                                                     /\ decoder'[v].out = decoder[v].out
    <3>1. CASE BreakDecoded
      <4>1. \A v \in Decoders :
                \/ decoder'[v] = decoder[v]
                \/ decoder[v].pc = "publish" /\ decoder'[v] = [decoder[v] EXCEPT !.pc = "ack"]
        BY <1>0, <3>1 DEF BreakDecoded
      <4> QED
        BY <1>0, <4>1 DEF DecoderLocals
    <3>2. CASE ~BreakDecoded
      BY <1>7, <3>2 DEF TakeDecoded, MetricStep, NothingToCount, IncrementCounters,
                ReadCounters, SetPercentages, SettleDecoded, Tick, Restart
    <3> QED
      BY <3>1, <3>2
  <2> QED
    BY <1>0, <1>1, <1>2, <2>1, <2>2
<1> QED
  BY <1>3, <1>4, <1>5, <1>6, <1>7 DEF Next, Crash, DecoderPanics

\* The metric workers' entries after a step.
LEMMA MetricsHoldOwnStep ==
    ASSUME TypeOK, IInv, MetricsHoldOwn, Next
    PROVE  MetricsHoldOwn'
<1>0. /\ metric \in [MetricWorkers -> MetricLocals]
      /\ dec \in Seq(Entries(Messages, MetricWorkers)) /\ Ready \notin MetricWorkers
      /\ \A h \in Holdings(dec) : h[1] \in MetricWorkers
  BY WorkersAssumption, HoldersAreWorkers DEF TypeOK
<1>1. /\ HeldOnce(dec)
      /\ \A h \in Holdings(dec) :
            decConn /\ metric[h[1]].pc # "idle" /\ metric[h[1]].m = h[2]
  BY DEF MetricsHoldOwn
<1>2. ASSUME HeldOnce(dec'),
             \A h \in Holdings(dec') :
                decConn' /\ metric'[h[1]].pc # "idle" /\ metric'[h[1]].m = h[2]
      PROVE  MetricsHoldOwn'
  BY <1>2 DEF MetricsHoldOwn
<1>3. CASE \E w \in MetricWorkers : TakeDecoded(w)
  <2>1. PICK w \in MetricWorkers : TakeDecoded(w)
    BY <1>3
  <2>2. PICK i \in ReadyEntries(dec) :
            /\ dec' = Delivered(dec, i, w)
            /\ metric' = [metric EXCEPT ![w] = Local("inc", dec[i].msg, None, None, "ok")]
    BY <2>1 DEF TakeDecoded, MayDeliver
  <2>3. decConn' /\ metric[w].pc = "idle"
    BY <2>1 DEF TakeDecoded, network
  <2>4. HeldOnce(dec') /\ Holdings(dec') = Holdings(dec) \cup {<<w, dec[i].msg>>}
    BY <1>0, <1>1, <2>2, <2>3, HoldingsAfter
  <2>5. /\ metric'[w].pc = "inc" /\ metric'[w].m = dec[i].msg
        /\ \A v \in MetricWorkers : v # w => metric'[v] = metric[v]
    BY <1>0, <2>2 DEF Local
  <2> QED
    BY <1>0, <1>1, <1>2, <2>3, <2>4, <2>5
<1>4. CASE \E w \in MetricWorkers : MetricStep(w)
  <2>1. PICK w \in MetricWorkers : MetricGoesOn(w) \/ MetricSettles(w)
    BY <1>4, MetricStepKinds
  <2>2. CASE MetricGoesOn(w)
    <3>1. \A v \in MetricWorkers : metric[v].pc # "idle" => /\ metric'[v].pc # "idle"
                                                           /\ metric'[v].m = metric[v].m
      BY <2>2 DEF MetricGoesOn
    <3>2. dec' = dec /\ decConn' = decConn
      BY <2>2 DEF MetricGoesOn
    <3> QED
      BY <1>0, <1>1, <1>2, <3>1, <3>2
  <2>3. CASE MetricSettles(w)
    <3>1. \A v \in MetricWorkers : v # w => metric'[v] = metric[v]
      BY <1>0, <2>3 DEF MetricSettles
    <3>2. CASE dec' = dec /\ ~decConn
      <4>1. Holdings(dec') = {}
        BY <1>1, <3>2
      <4> QED
        BY <1>1, <1>2, <3>2, <4>1
    <3>3. CASE dec' \in {Acked(dec, DecEntry(w)), Requeued(dec, DecEntry(w))} /\ decConn
      <4>1. DecEntry(w) \in HeldBy(dec, w) /\ decConn'
        BY <2>3, <3>3 DEF MetricSettles, DecEntry, IInv, BusyHolds
      <4> DEFINE i == DecEntry(w)
      <4>2. /\ HeldOnce(Acked(dec, i)) /\ HeldOnce(Requeued(dec, i))
            /\ (\A h \in Holdings(Acked(dec, i)) : h \in Holdings(dec) /\ h[1] # w)
            /\ (\A h \in Holdings(Requeued(dec, i)) : h \in Holdings(dec) /\ h[1] # w)
        <5> HIDE DEF i
        <5>1. i \in HeldBy(dec, w) /\ w \in MetricWorkers
          BY <4>1 DEF i
        <5>2. /\ dec \in Seq(Entries(Messages, MetricWorkers)) /\ Ready \notin MetricWorkers /\ HeldOnce(dec)
          BY <1>0, <1>1
        <5> QED
          BY <5>1, <5>2, HoldingsSettled
      <4>3. HeldOnce(dec') /\ (\A h \in Holdings(dec') : h \in Holdings(dec) /\ h[1] # w)
        BY <3>3, <4>2
      <4> QED
        BY <1>0, <1>1, <1>2, <3>1, <4>1, <4>3
    <3> QED
      BY <2>3, <3>2, <3>3 DEF MetricSettles
  <2> QED
    BY <2>1, <2>2, <2>3
<1>5. CASE \E w \in Decoders : PublishDecoded(w)
  <2>1. PICK w \in Decoders : PublishDecoded(w)
    BY <1>5
  <2>2. dec' = Published(dec, decoder[w].out) /\ decoder[w].out \in Messages
    BY <2>1 DEF PublishDecoded, IInv, WorkInProgress
  <2>3. HeldOnce(dec') /\ Holdings(dec') = Holdings(dec)
    BY <1>0, <1>1, <2>2, HoldingsAfter
  <2>4. UNCHANGED <<metric, decConn>>
    BY <2>1 DEF PublishDecoded, network
  <2> QED
    BY <1>1, <1>2, <2>3, <2>4
<1>6. CASE Die \/ BreakDecoded
  <2>1. dec' = AllRequeued(dec)
    BY <1>6 DEF Die, BreakDecoded
  <2>2. HeldOnce(dec') /\ Holdings(dec') = {}
    BY <1>0, <1>1, <2>1, HoldingsAfter
  <2> QED
    BY <1>2, <2>2
<1>7. CASE \/ \E w \in Decoders : TakeRaw(w) \/ (DecoderStep(w) /\ ~PublishDecoded(w))
           \/ \E d \in Datagrams : Receive(d)
           \/ Tick \/ Restart \/ BreakRaw
  <2>1. UNCHANGED <<dec, metric>> /\ (decConn => decConn')
    <3>1. CASE Tick \/ Restart \/ BreakRaw
      BY <3>1 DEF Tick, Restart, BreakRaw, network
    <3>2. CASE \E d \in Datagrams : Receive(d)
      BY <3>2 DEF Receive, network
    <3>3. CASE \E w \in Decoders : TakeRaw(w) \/ (DecoderStep(w) /\ ~PublishDecoded(w))
      BY <3>3 DEF TakeRaw, DecoderStep, RefuseShort, LearnTemplate, DecodeData, SkipSet,
                  FinishDecoding, RequeueRaw, SettleRaw, network
    <3> QED
      BY <1>7, <3>1, <3>2, <3>3
  <2> QED
    BY <1>1, <1>2, <2>1
<1> QED
  BY <1>3, <1>4, <1>5, <1>6, <1>7 DEF Next, Crash, DecoderPanics, DecoderStep
-----------------------------------------------------------------------------
(***************************************************************************)
(* Nothing is lost.  The datagrams' side.                                  *)
(***************************************************************************)

\* What happens to the decoded queue and the two histories in a step.
LEMMA HistoriesGrow ==
    ASSUME TypeOK, IInv, Next
    PROVE  /\ excused \subseteq excused' /\ lost \subseteq lost'
           /\ \A d \in Datagrams : applied[d] > 0 => applied'[d] > 0
<1>0. applied \in [Datagrams -> Nat] /\ WorkInProgress
  BY DEF TypeOK, IInv
<1>1. CASE \E w \in MetricWorkers : IncrementCounters(w)
  <2>1. PICK w \in MetricWorkers : IncrementCounters(w)
    BY <1>1
  <2>2. \/ applied' = applied
        \/ applied' = [applied EXCEPT ![metric[w].m.d] = applied[metric[w].m.d] + 1]
    BY <2>1 DEF IncrementCounters
  <2>3. excused' = excused /\ lost' = lost
    BY <2>1 DEF IncrementCounters
  <2> QED
    BY <1>0, <2>2, <2>3
<1>2. CASE \E w \in Decoders : DecoderStep(w)
  BY <1>2 DEF DecoderStep, RefuseShort, LearnTemplate, DecodeData, SkipSet, FinishDecoding,
              PublishDecoded, RequeueRaw, SettleRaw, history
<1>3. CASE \/ \E w \in Decoders : TakeRaw(w)
           \/ \E w \in MetricWorkers :
                TakeDecoded(w) \/ NothingToCount(w) \/ ReadCounters(w) \/ SetPercentages(w)
                \/ SettleDecoded(w)
           \/ \E d \in Datagrams : Receive(d)
           \/ Tick \/ Die \/ Restart \/ BreakRaw
  BY <1>3 DEF TakeRaw, TakeDecoded, NothingToCount, ReadCounters, SetPercentages,
              SettleDecoded, Receive, Tick, Die, Restart, BreakRaw, history
<1>4. CASE BreakDecoded
  BY <1>4 DEF BreakDecoded
<1> QED
  BY <1>1, <1>2, <1>3, <1>4 DEF Next, Crash, DecoderPanics, MetricStep

LEMMA DecodedMessagesKept ==
    ASSUME TypeOK, IInv, KeptInv, Next
    PROVE  /\ \A m \in MessagesIn(dec) : m \in MessagesIn(dec') \/ CountedOrExcused(m.d)
           /\ \A m \in MessagesIn(dec') :
                \/ m \in MessagesIn(dec)
                \/ \E w \in Decoders : PublishDecoded(w) /\ m = decoder[w].out
<1>0. dec \in Seq(Entries(Messages, MetricWorkers)) /\ Ready \notin MetricWorkers
  BY WorkersAssumption DEF TypeOK
<1>1. CASE \E w \in MetricWorkers : TakeDecoded(w)
  <2>1. PICK w \in MetricWorkers, i \in DOMAIN dec : dec' = Delivered(dec, i, w)
    BY <1>1 DEF TakeDecoded
  <2> QED
    BY <1>0, <2>1, MessagesAfter
<1>2. CASE \E w \in MetricWorkers : MetricStep(w)
  <2>1. PICK w \in MetricWorkers : MetricGoesOn(w) \/ MetricSettles(w)
    BY <1>2, MetricStepKinds
  <2>2. CASE dec' = dec
    BY <2>2
  <2>3. CASE MetricSettles(w) /\ decConn
    <3>1. DecEntry(w) \in HeldBy(dec, w) /\ DecEntry(w) \in DOMAIN dec
      BY <2>3 DEF MetricSettles, DecEntry, HeldBy, IInv, BusyHolds
    <3>2. <<w, dec[DecEntry(w)].msg>> \in Holdings(dec)
      BY <1>0, <3>1, HoldingsSettled DEF KeptInv, MetricsHoldOwn
    <3>3. metric[w].m = dec[DecEntry(w)].msg
      BY <3>2 DEF KeptInv, MetricsHoldOwn
    <3>4. CASE dec' = Requeued(dec, DecEntry(w))
      BY <1>0, <3>1, <3>4, MessagesAfter
    <3>5. CASE dec' = Acked(dec, DecEntry(w)) /\ metric[w].result = "ok"
      <4>1. CountedOrExcused(metric[w].m.d)
        BY <2>3, <3>5 DEF KeptInv, HandedOn, MetricSettles
      <4>2. /\ MessagesIn(dec') \subseteq MessagesIn(dec)
            /\ MessagesIn(dec) \subseteq MessagesIn(dec') \cup {dec[DecEntry(w)].msg}
        BY <1>0, <3>1, <3>5, MessagesAfter
      <4> QED
        BY <3>3, <4>1, <4>2
    <3> QED
      BY <2>3, <3>4, <3>5 DEF MetricSettles
  <2> QED
    BY <2>1, <2>2, <2>3 DEF MetricGoesOn, MetricSettles
<1>3. CASE \E w \in Decoders : PublishDecoded(w)
  <2>1. PICK w \in Decoders : PublishDecoded(w)
    BY <1>3
  <2>2. dec' = Published(dec, decoder[w].out) /\ decoder[w].out \in Messages
    BY <2>1 DEF PublishDecoded, IInv, WorkInProgress
  <2>3. MessagesIn(dec') = MessagesIn(dec) \cup {decoder[w].out}
    BY <1>0, <2>2, MessagesAfter
  <2> QED
    BY <2>1, <2>3
<1>4. CASE Die \/ BreakDecoded
  <2>1. dec' = AllRequeued(dec)
    BY <1>4 DEF Die, BreakDecoded
  <2> QED
    BY <1>0, <2>1, MessagesAfter
<1>5. CASE \/ \E w \in Decoders : TakeRaw(w) \/ (DecoderStep(w) /\ ~PublishDecoded(w))
           \/ \E d \in Datagrams : Receive(d)
           \/ Tick \/ Restart \/ BreakRaw
  <2>1. dec' = dec
    BY <1>5 DEF TakeRaw, DecoderStep, RefuseShort, LearnTemplate, DecodeData, SkipSet,
                FinishDecoding, RequeueRaw, SettleRaw, Tick, Receive, Restart, BreakRaw
  <2> QED
    BY <2>1
<1> QED
  BY <1>1, <1>2, <1>3, <1>4, <1>5 DEF Next, Crash, DecoderPanics, DecoderStep

\* A datagram that has passed the raw queue stays accounted for.
LEMMA PassedStays ==
    ASSUME TypeOK, IInv, KeptInv, Next
    PROVE  /\ \A d \in Datagrams : CountedOrExcused(d) => CountedOrExcused(d)'
           /\ \A d \in Datagrams : Passed(d) => Passed(d)'
<1>1. \A d \in Datagrams : CountedOrExcused(d) => applied'[d] > 0 \/ d \in excused' \cup lost'
  BY HistoriesGrow DEF CountedOrExcused
<1>2. ASSUME NEW d \in Datagrams, Passed(d)
      PROVE  \/ applied'[d] > 0 \/ d \in excused' \cup lost'
             \/ \E m \in MessagesIn(dec') : m.d = d
  <2>1. CASE CountedOrExcused(d)
    BY <1>1, <2>1
  <2>2. CASE \E m \in MessagesIn(dec) : m.d = d
    <3>1. PICK m \in MessagesIn(dec) : m.d = d
      BY <2>2
    <3> QED
      BY <1>1, <3>1, DecodedMessagesKept
  <2> QED
    BY <1>2, <2>1, <2>2 DEF Passed
<1> QED
  BY <1>1, <1>2 DEF CountedOrExcused, Passed, MessagesIn

\* A message leaves the raw queue when its datagram has passed.
LEMMA RawMessagesKept ==
    ASSUME TypeOK, IInv, KeptInv, Next
    PROVE  /\ \A d \in MessagesIn(raw) : d \in MessagesIn(raw') \/ Passed(d)'
           /\ \A d \in Datagrams : Receive(d) /\ arrival' # arrival => d \in MessagesIn(raw')
<1>0. /\ raw \in Seq(Entries(Datagrams, Decoders)) /\ Ready \notin Decoders
      /\ DecodersHoldOwn
  BY WorkersAssumption DEF TypeOK, KeptInv
<1>1. ASSUME NEW d \in Datagrams, Receive(d)
      PROVE  /\ MessagesIn(raw) \subseteq MessagesIn(raw')
             /\ arrival' # arrival => d \in MessagesIn(raw')
  <2>1. CASE up /\ rawConn
    <3>1. raw' = Published(raw, d)
      BY <1>1, <2>1 DEF Receive
    <3> QED
      BY <1>0, <3>1, MessagesAfter
  <2>2. CASE ~(up /\ rawConn)
    BY <1>1, <2>2 DEF Receive
  <2> QED
    BY <2>1, <2>2
<1>2. CASE \E w \in Decoders : TakeRaw(w)
  <2>1. PICK w \in Decoders, i \in DOMAIN raw : raw' = Delivered(raw, i, w)
    BY <1>2 DEF TakeRaw
  <2>2. MessagesIn(raw') = MessagesIn(raw)
    BY <1>0, <2>1, MessagesAfter
  <2>3. arrival' = arrival
    BY <1>2 DEF TakeRaw, history
  <2> QED
    BY <2>2, <2>3
<1>3. CASE \E w \in Decoders : DecoderStep(w)
  <2>1. PICK w \in Decoders : DecoderStep(w)
    BY <1>3
  <2>2. arrival' = arrival
    BY <2>1 DEF DecoderStep, RefuseShort, LearnTemplate, DecodeData, SkipSet,
                FinishDecoding, PublishDecoded, RequeueRaw, SettleRaw, history
  <2>3. CASE raw' = raw
    BY <2>2, <2>3
  <2>4. CASE DecoderSettles(w) /\ rawConn
    <3>1. RawEntry(w) \in HeldBy(raw, w) /\ RawEntry(w) \in DOMAIN raw
      BY <2>4 DEF DecoderSettles, RawEntry, HeldBy, IInv, BusyHolds
    <3>2. CASE raw' = Requeued(raw, RawEntry(w))
      <4>1. MessagesIn(raw') = MessagesIn(raw)
        BY <1>0, <3>1, <3>2, MessagesAfter
      <4> QED
        BY <2>2, <4>1
    <3>3. CASE RefuseShort(w) \/ SettleRaw(w)
      <4>1. raw' = Acked(raw, RawEntry(w))
        BY <2>4, <3>3 DEF RefuseShort, SettleRaw, AckRaw
      <4>2. MessagesIn(raw) \subseteq MessagesIn(raw') \cup {raw[RawEntry(w)].msg}
        BY <1>0, <3>1, <4>1, MessagesAfter
      <4>3. <<w, raw[RawEntry(w)].msg>> \in Holdings(raw)
        BY <1>0, <3>1, HoldingsSettled DEF DecodersHoldOwn
      <4>4. decoder[w].out.d = raw[RawEntry(w)].msg
        BY <1>0, <4>3 DEF DecodersHoldOwn
      <4>5. PICK d \in Datagrams : d = decoder[w].out.d
        BY <3>3 DEF RefuseShort, SettleRaw, IInv, WorkInProgress, Messages
      <4>6. Passed(d)'
        <5>1. CASE RefuseShort(w)
          BY <4>5, <5>1 DEF RefuseShort, Passed, CountedOrExcused
        <5>2. CASE SettleRaw(w)
          BY <4>5, <5>2, PassedStays DEF SettleRaw, KeptInv, HandedOn
        <5> QED
          BY <3>3, <5>1, <5>2
      <4> QED
        BY <2>2, <4>2, <4>4, <4>5, <4>6
    <3>4. CASE RequeueRaw(w)
      BY <2>4, <3>2, <3>4 DEF RequeueRaw
    <3>5. CASE LearnTemplate(w) \/ DecodeData(w) \/ SkipSet(w) \/ FinishDecoding(w)
               \/ PublishDecoded(w)
      BY <2>2, <3>5 DEF LearnTemplate, DecodeData, SkipSet, FinishDecoding, PublishDecoded
    <3> QED
      BY <2>1, <3>3, <3>4, <3>5 DEF DecoderStep
  <2> QED
    BY <2>1, <2>3, <2>4, DecoderStepKinds DEF DecoderGoesOn, DecoderSettles
<1>4. CASE Die \/ BreakRaw
  <2>1. raw' = AllRequeued(raw) /\ arrival' = arrival
    BY <1>4 DEF Die, BreakRaw, history
  <2>2. MessagesIn(raw') = MessagesIn(raw)
    BY <1>0, <2>1, MessagesAfter
  <2> QED
    BY <2>1, <2>2
<1>5. CASE \/ \E w \in MetricWorkers : TakeDecoded(w) \/ MetricStep(w)
           \/ Tick \/ Restart \/ BreakDecoded
  <2>1. raw' = raw /\ arrival' = arrival
    BY <1>5 DEF TakeDecoded, MetricStep, NothingToCount, IncrementCounters, ReadCounters,
                SetPercentages, SettleDecoded, Tick, Restart, BreakDecoded, history
  <2> QED
    BY <2>1
<1> QED
  BY <1>1, <1>2, <1>3, <1>4, <1>5 DEF Next, Crash, DecoderPanics

LEMMA KeptStep ==
    ASSUME TypeOK, IInv, KeptInv, Next
    PROVE  Kept'
<1>0. arrival \in Seq(Datagrams) /\ DOMAIN arrival = 1..Len(arrival) /\ Len(arrival) \in Nat
  BY LenProperties DEF TypeOK
<1>1. ASSUME NEW d \in Datagrams, NEW i \in DOMAIN arrival', arrival'[i] = d
      PROVE  Queued(d) \/ d \in MessagesIn(raw')
  <2>1. CASE arrival' = arrival
    BY <1>1, <2>1 DEF Queued
  <2>2. CASE arrival' # arrival
    <3>1. \E e \in Datagrams : Receive(e)
      BY <2>2 DEF Next, Tick, TakeRaw, DecoderStep, RefuseShort, LearnTemplate, DecodeData,
                  SkipSet, FinishDecoding, PublishDecoded, RequeueRaw, SettleRaw,
                  DecoderPanics, Die, TakeDecoded, MetricStep, NothingToCount,
                  IncrementCounters, ReadCounters, SetPercentages, SettleDecoded, Crash,
                  Restart, BreakRaw, BreakDecoded, history
    <3>2. PICK e \in Datagrams : Receive(e) /\ arrival' = Append(arrival, e)
      BY <2>2, <3>1 DEF Receive
    <3>3. e \in MessagesIn(raw')
      BY <2>2, <3>2, RawMessagesKept
    <3>4. /\ Append(arrival, e) \in Seq(Datagrams)
          /\ Len(Append(arrival, e)) = Len(arrival) + 1
          /\ \A j \in 1..Len(arrival) : Append(arrival, e)[j] = arrival[j]
          /\ Append(arrival, e)[Len(arrival) + 1] = e
      BY <1>0, AppendProperties
    <3>5. DOMAIN arrival' = 1..(Len(arrival) + 1)
      BY <3>2, <3>4, LenProperties
    <3>6. CASE i = Len(arrival) + 1
      BY <1>1, <3>2, <3>3, <3>4, <3>6
    <3>7. CASE i \in 1..Len(arrival)
      BY <1>0, <1>1, <3>2, <3>4, <3>7 DEF Queued
    <3> QED
      BY <1>0, <1>1, <3>5, <3>6, <3>7
  <2> QED
    BY <2>1, <2>2
<1>2. \A d \in Datagrams : Queued(d) => d \in MessagesIn(raw') \/ Passed(d)'
  BY RawMessagesKept, PassedStays DEF KeptInv, Kept
<1>3. ASSUME NEW d \in Datagrams, NEW i \in DOMAIN arrival', arrival'[i] = d
      PROVE  d \in MessagesIn(raw') \/ Passed(d)'
  BY <1>1, <1>2, <1>3
<1> QED
  BY <1>3 DEF Kept, Queued, MessagesIn

\* What the workers know of their datagrams stays true while they go on.
LEMMA DecodersHandOn ==
    ASSUME TypeOK, IInv, KeptInv, Next, NEW v \in Decoders
    PROVE  /\ decoder'[v].pc \in {"publish", "ack"} => NothingIsExcused(decoder[v].out)'
           /\ decoder'[v].pc = "ack" => Passed(decoder[v].out.d)'
<1>0. /\ decoder \in [Decoders -> DecoderLocals]
      /\ decoder[v].pc # "idle" => decoder[v].out \in Messages /\ decoder[v].out.d \in Datagrams
      /\ excused \subseteq excused' /\ lost \subseteq lost'
  BY HistoriesGrow DEF TypeOK, IInv, WorkInProgress, Messages
<1>1. /\ decoder[v].pc \in {"publish", "ack"} => NothingIsExcused(decoder[v].out)
      /\ decoder[v].pc = "ack" => Passed(decoder[v].out.d)
  BY DEF KeptInv, HandedOn
\* It stays at one of these points with its message, and has it acknowledged by the
\* decoded queue or lost in a break; or it comes there.
<1>2. ASSUME decoder'[v].out = decoder[v].out,
             decoder[v].pc \in {"publish", "ack"},
             decoder'[v].pc = "ack" =>
                 \/ decoder[v].pc = "ack"
                 \/ decoder[v].out \in MessagesIn(dec')
                 \/ decoder[v].out.d \in lost'
      PROVE  /\ NothingIsExcused(decoder[v].out)'
             /\ decoder'[v].pc = "ack" => Passed(decoder[v].out.d)'
  <2>1. NothingIsExcused(decoder[v].out)'
    BY <1>0, <1>1, <1>2 DEF NothingIsExcused
  <2>2. PICK d \in Datagrams : d = decoder[v].out.d
    BY <1>0, <1>2
  <2>3. decoder'[v].pc = "ack" => Passed(d)'
    <3>1. CASE decoder[v].pc = "ack"
      BY <1>1, <2>2, <3>1, PassedStays
    <3>2. CASE decoder[v].out \in MessagesIn(dec')
      BY <2>2, <3>2 DEF Passed, MessagesIn
    <3>3. CASE decoder[v].out.d \in lost'
      BY <2>2, <3>3 DEF Passed, CountedOrExcused
    <3> QED
      BY <1>2, <3>1, <3>2, <3>3
  <2> QED
    BY <1>2, <2>1, <2>2, <2>3 DEF Passed, CountedOrExcused, MessagesIn
<1>3. CASE decoder'[v] = decoder[v]
  BY <1>0, <1>2, <1>3
<1>4. CASE decoder'[v].pc \notin {"publish", "ack"}
  BY <1>4
<1>5. CASE FinishDecoding(v)
  <2>1. decoder'[v].pc = "publish" /\ decoder'[v].out = decoder[v].out
    BY <1>0, <1>5 DEF FinishDecoding, DecoderLocals
  <2>2. NothingIsExcused(decoder[v].out)'
    BY <1>5, <2>1 DEF FinishDecoding, NothingIsExcused
  <2> QED
    BY <2>1, <2>2
<1>6. CASE PublishDecoded(v)
  <2>1. /\ decoder[v].pc = "publish" /\ decoder'[v].out = decoder[v].out
        /\ decoder'[v].pc = "ack"
    BY <1>0, <1>6 DEF PublishDecoded, DecoderLocals
  <2>2. decoder[v].out \in MessagesIn(dec')
    <3>1. dec \in Seq(Entries(Messages, MetricWorkers)) /\ dec' = Published(dec, decoder[v].out)
      BY <1>6 DEF TypeOK, PublishDecoded
    <3> QED
      BY <1>0, <2>1, <3>1, MessagesAfter
  <2> QED
    BY <1>2, <2>1, <2>2
<1>7. CASE BreakDecoded
  <2>1. \/ decoder'[v] = decoder[v]
        \/ /\ decoder[v].pc = "publish" /\ decoder'[v] = [decoder[v] EXCEPT !.pc = "ack"]
           /\ decoder[v].out.d \in lost'
    BY <1>0, <1>7 DEF BreakDecoded
  <2>2. CASE decoder[v].pc = "publish" /\ decoder'[v] = [decoder[v] EXCEPT !.pc = "ack"]
             /\ decoder[v].out.d \in lost'
    BY <1>0, <1>2, <2>2 DEF DecoderLocals
  <2> QED
    BY <1>3, <2>1, <2>2
<1>8. CASE \E w \in Decoders : TakeRaw(w) \/ DecoderStep(w)
  <2>1. PICK w \in Decoders : TakeRaw(w) \/ DecoderStep(w)
    BY <1>8
  <2>2. CASE v # w
    <3>1. decoder'[v] = decoder[v]
      BY <1>0, <2>1, <2>2, DecoderStepKinds DEF TakeRaw, DecoderGoesOn, DecoderSettles
    <3> QED
      BY <1>3, <3>1
  <2>3. CASE v = w
    <3>1. CASE \/ TakeRaw(w) \/ RefuseShort(w) \/ LearnTemplate(w) \/ DecodeData(w)
               \/ SkipSet(w) \/ RequeueRaw(w) \/ SettleRaw(w)
      <4>1. decoder'[v].pc \in {"idle", "decode"}
        BY <1>0, <2>3, <3>1 DEF TakeRaw, RefuseShort, LearnTemplate, DecodeData, SkipSet,
                                NextSet, RequeueRaw, SettleRaw, IdleDecoder
      <4> QED
        BY <1>4, <4>1
    <3> QED
      BY <1>5, <1>6, <2>1, <2>3, <3>1 DEF DecoderStep
  <2> QED
    BY <2>2, <2>3
<1>9. CASE Die
  <2>1. decoder'[v].pc = "idle"
    BY <1>9 DEF Die, IdleDecoder
  <2> QED
    BY <1>4, <2>1
<1>10. CASE \/ \E w \in MetricWorkers : TakeDecoded(w) \/ MetricStep(w)
            \/ \E d \in Datagrams : Receive(d)
            \/ Tick \/ Restart \/ BreakRaw
  <2>1. decoder' = decoder
    BY <1>10 DEF TakeDecoded, MetricStep, NothingToCount, IncrementCounters, ReadCounters,
                 SetPercentages, SettleDecoded, Receive, Tick, Restart, BreakRaw
  <2> QED
    BY <1>3, <2>1
<1> QED
  BY <1>7, <1>8, <1>9, <1>10 DEF Next, Crash, DecoderPanics

LEMMA MetricsHandOn ==
    ASSUME TypeOK, IInv, KeptInv, Next, NEW v \in MetricWorkers
    PROVE  /\ metric'[v].pc = "inc" =>
                NothingIsExcused(metric[v].m)' /\ metric'[v].result = "ok"
           /\ metric'[v].pc \in {"find", "set"} => applied'[metric'[v].m.d] > 0
           /\ metric'[v].pc = "settle" /\ metric'[v].result = "ok"
                => CountedOrExcused(metric[v].m.d)'
<1> DEFINE M == metric[v]
           N == metric'[v]
           Goal == /\ N.pc = "inc" =>
                        (N.m.v4 + N.m.v6 = 0 => N.m.d \in excused' \cup lost') /\ N.result = "ok"
                   /\ N.pc \in {"find", "set"} => applied'[N.m.d] > 0
                   /\ N.pc = "settle" /\ N.result = "ok"
                        => applied'[N.m.d] > 0 \/ N.m.d \in excused' \cup lost'
<1>0. /\ metric \in [MetricWorkers -> MetricLocals]
      /\ M.pc # "idle" => M.m \in Messages /\ M.m.d \in Datagrams
      /\ excused \subseteq excused' /\ lost \subseteq lost'
      /\ \A d \in Datagrams : applied[d] > 0 => applied'[d] > 0
      /\ applied \in [Datagrams -> Nat]
  BY HistoriesGrow DEF TypeOK, IInv, WorkInProgress, Messages
<1>1. /\ M.pc = "inc" => (M.m.v4 + M.m.v6 = 0 => M.m.d \in excused \cup lost) /\ M.result = "ok"
      /\ M.pc \in {"find", "set"} => applied[M.m.d] > 0
      /\ M.pc = "settle" /\ M.result = "ok" => applied[M.m.d] > 0 \/ M.m.d \in excused \cup lost
  BY DEF KeptInv, HandedOn, NothingIsExcused, CountedOrExcused
<1>2. SUFFICES Goal
  BY <1>2 DEF NothingIsExcused, CountedOrExcused
<1>3. CASE N = M
  <2>1. CASE M.pc = "idle"
    BY <1>3, <2>1
  <2>2. CASE M.pc # "idle"
    BY <1>0, <1>1, <1>3, <2>2
  <2> QED
    BY <2>1, <2>2
<1>4. CASE TakeDecoded(v)
  <2>1. PICK i \in DOMAIN dec : metric' = [metric EXCEPT ![v] =
                                    Local("inc", dec[i].msg, None, None, "ok")]
    BY <1>4 DEF TakeDecoded
  <2>2. N.pc = "inc" /\ N.m = dec[i].msg /\ N.result = "ok"
    BY <1>0, <2>1 DEF Local
  <2>3. N.m.v4 + N.m.v6 = 0 => N.m.d \in excused \cup lost
    BY <2>2 DEF KeptInv, HandedOn, NothingIsExcused, MessagesIn
  <2> QED
    BY <1>0, <2>2, <2>3
<1>5. CASE NothingToCount(v)
  <2>1. M.pc = "inc" /\ M.m.v4 + M.m.v6 = 0 /\ N = [M EXCEPT !.pc = "settle"]
    BY <1>0, <1>5 DEF NothingToCount
  <2>2. N.pc = "settle" /\ N.m = M.m
    BY <1>0, <2>1 DEF MetricLocals
  <2> QED
    BY <1>0, <1>1, <2>1, <2>2
<1>6. CASE IncrementCounters(v)
  <2>1. M.pc = "inc"
    BY <1>6 DEF IncrementCounters
  <2> DEFINE key == <<Content[M.m.d].src, now>>
  <2>2. PICK result \in {"ok", "refused", "timeout"} :
            /\ metric' = [metric EXCEPT ![v] =
                  Local(IF result = "ok" THEN "find" ELSE "settle", M.m, key, None, result)]
            /\ result = "ok" => applied' = [applied EXCEPT ![M.m.d] = applied[M.m.d] + 1]
    BY <1>6 DEF IncrementCounters
  <2> HIDE DEF key
  <2>3. /\ N.m = M.m /\ N.result = result
        /\ N.pc = IF result = "ok" THEN "find" ELSE "settle"
    BY <1>0, <2>2 DEF Local
  <2>4. result = "ok" => applied'[M.m.d] > 0
    BY <1>0, <2>1, <2>2
  <2> QED
    BY <2>3, <2>4
<1>7. CASE ReadCounters(v)
  <2>1. M.pc = "find"
    BY <1>7 DEF ReadCounters
  <2>2. \/ metric' = [metric EXCEPT ![v].pc = "settle"]
        \/ \E key, read :
                metric' = [metric EXCEPT ![v] = Local("set", M.m, key, read, "ok")]
    BY <1>7 DEF ReadCounters
  <2>3. N.m = M.m /\ N.pc \in {"set", "settle"}
    BY <1>0, <2>2 DEF Local, MetricLocals
  <2> QED
    BY <1>0, <1>1, <2>1, <2>3
<1>8. CASE SetPercentages(v)
  <2>1. M.pc = "set" /\ N = [M EXCEPT !.pc = "settle"]
    BY <1>0, <1>8 DEF SetPercentages
  <2>2. N.m = M.m /\ N.pc = "settle"
    BY <1>0, <2>1 DEF MetricLocals
  <2> QED
    BY <1>0, <1>1, <2>1, <2>2
<1>9. CASE SettleDecoded(v) \/ Die
  <2>1. N.pc = "idle"
    BY <1>0, <1>9 DEF SettleDecoded, Die, IdleMetric, Local
  <2> QED
    BY <2>1
<1>10. CASE \E w \in MetricWorkers : w # v /\ (TakeDecoded(w) \/ MetricStep(w))
  <2>1. PICK w \in MetricWorkers : w # v /\ (TakeDecoded(w) \/ MetricStep(w))
    BY <1>10
  <2>2. N = M
    BY <1>0, <2>1, MetricStepKinds DEF TakeDecoded, MetricGoesOn, MetricSettles
  <2> QED
    BY <1>3, <2>2
<1>11. CASE \/ \E w \in Decoders : TakeRaw(w) \/ DecoderStep(w)
            \/ \E d \in Datagrams : Receive(d)
            \/ Tick \/ Restart \/ BreakRaw \/ BreakDecoded
  <2>1. metric' = metric
    BY <1>11 DEF TakeRaw, DecoderStep, RefuseShort, LearnTemplate, DecodeData, SkipSet,
                 FinishDecoding, PublishDecoded, RequeueRaw, SettleRaw, Receive, Tick,
                 Restart, BreakRaw, BreakDecoded
  <2> QED
    BY <1>3, <2>1
<1> QED
  BY <1>4, <1>5, <1>6, <1>7, <1>8, <1>9, <1>10, <1>11
     DEF Next, MetricStep, Crash, DecoderPanics

LEMMA HandedOnStep ==
    ASSUME TypeOK, IInv, KeptInv, Next
    PROVE  HandedOn'
<1>1. ASSUME NEW m \in MessagesIn(dec')
      PROVE  NothingIsExcused(m)'
  <2>1. NothingIsExcused(m)
    BY <1>1, DecodedMessagesKept DEF KeptInv, HandedOn, PublishDecoded
  <2> QED
    BY <2>1, HistoriesGrow DEF NothingIsExcused
<1> QED
  BY <1>1, DecodersHandOn, MetricsHandOn DEF HandedOn, MessagesIn

LEMMA KeptInit == Init => KeptInv
<1> SUFFICES ASSUME Init PROVE KeptInv
  OBVIOUS
<1>1. /\ DOMAIN raw = {} /\ DOMAIN dec = {} /\ DOMAIN arrival = {}
      /\ \A w \in Decoders : decoder[w].pc = "idle"
      /\ \A w \in MetricWorkers : metric[w].pc = "idle"
  BY DEF Init, IdleDecoder, IdleMetric, Local
<1> QED
  BY <1>1 DEF KeptInv, DecodersHoldOwn, MetricsHoldOwn, Kept, HandedOn, HeldOnce, Holdings,
              HeldEntries, MessagesIn, Queued

LEMMA KeptInductive == TypeOK /\ IInv /\ KeptInv /\ [Next]_vars => KeptInv'
<1> SUFFICES ASSUME TypeOK, IInv, KeptInv, [Next]_vars PROVE KeptInv'
  OBVIOUS
<1>1. CASE Next
  BY <1>1, DecodersHoldOwnStep, MetricsHoldOwnStep, KeptStep, HandedOnStep DEF KeptInv
<1>2. CASE UNCHANGED vars
  BY <1>2 DEF vars, KeptInv, DecodersHoldOwn, MetricsHoldOwn, Kept, HandedOn, HeldOnce,
              Holdings, HeldEntries, MessagesIn, Queued, NothingIsExcused, Passed,
              CountedOrExcused
<1> QED
  BY <1>1, <1>2

\* What is kept is in one of the queues, with a decoder, counted, excused or lost.
LEMMA QueuedIsKept ==
    ASSUME KeptInv, NEW d \in Datagrams, Queued(d)
    PROVE  InFlight(d) \/ applied[d] > 0 \/ d \in excused \cup lost
<1>1. CASE d \in MessagesIn(raw)
  BY <1>1 DEF MessagesIn, InFlight
<1>2. CASE CountedOrExcused(d)
  BY <1>2 DEF CountedOrExcused
<1>3. CASE \E m \in MessagesIn(dec) : m.d = d
  BY <1>3 DEF MessagesIn, InFlight
<1> QED
  BY <1>1, <1>2, <1>3 DEF KeptInv, Kept, Passed
-----------------------------------------------------------------------------
(***************************************************************************)
(* The templates the flows are decoded with.  The order of the raw queue.  *)
(***************************************************************************)

\* What the queue operators do with the order of the messages.
LEMMA OrderAfter ==
    ASSUME NEW M, NEW W, NEW q \in Seq(Entries(M, W))
    PROVE  /\ \A m \in M : /\ Len(Published(q, m)) = Len(q) + 1
                           /\ \A k \in 1..Len(q) : Published(q, m)[k] = q[k]
                           /\ Published(q, m)[Len(q) + 1] = [msg |-> m, by |-> Ready]
           /\ Len(AllRequeued(q)) = Len(q)
           /\ \A k \in 1..Len(q) :
                AllRequeued(q)[k].msg = q[k].msg /\ AllRequeued(q)[k].by = Ready
<1>1. /\ DOMAIN q = 1..Len(q) /\ Len(q) \in Nat
      /\ \A k \in 1..Len(q) : q[k] \in Entries(M, W)
  BY LenProperties, ElementOfSeq
<1>2. ASSUME NEW m \in M
      PROVE  /\ Len(Published(q, m)) = Len(q) + 1
             /\ \A k \in 1..Len(q) : Published(q, m)[k] = q[k]
             /\ Published(q, m)[Len(q) + 1] = [msg |-> m, by |-> Ready]
  <2> DEFINE e == [msg |-> m, by |-> Ready]
  <2>1. e \in Entries(M, W)
    BY DEF Entries
  <2> HIDE DEF e
  <2>2. /\ Len(Append(q, e)) = Len(q) + 1
        /\ \A i \in 1..Len(q) : Append(q, e)[i] = q[i]
        /\ Append(q, e)[Len(q) + 1] = e
    BY <2>1, AppendProperties
  <2> QED
    BY <2>2 DEF e, Published
<1>3. Len(AllRequeued(q)) = Len(q)
  <2>1. AllRequeued(q) \in Seq(Entries(M, W)) /\ DOMAIN AllRequeued(q) = DOMAIN q
    BY SettledQueue DEF AllRequeued
  <2> HIDE DEF AllRequeued
  <2>2. DOMAIN AllRequeued(q) = 1..Len(AllRequeued(q)) /\ Len(AllRequeued(q)) \in Nat
    BY <2>1, LenProperties
  <2> QED
    BY <1>1, <2>1, <2>2
<1>4. \A k \in 1..Len(q) :
            AllRequeued(q)[k].msg = q[k].msg /\ AllRequeued(q)[k].by = Ready
  BY <1>1 DEF AllRequeued, Entries
<1> QED
  BY <1>2, <1>3, <1>4

LEMMA OrderOfMarked ==
    ASSUME NEW M, NEW W, NEW q \in Seq(Entries(M, W)), NEW i \in DOMAIN q
    PROVE  /\ Len(Requeued(q, i)) = Len(q)
           /\ \A k \in 1..Len(q) : Requeued(q, i)[k].msg = q[k].msg
           /\ HeldEntries(Requeued(q, i)) \subseteq HeldEntries(q)
           /\ \A w \in W : /\ Len(Delivered(q, i, w)) = Len(q)
                           /\ \A k \in 1..Len(q) : Delivered(q, i, w)[k].msg = q[k].msg
                           /\ HeldEntries(Delivered(q, i, w)) \subseteq HeldEntries(q) \cup {i}
<1>1. DOMAIN q = 1..Len(q) /\ Len(q) \in Nat
  BY LenProperties
<1>2. ASSUME NEW w, NEW r \in Seq(Entries(M, W)), r = [q EXCEPT ![i] = [q[i] EXCEPT !.by = w]]
      PROVE  /\ Len(r) = Len(q)
             /\ \A k \in 1..Len(q) : r[k].msg = q[k].msg
             /\ HeldEntries(r) \subseteq HeldEntries(q) \cup (IF w = Ready THEN {} ELSE {i})
  <2>1. /\ DOMAIN r = DOMAIN q /\ r[i].msg = q[i].msg /\ r[i].by = w
        /\ \A k \in DOMAIN q \ {i} : r[k] = q[k]
    BY <1>2, EntryMarked, ZenonT(40)
  <2>2. DOMAIN r = 1..Len(r) /\ Len(r) \in Nat
    BY LenProperties
  <2>3. Len(r) = Len(q)
    BY <1>1, <2>1, <2>2
  <2> QED
    BY <1>1, <2>1, <2>3 DEF HeldEntries
<1>3. ASSUME NEW w \in W
      PROVE  /\ Len(Delivered(q, i, w)) = Len(q)
             /\ \A k \in 1..Len(q) : Delivered(q, i, w)[k].msg = q[k].msg
             /\ HeldEntries(Delivered(q, i, w)) \subseteq HeldEntries(q) \cup {i}
  <2> DEFINE r == Delivered(q, i, w)
  <2>1. r \in Seq(Entries(M, W)) /\ r = [q EXCEPT ![i] = [q[i] EXCEPT !.by = w]]
    BY DeliveredQueue DEF Delivered
  <2> HIDE DEF r
  <2>2. /\ Len(r) = Len(q)
        /\ \A k \in 1..Len(q) : r[k].msg = q[k].msg
        /\ HeldEntries(r) \subseteq HeldEntries(q) \cup {i}
    BY <1>2, <2>1
  <2> QED
    BY <2>2 DEF r
<1>4. /\ Len(Requeued(q, i)) = Len(q)
      /\ \A k \in 1..Len(q) : Requeued(q, i)[k].msg = q[k].msg
      /\ HeldEntries(Requeued(q, i)) \subseteq HeldEntries(q)
  <2> DEFINE r == Requeued(q, i)
  <2>1. r \in Seq(Entries(M, W)) /\ r = [q EXCEPT ![i] = [q[i] EXCEPT !.by = Ready]]
    BY SettledQueue DEF Requeued
  <2> HIDE DEF r
  <2>2. /\ Len(r) = Len(q)
        /\ \A k \in 1..Len(q) : r[k].msg = q[k].msg
        /\ HeldEntries(r) \subseteq HeldEntries(q)
    BY <1>2, <2>1
  <2> QED
    BY <2>2 DEF r
<1> QED
  BY <1>3, <1>4

LEMMA OrderOfAcked ==
    ASSUME NEW M, NEW W, NEW q \in Seq(Entries(M, W)), 1 \in DOMAIN q
    PROVE  /\ Len(Acked(q, 1)) = Len(q) - 1
           /\ \A k \in 1..(Len(q) - 1) : Acked(q, 1)[k] = q[k + 1]
<1>1. /\ DOMAIN q = 1..Len(q) /\ Len(q) \in Nat
      /\ DOMAIN Acked(q, 1) = 1..(Len(q) - 1)
      /\ \A k \in 1..(Len(q) - 1) : Acked(q, 1)[k] = q[Place(k, 1)]
  BY AckedEntries
<1>2. Acked(q, 1) \in Seq(Entries(M, W))
  BY SettledQueue
<1>3. DOMAIN Acked(q, 1) = 1..Len(Acked(q, 1)) /\ Len(Acked(q, 1)) \in Nat
  BY <1>2, LenProperties
<1>4. Len(Acked(q, 1)) = Len(q) - 1
  <2> DEFINE a == Len(Acked(q, 1))
             b == Len(q) - 1
  <2>0. 1 <= Len(q)
    BY <1>1
  <2>1. a \in Nat /\ b \in Nat
    BY <1>1, <1>3, <2>0
  <2>3. 1..a = 1..b
    BY <1>1, <1>3
  <2> HIDE DEF a, b
  <2>2. a = b
    BY <2>1, <2>3
  <2> QED
    BY <2>2 DEF a, b
<1>5. \A k \in 1..(Len(q) - 1) : Place(k, 1) = k + 1
  BY <1>1 DEF Place
<1> QED
  BY <1>1, <1>4, <1>5

\* A step leaves the first message in its place, or takes it off when its decoder has
\* refused it or is done with it.
HeadStays ==
    /\ Len(arrival') - Len(raw') = Len(arrival) - Len(raw)
    /\ Len(raw) > 0 => Len(raw') > 0 /\ raw'[1].msg = raw[1].msg
HeadLeaves ==
    /\ arrival' = arrival /\ Len(raw) > 0
    /\ Len(arrival') - Len(raw') = Len(arrival) - Len(raw) + 1
    /\ \E w \in Decoders : (RefuseShort(w) \/ SettleRaw(w)) /\ decoder[w].out.d = raw[1].msg
ArrivalsStay ==
    /\ Len(arrival) <= Len(arrival')
    /\ \A i \in 1..Len(arrival) : arrival'[i] = arrival[i]

LEMMA RawInOrderStep ==
    ASSUME TypeOK, IInv, DecodersHoldOwn, OrderInv, Prefetch = 1, Next
    PROVE  RawInOrder' /\ ArrivalsStay /\ (HeadStays \/ HeadLeaves)
<1>0. /\ raw \in Seq(Entries(Datagrams, Decoders)) /\ Ready \notin Decoders
      /\ DOMAIN raw = 1..Len(raw) /\ Len(raw) \in Nat
      /\ arrival \in Seq(Datagrams) /\ Len(arrival) \in Nat
      /\ decoder \in [Decoders -> DecoderLocals]
  BY LenProperties, WorkersAssumption DEF TypeOK
<1>1. /\ Len(raw) <= Len(arrival)
      /\ \A i \in 1..Len(raw) : raw[i].msg = arrival[Len(arrival) - Len(raw) + i]
      /\ HeldEntries(raw) \subseteq {1}
      /\ \A w \in Decoders :
            decoder[w].pc # "idle" => Len(raw) > 0 /\ decoder[w].out.d = raw[1].msg
  BY <1>0 DEF OrderInv, RawInOrder, Handled
<1>2. raw' \in Seq(Entries(Datagrams, Decoders))
  BY Inductive DEF TypeOK
<1>3. DOMAIN raw' = 1..Len(raw') /\ Len(raw') \in Nat
  BY <1>2, LenProperties
\* The same messages in the same order, and the busy decoders with them.
<1>same. ASSUME arrival' = arrival, Len(raw') = Len(raw),
                \A i \in 1..Len(raw) : raw'[i].msg = raw[i].msg,
                HeldEntries(raw') \subseteq {1},
                \A w \in Decoders : decoder'[w].pc # "idle" =>
                    Len(raw) > 0 /\ decoder'[w].out.d = raw[1].msg
         PROVE  RawInOrder' /\ ArrivalsStay /\ (HeadStays \/ HeadLeaves)
  <2>1. 1 <= Len(raw) => 1 \in 1..Len(raw)
    BY <1>0
  <2>2. HeadStays /\ ArrivalsStay
    BY <1>0, <1>same, <2>1 DEF HeadStays, ArrivalsStay
  <2>3. /\ Len(raw') <= Len(arrival')
        /\ \A i \in DOMAIN raw' : raw'[i].msg = arrival'[Len(arrival') - Len(raw') + i]
        /\ \A w \in Decoders :
                decoder'[w].pc # "idle" => Len(raw') > 0 /\ decoder'[w].out.d = raw'[1].msg
    BY <1>0, <1>1, <1>3, <1>same, <2>1
  <2> QED
    BY <1>same, <2>2, <2>3 DEF RawInOrder, Handled
<1>4. CASE \E w \in Decoders : TakeRaw(w)
  <2>1. PICK w \in Decoders : TakeRaw(w)
    BY <1>4
  <2>2. PICK i \in DOMAIN raw :
            /\ MayDeliver(raw, i, 1)
            /\ raw' = Delivered(raw, i, w)
            /\ decoder' = [decoder EXCEPT ![w] =
                  [pc |-> "decode", at |-> 1, out |-> EmptyMessage(raw[i].msg)]]
    BY <2>1 DEF TakeRaw
  <2>3. HeldEntries(raw) = {}
    <3>1. IsFiniteSet(HeldEntries(raw))
      BY <1>1, FS_Singleton, FS_Subset
    <3>2. Cardinality(HeldEntries(raw)) < 1 /\ Cardinality(HeldEntries(raw)) \in Nat
      BY <2>2, <3>1, FS_CardinalityType DEF MayDeliver
    <3> QED
      BY <3>1, <3>2, FS_EmptySet
  <2>4. i = 1
    <3>1. 1 \in ReadyEntries(raw) /\ i \in 1..Len(raw)
      BY <1>0, <2>2, <2>3 DEF ReadyEntries, HeldEntries
    <3> QED
      BY <1>0, <2>2, <3>1 DEF MayDeliver
  <2>5. /\ Len(raw') = Len(raw)
        /\ \A k \in 1..Len(raw) : raw'[k].msg = raw[k].msg
        /\ HeldEntries(raw') \subseteq {1}
    <3>1. /\ Len(Delivered(raw, i, w)) = Len(raw)
          /\ \A k \in 1..Len(raw) : Delivered(raw, i, w)[k].msg = raw[k].msg
          /\ HeldEntries(Delivered(raw, i, w)) \subseteq HeldEntries(raw) \cup {i}
      BY <1>0, OrderOfMarked
    <3> QED
      BY <2>2, <2>3, <2>4, <3>1
  <2>6. /\ decoder'[w].out.d = raw[1].msg /\ Len(raw) > 0
        /\ \A v \in Decoders : v # w => decoder'[v].pc = "idle"
    BY <1>0, <2>1, <2>2, <2>4, TakenWhenIdle DEF EmptyMessage
  <2>7. arrival' = arrival
    BY <2>1 DEF TakeRaw, history
  <2> QED
    BY <1>same, <2>5, <2>6, <2>7
<1>5. CASE \E w \in Decoders : DecoderStep(w)
  <2>1. PICK w \in Decoders : DecoderStep(w)
    BY <1>5
  <2>2. arrival' = arrival
    BY <2>1 DEF DecoderStep, RefuseShort, LearnTemplate, DecodeData, SkipSet,
                FinishDecoding, PublishDecoded, RequeueRaw, SettleRaw, history
  <2>3. CASE DecoderGoesOn(w)
    BY <1>1, <1>same, <2>2, <2>3 DEF DecoderGoesOn
  <2>4. CASE DecoderSettles(w)
    <3>1. \A v \in Decoders : decoder'[v].pc = "idle"
      BY <1>0, <2>4 DEF DecoderSettles, IInv, OneBusy, IdleDecoder
    <3>2. CASE raw' = raw
      BY <1>1, <1>same, <2>2, <3>1, <3>2
    <3>3. CASE rawConn
      <4>1. RawEntry(w) \in HeldBy(raw, w)
        BY <2>4, <3>3 DEF DecoderSettles, RawEntry, IInv, BusyHolds
      <4>2. RawEntry(w) = 1 /\ 1 \in DOMAIN raw /\ raw[1].by # Ready
        BY <1>0, <1>1, <4>1 DEF HeldBy, HeldEntries
      <4>3. CASE raw' = Requeued(raw, 1)
        <5>1. /\ Len(raw') = Len(raw)
              /\ \A k \in 1..Len(raw) : raw'[k].msg = raw[k].msg
              /\ HeldEntries(raw') \subseteq {1}
          <6>1. /\ Len(Requeued(raw, 1)) = Len(raw)
                /\ \A k \in 1..Len(raw) : Requeued(raw, 1)[k].msg = raw[k].msg
                /\ HeldEntries(Requeued(raw, 1)) \subseteq HeldEntries(raw)
            BY <1>0, <4>2, OrderOfMarked
          <6> QED
            BY <1>1, <4>3, <6>1
        <5> QED
          BY <1>same, <2>2, <3>1, <5>1
      <4>4. CASE raw' = Acked(raw, 1) /\ (RefuseShort(w) \/ SettleRaw(w))
        <5>1. /\ Len(raw') = Len(raw) - 1 /\ Len(raw) > 0
              /\ \A k \in 1..(Len(raw) - 1) : raw'[k] = raw[k + 1]
          <6>1. /\ Len(Acked(raw, 1)) = Len(raw) - 1
                /\ \A k \in 1..(Len(raw) - 1) : Acked(raw, 1)[k] = raw[k + 1]
            <7>1. raw \in Seq(Entries(Datagrams, Decoders)) /\ 1 \in DOMAIN raw
              BY <1>0, <4>2
            <7> QED
              BY <7>1, OrderOfAcked
          <6>2. raw' = Acked(raw, 1) /\ 1 \in 1..Len(raw)
            BY <1>0, <4>2, <4>4
          <6>3. Len(raw) > 0
            BY <1>0, <6>2
          <6> QED
            BY <6>1, <6>2, <6>3
        <5>2. HeadLeaves
          <6>1. decoder[w].out.d = raw[1].msg
            BY <1>1, <2>4 DEF DecoderSettles
          <6>2. Len(arrival') - Len(raw') = Len(arrival) - Len(raw) + 1
            BY <1>0, <2>2, <5>1
          <6> QED
            BY <1>0, <2>2, <4>4, <5>1, <6>1, <6>2 DEF HeadLeaves
        <5>3. \A k \in DOMAIN raw' : k \in 1..(Len(raw) - 1) /\ k + 1 \in 2..Len(raw)
          BY <1>0, <1>3, <5>1
        <5>4. HeldEntries(raw') = {}
          <6>1. \A k \in 2..Len(raw) : raw[k].by = Ready
            BY <1>0, <1>1 DEF HeldEntries
          <6> QED
            BY <5>1, <5>3, <6>1 DEF HeldEntries
        <5>5. \A k \in DOMAIN raw' : raw'[k].msg = arrival[Len(arrival) - Len(raw') + k]
          <6> SUFFICES ASSUME NEW k \in DOMAIN raw'
                       PROVE  raw'[k].msg = arrival[Len(arrival) - Len(raw') + k]
            OBVIOUS
          <6>1. raw'[k] = raw[k + 1] /\ k + 1 \in 1..Len(raw) /\ k \in Nat
            BY <1>0, <1>3, <5>1, <5>3
          <6>2. raw[k + 1].msg = arrival[Len(arrival) - Len(raw) + (k + 1)]
            BY <1>1, <6>1
          <6>3. Len(arrival) - Len(raw) + (k + 1) = Len(arrival) - Len(raw') + k
            BY <1>0, <1>3, <5>1, <6>1
          <6> QED
            BY <6>1, <6>2, <6>3
        <5>6. ArrivalsStay
          BY <1>0, <2>2 DEF ArrivalsStay
        <5>7. Len(raw') <= Len(arrival')
          BY <1>0, <1>1, <2>2, <5>1
        <5> QED
          BY <2>2, <3>1, <5>2, <5>4, <5>5, <5>6, <5>7 DEF RawInOrder, Handled
      <4> QED
        BY <2>1, <2>4, <3>2, <3>3, <4>2, <4>3, <4>4
           DEF DecoderStep, RefuseShort, LearnTemplate, DecodeData, SkipSet, FinishDecoding,
               PublishDecoded, RequeueRaw, SettleRaw, AckRaw
    <3> QED
      BY <2>4, <3>2, <3>3 DEF DecoderSettles
  <2> QED
    BY <2>1, <2>3, <2>4, DecoderStepKinds
<1>6. CASE \E d \in Datagrams : Receive(d) /\ up /\ rawConn
  <2>1. PICK d \in Datagrams : Receive(d) /\ up /\ rawConn
    BY <1>6
  <2>2. raw' = Published(raw, d) /\ arrival' = Append(arrival, d) /\ decoder' = decoder
    BY <2>1 DEF Receive
  <2>3. /\ Len(raw') = Len(raw) + 1
        /\ \A k \in 1..Len(raw) : raw'[k] = raw[k]
        /\ raw'[Len(raw) + 1] = [msg |-> d, by |-> Ready]
    BY <1>0, <2>2, OrderAfter
  <2>4. /\ Len(arrival') = Len(arrival) + 1
        /\ \A k \in 1..Len(arrival) : arrival'[k] = arrival[k]
        /\ arrival'[Len(arrival) + 1] = d
    BY <1>0, <2>2, AppendProperties
  <2>5. HeldEntries(raw') \subseteq {1}
    BY <1>0, <1>1, <1>3, <2>3 DEF HeldEntries
  <2>6. ASSUME NEW k \in DOMAIN raw'
        PROVE  raw'[k].msg = arrival'[Len(arrival') - Len(raw') + k]
    <3>1. Len(arrival') - Len(raw') = Len(arrival) - Len(raw)
      BY <1>0, <2>3, <2>4
    <3>2. CASE k \in 1..Len(raw)
      <4>1. Len(arrival) - Len(raw) + k \in 1..Len(arrival)
        BY <1>0, <1>1, <3>2
      <4> QED
        BY <1>1, <2>3, <2>4, <3>1, <3>2, <4>1
    <3>3. CASE k = Len(raw) + 1
      <4>1. Len(arrival) - Len(raw) + k = Len(arrival) + 1
        BY <1>0, <3>3
      <4> QED
        BY <2>3, <2>4, <3>1, <3>3, <4>1
    <3> QED
      BY <1>0, <1>3, <2>3, <3>2, <3>3
  <2>7. HeadStays /\ ArrivalsStay
    BY <1>0, <2>3, <2>4 DEF HeadStays, ArrivalsStay
  <2>8. Len(raw') <= Len(arrival')
    BY <1>0, <1>1, <2>3, <2>4
  <2>9. \A w \in Decoders :
            decoder'[w].pc # "idle" => Len(raw') > 0 /\ decoder'[w].out.d = raw'[1].msg
    BY <1>0, <1>1, <2>2, <2>3
  <2> QED
    BY <2>5, <2>6, <2>7, <2>8, <2>9 DEF RawInOrder, Handled
<1>7. CASE Die \/ BreakRaw
  <2>1. raw' = AllRequeued(raw) /\ arrival' = arrival
    BY <1>7 DEF Die, BreakRaw, history
  <2>2. /\ Len(raw') = Len(raw)
        /\ \A k \in 1..Len(raw) : raw'[k].msg = raw[k].msg /\ raw'[k].by = Ready
    BY <1>0, <2>1, OrderAfter
  <2>3. HeldEntries(raw') = {}
    BY <1>3, <2>2 DEF HeldEntries
  <2>4. \A w \in Decoders : decoder'[w].pc = "idle" \/ decoder'[w] = decoder[w]
    BY <1>7 DEF Die, BreakRaw, IdleDecoder
  <2> QED
    BY <1>1, <1>same, <2>1, <2>2, <2>3, <2>4
<1>8. CASE BreakDecoded
  <2>1. \A w \in Decoders :
            decoder'[w].pc # "idle" => decoder[w].pc # "idle" /\ decoder'[w].out = decoder[w].out
    <3>1. \A v \in Decoders :
                \/ decoder'[v] = decoder[v]
                \/ decoder[v].pc = "publish" /\ decoder'[v] = [decoder[v] EXCEPT !.pc = "ack"]
      BY <1>0, <1>8 DEF BreakDecoded
    <3> QED
      BY <1>0, <3>1 DEF DecoderLocals
  <2>2. raw' = raw /\ arrival' = arrival
    BY <1>8 DEF BreakDecoded
  <2> QED
    BY <1>1, <1>same, <2>1, <2>2
<1>9. CASE \/ \E w \in MetricWorkers : TakeDecoded(w) \/ MetricStep(w)
           \/ \E d \in Datagrams : Receive(d) /\ ~(up /\ rawConn)
           \/ Tick \/ Restart
  <2>1. UNCHANGED <<raw, arrival, decoder>>
    BY <1>9 DEF TakeDecoded, MetricStep, NothingToCount, IncrementCounters, ReadCounters,
                SetPercentages, SettleDecoded, Receive, Tick, Restart, history
  <2> QED
    BY <1>1, <1>same, <2>1
<1> QED
  BY <1>4, <1>5, <1>6, <1>7, <1>8, <1>9 DEF Next, Crash, DecoderPanics
-----------------------------------------------------------------------------
(***************************************************************************)
(* The templates the flows are decoded with.  The cache and the decoders.  *)
(***************************************************************************)

\* LastAnnounced in the next state.
LastAnnouncedNext(d, key, n) ==
    \E i \in 1..n :
        /\ arrival'[i] = d /\ Announces(d, key)
        /\ \A j \in 1..n : Announces(arrival'[j], key) => j <= i

\* What was announced last before a position stays so while more arrives behind it.
LEMMA AnnouncedStays ==
    ASSUME TypeOK, ArrivalsStay, NEW d, NEW key, NEW n \in 0..Len(arrival),
           LastAnnounced(d, key, n)
    PROVE  LastAnnouncedNext(d, key, n)
<1>1. Len(arrival) \in Nat /\ \A j \in 1..n : j \in 1..Len(arrival)
  BY LenProperties DEF TypeOK
<1>2. \A j \in 1..n : arrival'[j] = arrival[j]
  BY <1>1 DEF ArrivalsStay
<1> QED
  BY <1>2 DEF LastAnnounced, LastAnnouncedNext

LEMMA UsesLatestStays ==
    ASSUME TypeOK, TypeOK', ArrivalsStay, NEW m, UsesLatest(m)
    PROVE  UsesLatest(m)'
<1>1. /\ Len(arrival) \in Nat /\ DOMAIN arrival = 1..Len(arrival)
      /\ Len(arrival') \in Nat /\ DOMAIN arrival' = 1..Len(arrival')
  BY LenProperties DEF TypeOK
<1>2. PICK n \in DOMAIN arrival :
        /\ arrival[n] = m.d
        /\ \A use \in m.uses :
                \/ use[2] = m.d /\ Announces(m.d, use[1])
                \/ ~AnnouncesFirst(m.d, use[1]) /\ LastAnnounced(use[2], use[1], n - 1)
  BY DEF UsesLatest
<1>3. n \in DOMAIN arrival' /\ arrival'[n] = m.d /\ n - 1 \in 0..Len(arrival)
  BY <1>1, <1>2 DEF ArrivalsStay
<1>4. \A use \in m.uses :
            \/ use[2] = m.d /\ Announces(m.d, use[1])
            \/ ~AnnouncesFirst(m.d, use[1]) /\ LastAnnouncedNext(use[2], use[1], n - 1)
  BY <1>2, <1>3, AnnouncedStays
<1> QED
  BY <1>3, <1>4 DEF UsesLatest, LastAnnounced, LastAnnouncedNext

\* The positions the invariant speaks of.
LEMMA Positions ==
    ASSUME TypeOK, RawInOrder
    PROVE  /\ Len(raw) \in Nat /\ Len(arrival) \in Nat /\ DOMAIN arrival = 1..Len(arrival)
           /\ Handled \in 0..Len(arrival)
           /\ Len(raw) > 0 => /\ Handled + 1 \in 1..Len(arrival)
                              /\ raw[1].msg = arrival[Handled + 1]
<1>1. /\ Len(raw) \in Nat /\ Len(arrival) \in Nat /\ DOMAIN arrival = 1..Len(arrival)
      /\ DOMAIN raw = 1..Len(raw)
  BY LenProperties DEF TypeOK
<1>2. Len(raw) <= Len(arrival)
  BY DEF RawInOrder
<1>3. Handled \in 0..Len(arrival) /\ (Len(raw) > 0 => Handled + 1 \in 1..Len(arrival))
  BY <1>1, <1>2 DEF Handled
<1>4. Len(raw) > 0 => 1 \in DOMAIN raw
  BY <1>1
<1>5. Len(raw) > 0 => raw[1].msg = arrival[Handled + 1]
  BY <1>4 DEF RawInOrder
<1> QED
  BY <1>1, <1>3, <1>5

LEMMA BusyUsesLatest ==
    ASSUME TypeOK, RawInOrder, NEW w \in Decoders, DecoderInOrder(w), decoder[w].pc # "idle"
    PROVE  UsesLatest(decoder[w].out)
<1>1. Len(raw) > 0 /\ decoder[w].out.d = raw[1].msg
  BY DEF RawInOrder
<1>2. /\ Handled + 1 \in DOMAIN arrival /\ arrival[Handled + 1] = decoder[w].out.d
      /\ Handled \in Int
  BY <1>1, Positions
<1>3. (Handled + 1) - 1 = Handled
  BY <1>2
<1>4. \A use \in decoder[w].out.uses :
        \/ use[2] = decoder[w].out.d /\ Announces(decoder[w].out.d, use[1])
        \/ /\ ~AnnouncesFirst(decoder[w].out.d, use[1])
           /\ LastAnnounced(use[2], use[1], (Handled + 1) - 1)
  BY <1>3 DEF DecoderInOrder
<1> QED
  BY <1>2, <1>4 DEF UsesLatest

\* The cache changes when a template is learned and when the process dies.
LEMMA CacheChanges ==
    ASSUME Next
    PROVE  cache' = cache \/ Die \/ \E w \in Decoders : LearnTemplate(w)
BY DEF Next, Tick, Receive, TakeRaw, DecoderStep, RefuseShort, DecodeData, SkipSet,
       FinishDecoding, PublishDecoded, RequeueRaw, SettleRaw, DecoderPanics, TakeDecoded,
       MetricStep, NothingToCount, IncrementCounters, ReadCounters, SetPercentages,
       SettleDecoded, Crash, Restart, BreakRaw, BreakDecoded

LEMMA CacheInOrderStep ==
    ASSUME TypeOK, IInv, OrderInv, Prefetch = 1, Next, ArrivalsStay, HeadStays \/ HeadLeaves
    PROVE  CacheInOrder'
<1> DEFINE n == Len(arrival) - Len(raw)
           n2 == Len(arrival') - Len(raw')
<1>0. /\ RawInOrder /\ CacheInOrder /\ \A w \in Decoders : DecoderInOrder(w)
      /\ cache \in [Keys -> {None} \cup CachedTemplates]
  BY DEF OrderInv, TypeOK
<1>1. /\ n \in 0..Len(arrival) /\ Len(raw) \in Nat /\ Len(arrival) \in Nat
      /\ Len(raw) > 0 => n + 1 \in 1..Len(arrival) /\ raw[1].msg = arrival[n + 1]
  BY <1>0, Positions DEF Handled
<1>2. \A k \in Keys : cache[k] # None =>
        \/ LastAnnounced(cache[k].from, k, n)
        \/ Len(raw) > 0 /\ cache[k].from = raw[1].msg /\ Announces(raw[1].msg, k)
  BY <1>0 DEF CacheInOrder, Handled
<1>3. SUFFICES \A k \in Keys : cache'[k] # None =>
        \/ LastAnnouncedNext(cache'[k].from, k, n2)
        \/ Len(raw') > 0 /\ cache'[k].from = raw'[1].msg /\ Announces(raw'[1].msg, k)
  BY <1>3 DEF CacheInOrder, Handled, LastAnnounced, LastAnnouncedNext
<1>4. HeadStays => n2 = n
  BY DEF HeadStays
<1>5. HeadLeaves => n2 = n + 1
  BY DEF HeadLeaves
<1> HIDE DEF n, n2
<1>6. CASE HeadStays /\ cache' = cache
  <2>1. \A k \in Keys : cache[k] # None =>
            \/ LastAnnouncedNext(cache[k].from, k, n)
            \/ Len(raw') > 0 /\ cache[k].from = raw'[1].msg /\ Announces(raw'[1].msg, k)
    BY <1>1, <1>2, <1>6, AnnouncedStays DEF HeadStays
  <2> QED
    BY <1>4, <1>6, <2>1
<1>7. CASE Die
  BY <1>7 DEF Die, EmptyCache
<1>8. CASE HeadStays /\ \E w \in Decoders : LearnTemplate(w)
  <2>1. PICK w \in Decoders : LearnTemplate(w)
    BY <1>8
  <2> DEFINE key == CurrentSet(w).key
             d == decoder[w].out.d
             entry == [layout |-> CurrentSet(w).layout, from |-> d]
  <2>2. cache' = [cache EXCEPT ![key] = entry] /\ entry.from = d
    BY <2>1 DEF LearnTemplate
  <2>3. Announces(d, key) /\ d = raw[1].msg /\ Len(raw) > 0
    <3>1. /\ AtFlowSet(w) /\ CurrentSet(w).kind = "template"
          /\ decoder[w].pc = "decode" /\ Content[d].form = "ok"
      BY <2>1 DEF LearnTemplate, AtFlowSet
    <3>2. decoder[w].at \in DOMAIN Content[d].sets
      <4>1. /\ d \in Datagrams /\ decoder[w].at \in Nat \ {0}
            /\ decoder[w].at <= Len(Content[d].sets)
        BY <3>1 DEF IInv, WorkInProgress, Messages, TypeOK, DecoderLocals, AtFlowSet
      <4>2. Content[d].sets \in Seq(FlowSets)
        BY <4>1, ContentAssumption DEF ContentRecord
      <4> QED
        BY <4>1, <4>2, LenProperties
    <3>3. Announces(d, key)
      BY <3>1, <3>2 DEF Announces, CurrentSet
    <3> QED
      BY <1>0, <3>1, <3>3 DEF RawInOrder
  <2> HIDE DEF key, d, entry
  <2>4. \A k \in Keys : cache'[k] = IF k = key THEN entry ELSE cache[k]
    BY <1>0, <2>2
  <2>5. \A k \in Keys : k # key /\ cache[k] # None =>
            \/ LastAnnouncedNext(cache[k].from, k, n)
            \/ Len(raw') > 0 /\ cache[k].from = raw'[1].msg /\ Announces(raw'[1].msg, k)
    BY <1>1, <1>2, <1>8, AnnouncedStays DEF HeadStays
  <2>6. Len(raw') > 0 /\ raw'[1].msg = d
    BY <1>8, <2>3 DEF HeadStays
  <2> QED
    BY <1>4, <1>8, <2>2, <2>3, <2>4, <2>5, <2>6
<1>9. CASE HeadLeaves
  <2>1. PICK w \in Decoders :
            (RefuseShort(w) \/ SettleRaw(w)) /\ decoder[w].out.d = raw[1].msg
    BY <1>9 DEF HeadLeaves
  <2>2. cache' = cache /\ arrival' = arrival /\ Len(raw) > 0
    BY <1>9, <2>1 DEF RefuseShort, SettleRaw, HeadLeaves
  <2> DEFINE d == decoder[w].out.d
  <2>3. arrival[n + 1] = d /\ n + 1 \in Nat /\ n \in Nat
    BY <1>1, <2>1, <2>2
  <2>4. ASSUME NEW k \in Keys, cache[k] # None
        PROVE  LastAnnouncedNext(cache[k].from, k, n + 1)
    <3>1. CASE Announces(d, k)
      <4>1. SettleRaw(w)
        BY <2>1, <3>1 DEF RefuseShort, Announces
      <4>2. Learned(w, Len(Content[d].sets) + 1)
        BY <1>0, <4>1 DEF SettleRaw, DecoderInOrder
      <4>3. PICK i \in DOMAIN Content[d].sets :
                Content[d].sets[i].kind = "template" /\ Content[d].sets[i].key = k
        BY <3>1 DEF Announces
      <4>4. i < Len(Content[d].sets) + 1
        <5>1. d \in Datagrams
          BY <4>1 DEF SettleRaw, IInv, WorkInProgress, Messages
        <5>2. Content[d].sets \in Seq(FlowSets)
          BY <5>1, ContentAssumption DEF ContentRecord
        <5>3. i \in 1..Len(Content[d].sets) /\ Len(Content[d].sets) \in Nat
          BY <5>2, LenProperties
        <5> QED
          BY <5>3
      <4>5. cache[k].from = d
        BY <4>2, <4>3, <4>4 DEF Learned
      <4> QED
        BY <2>2, <2>3, <3>1, <4>5 DEF LastAnnouncedNext
    <3>2. CASE ~Announces(d, k)
      <4>1. LastAnnounced(cache[k].from, k, n)
        BY <1>2, <2>1, <2>4, <3>2
      <4>2. PICK i \in 1..n : /\ arrival[i] = cache[k].from /\ Announces(cache[k].from, k)
                              /\ \A j \in 1..n : Announces(arrival[j], k) => j <= i
        BY <4>1 DEF LastAnnounced
      <4>3. \A j \in 1..(n + 1) : j \in 1..n \/ j = n + 1
        BY <2>3
      <4>4. i \in 1..(n + 1) /\ \A j \in 1..(n + 1) : Announces(arrival[j], k) => j <= i
        BY <2>3, <3>2, <4>2, <4>3
      <4> QED
        BY <2>2, <4>2, <4>4 DEF LastAnnouncedNext
    <3> QED
      BY <3>1, <3>2
  <2> QED
    BY <1>5, <1>9, <2>2, <2>4
<1> QED
  BY <1>6, <1>7, <1>8, <1>9, CacheChanges

\* What a decoder has learned and used stays in order.
LEMMA DecoderInOrderStep ==
    ASSUME TypeOK, IInv, OrderInv, Prefetch = 1, Next, ArrivalsStay, HeadStays \/ HeadLeaves,
           NEW v \in Decoders
    PROVE  DecoderInOrder(v)'
<1> DEFINE M == decoder[v]
           N == decoder'[v]
           n == Len(arrival) - Len(raw)
           n2 == Len(arrival') - Len(raw')
           Has(d, at, c) ==
              \A i \in DOMAIN Content[d].sets :
                 i < at /\ Content[d].sets[i].kind = "template" =>
                    c[Content[d].sets[i].key].from = d
<1>0. /\ RawInOrder /\ CacheInOrder /\ DecoderInOrder(v)
      /\ cache \in [Keys -> {None} \cup CachedTemplates]
      /\ decoder \in [Decoders -> DecoderLocals]
      /\ M.pc # "idle" => M.out \in Messages /\ M.out.d \in Datagrams
  BY DEF OrderInv, TypeOK, IInv, WorkInProgress, Messages
<1>1. /\ n \in 0..Len(arrival) /\ Len(raw) \in Nat /\ Len(arrival) \in Nat
  BY <1>0, Positions DEF Handled
<1>2. /\ M.pc = "decode" /\ Content[M.out.d].form = "ok" => Has(M.out.d, M.at, cache)
      /\ M.pc \in {"publish", "ack"} =>
            /\ Content[M.out.d].form = "ok"
            /\ Has(M.out.d, Len(Content[M.out.d].sets) + 1, cache)
      /\ M.pc # "idle" => \A use \in M.out.uses :
            \/ use[2] = M.out.d /\ Announces(M.out.d, use[1])
            \/ ~AnnouncesFirst(M.out.d, use[1]) /\ LastAnnounced(use[2], use[1], n)
  BY <1>0 DEF DecoderInOrder, Learned, Handled
<1>3. SUFFICES
        /\ N.pc = "decode" /\ Content[N.out.d].form = "ok" => Has(N.out.d, N.at, cache')
        /\ N.pc \in {"publish", "ack"} =>
              /\ Content[N.out.d].form = "ok"
              /\ Has(N.out.d, Len(Content[N.out.d].sets) + 1, cache')
        /\ N.pc # "idle" => \A use \in N.out.uses :
              \/ use[2] = N.out.d /\ Announces(N.out.d, use[1])
              \/ ~AnnouncesFirst(N.out.d, use[1]) /\ LastAnnouncedNext(use[2], use[1], n2)
  BY <1>3 DEF DecoderInOrder, Learned, Handled, LastAnnounced, LastAnnouncedNext
<1>4. HeadStays => n2 = n
  BY DEF HeadStays
<1>5. M.pc # "idle" =>
            \A i \in DOMAIN Content[M.out.d].sets :
                /\ i \in Nat \ {0} /\ i <= Len(Content[M.out.d].sets)
                /\ Len(Content[M.out.d].sets) \in Nat
  <2>1. M.pc # "idle" => Content[M.out.d].sets \in Seq(FlowSets)
    BY <1>0, ContentAssumption DEF ContentRecord
  <2> QED
    BY <2>1, LenProperties
<1> HIDE DEF n, n2
\* The uses of the old message are in order in the next state.
<1>6. HeadStays /\ M.pc # "idle" => \A use \in M.out.uses :
            \/ use[2] = M.out.d /\ Announces(M.out.d, use[1])
            \/ ~AnnouncesFirst(M.out.d, use[1]) /\ LastAnnouncedNext(use[2], use[1], n2)
  BY <1>1, <1>2, <1>4, AnnouncedStays
<1>idle. CASE N.pc = "idle"
  BY <1>idle
<1>7. CASE HeadLeaves
  <2>1. PICK w \in Decoders : RefuseShort(w) \/ SettleRaw(w)
    BY <1>7 DEF HeadLeaves
  <2>2. N.pc = "idle"
    BY <1>0, <2>1 DEF RefuseShort, SettleRaw, IdleDecoder, IInv, OneBusy
  <2> QED
    BY <1>idle, <2>2
<1>8. CASE HeadStays /\ N = M /\ cache' = cache
  BY <1>2, <1>6, <1>8
<1>9. CASE HeadStays /\ \E w \in Decoders : w # v /\ (TakeRaw(w) \/ DecoderStep(w))
  <2>1. PICK w \in Decoders : w # v /\ (TakeRaw(w) \/ DecoderStep(w))
    BY <1>9
  <2>2. N = M
    BY <1>0, <2>1, DecoderStepKinds DEF TakeRaw, DecoderGoesOn, DecoderSettles
  <2>3. M.pc = "idle"
    <3>1. CASE TakeRaw(w)
      BY <3>1, TakenWhenIdle
    <3>2. CASE DecoderStep(w)
      <4>1. decoder[w].pc # "idle"
        BY <3>2, DecoderStepKinds DEF DecoderGoesOn, DecoderSettles
      <4> QED
        BY <2>1, <4>1 DEF IInv, OneBusy
    <3> QED
      BY <2>1, <3>1, <3>2
  <2> QED
    BY <1>idle, <2>2, <2>3
<1>10. CASE TakeRaw(v) /\ HeadStays
  <2>1. PICK i \in DOMAIN raw : decoder' = [decoder EXCEPT ![v] =
            [pc |-> "decode", at |-> 1, out |-> EmptyMessage(raw[i].msg)]]
    BY <1>10 DEF TakeRaw
  <2>2. raw[i].msg \in Datagrams
    <3>1. raw \in Seq(Entries(Datagrams, Decoders))
      BY DEF TypeOK
    <3> QED
      BY <3>1, DeliveredQueue
  <2>3. N.pc = "decode" /\ N.at = 1 /\ N.out.d \in Datagrams /\ N.out.uses = {}
    BY <1>0, <2>1, <2>2 DEF EmptyMessage
  <2>4. Content[N.out.d].sets \in Seq(FlowSets)
    BY <2>3, ContentAssumption DEF ContentRecord
  <2>5. \A k \in DOMAIN Content[N.out.d].sets : ~(k < 1)
    BY <2>4, LenProperties
  <2> QED
    BY <2>3, <2>5
\* At a flow set of its datagram.
<1>at. ASSUME AtFlowSet(v)
       PROVE  /\ M.pc = "decode" /\ Content[M.out.d].form = "ok" /\ M.at \in Nat
              /\ M.at \in DOMAIN Content[M.out.d].sets
              /\ CurrentSet(v) = Content[M.out.d].sets[M.at]
              /\ Has(M.out.d, M.at, cache)
              /\ Len(raw) > 0 /\ M.out.d = raw[1].msg
  <2>1. /\ M.pc = "decode" /\ M.pc # "idle" /\ Content[M.out.d].form = "ok"
        /\ M.at \in Nat \ {0} /\ M.at <= Len(Content[M.out.d].sets)
    BY <1>0, <1>at DEF AtFlowSet, DecoderLocals
  <2>2. Content[M.out.d].sets \in Seq(FlowSets)
    BY <1>0, <2>1, ContentAssumption DEF ContentRecord
  <2>3. M.at \in DOMAIN Content[M.out.d].sets
    BY <2>1, <2>2, LenProperties
  <2> QED
    BY <1>0, <1>2, <2>1, <2>3 DEF CurrentSet, RawInOrder
<1>11. CASE LearnTemplate(v) /\ HeadStays
  <2> DEFINE fs == CurrentSet(v)
             d == M.out.d
             entry == [layout |-> fs.layout, from |-> d]
  <2>1. /\ AtFlowSet(v) /\ fs.kind = "template" /\ cache' = [cache EXCEPT ![fs.key] = entry]
        /\ N = [pc |-> "decode", at |-> M.at + 1, out |-> M.out]
        /\ entry.from = d
    BY <1>0, <1>11 DEF LearnTemplate, NextSet
  <2>2. fs.key \in Keys
    BY <1>11, CurrentSetTypes DEF LearnTemplate, IInv
  <2>3. M.pc # "idle" /\ M.at \in Nat /\ fs = Content[d].sets[M.at] /\ Has(d, M.at, cache)
    BY <1>at, <2>1
  <2> HIDE DEF entry
  <2>4. cache'[fs.key].from = d /\ \A k : k # fs.key => cache'[k] = cache[k]
    BY <1>0, <2>1, <2>2
  <2>5. ASSUME NEW i \in DOMAIN Content[d].sets, i < M.at + 1,
               Content[d].sets[i].kind = "template"
        PROVE  cache'[Content[d].sets[i].key].from = d
    <3>1. i \in Nat
      BY <1>5, <2>3
    <3>2. i < M.at \/ i = M.at
      BY <2>3, <2>5, <3>1
    <3> QED
      BY <2>3, <2>4, <2>5, <3>2
  <2>6. N.pc = "decode" /\ N.at = M.at + 1 /\ N.out = M.out
    BY <2>1
  <2> QED
    BY <1>6, <1>11, <2>3, <2>5, <2>6
<1>12. CASE SkipSet(v) /\ HeadStays
  <2>1. /\ AtFlowSet(v) /\ CurrentSet(v).kind # "template" /\ cache' = cache
        /\ N = [pc |-> "decode", at |-> M.at + 1, out |-> M.out]
    BY <1>0, <1>12 DEF SkipSet, NextSet
  <2>2. /\ M.pc # "idle" /\ M.at \in Nat /\ Content[M.out.d].sets[M.at].kind # "template"
        /\ Has(M.out.d, M.at, cache)
    BY <1>at, <2>1
  <2>3. ASSUME NEW i \in DOMAIN Content[M.out.d].sets, i < M.at + 1,
               Content[M.out.d].sets[i].kind = "template"
        PROVE  cache[Content[M.out.d].sets[i].key].from = M.out.d
    <3> HIDE DEF M, Has
    <3>1. i \in Nat
      BY <1>5, <2>2
    <3>3. i # M.at
      BY <2>2, <2>3
    <3>4. M.at \in Nat /\ i < M.at + 1
      BY <2>2, <2>3
    <3>2. i < M.at
      BY <3>1, <3>3, <3>4
    <3> USE DEF Has
    <3> QED
      BY <2>2, <2>3, <3>2
  <2>4. N.pc = "decode" /\ N.at = M.at + 1 /\ N.out = M.out
    BY <2>1
  <2> QED
    BY <1>6, <1>12, <2>1, <2>2, <2>3, <2>4
<1>13. CASE DecodeData(v) /\ HeadStays
  <2> DEFINE fs == CurrentSet(v)
             d == M.out.d
             from == cache[fs.key].from
  <2>1. /\ AtFlowSet(v) /\ fs.kind = "data" /\ cache[fs.key] # None /\ cache' = cache
        /\ N.pc = "decode" /\ N.at = M.at + 1 /\ N.out.d = d
        /\ N.out.uses = M.out.uses \cup {<<fs.key, from>>}
    BY <1>0, <1>13 DEF DecodeData, NextSet
  <2>2. /\ M.pc # "idle" /\ M.at \in Nat /\ fs = Content[d].sets[M.at] /\ Has(d, M.at, cache)
        /\ Content[d].form = "ok" /\ d = raw[1].msg /\ M.at \in DOMAIN Content[d].sets
    BY <1>at, <2>1
  <2>3. ASSUME NEW i \in DOMAIN Content[d].sets, i < M.at + 1,
               Content[d].sets[i].kind = "template"
        PROVE  cache[Content[d].sets[i].key].from = d
    <3> HIDE DEF M, Has
    <3>1. i \in Nat
      BY <1>5, <2>2
    <3>3. i # M.at
      BY <2>1, <2>2, <2>3
    <3>4. M.at \in Nat /\ i < M.at + 1
      BY <2>2, <2>3
    <3>2. i < M.at
      BY <3>1, <3>3, <3>4
    <3> USE DEF Has
    <3> QED
      BY <2>2, <2>3, <3>2
  <2>4. fs.key \in Keys
    <3>1. fs.kind # "options"
      BY <2>1
    <3> QED
      BY <2>1, <3>1, CurrentSetTypes DEF IInv
  <2>5. AnnouncesFirst(d, fs.key) => from = d /\ Announces(d, fs.key)
    <3> SUFFICES ASSUME AnnouncesFirst(d, fs.key) PROVE from = d /\ Announces(d, fs.key)
      OBVIOUS
    <3>1. PICK i \in DOMAIN Content[d].sets :
            /\ Content[d].sets[i].kind = "template" /\ Content[d].sets[i].key = fs.key
            /\ \A j \in 1..(i - 1) :
                    ~(Content[d].sets[j].kind = "data" /\ Content[d].sets[j].key = fs.key)
      BY DEF AnnouncesFirst
    <3>4. i # M.at /\ M.at \notin 1..(i - 1)
      BY <2>1, <2>2, <3>1
    <3>5. i \in Nat /\ M.at \in Nat \ {0}
      <4> HIDE DEF M, Has
      <4>1. M.pc # "idle" /\ M.at \in DOMAIN Content[d].sets
        BY <2>2
      <4> QED
        BY <1>5, <4>1
    <3>2. i \in Nat /\ i # M.at /\ M.at \notin 1..(i - 1) /\ M.at \in Nat \ {0}
      BY <3>4, <3>5
    <3>3. i < M.at
      BY <3>2
    <3> QED
      BY <2>2, <3>1, <3>3 DEF Announces
  <2>6. \/ LastAnnounced(from, fs.key, n)
        \/ from = d /\ Announces(d, fs.key)
    BY <1>0, <2>1, <2>2, <2>4 DEF CacheInOrder, Handled, n
  <2>7. \/ from = d /\ Announces(d, fs.key)
        \/ ~AnnouncesFirst(d, fs.key) /\ LastAnnouncedNext(from, fs.key, n2)
    BY <1>1, <1>4, <1>13, <2>5, <2>6, AnnouncedStays
  <2> HIDE DEF fs, from
  <2>8. ASSUME NEW use \in N.out.uses
        PROVE  \/ use[2] = d /\ Announces(d, use[1])
               \/ ~AnnouncesFirst(d, use[1]) /\ LastAnnouncedNext(use[2], use[1], n2)
    <3>1. CASE use = <<fs.key, from>>
      BY <2>7, <3>1
    <3>2. CASE use \in M.out.uses
      BY <1>6, <1>13, <2>2, <3>2
    <3> QED
      BY <2>1, <3>1, <3>2
  <2> QED
    BY <2>1, <2>3, <2>8
<1>14. CASE FinishDecoding(v) /\ HeadStays
  <2>1. /\ M.pc = "decode" /\ Content[M.out.d].form = "ok" /\ cache' = cache
        /\ M.at > Len(Content[M.out.d].sets) /\ M.at \in Nat
        /\ N.pc = "publish" /\ N.out = M.out
    BY <1>0, <1>14 DEF FinishDecoding, DecoderLocals
  <2>2. Has(M.out.d, M.at, cache)
    BY <1>2, <2>1
  <2>3. \A i \in DOMAIN Content[M.out.d].sets : i < M.at
    BY <1>5, <2>1
  <2>4. Has(M.out.d, Len(Content[M.out.d].sets) + 1, cache)
    BY <2>2, <2>3
  <2> QED
    BY <1>6, <1>14, <2>1, <2>4
<1>15. CASE /\ M.pc = "publish" /\ N = [M EXCEPT !.pc = "ack"] /\ cache' = cache /\ HeadStays
  <2>1. N.pc = "ack" /\ N.out = M.out
    BY <1>0, <1>15 DEF DecoderLocals
  <2> QED
    BY <1>2, <1>6, <1>15, <2>1, ZenonT(40)
<1>16. CASE PublishDecoded(v) /\ HeadStays
  BY <1>0, <1>15, <1>16 DEF PublishDecoded
<1>17. CASE RefuseShort(v) \/ RequeueRaw(v) \/ SettleRaw(v) \/ Die
  <2>1. N.pc = "idle"
    BY <1>0, <1>17 DEF RefuseShort, RequeueRaw, SettleRaw, Die, IdleDecoder
  <2> QED
    BY <1>idle, <2>1
<1>18. CASE BreakDecoded /\ HeadStays
  <2>1. \/ N = M
        \/ M.pc = "publish" /\ N = [M EXCEPT !.pc = "ack"]
    BY <1>0, <1>18 DEF BreakDecoded
  <2>2. cache' = cache
    BY <1>18 DEF BreakDecoded
  <2> QED
    BY <1>8, <1>15, <1>18, <2>1, <2>2
<1>19. CASE /\ HeadStays
            /\ \/ \E w \in MetricWorkers : TakeDecoded(w) \/ MetricStep(w)
               \/ \E d \in Datagrams : Receive(d)
               \/ Tick \/ Restart \/ BreakRaw
  <2>1. UNCHANGED <<decoder, cache>>
    BY <1>19 DEF TakeDecoded, MetricStep, NothingToCount, IncrementCounters, ReadCounters,
                 SetPercentages, SettleDecoded, Receive, Tick, Restart, BreakRaw
  <2> QED
    BY <1>8, <1>19, <2>1
<1> QED
  <2> HIDE DEF M, N, Has
  <2>1. CASE HeadStays
    <3>1. CASE \E w \in Decoders : TakeRaw(w) \/ DecoderStep(w)
      BY <1>9, <1>10, <1>11, <1>12, <1>13, <1>14, <1>16, <1>17, <2>1, <3>1 DEF DecoderStep
    <3>2. CASE ~\E w \in Decoders : TakeRaw(w) \/ DecoderStep(w)
      BY <1>17, <1>18, <1>19, <2>1, <3>2 DEF Next, Crash, DecoderPanics
    <3> QED
      BY <3>1, <3>2
  <2> QED
    BY <1>7, <2>1

\* The decoded messages stay in order, a new one is of the first datagram.
LEMMA MessagesInOrderStep ==
    ASSUME TypeOK, IInv, KeptInv, OrderInv, Prefetch = 1, Next, ArrivalsStay,
           NEW m \in MessagesIn(dec')
    PROVE  UsesLatest(m)'
<1>1. TypeOK'
  BY Inductive
<1>2. UsesLatest(m)
  <2>1. CASE m \in MessagesIn(dec)
    BY <2>1 DEF OrderInv
  <2>2. CASE \E w \in Decoders : PublishDecoded(w) /\ m = decoder[w].out
    <3>1. PICK w \in Decoders : PublishDecoded(w) /\ m = decoder[w].out
      BY <2>2
    <3>2. decoder[w].pc # "idle" /\ RawInOrder /\ DecoderInOrder(w)
      BY <3>1 DEF PublishDecoded, OrderInv
    <3> QED
      BY <3>1, <3>2, BusyUsesLatest
  <2> QED
    BY <2>1, <2>2, DecodedMessagesKept
<1> QED
  BY <1>1, <1>2, UsesLatestStays

LEMMA OrderInit == Init => OrderInv
<1> SUFFICES ASSUME Init PROVE OrderInv
  OBVIOUS
<1>1. /\ DOMAIN raw = {} /\ DOMAIN dec = {} /\ Len(raw) = 0 /\ Len(arrival) = 0
      /\ \A w \in Decoders : decoder[w].pc = "idle"
      /\ \A k \in Keys : cache[k] = None
  BY EmptySeq DEF Init, IdleDecoder, EmptyCache
<1> QED
  BY <1>1 DEF OrderInv, RawInOrder, CacheInOrder, DecoderInOrder, MessagesIn, HeldEntries

LEMMA OrderInductive == TypeOK /\ IInv /\ KeptInv /\ OrderInv /\ [Next]_vars => OrderInv'
<1> SUFFICES ASSUME TypeOK, IInv, KeptInv, OrderInv, [Next]_vars, Prefetch = 1
             PROVE  OrderInv'
  BY DEF OrderInv
<1>1. CASE Next
  <2>1. RawInOrder' /\ ArrivalsStay /\ (HeadStays \/ HeadLeaves)
    BY <1>1, RawInOrderStep DEF KeptInv
  <2>2. CacheInOrder'
    BY <1>1, <2>1, CacheInOrderStep
  <2>3. \A w \in Decoders : DecoderInOrder(w)'
    BY <1>1, <2>1, DecoderInOrderStep
  <2>4. \A m \in MessagesIn(dec') : UsesLatest(m)'
    BY <1>1, <2>1, MessagesInOrderStep
  <2> QED
    BY <2>1, <2>2, <2>3, <2>4 DEF OrderInv, MessagesIn
<1>2. CASE UNCHANGED vars
  <2>1. UNCHANGED <<raw, dec, cache, decoder, arrival>>
    BY <1>2 DEF vars
  <2>2. RawInOrder'
    BY <2>1 DEF OrderInv, RawInOrder, Handled, HeldEntries
  <2>3. CacheInOrder'
    BY <2>1 DEF OrderInv, CacheInOrder, Handled, LastAnnounced
  <2>4. ASSUME NEW w \in Decoders PROVE DecoderInOrder(w)'
    <3>1. DecoderInOrder(w)
      BY DEF OrderInv
    <3> QED
      BY <2>1, <3>1 DEF DecoderInOrder, Learned, Handled, LastAnnounced
  <2>5. \A m \in MessagesIn(dec') : UsesLatest(m)'
    BY <2>1 DEF OrderInv, UsesLatest, LastAnnounced
  <2> QED
    BY <2>1, <2>2, <2>3, <2>4, <2>5 DEF OrderInv, MessagesIn
<1> QED
  BY <1>1, <1>2

\* With a prefetch limit of one, flows are decoded with the template that their domain
\* announced last before them in the order of arrival, for any datagrams and any number of
\* workers and faults: redeliveries, restarts with an empty cache and repeated decoding do
\* not bring an older template back nor a later one forward.
THEOREM TemplatesInOrder == Spec => []TemplatesLatest
<1>1. TypeOK /\ OrderInv => TemplatesLatest
  <2> SUFFICES ASSUME TypeOK, OrderInv, Prefetch = 1
               PROVE  /\ \A i \in DOMAIN dec : UsesLatest(dec[i].msg)
                      /\ \A w \in Decoders : decoder[w].pc # "idle" => UsesLatest(decoder[w].out)
    BY DEF TemplatesLatest
  <2>1. \A i \in DOMAIN dec : UsesLatest(dec[i].msg)
    BY DEF OrderInv, MessagesIn
  <2>2. \A w \in Decoders : decoder[w].pc # "idle" => UsesLatest(decoder[w].out)
    BY BusyUsesLatest DEF OrderInv
  <2> QED
    BY <2>1, <2>2
<1> QED
  BY <1>1, TypeInit, InvInit, KeptInit, OrderInit, Inductive, KeptInductive, OrderInductive,
     PTL DEF Spec
-----------------------------------------------------------------------------
(***************************************************************************)
(* Nothing is lost.  What the decoders know when they are through.         *)
(***************************************************************************)

\* A key that nothing handled has announced stays so while the first message stays.
LEMMA NoneAnnouncedStays ==
    ASSUME TypeOK, RawInOrder, ArrivalsStay, HeadStays, NEW k, NoneAnnounced(k)
    PROVE  NoneAnnounced(k)'
<1>1. Handled \in 0..Len(arrival) /\ Len(arrival) \in Nat
  BY Positions
<1>2. Handled' = Handled
  BY DEF Handled, HeadStays
<1>3. \A j \in 1..Handled : j \in 1..Len(arrival)
  BY <1>1
<1> HIDE DEF Handled
<1> QED
  BY <1>2, <1>3 DEF NoneAnnounced, ArrivalsStay

\* What is forgotten is so until it is learned again.
LEMMA ForgottenChanges ==
    ASSUME Next
    PROVE  \/ UNCHANGED <<cache, forgotten>>
           \/ Die
           \/ \E w \in Decoders : LearnTemplate(w)
BY DEF Next, Tick, Receive, TakeRaw, DecoderStep, RefuseShort, DecodeData, SkipSet,
       FinishDecoding, PublishDecoded, RequeueRaw, SettleRaw, DecoderPanics, TakeDecoded,
       MetricStep, NothingToCount, IncrementCounters, ReadCounters, SetPercentages,
       SettleDecoded, Crash, Restart, BreakRaw, BreakDecoded, history

\* The template a decoder learns is in the cache.
LEMMA TemplateIsLearned ==
    ASSUME TypeOK, IInv, NEW w \in Decoders, LearnTemplate(w)
    PROVE  /\ CurrentSet(w).key \in Keys
           /\ cache'[CurrentSet(w).key] # None
           /\ \A k \in Keys : k # CurrentSet(w).key => cache'[k] = cache[k]
           /\ forgotten' = forgotten \ {CurrentSet(w).key}
<1> DEFINE fs == CurrentSet(w)
           entry == [layout |-> fs.layout, from |-> decoder[w].out.d]
<1>1. /\ AtFlowSet(w) /\ fs.kind = "template" /\ cache' = [cache EXCEPT ![fs.key] = entry]
      /\ forgotten' = forgotten \ {fs.key}
  BY DEF LearnTemplate
<1>2. fs \in FlowSets /\ fs.key \in Keys
  BY <1>1, CurrentSetTypes DEF IInv
<1>3. entry # None
  <2>1. fs.layout \in Layouts
    BY <1>1, <1>2, FlowSetTypes
  <2>2. decoder[w].out.d \in Datagrams
    BY <1>1 DEF AtFlowSet, IInv, WorkInProgress, Messages
  <2>3. entry \in [layout : Layouts, from : Datagrams]
    BY <2>1, <2>2
  <2> QED
    BY <2>3, WorkersAssumption
<1> HIDE DEF fs, entry
<1>4. cache \in [Keys -> {None} \cup CachedTemplates]
  BY DEF TypeOK
<1>5. cache'[fs.key] # None /\ \A k \in Keys : k # fs.key => cache'[k] = cache[k]
  BY <1>1, <1>2, <1>3, <1>4
<1> QED
  BY <1>1, <1>2, <1>5 DEF fs

\* A key that is neither cached nor forgotten was announced by nothing that is handled.
LEMMA ForgottenStep ==
    ASSUME TypeOK, IInv, OrderInv, ForgottenInv, Prefetch = 1, Next, ArrivalsStay,
           HeadStays \/ HeadLeaves,
           NEW k \in Keys, cache'[k] = None, k \notin forgotten'
    PROVE  NoneAnnounced(k)'
<1>0. /\ RawInOrder
      /\ cache[k] = None /\ k \notin forgotten => NoneAnnounced(k)
      /\ cache \in [Keys -> {None} \cup CachedTemplates]
  BY DEF OrderInv, ForgottenInv, TypeOK
<1>1. cache[k] = None /\ k \notin forgotten
  <2>1. CASE Die
    BY <2>1 DEF Die
  <2>2. CASE \E w \in Decoders : LearnTemplate(w)
    <3>1. PICK w \in Decoders : LearnTemplate(w)
      BY <2>2
    <3> QED
      BY <3>1, TemplateIsLearned
  <2> QED
    BY <2>1, <2>2, ForgottenChanges
<1>2. CASE HeadStays
  BY <1>0, <1>1, <1>2, NoneAnnouncedStays
<1>3. CASE HeadLeaves
  <2>1. PICK w \in Decoders :
            (RefuseShort(w) \/ SettleRaw(w)) /\ decoder[w].out.d = raw[1].msg
    BY <1>3 DEF HeadLeaves
  <2> DEFINE d == decoder[w].out.d
  <2>2. ~Announces(d, k)
    <3>1. CASE RefuseShort(w)
      BY <3>1 DEF RefuseShort, Announces
    <3>2. CASE SettleRaw(w)
      <4>1. /\ decoder[w].pc = "ack" /\ Content[d].form = "ok" /\ d \in Datagrams
        BY <3>2 DEF SettleRaw, OrderInv, DecoderInOrder, IInv, WorkInProgress, Messages
      <4>2. WentThrough(w)
        BY <4>1 DEF ForgottenInv
      <4>3. \A i \in DOMAIN Content[d].sets :
                Content[d].sets[i].kind = "template" => cache[Content[d].sets[i].key] # None
        BY <4>1, <4>2 DEF WentThrough, SetDone
      <4> QED
        BY <1>1, <4>3 DEF Announces
    <3> QED
      BY <2>1, <3>1, <3>2
  <2>3. /\ arrival' = arrival /\ Len(raw) > 0 /\ Handled' = Handled + 1
    BY <1>3 DEF HeadLeaves, Handled
  <2>4. Handled \in Nat /\ arrival[Handled + 1] = d
    BY <1>0, <2>1, <2>3, Positions
  <2> HIDE DEF d, Handled
  <2>5. \A j \in 1..(Handled + 1) : j \in 1..Handled \/ j = Handled + 1
    BY <2>4
  <2> QED
    BY <1>0, <1>1, <2>2, <2>3, <2>4, <2>5 DEF NoneAnnounced
<1> QED
  BY <1>2, <1>3

\* A set that is done stays so, for the message as it was.
SetDoneNext(m, i) ==
    LET fs == Content[m.d].sets[i] IN
    /\ fs.kind = "template" => cache'[fs.key] # None
    /\ fs.kind = "data" => \/ m.d \in lost'
                           \/ \A j \in 1..(Len(arrival') - Len(raw')) :
                                    ~Announces(arrival'[j], fs.key)
                           \/ \E use \in m.uses : use[1] = fs.key

LEMMA SetDoneStays ==
    ASSUME TypeOK, IInv, OrderInv, Prefetch = 1, Next, ~Die, ArrivalsStay, HeadStays,
           NEW m, m.d \in Datagrams,
           NEW i \in DOMAIN Content[m.d].sets, SetDone(m, i)
    PROVE  SetDoneNext(m, i)
<1> DEFINE fs == Content[m.d].sets[i]
<1>0. Content[m.d].sets \in Seq(FlowSets)
  BY ContentAssumption DEF ContentRecord
<1>1. fs.kind # "options" => fs.key \in Keys
  <2>1. i \in Nat \ {0} /\ i <= Len(Content[m.d].sets)
    BY <1>0, LenProperties
  <2> QED
    BY <2>1, ContentTypes
<1>2. \A k \in Keys : cache[k] # None => cache'[k] # None
  BY ForgottenChanges, TemplateIsLearned
<1>3. lost \subseteq lost'
  BY HistoriesGrow
<1>4. \A k : NoneAnnounced(k) =>
            \A j \in 1..(Len(arrival') - Len(raw')) : ~Announces(arrival'[j], k)
  BY NoneAnnouncedStays DEF OrderInv, NoneAnnounced, Handled
<1>5. /\ fs.kind = "template" => cache[fs.key] # None
      /\ fs.kind = "data" => \/ m.d \in lost \/ NoneAnnounced(fs.key)
                             \/ \E use \in m.uses : use[1] = fs.key
  BY DEF SetDone
<1> HIDE DEF fs
<1>6. /\ fs.kind = "template" => cache'[fs.key] # None
      /\ fs.kind = "data" => \/ m.d \in lost'
                             \/ \A j \in 1..(Len(arrival') - Len(raw')) :
                                      ~Announces(arrival'[j], fs.key)
                             \/ \E use \in m.uses : use[1] = fs.key
  BY <1>1, <1>2, <1>3, <1>4, <1>5
<1> QED
  BY <1>6 DEF SetDoneNext, fs

\* The set a decoder decodes is recorded with its template.
LEMMA SetIsDecoded ==
    ASSUME TypeOK, NEW w \in Decoders, DecodeData(w)
    PROVE  /\ AtFlowSet(w) /\ CurrentSet(w).kind = "data"
           /\ decoder'[w].pc = "decode" /\ decoder'[w].at = decoder[w].at + 1
           /\ decoder'[w].out.d = decoder[w].out.d
           /\ decoder'[w].out.uses = decoder[w].out.uses
                    \cup {<<CurrentSet(w).key, cache[CurrentSet(w).key].from>>}
<1>1. decoder \in [Decoders -> DecoderLocals]
  BY DEF TypeOK
<1> QED
  BY <1>1 DEF DecodeData, NextSet

\* What a decoder has been through stays done, and so does the set it goes on to.
LEMMA WentThroughStep ==
    ASSUME TypeOK, IInv, OrderInv, ForgottenInv, Prefetch = 1, Next, ArrivalsStay,
           HeadStays \/ HeadLeaves, NEW v \in Decoders,
           decoder'[v].pc # "idle", Content[decoder'[v].out.d].form = "ok"
    PROVE  WentThrough(v)'
<1> DEFINE M == decoder[v]
           N == decoder'[v]
           Behind(l, i) == l.pc = "decode" => i < l.at
<1>0. /\ decoder \in [Decoders -> DecoderLocals]
      /\ M.pc # "idle" => M.out \in Messages /\ M.out.d \in Datagrams
      /\ M.pc \in {"publish", "ack"} => Content[M.out.d].form = "ok"
  BY DEF TypeOK, IInv, WorkInProgress, Messages, OrderInv, DecoderInOrder
<1>1. SUFFICES \A i \in DOMAIN Content[N.out.d].sets : Behind(N, i) => SetDoneNext(N.out, i)
  BY <1>1 DEF WentThrough, SetDone, SetDoneNext, NoneAnnounced, Handled
<1>2. M.pc # "idle" /\ Content[M.out.d].form = "ok" =>
            \A i \in DOMAIN Content[M.out.d].sets : Behind(M, i) => SetDone(M.out, i)
  BY DEF ForgottenInv, WentThrough
<1>3. M.pc # "idle" =>
            \A i \in DOMAIN Content[M.out.d].sets :
                i \in Nat \ {0} /\ i <= Len(Content[M.out.d].sets)
  <2>1. M.pc # "idle" => Content[M.out.d].sets \in Seq(FlowSets)
    BY <1>0, ContentAssumption DEF ContentRecord
  <2> QED
    BY <2>1, LenProperties
<1>4. ~Die
  BY DEF Die, IdleDecoder
<1>5. HeadStays
  <2>1. ASSUME NEW w \in Decoders, RefuseShort(w) \/ SettleRaw(w)
        PROVE  N.pc = "idle"
    BY <1>0, <2>1 DEF RefuseShort, SettleRaw, IdleDecoder, IInv, OneBusy
  <2> QED
    BY <2>1 DEF HeadLeaves
\* The sets it was through are done, for the message it had.
<1>6. ASSUME M.pc # "idle", Content[M.out.d].form = "ok",
             NEW i \in DOMAIN Content[M.out.d].sets, Behind(M, i)
      PROVE  SetDoneNext(M.out, i)
  <2>1. SetDone(M.out, i)
    BY <1>2, <1>6
  <2>2. M.out.d \in Datagrams
    BY <1>0, <1>6
  <2> HIDE DEF M, Behind
  <2> QED
    BY <1>4, <1>5, <2>1, <2>2, SetDoneStays
<1>7. CASE N = M
  BY <1>6, <1>7
<1>8. CASE TakeRaw(v)
  <2>1. PICK i \in DOMAIN raw : decoder' = [decoder EXCEPT ![v] =
            [pc |-> "decode", at |-> 1, out |-> EmptyMessage(raw[i].msg)]]
    BY <1>8 DEF TakeRaw
  <2>2. raw \in Seq(Entries(Datagrams, Decoders)) /\ raw[i].msg \in Datagrams
    BY DeliveredQueue DEF TypeOK
  <2>3. N.pc = "decode" /\ N.at = 1 /\ N.out.d \in Datagrams
    BY <1>0, <2>1, <2>2 DEF EmptyMessage
  <2>4. Content[N.out.d].sets \in Seq(FlowSets)
    BY <2>3, ContentAssumption DEF ContentRecord
  <2>5. \A k \in DOMAIN Content[N.out.d].sets : ~(k < 1)
    BY <2>4, LenProperties
  <2> QED
    BY <2>3, <2>5
\* The loop goes on: the set it was at is done, too.
<1>9. ASSUME AtFlowSet(v),
             N.pc = "decode", N.at = M.at + 1, N.out.d = M.out.d, M.out.uses \subseteq N.out.uses,
             SetDoneNext(N.out, M.at)
      PROVE  \A i \in DOMAIN Content[N.out.d].sets : Behind(N, i) => SetDoneNext(N.out, i)
  <2>1. M.pc = "decode" /\ Content[M.out.d].form = "ok" /\ M.at \in Nat
    BY <1>0, <1>9 DEF AtFlowSet, DecoderLocals
  <2>2. ASSUME NEW i \in DOMAIN Content[M.out.d].sets, i < M.at + 1, i # M.at
        PROVE  SetDoneNext(M.out, i)
    <3>1. i \in Nat
      BY <1>3, <2>1
    <3>2. i < M.at
      BY <2>1, <2>2, <3>1
    <3> QED
      BY <1>6, <2>1, <3>2
  <2>3. \A i : SetDoneNext(M.out, i) => SetDoneNext(N.out, i)
    BY <1>9 DEF SetDoneNext
  <2> QED
    BY <1>9, <2>2, <2>3
<1>10. CASE LearnTemplate(v)
  <2>1. /\ AtFlowSet(v) /\ CurrentSet(v).kind = "template"
        /\ N = [pc |-> "decode", at |-> M.at + 1, out |-> M.out]
    BY <1>0, <1>10 DEF LearnTemplate, NextSet
  <2>2. cache'[CurrentSet(v).key] # None
    BY <1>10, TemplateIsLearned
  <2>3. SetDoneNext(N.out, M.at)
    <3> DEFINE fs == Content[N.out.d].sets[M.at]
    <3>0. N.out = M.out
      BY <2>1
    <3>1. cache'[fs.key] # None /\ fs.kind = "template"
      <4> HIDE DEF N
      <4> QED
        BY <2>1, <2>2, <3>0 DEF CurrentSet
    <3>2. fs.kind # "data"
      BY <3>1
    <3> HIDE DEF M, N
    <3> QED
      BY <3>1, <3>2 DEF SetDoneNext
  <2> QED
    BY <1>9, <2>1, <2>3
<1>11. CASE DecodeData(v)
  <2>1. /\ AtFlowSet(v) /\ CurrentSet(v).kind = "data"
        /\ N.pc = "decode" /\ N.at = M.at + 1 /\ N.out.d = M.out.d
        /\ N.out.uses = M.out.uses \cup {<<CurrentSet(v).key, cache[CurrentSet(v).key].from>>}
    BY <1>11, SetIsDecoded
  <2>2. \E use \in N.out.uses : use[1] = CurrentSet(v).key
    <3> DEFINE pair == <<CurrentSet(v).key, cache[CurrentSet(v).key].from>>
    <3>1. pair \in N.out.uses /\ pair[1] = CurrentSet(v).key
      BY <2>1
    <3> HIDE DEF pair, M, N
    <3> QED
      BY <3>1, Zenon
  <2>3. SetDoneNext(N.out, M.at)
    <3> DEFINE fs == Content[N.out.d].sets[M.at]
    <3>1. /\ fs.kind = "data"
          /\ \E use \in N.out.uses : use[1] = fs.key
      BY <2>1, <2>2 DEF CurrentSet
    <3>2. fs.kind # "template"
      BY <3>1
    <3> HIDE DEF M, N
    <3> QED
      BY <3>1, <3>2 DEF SetDoneNext
  <2> QED
    BY <1>9, <2>1, <2>3
<1>12. CASE SkipSet(v)
  <2> DEFINE fs == CurrentSet(v)
  <2>1. /\ AtFlowSet(v) /\ N = [pc |-> "decode", at |-> M.at + 1, out |-> M.out]
        /\ \/ fs.kind = "options"
           \/ /\ fs.kind = "data" /\ cache[fs.key] = None
              /\ fs.key \in forgotten => M.out.d \in lost'
    BY <1>0, <1>12 DEF SkipSet, NextSet
  <2>2. fs.kind = "data" => M.out.d \in lost' \/ NoneAnnounced(fs.key)
    <3>1. fs.kind = "data" => fs.key \in Keys
      BY <2>1, CurrentSetTypes DEF IInv
    <3> QED
      BY <2>1, <3>1 DEF ForgottenInv
  <2>3. SetDoneNext(N.out, M.at)
    <3>1. NoneAnnounced(fs.key) =>
            \A j \in 1..(Len(arrival') - Len(raw')) : ~Announces(arrival'[j], fs.key)
      BY <1>5, NoneAnnouncedStays DEF OrderInv, NoneAnnounced, Handled
    <3>2. fs.kind # "template" /\ fs = Content[N.out.d].sets[M.at] /\ N.out = M.out
      <4>1. N.out = M.out
        BY <2>1
      <4>2. fs.kind # "template"
        BY <2>1, Zenon
      <4>3. fs = Content[M.out.d].sets[M.at]
        BY Zenon DEF CurrentSet
      <4> HIDE DEF fs, M, N
      <4> QED BY <4>1, <4>2, <4>3
    <3> HIDE DEF fs
    <3> QED
      BY <2>2, <3>1, <3>2 DEF SetDoneNext
  <2> QED
    BY <1>9, <2>1, <2>3
<1>13. CASE FinishDecoding(v)
  <2>1. /\ M.pc = "decode" /\ Content[M.out.d].form = "ok" /\ M.at \in Nat
        /\ M.at > Len(Content[M.out.d].sets) /\ N.pc = "publish" /\ N.out = M.out
    BY <1>0, <1>13 DEF FinishDecoding, DecoderLocals
  <2>2. \A i \in DOMAIN Content[M.out.d].sets : i < M.at
    <3>1. Content[M.out.d].sets \in Seq(FlowSets)
      BY <1>0, <2>1, ContentAssumption DEF ContentRecord
    <3> QED
      BY <2>1, <3>1, LenProperties
  <2> QED
    BY <1>6, <2>1, <2>2
<1>14. CASE M.pc = "publish" /\ N = [M EXCEPT !.pc = "ack"]
  <2>1. N.pc = "ack" /\ N.out = M.out
    BY <1>0, <1>14 DEF DecoderLocals
  <2> QED
    BY <1>0, <1>6, <1>14, <2>1
<1>15. CASE \E w \in Decoders : w # v /\ (TakeRaw(w) \/ DecoderStep(w))
  <2>1. PICK w \in Decoders : w # v /\ (TakeRaw(w) \/ DecoderStep(w))
    BY <1>15
  <2> QED
    BY <1>0, <1>7, <2>1, DecoderStepKinds DEF TakeRaw, DecoderGoesOn, DecoderSettles
<1>16. CASE RefuseShort(v) \/ RequeueRaw(v) \/ SettleRaw(v)
  <2>1. N.pc = "idle"
    BY <1>0, <1>16 DEF RefuseShort, RequeueRaw, SettleRaw, IdleDecoder
  <2> QED
    BY <2>1
<1>17. CASE PublishDecoded(v) \/ BreakDecoded
  <2>1. N = M \/ (M.pc = "publish" /\ N = [M EXCEPT !.pc = "ack"])
    BY <1>0, <1>17 DEF PublishDecoded, BreakDecoded
  <2> QED
    BY <1>7, <1>14, <2>1
<1>18. CASE \/ \E w \in MetricWorkers : TakeDecoded(w) \/ MetricStep(w)
            \/ \E d \in Datagrams : Receive(d)
            \/ Tick \/ Restart \/ BreakRaw
  <2>1. decoder' = decoder
    BY <1>18 DEF TakeDecoded, MetricStep, NothingToCount, IncrementCounters, ReadCounters,
                 SetPercentages, SettleDecoded, Receive, Tick, Restart, BreakRaw
  <2> QED
    BY <1>7, <2>1
<1> QED
  <2> HIDE DEF M, N, Behind
  <2>1. CASE \E w \in Decoders : TakeRaw(w) \/ DecoderStep(w)
    BY <1>8, <1>10, <1>11, <1>12, <1>13, <1>15, <1>16, <1>17, <2>1 DEF DecoderStep
  <2>2. CASE ~\E w \in Decoders : TakeRaw(w) \/ DecoderStep(w)
    BY <1>4, <1>17, <1>18, <2>2 DEF Next, Crash, DecoderPanics
  <2> QED
    BY <2>1, <2>2

LEMMA ForgottenInit == Init => ForgottenInv
<1> SUFFICES ASSUME Init PROVE ForgottenInv
  OBVIOUS
<1>1. /\ Len(raw) = 0 /\ Len(arrival) = 0 /\ \A w \in Decoders : decoder[w].pc = "idle"
  BY EmptySeq DEF Init, IdleDecoder
<1> QED
  BY <1>1 DEF ForgottenInv, NoneAnnounced, Handled

LEMMA ForgottenInductive ==
    TypeOK /\ IInv /\ KeptInv /\ OrderInv /\ ForgottenInv /\ [Next]_vars => ForgottenInv'
<1> SUFFICES ASSUME TypeOK, IInv, KeptInv, OrderInv, ForgottenInv, [Next]_vars, Prefetch = 1
             PROVE  ForgottenInv'
  BY DEF ForgottenInv
<1>1. CASE Next
  <2>1. ArrivalsStay /\ (HeadStays \/ HeadLeaves)
    BY <1>1, RawInOrderStep DEF KeptInv
  <2>2. \A k \in Keys : cache'[k] = None /\ k \notin forgotten' => NoneAnnounced(k)'
    BY <1>1, <2>1, ForgottenStep
  <2>3. \A w \in Decoders :
            decoder'[w].pc # "idle" /\ Content[decoder'[w].out.d].form = "ok" => WentThrough(w)'
    BY <1>1, <2>1, WentThroughStep
  <2> QED
    BY <2>2, <2>3 DEF ForgottenInv
<1>2. CASE UNCHANGED vars
  BY <1>2 DEF vars, ForgottenInv, NoneAnnounced, Handled, WentThrough, SetDone
<1> QED
  BY <1>1, <1>2

\* A datagram that was queued is in one of the queues, with a decoder, counted, or had
\* nothing to count, was lost with the connection or lacks a template that a restart forgot,
\* for any number of workers, prefetch limit and faults: nothing the processes do between
\* the two queues, their memory and the database, and no crash or break at any other point
\* of it, drops one.  And with a prefetch limit of one, what leaves a decoder is decoded in
\* full: a data set is skipped only if nothing that arrived before announced its template,
\* or else its datagram is among those a restart has cost.
THEOREM NothingDisappears == Spec => []NothingLost
<1>1. ASSUME TypeOK, OrderInv, ForgottenInv, Prefetch = 1, NEW w \in Decoders,
             decoder[w].pc \in {"publish", "ack"}, decoder[w].out.d \notin lost
      PROVE  DecodedInFull(decoder[w].out)
  <2> DEFINE m == decoder[w].out
  <2>1. /\ RawInOrder /\ decoder[w].pc # "idle" /\ decoder[w].pc # "decode"
        /\ Content[m.d].form = "ok"
    BY <1>1 DEF OrderInv, DecoderInOrder
  <2>2. \A i \in DOMAIN Content[m.d].sets : SetDone(m, i)
    BY <1>1, <2>1 DEF ForgottenInv, WentThrough
  <2>3. /\ Handled + 1 \in DOMAIN arrival /\ arrival[Handled + 1] = m.d /\ Handled \in Nat
    BY <1>1, <2>1, Positions DEF RawInOrder
  <2>4. \A k : NoneAnnounced(k) => HadNoTemplate(m.d, k)
    <3> HIDE DEF Handled, m
    <3>1. (Handled + 1) - 1 = Handled
      BY <2>3
    <3> QED
      BY <2>3, <3>1 DEF NoneAnnounced, HadNoTemplate
  <2> QED
    BY <1>1, <2>2, <2>4 DEF SetDone, DecodedInFull
<1>2. TypeOK /\ KeptInv /\ OrderInv /\ ForgottenInv => NothingLost
  BY <1>1, QueuedIsKept DEF NothingLost
<1> QED
  BY <1>2, TypeInit, InvInit, KeptInit, OrderInit, ForgottenInit, Inductive, KeptInductive,
     OrderInductive, ForgottenInductive, PTL DEF Spec
-----------------------------------------------------------------------------
(***************************************************************************)
(* The accounting.  How a step moves what is to be decoded.                *)
(***************************************************************************)

\* No two entries of the raw queue are of the same datagram.
LEMMA RawOnce ==
    ASSUME TypeOK, RawInOrder, ArrivalOnce
    PROVE  \A i, j \in DOMAIN raw : raw[i].msg = raw[j].msg => i = j
<1>1. /\ DOMAIN raw = 1..Len(raw) /\ Len(raw) \in Nat
      /\ DOMAIN arrival = 1..Len(arrival) /\ Len(arrival) \in Nat
  BY LenProperties DEF TypeOK
<1> SUFFICES ASSUME NEW i \in DOMAIN raw, NEW j \in DOMAIN raw, raw[i].msg = raw[j].msg
             PROVE  i = j
  OBVIOUS
<1>2. Handled + i \in DOMAIN arrival /\ Handled + j \in DOMAIN arrival /\ Handled \in Int
  BY <1>1 DEF Handled, RawInOrder
<1>3. arrival[Handled + i] = arrival[Handled + j]
  BY DEF RawInOrder
<1>4. Handled + i = Handled + j
  BY <1>2, <1>3 DEF ArrivalOnce
<1> QED
  BY <1>1, <1>2, <1>4

\* A decoder that is idle after a step, or that goes on without publishing, adds nothing to
\* what is to be decoded.
LEMMA DecodingGoesOn ==
    ASSUME TypeOK, IInv, DecodersHoldOwn, RawInOrder, ArrivalOnce, Prefetch = 1,
           NEW d \in Datagrams, NEW w \in Decoders, DecoderStep(w), ~PublishDecoded(w)
    PROVE  /\ ToBeDecoded(d)' => ToBeDecoded(d)
           /\ DecodedInVain(d)' => DecodedInVain(d)
<1>0. /\ raw \in Seq(Entries(Datagrams, Decoders)) /\ Ready \notin Decoders
      /\ decoder \in [Decoders -> DecoderLocals]
  BY WorkersAssumption DEF TypeOK
<1>1. \A v \in Decoders : decoder[v].pc # "idle" /\ decoder[w].pc # "idle" => v = w
  BY DEF IInv, OneBusy
<1>2. CASE DecoderGoesOn(w)
  <2>1. decoder[w].pc = "decode" /\ decoder'[w].pc \in {"decode", "publish"}
    <3>1. CASE LearnTemplate(w) \/ SkipSet(w)
      BY <1>0, <3>1 DEF LearnTemplate, SkipSet, AtFlowSet, NextSet
    <3>2. CASE DecodeData(w)
      <4>1. decoder[w].pc = "decode"
        BY <3>2 DEF DecodeData, AtFlowSet
      <4>2. decoder'[w].pc = "decode"
        BY <1>0, <3>2 DEF DecodeData, NextSet
      <4> QED
        BY <4>1, <4>2
    <3>3. CASE FinishDecoding(w)
      BY <1>0, <3>3 DEF FinishDecoding, DecoderLocals
    <3>4. CASE RefuseShort(w) \/ RequeueRaw(w) \/ SettleRaw(w)
      <4>1. decoder'[w] = IdleDecoder
        BY <1>0, <3>4 DEF RefuseShort, RequeueRaw, SettleRaw
      <4> QED
        BY <1>2, <4>1 DEF DecoderGoesOn, IdleDecoder
    <3> QED
      BY <3>1, <3>2, <3>3, <3>4 DEF DecoderStep
  <2> QED
    BY <1>2, <2>1 DEF DecoderGoesOn, ToBeDecoded, DecodedInVain, MessagesIn
<1>3. CASE DecoderSettles(w)
  <2>1. \A v \in Decoders : decoder'[v].pc = "idle"
    BY <1>0, <1>1, <1>3 DEF DecoderSettles, IdleDecoder
  <2>2. ~DecodedInVain(d)'
    BY <2>1 DEF DecodedInVain
  <2>3. CASE ~rawConn
    BY <1>3, <2>2, <2>3 DEF DecoderSettles, ToBeDecoded, MessagesIn
  <2>4. CASE rawConn
    <3>1. /\ RawEntry(w) \in HeldBy(raw, w) /\ RawEntry(w) \in DOMAIN raw
          /\ decoder[w].pc # "idle"
      BY <1>3, <2>4 DEF DecoderSettles, RawEntry, HeldBy, IInv, BusyHolds
    <3>2. <<w, raw[RawEntry(w)].msg>> \in Holdings(raw)
      BY <1>0, <3>1, HoldingsSettled DEF DecodersHoldOwn
    <3>3. decoder[w].out.d = raw[RawEntry(w)].msg
      BY <3>2 DEF DecodersHoldOwn
    <3>4. MessagesIn(raw') \subseteq MessagesIn(raw)
      BY <1>0, <1>3, <3>1, <2>4, MessagesAfter DEF DecoderSettles
    <3>5. CASE decoder[w].pc # "ack" \/ decoder[w].out.d # d
      <4>1. \A v \in Decoders : ~(decoder[v].pc = "ack" /\ decoder[v].out.d = d)
        BY <1>1, <3>1, <3>5
      <4> QED
        BY <2>2, <3>4, <4>1 DEF ToBeDecoded, MessagesIn
    <3>6. CASE decoder[w].pc = "ack" /\ decoder[w].out.d = d
      <4>1. raw' = Acked(raw, RawEntry(w))
        BY <2>4, <3>6 DEF DecoderStep, SettleRaw, AckRaw, RefuseShort, LearnTemplate,
                          DecodeData, SkipSet, FinishDecoding, PublishDecoded, RequeueRaw,
                          AtFlowSet
      <4>2. /\ DOMAIN raw' = 1..(Len(raw) - 1)
            /\ \A k \in 1..(Len(raw) - 1) :
                  /\ Place(k, RawEntry(w)) \in DOMAIN raw \ {RawEntry(w)}
                  /\ raw'[k] = raw[Place(k, RawEntry(w))]
        <5> DEFINE i == RawEntry(w)
        <5>1. i \in DOMAIN raw /\ raw' = Acked(raw, i)
          BY <3>1, <4>1
        <5> HIDE DEF i
        <5>2. raw \in Seq(Entries(Datagrams, Decoders)) /\ i \in DOMAIN raw
          BY <1>0, <5>1
        <5>3. /\ DOMAIN Acked(raw, i) = 1..(Len(raw) - 1)
              /\ \A k \in 1..(Len(raw) - 1) :
                    Place(k, i) \in DOMAIN raw \ {i} /\ Acked(raw, i)[k] = raw[Place(k, i)]
          BY <5>2, AckedEntries
        <5>4. /\ DOMAIN raw' = 1..(Len(raw) - 1)
              /\ \A k \in 1..(Len(raw) - 1) :
                    Place(k, i) \in DOMAIN raw \ {i} /\ raw'[k] = raw[Place(k, i)]
          BY <5>1, <5>3
        <5> QED
          BY <5>4 DEF i
      <4>3. ASSUME NEW k \in DOMAIN raw'
            PROVE  raw'[k].msg # d
        <5>1. PICK j \in DOMAIN raw \ {RawEntry(w)} : raw'[k] = raw[j]
          BY <4>2
        <5>2. raw[j].msg # raw[RawEntry(w)].msg
          BY <3>1, <5>1, RawOnce
        <5> QED
          BY <3>3, <3>6, <5>1, <5>2
      <4>4. ~ToBeDecoded(d)'
        BY <4>3 DEF ToBeDecoded, MessagesIn
      <4> QED
        BY <2>2, <4>4
    <3> QED
      BY <3>5, <3>6
  <2> QED
    BY <2>3, <2>4, <2>2
<1> QED
  BY <1>2, <1>3, DecoderStepKinds

\* A decoder whose message is out, or lost on its way, has its datagram no longer to decode.
LEMMA DecodingPublished ==
    ASSUME TypeOK, IInv, RawInOrder, Prefetch = 1,
           NEW d \in Datagrams, NEW w \in Decoders, decoder[w].pc = "publish",
           decoder' = [decoder EXCEPT ![w].pc = "ack"], UNCHANGED <<raw, rawConn>>
    PROVE  /\ ToBeDecoded(d)' => ToBeDecoded(d)
           /\ DecodedInVain(d)' => DecodedInVain(d)
           /\ decoder[w].out.d = d =>
                \/ ToBeDecoded(d) /\ ~ToBeDecoded(d)'
                \/ DecodedInVain(d) /\ ~DecodedInVain(d)'
<1>0. decoder \in [Decoders -> DecoderLocals]
  BY DEF TypeOK
<1>1. \A v \in Decoders : v # w => decoder[v].pc = "idle"
  BY DEF IInv, OneBusy
<1>2. /\ decoder'[w].pc = "ack" /\ decoder'[w].out = decoder[w].out
      /\ \A v \in Decoders : v # w => decoder'[v] = decoder[v]
  BY <1>0 DEF DecoderLocals
<1>3. ~DecodedInVain(d)'
  BY <1>1, <1>2 DEF DecodedInVain
<1>4. ToBeDecoded(d)' => ToBeDecoded(d)
  BY <1>1 DEF ToBeDecoded, MessagesIn
<1>5. ASSUME decoder[w].out.d = d
      PROVE  \/ ToBeDecoded(d) /\ ~ToBeDecoded(d)'
             \/ DecodedInVain(d)
  <2>1. CASE ~rawConn
    BY <1>5, <2>1 DEF DecodedInVain
  <2>2. CASE rawConn
    <3>1. Len(raw) > 0 /\ raw[1].msg = d /\ 1 \in DOMAIN raw
      <4>1. Len(raw) > 0 /\ raw[1].msg = d
        BY <1>5 DEF RawInOrder
      <4>2. DOMAIN raw = 1..Len(raw) /\ Len(raw) \in Nat
        BY LenProperties DEF TypeOK
      <4> QED
        BY <4>1, <4>2
    <3>2. d \in MessagesIn(raw)
      BY <3>1 DEF MessagesIn
    <3>3. ToBeDecoded(d)
      BY <1>1, <3>2 DEF ToBeDecoded
    <3>4. ~ToBeDecoded(d)'
      BY <1>2, <1>5, <2>2 DEF ToBeDecoded
    <3> QED
      BY <3>3, <3>4
  <2> QED
    BY <2>1, <2>2
<1> QED
  BY <1>3, <1>4, <1>5

\* The other steps: none adds anything but the faults, and of those a broken connection and
\* a death may add one decoding; a datagram that arrives is decoded once.
LEMMA DecodingElsewhere ==
    ASSUME TypeOK, IInv, RawInOrder, Prefetch = 1, NEW d \in Datagrams
    PROVE  /\ (\E w \in Decoders : TakeRaw(w)) \/ Restart
              \/ (\E e \in Datagrams \ {d} : Receive(e))
                => (ToBeDecoded(d)' => ToBeDecoded(d)) /\ (DecodedInVain(d)' => DecodedInVain(d))
           /\ BreakRaw \/ Die => ~(ToBeDecoded(d)' /\ DecodedInVain(d)') \/ ToBeDecoded(d)
<1>0. /\ raw \in Seq(Entries(Datagrams, Decoders))
      /\ decoder \in [Decoders -> DecoderLocals]
  BY DEF TypeOK
<1>1. ASSUME NEW w \in Decoders, TakeRaw(w)
      PROVE  (ToBeDecoded(d)' => ToBeDecoded(d)) /\ (DecodedInVain(d)' => DecodedInVain(d))
  <2>1. PICK i \in DOMAIN raw : raw' = Delivered(raw, i, w)
    BY <1>1 DEF TakeRaw
  <2>2. MessagesIn(raw') = MessagesIn(raw)
    BY <1>0, <2>1, MessagesAfter
  <2>3. rawConn /\ rawConn' = rawConn
    BY <1>1 DEF TakeRaw, network
  <2>4. \A v \in Decoders : decoder[v].pc = "idle"
    BY <1>1, TakenWhenIdle
  <2>5. ToBeDecoded(d)' => d \in MessagesIn(raw')
    BY DEF ToBeDecoded, MessagesIn
  <2>6. d \in MessagesIn(raw) => ToBeDecoded(d)
    BY <2>4 DEF ToBeDecoded
  <2> QED
    BY <2>2, <2>3, <2>5, <2>6 DEF DecodedInVain
<1>2. ASSUME Restart
      PROVE  (ToBeDecoded(d)' => ToBeDecoded(d)) /\ (DecodedInVain(d)' => DecodedInVain(d))
  <2>1. ~rawConn
    BY <1>2 DEF Restart, IInv, DownIsIdle
  <2> QED
    BY <1>2, <2>1 DEF Restart, ToBeDecoded, DecodedInVain, MessagesIn
<1>3. ASSUME NEW e \in Datagrams \ {d}, Receive(e)
      PROVE  (ToBeDecoded(d)' => ToBeDecoded(d)) /\ (DecodedInVain(d)' => DecodedInVain(d))
  <2>1. MessagesIn(raw') \subseteq MessagesIn(raw) \cup {e}
    <3>1. raw' = raw \/ raw' = Published(raw, e)
      BY <1>3 DEF Receive
    <3> QED
      BY <1>0, <3>1, MessagesAfter
  <2>2. UNCHANGED <<decoder, rawConn>>
    BY <1>3 DEF Receive, network
  <2> QED
    BY <2>1, <2>2 DEF ToBeDecoded, DecodedInVain, MessagesIn
<1>4. ASSUME BreakRaw
      PROVE  DecodedInVain(d)' => ToBeDecoded(d)
  <2>1. UNCHANGED decoder
    BY <1>4 DEF BreakRaw
  <2>2. ASSUME NEW w \in Decoders, decoder[w].pc \in {"decode", "publish"}, decoder[w].out.d = d
        PROVE  ToBeDecoded(d)
    <3>1. Len(raw) > 0 /\ raw[1].msg = d
      BY <2>2 DEF RawInOrder
    <3>2. DOMAIN raw = 1..Len(raw) /\ Len(raw) \in Nat
      BY LenProperties DEF TypeOK
    <3>3. d \in MessagesIn(raw)
      BY <3>1, <3>2 DEF MessagesIn
    <3>4. \A v \in Decoders : decoder[v].pc # "ack"
      BY <2>2 DEF IInv, OneBusy
    <3> QED
      BY <3>3, <3>4 DEF ToBeDecoded
  <2> QED
    BY <2>1, <2>2 DEF DecodedInVain
<1>5. ASSUME Die
      PROVE  ~DecodedInVain(d)'
  BY <1>5 DEF Die, DecodedInVain, IdleDecoder
<1> QED
  BY <1>1, <1>2, <1>3, <1>4, <1>5

-----------------------------------------------------------------------------
(***************************************************************************)
(* The accounting.  How a step moves what is counted and to be counted.    *)
(***************************************************************************)

\* How many entries of a datagram the queue operators leave.
LEMMA EntriesCounted ==
    ASSUME NEW W, NEW q \in Seq(Entries(Messages, W)), NEW d
    PROVE  /\ IsFiniteSet(EntriesOf(q, d)) /\ Cardinality(EntriesOf(q, d)) \in Nat
           /\ EntriesOf(q, d) # {} => Cardinality(EntriesOf(q, d)) >= 1
<1>1. DOMAIN q = 1..Len(q) /\ Len(q) \in Nat
  BY LenProperties
<1>2. IsFiniteSet(1..Len(q))
  BY <1>1, FS_Interval, 1 \in Int
<1>3. IsFiniteSet(EntriesOf(q, d))
  BY <1>1, <1>2, FS_Subset DEF EntriesOf
<1>4. Cardinality(EntriesOf(q, d)) \in Nat
      /\ (EntriesOf(q, d) # {} => Cardinality(EntriesOf(q, d)) # 0)
  BY <1>3, FS_CardinalityType, FS_EmptySet
<1> QED
  BY <1>3, <1>4

LEMMA EntriesPublished ==
    ASSUME NEW W, NEW q \in Seq(Entries(Messages, W)), NEW d, NEW m \in Messages
    PROVE  Cardinality(EntriesOf(Published(q, m), d)) = Cardinality(EntriesOf(q, d)) + One(m.d = d)
<1> DEFINE r == Published(q, m)
<1>1. DOMAIN q = 1..Len(q) /\ Len(q) \in Nat
  BY LenProperties
<1>2. /\ Len(r) = Len(q) + 1
      /\ \A k \in 1..Len(q) : r[k] = q[k]
      /\ r[Len(q) + 1] = [msg |-> m, by |-> Ready]
  BY OrderAfter
<1>3. DOMAIN r = 1..Len(r)
  BY PublishedQueue, LenProperties
<1> HIDE DEF r
<1>4. r[Len(q) + 1].msg = m
  BY <1>2
<1>5. EntriesOf(r, d) = IF m.d = d THEN EntriesOf(q, d) \cup {Len(q) + 1} ELSE EntriesOf(q, d)
  BY <1>1, <1>2, <1>3, <1>4 DEF EntriesOf
<1>6. Len(q) + 1 \notin EntriesOf(q, d) /\ IsFiniteSet(EntriesOf(q, d))
      /\ Cardinality(EntriesOf(q, d)) \in Nat
  <2>1. Len(q) + 1 \notin EntriesOf(q, d)
    BY <1>1 DEF EntriesOf
  <2> QED
    BY <2>1, EntriesCounted
<1>7. CASE m.d = d
  <2>1. Cardinality(EntriesOf(r, d)) = Cardinality(EntriesOf(q, d)) + 1
    BY <1>5, <1>6, <1>7, FS_AddElement
  <2> QED
    BY <1>7, <2>1 DEF r, One
<1>8. CASE m.d # d
  <2>1. Cardinality(EntriesOf(r, d)) = Cardinality(EntriesOf(q, d))
    BY <1>5, <1>8
  <2> QED
    BY <1>6, <1>8, <2>1 DEF r, One
<1> QED
  BY <1>7, <1>8

LEMMA EntriesMarked ==
    ASSUME NEW W, NEW q \in Seq(Entries(Messages, W)), NEW d
    PROVE  /\ EntriesOf(AllRequeued(q), d) = EntriesOf(q, d)
           /\ \A i \in DOMAIN q :
                /\ EntriesOf(Requeued(q, i), d) = EntriesOf(q, d)
                /\ \A w : EntriesOf(Delivered(q, i, w), d) = EntriesOf(q, d)
<1>1. \A k \in DOMAIN q : q[k] \in Entries(Messages, W)
  BY LenProperties, ElementOfSeq
<1>2. EntriesOf(AllRequeued(q), d) = EntriesOf(q, d)
  <2>1. \A k \in DOMAIN q : AllRequeued(q)[k].msg = q[k].msg
    BY <1>1 DEF AllRequeued, Entries
  <2>2. DOMAIN AllRequeued(q) = DOMAIN q
    BY DEF AllRequeued
  <2> HIDE DEF AllRequeued
  <2> QED
    BY <2>1, <2>2 DEF EntriesOf
<1>3. ASSUME NEW i \in DOMAIN q, NEW w, NEW r, r = [q EXCEPT ![i] = [q[i] EXCEPT !.by = w]]
      PROVE  EntriesOf(r, d) = EntriesOf(q, d)
  <2>1. /\ DOMAIN r = DOMAIN q /\ r[i].msg = q[i].msg
        /\ \A k \in DOMAIN q \ {i} : r[k] = q[k]
    BY <1>3, EntryMarked
  <2>2. \A k \in DOMAIN q : r[k].msg = q[k].msg
    BY <2>1
  <2> QED
    BY <2>1, <2>2 DEF EntriesOf
<1> QED
  BY <1>2, <1>3 DEF Requeued, Delivered

LEMMA EntriesAcked ==
    ASSUME NEW W, NEW q \in Seq(Entries(Messages, W)), NEW d, NEW i \in DOMAIN q
    PROVE  Cardinality(EntriesOf(Acked(q, i), d))
                <= Cardinality(EntriesOf(q, d)) - One(q[i].msg.d = d)
<1> DEFINE r == Acked(q, i)
           S == EntriesOf(r, d)
           T == EntriesOf(q, d) \ {i}
           f == [k \in S |-> Place(k, i)]
<1>1. /\ DOMAIN q = 1..Len(q) /\ Len(q) \in Nat
      /\ DOMAIN r = 1..(Len(q) - 1)
      /\ \A k \in 1..(Len(q) - 1) :
            Place(k, i) \in DOMAIN q \ {i} /\ r[k] = q[Place(k, i)]
  BY AckedEntries
<1>2. IsFiniteSet(EntriesOf(q, d)) /\ Cardinality(EntriesOf(q, d)) \in Nat
  BY EntriesCounted
<1> HIDE DEF r
<1>3. f \in [S -> T]
  BY <1>1 DEF EntriesOf
<1>4. \A k, l \in S : f[k] = f[l] => k = l
  BY <1>1 DEF EntriesOf, Place
<1>5. IsFiniteSet(T)
  BY <1>2, FS_RemoveElement
<1>6. f \in Injection(S, T)
  BY <1>3, <1>4 DEF Injection, IsInjective
<1>7. Cardinality(S) <= Cardinality(T)
  <2> HIDE DEF S, T, f
  <2> QED
    BY <1>5, <1>6, FS_Injection
<1>8. Cardinality(T) = Cardinality(EntriesOf(q, d)) - One(q[i].msg.d = d)
  <2>1. CASE q[i].msg.d = d
    <3>1. i \in EntriesOf(q, d)
      BY <2>1 DEF EntriesOf
    <3>2. Cardinality(T) = Cardinality(EntriesOf(q, d)) - 1
      BY <1>2, <3>1, FS_RemoveElement
    <3> QED
      BY <2>1, <3>2 DEF One
  <2>2. CASE q[i].msg.d # d
    <3>1. T = EntriesOf(q, d)
      BY <2>2 DEF EntriesOf
    <3>2. One(q[i].msg.d = d) = 0
      BY <2>2 DEF One
    <3> HIDE DEF T
    <3> QED
      BY <1>2, <3>1, <3>2
  <2> QED
    BY <2>1, <2>2
<1> QED
  BY <1>7, <1>8 DEF r

\* How often the flows of a datagram have been counted, and will be once what is decoded
\* has been counted too.
Countings(d) == applied[d] + ToCount(d)

LEMMA CountingsType ==
    ASSUME TypeOK, NEW d \in Datagrams
    PROVE  /\ applied[d] \in Nat /\ faults \in Nat
           /\ Cardinality(EntriesOf(dec, d)) \in Nat
           /\ One(CountedAndHeld(d)) \in {0, 1} /\ One(CountedInVain(d)) \in {0, 1}
           /\ ToCount(d) \in Int /\ ToDecode(d) \in {0, 1, 2}
<1>1. Cardinality(EntriesOf(dec, d)) \in Nat
  BY EntriesCounted DEF TypeOK
<1>2. applied[d] \in Nat /\ faults \in Nat
  BY BoundsAssumption DEF TypeOK
<1>3. /\ One(CountedAndHeld(d)) \in {0, 1} /\ One(CountedInVain(d)) \in {0, 1}
      /\ One(ToBeDecoded(d)) \in {0, 1} /\ One(DecodedInVain(d)) \in {0, 1}
  BY DEF One
<1> QED
  BY <1>1, <1>2, <1>3 DEF ToCount, ToDecode

\* A step of a metric worker leaves the countings of every datagram as they were or lower,
\* but for a fault.
LEMMA CountingGoesOn ==
    ASSUME TypeOK, TypeOK', IInv, MetricsHoldOwn, HandedOn, Prefetch = 1,
           \A v \in MetricWorkers : metric[v].pc \in {"find", "set"} => metric[v].result = "ok",
           NEW d \in Datagrams, NEW w \in MetricWorkers, MetricStep(w)
    PROVE  Countings(d)' <= Countings(d) + 2 * (faults' - faults)
<1>0. /\ metric \in [MetricWorkers -> MetricLocals]
      /\ dec \in Seq(Entries(Messages, MetricWorkers)) /\ Ready \notin MetricWorkers
      /\ applied \in [Datagrams -> Nat]
  BY WorkersAssumption DEF TypeOK
<1>1. /\ metric[w].pc # "idle" /\ \A v \in MetricWorkers : v # w => metric[v].pc = "idle"
  BY DEF MetricStep, NothingToCount, IncrementCounters, ReadCounters, SetPercentages,
         SettleDecoded, IInv, OneBusy
<1>2. \A v \in MetricWorkers : v # w => metric'[v] = metric[v]
  BY <1>0, MetricStepKinds DEF MetricGoesOn, MetricSettles
<1>3. /\ CountedAndHeld(d) <=> decConn /\ HasCounted(w) /\ metric[w].m.d = d
      /\ CountedInVain(d) <=> ~decConn /\ metric[w].pc = "inc" /\ metric[w].m.d = d
  BY <1>1 DEF CountedAndHeld, CountedInVain, HasCounted
<1>4. /\ CountedAndHeld(d)' <=> decConn' /\ HasCounted(w)' /\ metric'[w].m.d = d
      /\ CountedInVain(d)' <=> ~decConn' /\ metric'[w].pc = "inc" /\ metric'[w].m.d = d
  BY <1>1, <1>2 DEF CountedAndHeld, CountedInVain, HasCounted
<1>5. /\ applied[d] \in Nat /\ faults \in Nat /\ Cardinality(EntriesOf(dec, d)) \in Nat
      /\ applied'[d] \in Nat /\ faults' \in Nat /\ Cardinality(EntriesOf(dec', d)) \in Nat
  <2>1. /\ applied'[d] \in Nat /\ faults' \in Nat
    BY BoundsAssumption DEF TypeOK
  <2>2. Cardinality(EntriesOf(dec', d)) \in Nat
    <3>1. dec' \in Seq(Entries(Messages, MetricWorkers))
      BY DEF TypeOK
    <3> QED
      BY <3>1, EntriesCounted
  <2> QED
    BY <2>1, <2>2, CountingsType
<1>6. CASE NothingToCount(w)
  <2>1. UNCHANGED <<dec, applied, faults>> /\ metric[w].pc = "inc" /\ metric'[w].pc = "settle"
    BY <1>0, <1>6 DEF NothingToCount, MetricLocals, history
  <2>2. ~CountedAndHeld(d) /\ ~CountedInVain(d)'
    BY <1>3, <1>4, <2>1 DEF HasCounted
  <2>3. /\ One(CountedAndHeld(d)) = 0 /\ One(CountedInVain(d)') = 0
        /\ One(CountedInVain(d)) \in {0, 1} /\ One(CountedAndHeld(d)') \in {0, 1}
    BY <2>2 DEF One
  <2> QED
    BY <1>5, <2>1, <2>3 DEF Countings, ToCount
<1>7. CASE IncrementCounters(w)
  <2>1. UNCHANGED <<dec, decConn>> /\ metric[w].pc = "inc"
    BY <1>7 DEF IncrementCounters, network
  <2>2. PICK result \in {"ok", "refused", "timeout"} :
            /\ metric' = [metric EXCEPT ![w] =
                  Local(IF result = "ok" THEN "find" ELSE "settle", metric[w].m,
                        <<Content[metric[w].m.d].src, now>>, None, result)]
            /\ faults' = IF result = "ok" THEN faults ELSE faults + 1
            /\ result = "refused" => applied' = applied
            /\ result # "refused" => applied' = [applied EXCEPT ![metric[w].m.d] = @ + 1]
    BY <1>7 DEF IncrementCounters
  <2>3. metric'[w].pc # "inc" /\ metric'[w].m = metric[w].m
        /\ (result = "ok" => metric'[w].pc = "find")
    BY <1>0, <2>2 DEF Local
  <2>4. ~CountedAndHeld(d) /\ ~CountedInVain(d)'
    BY <1>3, <1>4, <2>1, <2>3 DEF HasCounted
  <2>5. /\ One(CountedAndHeld(d)) = 0 /\ One(CountedInVain(d)') = 0
        /\ One(CountedInVain(d)) \in {0, 1} /\ One(CountedAndHeld(d)') \in {0, 1}
    BY <2>4 DEF One
  <2>6. applied'[d] = applied[d] \/ (metric[w].m.d = d /\ applied'[d] = applied[d] + 1)
    BY <1>0, <2>2
  <2>7. CASE result # "ok"
    <3>1. faults' = faults + 1
      BY <2>2, <2>7
    <3> QED
      BY <1>5, <2>1, <2>5, <2>6, <3>1 DEF Countings, ToCount
  <2>8. CASE result = "ok" /\ metric[w].m.d = d
    <3>1. CountedAndHeld(d)' \/ CountedInVain(d)
      BY <1>3, <1>4, <2>1, <2>3, <2>8 DEF HasCounted
    <3>2. One(CountedAndHeld(d)') = 1 \/ One(CountedInVain(d)) = 1
      BY <3>1 DEF One
    <3>3. faults' = faults
      BY <2>2, <2>8
    <3> QED
      BY <1>5, <2>1, <2>5, <2>6, <3>2, <3>3 DEF Countings, ToCount
  <2>9. CASE result = "ok" /\ metric[w].m.d # d
    <3>1. faults' = faults /\ applied'[d] = applied[d]
      BY <2>2, <2>6, <2>9
    <3> QED
      BY <1>5, <2>1, <2>5, <3>1 DEF Countings, ToCount
  <2> QED
    BY <2>7, <2>8, <2>9
<1>8. CASE ReadCounters(w) \/ SetPercentages(w)
  <2>1. UNCHANGED <<dec, decConn, applied>> /\ metric[w].pc \in {"find", "set"}
        /\ faults' >= faults
    BY <1>5, <1>8 DEF ReadCounters, SetPercentages, network, history
  <2>2. /\ metric'[w].pc \in {"set", "settle"} /\ metric'[w].result = "ok"
        /\ metric'[w].m = metric[w].m
    <3>1. metric[w].result = "ok"
      BY <2>1
    <3>2. CASE ReadCounters(w)
      <4>1. \/ metric' = [metric EXCEPT ![w].pc = "settle"]
            \/ \E key, read :
                  metric' = [metric EXCEPT ![w] = Local("set", metric[w].m, key, read, "ok")]
        BY <3>2 DEF ReadCounters
      <4> QED
        BY <1>0, <3>1, <4>1 DEF Local, MetricLocals
    <3>3. CASE SetPercentages(w)
      BY <1>0, <3>1, <3>3 DEF SetPercentages, MetricLocals
    <3> QED
      BY <1>8, <3>2, <3>3
  <2>3. /\ CountedAndHeld(d)' <=> CountedAndHeld(d)
        /\ ~CountedInVain(d) /\ ~CountedInVain(d)'
    BY <1>3, <1>4, <2>1, <2>2 DEF HasCounted
  <2>4. /\ One(CountedAndHeld(d)') = One(CountedAndHeld(d)) /\ One(CountedAndHeld(d)) \in {0, 1}
        /\ One(CountedInVain(d)) = 0 /\ One(CountedInVain(d)') = 0
    BY <2>3 DEF One
  <2> QED
    BY <1>5, <2>1, <2>4 DEF Countings, ToCount
<1>9. CASE SettleDecoded(w)
  <2>1. UNCHANGED <<decConn, applied, faults>> /\ metric[w].pc = "settle"
        /\ metric'[w].pc = "idle"
    BY <1>0, <1>9 DEF SettleDecoded, IdleMetric, Local, network, history
  <2>2. ~CountedInVain(d) /\ ~CountedInVain(d)' /\ ~CountedAndHeld(d)'
    BY <1>3, <1>4, <2>1 DEF HasCounted
  <2>3. /\ One(CountedInVain(d)) = 0 /\ One(CountedInVain(d)') = 0
        /\ One(CountedAndHeld(d)') = 0
    BY <2>2 DEF One
  <2>4. Cardinality(EntriesOf(dec', d))
            <= Cardinality(EntriesOf(dec, d)) - One(CountedAndHeld(d))
    <3>1. CASE ~decConn
      <4>1. dec' = dec /\ ~CountedAndHeld(d)
        BY <1>3, <1>9, <3>1 DEF SettleDecoded
      <4> QED
        BY <1>5, <4>1 DEF One
    <3>2. CASE decConn
      <4>1. DecEntry(w) \in HeldBy(dec, w) /\ DecEntry(w) \in DOMAIN dec
        BY <1>1, <3>2 DEF DecEntry, HeldBy, IInv, BusyHolds
      <4>2. <<w, dec[DecEntry(w)].msg>> \in Holdings(dec)
        BY <1>0, <4>1, HoldingsSettled DEF MetricsHoldOwn
      <4>3. dec[DecEntry(w)].msg = metric[w].m
        BY <4>2 DEF MetricsHoldOwn
      <4>4. CASE metric[w].result # "ok"
        <5>1. dec' = Requeued(dec, DecEntry(w)) /\ ~CountedAndHeld(d)
          BY <1>3, <1>9, <2>1, <3>2, <4>4 DEF SettleDecoded, HasCounted
        <5>2. EntriesOf(dec', d) = EntriesOf(dec, d)
          BY <1>0, <4>1, <5>1, EntriesMarked
        <5> QED
          BY <1>5, <5>1, <5>2 DEF One
      <4>5. CASE metric[w].result = "ok"
        <5>1. dec' = Acked(dec, DecEntry(w))
          BY <1>9, <3>2, <4>5 DEF SettleDecoded
        <5>2. dec \in Seq(Entries(Messages, MetricWorkers)) /\ DecEntry(w) \in DOMAIN dec
          BY <1>0, <4>1
        <5>3. Cardinality(EntriesOf(dec', d))
                <= Cardinality(EntriesOf(dec, d)) - One(dec[DecEntry(w)].msg.d = d)
          BY <5>1, <5>2, EntriesAcked
        <5>4. CountedAndHeld(d) <=> dec[DecEntry(w)].msg.d = d
          BY <1>3, <2>1, <3>2, <4>3, <4>5 DEF HasCounted
        <5>5. One(CountedAndHeld(d)) = One(dec[DecEntry(w)].msg.d = d)
          BY <5>4 DEF One
        <5> QED
          BY <5>3, <5>5
      <4> QED
        BY <4>4, <4>5
    <3> QED
      BY <3>1, <3>2
  <2>5. One(CountedAndHeld(d)) \in {0, 1}
    BY DEF One
  <2> QED
    BY <1>5, <2>1, <2>3, <2>4, <2>5 DEF Countings, ToCount
<1> QED
  BY <1>6, <1>7, <1>8, <1>9 DEF MetricStep

\* The other steps count nothing; a published message is counted once more, and a death or
\* a broken connection makes one counting more likely.
LEMMA CountingElsewhere ==
    ASSUME TypeOK, IInv, Prefetch = 1, NEW d \in Datagrams
    PROVE  /\ UNCHANGED <<dec, metric, decConn, applied>> => Countings(d)' = Countings(d)
           /\ Restart => Countings(d)' = Countings(d)
           /\ \A w \in MetricWorkers : TakeDecoded(w) => Countings(d)' = Countings(d)
           /\ \A w \in Decoders : PublishDecoded(w) =>
                    Countings(d)' = Countings(d) + One(decoder[w].out.d = d)
           /\ Die \/ BreakDecoded => Countings(d)' <= Countings(d) + 1
<1>0. /\ dec \in Seq(Entries(Messages, MetricWorkers))
      /\ metric \in [MetricWorkers -> MetricLocals]
  BY DEF TypeOK
<1>1. /\ applied[d] \in Nat /\ faults \in Nat
      /\ Cardinality(EntriesOf(dec, d)) \in Nat
      /\ One(CountedAndHeld(d)) \in {0, 1} /\ One(CountedInVain(d)) \in {0, 1}
  BY CountingsType
<1>2. ASSUME UNCHANGED <<dec, metric, decConn, applied>>
      PROVE  Countings(d)' = Countings(d)
  <2>1. /\ CountedAndHeld(d)' <=> CountedAndHeld(d)
        /\ CountedInVain(d)' <=> CountedInVain(d)
    BY <1>2 DEF CountedAndHeld, CountedInVain, HasCounted
  <2>2. /\ One(CountedAndHeld(d)') = One(CountedAndHeld(d))
        /\ One(CountedInVain(d)') = One(CountedInVain(d))
    BY <2>1 DEF One
  <2> QED
    BY <1>2, <2>2 DEF Countings, ToCount
<1>3. ASSUME Restart
      PROVE  Countings(d)' = Countings(d)
  <2>1. /\ UNCHANGED <<dec, metric, applied>>
        /\ \A w \in MetricWorkers : metric[w].pc = "idle"
    BY <1>3 DEF Restart, IInv, DownIsIdle, history
  <2>2. /\ ~CountedAndHeld(d)' /\ ~CountedAndHeld(d)
        /\ ~CountedInVain(d)' /\ ~CountedInVain(d)
    BY <2>1 DEF CountedAndHeld, CountedInVain, HasCounted
  <2>3. /\ One(CountedAndHeld(d)') = 0 /\ One(CountedAndHeld(d)) = 0
        /\ One(CountedInVain(d)') = 0 /\ One(CountedInVain(d)) = 0
    BY <2>2 DEF One
  <2> QED
    BY <2>1, <2>3 DEF Countings, ToCount
<1>4. ASSUME NEW w \in MetricWorkers, TakeDecoded(w)
      PROVE  Countings(d)' = Countings(d)
  <2>1. \A v \in MetricWorkers : metric[v].pc = "idle"
    BY <1>4, TakenWhenIdle
  <2>2. decConn /\ UNCHANGED <<decConn, applied>>
    BY <1>4 DEF TakeDecoded, network, history
  <2>3. PICK i \in DOMAIN dec :
            /\ dec' = Delivered(dec, i, w)
            /\ metric' = [metric EXCEPT ![w] = Local("inc", dec[i].msg, None, None, "ok")]
    BY <1>4 DEF TakeDecoded
  <2>4. EntriesOf(dec', d) = EntriesOf(dec, d)
    BY <1>0, <2>3, EntriesMarked
  <2>5. \A v \in MetricWorkers : metric'[v].pc \in {"idle", "inc"}
    BY <1>0, <2>1, <2>3 DEF Local
  <2>6. /\ ~CountedAndHeld(d)' /\ ~CountedAndHeld(d)
        /\ ~CountedInVain(d)' /\ ~CountedInVain(d)
    BY <2>1, <2>2, <2>5 DEF CountedAndHeld, CountedInVain, HasCounted
  <2>7. /\ One(CountedAndHeld(d)') = 0 /\ One(CountedAndHeld(d)) = 0
        /\ One(CountedInVain(d)') = 0 /\ One(CountedInVain(d)) = 0
    BY <2>6 DEF One
  <2> QED
    BY <2>2, <2>4, <2>7 DEF Countings, ToCount
<1>5. ASSUME NEW w \in Decoders, PublishDecoded(w)
      PROVE  Countings(d)' = Countings(d) + One(decoder[w].out.d = d)
  <2>1. UNCHANGED <<metric, decConn, applied>>
    BY <1>5 DEF PublishDecoded, network, history
  <2>2. dec' = Published(dec, decoder[w].out) /\ decoder[w].out \in Messages
    BY <1>5 DEF PublishDecoded, IInv, WorkInProgress
  <2>3. Cardinality(EntriesOf(dec', d))
            = Cardinality(EntriesOf(dec, d)) + One(decoder[w].out.d = d)
    BY <1>0, <2>2, EntriesPublished
  <2>4. /\ CountedAndHeld(d)' <=> CountedAndHeld(d)
        /\ CountedInVain(d)' <=> CountedInVain(d)
    BY <2>1 DEF CountedAndHeld, CountedInVain, HasCounted
  <2>5. /\ One(CountedAndHeld(d)') = One(CountedAndHeld(d))
        /\ One(CountedInVain(d)') = One(CountedInVain(d))
        /\ One(decoder[w].out.d = d) \in {0, 1}
    BY <2>4 DEF One
  <2> QED
    BY <1>1, <2>1, <2>3, <2>5 DEF Countings, ToCount
<1>6. ASSUME Die \/ BreakDecoded
      PROVE  Countings(d)' <= Countings(d) + 1
  <2>1. /\ dec' = AllRequeued(dec) /\ ~decConn' /\ applied' = applied
        /\ Die => \A w \in MetricWorkers : metric'[w].pc = "idle"
        /\ BreakDecoded => decConn /\ metric' = metric
    BY <1>6 DEF Die, BreakDecoded, IdleMetric, Local, history
  <2>2. EntriesOf(dec', d) = EntriesOf(dec, d)
    BY <1>0, <2>1, EntriesMarked
  <2>3. ~CountedAndHeld(d)'
    BY <2>1 DEF CountedAndHeld
  <2>4. CountedAndHeld(d) => ~CountedInVain(d)'
    <3>1. CASE Die
      BY <2>1, <3>1 DEF CountedInVain
    <3>2. CASE BreakDecoded
      BY <2>1, <3>2 DEF CountedInVain, CountedAndHeld, HasCounted, IInv, OneBusy
    <3> QED
      BY <1>6, <3>1, <3>2
  <2>5. /\ One(CountedAndHeld(d)') = 0 /\ One(CountedInVain(d)') \in {0, 1}
        /\ One(CountedAndHeld(d)) + One(CountedInVain(d)') <= 1
    BY <2>3, <2>4 DEF One
  <2> QED
    BY <1>1, <2>1, <2>2, <2>5 DEF Countings, ToCount
<1> QED
  BY <1>2, <1>3, <1>4, <1>5, <1>6

\* What arrives, arrives once; only what has arrived is worked on.
LEMMA MessagesQueued ==
    ASSUME TypeOK, OrderInv, Prefetch = 1
    PROVE  /\ \A i \in DOMAIN dec : Queued(dec[i].msg.d)
           /\ \A i \in DOMAIN raw : Queued(raw[i].msg)
           /\ \A w \in Decoders : decoder[w].pc # "idle" => Queued(decoder[w].out.d)
<1>1. \A i \in DOMAIN dec : Queued(dec[i].msg.d)
  BY DEF OrderInv, MessagesIn, UsesLatest, Queued
<1>2. DOMAIN raw = 1..Len(raw) /\ Len(raw) \in Nat /\ Len(arrival) \in Nat
      /\ DOMAIN arrival = 1..Len(arrival)
  BY LenProperties DEF TypeOK
<1>3. \A i \in DOMAIN raw : Handled + i \in DOMAIN arrival /\ raw[i].msg = arrival[Handled + i]
  BY <1>2 DEF OrderInv, RawInOrder, Handled
<1>4. \A i \in DOMAIN raw : Queued(raw[i].msg)
  BY <1>3 DEF Queued
<1>5. \A w \in Decoders :
        decoder[w].pc # "idle" => 1 \in DOMAIN raw /\ decoder[w].out.d = raw[1].msg
  BY <1>2 DEF OrderInv, RawInOrder
<1> QED
  BY <1>1, <1>4, <1>5

LEMMA ArrivalOnceStep ==
    ASSUME TypeOK, ArrivalOnce, Next
    PROVE  ArrivalOnce'
<1>1. CASE UNCHANGED <<arrival, seen>>
  BY <1>1 DEF ArrivalOnce
<1>2. CASE \E e \in Datagrams : Receive(e)
  <2>1. PICK e \in Datagrams : Receive(e)
    BY <1>2
  <2>2. e \notin seen /\ seen' = seen \cup {e}
    BY <2>1 DEF Receive
  <2>3. CASE arrival' = arrival
    BY <2>2, <2>3 DEF ArrivalOnce
  <2>4. CASE arrival' = Append(arrival, e)
    <3>1. /\ arrival \in Seq(Datagrams) /\ Len(arrival) \in Nat
          /\ DOMAIN arrival = 1..Len(arrival)
      BY LenProperties DEF TypeOK
    <3>2. /\ Append(arrival, e) \in Seq(Datagrams)
          /\ Len(Append(arrival, e)) = Len(arrival) + 1
          /\ \A j \in 1..Len(arrival) : Append(arrival, e)[j] = arrival[j]
          /\ Append(arrival, e)[Len(arrival) + 1] = e
      BY <3>1, AppendProperties
    <3>3. DOMAIN arrival' = 1..(Len(arrival) + 1)
      BY <2>4, <3>2, LenProperties
    <3>4. \A i \in DOMAIN arrival' :
            \/ i \in DOMAIN arrival /\ arrival'[i] = arrival[i]
            \/ i = Len(arrival) + 1 /\ arrival'[i] = e
      BY <2>4, <3>1, <3>2, <3>3
    <3> QED
      BY <2>2, <3>4 DEF ArrivalOnce
  <2> QED
    BY <2>1, <2>3, <2>4 DEF Receive
<1> QED
  BY <1>1, <1>2 DEF Next, Tick, TakeRaw, DecoderStep, RefuseShort, LearnTemplate, DecodeData,
         SkipSet, FinishDecoding, PublishDecoded, RequeueRaw, SettleRaw, DecoderPanics, Die,
         TakeDecoded, MetricStep, NothingToCount, IncrementCounters, ReadCounters,
         SetPercentages, SettleDecoded, Crash, Restart, BreakRaw, BreakDecoded, history

LEMMA MetricsAtWorkStep ==
    ASSUME TypeOK, IInv, OrderInv, WorkIsQueued, ArrivalsStay, Prefetch = 1, Next,
           \A v \in MetricWorkers : metric[v].pc \in {"find", "set"} => metric[v].result = "ok"
    PROVE  /\ WorkIsQueued'
           /\ \A v \in MetricWorkers :
                metric'[v].pc \in {"find", "set"} => metric'[v].result = "ok"
<1>0. /\ metric \in [MetricWorkers -> MetricLocals] /\ applied \in [Datagrams -> Nat]
      /\ DOMAIN arrival = 1..Len(arrival) /\ Len(arrival) \in Nat
  BY LenProperties DEF TypeOK
<1> DEFINE QueuedNext(e) == \E i \in DOMAIN arrival' : arrival'[i] = e
<1>1. \A e : Queued(e) => QueuedNext(e)
  <2>1. DOMAIN arrival' = 1..Len(arrival') /\ Len(arrival') \in Nat
    <3>1. TypeOK'
      BY Inductive
    <3> QED
      BY <3>1, LenProperties DEF TypeOK
  <2> QED
    BY <1>0, <2>1 DEF Queued, ArrivalsStay
<1>2. ASSUME \A v \in MetricWorkers :
                \/ metric'[v].pc = "idle"
                \/ /\ Queued(metric'[v].m.d)
                   /\ metric'[v].pc \in {"find", "set"} => metric'[v].result = "ok",
             \A d \in Datagrams : applied'[d] > 0 => Queued(d)
      PROVE  /\ WorkIsQueued'
             /\ \A v \in MetricWorkers :
                  metric'[v].pc \in {"find", "set"} => metric'[v].result = "ok"
  <2> HIDE DEF QueuedNext
  <2>1. \A v \in MetricWorkers : metric'[v].pc # "idle" => QueuedNext(metric'[v].m.d)
    BY <1>1, <1>2
  <2>2. \A d \in Datagrams : applied'[d] > 0 => QueuedNext(d)
    BY <1>1, <1>2
  <2> USE DEF QueuedNext
  <2> QED
    BY <1>2, <2>1, <2>2 DEF WorkIsQueued, Queued
<1>3. CASE UNCHANGED <<metric, applied>>
  BY <1>2, <1>3 DEF WorkIsQueued
<1>4. CASE \E w \in MetricWorkers : TakeDecoded(w)
  <2>1. PICK w \in MetricWorkers : TakeDecoded(w)
    BY <1>4
  <2>2. PICK i \in DOMAIN dec :
            metric' = [metric EXCEPT ![w] = Local("inc", dec[i].msg, None, None, "ok")]
    BY <2>1 DEF TakeDecoded
  <2>3. metric'[w].m = dec[i].msg /\ metric'[w].pc = "inc"
        /\ \A v \in MetricWorkers : v # w => metric'[v] = metric[v]
    BY <1>0, <2>2 DEF Local
  <2>4. Queued(metric'[w].m.d)
    BY <2>3, MessagesQueued
  <2>5. applied' = applied
    BY <2>1 DEF TakeDecoded, history
  <2> QED
    BY <1>2, <2>3, <2>4, <2>5 DEF WorkIsQueued
<1>5. CASE \E w \in MetricWorkers : MetricStep(w)
  <2>1. PICK w \in MetricWorkers : MetricStep(w)
    BY <1>5
  <2>2. /\ metric[w].pc # "idle" /\ Queued(metric[w].m.d)
        /\ \A v \in MetricWorkers : v # w => metric'[v] = metric[v]
        /\ metric'[w].pc = "idle" \/ metric'[w].m = metric[w].m
    <3>1. metric[w].pc # "idle"
      BY <2>1, MetricStepKinds DEF MetricGoesOn, MetricSettles
    <3>2. /\ \A v \in MetricWorkers : v # w => metric'[v] = metric[v]
          /\ metric'[w].pc = "idle" \/ metric'[w].m = metric[w].m
      BY <1>0, <2>1, MetricStepKinds DEF MetricGoesOn, MetricSettles, IdleMetric, Local
    <3> QED
      BY <3>1, <3>2 DEF WorkIsQueued
  <2>3. \A d \in Datagrams : applied'[d] > 0 => Queued(d)
    <3>1. applied' = applied \/ applied' = [applied EXCEPT ![metric[w].m.d] = @ + 1]
      BY <2>1 DEF MetricStep, NothingToCount, IncrementCounters, ReadCounters, SetPercentages,
                  SettleDecoded, history
    <3> QED
      BY <1>0, <2>2, <3>1 DEF WorkIsQueued
  <2>4. metric'[w].pc \in {"find", "set"} => metric'[w].result = "ok"
    <3>1. CASE NothingToCount(w) \/ SetPercentages(w) \/ SettleDecoded(w)
      BY <1>0, <3>1 DEF NothingToCount, SetPercentages, SettleDecoded, MetricLocals,
                        IdleMetric, Local
    <3>2. CASE IncrementCounters(w)
      <4>1. PICK result, key :
              metric' = [metric EXCEPT ![w] =
                  Local(IF result = "ok" THEN "find" ELSE "settle", metric[w].m, key, None, result)]
        BY <3>2 DEF IncrementCounters
      <4> QED
        BY <1>0, <4>1 DEF Local
    <3>3. CASE ReadCounters(w)
      <4>1. \/ metric' = [metric EXCEPT ![w].pc = "settle"]
            \/ \E key, read :
                  metric' = [metric EXCEPT ![w] = Local("set", metric[w].m, key, read, "ok")]
        BY <3>3 DEF ReadCounters
      <4> QED
        BY <1>0, <4>1 DEF Local, MetricLocals
    <3> QED
      BY <2>1, <3>1, <3>2, <3>3 DEF MetricStep
  <2> QED
    BY <1>2, <2>2, <2>3, <2>4 DEF WorkIsQueued
<1>6. CASE Die
  <2>1. applied' = applied /\ \A v \in MetricWorkers : metric'[v].pc = "idle"
    BY <1>6 DEF Die, IdleMetric, Local, history
  <2> QED
    BY <1>2, <2>1 DEF WorkIsQueued
<1> QED
  BY <1>3, <1>4, <1>5, <1>6 DEF Next, Tick, Receive, TakeRaw, DecoderStep, RefuseShort,
         LearnTemplate, DecodeData, SkipSet, FinishDecoding, PublishDecoded, RequeueRaw,
         SettleRaw, DecoderPanics, Crash, Restart, BreakRaw, BreakDecoded, history

\* A datagram that has just arrived is in no other place.
LEMMA CountBoundedArrival ==
    ASSUME TypeOK, TypeOK', OrderInv, AccountInv, Prefetch = 1,
           NEW d \in Datagrams, Receive(d)
    PROVE  CountBounded(d)'
<1>1. ~Queued(d)
  BY DEF Receive, AccountInv, ArrivalOnce, Queued
<1>2. /\ applied[d] = 0 /\ faults \in Nat
      /\ \A i \in DOMAIN dec : dec[i].msg.d # d
      /\ \A w \in Decoders : decoder[w].pc # "idle" => decoder[w].out.d # d
      /\ \A w \in MetricWorkers : metric[w].pc # "idle" => metric[w].m.d # d
  <2>1. applied[d] \in Nat /\ faults \in Nat
    BY CountingsType
  <2> QED
    BY <1>1, <2>1, MessagesQueued DEF AccountInv, WorkIsQueued
<1>3. UNCHANGED <<dec, decoder, metric, applied, faults>>
  BY DEF Receive
<1>4. Cardinality(EntriesOf(dec', d)) = 0
  <2>1. EntriesOf(dec', d) = {}
    BY <1>2, <1>3 DEF EntriesOf
  <2> QED
    BY <2>1, FS_EmptySet
<1>5. ~DecodedInVain(d)' /\ ~CountedAndHeld(d)' /\ ~CountedInVain(d)'
  BY <1>2, <1>3 DEF DecodedInVain, CountedAndHeld, CountedInVain, HasCounted
<1>6. /\ One(DecodedInVain(d)') = 0 /\ One(CountedAndHeld(d)') = 0
      /\ One(CountedInVain(d)') = 0 /\ One(ToBeDecoded(d)') \in {0, 1}
  BY <1>5 DEF One
<1> QED
  BY <1>2, <1>3, <1>4, <1>6 DEF CountBounded, ToDecode, ToCount

\* No step but a fault brings a datagram closer to being counted too often, and a fault
\* allows two more countings.
LEMMA CountBoundedStep ==
    ASSUME TypeOK, TypeOK', IInv, KeptInv, OrderInv, AccountInv, Prefetch = 1, Next,
           NEW d \in Datagrams
    PROVE  CountBounded(d)'
<1>0. /\ DecodersHoldOwn /\ MetricsHoldOwn /\ HandedOn /\ RawInOrder /\ ArrivalOnce
      /\ \A v \in MetricWorkers : metric[v].pc \in {"find", "set"} => metric[v].result = "ok"
  BY DEF KeptInv, OrderInv, AccountInv
<1>1. /\ Countings(d) \in Int /\ ToDecode(d) \in {0, 1, 2} /\ faults \in Nat
      /\ Countings(d) + ToDecode(d) <= 1 + 2 * faults
  <2>1. /\ applied[d] \in Nat /\ faults \in Nat /\ ToCount(d) \in Int
        /\ ToDecode(d) \in {0, 1, 2}
    BY CountingsType
  <2>2. applied[d] + ToDecode(d) + ToCount(d) <= 1 + 2 * faults
    BY DEF AccountInv, CountBounded
  <2> QED
    BY <2>1, <2>2 DEF Countings
<1>2. Countings(d)' \in Int /\ ToDecode(d)' \in {0, 1, 2} /\ faults' \in Nat
  <2>1. dec' \in Seq(Entries(Messages, MetricWorkers)) /\ applied'[d] \in Nat /\ faults' \in Nat
    BY BoundsAssumption DEF TypeOK
  <2>2. Cardinality(EntriesOf(dec', d)) \in Nat
    BY <2>1, EntriesCounted
  <2>3. /\ One(CountedAndHeld(d)') \in {0, 1} /\ One(CountedInVain(d)') \in {0, 1}
        /\ One(ToBeDecoded(d)') \in {0, 1} /\ One(DecodedInVain(d)') \in {0, 1}
    BY DEF One
  <2> QED
    BY <2>1, <2>2, <2>3 DEF Countings, ToCount, ToDecode
<1>3. ASSUME Countings(d)' + ToDecode(d)'
                <= Countings(d) + ToDecode(d) + 2 * (faults' - faults)
      PROVE  CountBounded(d)'
  <2>1. Countings(d)' + ToDecode(d)' <= 1 + 2 * faults'
    <3> DEFINE a == Countings(d) + ToDecode(d)
               b == Countings(d)' + ToDecode(d)'
               f == faults
               g == faults'
    <3>1. a \in Int /\ b \in Int /\ f \in Nat /\ g \in Nat
      BY <1>1, <1>2
    <3>2. a <= 1 + 2 * f /\ b <= a + 2 * (g - f)
      BY <1>1, <1>3
    <3> HIDE DEF a, b, f, g
    <3>3. b <= 1 + 2 * g
      BY <3>1, <3>2
    <3> QED
      BY <3>3 DEF b, g
  <2>2. Countings(d)' = applied'[d] + ToCount(d)' /\ applied'[d] \in Nat
    BY DEF Countings, TypeOK
  <2>3. ToCount(d)' \in Int
    <3>1. Cardinality(EntriesOf(dec', d)) \in Nat
      <4>1. dec' \in Seq(Entries(Messages, MetricWorkers))
        BY DEF TypeOK
      <4> QED
        BY <4>1, EntriesCounted
    <3>2. One(CountedAndHeld(d)') \in {0, 1} /\ One(CountedInVain(d)') \in {0, 1}
      BY DEF One
    <3> QED
      BY <3>1, <3>2 DEF ToCount
  <2> QED
    BY <1>2, <2>1, <2>2, <2>3 DEF CountBounded
<1>4. ASSUME ToBeDecoded(d)' => ToBeDecoded(d), DecodedInVain(d)' => DecodedInVain(d)
      PROVE  ToDecode(d)' <= ToDecode(d)
  <2>1. /\ One(ToBeDecoded(d)') <= One(ToBeDecoded(d))
        /\ One(DecodedInVain(d)') <= One(DecodedInVain(d))
        /\ One(ToBeDecoded(d)') \in {0, 1} /\ One(DecodedInVain(d)') \in {0, 1}
        /\ One(ToBeDecoded(d)) \in {0, 1} /\ One(DecodedInVain(d)) \in {0, 1}
    BY <1>4 DEF One
  <2> QED
    BY <2>1 DEF ToDecode
<1>5. ASSUME UNCHANGED <<raw, decoder, rawConn>>
      PROVE  ToDecode(d)' <= ToDecode(d)
  <2>1. /\ ToBeDecoded(d)' => ToBeDecoded(d)
        /\ DecodedInVain(d)' => DecodedInVain(d)
    BY <1>5 DEF ToBeDecoded, DecodedInVain, MessagesIn
  <2> QED
    BY <1>4, <2>1
<1>6. ASSUME UNCHANGED <<dec, metric, decConn, applied>>, faults' = faults,
             ToDecode(d)' <= ToDecode(d)
      PROVE  CountBounded(d)'
  <2>1. Countings(d)' = Countings(d)
    BY <1>6, CountingElsewhere
  <2> QED
    BY <1>1, <1>2, <1>3, <1>6, <2>1
<1>7. CASE Tick
  BY <1>5, <1>6, <1>7 DEF Tick, network, history
<1>8. CASE \E e \in Datagrams : Receive(e)
  <2>1. CASE Receive(d)
    BY <2>1, CountBoundedArrival
  <2>2. CASE \E e \in Datagrams \ {d} : Receive(e)
    <3>1. ToDecode(d)' <= ToDecode(d)
      BY <1>0, <1>4, <2>2, DecodingElsewhere
    <3> QED
      BY <1>6, <2>2, <3>1 DEF Receive, network
  <2> QED
    BY <1>8, <2>1, <2>2
<1>9. CASE \E w \in Decoders : TakeRaw(w)
  <2>1. ToDecode(d)' <= ToDecode(d)
    BY <1>0, <1>4, <1>9, DecodingElsewhere
  <2> QED
    BY <1>6, <1>9, <2>1 DEF TakeRaw, network, history
<1>10. CASE \E w \in Decoders : DecoderStep(w) /\ ~PublishDecoded(w)
  <2>1. PICK w \in Decoders : DecoderStep(w) /\ ~PublishDecoded(w)
    BY <1>10
  <2>2. ToDecode(d)' <= ToDecode(d)
    BY <1>0, <1>4, <2>1, DecodingGoesOn
  <2>3. UNCHANGED <<dec, metric, decConn, applied>> /\ faults' = faults
    BY <2>1 DEF DecoderStep, RefuseShort, LearnTemplate, DecodeData, SkipSet, FinishDecoding,
                RequeueRaw, SettleRaw, network, history
  <2> QED
    BY <1>6, <2>2, <2>3
<1>11. CASE \E w \in Decoders : PublishDecoded(w)
  <2>1. PICK w \in Decoders : PublishDecoded(w)
    BY <1>11
  <2>2. /\ decoder[w].pc = "publish" /\ decoder' = [decoder EXCEPT ![w].pc = "ack"]
        /\ UNCHANGED <<raw, rawConn>> /\ faults' = faults
    BY <2>1 DEF PublishDecoded, network
  <2>3. Countings(d)' = Countings(d) + One(decoder[w].out.d = d)
    BY <2>1, CountingElsewhere
  <2>4. /\ ToBeDecoded(d)' => ToBeDecoded(d)
        /\ DecodedInVain(d)' => DecodedInVain(d)
        /\ decoder[w].out.d = d =>
             \/ ToBeDecoded(d) /\ ~ToBeDecoded(d)'
             \/ DecodedInVain(d) /\ ~DecodedInVain(d)'
    BY <1>0, <2>2, DecodingPublished
  <2>5. ToDecode(d)' + One(decoder[w].out.d = d) <= ToDecode(d)
    <3>1. /\ One(ToBeDecoded(d)') <= One(ToBeDecoded(d))
          /\ One(DecodedInVain(d)') <= One(DecodedInVain(d))
          /\ One(ToBeDecoded(d)') \in {0, 1} /\ One(DecodedInVain(d)') \in {0, 1}
          /\ One(ToBeDecoded(d)) \in {0, 1} /\ One(DecodedInVain(d)) \in {0, 1}
      BY <2>4 DEF One
    <3>2. \/ One(decoder[w].out.d = d) = 0
          \/ /\ One(decoder[w].out.d = d) = 1
             /\ \/ One(ToBeDecoded(d)) = 1 /\ One(ToBeDecoded(d)') = 0
                \/ One(DecodedInVain(d)) = 1 /\ One(DecodedInVain(d)') = 0
      BY <2>4 DEF One
    <3> QED
      BY <3>1, <3>2 DEF ToDecode
  <2>6. One(decoder[w].out.d = d) \in {0, 1}
    BY DEF One
  <2> QED
    BY <1>1, <1>2, <1>3, <2>2, <2>3, <2>5, <2>6
<1>12. CASE \E w \in MetricWorkers : TakeDecoded(w)
  <2>1. PICK w \in MetricWorkers : TakeDecoded(w)
    BY <1>12
  <2>2. UNCHANGED <<raw, decoder, rawConn>> /\ faults' = faults
    BY <2>1 DEF TakeDecoded, network
  <2>3. Countings(d)' = Countings(d)
    BY <2>1, CountingElsewhere
  <2> QED
    BY <1>1, <1>2, <1>3, <1>5, <2>2, <2>3
<1>13. CASE \E w \in MetricWorkers : MetricStep(w)
  <2>1. PICK w \in MetricWorkers : MetricStep(w)
    BY <1>13
  <2>2. UNCHANGED <<raw, decoder, rawConn>>
    BY <2>1 DEF MetricStep, NothingToCount, IncrementCounters, ReadCounters, SetPercentages,
                SettleDecoded, network
  <2>3. Countings(d)' <= Countings(d) + 2 * (faults' - faults)
    BY <1>0, <2>1, CountingGoesOn
  <2>4. ToDecode(d)' <= ToDecode(d)
    BY <1>5, <2>2
  <2> QED
    BY <1>1, <1>2, <1>3, <2>3, <2>4
<1>14. CASE Restart
  <2>1. ToDecode(d)' <= ToDecode(d)
    BY <1>0, <1>4, <1>14, DecodingElsewhere
  <2>2. Countings(d)' = Countings(d) /\ faults' = faults
    BY <1>14, CountingElsewhere DEF Restart
  <2> QED
    BY <1>1, <1>2, <1>3, <2>1, <2>2
<1>15. ASSUME Die \/ BreakRaw
       PROVE  ToDecode(d)' <= ToDecode(d) + 1
  <2>1. ~(ToBeDecoded(d)' /\ DecodedInVain(d)') \/ ToBeDecoded(d)
    BY <1>0, <1>15, DecodingElsewhere
  <2>2. /\ One(ToBeDecoded(d)') \in {0, 1} /\ One(DecodedInVain(d)') \in {0, 1}
        /\ One(ToBeDecoded(d)) \in {0, 1} /\ One(DecodedInVain(d)) \in {0, 1}
        /\ \/ One(ToBeDecoded(d)') = 0 \/ One(DecodedInVain(d)') = 0
           \/ One(ToBeDecoded(d)) = 1
    BY <2>1 DEF One
  <2> QED
    BY <2>2 DEF ToDecode
<1>16. CASE Die
  <2>1. Countings(d)' <= Countings(d) + 1 /\ faults' = faults + 1
    BY <1>16, CountingElsewhere DEF Die
  <2>2. ToDecode(d)' <= ToDecode(d) + 1
    BY <1>15, <1>16
  <2> QED
    BY <1>1, <1>2, <1>3, <2>1, <2>2
<1>17. CASE BreakRaw
  <2>1. UNCHANGED <<dec, metric, decConn, applied>> /\ faults' = faults + 1
    BY <1>17 DEF BreakRaw, history
  <2>2. Countings(d)' = Countings(d)
    BY <2>1, CountingElsewhere
  <2>3. ToDecode(d)' <= ToDecode(d) + 1
    BY <1>15, <1>17
  <2> QED
    BY <1>1, <1>2, <1>3, <2>1, <2>2, <2>3
<1>18. CASE BreakDecoded
  <2>1. Countings(d)' <= Countings(d) + 1 /\ faults' = faults + 1
    BY <1>18, CountingElsewhere DEF BreakDecoded
  <2>2. UNCHANGED <<raw, rawConn>>
    BY <1>18 DEF BreakDecoded
  <2>3. ToDecode(d)' <= ToDecode(d)
    <3>1. CASE decoder' = decoder
      BY <1>5, <2>2, <3>1
    <3>2. CASE \E w \in Decoders : /\ decoder[w].pc = "publish"
                                   /\ decoder' = [decoder EXCEPT ![w].pc = "ack"]
      <4>1. PICK w \in Decoders : /\ decoder[w].pc = "publish"
                                  /\ decoder' = [decoder EXCEPT ![w].pc = "ack"]
        BY <3>2
      <4>2. /\ ToBeDecoded(d)' => ToBeDecoded(d)
            /\ DecodedInVain(d)' => DecodedInVain(d)
        BY <1>0, <2>2, <4>1, DecodingPublished
      <4> QED
        BY <1>4, <4>2
    <3> QED
      BY <1>18, <3>1, <3>2 DEF BreakDecoded
  <2> QED
    BY <1>1, <1>2, <1>3, <2>1, <2>3
<1> QED
  BY <1>7, <1>8, <1>9, <1>10, <1>11, <1>12, <1>13, <1>14, <1>16, <1>17, <1>18
     DEF Next, Crash, DecoderPanics

LEMMA AccountInit == Init => AccountInv
<1> SUFFICES ASSUME Init PROVE AccountInv
  OBVIOUS
<1>1. /\ DOMAIN raw = {} /\ DOMAIN dec = {} /\ DOMAIN arrival = {} /\ faults = 0
      /\ \A w \in Decoders : decoder[w].pc = "idle"
      /\ \A w \in MetricWorkers : metric[w].pc = "idle"
      /\ \A d \in Datagrams : applied[d] = 0
  BY DEF Init, IdleDecoder, IdleMetric, Local
<1>2. ASSUME NEW d \in Datagrams
      PROVE  CountBounded(d)
  <2>1. EntriesOf(dec, d) = {}
    BY <1>1 DEF EntriesOf
  <2>2. Cardinality(EntriesOf(dec, d)) = 0
    BY <2>1, FS_EmptySet
  <2>3. /\ ~ToBeDecoded(d) /\ ~DecodedInVain(d)
        /\ ~CountedAndHeld(d) /\ ~CountedInVain(d)
    BY <1>1 DEF ToBeDecoded, DecodedInVain, CountedAndHeld, CountedInVain, HasCounted,
                MessagesIn
  <2> QED
    BY <1>1, <2>2, <2>3 DEF CountBounded, ToDecode, ToCount, One
<1> QED
  BY <1>1, <1>2 DEF AccountInv, ArrivalOnce, WorkIsQueued

LEMMA AccountInductive ==
    TypeOK /\ IInv /\ KeptInv /\ OrderInv /\ AccountInv /\ [Next]_vars => AccountInv'
<1> SUFFICES ASSUME TypeOK, IInv, KeptInv, OrderInv, AccountInv, [Next]_vars, Prefetch = 1
             PROVE  AccountInv'
  BY DEF AccountInv
<1>1. CASE Next
  <2>1. TypeOK'
    BY <1>1, Inductive
  <2>2. ArrivalsStay
    BY <1>1, RawInOrderStep DEF KeptInv
  <2>3. ArrivalOnce /\ WorkIsQueued
        /\ \A v \in MetricWorkers : metric[v].pc \in {"find", "set"} => metric[v].result = "ok"
    BY DEF AccountInv
  <2>4. ArrivalOnce'
    BY <1>1, <2>3, ArrivalOnceStep
  <2>5. /\ WorkIsQueued'
        /\ \A v \in MetricWorkers :
              metric'[v].pc \in {"find", "set"} => metric'[v].result = "ok"
    BY <1>1, <2>2, <2>3, MetricsAtWorkStep
  <2>6. \A d \in Datagrams : CountBounded(d)'
    BY <1>1, <2>1, CountBoundedStep
  <2> QED
    BY <2>4, <2>5, <2>6 DEF AccountInv
<1>2. CASE UNCHANGED vars
  <2>1. UNCHANGED <<seen, raw, dec, decoder, metric, rawConn, decConn, faults, arrival, applied>>
    BY <1>2 DEF vars
  <2>2. ArrivalOnce' /\ WorkIsQueued'
    BY <2>1 DEF AccountInv, ArrivalOnce, WorkIsQueued, Queued
  <2>3. ASSUME NEW d \in Datagrams
        PROVE  CountBounded(d)'
    <3>1. CountBounded(d)
      BY DEF AccountInv
    <3> QED
      BY <2>1, <3>1 DEF CountBounded, ToDecode, ToCount, ToBeDecoded, DecodedInVain,
                        CountedAndHeld, CountedInVain, HasCounted, EntriesOf, MessagesIn
  <2> QED
    BY <2>1, <2>2, <2>3 DEF AccountInv
<1> QED
  BY <1>1, <1>2

-----------------------------------------------------------------------------
(***************************************************************************)
(* The accounting.  Every step of the pipeline is one of FlowAccounting.   *)
(***************************************************************************)

\* The abstract steps.  What is accepted changes when a datagram is queued.
LEMMA AcceptedStays ==
    ASSUME UNCHANGED arrival
    PROVE  {d \in Datagrams : Queued(d)}' = {d \in Datagrams : Queued(d)}
BY DEF Queued

LEMMA ReceiveAccepts ==
    ASSUME TypeOK, ArrivalOnce, NEW d \in Datagrams, Receive(d)
    PROVE  \/ UNCHANGED <<arrival, applied, faults>>
           \/ Accounting!Accept(d)
<1>1. UNCHANGED <<applied, faults>>
  BY DEF Receive
<1>2. CASE arrival' = arrival
  BY <1>1, <1>2
<1>3. CASE arrival' = Append(arrival, d)
  <2>1. /\ arrival \in Seq(Datagrams) /\ Len(arrival) \in Nat
        /\ DOMAIN arrival = 1..Len(arrival)
    BY LenProperties DEF TypeOK
  <2>2. /\ Append(arrival, d) \in Seq(Datagrams)
        /\ Len(Append(arrival, d)) = Len(arrival) + 1
        /\ \A j \in 1..Len(arrival) : Append(arrival, d)[j] = arrival[j]
        /\ Append(arrival, d)[Len(arrival) + 1] = d
    BY <2>1, AppendProperties
  <2>3. DOMAIN arrival' = 1..(Len(arrival) + 1)
    BY <1>3, <2>2, LenProperties
  <2>4. /\ \A i \in DOMAIN arrival : i \in DOMAIN arrival' /\ arrival'[i] = arrival[i]
        /\ Len(arrival) + 1 \in DOMAIN arrival' /\ arrival'[Len(arrival) + 1] = d
        /\ \A i \in DOMAIN arrival' : i \in DOMAIN arrival \/ arrival'[i] = d
    BY <1>3, <2>1, <2>2, <2>3
  <2>5. ~Queued(d)
    BY DEF Receive, ArrivalOnce, Queued
  <2>6. \A e \in Datagrams : Queued(e)' <=> Queued(e) \/ e = d
    BY <2>4 DEF Queued
  <2>7. {e \in Datagrams : Queued(e)}' = {e \in Datagrams : Queued(e)} \cup {d}
    BY <2>6
  <2> QED
    BY <1>1, <2>5, <2>7 DEF Accounting!Accept
<1> QED
  BY <1>2, <1>3 DEF Receive

LEMMA IncrementCounts ==
    ASSUME TypeOK, IInv, AccountInv, MetricsHoldOwn, Prefetch = 1,
           NEW w \in MetricWorkers, IncrementCounters(w)
    PROVE  \/ \E d \in Datagrams :
                Accounting!CountFlows(d) /\ (faults' = faults \/ Accounting!Fault)
           \/ Accounting!Fault /\ UNCHANGED applied
<1>0. /\ dec \in Seq(Entries(Messages, MetricWorkers)) /\ Ready \notin MetricWorkers
      /\ metric \in [MetricWorkers -> MetricLocals]
  BY WorkersAssumption DEF TypeOK
<1>1. metric[w].pc = "inc" /\ arrival' = arrival
  BY DEF IncrementCounters
<1>2. PICK d \in Datagrams : d = metric[w].m.d
  BY <1>1 DEF IInv, WorkInProgress, Messages
<1>3. Queued(d)
  BY <1>1, <1>2 DEF AccountInv, WorkIsQueued
<1>4. faults \in Nat /\ applied[d] \in Nat /\ ToDecode(d) \in {0, 1, 2}
      /\ Cardinality(EntriesOf(dec, d)) \in Nat
  BY CountingsType
<1>5. \A v \in MetricWorkers : v # w => metric[v].pc = "idle"
  BY <1>1 DEF IInv, OneBusy
<1>6. ~CountedAndHeld(d)
  BY <1>1, <1>5 DEF CountedAndHeld, HasCounted
<1>7. CountedInVain(d) \/ Cardinality(EntriesOf(dec, d)) >= 1
  <2>1. CASE ~decConn
    BY <1>1, <1>2, <2>1 DEF CountedInVain
  <2>2. CASE decConn
    <3>1. DecEntry(w) \in HeldBy(dec, w) /\ DecEntry(w) \in DOMAIN dec
      BY <1>1, <2>2 DEF DecEntry, HeldBy, IInv, BusyHolds
    <3>2. <<w, dec[DecEntry(w)].msg>> \in Holdings(dec)
      BY <1>0, <3>1, HoldingsSettled DEF MetricsHoldOwn
    <3>3. dec[DecEntry(w)].msg = metric[w].m
      BY <3>2 DEF MetricsHoldOwn
    <3>4. EntriesOf(dec, d) # {}
      BY <1>2, <3>1, <3>3 DEF EntriesOf
    <3> QED
      BY <1>0, <3>4, EntriesCounted
  <2> QED
    BY <2>1, <2>2
<1>8. applied[d] <= 2 * faults
  <2>1. /\ One(CountedAndHeld(d)) = 0 /\ One(CountedInVain(d)) \in {0, 1}
        /\ One(CountedInVain(d)) = 1 \/ Cardinality(EntriesOf(dec, d)) >= 1
    BY <1>6, <1>7 DEF One
  <2>2. ToCount(d) \in Int /\ ToCount(d) >= 1
    BY <1>4, <2>1 DEF ToCount
  <2>3. applied[d] + ToDecode(d) + ToCount(d) <= 1 + 2 * faults
    BY DEF AccountInv, CountBounded
  <2> QED
    BY <1>4, <2>2, <2>3
<1>9. {e \in Datagrams : Queued(e)}' = {e \in Datagrams : Queued(e)}
  BY <1>1, AcceptedStays
<1>10. PICK result \in {"ok", "refused", "timeout"} :
            /\ faults' = IF result = "ok" THEN faults ELSE faults + 1
            /\ result = "refused" => applied' = applied
            /\ result # "refused" => applied' = [applied EXCEPT ![metric[w].m.d] = @ + 1]
  BY DEF IncrementCounters
<1>11. result # "ok" => Accounting!Fault
  <2>1. result # "ok" => 2 * faults' = 2 * faults + 2
    BY <1>4, <1>10
  <2> QED
    BY <1>9, <2>1 DEF Accounting!Fault
<1>12. result # "refused" => Accounting!CountFlows(d)
  BY <1>2, <1>3, <1>8, <1>9, <1>10 DEF Accounting!CountFlows
<1> QED
  BY <1>10, <1>11, <1>12

LEMMA AccountingStep ==
    ASSUME TypeOK, TypeOK', IInv, KeptInv, AccountInv, Prefetch = 1, Next
    PROVE  Accounting!AbsNext \/ UNCHANGED <<arrival, applied, faults>>
<1>0. ArrivalOnce /\ MetricsHoldOwn /\ faults \in Nat
  BY BoundsAssumption DEF AccountInv, KeptInv, TypeOK
<1>1. CASE \E d \in Datagrams : Receive(d)
  BY <1>0, <1>1, ReceiveAccepts DEF Accounting!AbsNext
<1>2. CASE \E w \in MetricWorkers : IncrementCounters(w)
  <2>1. PICK w \in MetricWorkers : IncrementCounters(w)
    BY <1>2
  <2>2. \/ \E d \in Datagrams :
                Accounting!CountFlows(d) /\ (faults' = faults \/ Accounting!Fault)
        \/ Accounting!Fault /\ UNCHANGED applied
    BY <1>0, <2>1, IncrementCounts
  <2> QED
    BY <2>2 DEF Accounting!AbsNext
<1>3. ASSUME UNCHANGED <<arrival, applied>>, faults' = faults \/ faults' = faults + 1
      PROVE  Accounting!AbsNext \/ UNCHANGED <<arrival, applied, faults>>
  <2>1. CASE faults' = faults + 1
    <3>1. 2 * faults' = 2 * faults + 2
      BY <1>0, <2>1
    <3>2. {d \in Datagrams : Queued(d)}' = {d \in Datagrams : Queued(d)}
      BY <1>3, AcceptedStays
    <3>3. Accounting!Fault
      BY <3>1, <3>2 DEF Accounting!Fault
    <3> QED
      BY <1>3, <3>3 DEF Accounting!AbsNext
  <2> QED
    BY <1>3, <2>1
<1>4. CASE \E w \in MetricWorkers :
            TakeDecoded(w) \/ NothingToCount(w) \/ ReadCounters(w) \/ SetPercentages(w)
            \/ SettleDecoded(w)
  BY <1>3, <1>4 DEF TakeDecoded, NothingToCount, ReadCounters, SetPercentages, SettleDecoded,
                    history
<1>5. CASE \E w \in Decoders : TakeRaw(w) \/ DecoderStep(w)
  <2>1. UNCHANGED <<arrival, applied, faults>>
    BY <1>5 DEF TakeRaw, DecoderStep, RefuseShort, LearnTemplate, DecodeData, SkipSet,
                FinishDecoding, PublishDecoded, RequeueRaw, SettleRaw, history
  <2> QED
    BY <2>1
<1>6. CASE Tick \/ Die \/ Restart \/ BreakRaw \/ BreakDecoded
  BY <1>3, <1>6 DEF Tick, Die, Restart, BreakRaw, BreakDecoded, history
<1> QED
  BY <1>1, <1>2, <1>4, <1>5, <1>6 DEF Next, MetricStep, Crash, DecoderPanics

\* With a prefetch limit of one, the pipeline implements FlowAccounting for any datagrams
\* and any number of workers and faults: without a fault the flows of a datagram are counted
\* once at most, and every fault allows two more countings of it and not one more.
THEOREM AccountingHolds ==
    ASSUME Prefetch = 1
    PROVE  Spec => AccountingImplemented
<1>1. Init => Accounting!AbsInit
  <2> SUFFICES ASSUME Init PROVE Accounting!AbsInit
    OBVIOUS
  <2>1. {d \in Datagrams : Queued(d)} = {}
    BY DEF Init, Queued
  <2>2. 2 * faults = 0
    BY DEF Init
  <2> QED
    BY <2>1, <2>2 DEF Init, Accounting!AbsInit
<1>2. TypeOK /\ TypeOK' /\ IInv /\ KeptInv /\ AccountInv /\ [Next]_vars
        => [Accounting!AbsNext]_(Accounting!AbsVars)
  <2> SUFFICES ASSUME TypeOK, TypeOK', IInv, KeptInv, AccountInv, [Next]_vars
               PROVE  [Accounting!AbsNext]_(Accounting!AbsVars)
    OBVIOUS
  <2>1. UNCHANGED <<arrival, applied, faults>> => UNCHANGED Accounting!AbsVars
    BY DEF Accounting!AbsVars, Queued
  <2>2. CASE Next
    BY <2>1, <2>2, AccountingStep
  <2>3. CASE UNCHANGED vars
    BY <2>1, <2>3 DEF vars
  <2> QED
    BY <2>2, <2>3
<1> QED
  BY <1>1, <1>2, TypeInit, InvInit, KeptInit, OrderInit, AccountInit, Inductive,
     KeptInductive, OrderInductive, AccountInductive, PTL
     DEF Spec, AccountingImplemented, Accounting!AbsSpec
=============================================================================
