--------------------------- MODULE NetflowPipeline ---------------------------
(***************************************************************************)
(* The IPFIX pipeline of src/netflow: the UDP listener publishes datagrams *)
(* to the raw queue; decoder workers, which share one in-memory template   *)
(* cache, decode them and publish to the decoded queue; metric workers run *)
(* the metric processors, of which only ip_version_analyzer stores         *)
(* anything (see the README on the other two), into one document per       *)
(* exporter and five-minute bucket.  One step is one access to a shared    *)
(* object: a queue, the cache or the database.                             *)
(***************************************************************************)
EXTENDS Broker

CONSTANTS
    Exporters,        \* source addresses of the datagrams
    Datagrams,        \* identities of the datagrams that may arrive
    Content,          \* [Datagrams -> ContentRecord], what each one carries
    Decoders,         \* the goroutines of StartDecoderWorkers
    MetricWorkers,    \* the goroutines of StartMetricWorkers
    Prefetch,         \* the prefetch limit in force on both channels
    FaultKinds,       \* the kinds of faults that may happen
    MaxFaults,        \* bound: how many faults a behaviour has
    MaxBucket,        \* bound: the last five-minute bucket
    None              \* no template, no document, no datagram

AllFaults == {"crash", "rawconn", "decconn", "db"}
Layouts == [family : {"v4", "v6", "other"}, size : Nat, fixedWidths : BOOLEAN]
FlowSets == [kind : {"template"}, key : Nat \X Nat, layout : Layouts]
            \cup [kind : {"data"}, key : Nat \X Nat, len : Nat]
            \cup [kind : {"options"}]
ContentRecord == [src : Exporters, form : {"short", "badlength", "ok"},
                  sets : Seq(FlowSets)]

ASSUME ContentAssumption == Content \in [Datagrams -> ContentRecord]
ASSUME PrefetchAssumption == Prefetch \in Nat
ASSUME BoundsAssumption ==
    /\ FaultKinds \subseteq AllFaults
    /\ MaxFaults \in Nat
    /\ MaxBucket \in Nat
ASSUME WorkersAssumption ==
    /\ Ready \notin Decoders \cup MetricWorkers
    /\ None \notin Datagrams
    /\ None \notin [layout : Layouts, from : Datagrams]

Buckets == 0..MaxBucket

VARIABLES
    seen,             \* datagrams that have reached the socket, once each
    raw,              \* queue ipfix_raw_packets
    dec,              \* queue ipfix_decoded_packets
    cache,            \* TemplateCache.templates of the running process
    decoder,          \* local state of each decoder goroutine
    metric,           \* local state of each metric goroutine
    store,            \* collection ip_version_metrics, by <<routerIp, timestamp>>
    now,              \* the current five-minute bucket
    up,               \* the process is running
    rawConn,          \* its connection of rawRabbit is open
    decConn,          \* its connection of decodedRabbit is open
    faults,           \* history: number of faults so far
    arrival,          \* history: the datagrams in the order they were queued
    applied,          \* history: how often a datagram's flows were counted
    excused,          \* history: datagrams that had nothing to count
    forgotten,        \* history: templates a restart forgot, and that were not learned since
    lost              \* history: datagrams that such a template was missing for, or that a
                      \* broken connection swallowed

vars == <<seen, raw, dec, cache, decoder, metric, store, now, up, rawConn,
          decConn, faults, arrival, applied, excused, forgotten, lost>>
history == <<arrival, applied, excused, forgotten, lost>>
network == <<up, rawConn, decConn>>
-----------------------------------------------------------------------------
\* What decoding reads: templates are looked up by observation domain and
\* template identifier, which together are the "key" of a flow set.

Keys == {fs.key : fs \in UNION {
            {Content[d].sets[i] : i \in {j \in DOMAIN Content[d].sets :
                                            Content[d].sets[j].kind # "options"}}
            : d \in Datagrams}}
EmptyCache == [k \in Keys |-> None]

\* parseDataFlowSet: whole records only, none when the record size is 0.
RecordCount(len, layout) == IF layout.size = 0 THEN 0 ELSE len \div layout.size

Count(n, layout, family) == IF layout.family = family THEN n ELSE 0

IdleDecoder == [pc |-> "idle", at |-> 1, out |-> None]
EmptyMessage(d) == [d |-> d, v4 |-> 0, v6 |-> 0, uses |-> {}]
Local(pc, m, key, read, result) ==
    [pc |-> pc, m |-> m, key |-> key, read |-> read, result |-> result]
IdleMetric == Local("idle", None, None, None, "ok")
RawEntry(w) == CHOOSE i \in HeldBy(raw, w) : TRUE
DecEntry(w) == CHOOSE i \in HeldBy(dec, w) : TRUE

Init ==
    /\ seen = {}
    /\ raw = <<>> /\ dec = <<>>
    /\ cache = EmptyCache
    /\ decoder = [w \in Decoders |-> IdleDecoder]
    /\ metric = [w \in MetricWorkers |-> IdleMetric]
    /\ store = [k \in Exporters \X Buckets |-> None]
    /\ now = 0
    /\ up = TRUE /\ rawConn = TRUE /\ decConn = TRUE
    /\ faults = 0
    /\ arrival = <<>>
    /\ applied = [d \in Datagrams |-> 0]
    /\ excused = {} /\ forgotten = {} /\ lost = {}

MayFault(kind) == kind \in FaultKinds /\ faults < MaxFaults

\* The clock moves to the next five-minute bucket.
Tick ==
    /\ now < MaxBucket
    /\ now' = now + 1
    /\ UNCHANGED <<seen, raw, dec, cache, decoder, metric, store, network,
                   faults, history>>

\* A datagram reaches the host.  The listener publishes it; with the process
\* down, or the publication failing, the datagram is gone.
Receive(d) ==
    /\ d \notin seen
    /\ seen' = seen \cup {d}
    /\ IF up /\ rawConn
       THEN /\ raw' = Published(raw, d)
            /\ arrival' = Append(arrival, d)
       ELSE UNCHANGED <<raw, arrival>>
    /\ UNCHANGED <<dec, cache, decoder, metric, store, now, network, faults,
                   applied, excused, forgotten, lost>>
-----------------------------------------------------------------------------
\* The decoder goroutines.

\* range deliveries: the next raw message goes to an idle decoder.
TakeRaw(w) ==
    /\ up /\ rawConn
    /\ decoder[w].pc = "idle"
    /\ \E i \in DOMAIN raw :
        /\ MayDeliver(raw, i, Prefetch)
        /\ raw' = Delivered(raw, i, w)
        /\ decoder' = [decoder EXCEPT ![w] =
                          [pc |-> "decode", at |-> 1, out |-> EmptyMessage(raw[i].msg)]]
    /\ UNCHANGED <<seen, dec, cache, metric, store, now, network, faults, history>>

\* The delivery of w is acknowledged; on a closed connection this does nothing.
AckRaw(w) == raw' = IF rawConn THEN Acked(raw, RawEntry(w)) ELSE raw

\* ParseIPFIX refuses a datagram shorter than a header: it is acknowledged.
RefuseShort(w) ==
    /\ decoder[w].pc = "decode"
    /\ Content[decoder[w].out.d].form = "short"
    /\ AckRaw(w)
    /\ decoder' = [decoder EXCEPT ![w] = IdleDecoder]
    /\ excused' = excused \cup {decoder[w].out.d}
    /\ UNCHANGED <<seen, dec, cache, metric, store, now, network, faults,
                   arrival, applied, forgotten, lost>>

\* The flow set that w is at, and the template the cache has for it.
CurrentSet(w) == Content[decoder[w].out.d].sets[decoder[w].at]
AtFlowSet(w) ==
    /\ decoder[w].pc = "decode"
    /\ Content[decoder[w].out.d].form = "ok"
    /\ decoder[w].at <= Len(Content[decoder[w].out.d].sets)
Records(fs, template) == RecordCount(fs.len, template.layout)

\* ParseIPFIX slices out of range on a flow set length of 1 to 3, decodeField on
\* a field shorter than the fixed width it reads.
Panics(w) ==
    \/ decoder[w].pc = "decode" /\ Content[decoder[w].out.d].form = "badlength"
    \/ /\ AtFlowSet(w)
       /\ CurrentSet(w).kind = "data"
       /\ LET template == cache[CurrentSet(w).key] IN
            /\ template # None
            /\ Records(CurrentSet(w), template) > 0
            /\ ~template.layout.fixedWidths

NextSet(w, out) ==
    decoder' = [decoder EXCEPT ![w] =
                   [pc |-> "decode", at |-> decoder[w].at + 1, out |-> out]]

LearnFirstTemplate(w) ==      \* mistake: a known template is kept
    /\ AtFlowSet(w)
    /\ LET fs == CurrentSet(w) IN
        /\ fs.kind = "template"
        /\ cache' = IF cache[fs.key] # None THEN cache ELSE
                    [cache EXCEPT ![fs.key] =
                       [layout |-> fs.layout, from |-> decoder[w].out.d]]
    /\ NextSet(w, decoder[w].out)
    /\ forgotten' = forgotten \ {CurrentSet(w).key}
    /\ UNCHANGED <<seen, raw, dec, metric, store, now, network, faults,
                   arrival, applied, excused, lost>>

\* DecodeIPFIX at a template set: AddTemplate, over any template of that key.
LearnTemplate(w) ==
    /\ AtFlowSet(w)
    /\ LET fs == CurrentSet(w) IN
        /\ fs.kind = "template"
        /\ cache' = [cache EXCEPT ![fs.key] =
                       [layout |-> fs.layout, from |-> decoder[w].out.d]]
    /\ NextSet(w, decoder[w].out)
    /\ forgotten' = forgotten \ {CurrentSet(w).key}
    /\ UNCHANGED <<seen, raw, dec, metric, store, now, network, faults,
                   arrival, applied, excused, lost>>

\* DecodeIPFIX at a data set: GetTemplate, then the records of the set.
DecodeData(w) ==
    /\ AtFlowSet(w)
    /\ LET fs == CurrentSet(w)
           template == cache[fs.key]
           n == Records(fs, template)
           layout == template.layout
           out == decoder[w].out
       IN  /\ fs.kind = "data"
           /\ template # None
           /\ n > 0 => layout.fixedWidths
           /\ NextSet(w, [d |-> out.d,
                           v4 |-> out.v4 + Count(n, layout, "v4"),
                           v6 |-> out.v6 + Count(n, layout, "v6"),
                           uses |-> out.uses \cup {<<fs.key, template.from>>}])
    /\ UNCHANGED <<seen, raw, dec, cache, metric, store, now, network, faults, history>>

\* DecodeIPFIX at a data set without template, or at an options set: skipped.
SkipSet(w) ==
    /\ AtFlowSet(w)
    /\ \/ CurrentSet(w).kind = "options" /\ lost' = lost
       \/ /\ CurrentSet(w).kind = "data" /\ cache[CurrentSet(w).key] = None
          /\ lost' = IF CurrentSet(w).key \in forgotten THEN lost \cup {decoder[w].out.d} ELSE lost
    /\ NextSet(w, decoder[w].out)
    /\ UNCHANGED <<seen, raw, dec, cache, metric, store, now, network, faults,
                   arrival, applied, excused, forgotten>>

\* The loop of DecodeIPFIX is over.
FinishDecoding(w) ==
    /\ decoder[w].pc = "decode"
    /\ Content[decoder[w].out.d].form = "ok"
    /\ decoder[w].at > Len(Content[decoder[w].out.d].sets)
    /\ decoder' = [decoder EXCEPT ![w].pc = "publish"]
    /\ excused' = IF decoder[w].out.v4 + decoder[w].out.v6 = 0 /\ decoder[w].out.d \notin lost
                  THEN excused \cup {decoder[w].out.d} ELSE excused
    /\ UNCHANGED <<seen, raw, dec, cache, metric, store, now, network, faults,
                   arrival, applied, forgotten, lost>>

\* PublishDecodedIPFIX succeeds: the decoded message is queued.
PublishDecoded(w) ==
    /\ decoder[w].pc = "publish"
    /\ decConn
    /\ dec' = Published(dec, decoder[w].out)
    /\ decoder' = [decoder EXCEPT ![w].pc = "ack"]
    /\ UNCHANGED <<seen, raw, cache, metric, store, now, network, faults, history>>

DropRaw(w) ==      \* mistake: Nack without requeue
    /\ decoder[w].pc = "publish"
    /\ ~decConn
    /\ AckRaw(w)
    /\ decoder' = [decoder EXCEPT ![w] = IdleDecoder]
    /\ UNCHANGED <<seen, dec, cache, metric, store, now, network, faults, history>>

\* PublishDecodedIPFIX fails: the raw message is requeued, to be decoded again.
RequeueRaw(w) ==
    /\ decoder[w].pc = "publish"
    /\ ~decConn
    /\ raw' = IF rawConn THEN Requeued(raw, RawEntry(w)) ELSE raw
    /\ decoder' = [decoder EXCEPT ![w] = IdleDecoder]
    /\ UNCHANGED <<seen, dec, cache, metric, store, now, network, faults, history>>

\* The decoded message is out and the raw one is acknowledged.
SettleRaw(w) ==
    /\ decoder[w].pc = "ack"
    /\ AckRaw(w)
    /\ decoder' = [decoder EXCEPT ![w] = IdleDecoder]
    /\ UNCHANGED <<seen, dec, cache, metric, store, now, network, faults, history>>
-----------------------------------------------------------------------------
\* The metric goroutines.

\* range deliveries: the next decoded message goes to an idle metric worker.
\* The lookup of the router that follows decides only the routerId stored.
TakeDecoded(w) ==
    /\ up /\ decConn
    /\ metric[w].pc = "idle"
    /\ \E i \in DOMAIN dec :
        /\ MayDeliver(dec, i, Prefetch)
        /\ dec' = Delivered(dec, i, w)
        /\ metric' = [metric EXCEPT ![w] =
                         Local("inc", dec[i].msg, None, None, "ok")]
    /\ UNCHANGED <<seen, raw, cache, decoder, store, now, network, faults, history>>

\* Process finds no IPv4 or IPv6 record: nothing is stored.
NothingToCount(w) ==
    /\ metric[w].pc = "inc"
    /\ metric[w].m.v4 + metric[w].m.v6 = 0
    /\ metric' = [metric EXCEPT ![w].pc = "settle"]
    /\ UNCHANGED <<seen, raw, dec, cache, decoder, store, now, network, faults, history>>

CountedOverwriting(doc, w) ==      \* mistake: the document is replaced, not updated
    LET m == metric[w].m IN
    IF doc = None
    THEN [v4 |-> m.v4, v6 |-> m.v6, pct |-> None]
    ELSE [v4 |-> doc.v4 + m.v4, v6 |-> doc.v6 + m.v6]

Counted(doc, w) ==
    LET m == metric[w].m IN
    IF doc = None
    THEN [v4 |-> m.v4, v6 |-> m.v6, pct |-> None]
    ELSE [v4 |-> doc.v4 + m.v4, v6 |-> doc.v6 + m.v6, pct |-> doc.pct]

\* The upsert of the counters, in the bucket of the moment of processing.
\* Under "db" it fails, before or after the database has applied it.
IncrementCounters(w) ==
    LET m == metric[w].m
        key == <<Content[m.d].src, now>>
    IN  /\ metric[w].pc = "inc"
        /\ m.v4 + m.v6 > 0
        /\ \E result \in {"ok"} \cup {r \in {"refused", "timeout"} : MayFault("db")} :
            /\ metric' = [metric EXCEPT ![w] =
                  Local(IF result = "ok" THEN "find" ELSE "settle", m, key, None, result)]
            /\ faults' = IF result = "ok" THEN faults ELSE faults + 1
            /\ IF result = "refused"
               THEN UNCHANGED <<store, applied>>
               ELSE /\ store' = [store EXCEPT ![key] = Counted(@, w)]
                    /\ applied' = [applied EXCEPT ![m.d] = @ + 1]
        /\ UNCHANGED <<seen, raw, dec, cache, decoder, now, network, arrival, excused,
                      forgotten, lost>>

\* updatePercentages reads the document back; an error ends it silently.
ReadCounters(w) ==
    /\ metric[w].pc = "find"
    /\ \/ /\ LET key == metric[w].key IN
                metric' = [metric EXCEPT ![w] =
                    Local("set", metric[w].m, key, <<store[key].v4, store[key].v6>>,
                          "ok")]
          /\ faults' = faults
       \/ /\ MayFault("db")
          /\ metric' = [metric EXCEPT ![w].pc = "settle"]
          /\ faults' = faults + 1
    /\ UNCHANGED <<seen, raw, dec, cache, decoder, store, now, network, history>>

\* It stores the percentages of the counters it has read; errors are ignored.
SetPercentages(w) ==
    /\ metric[w].pc = "set"
    /\ metric' = [metric EXCEPT ![w].pc = "settle"]
    /\ \/ /\ store' = [store EXCEPT ![metric[w].key] = [@ EXCEPT !.pct = metric[w].read]]
          /\ faults' = faults
       \/ /\ MayFault("db")
          /\ store' = store
          /\ faults' = faults + 1
    /\ UNCHANGED <<seen, raw, dec, cache, decoder, now, network, history>>

SettleWithoutNack(w) ==      \* mistake: no answer to the broker on failure
    /\ metric[w].pc = "settle"
    /\ dec' = IF decConn /\ metric[w].result = "ok" THEN Acked(dec, DecEntry(w)) ELSE dec
    /\ metric' = [metric EXCEPT ![w] = IdleMetric]
    /\ UNCHANGED <<seen, raw, cache, decoder, store, now, network, faults, history>>

SettleAlwaysRequeues(w) ==      \* mistake: Nack whatever the processors returned
    /\ metric[w].pc = "settle"
    /\ dec' = IF decConn THEN Requeued(dec, DecEntry(w)) ELSE dec
    /\ metric' = [metric EXCEPT ![w] = IdleMetric]
    /\ UNCHANGED <<seen, raw, cache, decoder, store, now, network, faults, history>>

\* After all processors: acknowledge, or requeue if one of them failed.
SettleDecoded(w) ==
    /\ metric[w].pc = "settle"
    /\ dec' = IF ~decConn THEN dec
              ELSE IF metric[w].result # "ok" THEN Requeued(dec, DecEntry(w))
              ELSE Acked(dec, DecEntry(w))
    /\ metric' = [metric EXCEPT ![w] = IdleMetric]
    /\ UNCHANGED <<seen, raw, cache, decoder, store, now, network, faults, history>>
-----------------------------------------------------------------------------
\* Faults, and the restart after a crash.

\* The process dies: its memory is gone and the broker requeues what it held.
Die ==
    /\ up' = FALSE /\ rawConn' = FALSE /\ decConn' = FALSE
    /\ raw' = AllRequeued(raw)
    /\ dec' = AllRequeued(dec)
    /\ cache' = EmptyCache
    /\ decoder' = [w \in Decoders |-> IdleDecoder]
    /\ metric' = [w \in MetricWorkers |-> IdleMetric]
    /\ faults' = faults + 1
    /\ forgotten' = forgotten \cup {k \in Keys : cache[k] # None}
    /\ UNCHANGED <<seen, store, now, arrival, applied, excused, lost>>

Crash == up /\ MayFault("crash") /\ Die

\* A panic of a goroutine, which nothing recovers, ends the whole process.
DecoderPanics(w) ==
    /\ Panics(w)
    /\ faults < MaxFaults
    /\ Die

\* main runs again: InitDependencies dials the broker twice and starts all.
Restart ==
    /\ ~up
    /\ up' = TRUE /\ rawConn' = TRUE /\ decConn' = TRUE
    /\ UNCHANGED <<seen, raw, dec, cache, decoder, metric, store, now, faults, history>>

\* The connection of rawRabbit ends; nothing dials again.
BreakRaw ==
    /\ rawConn /\ MayFault("rawconn")
    /\ rawConn' = FALSE
    /\ raw' = AllRequeued(raw)
    /\ faults' = faults + 1
    /\ UNCHANGED <<seen, dec, cache, decoder, metric, store, now, up, decConn, history>>

\* The connection of decodedRabbit ends; nothing dials again.  Without
\* publisher confirms, a publication that has just returned nil may be lost.
BreakDecoded ==
    /\ decConn /\ MayFault("decconn")
    /\ decConn' = FALSE
    /\ dec' = AllRequeued(dec)
    /\ faults' = faults + 1
    /\ \/ UNCHANGED <<decoder, lost>>
       \/ \E w \in Decoders :
            /\ decoder[w].pc = "publish"
            /\ decoder' = [decoder EXCEPT ![w].pc = "ack"]
            /\ lost' = lost \cup {decoder[w].out.d}
    /\ UNCHANGED <<seen, raw, cache, metric, store, now, up, rawConn, arrival, applied,
                   excused, forgotten>>
-----------------------------------------------------------------------------
DecoderStep(w) ==
    \/ RefuseShort(w)
    \/ LearnTemplate(w) \/ DecodeData(w) \/ SkipSet(w) \/ FinishDecoding(w)
    \/ PublishDecoded(w) \/ RequeueRaw(w) \/ SettleRaw(w)

MetricStep(w) ==
    \/ NothingToCount(w) \/ IncrementCounters(w) \/ ReadCounters(w)
    \/ SetPercentages(w) \/ SettleDecoded(w)

Next ==
    \/ Tick
    \/ \E d \in Datagrams : Receive(d)
    \/ \E w \in Decoders : TakeRaw(w) \/ DecoderStep(w) \/ DecoderPanics(w)
    \/ \E w \in MetricWorkers : TakeDecoded(w) \/ MetricStep(w)
    \/ Crash \/ Restart \/ BreakRaw \/ BreakDecoded

Spec == Init /\ [][Next]_vars

\* The Go scheduler runs every runnable goroutine, and the broker delivers
\* what it may.  Nothing makes a datagram arrive or a dead process restart.
Fairness ==
    /\ WF_vars(\E w \in Decoders : TakeRaw(w))
    /\ WF_vars(\E w \in MetricWorkers : TakeDecoded(w))
    /\ \A w \in Decoders : WF_vars(DecoderStep(w))
    /\ \A w \in MetricWorkers : WF_vars(MetricStep(w))

FairSpec == Spec /\ Fairness
-----------------------------------------------------------------------------
Messages == [d : Datagrams, v4 : Nat, v6 : Nat, uses : SUBSET (Keys \X Datagrams)]
CachedTemplates == [layout : Layouts, from : Datagrams]
Readings == {None} \cup (Nat \X Nat)
DocumentKeys == Exporters \X Buckets
Documents == [v4 : Nat, v6 : Nat, pct : Readings]
Entries(M, W) == [msg : M, by : W \cup {Ready}]
DecoderLocals == [pc : {"idle", "decode", "publish", "ack"}, at : Nat \ {0},
                  out : {None} \cup Messages]
MetricLocals == [pc : {"idle", "inc", "find", "set", "settle"},
                 m : {None} \cup Messages,
                 key : {None} \cup DocumentKeys,
                 read : Readings,
                 result : {"ok", "refused", "timeout"}]

\* Every variable holds a value of its kind.
TypeOK ==
    /\ seen \subseteq Datagrams
    /\ raw \in Seq(Entries(Datagrams, Decoders))
    /\ dec \in Seq(Entries(Messages, MetricWorkers))
    /\ cache \in [Keys -> {None} \cup CachedTemplates]
    /\ decoder \in [Decoders -> DecoderLocals]
    /\ metric \in [MetricWorkers -> MetricLocals]
    /\ store \in [DocumentKeys -> {None} \cup Documents]
    /\ now \in Buckets
    /\ up \in BOOLEAN /\ rawConn \in BOOLEAN /\ decConn \in BOOLEAN
    /\ faults \in 0..MaxFaults
    /\ arrival \in Seq(Datagrams)
    /\ applied \in [Datagrams -> Nat]
    /\ excused \subseteq Datagrams /\ forgotten \subseteq Keys /\ lost \subseteq Datagrams

\* TemplateCache has no lock: two decoder goroutines in DecodeIPFIX at once would
\* be a concurrent map access, which ends a Go process.  Only the prefetch limit
\* of the shared consumer keeps them apart, whatever faults occur.
DecodersExclusive ==
    Prefetch = 1 =>
        \A v, w \in Decoders :
            decoder[v].pc = "decode" /\ decoder[w].pc = "decode" => v = w

\* updatePercentages reads counters and writes percentages in two database
\* calls.  What it is about to write was computed from the counters the document
\* still has: no other worker has counted in between.
PercentagesCurrent ==
    Prefetch = 1 =>
        \A w \in MetricWorkers :
            metric[w].pc = "set" =>
                metric[w].read = <<store[metric[w].key].v4, store[metric[w].key].v6>>

\* Until the first fault, every document nobody is updating has the percentages
\* of its own counters.
PercentagesFresh ==
    Prefetch = 1 /\ faults = 0 =>
        \A k \in DocumentKeys :
            \/ store[k] = None
            \/ store[k].pct = <<store[k].v4, store[k].v6>>
            \/ \E w \in MetricWorkers : metric[w].pc \in {"find", "set"} /\ metric[w].key = k

\* Flows are decoded with the template their domain announced last before them, in the
\* order the datagrams were queued, even across redeliveries and restarts.  Of a datagram
\* that announces a template after data of it, that data has the template before, or, if
\* the datagram is decoded again, its own.
Announces(d, key) ==
    /\ Content[d].form = "ok"
    /\ \E i \in DOMAIN Content[d].sets :
            Content[d].sets[i].kind = "template" /\ Content[d].sets[i].key = key
AnnouncesFirst(d, key) ==
    \E i \in DOMAIN Content[d].sets :
        /\ Content[d].sets[i].kind = "template" /\ Content[d].sets[i].key = key
        /\ \A j \in 1..(i - 1) :
                ~(Content[d].sets[j].kind = "data" /\ Content[d].sets[j].key = key)
LastAnnounced(d, key, n) ==
    \E i \in 1..n :
        /\ arrival[i] = d /\ Announces(d, key)
        /\ \A j \in 1..n : Announces(arrival[j], key) => j <= i
UsesLatest(m) ==
    \E n \in DOMAIN arrival :
        /\ arrival[n] = m.d
        /\ \A use \in m.uses :
                \/ use[2] = m.d /\ Announces(m.d, use[1])
                \/ ~AnnouncesFirst(m.d, use[1]) /\ LastAnnounced(use[2], use[1], n - 1)

TemplatesLatest ==
    Prefetch = 1 =>
        /\ \A i \in DOMAIN dec : UsesLatest(dec[i].msg)
        /\ \A w \in Decoders : decoder[w].pc # "idle" => UsesLatest(decoder[w].out)

\* A datagram that was queued is counted at least once, unless it has nothing to count,
\* a connection broke under its decoded message, or a restart has emptied the cache of a
\* template it needs: between the two queues, the workers' memory and the database a crash
\* or a broken connection makes it disappear at no other moment.  And that nothing was
\* counted is judged by what arrived: each of its data sets was decoded, with a template
\* that TemplatesLatest is about, or nothing before it announced a template for the set.
InFlight(d) ==
    \/ \E i \in DOMAIN raw : raw[i].msg = d
    \/ \E i \in DOMAIN dec : dec[i].msg.d = d
    \/ \E w \in Decoders : decoder[w].pc # "idle" /\ decoder[w].out.d = d
Queued(d) == \E i \in DOMAIN arrival : arrival[i] = d

HadNoTemplate(d, key) ==
    \E n \in DOMAIN arrival :
        arrival[n] = d /\ \A j \in 1..(n - 1) : ~Announces(arrival[j], key)
DecodedInFull(m) ==
    \A i \in DOMAIN Content[m.d].sets :
        LET fs == Content[m.d].sets[i] IN
        fs.kind = "data" => (\E use \in m.uses : use[1] = fs.key) \/ HadNoTemplate(m.d, fs.key)

NothingLost ==
    /\ \A d \in Datagrams :
            Queued(d) => InFlight(d) \/ applied[d] > 0 \/ d \in excused \cup lost
    /\ Prefetch = 1 =>
            \A w \in Decoders :
                decoder[w].pc \in {"publish", "ack"} /\ decoder[w].out.d \notin lost
                    => DecodedInFull(decoder[w].out)

\* Every queued datagram leaves the pipeline: it is decoded and its flows are
\* counted, or it had none.  (No fault but transient database errors.)
EventuallyHandled ==
    \A d \in Datagrams :
        Queued(d) ~> ~InFlight(d) /\ (applied[d] > 0 \/ d \in excused)
-----------------------------------------------------------------------------
\* The pipeline implements the accounting of FlowAccounting: redeliveries,
\* duplicated decoded messages and repeated updates count the flows of a datagram
\* more than once only after faults, and no more than twice for each: a crash can
\* catch the same datagram unacknowledged in both queues.
Accounting == INSTANCE FlowAccounting WITH
    accepted <- {d \in Datagrams : Queued(d)},
    counted <- applied,
    Stages <- 2,
    excess <- 2 * faults

AccountingImplemented == Accounting!AbsSpec
-----------------------------------------------------------------------------
\* The strengthening under which the proofs of NetflowPipelineProofs are inductive.

\* What a worker has at hand is there when it needs it.
WorkInProgress ==
    /\ \A w \in Decoders : decoder[w].pc # "idle" => decoder[w].out \in Messages
    /\ \A w \in MetricWorkers : metric[w].pc # "idle" => metric[w].m \in Messages
    /\ \A w \in MetricWorkers : metric[w].pc \in {"find", "set"} =>
            /\ metric[w].key \in DocumentKeys
            /\ store[metric[w].key] \in Documents
    /\ \A w \in MetricWorkers : metric[w].pc = "set" => metric[w].read \in Readings

\* A dead process has no workers and no connections.
DownIsIdle ==
    ~up => /\ ~rawConn /\ ~decConn
           /\ \A w \in Decoders : decoder[w].pc = "idle"
           /\ \A w \in MetricWorkers : metric[w].pc = "idle"

\* On an open connection, a busy worker holds an entry of its queue.
BusyHolds ==
    /\ rawConn => \A w \in Decoders : decoder[w].pc # "idle" => HeldBy(raw, w) # {}
    /\ decConn => \A w \in MetricWorkers : metric[w].pc # "idle" => HeldBy(dec, w) # {}

\* With prefetch 1, one decoder and one metric worker at most are busy.
OneBusy ==
    Prefetch = 1 =>
        /\ \A v, w \in Decoders :
                decoder[v].pc # "idle" /\ decoder[w].pc # "idle" => v = w
        /\ \A v, w \in MetricWorkers :
                metric[v].pc # "idle" /\ metric[w].pc # "idle" => v = w

IInv == WorkInProgress /\ DownIsIdle /\ BusyHolds /\ OneBusy
-----------------------------------------------------------------------------
\* The strengthening for NothingLost.

\* A held entry is held by a worker that is busy with it, on an open connection, and no
\* worker holds two.
HeldOnce(queue) ==
    \A i, j \in HeldEntries(queue) : queue[i].by = queue[j].by => i = j
Holdings(queue) == {<<queue[i].by, queue[i].msg>> : i \in HeldEntries(queue)}

DecodersHoldOwn ==
    /\ HeldOnce(raw)
    /\ \A h \in Holdings(raw) :
            rawConn /\ decoder[h[1]].pc # "idle" /\ decoder[h[1]].out.d = h[2]
MetricsHoldOwn ==
    /\ HeldOnce(dec)
    /\ \A h \in Holdings(dec) :
            decConn /\ metric[h[1]].pc # "idle" /\ metric[h[1]].m = h[2]

\* What has left the raw queue is in the decoded one, or needs to be in none.
MessagesIn(queue) == {queue[i].msg : i \in DOMAIN queue}
CountedOrExcused(d) == applied[d] > 0 \/ d \in excused \cup lost
Passed(d) == CountedOrExcused(d) \/ \E m \in MessagesIn(dec) : m.d = d
Kept == \A d \in Datagrams : Queued(d) => d \in MessagesIn(raw) \/ Passed(d)

\* A message with nothing to count is of an excused datagram or a lost one; a worker that
\* is about to acknowledge has handed its datagram on.
NothingIsExcused(m) == m.v4 + m.v6 = 0 => m.d \in excused \cup lost
HandedOn ==
    /\ \A m \in MessagesIn(dec) : NothingIsExcused(m)
    /\ \A w \in Decoders :
            /\ decoder[w].pc \in {"publish", "ack"} => NothingIsExcused(decoder[w].out)
            /\ decoder[w].pc = "ack" => Passed(decoder[w].out.d)
    /\ \A w \in MetricWorkers :
            /\ metric[w].pc = "inc" => NothingIsExcused(metric[w].m) /\ metric[w].result = "ok"
            /\ metric[w].pc \in {"find", "set"} => applied[metric[w].m.d] > 0
            /\ metric[w].pc = "settle" /\ metric[w].result = "ok"
                    => CountedOrExcused(metric[w].m.d)

KeptInv == DecodersHoldOwn /\ MetricsHoldOwn /\ Kept /\ HandedOn
-----------------------------------------------------------------------------
\* The strengthening for TemplatesLatest.

\* The raw queue is what has arrived and is not handled, in the order of its arrival, and
\* a busy decoder is at the first of it.
Handled == Len(arrival) - Len(raw)
RawInOrder ==
    /\ Len(raw) <= Len(arrival)
    /\ \A i \in DOMAIN raw : raw[i].msg = arrival[Handled + i]
    /\ HeldEntries(raw) \subseteq {1}
    /\ \A w \in Decoders :
            decoder[w].pc # "idle" => Len(raw) > 0 /\ decoder[w].out.d = raw[1].msg

\* A cached template is the latest of those handled, or of the datagram that is next.
CacheInOrder ==
    \A k \in Keys : cache[k] # None =>
        \/ LastAnnounced(cache[k].from, k, Handled)
        \/ Len(raw) > 0 /\ cache[k].from = raw[1].msg /\ Announces(raw[1].msg, k)

\* The templates before set n of the datagram of w are in the cache.
Learned(w, n) ==
    LET sets == Content[decoder[w].out.d].sets IN
    \A i \in DOMAIN sets :
        i < n /\ sets[i].kind = "template"
            => cache[sets[i].key].from = decoder[w].out.d
DecoderInOrder(w) ==
    LET d == decoder[w].out.d IN
    /\ decoder[w].pc = "decode" /\ Content[d].form = "ok" => Learned(w, decoder[w].at)
    /\ decoder[w].pc \in {"publish", "ack"} =>
            Content[d].form = "ok" /\ Learned(w, Len(Content[d].sets) + 1)
    /\ decoder[w].pc # "idle" => \A use \in decoder[w].out.uses :
            \/ use[2] = d /\ Announces(d, use[1])
            \/ ~AnnouncesFirst(d, use[1]) /\ LastAnnounced(use[2], use[1], Handled)

OrderInv ==
    Prefetch = 1 =>
        /\ RawInOrder /\ CacheInOrder
        /\ \A w \in Decoders : DecoderInOrder(w)
        /\ \A m \in MessagesIn(dec) : UsesLatest(m)
-----------------------------------------------------------------------------
\* The strengthening for the second part of NothingLost.

\* What is neither cached nor forgotten was never announced by what is handled; and of the
\* sets a decoder has been through, it knows the templates and has decoded the others with
\* one, or counts them as lost, or they had none.
NoneAnnounced(k) == \A j \in 1..Handled : ~Announces(arrival[j], k)
SetDone(m, i) ==
    LET fs == Content[m.d].sets[i] IN
    /\ fs.kind = "template" => cache[fs.key] # None
    /\ fs.kind = "data" => \/ m.d \in lost \/ NoneAnnounced(fs.key)
                           \/ \E use \in m.uses : use[1] = fs.key
WentThrough(w) ==
    \A i \in DOMAIN Content[decoder[w].out.d].sets :
        (decoder[w].pc = "decode" => i < decoder[w].at) => SetDone(decoder[w].out, i)
ForgottenInv ==
    Prefetch = 1 =>
        /\ \A k \in Keys : cache[k] = None /\ k \notin forgotten => NoneAnnounced(k)
        /\ \A w \in Decoders :
                decoder[w].pc # "idle" /\ Content[decoder[w].out.d].form = "ok" => WentThrough(w)
-----------------------------------------------------------------------------
\* The strengthening for AccountingImplemented: how often the flows of a datagram have
\* been counted, and how often they will be if nothing fails any more.

One(condition) == IF condition THEN 1 ELSE 0

\* A queued datagram is to be decoded, unless its decoder is only left to acknowledge it;
\* a decoder that lost its entry with the connection decodes one more time.
ToBeDecoded(d) ==
    /\ d \in MessagesIn(raw)
    /\ ~(rawConn /\ \E w \in Decoders : decoder[w].pc = "ack" /\ decoder[w].out.d = d)
DecodedInVain(d) ==
    /\ ~rawConn
    /\ \E w \in Decoders : decoder[w].pc \in {"decode", "publish"} /\ decoder[w].out.d = d
ToDecode(d) == One(ToBeDecoded(d)) + One(DecodedInVain(d))

\* A decoded message is to be counted, unless its worker has done so and holds it still; a
\* worker that lost its entry with the connection counts one more time.
EntriesOf(queue, d) == {i \in DOMAIN queue : queue[i].msg.d = d}
HasCounted(w) ==
    \/ metric[w].pc \in {"find", "set"}
    \/ metric[w].pc = "settle" /\ metric[w].result = "ok"
CountedAndHeld(d) == decConn /\ \E w \in MetricWorkers : HasCounted(w) /\ metric[w].m.d = d
CountedInVain(d) ==
    /\ ~decConn
    /\ \E w \in MetricWorkers : metric[w].pc = "inc" /\ metric[w].m.d = d
ToCount(d) ==
    Cardinality(EntriesOf(dec, d)) - One(CountedAndHeld(d)) + One(CountedInVain(d))

ArrivalOnce ==
    /\ \A i \in DOMAIN arrival : arrival[i] \in seen
    /\ \A i, j \in DOMAIN arrival : arrival[i] = arrival[j] => i = j

\* Only what was queued is worked on.
WorkIsQueued ==
    /\ \A w \in MetricWorkers : metric[w].pc # "idle" => Queued(metric[w].m.d)
    /\ \A d \in Datagrams : applied[d] > 0 => Queued(d)

CountBounded(d) == applied[d] + ToDecode(d) + ToCount(d) <= 1 + 2 * faults

AccountInv ==
    Prefetch = 1 =>
        /\ ArrivalOnce /\ WorkIsQueued
        /\ \A w \in MetricWorkers : metric[w].pc \in {"find", "set"} => metric[w].result = "ok"
        /\ \A d \in Datagrams : CountBounded(d)
=============================================================================
