------------------------------ MODULE Timeline ------------------------------
(***************************************************************************)
(* The event timeline of a session and the stall report read from it       *)
(* (analysis/events.py, bridge.stall_correlation): what the parsers emit,  *)
(* what the bound per source and the bound of the document keep, in which  *)
(* order, and which frame spikes are put down to a GC pause.  The bound    *)
(* per source is a binary heap, kept as heapq keeps it in an array.        *)
(***************************************************************************)
EXTENDS Summary

CONSTANTS PerSource,    \* PER_SOURCE_MAX
          RetainedMax   \* RETAINED_MAX

ASSUME BoundsAssumption == PerSource \in Nat \ {0} /\ RetainedMax \in Nat \ {0}

\* _SEVERITY_RANK.
Error == 0
Warn == 1
Info == 2

\* t is None for a line the probe printed without a stamp; said is the duration a
\* message carries, line the place of the event in its source.
Event(source, kind, severity, t, value, said, line) ==
    [source |-> source, kind |-> kind, severity |-> severity, t |-> t, value |-> value,
     said |-> said, line |-> line, seq |-> 0]

-----------------------------------------------------------------------------
(* The parsers.                                                            *)

\* parse_bt_slow: every slow line, then the last value of a cumulative counter.
BtLines(ev, artifact, kind, said) ==
    IF artifact \notin ev.files THEN <<>>
    ELSE [i \in DOMAIN said |-> Event(artifact, kind, Warn, None, None, said[i], i)]

BtCounter(ev, artifact, total, nth) ==
    IF artifact \notin ev.files \/ total = None THEN <<>>
    ELSE <<Event(artifact, "counter", Info, None, total, None, nth)>>

Repeated(n) == [i \in 1 .. n |-> None]

FutexEvents(ev) ==
    BtLines(ev, "futex", "futex", Repeated(ev.futex.slow)) \o BtCounter(ev, "futex", ev.futex.waits, 1)

GcEvents(ev) ==
    BtLines(ev, "mono_gc", "gc", [i \in DOMAIN ev.gc.lines |-> ev.gc.lines[i].ms])
      \o BtCounter(ev, "mono_gc", ev.gc.little, 1) \o BtCounter(ev, "mono_gc", ev.gc.collect, 2)

\* parse_bridge_spikes.
SpikeEvents(ev) ==
    IF ~Readable(ev) THEN <<>>
    ELSE [i \in DOMAIN ev.snap.spikes |->
            LET s == ev.snap.spikes[i] IN
            Event("apm_app.json", "frame_spike", IF s.ms >= 200 THEN Error ELSE Warn, s.t, s.ms, None, i)]

\* parse_proc_jsonl: a busy sample, and a jump of the RSS since the last known one.
ProcEvents(ev) ==
    LET rows == Found(ev, "proc", ev.proc, <<>>)
        lastRss(i) == LET known == {j \in 1 .. i - 1 : rows[j].rss # None} IN
                      IF known = {} THEN None ELSE rows[Max(known)].rss
        jumps(i) == rows[i].rss # None /\ lastRss(i) # None /\ rows[i].rss - lastRss(i) > 50
        of(i) == (IF rows[i].cpu > 150
                  THEN <<Event("proc.jsonl", "cpu_spike", Warn, rows[i].t, rows[i].cpu, None, 2 * i)>> ELSE <<>>)
                 \o (IF jumps(i)
                     THEN <<Event("proc.jsonl", "rss_jump", Warn, rows[i].t, rows[i].rss - lastRss(i), None, 2 * i + 1)>>
                     ELSE <<>>)
    IN FlattenSeq([i \in DOMAIN rows |-> of(i)])

\* parse_threads_jsonl: of the first five wait channels of a sample, those that hold
\* three threads or more.
ThreadEvents(ev) ==
    LET rows == Found(ev, "threads", ev.threads, <<>>)
        held(i, k) == k <= 5 /\ rows[i].waiters[k] >= 3
        of(i, k) == IF held(i, k)
                    THEN <<Event("threads.jsonl", "wchan", Info, rows[i].t, rows[i].waiters[k], None, 5 * i + k)>>
                    ELSE <<>>
    IN FlattenSeq([i \in DOMAIN rows |-> FlattenSeq([k \in DOMAIN rows[i].waiters |-> of(i, k)])])

\* parse_app_scrape: a spike, and an average beyond the frame budget.
ScrapeEvents(ev) ==
    LET rows == Found(ev, "app", ev.app.replies, <<>>)
        of(i) == (IF rows[i].spike
                  THEN <<Event("bridge.jsonl", "managed_bridge_spike", Error, rows[i].t, rows[i].ms, None, 2 * i)>> ELSE <<>>)
                 \o (IF rows[i].avg >= 33
                     THEN <<Event("bridge.jsonl", "managed_bridge_slow_update", Warn, rows[i].t, rows[i].avg, None, 2 * i + 1)>>
                     ELSE <<>>)
    IN FlattenSeq([i \in DOMAIN rows |-> of(i)])

\* build_timeline, in its order.
Parsed(ev) ==
    SpikeEvents(ev) \o FutexEvents(ev)
      \o BtLines(ev, "block", "block_io", Repeated(ev.io.slowBlock))
      \o BtLines(ev, "vfs", "vfs_io", Repeated(ev.io.mainIo))
      \o GcEvents(ev) \o ProcEvents(ev) \o ThreadEvents(ev) \o ScrapeEvents(ev)

-----------------------------------------------------------------------------
(* EventSink.                                                              *)

\* The order of the heap's keys (-severity rank, sequence).
Below(a, b) == a.severity > b.severity \/ (a.severity = b.severity /\ a.seq < b.seq)

Swapped(heap, i, j) == [heap EXCEPT ![i] = heap[j], ![j] = heap[i]]

\* heapq.heappush: the entry at the end climbs while it is below its parent.
Climbed(s) ==
    LET up == s.at \div 2 IN
    IF s.at = 1 \/ ~Below(s.heap[s.at], s.heap[up]) THEN s
    ELSE [heap |-> Swapped(s.heap, s.at, up), at |-> up]

Climb(heap) ==
    LET after[n \in 0 .. Len(heap)] ==
            IF n = 0 THEN [heap |-> heap, at |-> Len(heap)] ELSE Climbed(after[n - 1])
    IN after[Len(heap)].heap

\* heapq.heapreplace: the new root sinks below the smaller of its children.
Sunk(s) ==
    LET children == {2 * s.at, 2 * s.at + 1} \cap DOMAIN s.heap
        least == CHOOSE c \in children : \A d \in children : c = d \/ Below(s.heap[c], s.heap[d])
    IN IF \A c \in children : ~Below(s.heap[c], s.heap[s.at]) THEN s
       ELSE [heap |-> Swapped(s.heap, s.at, least), at |-> least]

Sink(heap) ==
    LET after[n \in 0 .. Len(heap)] == IF n = 0 THEN [heap |-> heap, at |-> 1] ELSE Sunk(after[n - 1])
    IN after[Len(heap)].heap

\* Mutant of Kept: the first PerSource entries of a source stay.
KeptFirst(heap, entry) == IF Len(heap) < PerSource THEN Append(heap, entry) ELSE heap

Kept(heap, entry) ==
    IF Len(heap) < PerSource THEN Climb(Append(heap, entry))
    ELSE IF Below(heap[1], entry) THEN Sink([heap EXCEPT ![1] = entry])
    ELSE heap

NoSink == [heaps |-> <<>>, sources |-> <<>>, count |-> 0]

\* add: every event is counted, PerSource of each source are kept.
Add(sink, event) ==
    LET entry == [event EXCEPT !.seq = sink.count]
        new == event.source \notin DOMAIN sink.heaps
        heap == IF new THEN <<>> ELSE sink.heaps[event.source]
    IN [heaps |-> [s \in DOMAIN sink.heaps \cup {event.source} |->
                     IF s = event.source THEN Kept(heap, entry) ELSE sink.heaps[s]],
        sources |-> IF new THEN Append(sink.sources, event.source) ELSE sink.sources,
        count |-> sink.count + 1]

\* events: the heaps one after the other, each as its array stands.
Materialized(sink) == FlattenSeq([i \in DOMAIN sink.sources |-> sink.heaps[sink.sources[i]]])

-----------------------------------------------------------------------------
(* build_timeline and the report on stalls.                                *)

\* By time, the unstamped ones after all others in the order they come.
Laid(events) ==
    LET timed == Those(events, LAMBDA e : e.t # None)
    IN Ranked(timed, [i \in DOMAIN timed |-> -timed[i].t]) \o Those(events, LAMBDA e : e.t = None)

\* Mutant of Bounded: the survivors stay in the order they were ranked.
BoundedByRank(laid) ==
    SubSeq(Ranked(laid, [i \in DOMAIN laid |-> -laid[i].severity]), 1, Min({RetainedMax, Len(laid)}))

\* The most severe RetainedMax, of equal ones those laid out last.
Bounded(laid) ==
    LET better(i, j) == laid[i].severity < laid[j].severity \/ (laid[i].severity = laid[j].severity /\ i > j)
        survives(i) == Cardinality({j \in DOMAIN laid : better(j, i)}) < RetainedMax
    IN Sifted(laid, {i \in DOMAIN laid : survives(i)})

TimelineOf(ev) ==
    LET sink == FoldLeft(Add, NoSink, Parsed(ev))
        retained == Bounded(Laid(Materialized(sink)))
    IN [count |-> sink.count, dropped |-> sink.count - Len(retained), events |-> retained]

\* Mutant of LikelyGc: a spike without a duration is matched as well.
LikelyGcAlways(spike, gcMs) == 2 * gcMs >= spike.value

\* A GC pause of about the length of the spike; a spike without one has no length.
LikelyGc(spike, gcMs) == spike.value > 0 /\ 2 * gcMs >= spike.value

\* stall_correlation: the ten longest spikes, what was within two seconds of each,
\* and the longest GC pause within half of its length.
Stalls(timeline) ==
    LET events == timeline.events
        timed == Those(events, LAMBDA e : e.kind = "frame_spike" /\ e.t # None)
        spikes == Ranked(timed, [i \in DOMAIN timed |-> timed[i].value])
        near(s) == {e.kind : e \in {f \in ToSet(events) : f.t # None /\ f # s /\ f.t - s.t \in -2 .. 2}}
        pauses(s) == {e.said : e \in {f \in ToSet(events) : f.kind = "gc" /\ f.said # None}}
        gcMs(s) == IF s.value <= 0 THEN 0
                   ELSE Max({0} \cup {m \in pauses(s) : 2 * m - 2 * s.value \in -s.value .. s.value})
    IN [i \in 1 .. Min({10, Len(spikes)}) |->
          [spike |-> spikes[i], near |-> near(spikes[i]), gcMs |-> gcMs(spikes[i]),
           gc |-> LikelyGc(spikes[i], gcMs(spikes[i]))]]

=============================================================================
