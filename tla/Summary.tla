------------------------------ MODULE Summary -------------------------------
(***************************************************************************)
(* What finalize makes of a session's evidence: the collector plan of an   *)
(* --only string, the pressure score of each layer, the adjustments the    *)
(* bridge snapshot, the thread samples and the memory samples apply, the   *)
(* lag diagnosis and the attribution of managed time (analysis/report.py,  *)
(* analysis/bridge.py, collectors.py, models.py), as operators over one    *)
(* evidence record.                                                        *)
(*                                                                         *)
(* Shares are thousandths, severities hundredths, rates of memory tenths   *)
(* of a MB/s, durations milliseconds or seconds.  A probe's output is what *)
(* the regular expressions of the scorers find in it.                      *)
(***************************************************************************)
EXTENDS Integers, SequencesExt

CONSTANTS None,       \* an absent value: null, or a key that is not there
          Malformed   \* a bridge snapshot that does not parse into objects

Layers == {"cpu", "memory_cache", "sync_locks", "scheduler", "io", "runtime_gc", "app_sim"}

\* The items at some of their indices, in the given strict order of these.
Listed(items, indices, before(_, _)) ==
    MapThenFoldSet(LAMBDA item, rest : <<item>> \o rest, <<>>, LAMBDA i : items[i],
                   LAMBDA left : CHOOSE i \in left : \A j \in left \ {i} : before(i, j), indices)

\* The items at some of their indices, in the order they have.
Sifted(items, indices) == Listed(items, indices, LAMBDA i, j : i < j)

\* The items the test holds for.
Those(items, test(_)) == Sifted(items, {i \in DOMAIN items : test(items[i])})

-----------------------------------------------------------------------------
(* The catalog and the --only tokens.                                      *)

Collector(name, layer, extra, optin) ==
    [name |-> name, layer |-> layer, extra |-> extra, optin |-> optin]

\* collectors.SPECS; a collector's name also stands for its primary artifact.
Catalog ==
    {Collector("app", "app_sim", {}, FALSE), Collector("threads", "threads", {}, FALSE),
     Collector("proc", "memory_cache", {"threads"}, FALSE),
     Collector("mono_gc", "runtime_gc", {}, FALSE),
     Collector("mono_alloc", "runtime_gc", {"alloc", "allocsites"}, TRUE)}
    \cup {Collector(n, "cpu", {}, FALSE) : n \in {"perf", "oncpu"}}
    \cup {Collector("hw", "memory_cache", {}, FALSE), Collector("futex", "sync_locks", {}, FALSE)}
    \cup {Collector(n, "scheduler", {}, FALSE) : n \in {"runqlat", "offcpu", "states"}}
    \cup {Collector(n, "io", {}, FALSE) : n \in {"vfs", "block", "io_net"}}

Aliases(layer) ==
    CASE layer = "app_sim" -> {"app"}
      [] layer = "io" -> {"net"}
      [] layer = "memory_cache" -> {"memory", "hw", "cache", "proc"}
      [] layer = "runtime_gc" -> {"runtime", "gc"}
      [] layer = "scheduler" -> {"sched"}
      [] layer = "sync_locks" -> {"sync", "locks", "futex"}
      [] OTHER -> {}

KnownTokens ==
    {"all"} \cup UNION {{c.name, c.layer} \cup c.extra \cup Aliases(c.layer) : c \in Catalog}

LayerRequested(layer, only) == ({"all", layer} \cup Aliases(layer)) \cap only # {}

\* An opt-in collector answers to its own name and aliases only.
CollectorRequested(c, only) ==
    \/ ({c.name} \cup c.extra) \cap only # {}
    \/ ~c.optin /\ LayerRequested(c.layer, only)

Planned(only) == {c \in Catalog : CollectorRequested(c, only)}
PlannedLayers(only) == {c.layer : c \in Planned(only)}

\* Mutant of EffectiveSeconds: the window that was asked for.
RequestedSeconds(ev) == ev.seconds

\* The window the collectors ran: the observed one when it was cut short.
EffectiveSeconds(ev) ==
    IF ev.observed # None /\ ev.observed > 0 /\ ev.observed < ev.seconds
    THEN ev.observed ELSE ev.seconds

\* The divisor of every rate.
Window(ev) == Max({1, EffectiveSeconds(ev)})

-----------------------------------------------------------------------------
(* One score per layer, 0 (calm) to 100.                                   *)

Cap(n) == Min({100, n})
RoundDiv(a, b) == (2 * a + b) \div (2 * b)
Points(condition, n) == IF condition THEN n ELSE 0

\* The most that value earns on a ladder of <<bound, points>>.
Tier(value, ladder) == Max({0} \cup {r[2] : r \in {s \in ladder : value >= s[1]}})

\* A value that is not there counts as 0.
Known(value) == IF value = None THEN 0 ELSE value

\* What a probe found; nothing when its output is not there.
Found(ev, artifact, seen, nothing) == IF artifact \in ev.files THEN seen ELSE nothing

NoHw == [ipc |-> 0, missRate |-> 0, llc |-> 0]
Hw(ev) == Found(ev, "hw", ev.hw, NoHw)
Futex(ev) == Found(ev, "futex", ev.futex, [slow |-> 0, waitMs |-> 0])
Io(ev) ==
    [slowBlock |-> Found(ev, "block", ev.io.slowBlock, 0), mainIo |-> Found(ev, "vfs", ev.io.mainIo, 0),
     slowRead |-> Found(ev, "vfs", ev.io.slowRead, FALSE), fsync |-> Found(ev, "vfs", ev.io.fsync, FALSE)]
Gc(ev) ==
    LET lines(kind) == Found(ev, "mono_gc", Those(ev.gc.lines, LAMBDA l : l.kind = kind), <<>>)
    IN [slow |-> Len(lines("slow")), worstMs |-> Max({0} \cup {l.ms : l \in ToSet(lines("stw"))}),
        little |-> Found(ev, "mono_gc", Known(ev.gc.little), 0)]
Sched(ev) ==
    [slowBucket |-> {"runqlat", "states"} \cap ev.files # {} /\ ev.sched.slowBucket,
     preempted |-> {"runqlat", "states"} \cap ev.files # {} /\ ev.sched.preempted,
     diskMs |-> Found(ev, "offcpu", ev.sched.diskMs, 0),
     runqMs |-> Found(ev, "states", ev.sched.runqMs, 0)]

\* ipc in hundredths, 0 when the counters are missing.
CpuScore(ev) ==
    Cap(Points(Hw(ev).ipc \in 1 .. 49, 40) + Points(Hw(ev).ipc \in 50 .. 99, 20)
          + Points("oncpu" \in ev.files /\ ev.stacks, 15))

CacheScore(ev) ==
    Max({Tier(Hw(ev).missRate, {<<151, 70>>, <<81, 40>>, <<31, 20>>}),
         Tier(Hw(ev).llc, {<<201, 50>>})})

\* Slow waits per second, and the share of the window spent waiting.
SyncScore(ev) ==
    LET s == Window(ev) IN
    Max({Tier(10 * Futex(ev).slow, {<<20 * s, 90>>, <<5 * s, 65>>, <<s, 35>>, <<1, 15>>}),
         Tier(Futex(ev).waitMs, {<<100 * s, 80>>, <<30 * s, 50>>})})

SchedulerScore(ev) ==
    LET s == Window(ev) IN
    Max({Points(Sched(ev).slowBucket, 30) + Points(Sched(ev).preempted, 20),
         Tier(Sched(ev).diskMs, {<<50 * s, 80>>, <<10 * s, 50>>, <<1, 25>>}),
         Tier(Sched(ev).runqMs, {<<50 * s, 75>>, <<21, 45>>})})

\* Mutant of IoScore: min(100, ...) is forgotten on the block term.
IoScoreUncapped(ev) ==
    Max({Io(ev).slowBlock * 15 + Points(Io(ev).slowRead, 20),
         Points(Io(ev).mainIo > 0, Cap(40 + Io(ev).mainIo * 5)), Points(Io(ev).fsync, 10)})

IoScore(ev) ==
    Max({Cap(Io(ev).slowBlock * 15 + Points(Io(ev).slowRead, 20)),
         Points(Io(ev).mainIo > 0, Cap(40 + Io(ev).mainIo * 5)), Points(Io(ev).fsync, 10)})

GcScore(ev) ==
    Max({Cap(Gc(ev).slow * 25 + Min({40, Gc(ev).little \div 50})),
         Tier(Gc(ev).worstMs, {<<100, 85>>, <<50, 60>>})})

AppScore(ev) ==
    Found(ev, "app", Points(ev.app.tick, 10) + Points(\E r \in ToSet(ev.app.replies) : r.spike, 30), 0)

Score(layer, ev) ==
    CASE layer = "cpu" -> CpuScore(ev)
      [] layer = "memory_cache" -> CacheScore(ev)
      [] layer = "sync_locks" -> SyncScore(ev)
      [] layer = "scheduler" -> SchedulerScore(ev)
      [] layer = "io" -> IoScore(ev)
      [] layer = "runtime_gc" -> GcScore(ev)
      [] layer = "app_sim" -> AppScore(ev)

\* The artifacts any one of which is evidence for the layer.
Sources(layer) ==
    CASE layer = "cpu" -> {"oncpu", "perf"}
      [] layer = "memory_cache" -> {"hw", "proc"}
      [] layer = "sync_locks" -> {"futex"}
      [] layer = "scheduler" -> {"runqlat", "states", "offcpu"}
      [] layer = "io" -> {"vfs", "block"}
      [] layer = "runtime_gc" -> {"mono_gc"}
      [] OTHER -> {}

\* A scrape whose every record failed is no evidence; an ingested snapshot is.
AppEvidence(ev) == ev.snap # None \/ ("app" \in ev.files /\ ev.app.ok)

HasEvidence(layer, ev) ==
    IF layer = "app_sim" THEN AppEvidence(ev) ELSE Sources(layer) \cap ev.files # {}

\* Mutant of Scored: a layer without evidence keeps the 0 its scorer found.
ScoredZero(ev) ==
    [l \in Layers |-> [state |-> "collected", score |-> Score(l, ev)]]

\* layer_scores: without evidence a layer is unavailable or skipped, unscored.
Scored(ev) ==
    [l \in Layers |->
        IF HasEvidence(l, ev) THEN [state |-> "collected", score |-> Score(l, ev)]
        ELSE [state |-> IF LayerRequested(l, ev.only) THEN "unavailable" ELSE "skipped",
              score |-> None]]

-----------------------------------------------------------------------------
(* What the other evidence adds to the scores.                             *)

\* Mutant of Raised: the state of the layer is not asked.
RaisedAnyway(layers, layer, points) ==
    [layers EXCEPT ![layer].score = IF @ = None THEN points ELSE Max({@, points})]

\* Every adjustment raises one layer, if it was collected.
Raised(layers, layer, points) ==
    [layers EXCEPT ![layer].score =
        IF layers[layer].state = "collected" THEN Max({@, points}) ELSE @]

\* thread_summary: the main thread's mean CPU and mean share of the process, over
\* the samples in which the process ran.  The whole-process figure is the
\* denominator; the listed rows are it only in records that lack one.
ThreadSummary(ev) ==
    LET total(s) == IF s.process # None THEN s.process ELSE s.rows
        ran == Found(ev, "threads", Those(ev.threads, LAMBDA s : total(s) > 0), <<>>)
        mean(f(_)) == SumFunction([i \in DOMAIN ran |-> f(ran[i])]) \div Len(ran)
    IN IF ran = <<>> THEN None
       ELSE [cpu |-> mean(LAMBDA s : s.main), share |-> mean(LAMBDA s : (1000 * s.main) \div total(s))]

MainThreadPressure(layers, ts) ==
    IF ts = None THEN layers
    ELSE Raised(layers, "cpu", Points(ts.share >= 500, IF ts.cpu >= 80 THEN 85 ELSE 55))

\* Gross allocation: the bridge's counter (negative when it has none), or the
\* alloc probe's bytes over the bridge's window, or unknown.
Gross(ev) ==
    IF ev.snap.gross # None /\ ev.snap.gross >= 0 THEN ev.snap.gross
    ELSE IF ev.snap.window > 0 /\ "mono_alloc" \in ev.files
    THEN ev.probe \div ev.snap.window
    ELSE None

\* The gc block: net heap growth, gross churn, full collections.
GcMeta(ev) ==
    [net |-> IF ev.snap.window > 0 THEN ev.snap.heap \div ev.snap.window ELSE 0,
     gross |-> Gross(ev), full |-> ev.snap.full, window |-> ev.snap.window]

GcPressure(layers, gc) ==
    LET churn == IF gc.gross # None THEN gc.gross ELSE gc.net IN
    Raised(layers, "runtime_gc",
           Max({Tier(churn, {<<100, 80>>, <<40, 50>>}), Tier(gc.full, {<<3, 80>>, <<1, 50>>})}))

LateTickPressure(layers, snap) ==
    IF snap.updates = 0 THEN layers
    ELSE Raised(layers, "app_sim", Tier(20 * snap.late, {<<5 * snap.updates, 90>>, <<snap.updates, 60>>}))

\* memory_trend: the RSS slope over the monotonic span when both ends have one,
\* and the growth of the fd counts that were measured (-1 is not a count).
MemoryTrend(ev) ==
    LET p == Found(ev, "proc", Those(ev.proc, LAMBDA r : r.rss # None), <<>>)
        fds == Those(p, LAMBDA r : r.fd >= 0)
        span == IF p[1].mono # None /\ Last(p).mono # None
                THEN Last(p).mono - p[1].mono ELSE Last(p).t - p[1].t
    IN IF Len(p) < 3 THEN None
       ELSE [slope |-> IF span > 0 THEN (10 * (Last(p).rss - p[1].rss)) \div span ELSE 0,
             fds |-> IF fds = <<>> THEN None ELSE Last(fds).fd - fds[1].fd]

TrendPressure(layers, mem) ==
    IF mem = None THEN layers
    ELSE Raised(layers, "memory_cache",
                Points(mem.slope >= 50 \/ (mem.fds # None /\ mem.fds >= 100), 70))

\* Kernel UDP send rate of the window, in MB/s.
NetRate(ev) == IF "io_net" \in ev.files THEN ev.udp \div Window(ev) ELSE None

Readable(ev) == ev.snap \notin {None, Malformed}

\* A snapshot that does not parse costs its own blocks and nothing else.
SnapshotPressure(layers, ev) ==
    IF Readable(ev) THEN LateTickPressure(GcPressure(layers, GcMeta(ev)), ev.snap) ELSE layers

-----------------------------------------------------------------------------
(* attribute_subsystems: managed time by subsystem.                        *)

Nested == {"entity_tick", "spawn_director", "deco_world", "falling_blocks", "explosions", "io_saves"}
Subsystems == Nested \cup {"mesh", "network", "managers", "frame_core"}

\* Sections that outlive a frame, and those of the inner entity chain, are
\* reported apart; the sampled ones count once per sampling interval.
Total(bucket, snap) ==
    SumFunction([s \in {t \in snap.sections : t.bucket = bucket /\ t.avg < 5000} |->
                   s.total * (IF s.deep THEN Max({1, snap.rate}) ELSE 1)])

\* Mutant of Exclusive: frame_core keeps the nested buckets it includes.
Inclusive(bucket, snap) == Total(bucket, snap)

\* frame_core contains the nested buckets, so it counts what is left of it.
Exclusive(bucket, snap) ==
    IF bucket # "frame_core" THEN Total(bucket, snap)
    ELSE Max({0, Total(bucket, snap) - SumFunction([b \in Nested |-> Total(b, snap)])})

\* The share denominator.
MeasuredMs(snap) == SumFunction([b \in Subsystems |-> Exclusive(b, snap)])

\* The share of each subsystem that measured anything.
Attribution(snap) ==
    [b \in {c \in Subsystems : Exclusive(c, snap) > 0} |->
        (1000 * Exclusive(b, snap)) \div MeasuredMs(snap)]

\* build_summary reads the snapshot it has parsed, or else what an earlier
\* finalize left in csharp_bridge.json.
AttributionOf(ev, prior) ==
    IF Readable(ev) THEN Attribution(ev.snap) ELSE IF prior # None THEN prior.shares ELSE <<>>

\* section_rank: the per-call heat of each section name, p95 before the average.
Heat(s) == IF s.p95 > 0 THEN s.p95 ELSE s.avg
SectionHeats(ev) ==
    IF ~Readable(ev) THEN <<>>
    ELSE [n \in {s.name : s \in ev.snap.sections} |->
            Max({Heat(s) : s \in {t \in ev.snap.sections : t.name = n}})]

\* The p95 of each section name of the snapshot.
RawHeats(ev) ==
    IF ~Readable(ev) THEN <<>>
    ELSE [n \in {s.name : s \in ev.snap.sections} |->
            Max({s.p95 : s \in {t \in ev.snap.sections : t.name = n}})]

\* compare.load_sections: the ranked sections of csharp_bridge.json, or the snapshot
\* where it is hotter.
LoadSections(ev, ranked) ==
    LET raw == RawHeats(ev)
        hotter == {n \in DOMAIN raw : raw[n] > IF n \in DOMAIN ranked THEN ranked[n] ELSE 0}
    IN [n \in DOMAIN ranked \cup hotter |-> IF n \in hotter THEN raw[n] ELSE ranked[n]]

-----------------------------------------------------------------------------
(* diagnose_lag: the causes behind late ticks, most severe first.          *)

\* The items in the order of falling keys, those of equal keys in the order they had.
Ranked(items, keys) ==
    Listed(items, DOMAIN items, LAMBDA i, j : keys[i] > keys[j] \/ (keys[i] = keys[j] /\ i < j))

\* A scalar of the snapshot; one that is not there counts as 0.
Scalar(ev, field) == IF Readable(ev) THEN ev.snap[field] ELSE 0

Cause(name, holds, severity) ==
    IF holds THEN <<[cause |-> name, severity |-> severity]>> ELSE <<>>

\* A tick at least three times its budget and nine ticks in ten late.
Saturated(ev) ==
    /\ Scalar(ev, "interval") >= 150 /\ Scalar(ev, "updates") > 0
    /\ 10 * Scalar(ev, "late") >= 9 * Scalar(ev, "updates")

\* Mutant of GcSeverity: min(1.0, ...) is forgotten.
GcSeverityUncapped(gross, full, worst) == RoundDiv(15 * gross + 200 * full + 6 * worst, 12)

\* gross / 8 + full / 6 + worst / 200, at most 1.
GcSeverity(gross, full, worst) == Cap(RoundDiv(15 * gross + 200 * full + 6 * worst, 12))

GcCause(ev) ==
    LET gross == IF Readable(ev) THEN Known(Gross(ev)) ELSE 0
        full == Scalar(ev, "full")
        worst == Gc(ev).worstMs
    IN Cause("gc_pauses", gross >= 15 \/ full >= 1 \/ worst >= 50, GcSeverity(gross, full, worst))

MainCause(ts) ==
    Cause("main_thread_bound", ts # None /\ ts.share >= 500, Cap(RoundDiv(ts.share, 10)))

DiskCause(ev) ==
    Cause("disk_io_stall", Sched(ev).diskMs >= 50, Cap(RoundDiv(Sched(ev).diskMs, 50)))

\* rss / 20 + fds / 500: a file count that fell makes it smaller.
MemoryCause(mem) ==
    Cause("memory_growth", mem # None /\ (mem.slope >= 50 \/ Known(mem.fds) >= 100),
          Cap(RoundDiv(5 * mem.slope + 2 * Known(mem.fds), 10)))

StarvedCause(ev) ==
    Cause("cpu_starvation", Sched(ev).runqMs >= 50, Cap(RoundDiv(Sched(ev).runqMs, 20)))

LockCause(ev) ==
    LET share == RoundDiv(Futex(ev).waitMs, Window(ev)) IN
    Cause("lock_contention", Futex(ev).slow >= 5 \/ share >= 50,
          Cap(Max({Futex(ev).slow, RoundDiv(share, 10)})))

\* The windowed kernel rate before the average since the last reset.
BandwidthCause(ev) ==
    LET kernel == Known(NetRate(ev))
        bridge == Scalar(ev, "bridge")
        current == IF kernel > 0 THEN kernel ELSE bridge
    IN Cause("chunk_bandwidth", current >= 20 \/ bridge >= 20, Cap(current))

\* The largest subsystem that frame_core does not contain.
SubsystemCause(shares) ==
    LET disjoint == DOMAIN shares \ {"frame_core"}
        top == CHOOSE b \in disjoint : \A c \in disjoint : shares[b] >= shares[c]
    IN IF disjoint = {} THEN <<>> ELSE Cause(top, shares[top] >= 450, RoundDiv(shares[top], 10))

Diagnosis(ev, ts, mem, shares) ==
    LET causes == Cause("server_saturated", Saturated(ev), 100) \o GcCause(ev) \o MainCause(ts)
                    \o DiskCause(ev) \o MemoryCause(mem) \o StarvedCause(ev) \o LockCause(ev)
                    \o BandwidthCause(ev) \o SubsystemCause(shares)
    IN [causes |-> Ranked(causes, [i \in DOMAIN causes |-> causes[i].severity]),
        saturated |-> Saturated(ev),
        verdict |-> CASE Scalar(ev, "late") = 0 -> "met its deadline"
                      [] Scalar(ev, "late") > 0 /\ Saturated(ev) -> "saturated"
                      [] Scalar(ev, "late") > 0 /\ ~Saturated(ev) /\ causes # <<>> -> "laggy"
                      [] OTHER -> "unexplained"]

-----------------------------------------------------------------------------
(* build_summary.                                                          *)

ScorerOrder == <<"cpu", "memory_cache", "sync_locks", "scheduler", "io", "runtime_gc", "app_sim">>

ByPressure(order, layers) ==
    Ranked(order, [i \in DOMAIN order |-> LET score == layers[order[i]].score IN IF score = None THEN -1 ELSE score])

\* Mutant of Order: the order of the scorers is kept after the adjustments.
OrderBefore(scored, adjusted) == ByPressure(ScorerOrder, scored)

\* layer_scores sorts, and build_summary sorts again what it has raised since.
Order(scored, adjusted) == ByPressure(ByPressure(ScorerOrder, scored), adjusted)

\* prior is the csharp_bridge.json an earlier finalize left, or None.
SummaryOf(ev, prior) ==
    LET ts == ThreadSummary(ev)
        mem == MemoryTrend(ev)
        shares == AttributionOf(ev, prior)
        scored == Scored(ev)
        layers == TrendPressure(SnapshotPressure(MainThreadPressure(scored, ts), ev), mem)
        first == Order(scored, layers)[1]
    IN [layers |-> layers, only |-> ev.only, seconds |-> EffectiveSeconds(ev),
        recommends |-> IF layers[first].score = None THEN None ELSE first,
        diagnosis |-> Diagnosis(ev, ts, mem, shares),
        gross |-> IF Readable(ev) THEN Gross(ev) ELSE None, net |-> NetRate(ev),
        frame |-> IF Readable(ev) THEN [late |-> ev.snap.late, updates |-> ev.snap.updates] ELSE None,
        locks |-> Futex(ev).slow, blocks |-> Io(ev).slowBlock, gcs |-> Gc(ev)]

\* collected_layer_scores: the layers of a summary that carry evidence.
CollectedScores(summary) ==
    [l \in {m \in Layers : summary.layers[m].state = "collected"} |-> summary.layers[l].score]

-----------------------------------------------------------------------------
(* analyze: native frames, layer signals and managed sections together.    *)

Rule(id, layer, sections) == [id |-> id, layer |-> layer, sections |-> sections]

\* The gated rules of the catalog and three that need no layer.
Rules ==
    {Rule("gc_mono", "runtime_gc", {"GmUpdate", "World.TickEntities"}),
     Rule("futex_lock", "sync_locks", {"GmUpdate", "World.TickEntities", "ConnectionManager.Update"}),
     Rule("blocking_io", "io", {"GmUpdate", "GameManager.SaveWorld"}),
     Rule("tick_entities", None, {"World.TickEntities"}),
     Rule("network", None, {"ConnectionManager.Update"}), Rule("main_loop", None, {"GmUpdate"})}

\* _signal_evidence: SIGNAL_GATES against the stored layer signals.
SignalHit(rule, summary) ==
    CASE rule.id = "gc_mono" -> summary.gcs.slow >= 1 \/ summary.gcs.little >= 50
      [] rule.id = "futex_lock" -> summary.locks >= 1
      [] rule.id = "blocking_io" -> summary.blocks >= 1
      [] OTHER -> FALSE

\* load_folded_frames: the sampled weight by rule whose patterns a frame matches,
\* and of the rest; the share of each rule in thousandths.
FrameWeights(ev) == Found(ev, "perf", ev.frames, None)
NativeShare(ev) ==
    LET weights == FrameWeights(ev)
        total == SumFunction(weights)
    IN [id \in {r.id : r \in Rules} |->
          IF weights = None THEN 0
          ELSE IF total = 0 \/ id \notin DOMAIN weights THEN 0 ELSE (1000 * weights[id]) \div total]

\* match_rules: what fires, its confidence in hundredths.  native is the share of
\* the sampled weight in thousandths; a section counts from 1 ms per call, and those
\* of a rule stand for all whose method has the name it gives.
MatchRules(native, heats, collected, summary) ==
    LET sampled(r) == native[r.id] >= 5
        hot(r) == {n \in r.sections \cap DOMAIN heats : heats[n] >= 1}
        open(r) == r.layer = None \/ r.layer \in collected
        fires(r) == open(r) /\ (sampled(r) \/ SignalHit(r, summary) \/ hot(r) # {})
    IN {[id |-> r.id, layer |-> r.layer,
         confidence |-> Cap(Points(sampled(r), 45 + Min({20, native[r.id] \div 5}))
                              + Points(SignalHit(r, summary), 30) + Points(hot(r) # {}, 35))] :
            r \in {q \in Rules : fires(q)}}

-----------------------------------------------------------------------------
(* What the probes and the bridge can say.                                 *)

Artifacts == {c.name : c \in Catalog}

\* A record of the scrape: a spike in its text with the duration read from it, and
\* the average the bridge printed.
ReplyRecords == [t : Nat \cup {None}, spike : BOOLEAN, ms : Nat \cup {None}, avg : Nat]

SectionRecords == [name : STRING, bucket : STRING, total : Nat, deep : BOOLEAN, avg : Nat, p95 : Nat]

SnapshotRecords ==
    [window : Nat, heap : Int, gross : Int \cup {None}, full : Nat, updates : Nat, late : Nat, interval : Nat,
     bridge : Nat, rate : Nat, spikes : Seq([t : Nat \cup {None}, ms : Nat]), sections : SUBSET SectionRecords]

\* ids are those a frame was sampled of.
EvidenceRecords(ids) ==
    [only : SUBSET KnownTokens, files : SUBSET Artifacts, seconds : Nat, observed : Nat \cup {None},
     version : Nat, workload : Nat \cup {None, Malformed},
     hw : [ipc : Nat, missRate : Nat, llc : Nat], stacks : BOOLEAN,
     futex : [slow : Nat, waitMs : Nat, waits : Nat \cup {None}],
     sched : [slowBucket : BOOLEAN, preempted : BOOLEAN, diskMs : Nat, runqMs : Nat],
     io : [slowBlock : Nat, mainIo : Nat, slowRead : BOOLEAN, fsync : BOOLEAN],
     gc : [lines : Seq([kind : {"slow", "stw"}, ms : Nat]), little : Nat \cup {None}, collect : Nat \cup {None}],
     app : [ok : BOOLEAN, tick : BOOLEAN, replies : Seq(ReplyRecords)],
     threads : Seq([t : Nat, process : Nat \cup {None}, rows : Nat, main : Nat, waiters : Seq(Nat)]),
     snap : SnapshotRecords \cup {None, Malformed}, probe : Nat, udp : Nat,
     proc : Seq([t : Nat, mono : Nat \cup {None}, rss : Nat \cup {None}, fd : Int, cpu : Nat]),
     frames : [ids -> Nat]]

WellFormed(ev) ==
    /\ \E ids \in SUBSET ({r.id : r \in Rules} \cup {"other"}) : ev \in EvidenceRecords(ids)
    /\ Readable(ev) => IsFiniteSet(ev.snap.sections)

=============================================================================
