------------------------------ MODULE Telemetry ------------------------------
(***************************************************************************)
(* The in-game bridge's measurement window: the frame hooks on the game's  *)
(* main thread, the deep section hooks, the console's reset and reload, and *)
(* the thread-pool export.  Each `lock (Gate)' body is one step, and so is *)
(* each timestamp read before a lock and each interlocked operation.       *)
(***************************************************************************)
EXTENDS Integers, Sequences, FiniteSets

CONSTANTS
    Configs,     \* the settings apmbridge.json can come to hold, clamped
    Workers,     \* thread-pool threads
    SpikeGap,    \* SpikeSampleMinSeconds
    MaxClock,    \* bound on the clock
    MaxFrames,   \* bound on the frames of a run
    MaxCalls,    \* bound on the deep calls of a run
    MaxDepth,    \* bound on how deep they nest
    MaxResets,   \* bound on the resets of a run
    MaxDumps,    \* bound on the console dumps of a run
    NoSpike

\* Times and counts that BridgeConfig.Clamp lets through.
Clamped == [spikeThreshold : Nat, exportPeriod : Nat, maxSpikes : Nat \ {0},
            deepSampleRate : Nat \ {0}]

ASSUME ConfigsAssumption ==
    /\ Configs \subseteq Clamped
    /\ Workers # {} /\ SpikeGap \in Nat \ {0}
    /\ MaxClock \in Nat \ {0} /\ {MaxFrames, MaxCalls, MaxDepth, MaxResets, MaxDumps} \subseteq Nat
    /\ NoSpike \notin Nat

VARIABLES
    clock,            \* Stopwatch ticks; 0 stands for "not set" in the code's fields
    config,           \* BridgeMod.Config
    win,              \* the accumulators Reset clears
    ring,             \* the spike records
    nextSpikeSample,  \* main thread only, and not cleared by Reset
    exportQueued,     \* the single-flight flag
    main,             \* the main thread inside a frame
    deep,             \* the calls of deep sections; those that ended are history
    pool,             \* the export work item each worker runs, if any
    latest,           \* what apm_app_latest.json holds
    dump,             \* the console's `apm dump'; taken is history
    recorded          \* history: the spikes recorded since the ring was emptied

vars == <<clock, config, win, ring, nextSpikeSample, exportQueued, main, deep, pool,
          latest, dump, recorded>>

Times == 0 .. MaxClock

\* Reset leaves every field at 0; id, origin, begun and ticks are history: which
\* window it is, the time its data can stem from, the frames it opened, the tick
\* intervals it added up.
Window ==
    [updateStart : Times, previousUpdateStart : Times, updates : Nat, updateTotal : Nat,
     tickTotal : Nat, tickMax : Nat, updateSpikes : Nat, nextExport : Nat,
     droppedExports : Nat, id : 0 .. MaxResets, origin : Times, begun : Nat, ticks : Nat]

Fresh(n, from) ==
    [updateStart |-> 0, previousUpdateStart |-> 0, updates |-> 0, updateTotal |-> 0,
     tickTotal |-> 0, tickMax |-> 0, updateSpikes |-> 0, nextExport |-> 0,
     droppedExports |-> 0, id |-> n, origin |-> from, begun |-> 0, ticks |-> 0]

Emptied(size) == [slots |-> [i \in 0 .. size - 1 |-> NoSpike], write |-> 0, count |-> 0]
Size(r) == Cardinality(DOMAIN r.slots)

\* What a document carries, as far as the export is concerned: the totals of which
\* window.  -1 is the file that an earlier server process left.
Documents == -1 .. MaxResets

\* The calls that are open, by their depth, and which of them are timed; the sequence
\* all sections share; summed over all of them, the calls recorded since the reset,
\* those that ended, the timed ones among these that threw, and the calls that were
\* open at the reset; of the outermost section alone, those recorded and those ended.
Sections ==
    [depth : 0 .. MaxDepth, timed : SUBSET (1 .. MaxDepth), sequence : 0 .. MaxCalls,
     calls : 0 .. MaxCalls, entered : 0 .. MaxCalls, thrown : 0 .. MaxCalls,
     carried : 0 .. MaxDepth, outer : 0 .. MaxCalls, outerEntered : 0 .. MaxCalls]

TypeOK ==
    /\ clock \in Times \ {0}
    /\ config \in Configs
    /\ win \in Window
    /\ ring.write \in Nat /\ ring.count \in Nat
    /\ ring.count <= Size(ring) /\ ring.write < Size(ring)
    /\ nextSpikeSample \in Nat
    /\ exportQueued \in BOOLEAN
    /\ main \in [pc : {"idle", "begin", "game", "end", "spike", "export"}, now : Times,
                 export : BOOLEAN, frames : 0 .. MaxFrames]
    /\ deep \in Sections
    /\ pool \in [Workers -> [pc : {"idle", "queued", "swap", "release"}, doc : Documents]]
    /\ latest \in Documents
    /\ dump \in [pc : {"idle", "swap"}, doc : Documents, taken : 0 .. MaxDumps]

-----------------------------------------------------------------------------
\* InitMod installs the hooks and queues a first export.
Init ==
    /\ clock = 1
    /\ config \in Configs
    /\ win = Fresh(0, 1)
    /\ ring = Emptied(config.maxSpikes)
    /\ nextSpikeSample = 0
    /\ exportQueued = TRUE
    /\ main = [pc |-> "idle", now |-> 0, export |-> FALSE, frames |-> 0]
    /\ deep = [depth |-> 0, timed |-> {}, sequence |-> 0, calls |-> 0, entered |-> 0,
               thrown |-> 0, carried |-> 0, outer |-> 0, outerEntered |-> 0]
    /\ LET w == CHOOSE w \in Workers : TRUE IN
       pool = [v \in Workers |-> [pc |-> IF v = w THEN "queued" ELSE "idle", doc |-> -1]]
    /\ latest = -1
    /\ dump = [pc |-> "idle", doc |-> -1, taken |-> 0]
    /\ recorded = <<>>

Larger(m, n) == IF m > n THEN m ELSE n

-----------------------------------------------------------------------------
(* The frame hooks, on the main thread.                                    *)

Main(pc) == main' = [main EXCEPT !.pc = pc]
FrameOver == main' = [main EXCEPT !.pc = "idle", !.now = 0, !.export = FALSE]

\* FramePrefix: BeginFrame reads the clock before it takes Gate.
FramePrefix ==
    /\ main.pc = "idle" /\ main.frames < MaxFrames
    /\ main' = [main EXCEPT !.pc = "begin", !.now = clock, !.frames = @ + 1]
    /\ UNCHANGED <<clock, config, win, ring, nextSpikeSample, exportQueued, deep,
                   pool, latest, dump, recorded>>

\* The interval since the frame before, which the first frame of a window lacks.
Interval(w, now) == IF w.previousUpdateStart = 0 THEN 0 ELSE now - w.previousUpdateStart
Intervals(w) == IF w.previousUpdateStart = 0 THEN 0 ELSE 1

\* Mutant of Opened: the first interval is counted from whatever the field holds.
OpenedAlways(w, now) ==
    [w EXCEPT !.tickTotal = @ + (now - w.previousUpdateStart), !.ticks = @ + 1,
              !.tickMax = Larger(@, now - w.previousUpdateStart), !.begun = @ + 1,
              !.previousUpdateStart = now, !.updateStart = now]

Opened(w, now) ==
    [w EXCEPT !.tickTotal = @ + Interval(w, now), !.ticks = @ + Intervals(w),
              !.tickMax = Larger(@, Interval(w, now)), !.begun = @ + 1,
              !.previousUpdateStart = now, !.updateStart = now]

BeginFrame ==
    /\ main.pc = "begin"
    /\ win' = Opened(win, main.now)
    /\ Main("game")
    /\ UNCHANGED <<clock, config, ring, nextSpikeSample, exportQueued, deep, pool,
                   latest, dump, recorded>>

\* FramePostfix: EndFrame reads the clock before it takes Gate.
FramePostfix ==
    /\ main.pc = "game" /\ deep.depth = 0
    /\ main' = [main EXCEPT !.pc = "end", !.now = clock]
    /\ UNCHANGED <<clock, config, win, ring, nextSpikeSample, exportQueued, deep,
                   pool, latest, dump, recorded>>

\* gmUpdate threw, inside sections or not: Harmony does not run postfixes then.
FrameThrows ==
    /\ main.pc = "game"
    /\ FrameOver
    /\ deep' = [deep EXCEPT !.depth = 0, !.timed = {}, !.entered = @ + deep.depth,
                            !.thrown = @ + Cardinality(deep.timed),
                            !.outerEntered = @ + IF deep.depth > 0 THEN 1 ELSE 0]
    /\ UNCHANGED <<clock, config, win, ring, nextSpikeSample, exportQueued, pool,
                   latest, dump, recorded>>

\* Mutant of Closes: the check for a frame that Reset has forgotten is missing.
ClosesAny(w) == TRUE
\* updateStart == 0: there was a reset since BeginFrame, and the frame does not count.
Closes(w) == w.updateStart # 0

IsSpike(ms) == ms >= config.spikeThreshold
ExportDue(now) == config.exportPeriod > 0 /\ (win.nextExport = 0 \/ now >= win.nextExport)

Closed(w, now, due) ==
    LET ms == now - w.updateStart IN
    [w EXCEPT !.updateStart = 0, !.updates = @ + 1, !.updateTotal = @ + ms,
              !.updateSpikes = IF IsSpike(ms) THEN @ + 1 ELSE @,
              !.nextExport = IF due THEN now + config.exportPeriod ELSE @]

\* What follows outside Gate: at most one spike record per SpikeGap, and an export.
EndFrame ==
    /\ main.pc = "end"
    /\ \/ /\ ~Closes(win)
          /\ FrameOver
          /\ UNCHANGED <<win, nextSpikeSample>>
       \/ /\ Closes(win)
          /\ LET now == main.now
                 due == ExportDue(now)
                 sample == IsSpike(now - win.updateStart) /\ now >= nextSpikeSample
             IN
             /\ win' = Closed(win, now, due)
             /\ nextSpikeSample' = IF sample THEN now + SpikeGap ELSE nextSpikeSample
             /\ IF sample \/ due
                THEN main' = [main EXCEPT !.pc = IF sample THEN "spike" ELSE "export",
                                          !.export = due]
                ELSE FrameOver
    /\ UNCHANGED <<clock, config, ring, exportQueued, deep, pool, latest, dump,
                   recorded>>

Advanced(i, size) == (i + 1) % size

\* Mutant of Resized: the count survives the resize.
ResizedKeepCount(r, wanted) ==
    IF Size(r) = wanted THEN r ELSE [Emptied(wanted) EXCEPT !.count = r.count]

\* A reload has changed MaxSpikeRecords: the ring starts over.
Resized(r, wanted) == IF Size(r) = wanted THEN r ELSE Emptied(wanted)

AddSpike ==
    /\ main.pc = "spike"
    /\ LET r == Resized(ring, config.maxSpikes) IN
       /\ ring' = [slots |-> [r.slots EXCEPT ![r.write] = main.now],
                   write |-> Advanced(r.write, Size(r)),
                   count |-> IF r.count < Size(r) THEN r.count + 1 ELSE r.count]
       /\ recorded' = IF Size(ring) = config.maxSpikes THEN Append(recorded, main.now)
                      ELSE <<main.now>>
    /\ IF main.export THEN Main("export") ELSE FrameOver
    /\ UNCHANGED <<clock, config, win, nextSpikeSample, exportQueued, deep, pool,
                   latest, dump>>

-----------------------------------------------------------------------------
(* The export: QueueLatest on the main thread, RunExport on the pool.      *)

\* Which thread runs the item makes no difference, so one choice is enough.
IdleWorkers == {w \in Workers : pool[w].pc = "idle"}
Queue ==
    /\ exportQueued' = TRUE
    /\ IdleWorkers # {}
    /\ pool' = [pool EXCEPT ![CHOOSE w \in IdleWorkers : TRUE].pc = "queued"]
    /\ UNCHANGED win

\* Mutant of QueueFailed: the flag is not released.
QueueFailedHeld == exportQueued' = TRUE /\ UNCHANGED <<pool, win>>
\* QueueUserWorkItem threw: the flag is released again.
QueueFailed == exportQueued' = FALSE /\ UNCHANGED <<pool, win>>

Drop ==
    /\ win' = [win EXCEPT !.droppedExports = @ + 1]
    /\ UNCHANGED <<exportQueued, pool>>

\* Mutant of InFlight: the flag is not looked at.
NeverInFlight == FALSE
InFlight == exportQueued

QueueLatest ==
    /\ main.pc = "export"
    /\ \/ InFlight /\ Drop
       \/ ~InFlight /\ (Queue \/ QueueFailed)
    /\ FrameOver
    /\ UNCHANGED <<clock, config, ring, nextSpikeSample, deep, latest, dump,
                   recorded>>

Worker(w, pc) == pool' = [pool EXCEPT ![w].pc = pc]

\* Write: the snapshot is copied under Gate, into a file of its own.
TakeSnapshot(w) ==
    /\ pool[w].pc = "queued"
    /\ pool' = [pool EXCEPT ![w].pc = "swap", ![w].doc = win.id]
    /\ UNCHANGED <<clock, config, win, ring, nextSpikeSample, exportQueued, main,
                   deep, latest, dump, recorded>>

\* TempFiles.Publish under ExportSwapLock.
Swap(w) ==
    /\ pool[w].pc = "swap"
    /\ latest' = pool[w].doc
    /\ Worker(w, "release")
    /\ UNCHANGED <<clock, config, win, ring, nextSpikeSample, exportQueued, main,
                   deep, dump, recorded>>

\* The snapshot, the write or the swap threw.
ExportFails(w) ==
    /\ pool[w].pc \in {"queued", "swap"}
    /\ Worker(w, "release")
    /\ UNCHANGED <<clock, config, win, ring, nextSpikeSample, exportQueued, main,
                   deep, latest, dump, recorded>>

\* RunExport's finally.
Release(w) ==
    /\ pool[w].pc = "release"
    /\ exportQueued' = FALSE
    /\ pool' = [pool EXCEPT ![w] = [pc |-> "idle", doc |-> -1]]
    /\ UNCHANGED <<clock, config, win, ring, nextSpikeSample, main, deep, latest,
                   dump, recorded>>

-----------------------------------------------------------------------------
(* The deep sections, called by the frame and by one another.              *)

\* ShouldSample counts every call of every section and times one in deepSampleRate.
SectionPrefix ==
    /\ main.pc = "game" /\ deep.depth < MaxDepth /\ deep.sequence < MaxCalls
    /\ deep' = [deep EXCEPT !.sequence = @ + 1, !.depth = @ + 1,
                            !.timed = IF (deep.sequence + 1) % config.deepSampleRate = 0
                                      THEN @ \cup {deep.depth + 1} ELSE @]
    /\ UNCHANGED <<clock, config, win, ring, nextSpikeSample, exportQueued, main,
                   pool, latest, dump, recorded>>

Timed == IF deep.depth \in deep.timed THEN 1 ELSE 0
Outer == IF deep.depth = 1 THEN 1 ELSE 0
Left == [deep EXCEPT !.depth = @ - 1, !.timed = @ \ {deep.depth}, !.entered = @ + 1,
                     !.outerEntered = @ + Outer]

\* The innermost call returns; Record, for one that is timed.
SectionPostfix ==
    /\ deep.depth > 0
    /\ deep' = [Left EXCEPT !.calls = @ + Timed, !.outer = @ + Timed * Outer]
    /\ UNCHANGED <<clock, config, win, ring, nextSpikeSample, exportQueued, main,
                   pool, latest, dump, recorded>>

\* It throws, and the game catches that before the frame ends; or it took longer than the
\* 30 seconds beyond which Record drops it.
SectionThrows ==
    /\ deep.depth > 0
    /\ deep' = [Left EXCEPT !.thrown = @ + Timed]
    /\ UNCHANGED <<clock, config, win, ring, nextSpikeSample, exportQueued, main,
                   pool, latest, dump, recorded>>

-----------------------------------------------------------------------------
(* The console.                                                            *)

\* The time the new window's data can stem from: a frame that has read the clock
\* and waits for Gate brings its earlier timestamp into it.
Origin == IF main.pc = "begin" THEN main.now ELSE clock

\* Mutant of Cleared: the start of the frame before is kept.
ClearedButPrevious == [Fresh(win.id + 1, Origin) EXCEPT !.previousUpdateStart = win.previousUpdateStart]
Cleared == Fresh(win.id + 1, Origin)

\* Mutant of NoCalls: the section metrics are not reset.
CallsKept ==
    [deep EXCEPT !.entered = 0, !.thrown = 0, !.carried = deep.depth, !.outerEntered = 0]
NoCalls ==
    [deep EXCEPT !.calls = 0, !.entered = 0, !.thrown = 0, !.carried = deep.depth,
                 !.outer = 0, !.outerEntered = 0]

Reset ==
    /\ win.id < MaxResets
    /\ win' = Cleared
    /\ ring' = Emptied(Size(ring))
    /\ recorded' = <<>>
    /\ deep' = NoCalls
    /\ UNCHANGED <<clock, config, nextSpikeSample, exportQueued, main, pool, latest,
                   dump>>

Others == <<clock, config, win, ring, nextSpikeSample, exportQueued, main, deep, pool,
            recorded>>

\* Dump: a file of its own, then a snapshot for latest.json, beside any export.
TakeDump ==
    /\ dump.pc = "idle" /\ dump.taken < MaxDumps
    /\ dump' = [pc |-> "swap", doc |-> win.id, taken |-> dump.taken + 1]
    /\ UNCHANGED <<Others, latest>>

\* The swap of the second Write, under ExportSwapLock, or any of it failing.
SwapDump ==
    /\ dump.pc = "swap"
    /\ latest' \in {dump.doc, latest}
    /\ dump' = [dump EXCEPT !.pc = "idle", !.doc = -1]
    /\ UNCHANGED Others

\* A rejected file changes nothing; a good one replaces the settings in one write.
Reload ==
    /\ config' \in Configs
    /\ UNCHANGED <<clock, win, ring, nextSpikeSample, exportQueued, main, deep, pool,
                   latest, dump, recorded>>

Tick ==
    /\ clock < MaxClock
    /\ clock' = clock + 1
    /\ UNCHANGED <<config, win, ring, nextSpikeSample, exportQueued, main, deep, pool,
                   latest, dump, recorded>>

MainStep == \/ FramePrefix \/ BeginFrame \/ FramePostfix \/ FrameThrows \/ EndFrame
            \/ AddSpike \/ QueueLatest
PoolStep(w) == TakeSnapshot(w) \/ Swap(w) \/ ExportFails(w) \/ Release(w)

Next ==
    \/ MainStep
    \/ \E w \in Workers : PoolStep(w)
    \/ SectionPrefix \/ SectionPostfix \/ SectionThrows
    \/ Reset \/ Reload \/ TakeDump \/ SwapDump
    \/ Tick

Spec == Init /\ [][Next]_vars

-----------------------------------------------------------------------------
(* What the telemetry promises.                                            *)

\* Every interval the window adds up lies between two frames it opened, so that
\* an average over them is one of this window's frames: a reset forgets the frame
\* before it, and the frame it interrupts opens no interval.
IntervalsBetweenFrames == win.ticks = IF win.begun = 0 THEN 0 ELSE win.begun - 1

\* No frame is counted twice or in a window that did not open it, whatever
\* resets and throwing frames do between BeginFrame and EndFrame.
UpdatesOpened == win.updates + (IF win.updateStart = 0 THEN 0 ELSE 1) <= win.begun

\* Frames and the intervals between them are disjoint stretches of one thread's
\* time, so neither total exceeds the time since the window's data began.
TotalsFitWindow ==
    /\ win.updateTotal <= clock - win.origin
    /\ win.tickTotal <= clock - win.origin

\* What a window adds up is of frames it opened, counted once, and fits into the
\* time it spans, whatever Reset, Reload and throwing frames do to the order of the
\* clock reads and the locks in BeginFrame and EndFrame.
WindowConsistent == IntervalsBetweenFrames /\ UpdatesOpened /\ TotalsFitWindow

\* What Snapshot reads out of the ring, oldest first.
SpikesShown ==
    [i \in 1 .. ring.count |->
        ring.slots[(ring.write - ring.count + i - 1 + Size(ring)) % Size(ring)]]

\* A snapshot shows the newest spike records of the window in their order, through
\* wrap-around, resets and a reload that changes the size of the ring.
RingShowsNewest ==
    LET shown == ring.count
        all == Len(recorded)
    IN
    /\ shown = IF all < Size(ring) THEN all ELSE Size(ring)
    /\ \A i \in 1 .. shown : SpikesShown[i] = recorded[all - shown + i]

\* The flag is up exactly while one export is queued or running: no two exports
\* race each other for latest.json, and none is refused for one that is over.
SingleFlight ==
    LET busy == {w \in Workers : pool[w].pc # "idle"} IN
    Cardinality(busy) = IF exportQueued THEN 1 ELSE 0

\* Scaled by the rate, the sampled calls of all deep sections together estimate how
\* many there were since the reset to within one sampling period, and one more for
\* each call that was open at the reset or still is, a timed call that threw counted:
\* however sections, resets and exceptions cut up the sequence they share.
DeepCallsScale ==
    LET rate == config.deepSampleRate
        error == (deep.calls + deep.thrown) * rate - deep.entered
        bound == rate * (1 + deep.carried + deep.depth)
    IN  error < bound /\ error > -bound

\* The periodic exports never put the totals of an earlier window back over those
\* of a later one: a snapshot is taken inside its flight, and flights do not overlap.
\* A console dump is outside that flag, so this is said of the time before the first.
LatestAdvances == [][dump'.taken = 0 => latest' >= latest]_vars

(* What comments say and the code does not do; the README has the             *)
(* counterexamples.                                                           *)

\* "Sampled 1-in-DeepSampleRate: calls and totalMs are the raw sampled totals, and the
\* host scales them": what the scaled calls of one section would have to be.
SectionCallsScale ==
    LET rate == config.deepSampleRate
        error == deep.outer * rate - deep.outerEntered
    IN  deep.thrown = 0 /\ deep.carried = 0 => error < rate /\ error > -rate

\* serverTickIntervalAvgMs * (updates - 1) and the maximum of the same snapshot.
\* A mean is no larger than the maximum, in whatever state a snapshot is taken.
MeanWithinMax ==
    win.updates > 1 => win.tickTotal <= win.tickMax * (win.updates - 1)
=============================================================================
