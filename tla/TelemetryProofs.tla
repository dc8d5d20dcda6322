-------------------------- MODULE TelemetryProofs --------------------------
(***************************************************************************)
(* What holds of the bridge's measurement window for every configuration,  *)
(* any number of frames, resets and pool threads.  The window's sums need  *)
(* an invariant about timestamps: those the main thread has read and not   *)
(* yet used lie between the ones in the window and the clock.              *)
(***************************************************************************)
EXTENDS Telemetry, FiniteSetTheorems, SequenceTheorems, TLAPS

USE DEF Times, Documents

MainState ==
    [pc : {"idle", "begin", "game", "end", "spike", "export"}, now : Times,
     export : BOOLEAN, frames : 0 .. MaxFrames]

\* The types of what the sums are computed from.
Shape ==
    /\ clock \in Times \ {0}
    /\ config \in Configs
    /\ win \in Window
    /\ main \in MainState

\* The timestamp the main thread holds is no older than what it is compared with.
Timestamps ==
    /\ win.updateStart <= clock /\ win.previousUpdateStart <= clock /\ win.origin <= clock
    /\ main.pc \notin {"idle", "game"} => main.now # 0
    /\ main.now <= clock
    /\ main.pc = "begin" => win.previousUpdateStart <= main.now
    /\ main.pc = "end" => win.updateStart <= main.now

Timely == Shape /\ Timestamps

LEMMA Bounds ==
    MaxClock \in Nat \ {0} /\ MaxFrames \in Nat /\ MaxCalls \in Nat /\ MaxDepth \in Nat
    /\ MaxResets \in Nat /\ MaxDumps \in Nat /\ SpikeGap \in Nat \ {0}
BY ConfigsAssumption

LEMMA Settings ==
    \A c \in Configs : /\ c.spikeThreshold \in Nat /\ c.exportPeriod \in Nat
                       /\ c.maxSpikes \in Nat \ {0} /\ c.deepSampleRate \in Nat \ {0}
BY ConfigsAssumption DEF Clamped

LEMMA MainTyped ==
    ASSUME main \in MainState,
           NEW pc \in {"idle", "begin", "game", "end", "spike", "export"}, Main(pc)
    PROVE  main' \in MainState
BY DEF MainState, Main

LEMMA FrameOverTyped ==
    ASSUME main \in MainState, FrameOver
    PROVE  main' \in MainState
<1>1. 0 \in Times
    BY Bounds
<1> QED
    BY <1>1 DEF MainState, FrameOver

LEMMA TimelyInit == Init => Timely
<1> SUFFICES ASSUME Init PROVE Timely
    OBVIOUS
<1> USE Bounds DEF Init
<1>0. clock \in Times \ {0} /\ 0 \in Times
    OBVIOUS
<1>1. main \in MainState
    BY <1>0 DEF MainState
<1>2. win \in Window
    BY <1>0 DEF Window, Fresh
<1> QED
    BY <1>0, <1>1, <1>2 DEF Timely, Shape, Timestamps, Fresh

LEMMA TimelyStep == Timely /\ [Next]_vars => Timely'
<1> SUFFICES ASSUME Timely, [Next]_vars PROVE Timely'
    OBVIOUS
<1> USE DEF Timely, Shape
<1>0. Timestamps
    OBVIOUS
<1>a. /\ clock \in Int /\ main.now \in Times /\ main.frames \in 0 .. MaxFrames
      /\ clock \in Times
    BY Bounds DEF MainState
<1>1. CASE FramePrefix
    <2>1. main.frames + 1 \in 0 .. MaxFrames
        BY <1>1, <1>a, Bounds DEF FramePrefix
    <2>2. main' \in MainState
        BY <1>1, <1>a, <2>1 DEF FramePrefix, MainState
    <2>3. Timestamps'
        BY <1>1, <1>0, <1>a DEF FramePrefix, Timestamps, MainState
    <2> QED
        BY <1>1, <2>2, <2>3 DEF FramePrefix
<1>2. CASE BeginFrame
    <2>1. main' \in MainState
        BY <1>2, MainTyped DEF BeginFrame
    <2>2. /\ win.tickTotal + Interval(win, main.now) \in Nat
          /\ win.ticks + Intervals(win) \in Nat /\ win.begun + 1 \in Nat
          /\ Larger(win.tickMax, Interval(win, main.now)) \in Nat
        BY <1>2, <1>0, <1>a, Bounds DEF BeginFrame, Interval, Intervals, Larger, Window, Timestamps
    <2>3. win' \in Window
        BY <1>2, <1>a, <2>2 DEF BeginFrame, Opened, Window
    <2>4. Timestamps'
        BY <1>2, <1>0, <1>a DEF BeginFrame, Opened, Main, Timestamps, MainState, Window
    <2> QED
        BY <1>2, <2>1, <2>3, <2>4 DEF BeginFrame
<1>3. CASE FramePostfix
    <2>1. main' \in MainState
        BY <1>3, <1>a DEF FramePostfix, MainState
    <2>2. Timestamps'
        BY <1>3, <1>0, <1>a DEF FramePostfix, Timestamps, MainState
    <2> QED
        BY <1>3, <2>1, <2>2 DEF FramePostfix
<1>4. CASE FrameThrows
    <2>1. main' \in MainState
        BY <1>4, FrameOverTyped DEF FrameThrows
    <2>2. Timestamps'
        BY <1>4, <1>0, <1>a DEF FrameThrows, FrameOver, Timestamps, MainState
    <2> QED
        BY <1>4, <2>1, <2>2 DEF FrameThrows
<1>5. CASE EndFrame
    <2>1. CASE ~Closes(win)
        <3>1. main' \in MainState
            BY <1>5, <2>1, FrameOverTyped DEF EndFrame
        <3>2. main'.pc = "idle" /\ main'.now = 0 /\ UNCHANGED <<clock, config, win>>
            BY <1>5, <2>1 DEF EndFrame, FrameOver, MainState
        <3>3. Timestamps'
            BY <3>2, <1>0, <1>a DEF Timestamps
        <3> QED
            BY <3>1, <3>2, <3>3
    <2>2. CASE Closes(win)
        <3> DEFINE now == main.now
                   due == ExportDue(now)
        <3>1. win' = Closed(win, now, due) /\ UNCHANGED <<clock, config>>
            BY <1>5, <2>2 DEF EndFrame
        <3>2. /\ win.updates + 1 \in Nat /\ win.updateSpikes + 1 \in Nat
              /\ win.updateTotal + (now - win.updateStart) \in Nat
              /\ now + config.exportPeriod \in Nat /\ 0 \in Times
            BY <1>5, <1>0, <1>a, Bounds, Settings DEF EndFrame, Window, Timestamps
        <3>3. win' \in Window
            BY <3>1, <3>2 DEF Closed, Window
        <3>4. main' \in MainState
            <4>1. CASE FrameOver
                BY <4>1, FrameOverTyped
            <4>2. CASE ~FrameOver
                BY <1>5, <2>2, <4>2 DEF EndFrame, MainState, ExportDue
            <4> QED
                BY <4>1, <4>2
        <3>5. \/ main'.pc \in {"spike", "export"} /\ main'.now = now
              \/ main'.pc = "idle" /\ main'.now = 0
            BY <1>5, <2>2 DEF EndFrame, FrameOver, MainState
        <3>6. /\ win'.updateStart = 0 /\ win'.previousUpdateStart = win.previousUpdateStart
              /\ win'.origin = win.origin
            BY <3>1 DEF Closed, Window
        <3>7. Timestamps'
            BY <1>5, <3>1, <3>5, <3>6, <1>0, <1>a DEF EndFrame, Timestamps
        <3> QED
            BY <3>1, <3>3, <3>4, <3>7
    <2> QED
        BY <2>1, <2>2
<1>6. CASE AddSpike
    <2>1. main' \in MainState
        BY <1>6, MainTyped, FrameOverTyped DEF AddSpike
    <2>2. /\ \/ main'.pc = "export" /\ main'.now = main.now
             \/ main'.pc = "idle" /\ main'.now = 0
          /\ main.pc = "spike" /\ UNCHANGED <<clock, config, win>>
        BY <1>6 DEF AddSpike, Main, FrameOver, MainState
    <2>3. Timestamps'
        BY <2>2, <1>0, <1>a DEF Timestamps
    <2> QED
        BY <2>1, <2>2, <2>3
<1>7. CASE QueueLatest
    <2>1. main' \in MainState
        BY <1>7, FrameOverTyped DEF QueueLatest
    <2>2. win' = win \/ win' = [win EXCEPT !.droppedExports = @ + 1]
        BY <1>7 DEF QueueLatest, Drop, Queue, QueueFailed
    <2>3. win' \in Window
        BY <2>2 DEF Window
    <2>4. Timestamps'
        BY <1>7, <2>2, <1>0, <1>a DEF QueueLatest, FrameOver, Timestamps, MainState, Window
    <2> QED
        BY <1>7, <2>1, <2>3, <2>4 DEF QueueLatest
<1>8. CASE Reset
    <2>1. Origin \in Times /\ Origin <= clock /\ 0 \in Times
        BY <1>a, <1>0, Bounds DEF Origin, Timestamps
    <2>2. win.id + 1 \in 0 .. MaxResets
        BY <1>8, Bounds DEF Reset, Window
    <2>3. win' \in Window
        BY <1>8, <2>1, <2>2 DEF Reset, Cleared, Fresh, Window
    <2>4. /\ win'.updateStart = 0 /\ win'.previousUpdateStart = 0 /\ win'.origin = Origin
          /\ UNCHANGED <<clock, config, main>>
        BY <1>8 DEF Reset, Cleared, Fresh
    <2>5. Timestamps'
        BY <2>1, <2>4, <1>0, <1>a DEF Timestamps
    <2> QED
        BY <2>3, <2>4, <2>5
<1>9. CASE Tick
    <2>1. clock' \in Times \ {0} /\ clock' >= clock
        BY <1>9, Bounds DEF Tick
    <2>2. Timestamps'
        BY <1>9, <2>1, <1>0, <1>a, Bounds DEF Tick, Timestamps, Window
    <2> QED
        BY <1>9, <2>1, <2>2 DEF Tick
<1>10. CASE \E w \in Workers : PoolStep(w)
    <2>1. UNCHANGED <<clock, config, win, main>>
        BY <1>10 DEF PoolStep, TakeSnapshot, Swap, ExportFails, Release
    <2> QED
        BY <2>1, <1>0 DEF Timestamps
<1>11. CASE SectionPrefix \/ SectionPostfix \/ SectionThrows
    <2>1. UNCHANGED <<clock, config, win, main>>
        BY <1>11 DEF SectionPrefix, SectionPostfix, SectionThrows, Left
    <2> QED
        BY <2>1, <1>0 DEF Timestamps
<1>12. CASE Reload \/ TakeDump \/ SwapDump
    BY <1>12, <1>0 DEF Reload, TakeDump, SwapDump, Others, Timestamps
<1>13. CASE UNCHANGED vars
    BY <1>13, <1>0 DEF vars, Timestamps
<1> QED
    BY <1>1, <1>2, <1>3, <1>4, <1>5, <1>6, <1>7, <1>8, <1>9, <1>10, <1>11, <1>12, <1>13
       DEF Next, MainStep

-----------------------------------------------------------------------------
(* What the window counts.                                                 *)

\* A frame has been opened exactly when there is a start to measure from.
Counting ==
    /\ win.begun = 0 <=> win.previousUpdateStart = 0
    /\ IntervalsBetweenFrames
    /\ UpdatesOpened

LEMMA CountingStep == Timely /\ Counting /\ [Next]_vars => Counting'
<1> SUFFICES ASSUME Timely, Counting, [Next]_vars PROVE Counting'
    OBVIOUS
<1> USE DEF Counting, IntervalsBetweenFrames, UpdatesOpened
<1>0. /\ win \in Window /\ win.updates \in Nat /\ win.begun \in Nat /\ win.ticks \in Nat
      /\ main \in MainState
    BY DEF Timely, Shape, Window
<1>1. CASE BeginFrame
    <2>1. main.now # 0
        BY <1>1 DEF BeginFrame, Timely, Timestamps
    <2>2. /\ win'.previousUpdateStart = main.now /\ win'.updateStart = main.now
          /\ win'.begun = win.begun + 1 /\ win'.updates = win.updates
          /\ win'.ticks = win.ticks + (IF win.previousUpdateStart = 0 THEN 0 ELSE 1)
        BY <1>0, <1>1 DEF BeginFrame, Opened, Intervals, Window
    <2> QED
        BY <1>0, <2>1, <2>2
<1>2. CASE EndFrame
    <2>1. CASE ~Closes(win)
        BY <1>2, <2>1 DEF EndFrame
    <2>2. CASE Closes(win)
        <3>1. /\ win'.updateStart = 0 /\ win'.updates = win.updates + 1
              /\ win'.previousUpdateStart = win.previousUpdateStart
              /\ win'.begun = win.begun /\ win'.ticks = win.ticks
            BY <1>0, <1>2, <2>2 DEF EndFrame, Closed, Window
        <3> QED
            BY <1>0, <2>2, <3>1 DEF Closes
    <2> QED
        BY <2>1, <2>2
<1>3. CASE QueueLatest
    <2>1. win' = win \/ win' = [win EXCEPT !.droppedExports = @ + 1]
        BY <1>3 DEF QueueLatest, Drop, Queue, QueueFailed
    <2> QED
        BY <1>0, <2>1 DEF Window
<1>4. CASE Reset
    BY <1>4 DEF Reset, Cleared, Fresh
<1>5. CASE win' = win
    BY <1>5
<1> QED
    BY <1>1, <1>2, <1>3, <1>4, <1>5
       DEF Next, MainStep, PoolStep, FramePrefix, FramePostfix, FrameThrows, AddSpike,
           TakeSnapshot, Swap, ExportFails, Release, SectionPrefix, SectionPostfix, SectionThrows,
           Reload, TakeDump, SwapDump, Others, Tick, vars

\* The sums end where the window's last timestamp does.
Sums ==
    /\ win.updateTotal <= clock - win.origin
    /\ win.updateStart # 0 => win.updateTotal <= win.updateStart - win.origin
    /\ main.pc = "begin" => /\ win.updateTotal <= main.now - win.origin
                           /\ win.updateStart <= main.now
    /\ IF win.previousUpdateStart = 0 THEN win.tickTotal = 0
       ELSE win.tickTotal <= win.previousUpdateStart - win.origin

LEMMA SumsStep == Timely /\ Sums /\ [Next]_vars => Sums'
<1> SUFFICES ASSUME Timely, Sums, [Next]_vars PROVE Sums'
    OBVIOUS
<1> USE DEF Sums
<1>0. /\ win \in Window /\ main \in MainState /\ Timestamps
      /\ clock \in Int /\ main.now \in Nat /\ win.updateStart \in Int
      /\ win.previousUpdateStart \in Int /\ win.origin \in Int
      /\ win.updateTotal \in Int /\ win.tickTotal \in Int
    BY Bounds DEF Timely, Shape, Window, MainState
<1>1. CASE FramePrefix
    <2>1. main'.now = clock /\ UNCHANGED <<clock, win>>
        BY <1>0, <1>1 DEF FramePrefix, MainState
    <2> QED
        BY <1>0, <2>1 DEF Timestamps
<1>2. CASE BeginFrame
    <2>1. main.now # 0 /\ main.pc = "begin" /\ win.previousUpdateStart <= main.now
        BY <1>0, <1>2 DEF BeginFrame, Timestamps
    <2>2. /\ win'.previousUpdateStart = main.now /\ win'.updateStart = main.now
          /\ win'.updateTotal = win.updateTotal /\ win'.origin = win.origin
          /\ win'.tickTotal = win.tickTotal + Interval(win, main.now)
        BY <1>0, <1>2 DEF BeginFrame, Opened, Window
    <2>3. main'.pc = "game" /\ clock' = clock
        BY <1>0, <1>2 DEF BeginFrame, Main, MainState
    <2>4. win.origin <= main.now
        BY <1>0, <2>1, <1>2 DEF Timely, Shape, Window
    <2> QED
        BY <1>0, <2>1, <2>2, <2>3, <2>4 DEF Interval
<1>3. CASE EndFrame
    <2>1. main'.pc # "begin" /\ clock' = clock
        BY <1>0, <1>3 DEF EndFrame, FrameOver, MainState
    <2>2. CASE ~Closes(win)
        BY <1>3, <2>1, <2>2 DEF EndFrame
    <2>3. CASE Closes(win)
        <3>1. /\ win'.updateStart = 0 /\ win'.origin = win.origin
              /\ win'.updateTotal = win.updateTotal + (main.now - win.updateStart)
              /\ win'.previousUpdateStart = win.previousUpdateStart
              /\ win'.tickTotal = win.tickTotal
            BY <1>0, <1>3, <2>3 DEF EndFrame, Closed, Window
        <3> QED
            BY <1>0, <2>1, <2>3, <3>1 DEF Closes, Timestamps
    <2> QED
        BY <2>2, <2>3
<1>4. CASE QueueLatest
    <2>1. win' = win \/ win' = [win EXCEPT !.droppedExports = @ + 1]
        BY <1>4 DEF QueueLatest, Drop, Queue, QueueFailed
    <2>2. main'.pc # "begin" /\ clock' = clock
        BY <1>0, <1>4 DEF QueueLatest, FrameOver, MainState
    <2> QED
        BY <1>0, <2>1, <2>2 DEF Window
<1>5. CASE Reset
    <2>1. /\ win'.updateTotal = 0 /\ win'.tickTotal = 0 /\ win'.updateStart = 0
          /\ win'.previousUpdateStart = 0 /\ win'.origin = Origin
          /\ UNCHANGED <<clock, main>>
        BY <1>5 DEF Reset, Cleared, Fresh
    <2> QED
        BY <1>0, <2>1 DEF Origin, Timestamps
<1>6. CASE Tick
    BY <1>0, <1>6 DEF Tick
<1>7. CASE UNCHANGED <<clock, win>> /\ main'.pc # "begin"
    BY <1>7
<1>8. CASE UNCHANGED <<clock, win, main>>
    BY <1>8
<1>9. FramePostfix \/ FrameThrows \/ AddSpike => UNCHANGED <<clock, win>> /\ main'.pc # "begin"
    BY <1>0 DEF FramePostfix, FrameThrows, AddSpike, FrameOver, Main, MainState
<1> QED
    BY <1>1, <1>2, <1>3, <1>4, <1>5, <1>6, <1>7, <1>8, <1>9
       DEF Next, MainStep, PoolStep, TakeSnapshot, Swap, ExportFails, Release,
           SectionPrefix, SectionPostfix, SectionThrows, Reload, TakeDump, SwapDump, Others, vars

WindowInv == Timely /\ Counting /\ Sums

LEMMA WindowAlways == Spec => []WindowInv
<1>1. Init => WindowInv
    <2> SUFFICES ASSUME Init PROVE WindowInv
        OBVIOUS
    <2>1. Timely
        BY TimelyInit
    <2>2. win = Fresh(0, 1) /\ clock = 1 /\ main.pc = "idle"
        BY DEF Init
    <2>3. Counting /\ Sums
        BY <2>2 DEF Fresh, Counting, Sums, IntervalsBetweenFrames, UpdatesOpened
    <2> QED
        BY <2>1, <2>3 DEF WindowInv
<1>2. WindowInv /\ [Next]_vars => WindowInv'
    BY TimelyStep, CountingStep, SumsStep DEF WindowInv
<1> QED
    BY <1>1, <1>2, PTL DEF Spec

\* Every interval in the tick average lies between two frames of the window.
THEOREM IntervalsMatch == Spec => []IntervalsBetweenFrames
<1>1. WindowInv => IntervalsBetweenFrames
    BY DEF WindowInv, Counting
<1> QED
    BY <1>1, WindowAlways, PTL

\* The window counts only frames it opened, each at most once.
THEOREM UpdatesMatch == Spec => []UpdatesOpened
<1>1. WindowInv => UpdatesOpened
    BY DEF WindowInv, Counting
<1> QED
    BY <1>1, WindowAlways, PTL

\* The durations and the intervals of a window fit into the time it spans.
THEOREM SumsFit == Spec => []TotalsFitWindow
<1>1. WindowInv => TotalsFitWindow
    <2> SUFFICES ASSUME WindowInv PROVE TotalsFitWindow
        OBVIOUS
    <2>1. /\ clock \in Int /\ win.origin \in Int /\ win.previousUpdateStart \in Int
          /\ win.tickTotal \in Int
        BY Bounds DEF WindowInv, Timely, Shape, Window
    <2> QED
        BY <2>1 DEF WindowInv, Timely, Timestamps, Sums, TotalsFitWindow
<1> QED
    BY <1>1, WindowAlways, PTL

\* Whatever resets, reloads and throwing frames do, what a window adds up is of
\* frames it opened, counted once, and fits into the time it spans.
THEOREM WindowsConsistent == Spec => []WindowConsistent
BY IntervalsMatch, UpdatesMatch, SumsFit, PTL DEF WindowConsistent

-----------------------------------------------------------------------------
(* The export.                                                             *)

\* The flag stands for one work item; what that item carries is no older than
\* what is published, as long as no dump has been, and nothing that is carried or
\* published is newer than the window that is open.
Flight ==
    /\ exportQueued \in BOOLEAN
    /\ pool \in [Workers -> [pc : {"idle", "queued", "swap", "release"}, doc : Documents]]
    /\ exportQueued => \E w \in Workers : \A v \in Workers : pool[v].pc # "idle" <=> v = w
    /\ ~exportQueued => \A w \in Workers : pool[w].pc = "idle"
    /\ latest \in Documents /\ latest <= win.id
    /\ dump \in [pc : {"idle", "swap"}, doc : Documents, taken : 0 .. MaxDumps]
    /\ dump.pc = "swap" => dump.taken # 0 /\ dump.doc <= win.id
    /\ \A w \in Workers :
         pool[w].pc = "swap" => /\ pool[w].doc <= win.id
                                /\ dump.taken = 0 => latest <= pool[w].doc

\* What a step may do to the published document.
Advances == dump'.taken = 0 => latest' >= latest

LEMMA FlightInit == Init => Flight
<1> SUFFICES ASSUME Init PROVE Flight
    OBVIOUS
<1>1. PICK w \in Workers :
        pool = [v \in Workers |-> [pc |-> IF v = w THEN "queued" ELSE "idle", doc |-> -1]]
    BY ConfigsAssumption DEF Init
<1>2. -1 \in Documents /\ latest = -1 /\ exportQueued = TRUE /\ win.id = 0
    BY Bounds DEF Init, Fresh
<1>3. dump = [pc |-> "idle", doc |-> -1, taken |-> 0] /\ 0 \in 0 .. MaxDumps
    BY Bounds DEF Init
<1> QED
    BY <1>1, <1>2, <1>3 DEF Flight

LEMMA FlightStep == Timely /\ Flight /\ [Next]_vars => Flight' /\ Advances
<1> SUFFICES ASSUME Timely, Flight, [Next]_vars PROVE Flight' /\ Advances
    OBVIOUS
<1> USE DEF Flight, Advances
<1>0. /\ win \in Window /\ win.id \in 0 .. MaxResets /\ MaxResets \in Nat
      /\ latest \in Int
    BY Bounds DEF Timely, Shape, Window
<1>3. CASE win'.id >= win.id /\ win'.id \in Int /\ UNCHANGED <<exportQueued, pool, latest, dump>>
    BY <1>0, <1>3
<1>1. CASE QueueLatest
    <2>0. latest' = latest /\ win'.id = win.id /\ dump' = dump
        BY <1>0, <1>1 DEF QueueLatest, Queue, QueueFailed, Drop, Window
    <2>1. CASE exportQueued' = exportQueued /\ pool' = pool
        BY <1>0, <1>3, <2>0, <2>1
    <2>2. CASE ~InFlight /\ Queue
        <3>1. PICK w \in Workers : pool' = [pool EXCEPT ![w].pc = "queued"]
            BY <2>2 DEF Queue, IdleWorkers
        <3>2. exportQueued' = TRUE /\ ~exportQueued
            BY <2>2 DEF Queue, InFlight
        <3>3. /\ pool' \in [Workers -> [pc : {"idle", "queued", "swap", "release"},
                                       doc : Documents]]
              /\ \A v \in Workers : pool'[v].pc = IF v = w THEN "queued" ELSE "idle"
            BY <3>1, <3>2
        <3>4. \A v \in Workers : pool'[v].pc # "idle" <=> v = w
            BY <3>3
        <3> QED
            BY <1>0, <2>0, <3>2, <3>3, <3>4
    <2>3. CASE ~InFlight /\ QueueFailed
        <3>1. exportQueued' = exportQueued /\ pool' = pool
            BY <2>3 DEF QueueFailed, InFlight
        <3> QED
            BY <2>1, <3>1
    <2> QED
        BY <1>1, <2>1, <2>2, <2>3 DEF QueueLatest, Drop
<1>2. ASSUME NEW w \in Workers, PoolStep(w) PROVE Flight' /\ Advances
    <2>0. win' = win /\ dump' = dump
        BY <1>2 DEF PoolStep, TakeSnapshot, Swap, ExportFails, Release
    <2>1. CASE TakeSnapshot(w)
        <3>1. win.id \in Documents /\ exportQueued' = exportQueued /\ latest' = latest
            BY <1>0, <2>1 DEF TakeSnapshot
        <3>2. /\ pool' \in [Workers -> [pc : {"idle", "queued", "swap", "release"},
                                       doc : Documents]]
              /\ pool'[w].pc = "swap" /\ pool'[w].doc = win.id
              /\ \A v \in Workers \ {w} : pool'[v] = pool[v]
            BY <2>1, <3>1 DEF TakeSnapshot
        <3>3. \A v \in Workers : pool'[v].pc # "idle" <=> pool[v].pc # "idle"
            BY <2>1, <3>2 DEF TakeSnapshot
        <3> QED
            BY <1>0, <2>0, <3>1, <3>2, <3>3
    <2>2. CASE Swap(w)
        <3>1. exportQueued /\ \A v \in Workers : pool[v].pc # "idle" <=> v = w
            BY <2>2 DEF Swap
        <3>2. /\ latest' \in Documents /\ latest' <= win.id
              /\ dump.taken = 0 => latest' >= latest
            <4>1. /\ pool[w].pc = "swap" /\ latest' = pool[w].doc
                  /\ pool[w] \in [pc : {"idle", "queued", "swap", "release"}, doc : Documents]
                BY <2>2 DEF Swap
            <4>2. pool[w].doc <= win.id /\ (dump.taken = 0 => latest <= pool[w].doc)
                BY <4>1
            <4>3. pool[w].doc \in Documents
                BY <4>1
            <4> QED
                BY <1>0, <4>1, <4>2, <4>3
        <3>3. /\ pool' \in [Workers -> [pc : {"idle", "queued", "swap", "release"},
                                       doc : Documents]]
              /\ \A v \in Workers : pool'[v].pc = IF v = w THEN "release" ELSE pool[v].pc
            BY <2>2 DEF Swap, Worker
        <3>4. /\ \A v \in Workers : pool'[v].pc # "idle" <=> v = w
              /\ \A v \in Workers : pool'[v].pc # "swap"
            BY <2>2, <3>1, <3>3 DEF Swap
        <3>5. exportQueued' = exportQueued
            BY <2>2 DEF Swap
        <3> QED
            BY <1>0, <2>0, <3>1, <3>2, <3>3, <3>4, <3>5
    <2>3. CASE ExportFails(w)
        BY <1>0, <2>0, <2>3 DEF ExportFails, Worker
    <2>4. CASE Release(w)
        <3>1. exportQueued /\ \A v \in Workers : pool[v].pc # "idle" <=> v = w
            BY <2>4 DEF Release
        <3>2. -1 \in Documents
            BY <1>0
        <3>3. exportQueued' = FALSE /\ latest' = latest
            BY <2>4 DEF Release
        <3>4. /\ pool' \in [Workers -> [pc : {"idle", "queued", "swap", "release"},
                                       doc : Documents]]
              /\ \A v \in Workers : pool'[v].pc = "idle"
            BY <2>4, <3>1, <3>2 DEF Release
        <3>5. exportQueued' \in BOOLEAN /\ ~exportQueued'
            BY <3>3
        <3>6. \A v \in Workers : pool'[v].pc # "swap"
            BY <3>4
        <3> QED
            BY <1>0, <2>0, <3>3, <3>4, <3>5, <3>6
    <2> QED
        BY <1>2, <2>1, <2>2, <2>3, <2>4 DEF PoolStep
<1>4. CASE BeginFrame
    <2>1. win'.id = win.id
        BY <1>0, <1>4 DEF BeginFrame, Opened, Window
    <2> QED
        BY <1>0, <1>3, <1>4, <2>1 DEF BeginFrame
<1>5. CASE EndFrame
    <2>1. win'.id = win.id
        BY <1>0, <1>5 DEF EndFrame, Closed, Window
    <2> QED
        BY <1>0, <1>3, <1>5, <2>1 DEF EndFrame
<1>6. CASE Reset
    <2>1. win'.id = win.id + 1
        BY <1>6 DEF Reset, Cleared, Fresh
    <2> QED
        BY <1>0, <1>3, <1>6, <2>1 DEF Reset
<1>8. CASE TakeDump
    <2>1. win.id \in Documents /\ dump.taken + 1 \in 0 .. MaxDumps
        BY <1>0, <1>8, Bounds DEF TakeDump
    <2> QED
        BY <1>0, <1>8, <2>1 DEF TakeDump, Others
<1>9. CASE SwapDump
    <2>1. -1 \in Documents
        BY <1>0
    <2>2. latest' \in Documents /\ latest' <= win'.id /\ dump'.taken = dump.taken /\ dump.taken # 0
        BY <1>0, <1>9 DEF SwapDump, Others
    <2>3. dump' \in [pc : {"idle", "swap"}, doc : Documents, taken : 0 .. MaxDumps]
        BY <1>9, <2>1 DEF SwapDump
    <2> QED
        BY <1>0, <1>9, <2>2, <2>3 DEF SwapDump, Others
<1>7. CASE UNCHANGED <<win, exportQueued, pool, latest, dump>>
    BY <1>0, <1>7
<1> QED
    BY <1>1, <1>2, <1>4, <1>5, <1>6, <1>7, <1>8, <1>9
       DEF Next, MainStep, FramePrefix, FramePostfix, FrameThrows, AddSpike,
           SectionPrefix, SectionPostfix, SectionThrows, Reload, Tick, vars

LEMMA FlightAlways == Spec => [](Timely /\ Flight)
<1>1. Init => Timely /\ Flight
    BY TimelyInit, FlightInit
<1>2. Timely /\ Flight /\ [Next]_vars => (Timely /\ Flight)'
    BY TimelyStep, FlightStep
<1> QED
    BY <1>1, <1>2, PTL DEF Spec

\* One export at a time, and none refused for one that is over.
THEOREM OneFlight == Spec => []SingleFlight
<1>1. Flight => SingleFlight
    <2> SUFFICES ASSUME Flight PROVE SingleFlight
        OBVIOUS
    <2> DEFINE busy == {w \in Workers : pool[w].pc # "idle"}
    <2>1. CASE exportQueued
        <3>1. PICK w \in Workers : \A v \in Workers : pool[v].pc # "idle" <=> v = w
            BY <2>1 DEF Flight
        <3>2. busy = {w}
            BY <3>1
        <3>3. Cardinality(busy) = 1
            BY <3>2, FS_Singleton
        <3> QED
            BY <2>1, <3>3 DEF SingleFlight
    <2>2. CASE ~exportQueued
        <3>1. busy = {}
            BY <2>2 DEF Flight
        <3>2. Cardinality(busy) = 0
            BY <3>1, FS_EmptySet
        <3> QED
            BY <2>2, <3>2 DEF SingleFlight
    <2> QED
        BY <2>1, <2>2
<1> QED
    BY <1>1, FlightAlways, PTL

\* The periodic exports never take latest.json back to an earlier window's totals.
THEOREM LatestMonotone == Spec => LatestAdvances
<1>1. Timely /\ Flight /\ [Next]_vars => [dump'.taken = 0 => latest' >= latest]_vars
    BY FlightStep DEF Advances
<1> QED
    BY <1>1, FlightAlways, PTL DEF Spec, LatestAdvances

-----------------------------------------------------------------------------
(* Types: what is left of them beside the window and the export.           *)

Rings(n) == [slots : [0 .. n - 1 -> Nat \cup {NoSpike}], write : 0 .. n - 1, count : 0 .. n]

RingTyped == \E n \in Nat \ {0} : ring \in Rings(n)

DeepTyped == deep \in Sections

\* Each call is counted at most once, when it is over, and only open calls are timed.
DeepBounded ==
    /\ deep.timed \subseteq 1 .. deep.depth
    /\ deep.calls + deep.thrown <= deep.entered /\ deep.entered + deep.depth <= deep.sequence
    /\ deep.outer <= deep.calls /\ deep.outerEntered <= deep.entered

\* What the open calls contribute: those that are timed, and how an end changes that.
LEMMA OpenTimed ==
    ASSUME NEW d \in Nat, NEW T, T \subseteq 1 .. d
    PROVE  IsFiniteSet(T) /\ Cardinality(T) \in 0 .. d
<1>1. IsFiniteSet(1 .. d) /\ Cardinality(1 .. d) = d
    BY FS_Interval
<1>2. IsFiniteSet(T) /\ Cardinality(T) <= Cardinality(1 .. d)
    BY <1>1, FS_Subset
<1> QED
    BY <1>1, <1>2, FS_CardinalityType

LEMMA TimedEnter ==
    ASSUME NEW d \in Nat, NEW T, T \subseteq 1 .. d
    PROVE  T \cup {d + 1} \subseteq 1 .. d + 1 /\ Cardinality(T \cup {d + 1}) = Cardinality(T) + 1
<1>1. IsFiniteSet(T)
    BY OpenTimed
<1>2. d + 1 \notin T
    OBVIOUS
<1> QED
    BY <1>1, <1>2, FS_AddElement

LEMMA TimedLeave ==
    ASSUME NEW d \in Nat \ {0}, NEW T, T \subseteq 1 .. d
    PROVE  /\ T \ {d} \subseteq 1 .. d - 1
           /\ Cardinality(T) = Cardinality(T \ {d}) + IF d \in T THEN 1 ELSE 0
<1>1. IsFiniteSet(T) /\ Cardinality(T) \in Nat
    <2>1. d \in Nat
        OBVIOUS
    <2>2. IsFiniteSet(T) /\ Cardinality(T) \in 0 .. d
        BY <2>1, OpenTimed
    <2> QED
        BY <2>1, <2>2
<1>2. T \ {d} \subseteq 1 .. d - 1
    OBVIOUS
<1>3. Cardinality(T \ {d}) = IF d \in T THEN Cardinality(T) - 1 ELSE Cardinality(T)
    BY <1>1, FS_RemoveElement
<1> DEFINE m == Cardinality(T)
           n == Cardinality(T \ {d})
<1>4. m = n + IF d \in T THEN 1 ELSE 0
    <2>1. m \in Nat /\ n = IF d \in T THEN m - 1 ELSE m
        BY <1>1, <1>3
    <2> HIDE DEF m, n
    <2> QED
        BY <2>1
<1> QED
    BY <1>2, <1>4

LEMMA RingSize ==
    ASSUME NEW n \in Nat \ {0}, NEW r \in Rings(n)
    PROVE  Size(r) = n
<1>1. DOMAIN r.slots = 0 .. n - 1
    BY DEF Rings
<1>2. Cardinality(0 .. n - 1) = n
    BY FS_Interval
<1> QED
    BY <1>1, <1>2 DEF Size

LEMMA EmptiedRing ==
    ASSUME NEW n \in Nat \ {0}
    PROVE  Emptied(n) \in Rings(n)
BY DEF Emptied, Rings

LEMMA RingStep == Timely /\ RingTyped /\ [Next]_vars => RingTyped'
<1> SUFFICES ASSUME Timely, RingTyped, [Next]_vars PROVE RingTyped'
    OBVIOUS
<1>r. PICK n \in Nat \ {0} : ring \in Rings(n)
    BY DEF RingTyped
<1>1. CASE AddSpike
    <2> DEFINE k == config.maxSpikes
               r == Resized(ring, k)
               now == main.now
    <2>1. k \in Nat \ {0} /\ now \in Nat
        BY Settings, Bounds DEF Timely, Shape, MainState
    <2>2. r \in Rings(k) /\ Size(r) = k
        <3>1. CASE Size(ring) = k
            BY <1>r, <3>1, RingSize DEF Resized
        <3>2. CASE Size(ring) # k
            BY <2>1, <3>2, EmptiedRing, RingSize DEF Resized
        <3> QED
            BY <3>1, <3>2
    <2>3. ring' = [slots |-> [r.slots EXCEPT ![r.write] = now], write |-> Advanced(r.write, Size(r)),
                   count |-> IF r.count < Size(r) THEN r.count + 1 ELSE r.count]
        BY <1>1 DEF AddSpike
    <2> HIDE DEF r, k, now
    <2>4. /\ r.slots \in [0 .. k - 1 -> Nat \cup {NoSpike}] /\ r.write \in 0 .. k - 1 /\ r.count \in 0 .. k
        BY <2>2 DEF Rings
    <2>5. [r.slots EXCEPT ![r.write] = now] \in [0 .. k - 1 -> Nat \cup {NoSpike}]
        BY <2>1, <2>4
    <2>6. Advanced(r.write, k) \in 0 .. k - 1
        BY <2>1, <2>4 DEF Advanced
    <2>7. (IF r.count < k THEN r.count + 1 ELSE r.count) \in 0 .. k
        BY <2>1, <2>4
    <2>8. ring' \in Rings(k)
        BY <2>2, <2>3, <2>5, <2>6, <2>7 DEF Rings
    <2> QED
        BY <2>1, <2>8 DEF RingTyped
<1>2. CASE Reset
    <2>1. ring' = Emptied(n)
        BY <1>2, <1>r, RingSize DEF Reset
    <2> QED
        BY <2>1, EmptiedRing DEF RingTyped
<1>3. CASE ring' = ring
    BY <1>3 DEF RingTyped
<1> QED
    BY <1>1, <1>2, <1>3
       DEF Next, MainStep, FramePrefix, BeginFrame, FramePostfix, FrameThrows, EndFrame, QueueLatest,
           PoolStep, TakeSnapshot, Swap, ExportFails, Release, SectionPrefix, SectionPostfix, SectionThrows,
           Reload, TakeDump, SwapDump, Others, Tick, vars

LEMMA DeepStep == DeepTyped /\ DeepBounded /\ [Next]_vars => DeepTyped' /\ DeepBounded'
<1> SUFFICES ASSUME DeepTyped, DeepBounded, [Next]_vars PROVE DeepTyped' /\ DeepBounded'
    OBVIOUS
<1> DEFINE d == deep.depth
           T == deep.timed
           q == deep.sequence
           c == deep.calls
           e == deep.entered
           t == deep.thrown
           k == deep.carried
           o == deep.outer
           oe == deep.outerEntered
<1>m. MaxCalls \in Nat /\ MaxDepth \in Nat
    BY Bounds
<1>d. /\ d \in 0 .. MaxDepth /\ T \subseteq 1 .. d /\ q \in 0 .. MaxCalls /\ c \in Nat /\ e \in Nat
      /\ t \in Nat /\ k \in 0 .. MaxDepth /\ o \in Nat /\ oe \in Nat
      /\ c + t <= e /\ e + d <= q /\ o <= c /\ oe <= e
    BY <1>m DEF DeepTyped, DeepBounded, Sections
<1>e. deep = [depth |-> d, timed |-> T, sequence |-> q, calls |-> c, entered |-> e, thrown |-> t,
              carried |-> k, outer |-> o, outerEntered |-> oe]
    BY DEF DeepTyped, Sections
<1>n. d \in Nat /\ IsFiniteSet(T) /\ Cardinality(T) \in 0 .. d
    <2>1. d \in Nat
        BY <1>d, <1>m
    <2> HIDE DEF d, T
    <2> QED
        BY <1>d, <2>1, OpenTimed
<1> HIDE DEF d, T, q, c, e, t, k, o, oe
\* Whatever a step writes, it is enough that it fits.
<1>w. ASSUME NEW d1 \in 0 .. MaxDepth, NEW T1, T1 \subseteq 1 .. d1, NEW q1 \in 0 .. MaxCalls,
             NEW c1 \in Nat, NEW e1 \in Nat, NEW t1 \in Nat, NEW k1 \in 0 .. MaxDepth,
             NEW o1 \in Nat, NEW oe1 \in Nat, c1 + t1 <= e1, e1 + d1 <= q1, o1 <= c1, oe1 <= e1,
             deep' = [depth |-> d1, timed |-> T1, sequence |-> q1, calls |-> c1, entered |-> e1,
                      thrown |-> t1, carried |-> k1, outer |-> o1, outerEntered |-> oe1]
      PROVE  DeepTyped' /\ DeepBounded'
    <2>1. /\ T1 \in SUBSET (1 .. MaxDepth) /\ c1 \in 0 .. MaxCalls /\ e1 \in 0 .. MaxCalls
          /\ t1 \in 0 .. MaxCalls /\ o1 \in 0 .. MaxCalls /\ oe1 \in 0 .. MaxCalls
        BY <1>w, <1>m
    <2>2. deep' \in Sections
        BY <1>w, <2>1 DEF Sections
    <2>3. DeepBounded'
        BY <1>w DEF DeepBounded
    <2> QED
        BY <2>2, <2>3 DEF DeepTyped
<1>1. CASE FrameThrows
    <2> DEFINE e1 == e + d
               t1 == t + Cardinality(T)
               oe1 == oe + IF d > 0 THEN 1 ELSE 0
    <2>1. deep' = [depth |-> 0, timed |-> {}, sequence |-> q, calls |-> c, entered |-> e1, thrown |-> t1,
                  carried |-> k, outer |-> o, outerEntered |-> oe1]
        <3>1. deep' = [deep EXCEPT !.depth = 0, !.timed = {}, !.entered = e1, !.thrown = t1,
                                   !.outerEntered = oe1]
            BY <1>1 DEF FrameThrows, d, T, e, t, oe
        <3> HIDE DEF e1, t1, oe1
        <3> QED
            BY <1>e, <3>1
    <2>2. /\ e1 \in Nat /\ t1 \in Nat /\ oe1 \in Nat /\ c + t1 <= e1 /\ e1 + 0 <= q /\ oe1 <= e1
          /\ 0 \in 0 .. MaxDepth /\ {} \subseteq 1 .. 0
        BY <1>d, <1>m, <1>n
    <2> HIDE DEF e1, t1, oe1
    <2> QED
        BY <1>d, <1>w, <2>1, <2>2
<1>2. CASE SectionPrefix
    <2> DEFINE T1 == IF (q + 1) % config.deepSampleRate = 0 THEN T \cup {d + 1} ELSE T
    <2>1. deep' = [depth |-> d + 1, timed |-> T1, sequence |-> q + 1, calls |-> c, entered |-> e, thrown |-> t,
                  carried |-> k, outer |-> o, outerEntered |-> oe]
        <3>1. deep' = [deep EXCEPT !.sequence = q + 1, !.depth = d + 1, !.timed = T1]
            BY <1>2 DEF SectionPrefix, d, T, q
        <3> HIDE DEF T1
        <3> QED
            BY <1>e, <3>1
    <2>2. d < MaxDepth /\ q < MaxCalls
        BY <1>2 DEF SectionPrefix, d, q
    <2>3. /\ d + 1 \in 0 .. MaxDepth /\ q + 1 \in 0 .. MaxCalls /\ e + (d + 1) <= q + 1
          /\ T1 \subseteq 1 .. d + 1
        BY <1>d, <1>m, <1>n, <2>2
    <2> HIDE DEF T1
    <2> QED
        BY <1>d, <1>w, <2>1, <2>3
<1>l. CASE SectionPostfix \/ SectionThrows
    <2> DEFINE u == Timed
               v == Outer
               T1 == T \ {d}
    <2>1. d > 0 /\ u \in 0 .. 1 /\ v \in 0 .. 1 /\ u * v \in 0 .. u
        BY <1>l DEF SectionPostfix, SectionThrows, Timed, Outer, d
    <2>2. Left = [depth |-> d - 1, timed |-> T1, sequence |-> q, calls |-> c, entered |-> e + 1, thrown |-> t,
                  carried |-> k, outer |-> o, outerEntered |-> oe + v]
        <3>1. Left = [deep EXCEPT !.depth = d - 1, !.timed = T1, !.entered = e + 1, !.outerEntered = oe + v]
            BY DEF Left, d, T, e, oe
        <3> HIDE DEF T1, v
        <3> QED
            BY <1>e, <3>1
    <2>3. T1 \subseteq 1 .. d - 1 /\ d - 1 \in 0 .. MaxDepth
        BY <1>d, <1>m, <1>n, <2>1
    \* Each timed call has its place among those that ended.
    <2>4. c + t + u <= e + 1
        BY <1>d, <2>1
    <2> HIDE DEF T1, u, v
    <2>5. CASE SectionPostfix
        <3>1. deep' = [depth |-> d - 1, timed |-> T1, sequence |-> q, calls |-> c + u, entered |-> e + 1,
                      thrown |-> t, carried |-> k, outer |-> o + u * v, outerEntered |-> oe + v]
            <4>1. deep' = [Left EXCEPT !.calls = Left.calls + u, !.outer = Left.outer + u * v]
                BY <2>5 DEF SectionPostfix, u, v
            <4> QED
                BY <2>2, <4>1
        <3>2. /\ c + u \in Nat /\ e + 1 \in Nat /\ o + u * v \in Nat /\ oe + v \in Nat
              /\ (c + u) + t <= e + 1 /\ (e + 1) + (d - 1) <= q /\ o + u * v <= c + u /\ oe + v <= e + 1
            BY <1>d, <1>n, <2>1, <2>4
        <3> QED
            BY <1>d, <1>w, <2>3, <3>1, <3>2
    <2>6. CASE SectionThrows
        <3>1. deep' = [depth |-> d - 1, timed |-> T1, sequence |-> q, calls |-> c, entered |-> e + 1,
                      thrown |-> t + u, carried |-> k, outer |-> o, outerEntered |-> oe + v]
            <4>1. deep' = [Left EXCEPT !.thrown = Left.thrown + u]
                BY <2>6 DEF SectionThrows, u
            <4> QED
                BY <2>2, <4>1
        <3>2. /\ t + u \in Nat /\ e + 1 \in Nat /\ oe + v \in Nat
              /\ c + (t + u) <= e + 1 /\ (e + 1) + (d - 1) <= q /\ oe + v <= e + 1
            BY <1>d, <1>n, <2>1, <2>4
        <3> QED
            BY <1>d, <1>w, <2>3, <3>1, <3>2
    <2> QED
        BY <1>l, <2>5, <2>6
<1>4. CASE Reset
    <2>1. deep' = [depth |-> d, timed |-> T, sequence |-> q, calls |-> 0, entered |-> 0, thrown |-> 0,
                  carried |-> d, outer |-> 0, outerEntered |-> 0]
        <3>1. deep' = [deep EXCEPT !.calls = 0, !.entered = 0, !.thrown = 0, !.carried = d, !.outer = 0,
                                   !.outerEntered = 0]
            BY <1>4 DEF Reset, NoCalls, d
        <3> QED
            BY <1>e, <3>1
    <2>2. 0 \in Nat /\ 0 + 0 <= 0 /\ 0 <= 0 /\ 0 + d <= q
        BY <1>d, <1>m, <1>n
    <2> QED
        BY <1>d, <1>w, <2>1, <2>2
<1>5. CASE deep' = deep
    BY <1>5 DEF DeepTyped, DeepBounded
<1> QED
    BY <1>1, <1>2, <1>l, <1>4, <1>5
       DEF Next, MainStep, FramePrefix, BeginFrame, FramePostfix, EndFrame, AddSpike, QueueLatest,
           PoolStep, TakeSnapshot, Swap, ExportFails, Release,
           Reload, TakeDump, SwapDump, Others, Tick, vars

LEMMA SampleStep == Timely /\ nextSpikeSample \in Nat /\ [Next]_vars => nextSpikeSample' \in Nat
<1> SUFFICES ASSUME Timely, nextSpikeSample \in Nat, [Next]_vars PROVE nextSpikeSample' \in Nat
    OBVIOUS
<1>1. main.now + SpikeGap \in Nat
    BY Bounds DEF Timely, Shape, MainState
<1>2. CASE EndFrame
    BY <1>1, <1>2 DEF EndFrame
<1> QED
    BY <1>2 DEF Next, MainStep, FramePrefix, BeginFrame, FramePostfix, FrameThrows, AddSpike, QueueLatest,
                PoolStep, TakeSnapshot, Swap, ExportFails, Release, SectionPrefix, SectionPostfix, SectionThrows, Reset,
                Reload, TakeDump, SwapDump, Others, Tick, vars

\* Types, for any settings, any number of threads, frames, calls, resets and dumps.
THEOREM TypeCorrect == Spec => []TypeOK
<1> DEFINE Rest == RingTyped /\ DeepTyped /\ DeepBounded /\ nextSpikeSample \in Nat
<1>1. Init => Rest
    <2> SUFFICES ASSUME Init PROVE Rest
        OBVIOUS
    <2>1. config.maxSpikes \in Nat \ {0}
        BY Settings DEF Init
    <2>2. RingTyped
        BY <2>1, EmptiedRing DEF Init, RingTyped
    <2>3. DeepTyped /\ DeepBounded
        BY Bounds DEF Init, DeepTyped, DeepBounded, Sections
    <2> QED
        BY <2>2, <2>3 DEF Init
<1>2. Timely /\ Rest /\ [Next]_vars => Rest'
    BY RingStep, DeepStep, SampleStep
<1>3. Timely /\ Flight /\ Rest => TypeOK
    <2> SUFFICES ASSUME Timely, Flight, Rest PROVE TypeOK
        OBVIOUS
    <2>1. PICK n \in Nat \ {0} : ring \in Rings(n)
        BY DEF RingTyped
    <2>2. ring.write \in Nat /\ ring.count \in Nat /\ ring.count <= n /\ ring.write < n
        BY <2>1 DEF Rings
    <2>3. ring.count <= Size(ring) /\ ring.write < Size(ring)
        BY <2>1, <2>2, RingSize
    <2> QED
        BY <2>2, <2>3 DEF TypeOK, Timely, Shape, MainState, Flight, DeepTyped
<1> HIDE DEF Rest
<1>4. Spec => []Rest
    BY <1>1, <1>2, FlightAlways, PTL DEF Spec
<1> QED
    BY <1>3, <1>4, FlightAlways, PTL

-----------------------------------------------------------------------------
(* The spike ring against the sequence of records it stands for.           *)

\* The slot of the j-th newest record, without a modulus.
Back(w, j, n) == IF j <= w THEN w - j ELSE w - j + n

\* The ring holds the newest records of all, newest first behind the write index.
Holds(r, n, all) ==
    /\ all \in Seq(Nat)
    /\ r.count = IF Len(all) < n THEN Len(all) ELSE n
    /\ \A j \in 1 .. r.count : r.slots[Back(r.write, j, n)] = all[Len(all) - j + 1]

RingInv == \E n \in Nat \ {0} : ring \in Rings(n) /\ Holds(ring, n, recorded)

LEMMA ModBelow == ASSUME NEW n \in Nat \ {0}, NEW x \in 0 .. n - 1 PROVE x % n = x
OBVIOUS

LEMMA ModOnce == ASSUME NEW n \in Nat \ {0}, NEW x \in n .. 2 * n - 1 PROVE x % n = x - n
OBVIOUS

LEMMA EmptiedHolds == ASSUME NEW n \in Nat \ {0} PROVE Holds(Emptied(n), n, <<>>)
<1>1. <<>> \in Seq(Nat) /\ Len(<<>>) = 0
    BY EmptySeq
<1>2. Emptied(n).count = 0
    BY DEF Emptied
<1> QED
    BY <1>1, <1>2 DEF Holds

\* A new record takes the slot of the oldest when the ring is full.
LEMMA Pushed ==
    ASSUME NEW n \in Nat \ {0}, NEW r \in Rings(n), NEW all, Holds(r, n, all), NEW v \in Nat,
           NEW q, q = [slots |-> [r.slots EXCEPT ![r.write] = v], write |-> Advanced(r.write, n),
                       count |-> IF r.count < n THEN r.count + 1 ELSE r.count]
    PROVE  Holds(q, n, Append(all, v))
<1> DEFINE w == r.write
           c == r.count
           s == r.slots
           all2 == Append(all, v)
<1>1. s \in [0 .. n - 1 -> Nat \cup {NoSpike}] /\ w \in 0 .. n - 1 /\ c \in 0 .. n
    BY DEF Rings
<1>2. /\ all \in Seq(Nat) /\ Len(all) \in Nat /\ c = IF Len(all) < n THEN Len(all) ELSE n
      /\ \A j \in 1 .. c : s[Back(w, j, n)] = all[Len(all) - j + 1]
    BY LenProperties DEF Holds
<1>3. /\ all2 \in Seq(Nat) /\ Len(all2) = Len(all) + 1 /\ all2[Len(all) + 1] = v
      /\ \A i \in 1 .. Len(all) : all2[i] = all[i]
    BY <1>2, AppendProperties
<1>4. Advanced(w, n) = IF w + 1 = n THEN 0 ELSE w + 1
    <2>1. CASE w + 1 = n
        <3>1. n \in n .. 2 * n - 1
            OBVIOUS
        <3>2. n % n = n - n
            BY <3>1, ModOnce
        <3>3. n - n = 0
            OBVIOUS
        <3> QED
            BY <2>1, <3>2, <3>3 DEF Advanced
    <2>2. CASE w + 1 # n
        <3>1. w + 1 \in 0 .. n - 1
            BY <1>1, <2>2
        <3>2. (w + 1) % n = w + 1
            BY <3>1, ModBelow
        <3> QED
            BY <2>2, <3>2 DEF Advanced
    <2> QED
        BY <2>1, <2>2
<1>5. /\ q.slots = [s EXCEPT ![w] = v] /\ q.write = Advanced(w, n)
      /\ q.count = IF c < n THEN c + 1 ELSE c
    OBVIOUS
<1> HIDE DEF w, c, s, all2
<1>6. q.count = IF Len(all2) < n THEN Len(all2) ELSE n
    BY <1>1, <1>2, <1>3, <1>5
<1>7. ASSUME NEW j \in 1 .. q.count PROVE q.slots[Back(q.write, j, n)] = all2[Len(all2) - j + 1]
    <2>0. q.count \in 0 .. n /\ j \in 1 .. n
        BY <1>1, <1>5
    <2>1. CASE j = 1
        <3>1. Back(q.write, j, n) = w
            <4>1. CASE w + 1 = n
                <5>1. q.write = 0
                    BY <1>4, <1>5, <4>1
                <5>2. Back(0, 1, n) = 0 - 1 + n
                    BY DEF Back
                <5>3. 0 - 1 + n = w
                    BY <1>1, <4>1
                <5> QED
                    BY <2>1, <5>1, <5>2, <5>3
            <4>2. CASE w + 1 # n
                <5>1. q.write = w + 1
                    BY <1>4, <1>5, <4>2
                <5>2. 1 <= w + 1 /\ w + 1 - 1 = w
                    BY <1>1
                <5> QED
                    BY <1>1, <2>1, <5>1, <5>2 DEF Back
            <4> QED
                BY <4>1, <4>2
        <3>2. q.slots[w] = v
            BY <1>1, <1>5
        <3>3. Len(all2) - j + 1 = Len(all) + 1
            BY <1>2, <1>3, <2>1
        <3> QED
            BY <1>3, <3>1, <3>2, <3>3
    <2>2. CASE j # 1
        <3> DEFINE k == j - 1
        <3>1. k \in 1 .. c /\ k \in 1 .. n - 1 /\ k <= Len(all)
            BY <1>1, <1>2, <1>5, <2>0, <2>2
        <3>2. Back(q.write, j, n) = Back(w, k, n)
            <4>0. j \in Int /\ w \in Int
                BY <1>1, <2>0
            <4>1. CASE w + 1 = n
                <5>1. q.write = 0
                    BY <1>4, <1>5, <4>1
                <5>2. Back(0, j, n) = 0 - j + n /\ Back(w, k, n) = w - k
                    BY <1>1, <2>0, <4>1 DEF Back
                <5>3. 0 - j + n = w - k
                    BY <4>0, <4>1
                <5> QED
                    BY <5>1, <5>2, <5>3
            <4>2. CASE w + 1 # n
                <5>1. q.write = w + 1
                    BY <1>4, <1>5, <4>2
                <5>2. Back(w + 1, j, n) = Back(w, k, n)
                    BY <4>0 DEF Back
                <5> QED
                    BY <5>1, <5>2
            <4> QED
                BY <4>1, <4>2
        <3>3. Back(w, k, n) \in 0 .. n - 1 /\ Back(w, k, n) # w
            BY <1>1, <3>1 DEF Back
        <3>4. q.slots[Back(w, k, n)] = s[Back(w, k, n)]
            BY <1>1, <1>5, <3>3
        <3>5. s[Back(w, k, n)] = all[Len(all) - k + 1]
            BY <1>2, <3>1
        <3>6. Len(all) - k + 1 \in 1 .. Len(all) /\ Len(all2) - j + 1 = Len(all) - k + 1
            BY <1>2, <1>3, <3>1
        <3>7. all2[Len(all) - k + 1] = all[Len(all) - k + 1]
            BY <1>3, <3>6
        <3> QED
            BY <3>2, <3>4, <3>5, <3>6, <3>7
    <2> QED
        BY <2>1, <2>2
<1> QED
    BY <1>3, <1>6, <1>7 DEF Holds, all2

LEMMA RingInvStep == Timely /\ RingInv /\ [Next]_vars => RingInv'
<1> SUFFICES ASSUME Timely, RingInv, [Next]_vars PROVE RingInv'
    OBVIOUS
<1>r. PICK n \in Nat \ {0} : ring \in Rings(n) /\ Holds(ring, n, recorded)
    BY DEF RingInv
<1>n. Size(ring) = n
    BY <1>r, RingSize
<1>1. CASE AddSpike
    <2> DEFINE k == config.maxSpikes
               r == Resized(ring, k)
               now == main.now
               before == IF Size(ring) = k THEN recorded ELSE <<>>
    <2>1. k \in Nat \ {0} /\ now \in Nat
        BY Settings, Bounds DEF Timely, Shape, MainState
    <2>2. r \in Rings(k) /\ Size(r) = k /\ Holds(r, k, before)
        <3>1. CASE n = k
            BY <1>r, <1>n, <3>1 DEF Resized
        <3>2. CASE n # k
            BY <1>n, <2>1, <3>2, EmptiedRing, EmptiedHolds, RingSize DEF Resized
        <3> QED
            BY <3>1, <3>2
    <2>3. ring' = [slots |-> [r.slots EXCEPT ![r.write] = now], write |-> Advanced(r.write, k),
                   count |-> IF r.count < k THEN r.count + 1 ELSE r.count]
        BY <1>1, <2>2 DEF AddSpike
    <2>4. recorded' = Append(before, now)
        <3>1. Append(<<>>, now) = <<now>>
            OBVIOUS
        <3> QED
            BY <1>1, <3>1 DEF AddSpike
    <2>5. ring' \in Rings(k)
        <3> HIDE DEF r, k, now, before
        <3>4. /\ r.slots \in [0 .. k - 1 -> Nat \cup {NoSpike}] /\ r.write \in 0 .. k - 1 /\ r.count \in 0 .. k
            BY <2>2 DEF Rings
        <3>5. [r.slots EXCEPT ![r.write] = now] \in [0 .. k - 1 -> Nat \cup {NoSpike}]
            BY <2>1, <3>4
        <3>6. Advanced(r.write, k) \in 0 .. k - 1
            BY <2>1, <3>4 DEF Advanced
        <3>7. (IF r.count < k THEN r.count + 1 ELSE r.count) \in 0 .. k
            BY <2>1, <3>4
        <3> QED
            BY <2>3, <3>5, <3>6, <3>7 DEF Rings
    <2> HIDE DEF r, k, now, before
    <2>6. Holds(ring', k, recorded')
        BY <2>1, <2>2, <2>3, <2>4, Pushed
    <2> QED
        BY <2>1, <2>5, <2>6 DEF RingInv
<1>2. CASE Reset
    <2>1. ring' = Emptied(n) /\ recorded' = <<>>
        BY <1>2, <1>n DEF Reset
    <2>2. ring' \in Rings(n) /\ Holds(ring', n, recorded')
        BY <2>1, EmptiedRing, EmptiedHolds
    <2> QED
        BY <2>2 DEF RingInv
<1>3. CASE ring' = ring /\ recorded' = recorded
    BY <1>3 DEF RingInv
<1> QED
    BY <1>1, <1>2, <1>3
       DEF Next, MainStep, FramePrefix, BeginFrame, FramePostfix, FrameThrows, EndFrame, QueueLatest,
           PoolStep, TakeSnapshot, Swap, ExportFails, Release, SectionPrefix, SectionPostfix, SectionThrows,
           Reload, TakeDump, SwapDump, Others, Tick, vars

\* For rings of any size, any number of spikes, resets and reloads that change the
\* size: a snapshot shows the newest records, oldest first.
THEOREM RingShows == Spec => []RingShowsNewest
<1>1. Init => RingInv
    <2> SUFFICES ASSUME Init PROVE RingInv
        OBVIOUS
    <2> DEFINE n == config.maxSpikes
    <2>1. n \in Nat \ {0} /\ ring = Emptied(n) /\ recorded = <<>>
        BY Settings DEF Init
    <2> HIDE DEF n
    <2> QED
        BY <2>1, EmptiedRing, EmptiedHolds DEF RingInv
<1>2. RingInv => RingShowsNewest
    <2> SUFFICES ASSUME RingInv PROVE RingShowsNewest
        OBVIOUS
    <2>1. PICK n \in Nat \ {0} : ring \in Rings(n) /\ Holds(ring, n, recorded)
        BY DEF RingInv
    <2>2. Size(ring) = n
        BY <2>1, RingSize
    <2> DEFINE w == ring.write
               c == ring.count
               all == Len(recorded)
    <2>3. w \in 0 .. n - 1 /\ c \in 0 .. n /\ all \in Nat /\ c = IF all < n THEN all ELSE n
        BY <2>1, LenProperties DEF Rings, Holds
    <2>4. ASSUME NEW i \in 1 .. c PROVE SpikesShown[i] = recorded[all - c + i]
        <3> DEFINE j == c - i + 1
                   x == w - c + i - 1 + n
        <3>1. j \in 1 .. c /\ x = w - j + n /\ x \in 0 .. 2 * n - 1 /\ all - j + 1 = all - c + i
            BY <2>3
        <3>2. x % n = Back(w, j, n)
            <4>1. CASE j <= w
                <5>1. x \in n .. 2 * n - 1 /\ x - n = w - j
                    BY <2>3, <3>1, <4>1
                <5> HIDE DEF x, j, w
                <5> QED
                    BY <4>1, <5>1, ModOnce DEF Back
            <4>2. CASE ~(j <= w)
                <5>1. x \in 0 .. n - 1
                    BY <2>3, <3>1, <4>2
                <5> HIDE DEF x, j, w
                <5> QED
                    BY <3>1, <4>2, <5>1, ModBelow DEF Back
            <4> QED
                BY <4>1, <4>2
        <3>3. SpikesShown[i] = ring.slots[x % n]
            BY <2>2 DEF SpikesShown
        <3>4. ring.slots[Back(w, j, n)] = recorded[all - j + 1]
            BY <2>1, <3>1 DEF Holds
        <3> QED
            BY <3>1, <3>2, <3>3, <3>4
    <2> QED
        BY <2>2, <2>3, <2>4 DEF RingShowsNewest
<1> QED
    BY <1>1, <1>2, RingInvStep, FlightAlways, PTL DEF Spec

-----------------------------------------------------------------------------
(* The scale of the deep sections: of their calls, those whose sequence     *)
(* number is a multiple of the rate are timed, wherever the window begins.  *)

\* With n of the d open calls timed and k calls carried over the reset: each full
\* period since then has timed one call, whether recorded, thrown or still open.
Sampled(n, d, s, c, e, t, k, rate) ==
    LET whole == (c + t + n) * rate - e - d + (s % rate)
    IN  -k <= whole /\ whole <= (rate - 1) * (k + 1)

\* A remainder counts up and starts over.
LEMMA ModNext ==
    ASSUME NEW n \in Nat \ {0}, NEW x \in Nat
    PROVE  (x + 1) % n = IF x % n = n - 1 THEN 0 ELSE (x % n) + 1
<1> DEFINE q == x \div n
           r == x % n
           u == (x + 1) \div n
           v == (x + 1) % n
<1>1. x = n * q + r /\ q \in Int /\ r \in 0 .. n - 1
    OBVIOUS
<1>2. x + 1 = n * u + v /\ u \in Int /\ v \in 0 .. n - 1
    OBVIOUS
<1> HIDE DEF q, r, u, v
<1>3. n * (u - q) = r + 1 - v
    <2>1. n * u - n * q = r + 1 - v
        BY <1>1, <1>2
    <2> QED
        BY <1>1, <1>2, <2>1
<1>4. u - q \in {0, 1}
    <2> DEFINE d == u - q
    <2>1. d \in Int /\ n * d \in 2 - n .. n
        BY <1>1, <1>2, <1>3
    <2> HIDE DEF d
    <2>2. d > 1 => n * d >= 2 * n
        BY <2>1
    <2>3. d < 0 => n * d <= -n
        BY <2>1
    <2> QED
        BY <2>1, <2>2, <2>3 DEF d
<1> QED
    BY <1>1, <1>2, <1>3, <1>4 DEF q, r, u, v

LEMMA ModRange == ASSUME NEW n \in Nat \ {0}, NEW x \in Nat PROVE x % n \in 0 .. n - 1
OBVIOUS

LEMMA Products ==
    ASSUME NEW n \in Nat \ {0}, NEW a \in Nat, NEW b \in Nat
    PROVE  /\ (a + b) * n = a * n + b * n
           /\ a * n \in Nat /\ b * n \in Nat
           /\ a <= a * n
           /\ a <= b => a * n <= b * n
           /\ (n - 1) * (a + 1) = a * n + n - a - 1
           /\ n * (1 + a + b) = n + a * n + b * n
<1>1. (a + b) * n = a * n + b * n /\ a * n \in Nat /\ b * n \in Nat
    OBVIOUS
<1>2. a <= a * n
    OBVIOUS
<1>3. a <= b => a * n <= b * n
    OBVIOUS
<1>4. (n - 1) * (a + 1) = a * n + n - a - 1
    OBVIOUS
<1>5. n * (1 + a + b) = n + a * n + b * n
    OBVIOUS
<1> QED
    BY <1>1, <1>2, <1>3, <1>4, <1>5

\* ShouldSample: a remainder that starts over pays for the call that is timed.
LEMMA SampledEnter ==
    ASSUME NEW rate \in Nat \ {0}, NEW n \in Nat, NEW d \in Nat, NEW s \in Nat, NEW c \in Nat,
           NEW e \in Nat, NEW t \in Nat, NEW k \in Nat, Sampled(n, d, s, c, e, t, k, rate)
    PROVE  Sampled(IF (s + 1) % rate = 0 THEN n + 1 ELSE n, d + 1, s + 1, c, e, t, k, rate)
<1> DEFINE x == s % rate
           y == (s + 1) % rate
           p == (c + t + n) * rate
           p1 == (c + t + (n + 1)) * rate
           top == (rate - 1) * (k + 1)
           m == IF y = 0 THEN n + 1 ELSE n
<1>1. y = IF x = rate - 1 THEN 0 ELSE x + 1
    BY ModNext
<1>2. x \in 0 .. rate - 1
    BY ModRange
<1>3. p1 = p + rate /\ p \in Nat
    <2> DEFINE a == c + t + n
    <2>1. a \in Nat /\ c + t + (n + 1) = a + 1
        OBVIOUS
    <2>2. (a + 1) * rate = a * rate + 1 * rate /\ a * rate \in Nat
        <3> HIDE DEF a
        <3> QED
            BY <2>1, Products
    <2> QED
        BY <2>1, <2>2
<1>4. -k <= p - e - d + x /\ p - e - d + x <= top
    BY DEF Sampled
<1>5. (c + t + m) * rate = IF y = 0 THEN p1 ELSE p
    OBVIOUS
<1>6. top \in Int
    BY Products
<1>7. LET whole == (IF y = 0 THEN p1 ELSE p) - e - (d + 1) + y
      IN  -k <= whole /\ whole <= top
    <2> HIDE DEF p, p1, x, y, top
    <2> QED
        BY <1>1, <1>2, <1>3, <1>4, <1>6
<1>8. Sampled(m, d + 1, s + 1, c, e, t, k, rate)
    <2> HIDE DEF m
    <2> QED
        BY <1>5, <1>7 DEF Sampled
<1> QED
    BY <1>8

\* Of the open calls j end, u of them timed, each recorded or thrown.
LEMMA SampledLeave ==
    ASSUME NEW rate \in Nat \ {0}, NEW n \in Nat, NEW d \in Nat, NEW s \in Nat, NEW c \in Nat,
           NEW e \in Nat, NEW t \in Nat, NEW k \in Nat, NEW j \in Nat, NEW u \in Nat, NEW c1 \in Nat, NEW t1 \in Nat,
           NEW n1 \in Nat, NEW d1 \in Nat, n = n1 + u, d = d1 + j, c1 + t1 = c + t + u,
           Sampled(n, d, s, c, e, t, k, rate)
    PROVE  Sampled(n1, d1, s, c1, e + j, t1, k, rate)
<1>1. c1 + t1 + n1 = c + t + n
    OBVIOUS
<1>2. (c1 + t1 + n1) * rate = (c + t + n) * rate /\ (c + t + n) * rate \in Int
    BY <1>1
<1>3. s % rate \in Int
    BY ModRange
<1>4. (c1 + t1 + n1) * rate - (e + j) - d1 + (s % rate) = (c + t + n) * rate - e - d + (s % rate)
    BY <1>2, <1>3
<1> QED
    BY <1>4 DEF Sampled

\* Reset: the calls that are open count for the new window.
LEMMA SampledAfresh ==
    ASSUME NEW rate \in Nat \ {0}, NEW d \in Nat, NEW n \in 0 .. d, NEW s \in Nat
    PROVE  Sampled(n, d, s, 0, 0, 0, d, rate)
<1> DEFINE x == s % rate
           p == n * rate
           q == d * rate
           top == (rate - 1) * (d + 1)
<1>1. x \in 0 .. rate - 1
    BY ModRange
<1>2. p \in Nat /\ q \in Nat /\ p <= q /\ top = q + rate - d - 1
    BY Products
<1>3. (0 + 0 + n) * rate = p
    OBVIOUS
<1>4. -d <= p - 0 - d + x /\ p - 0 - d + x <= top
    <2> HIDE DEF x, p, q, top
    <2> QED
        BY <1>1, <1>2
<1> QED
    BY <1>3, <1>4 DEF Sampled

\* What the scaled count is off by.
LEMMA SampledScales ==
    ASSUME NEW rate \in Nat \ {0}, NEW d \in Nat, NEW n \in 0 .. d, NEW s \in Nat, NEW c \in Nat,
           NEW e \in Nat, NEW t \in Nat, NEW k \in Nat, Sampled(n, d, s, c, e, t, k, rate)
    PROVE  /\ (c + t) * rate - e < rate * (1 + k + d)
           /\ (c + t) * rate - e > -(rate * (1 + k + d))
<1> DEFINE x == s % rate
           a == (c + t) * rate
           p == n * rate
           q == d * rate
           r == k * rate
           top == (rate - 1) * (k + 1)
           bound == rate * (1 + k + d)
<1>1. x \in 0 .. rate - 1
    BY ModRange
<1>2. /\ p \in Nat /\ q \in Nat /\ r \in Nat /\ p <= q /\ d <= q /\ k <= r
      /\ top = r + rate - k - 1 /\ bound = rate + r + q
    BY Products
<1>3. a \in Nat /\ (c + t + n) * rate = a + p
    <2> DEFINE b == c + t
    <2>1. b \in Nat
        OBVIOUS
    <2>2. (b + n) * rate = b * rate + n * rate /\ b * rate \in Nat
        <3> HIDE DEF b
        <3> QED
            BY <2>1, Products
    <2> QED
        BY <2>2
<1>4. -k <= a + p - e - d + x /\ a + p - e - d + x <= top
    BY <1>3 DEF Sampled
<1> HIDE DEF x, a, p, q, r, top, bound
<1>5. a - e < bound /\ a - e > -bound
    BY <1>1, <1>2, <1>3, <1>4
<1> QED
    BY <1>5 DEF a, bound

\* No reload changes the sampling rate.
RateFixed == \A c, d \in Configs : c.deepSampleRate = d.deepSampleRate

SampledNow ==
    Sampled(Cardinality(deep.timed), deep.depth, deep.sequence, deep.calls, deep.entered, deep.thrown,
            deep.carried, config.deepSampleRate)

LEMMA SampledStep ==
    ASSUME RateFixed, SampledNow, DeepTyped, DeepBounded, Timely, [Next]_vars
    PROVE  SampledNow'
<1> DEFINE rate == config.deepSampleRate
           d == deep.depth
           T == deep.timed
           n == Cardinality(T)
           s == deep.sequence
           c == deep.calls
           e == deep.entered
           t == deep.thrown
           k == deep.carried
<1>d. /\ d \in Nat /\ T \subseteq 1 .. d /\ s \in Nat /\ c \in Nat /\ e \in Nat /\ t \in Nat /\ k \in Nat
    BY Bounds DEF DeepTyped, DeepBounded, Sections
<1>r. rate \in Nat \ {0} /\ Sampled(n, d, s, c, e, t, k, rate)
    BY Settings DEF Timely, Shape, SampledNow
<1>n. n \in Nat /\ n \in 0 .. d
    <2>1. n \in 0 .. d
        <3> HIDE DEF d, T
        <3> QED
            BY <1>d, OpenTimed
    <2> QED
        BY <1>d, <2>1
<1>k. config'.deepSampleRate = rate
    <2>1. config \in Configs /\ config' \in Configs
        BY DEF Timely, Shape, Next, MainStep, FramePrefix, BeginFrame, FramePostfix, FrameThrows, EndFrame,
               AddSpike, QueueLatest, PoolStep, TakeSnapshot, Swap, ExportFails, Release, SectionPrefix,
               SectionPostfix, SectionThrows, Left, Reset, Reload, TakeDump, SwapDump, Others, Tick, vars
    <2> QED
        BY <2>1 DEF RateFixed
<1> HIDE DEF rate
<1>1. CASE FrameThrows
    <2>1. /\ deep'.depth = 0 /\ deep'.timed = {} /\ deep'.sequence = s /\ deep'.calls = c
          /\ deep'.entered = e + d /\ deep'.thrown = t + n /\ deep'.carried = k
        BY <1>1 DEF FrameThrows, DeepTyped, Sections
    <2>2. Sampled(0, 0, s, c, e + d, t + n, k, rate)
        <3>1. t + n \in Nat /\ n = 0 + n /\ d = 0 + d /\ c + (t + n) = c + t + n /\ 0 \in Nat
            BY <1>d, <1>n
        <3> HIDE DEF d, T, n, s, c, e, t, k
        <3> QED
            BY <1>d, <1>n, <1>r, <3>1, SampledLeave
    <2> QED
        BY <1>k, <2>1, <2>2, FS_EmptySet DEF SampledNow
<1>2. CASE SectionPrefix
    <2> DEFINE hit == (s + 1) % rate = 0
               T1 == IF hit THEN T \cup {d + 1} ELSE T
    <2>1. /\ deep'.depth = d + 1 /\ deep'.timed = T1 /\ deep'.sequence = s + 1 /\ deep'.calls = c
          /\ deep'.entered = e /\ deep'.thrown = t /\ deep'.carried = k
        BY <1>2 DEF SectionPrefix, DeepTyped, Sections, rate
    <2>2. Cardinality(T1) = IF hit THEN n + 1 ELSE n
        <3> HIDE DEF d, T, hit
        <3> QED
            BY <1>d, TimedEnter
    <2>3. Sampled(IF hit THEN n + 1 ELSE n, d + 1, s + 1, c, e, t, k, rate)
        <3> HIDE DEF d, T, n, s, c, e, t, k
        <3> QED
            BY <1>d, <1>n, <1>r, SampledEnter
    <2>4. Sampled(Cardinality(T1), d + 1, s + 1, c, e, t, k, rate)
        BY <2>2, <2>3
    <2> QED
        BY <1>k, <2>1, <2>4 DEF SampledNow
<1>l. CASE SectionPostfix \/ SectionThrows
    <2> DEFINE T1 == T \ {d}
               u == Timed
    <2>1. /\ deep'.depth = d - 1 /\ deep'.timed = T1 /\ deep'.sequence = s /\ deep'.entered = e + 1
          /\ deep'.carried = k
          /\ \/ deep'.calls = c + u /\ deep'.thrown = t
             \/ deep'.calls = c /\ deep'.thrown = t + u
        BY <1>l DEF SectionPostfix, SectionThrows, Left, DeepTyped, Sections
    <2>2. d \in Nat \ {0} /\ u = (IF d \in T THEN 1 ELSE 0) /\ u \in Nat
        BY <1>l, <1>d DEF SectionPostfix, SectionThrows, Timed
    <2>3. n = Cardinality(T1) + u /\ T1 \subseteq 1 .. d - 1
        <3> HIDE DEF d, T, u
        <3> QED
            BY <1>d, <2>2, TimedLeave
    <2>4. Cardinality(T1) \in Nat /\ d - 1 \in Nat
        <3> HIDE DEF d, T, T1
        <3>1. d - 1 \in Nat
            BY <2>2
        <3>2. Cardinality(T1) \in 0 .. d - 1
            BY <2>3, <3>1, OpenTimed
        <3> QED
            BY <3>1, <3>2
    <2> DEFINE n1 == Cardinality(T1)
    <2>5. ASSUME NEW c1 \in Nat, NEW t1 \in Nat, c1 + t1 = c + t + u
          PROVE  Sampled(n1, d - 1, s, c1, e + 1, t1, k, rate)
        <3> HIDE DEF d, T, n, s, c, e, t, k, u, n1
        <3>1. d = (d - 1) + 1
            BY <1>d
        <3>2. n1 \in Nat /\ n = n1 + u
            BY <2>3, <2>4 DEF n1
        <3> QED
            BY <1>d, <1>n, <1>r, <2>2, <2>4, <2>5, <3>1, <3>2, SampledLeave
    <2>6. (c + u) + t = c + t + u /\ c + (t + u) = c + t + u /\ c + u \in Nat /\ t + u \in Nat
        BY <1>d, <2>2
    <2>7. /\ Sampled(n1, d - 1, s, c + u, e + 1, t, k, rate)
          /\ Sampled(n1, d - 1, s, c, e + 1, t + u, k, rate)
        <3> HIDE DEF c, t, u, n1, d, s, e, k
        <3> QED
            BY <1>d, <2>5, <2>6
    <2> QED
        BY <1>k, <2>1, <2>7 DEF SampledNow
<1>4. CASE Reset
    <2>1. /\ deep'.depth = d /\ deep'.timed = T /\ deep'.sequence = s /\ deep'.calls = 0
          /\ deep'.entered = 0 /\ deep'.thrown = 0 /\ deep'.carried = d
        BY <1>4 DEF Reset, NoCalls, DeepTyped, Sections
    <2>2. Sampled(n, d, s, 0, 0, 0, d, rate)
        <3> HIDE DEF d, n, s
        <3> QED
            BY <1>d, <1>n, <1>r, SampledAfresh
    <2> QED
        BY <1>k, <2>1, <2>2 DEF SampledNow
<1>5. CASE deep' = deep
    BY <1>k, <1>r, <1>5 DEF SampledNow
<1> QED
    BY <1>1, <1>2, <1>l, <1>4, <1>5
       DEF Next, MainStep, FramePrefix, BeginFrame, FramePostfix, EndFrame, AddSpike, QueueLatest,
           PoolStep, TakeSnapshot, Swap, ExportFails, Release,
           Reload, TakeDump, SwapDump, Others, Tick, vars

\* For any one sampling rate, any nesting, throws and resets, one in the midst of timed
\* calls included: the calls shown of all deep sections, scaled, are the calls made to
\* within one sampling period, and one more for each call open at the reset or now.
THEOREM DeepCallsScaled == ASSUME RateFixed PROVE Spec => []DeepCallsScale
<1> DEFINE Inv == DeepTyped /\ DeepBounded /\ SampledNow
<1>1. Init => Inv
    <2> SUFFICES ASSUME Init PROVE Inv
        OBVIOUS
    <2>1. DeepTyped /\ DeepBounded
        BY Bounds DEF Init, DeepTyped, DeepBounded, Sections
    <2> DEFINE rate == config.deepSampleRate
    <2>2. rate \in Nat \ {0}
        BY Settings DEF Init
    <2> HIDE DEF rate
    <2>3. Sampled(0, 0, 0, 0, 0, 0, 0, rate)
        BY <2>2, SampledAfresh
    <2>4. SampledNow
        BY <2>3, FS_EmptySet DEF Init, SampledNow, rate
    <2> QED
        BY <2>1, <2>4
<1>2. Timely /\ Inv /\ [Next]_vars => Inv'
    BY DeepStep, SampledStep
<1>3. Timely /\ Inv => DeepCallsScale
    <2> SUFFICES ASSUME Timely, Inv PROVE DeepCallsScale
        OBVIOUS
    <2> DEFINE d == deep.depth
               T == deep.timed
               n == Cardinality(T)
    <2>1. /\ d \in Nat /\ T \subseteq 1 .. d /\ deep.sequence \in Nat
          /\ deep.calls \in Nat /\ deep.entered \in Nat /\ deep.thrown \in Nat /\ deep.carried \in Nat
          /\ config.deepSampleRate \in Nat \ {0}
        BY Bounds, Settings DEF DeepTyped, DeepBounded, Sections, Timely, Shape
    <2>2. n \in 0 .. d
        <3> HIDE DEF d, T
        <3> QED
            BY <2>1, OpenTimed
    <2>3. Sampled(n, d, deep.sequence, deep.calls, deep.entered, deep.thrown, deep.carried,
                  config.deepSampleRate)
        BY DEF SampledNow
    <2> HIDE DEF n, d
    <2>4. /\ (deep.calls + deep.thrown) * config.deepSampleRate - deep.entered
                < config.deepSampleRate * (1 + deep.carried + d)
          /\ (deep.calls + deep.thrown) * config.deepSampleRate - deep.entered
                > -(config.deepSampleRate * (1 + deep.carried + d))
        BY <2>1, <2>2, <2>3, SampledScales
    <2> QED
        BY <2>4 DEF DeepCallsScale, d
<1> HIDE DEF Inv
<1>4. Spec => []Inv
    BY <1>1, <1>2, FlightAlways, PTL DEF Spec
<1> QED
    BY <1>3, <1>4, FlightAlways, PTL
=============================================================================
