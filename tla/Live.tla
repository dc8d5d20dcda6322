-------------------------------- MODULE Live --------------------------------
(***************************************************************************)
(* The two programs that watch a running server through the bridge: the    *)
(* dashboard panel (WebMod/bundle.ts, served by WebApi.cs) polls a         *)
(* snapshot over HTTP and keeps a history of it, and `monitor`             *)
(* (apm_suite/cli.py) reads the snapshot file the bridge exports and       *)
(* appends a sample to a log it rotates.                                   *)
(***************************************************************************)
EXTENDS Integers, Sequences

CONSTANTS
    MaxUtc,            \* bound on the snapshots the server publishes
    Depths,            \* the history depths the panel offers
    MaxFailures,       \* bound on failed polls, unreadable files and failed renames
    MaxClicks,         \* bound on the clicks in the panel
    Count,             \* --count of the monitor
    MaxBytes,          \* --max-bytes, in units of the shortest record
    None

ASSUME LiveAssumption ==
    /\ MaxUtc \in Nat \ {0}
    /\ Depths \subseteq Nat \ {0} /\ \E d \in Depths : \A e \in Depths : e <= d
    /\ MaxFailures \in Nat /\ MaxClicks \in Nat /\ Count \in Nat \ {0} /\ MaxBytes \in Nat
    /\ None \notin Int

VARIABLES
    server,            \* what the bridge publishes: utc of the sample, late ticks since the reset
    pan,               \* the panel: query state, freeze, history, copy notice
    mon,               \* the monitor: progress, last late count, what it printed
    log, previous,     \* <output> and <output>.1: records [n, size]
    failures, clicks

vars == <<server, pan, mon, log, previous, failures, clicks>>

Min2(a, b) == IF a < b THEN a ELSE b
Largest(S) == CHOOSE d \in S : \A e \in S : e <= d
Size(l) == LET sum[i \in 0 .. Len(l)] == IF i = 0 THEN 0 ELSE sum[i - 1] + l[i].size
           IN  sum[Len(l)]

TypeOK ==
    /\ server \in [utc : 1 .. MaxUtc, late : 0 .. MaxUtc, reset : BOOLEAN]
    /\ pan \in [data : 0 .. MaxUtc, status : {0, 200, 403, 500}, blocked : BOOLEAN, asking : BOOLEAN,
                frozen : BOOLEAN, snap : 0 .. MaxUtc, last : 0 .. MaxUtc,
                hist : UNION {[1 .. n -> 1 .. MaxUtc] : n \in 0 .. Largest(Depths)},
                depth : Depths, copy : 0 .. MaxClicks, timers : SUBSET (1 .. MaxClicks)]
    /\ mon \in [taken : 0 .. Count, pending : BOOLEAN, late : 0 .. MaxUtc \cup {None},
                first : 0 .. MaxUtc \cup {None}, printed : Nat, stuck : BOOLEAN,
                exit : {"no", "done", "stopped"}]
    /\ \A l \in {log, previous} : \A i \in DOMAIN l : l[i].n \in 1 .. Count /\ l[i].size \in {1, 2}
    /\ failures \in 0 .. MaxFailures /\ clicks \in 0 .. MaxClicks

Init ==
    /\ server = [utc |-> 1, late |-> 0, reset |-> FALSE]
    /\ pan = [data |-> 0, status |-> 0, blocked |-> FALSE, asking |-> FALSE, frozen |-> FALSE, snap |-> 0,
              last |-> 0, hist |-> <<>>, depth |-> Largest(Depths), copy |-> 0, timers |-> {}]
    /\ mon = [taken |-> 0, pending |-> FALSE, late |-> None, first |-> None, printed |-> 0,
              stuck |-> FALSE, exit |-> "no"]
    /\ log = <<>> /\ previous = <<>> /\ failures = 0 /\ clicks = 0

\* The server goes on; `apm reset` starts the late ticks over.
Publish ==
    /\ server.utc < MaxUtc
    /\ \/ \E d \in 0 .. 1 : server' = [server EXCEPT !.utc = @ + 1, !.late = @ + d]
       \/ server' = [utc |-> server.utc + 1, late |-> 0, reset |-> TRUE]
    /\ UNCHANGED <<pan, mon, log, previous, failures, clicks>>

-----------------------------------------------------------------------------
(* The panel. *)

PanelOnly == UNCHANGED <<server, mon, log, previous>>

\* useQuery, every two seconds unless an auth failure has paused it.
Ask ==
    /\ ~pan.blocked /\ ~pan.asking
    /\ pan' = [pan EXCEPT !.asking = TRUE]
    /\ PanelOnly /\ UNCHANGED <<failures, clicks>>

\* pushHistory: the oldest sample is shifted out past the depth.
Pushed(hist, utc, depth) ==
    LET longer == Append(hist, utc) IN IF Len(longer) > depth THEN Tail(longer) ELSE longer

\* Mutant of Rendered: every poll is pushed, the same sample twice included.
RenderedAlways(p) ==
    IF p.frozen \/ p.status # 200 THEN p
    ELSE [p EXCEPT !.hist = Pushed(p.hist, p.data, p.depth), !.last = p.data]

\* A render of ApmPanel with what the query holds.
Rendered(p) ==
    IF p.frozen \/ p.status # 200 \/ p.data = p.last THEN p
    ELSE [p EXCEPT !.hist = Pushed(p.hist, p.data, p.depth), !.last = p.data]

\* WebApi.cs answers with the snapshot of this moment.
Answer ==
    /\ pan.asking
    /\ pan' = Rendered([pan EXCEPT !.asking = FALSE, !.data = server.utc, !.status = 200])
    /\ PanelOnly /\ UNCHANGED <<failures, clicks>>

\* Mutant of Latches: any failed poll stops the polling.
LatchesAny(status) == TRUE

Latches(status) == status \in {401, 403}

\* A lost session answers 403, a failed snapshot 500; the query keeps its last data.
Fail ==
    /\ pan.asking /\ failures < MaxFailures
    /\ \E status \in {403, 500} :
          pan' = [pan EXCEPT !.asking = FALSE, !.status = status, !.blocked = Latches(status)]
    /\ failures' = failures + 1
    /\ PanelOnly /\ UNCHANGED clicks

Click == clicks < MaxClicks /\ clicks' = clicks + 1 /\ pan.status = 200

\* freezeHandler
Frozen(p) == [p EXCEPT !.frozen = ~@, !.snap = IF p.frozen THEN @ ELSE p.data]

ToggleFreeze ==
    /\ Click
    /\ pan' = Rendered(Frozen(pan))
    /\ PanelOnly /\ UNCHANGED failures

\* Mutant of Trimmed: what is kept waits for later pushes to shift it out.
Untrimmed(hist, n) == hist

\* trimHistory: the oldest samples go first.
Trimmed(hist, n) == SubSeq(hist, Len(hist) - Min2(Len(hist), n) + 1, Len(hist))

\* changeDepth: persist, trim, re-render.
ChangeDepth(n) ==
    /\ Click /\ n # pan.depth
    /\ pan' = Rendered([pan EXCEPT !.depth = n, !.hist = Trimmed(@, n)])
    /\ PanelOnly /\ UNCHANGED failures

\* setCopyMessage: a new notice cancels the timer of the one before.
Notice(p, id) == [p EXCEPT !.copy = id, !.timers = {id}]

Copy ==
    /\ Click
    /\ pan' = Notice(pan, clicks')
    /\ PanelOnly /\ UNCHANGED failures

CopyTimer(id) ==
    /\ id \in pan.timers
    /\ pan' = [pan EXCEPT !.copy = 0, !.timers = @ \ {id}]
    /\ PanelOnly /\ UNCHANGED <<failures, clicks>>

\* What the panel draws: its state of errors, or a snapshot.
Shown == IF pan.status \in {403, 500} THEN None ELSE IF pan.frozen THEN pan.snap ELSE pan.data

-----------------------------------------------------------------------------
(* The monitor. *)

MonitorOnly == UNCHANGED <<server, pan, clicks>>

\* Mutant of Counted: a sample without the bridge's fields forgets the last count.
CountedAfresh(current) ==
    IF current = None THEN [mon EXCEPT !.pending = TRUE, !.late = None]
    ELSE [mon EXCEPT !.pending = TRUE, !.late = current,
             !.first = IF @ = None THEN current ELSE @,
             !.printed = @ + IF mon.late # None /\ current > mon.late THEN current - mon.late ELSE 0]

\* _delta_str and previous_late: the printed delta is against the last count read.
Counted(current) ==
    IF current = None THEN [mon EXCEPT !.pending = TRUE]
    ELSE [mon EXCEPT !.pending = TRUE, !.late = current,
             !.first = IF @ = None THEN current ELSE @,
             !.printed = @ + IF mon.late # None /\ current > mon.late THEN current - mon.late ELSE 0]

\* One sample, with the bridge's fields or, when its file cannot be read, without.
Sample ==
    /\ mon.exit = "no" /\ ~mon.pending /\ mon.taken < Count
    /\ \/ mon' = Counted(server.late) /\ UNCHANGED failures
       \/ failures < MaxFailures /\ failures' = failures + 1 /\ mon' = Counted(None)
    /\ MonitorOnly /\ UNCHANGED <<log, previous>>

Full == MaxBytes > 0 /\ Size(log) >= MaxBytes

\* Mutant of Rotated: the full log is removed and a fresh one begun.
RotatedAway == [log |-> <<>>, previous |-> previous]

\* _rotate_monitor_log: the full log takes the place of the old generation.
Rotated == [log |-> <<>>, previous |-> log]

\* What a rotation leaves when the unlink, or the rename after it, fails.
Stuck == {[log |-> log, previous |-> previous], [log |-> log, previous |-> <<>>]}

\* Rotate a full log, then append.
Record(size) ==
    /\ mon.pending /\ mon.exit = "no"
    /\ \E kept \in IF ~Full THEN {[log |-> log, previous |-> previous]}
                   ELSE {Rotated} \cup IF failures < MaxFailures THEN Stuck ELSE {} :
          LET stuck == Full /\ kept.log # <<>>
          IN  /\ log' = Append(kept.log, [n |-> mon.taken + 1, size |-> size])
              /\ previous' = kept.previous
              /\ failures' = failures + IF stuck THEN 1 ELSE 0
              /\ mon' = [mon EXCEPT !.pending = FALSE, !.taken = @ + 1, !.stuck = @ \/ stuck]
    /\ MonitorOnly

\* The count is reached.
Done ==
    /\ mon.exit = "no" /\ mon.taken = Count
    /\ mon' = [mon EXCEPT !.exit = "done"]
    /\ MonitorOnly /\ UNCHANGED <<log, previous, failures>>

\* The target exits (1), denies access or the output fails (2), Ctrl-C (130), which can
\* fall between the unlink and the rename of a rotation.
Stop ==
    /\ mon.exit = "no" /\ mon.taken < Count
    /\ \/ mon' = [mon EXCEPT !.exit = "stopped"] /\ UNCHANGED previous
       \/ /\ mon.pending /\ Full
          /\ mon' = [mon EXCEPT !.exit = "stopped", !.stuck = TRUE] /\ previous' = <<>>
    /\ MonitorOnly /\ UNCHANGED <<log, failures>>

Poll == Answer \/ Fail

Next ==
    \/ Publish
    \/ Ask \/ Poll \/ ToggleFreeze \/ Copy
    \/ \E n \in Depths : ChangeDepth(n)
    \/ \E id \in 1 .. MaxClicks : CopyTimer(id)
    \/ Sample \/ Done \/ Stop
    \/ \E size \in 1 .. 2 : Record(size)

\* The browser polls on its timer and every request is answered somehow.
Spec == Init /\ [][Next]_vars /\ WF_vars(Ask) /\ WF_vars(Poll)

-----------------------------------------------------------------------------
\* The panel's history holds each sample once and in order, whatever is frozen,
\* trimmed or failed in between, ends with the last one it took, and is never
\* longer than the depth that is chosen.
HistoryInOrder ==
    /\ Len(pan.hist) <= pan.depth
    /\ \A i, j \in DOMAIN pan.hist : i < j => pan.hist[i] < pan.hist[j]
    /\ pan.hist # <<>> => pan.hist[Len(pan.hist)] = pan.last

\* A freeze keeps on screen the very snapshot that was there when it was clicked,
\* until it is lifted, polls that go on underneath notwithstanding.
FreezeHolds ==
    [][Shown # None /\ Shown' # None /\ pan'.frozen => Shown' = Shown]_vars

\* One failed snapshot never freezes the monitor: the panel leaves its error
\* state by itself.
PanelRecovers == pan.status = 500 ~> pan.status # 500

\* The late ticks a monitor prints add up to what the server counted between the
\* first and the last sample it could read.
DeltasAddUp == mon.late # None /\ ~server.reset => mon.printed = mon.late - mon.first

\* The log and its previous generation are the last samples without a gap.
LogGapless ==
    LET kept == previous \o log IN \A i \in DOMAIN kept : kept[i].n = mon.taken - Len(kept) + i

\* A rotation drops nothing but the generation before, and as long as renames work
\* the log exceeds its cap by no more than a record.
LogCapped ==
    ~mon.stuck => /\ Len(previous) + Len(log) = mon.taken \/ Size(previous) >= MaxBytes
                  /\ MaxBytes > 0 => Size(log) <= MaxBytes + 1

\* What the monitor prints and logs accounts for every sample it took.
MonitorAccounts == DeltasAddUp /\ LogGapless /\ LogCapped
=============================================================================
