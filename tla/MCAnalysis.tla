---------------------------- MODULE MCAnalysis ------------------------------
(***************************************************************************)
(* Sessions for TLC: a calm one, one pathology at a time on top of it, and *)
(* combinations in which one kind of evidence says something about another.*)
(***************************************************************************)
EXTENDS Analysis

Probes == {"hw", "oncpu", "perf", "futex", "runqlat", "states", "offcpu", "vfs", "block",
           "mono_gc", "mono_alloc", "io_net", "proc", "threads", "app"}

Section(name, bucket, total) ==
    [name |-> name, bucket |-> bucket, total |-> total, deep |-> FALSE, avg |-> 2, p95 |-> 3]
Tick(total) == Section("GmUpdate", "frame_core", total)
Entities(total) == Section("World.TickEntities", "entity_tick", total)
Network(total) == Section("ConnectionManager.Update", "network", total)
Paths(total) == [Section("EntityAlive.FindPath", "explosions", total) EXCEPT !.deep = TRUE]
Task(total) == [Section("GameManager.SaveWorld", "io_saves", total) EXCEPT !.avg = 6000]

Snap == [window |-> 10, heap |-> 0, gross |-> 5, full |-> 0, updates |-> 200, late |-> 0,
         interval |-> 50, bridge |-> 0, rate |-> 4, spikes |-> <<>>,
         sections |-> {Tick(100), Entities(40), Network(20)}]

Row(t, rss, fd) == [t |-> t, mono |-> t, rss |-> rss, fd |-> fd, cpu |-> 20]
Threads(process, main) == [t |-> 1, process |-> process, rows |-> 50, main |-> main, waiters |-> <<>>]
Reply(t, spike, ms, avg) == [t |-> t, spike |-> spike, ms |-> ms, avg |-> avg]
Slow(ms) == [kind |-> "slow", ms |-> ms]
Stw(ms) == [kind |-> "stw", ms |-> ms]

Calm ==
    [only |-> {"all"}, files |-> Probes, seconds |-> 20, observed |-> None, version |-> 1,
     hw |-> [ipc |-> 120, missRate |-> 10, llc |-> 0], stacks |-> FALSE,
     futex |-> [slow |-> 0, waitMs |-> 0, waits |-> 0],
     sched |-> [slowBucket |-> FALSE, preempted |-> FALSE, diskMs |-> 0, runqMs |-> 0],
     io |-> [slowBlock |-> 0, mainIo |-> 0, slowRead |-> FALSE, fsync |-> FALSE],
     gc |-> [lines |-> <<>>, little |-> None, collect |-> None],
     app |-> [ok |-> TRUE, tick |-> TRUE, replies |-> <<>>],
     threads |-> <<Threads(100, 20), Threads(None, 20), Threads(0, 0)>>,
     snap |-> Snap, probe |-> 300, udp |-> 40, workload |-> 1,
     proc |-> <<Row(1, 900, 50), Row(2, 900, 50), Row(3, 900, 50)>>,
     frames |-> [gc_mono |-> 0, main_loop |-> 30, other |-> 970]]

With(snap) == [Calm EXCEPT !.snap = snap]
Only(tokens, files) == [Calm EXCEPT !.only = tokens, !.files = files, !.snap = None]
Proc(rows) == [Calm EXCEPT !.proc = rows]

Pathologies ==
    {Calm, [Calm EXCEPT !.hw = [ipc |-> 40, missRate |-> 160, llc |-> 300], !.stacks = TRUE],
     [Calm EXCEPT !.hw = [ipc |-> 0, missRate |-> 90, llc |-> 210]],
     [Calm EXCEPT !.futex = [slow |-> 3, waitMs |-> 700, waits |-> None]],
     [Calm EXCEPT !.futex = [slow |-> 5, waitMs |-> 2100, waits |-> 40]],
     [Calm EXCEPT !.sched = [slowBucket |-> TRUE, preempted |-> TRUE, diskMs |-> 60, runqMs |-> 30]],
     [Calm EXCEPT !.sched = [slowBucket |-> TRUE, preempted |-> FALSE, diskMs |-> 1200, runqMs |-> 1200]],
     [Calm EXCEPT !.io = [slowBlock |-> 7, mainIo |-> 2, slowRead |-> TRUE, fsync |-> TRUE]],
     [Calm EXCEPT !.gc = [lines |-> <<Slow(30), Stw(120), Slow(70), Slow(20), Stw(60)>>, little |-> 400, collect |-> 2]],
     [Calm EXCEPT !.app.replies = <<Reply(6, FALSE, None, 40), Reply(7, TRUE, 210, 33), Reply(None, TRUE, None, 5)>>,
                  !.threads = <<[Threads(100, 90) EXCEPT !.waiters = <<4, 2, 3, 9, 1, 7>>], Threads(100, 90)>>],
     [Calm EXCEPT !.threads = <<Threads(50, 26)>>, !.udp = 900]}

Snapshots ==
    {None, Malformed,
     [Snap EXCEPT !.late = 195, !.interval = 400, !.full = 9, !.gross = 200, !.bridge = 40],
     [Snap EXCEPT !.late = 30, !.gross = None, !.heap = 500], [Snap EXCEPT !.gross = -1, !.window = 0, !.late = 11],
     [Snap EXCEPT !.late = 20, !.updates = 0], [Snap EXCEPT !.gross = 0, !.full = 2],
     [Snap EXCEPT !.sections = {Tick(30), Entities(40), Network(20), Paths(10), Task(500)}],
     [Snap EXCEPT !.sections = {Tick(100), Paths(10)}], [Snap EXCEPT !.sections = {}, !.late = 4],
     [Snap EXCEPT !.sections = {Network(10)}],
     [Snap EXCEPT !.spikes = <<[t |-> 9, ms |-> 250], [t |-> None, ms |-> 80], [t |-> 4, ms |-> 60], [t |-> 5, ms |-> 0]>>]}

Requests ==
    {Only({"io"}, {"vfs", "block", "io_net"}), Only({"sync", "net"}, {"futex", "vfs"}),
     Only({"gc", "memory"}, {"mono_gc", "hw", "proc"}), Only({"perf"}, {"perf"}), Only({"alloc"}, {"mono_alloc"}),
     Only({"app_sim"}, {}), Only({"all"}, {}), Only({"all"}, Probes \ {"mono_gc", "futex", "app"}),
     Only({"all"}, Probes \ {"oncpu", "perf"}), Only({"scheduler", "threads"}, {"offcpu", "proc", "threads"}),
     [Only({"all"}, Probes) EXCEPT !.app.ok = FALSE]}

Windows ==
    {[Calm EXCEPT !.observed = o, !.seconds = s] :
        <<o, s>> \in {<<0, 20>>, <<10, 20>>, <<19, 20>>, <<4, 20>>, <<18, 20>>, <<None, 22>>, <<None, 23>>}}
    \cup {[Calm EXCEPT !.version = 2], [Calm EXCEPT !.workload = None], [Calm EXCEPT !.workload = Malformed],
          [Calm EXCEPT !.workload = 2], [Calm EXCEPT !.only = {"io", "all"}],
          [Calm EXCEPT !.files = @ \ {"perf"}, !.snap.sections = {Tick(110), Network(20)}]}

Memories ==
    {Proc(<<Row(1, 900, -1), Row(2, 960, 50), Row(5, 990, 200)>>), Proc(<<Row(1, 900, -1), Row(2, None, 9), Row(5, 990, -1)>>),
     Proc(<<Row(1, 900, -1), Row(2, 910, -1), [Row(3, 960, -1) EXCEPT !.cpu = 200]>>),
     Proc(<<[Row(9, 900, 10) EXCEPT !.mono = None], Row(2, 980, 50), Row(4, 990, 300)>>),
     Proc(<<Row(1, 2000, 10), Row(2, 1500, 50), Row(4, 900, 300)>>)}

\* Several sources beyond their bounds, with errors among the routine.
Floods ==
    {[Calm EXCEPT !.snap = [Snap EXCEPT !.spikes = [i \in 1 .. 5 |-> [t |-> 7 - i, ms |-> IF i = 5 THEN 300 ELSE 40]]],
                  !.futex.slow = f,
                  !.gc = [lines |-> <<Slow(50), Stw(20), Slow(45), Slow(90), Stw(30)>>, little |-> l, collect |-> 5]] :
        f \in {0, 4}, l \in {None, 60}}

Sessions ==
    Pathologies \cup {With(s) : s \in Snapshots} \cup Requests \cup Windows \cup Memories \cup Floods

StrictBudgets ==
    {[DefaultBudget EXCEPT !.layers = ("cpu" :> 50) @@ ("app_sim" :> 60)],
     [DefaultBudget EXCEPT !.layers = ("runtime_gc" :> Junk), !.sum = None],
     [DefaultBudget EXCEPT !.layers = ("io" :> None)],
     [DefaultBudget EXCEPT !.layers = <<>>, !.heat = ("World.TickEntities" :> None)],
     [DefaultBudget EXCEPT !.layers = ("io" :> 50), !.late = None, !.gross = None, !.udp = None, !.heat = <<>>]}

Step(load, call, total) == [load |-> load, call |-> call, total |-> total]
LadderSet ==
    {<<Step(0, 1, 1), Step(1, 2, 3), Step(3, 4, 7)>>, <<Step(0, 0, 0), Step(2, 4, 6), Step(3, 6, 9), Step(4, 8, 12)>>,
     <<Step(2, 1, 3), Step(2, 1, 3), Step(3, 1, 4)>>, <<Step(0, 1, 1), Step(None, 9, 9), Step(1, 2, 3)>>,
     <<Step(1, 2, 3), Step(2, 1, 3), Step(3, 0, 3)>>, <<Step(1, 2, 3), Step(2, None, None), Step(3, 0, 3), Step(4, 3, 7)>>,
     <<Step(1, None, None), Step(2, None, None), Step(3, 0, 3)>>, <<Step(0, 1, 1), Step(1, 1, 2)>>}
=============================================================================
