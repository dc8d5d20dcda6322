------------------------------ MODULE Drivers -------------------------------
(***************************************************************************)
(* The programs that capture under load: `scenario run` and `scenario      *)
(* matrix` (apm_suite/cli.py), which start a load generator, capture, tear *)
(* the generator's process group down (apm_suite/runner.py) and attach its *)
(* manifest to the session, and the scale ladder (plans/scale_ladder.py),  *)
(* which captures in the same store and has to tell its session apart.     *)
(***************************************************************************)
EXTENDS Integers, Sequences, FiniteSets

CONSTANTS
    Entries,           \* bound on the entries of the matrix plan
    MaxInterrupts,     \* bound on the Ctrl-C of the operator
    Tiers,             \* bound on the tiers of the ladder
    None, Ladder, Up, Traceback

ASSUME DriversAssumption ==
    /\ Entries \in Nat \ {0} /\ MaxInterrupts \in Nat /\ Tiers \in Nat
    /\ {None, Ladder, Up, Traceback} \cap Int = {} /\ Cardinality({None, Ladder, Up, Traceback}) = 4

\* What a plan entry is, as scenario_matrix and scenario_run tell entries apart.
EntryKinds == {"plain", "commented", "mistyped", "bad preset", "bad rally"}
Codes == {0, 1, 2, 130, -15, -9}
Owners == (1 .. Entries) \cup {Ladder}

VARIABLES
    plan, pc, pos, results,    \* the matrix
    cap, load, session, raised,\* capture_rc, load_rc, session, an exception under way
    exit,                      \* how the matrix ended: an exit code or a traceback
    leader, cohort, signal,    \* the generator's shell, its bots, the last signal of the group
    manifest,                  \* the loadgen manifest the claim created
    bare,                      \* history: a Ctrl-C fell between two handlers of the teardown
    sessions,                  \* the store: owner, attached workload, what the audit recorded
    lad,                       \* the ladder
    interrupts

matrix == <<plan, pos, results>>
run == <<cap, load, session, raised>>
group == <<leader, cohort, signal, manifest>>
vars == <<matrix, pc, run, exit, group, sessions, lad, interrupts, bare>>

Ids == 1 .. Len(sessions)

TypeOK ==
    /\ plan \in [1 .. Entries -> EntryKinds]
    /\ pc \in {"entry", "start", "spawned", "run", "wait", "poll", "grace", "kill", "reap", "attach",
              "audit", "exited"}
    /\ pos \in 1 .. Entries + 1
    /\ results \in Seq(Codes) /\ Len(results) = pos - 1
    /\ cap \in Codes /\ load \in Codes /\ session \in Ids \cup {None} /\ raised \in BOOLEAN
    /\ exit \in {0, 1, 2, None, Traceback} /\ (exit # None <=> pc = "exited")
    /\ leader \in Codes \cup {None, Up}
    /\ cohort \in {"none", "up", "gone"} /\ signal \in {0, -15, -9}
    /\ manifest \in {"empty", "torn", "odd", "whole"} /\ bare \in BOOLEAN
    /\ sessions \in Seq([owner : Owners, workload : Owners \cup {None}, recorded : Owners \cup {None}])
    /\ lad \in [pc : {"sample", "capture", "attach"}, tier : 0 .. Tiers, before : 0 .. Len(sessions),
                own : Ids \cup {None}]
    /\ interrupts \in 0 .. MaxInterrupts

Init ==
    /\ plan \in [1 .. Entries -> EntryKinds]
    /\ pc = "entry" /\ pos = 1 /\ results = <<>> /\ exit = None
    /\ cap = 130 /\ load = 130 /\ session = None /\ raised = FALSE
    /\ leader = None /\ cohort = "none" /\ signal = 0 /\ manifest = "empty"
    /\ bare = FALSE /\ sessions = <<>>
    /\ lad = [pc |-> "sample", tier |-> 0, before |-> 0, own |-> None]
    /\ interrupts = 0

NewSession(owner) == Append(sessions, [owner |-> owner, workload |-> None, recorded |-> None])

\* The matrix ends here: a finished list, a refused entry, an uncaught exception.
Exit(how) == pc' = "exited" /\ exit' = how

\* scenario_run returns to the matrix: typer.Exit carries the code.
Return(code) ==
    /\ results' = Append(results, code)
    /\ pos' = pos + 1 /\ pc' = "entry"
    /\ UNCHANGED <<plan, exit>>

-----------------------------------------------------------------------------
(* scenario_matrix *)

\* Each entry is checked when its turn comes; cleanup runs on the server and only
\* warns when it fails.
TakeEntry ==
    /\ pc = "entry" /\ pos <= Entries
    /\ IF plan[pos] = "mistyped" THEN Exit(2) ELSE pc' = "start" /\ UNCHANGED exit
    /\ UNCHANGED <<matrix, run, group, sessions, lad, interrupts, bare>>

Finish ==
    /\ pc = "entry" /\ pos = Entries + 1
    /\ Exit(IF \A i \in DOMAIN results : results[i] \in {0, 1} THEN 0 ELSE 1)
    /\ UNCHANGED <<matrix, run, group, sessions, lad, interrupts, bare>>

-----------------------------------------------------------------------------
(* scenario_run *)

\* No loadgen beside the checkout, an unwritable store, a shell that cannot be
\* executed: refused with its code before anything runs.
Refuse ==
    /\ pc = "start" /\ plan[pos] # "commented"
    /\ IF plan[pos] = "bad preset" THEN Return(2) ELSE Return(2) \/ Return(1)
    /\ UNCHANGED <<run, group, sessions, lad, interrupts, bare>>

\* A bad --rally-at is a usage error, which the matrix does not catch, nor the OSError
\* of a claim that cannot be made; an unknown keyword never enters the function.
Reject ==
    /\ pc = "start"
    /\ \/ plan[pos] = "bad rally" /\ Exit(2)
       \/ plan[pos] \in {"plain", "bad rally", "commented"} /\ Exit(Traceback)
    /\ UNCHANGED <<matrix, run, group, sessions, lad, interrupts, bare>>

Spawn ==
    /\ pc = "start" /\ plan[pos] = "plain"
    /\ pc' = "spawned"
    /\ leader' = Up /\ cohort' = "up" /\ signal' = 0 /\ manifest' = "empty"
    /\ cap' = 130 /\ load' = 130 /\ session' = None /\ raised' = FALSE
    /\ UNCHANGED <<matrix, exit, sessions, lad, interrupts, bare>>

\* The generator runs; from here on a finally block tears it down.
EnterTry ==
    /\ pc = "spawned" /\ pc' = "run"
    /\ UNCHANGED <<matrix, run, exit, group, sessions, lad, interrupts, bare>>

\* Warmup, rally and run_capture, which finalizes the session it returns.
Captured ==
    /\ pc = "run"
    /\ cap' \in {0, 1, 130}
    /\ sessions' = NewSession(pos) /\ session' = Len(sessions')
    /\ pc' = "wait"
    /\ UNCHANGED <<matrix, load, raised, exit, group, lad, interrupts, bare>>

\* RuntimeError is caught, any other exception passes through the teardown; the
\* capture may have made its session by then, and nobody was told its name.
CaptureRaises ==
    /\ pc = "run"
    /\ \/ cap' = 2 /\ raised' = FALSE
       \/ cap' = 130 /\ raised' = TRUE
    /\ sessions' \in {sessions, NewSession(pos)}
    /\ pc' = "wait"
    /\ UNCHANGED <<matrix, load, session, exit, group, lad, interrupts, bare>>

\* Out of the finally block: the exception goes on, or the attach begins.
Leave(raising) == IF raising THEN Exit(Traceback) ELSE pc' = "attach" /\ UNCHANGED exit

Waited ==
    /\ pc = "wait" /\ leader \in Codes
    /\ load' = leader /\ pc' = "poll"
    /\ UNCHANGED <<matrix, cap, session, raised, exit, group, sessions, lad, interrupts, bare>>

WaitTimesOut ==
    /\ pc = "wait" /\ leader = Up
    /\ pc' = "poll"
    /\ UNCHANGED <<matrix, run, exit, group, sessions, lad, interrupts, bare>>

\* A generator that ended since the timeout is not torn down, nor its code read.
Poll ==
    /\ pc = "poll"
    /\ IF leader = Up THEN signal' = -15 /\ pc' = "grace" /\ UNCHANGED exit
       ELSE Leave(raised) /\ UNCHANGED signal
    /\ UNCHANGED <<matrix, run, leader, cohort, manifest, sessions, lad, interrupts, bare>>

Graced ==
    /\ pc = "grace" /\ leader \in Codes
    /\ load' = leader /\ Leave(raised)
    /\ UNCHANGED <<matrix, cap, session, raised, group, sessions, lad, interrupts, bare>>

GraceTimesOut ==
    /\ pc = "grace" /\ leader = Up
    /\ pc' = "kill"
    /\ UNCHANGED <<matrix, run, exit, group, sessions, lad, interrupts, bare>>

Kill ==
    /\ pc = "kill"
    /\ signal' = -9 /\ pc' = "reap"
    /\ UNCHANGED <<matrix, run, exit, leader, cohort, manifest, sessions, lad, interrupts, bare>>

\* Mutant of Reap: the wait after SIGKILL has no bound.
ReapForever ==
    /\ pc = "reap" /\ leader \in Codes
    /\ load' = leader /\ Leave(raised)
    /\ UNCHANGED <<matrix, cap, session, raised, group, sessions, lad, interrupts, bare>>

\* A child in uninterruptible sleep outlives the SIGKILL; the wait is bounded.
Reap ==
    /\ pc = "reap"
    /\ load' = IF leader \in Codes THEN leader ELSE load
    /\ Leave(raised)
    /\ UNCHANGED <<matrix, cap, session, raised, group, sessions, lad, interrupts, bare>>

\* _attach_workload_manifest: a torn or missing document, or a failed write, is
\* reported and the audit follows all the same; an object whose workload is none
\* raises out of the run.
Attach ==
    /\ pc = "attach"
    /\ IF session # None /\ manifest = "odd" THEN Exit(Traceback) /\ UNCHANGED sessions
       ELSE /\ \/ sessions' = IF session # None /\ manifest = "whole"
                              THEN [sessions EXCEPT ![session].workload = pos] ELSE sessions
               \/ UNCHANGED sessions
            /\ pc' = "audit" /\ UNCHANGED exit
    /\ UNCHANGED <<matrix, run, group, lad, interrupts, bare>>

Recorded(s) == [sessions EXCEPT ![s].recorded = sessions[s].workload]

\* Mutant of Audit: the audit runs only for a session that had nothing attached.
AuditUnattached ==
    /\ pc = "audit"
    /\ sessions' = IF session = None \/ sessions[session].workload # None THEN sessions
                   ELSE Recorded(session)
    /\ Return(IF cap # 0 THEN cap ELSE load)
    /\ UNCHANGED <<run, group, lad, interrupts, bare>>

Audit ==
    /\ pc = "audit"
    /\ sessions' = IF session = None THEN sessions ELSE Recorded(session)
    /\ Return(IF cap # 0 THEN cap ELSE load)
    /\ UNCHANGED <<run, group, lad, interrupts, bare>>

-----------------------------------------------------------------------------
(* Ctrl-C *)

\* Mutant of InterruptedWait: the code of the capture is kept.
WaitKeepsCode == /\ pc = "wait" /\ pc' = "poll"
                 /\ UNCHANGED <<exit, run, signal, sessions, bare>>

InterruptedWait == /\ pc = "wait" /\ cap' = 130 /\ pc' = "poll"
                   /\ UNCHANGED <<exit, load, session, raised, signal, sessions, bare>>

\* Mutant of InterruptedGrace: the interrupt propagates on a delivered TERM alone.
GraceGivesUp == pc = "grace" /\ Exit(Traceback) /\ UNCHANGED <<run, signal, sessions, bare>>

\* terminate_tree escalates before it lets the interrupt go.
InterruptedGrace ==
    /\ pc = "grace"
    /\ raised' = TRUE /\ pc' = "kill"
    /\ UNCHANGED <<exit, cap, load, session, signal, sessions, bare>>

\* In the try block, the capture may have made its session and may have been told
\* it; in the handler of a RuntimeError, the interrupt becomes the exception.
InterruptedRun ==
    /\ pc = "run" /\ cap' = 130 /\ raised' \in BOOLEAN /\ pc' = "wait"
    /\ \/ UNCHANGED <<sessions, session>>
       \/ sessions' = NewSession(pos) /\ session' \in {session, Len(sessions')}
    /\ UNCHANGED <<exit, load, signal, bare>>

\* After Popen and before the try, before the wait of the finally and after it,
\* before the wait of terminate_tree and before its SIGKILL: nothing catches it.
Bare ==
    /\ pc \in {"spawned", "wait", "poll", "grace", "kill"}
    /\ Exit(Traceback) /\ bare' = TRUE
    /\ UNCHANGED <<run, signal, sessions>>

Interrupt ==
    /\ interrupts < MaxInterrupts
    /\ interrupts' = interrupts + 1
    /\ \/ InterruptedRun \/ InterruptedWait \/ InterruptedGrace \/ Bare
       \/ /\ pc \in {"entry", "start", "reap", "attach", "audit"}
          /\ Exit(Traceback) /\ UNCHANGED <<run, signal, sessions, bare>>
    /\ UNCHANGED <<matrix, leader, cohort, manifest, lad>>

-----------------------------------------------------------------------------
(* The load generator: a shell and the bots it runs, one process group. *)

LoadDone ==
    /\ leader = Up /\ cohort = "up"
    /\ cohort' = "gone" /\ manifest' \in {"odd", "whole"}
    /\ leader' \in {0, 1}
    /\ UNCHANGED <<matrix, pc, run, exit, signal, sessions, lad, interrupts, bare>>

\* A signalled shell exits, with its document in whatever state it was.
LeaderExits ==
    /\ leader = Up /\ signal # 0
    /\ leader' = signal /\ manifest' \in {"empty", "torn", "whole"}
    /\ UNCHANGED <<matrix, pc, run, exit, cohort, signal, sessions, lad, interrupts, bare>>

BotsExit ==
    /\ cohort = "up" /\ signal # 0
    /\ cohort' = "gone"
    /\ UNCHANGED <<matrix, pc, run, exit, leader, signal, manifest, sessions, lad, interrupts, bare>>

-----------------------------------------------------------------------------
(* The scale ladder. *)

LadderSample ==
    /\ lad.pc = "sample" /\ lad.tier < Tiers
    /\ lad' = [pc |-> "capture", tier |-> lad.tier + 1, before |-> Len(sessions), own |-> None]
    /\ UNCHANGED <<matrix, pc, run, exit, group, sessions, interrupts, bare>>

LadderCapture ==
    /\ lad.pc = "capture"
    /\ \/ sessions' = NewSession(Ladder) /\ lad' = [lad EXCEPT !.pc = "attach", !.own = Len(sessions')]
       \/ lad' = [lad EXCEPT !.pc = "attach"] /\ UNCHANGED sessions
    /\ UNCHANGED <<matrix, pc, run, exit, group, interrupts, bare>>

\* Mutant of Attributed: the newest session since the sample.
Newest == IF Len(sessions) > lad.before THEN {Len(sessions)} ELSE {}

\* new_sessions, when there is exactly one.
Attributed ==
    LET fresh == {s \in Ids : s > lad.before} IN IF Cardinality(fresh) = 1 THEN fresh ELSE {}

LadderAttach ==
    /\ lad.pc = "attach"
    /\ sessions' = [s \in Ids |-> IF s \in Attributed THEN [sessions[s] EXCEPT !.workload = Ladder]
                                  ELSE sessions[s]]
    /\ lad' = [lad EXCEPT !.pc = "sample"]
    /\ UNCHANGED <<matrix, pc, run, exit, group, interrupts, bare>>

Driver ==
    \/ TakeEntry \/ Finish \/ Refuse \/ Reject \/ Spawn \/ EnterTry \/ Captured
    \/ CaptureRaises \/ Waited \/ WaitTimesOut \/ Poll \/ Graced \/ GraceTimesOut \/ Kill \/ Reap
    \/ Attach \/ Audit

Loadgen == LoadDone \/ LeaderExits \/ BotsExit

Next == Driver \/ Interrupt \/ Loadgen \/ LadderSample \/ LadderCapture \/ LadderAttach

\* Every wait of the driver is bounded; the generator owes nothing.
Spec == Init /\ [][Next]_vars /\ WF_vars(Driver)

-----------------------------------------------------------------------------
\* The matrix never goes on from an experiment, to its attach, the next entry or the
\* end, with the shell up and not sent SIGKILL: not by an exception, nor by one Ctrl-C
\* after another in the blocks that catch it. One between two of those blocks does it.
LoadgenTornDown ==
    pc \in {"entry", "attach", "audit", "exited"} /\ ~bare => leader # Up \/ signal = -9

\* When an experiment gets its result, its session holds exactly what the last
\* audit recorded, whether or not the generator left a manifest to attach.
SessionAudited ==
    [][pc = "audit" /\ results' # results /\ session # None =>
          sessions'[session].recorded = sessions'[session].workload]_vars

\* A matrix that exits 0 went through its whole plan and hides no Ctrl-C: one that
\* lands in a teardown, with the capture already good, is still in its code.
MatrixVerdict ==
    exit = 0 => pos = Entries + 1 /\ interrupts = 0

\* The ladder writes into nobody else's session as long as its own capture made
\* one, whatever else is captured in the same store meanwhile.
LadderAttribution ==
    [][lad.pc = "attach" /\ lad' # lad /\ lad.own # None =>
          \A s \in Ids : sessions'[s].workload # sessions[s].workload => s = lad.own]_vars

\* Ctrl-C never disappears from the code of the matrix, wherever it lands, and leaves
\* no generator behind unless it lands between two handlers of the teardown.
InterruptsHandled == LoadgenTornDown /\ MatrixVerdict

\* The workload of a session is that of who made it, and is under its last audit.
WorkloadAttributed == SessionAudited /\ LadderAttribution

\* Whatever the generator does, signals included, the matrix comes to an end.
MatrixEnds == <>(pc = "exited")

(* What the documentation says and the code does not do; the README has the   *)
(* counterexamples.                                                           *)

\* "Inside the try so the finally always tears the loadgen down" and "Deterministic
\* loadgen shutdown even when the capture is interrupted".
AlwaysTornDown == pc \in {"entry", "attach", "audit", "exited"} => leader # Up \/ signal = -9

\* Commentary keys "carry no runner meaning": an entry that has them runs.
CommentaryIgnored ==
    [][pc = "start" /\ plan[pos] = "commented" /\ interrupts' = interrupts => exit' = exit]_vars

\* The whole process group is stopped, not the shell alone.
CohortTornDown == pc \in {"entry", "attach", "exited"} => cohort # "up" \/ signal = -9

\* The ladder attaches its workload only to the session it created.
LadderOwns == \A s \in Ids : sessions[s].workload = Ladder => sessions[s].owner = Ladder
=============================================================================
