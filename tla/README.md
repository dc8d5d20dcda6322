# 7dtd-server-apm: verification project

`7dtd-server-apm` measures a running 7 Days to Die dedicated server. A C# mod inside
the game (the *bridge*) accumulates a measurement window and exports it as JSON; a
Python suite on the host captures evidence with collectors, finalizes it into a
*session* directory, judges and compares sessions, keeps a store of them, and audits,
exports, backs up and prunes them. This project models the parts of it whose
correctness depends on the order in which things happen (processes that share the
store without a lock, threads of the game process, failures, interrupts and kills
between two steps) and, as operators over bounded inputs, the arithmetic that turns
evidence into scores, verdicts and gates.

## 1. Inventory

| Component | State | Operations | Talks to |
|---|---|---|---|
| Session store (`session.py`, `io.py`, `capture.py`, `analysis/index.py`, `cli.py`) | session directories with their mtime, `.trash`, `index.json` | claim, finalize, list, retire (stamp, probe, rename), purge, refresh the index, restore by hand | captures, CLI prunes, the operator, through the file system only |
| Bridge telemetry (`Telemetry.cs`, `BridgeMod.cs`, `BridgeConfig.cs`, `TempFiles.cs`) | window accumulators, spike ring, deep-section metrics, export flag, `apm_app_latest.json` | frame hooks, section hooks, export, `apm reset`, `apm reload`, `apm dump` | the game's main thread, the console thread, the thread pool, the host that reads the JSON |
| Capture lifecycle (`capture.py`, `collectors.py`, `runner.py`) | collectors, perf-map link, bind mount, result records, signal handler | launch, poll, terminate, release, record, finalize | bridge, store, other captures of the same server |
| Drivers under load (`cli.py` scenario, `runner.py`, `plans/scale_ladder.py`) | the load generator's process group, the matrix plan and its results, the workload attached to a session | start, capture, tear down, attach, audit; sample, capture, attach of the ladder | captures, the store, the operator's Ctrl-C |
| Finalize and integrity (`finalize.py`, `session.py`, `bundle.py`) | a session's files, `manifest.json`, the exported archive | re-finalize, audit, verify, export, import | store, backup, the operator |
| Backup (`backup.py`) | destination directory, staging directories, `backup-index.json` | copy through a staging rename, merge the record, verify | store, captures that finalize again, other backups |
| Analysis (`analysis/report.py`, `bridge.py`, `events.py`, `catalog.py`, `finalize.py`) | the documents of a session | plan, score, adjust, diagnose, attribute, lay out the timeline | session files |
| Gates (`health.py`, `budget.py`, `compare.py`, `scaling.py`) | none | grade, gate, compare, fit | session documents |
| Web panel (`WebMod/bundle.ts`, `WebApi.cs`) | polled snapshot, freeze, history, copy notice | poll, render, freeze, change the depth, copy | bridge |
| Monitor (`cli.py`) | last sample, log and its previous generation | sample, print a delta, append, rotate | bridge, the file system |
| CLI, JIT map and build glue, host profiler, collector scripts | none that outlives a run | parsing, rendering, sampling, building | kernel, build host |

### What is hard in each part, and what makes it correct

**Session store.** Nothing locks it. Every capture, every cron prune and the operator
act on it by path, one system call at a time. Hard: two claims or two retirements that
want one name; the mtime that means "captured at" in the store and "retired at" in the
trash, rewritten between the two; a purge that looks at an entry and removes it later; a
rename that fails after the stamp; kills between stamp, rename and purge; index scans
that overlap prunes. Correct when no directory is ever lost to a name, retention removes
only the surplus and the oldest, what was retired can be brought back for the whole
grace window, what has expired does leave, and the index lists what exists.

**Bridge telemetry.** The game's main thread, the console thread and a pool thread share
one measurement window under `Gate`, but the clock is read before the lock is taken and
several steps follow after it is released. Hard: a reset between the two hooks of a
frame, a frame that throws and so skips its second hook, a reload that resizes the spike
ring, an export that is still being written when the next is due, a queue that refuses
the work item. Correct when what a window adds up belongs to frames it opened and fits
in its time, the ring shows the newest records in order, and exports neither overlap nor
put an earlier window back.

**Capture lifecycle.** One process makes two claims on the host, starts a catalog of
collectors, some of which it cannot signal, and can be interrupted anywhere. Hard: an
interrupt between taking something and noting it, a second interrupt while the first is
handled, collectors that never exit or still write while their output is hashed,
overlapping captures of one server that share a link. Correct when nothing is left on
the host, nothing is left running that could be stopped, and the manifest neither hides
an outcome nor calls data good that can still change.

**Drivers.** The load generator is a shell with bots in one process group; the teardown is
interrupt, grace, kill, and a second Ctrl-C can land in any of its waits or between two of
them. Meanwhile other captures make sessions in the same store. Correct when no experiment is
left with its generator only asked to stop, the matrix neither hides an interrupt nor skips an
entry in silence, and a workload is written into the session it was run for.

**Integrity.** Two passes read the same files, and files change between them; an import can
be cut off half way through. Correct when an audit never absorbs drift that was there before it
began, an archive describes the bytes it holds, what an import left in part does not pass for a
session, and an import is called INVALID exactly when its archive was damaged.

**Backup.** There is no lock at either end: a run trusts a fingerprint it wrote earlier, removes
an old copy (perhaps not all of it) before the new one has its name, and merges into a record it
read at its start, if it could. Correct when no recorded session is ever nowhere, and a clean run
leaves what it counted.

**Analysis and gates.** Scores are adjusted after they were sorted, torn input drops blocks
half way, stages of finalize fail one by one and leave documents of an earlier run behind,
counters are scaled and nested. Correct when what was not measured is neither scored nor
graded nor passed, nothing is counted twice, and the documents agree with each other.

**Panel and monitor.** Polls fail, the server is reset, clicks fall between polls, files
cannot be read or renamed. Correct when the history holds each sample once and in order,
the panel comes back by itself, and the monitor's deltas and log account for every sample.

## 2. Plan

| # | Module | State |
|---|---|---|
| 1 | `SessionStore`: the store as all processes see it | done; every safety property is a theorem |
| 2 | `EvidenceLifecycle`, `SessionStoreRefinement`: what the store promises about a piece of evidence, and the store shown to implement it | done, checked and proved |
| 3 | `Telemetry`: window, ring, export | done; every property is a theorem |
| 4 | `Capture`: claims, collectors, interrupts, records | done; every safety property is a theorem |
| 5 | `Integrity`: manifest, audit, re-finalize, export and import of bundles | done; every property is a theorem |
| 6 | `Backup`: a mirror of a store that is finalized and pruned meanwhile | done; every property is a theorem |
| 7 | `Drivers`: scenario runs, the matrix, the scale ladder | done; every safety property is a theorem |
| 8 | `Live`: the web panel and the monitor | done; every safety property is a theorem |
| 9 | `Summary`, `Timeline`, `Gates`: the operators of the analysis; `Analysis`: the stages of finalize and the commands over them | done; every property is a theorem |

What could still be added: the audit's and the import's mtime bumps and the `.scenario`
sweep in `SessionStore`; a changing rate and the sections of worker threads in `Telemetry`;
the symbol and allocation rankings in `Summary`; theorems for captures that overlap a prune,
of which `IndexExact` and `NewestKept` say nothing.

## 3. Modules and the code

`MC<module>` extends a module and gives its constants values that a `.cfg` cannot write.
`map` in `PROJECT.json` has the lines behind every definition. A module that has properties
a document promises and the code does not keep has them at its end, apart from the others.

### SessionStore

Variables: `where`, `name`, `mtime` and `summary` are the directories (a directory has an
identity, since a path can come to name a second one), `index` is `index.json`, `proc`
the locals of each process. `written` and `retiredAt` are history, read by properties
only.

| Actions | Code |
|---|---|
| `StartCapture`, `Claim`, `Finalize` | `run_capture`, `claim_dir`; every later write lands at the claimed path, which `atomic_text` makes again if a prune has moved it away |
| `List` | `list_sessions`, `sessions_beyond_budget` with `--keep` and `--max-gb`, up to the trash `mkdir` |
| `Stamp`, `Probe`, `Move`, `Collide`, `Retry`, `GiveUp`, `AlreadyGone` | `_move_into_trash`, one action per system call and per outcome |
| `Erase` | the hard delete with grace 0 |
| `Sweep`, `Skip`, `Expire`, `Unlink`, `UnlinkNothing` | `purge_expired_trash` and `_expired` |
| `Scan`, `Publish` | `write_index`; after a capture's own refresh `Publish` leads to its auto-prune |
| `Restore`, `Crash`, `Tick` | the runbook's `mv`, a kill, time |

Abstractions. A listing, a probe for a free name and the suffix loop of a claim are one
step each; a claim's `mkdir` is atomic by itself, so the loop before it only skips. An
`rmtree` is one step. The clock is coarse: a capture finalizes later than its stamp.
Directories are interchangeable until made, so `Unused` takes one. Not in the model: the
mtime bumps of audits and collectors before the finalize, bundle import, the `.scenario`
sweep, a finalize that fails or is interrupted, a failing write of the index.

`EvidenceLifecycle` has neither names nor processes: evidence is kept, marked, retired
only as surplus, recovered, and destroyed only when the window since its mark is over.
`SessionStoreRefinement` maps `where`, `retiredAt` and `clock` to it.

### Telemetry

Each `lock (Gate)` body is one action, and so is each read of the clock before a lock
and each interlocked operation.

| Actions | Code |
|---|---|
| `FramePrefix`, `BeginFrame` | Harmony prefix: timestamp, then `BeginFrame` under `Gate` |
| `FramePostfix`, `EndFrame`, `AddSpike`, `QueueLatest` | the postfix and what follows the lock |
| `FrameThrows` | `gmUpdate` throws: Harmony runs no postfix |
| `TakeSnapshot`, `Swap`, `ExportFails`, `Release` | `RunExport` on a pool thread |
| `SectionPrefix`, `SectionPostfix`, `SectionThrows` | `ShouldSample` and `Record` of the deep sections, which nest up to `MaxDepth` calls and share one sequence; a call that throws, or that `Record` drops as too long |
| `Reset`, `Reload`, `TakeDump`, `SwapDump` | the console |

`id`, `origin`, `begun`, `ticks`, `recorded` and, of `deep`, all but `calls`, `sequence` and
the open calls are history. The calls of all sections are one count, as the sequence that
decides which of them are timed is one (`_sampleSequence`); those of the outermost section are
counted beside it, for `SectionCallsScale`. The sections are those of the main thread: calls of
worker threads draw from the same sequence. Settings differ in the ring's size only within a
run (`OneRate`): the code scales all calls of a window with the rate of the moment. Left out:
world samples, API timing, the GC window, map transfers, percentiles, dump names and their
pruning, the benchmark, the JIT map.

### Capture

`cap[c]` holds the locals of one `run_capture`; its `pc` names the next step. The
captures are of one server process, so they share `link`.

| Actions | Code |
|---|---|
| `Start` | claim, `meta.json`, sudo probe, signal handler |
| `PlaceLink`, `KeepLink`, `NoMap` | `_export_jitmap`: the link is swapped, the symbols are counted, and only then is the pair assigned |
| `Mount`, `KeepMount`, `NoMount` | `_bind_mono` and its assignment |
| `PassOver`, `Spawn`, `Track`, `Launched` | `_launch_collectors`; `Popen` and `running.append` are two steps |
| `Finished`, `Deadline`, `Reap`, `Reaped` | the poll loop, `_terminate` |
| `Unmount`, `CheckLink`, `Unlink` | the `finally`; the link is read and removed in two steps |
| `Observe`, `Classify`, `Classified`, `Finalize` | `meta.json` again, the records, the manifest |
| `Interrupt` | `KeyboardInterrupt` in the inner `try`, in the outer one, or later |
| `Write`, `Exit` | the collectors |

Left out: the telnet reset, streams, a record that cannot be written, the ingest of the
bridge's document, the flame build, the stages of finalize before the manifest (they are in
`Analysis`), SIGKILL of the capture, children that no signal ends. A mount happens exactly
when `mount` says so. The app collector's "every scrape failed" is allowed for any
unprivileged collector. What `--only` asks for is any subset of the catalog.

### Drivers

One `scenario matrix` (`plan`, `pos`, `results`, `exit`) whose entries are run by
`scenario_run` (`cap`, `load`, `session`, `raised` are its locals), the generator's group
(`leader` is the shell, `cohort` the bots), the store as a sequence of sessions, and one
scale ladder beside it. `run_capture` is one step here: it returns a code and makes a
session or none.

| Actions | Code |
|---|---|
| `TakeEntry`, `Finish` | the loop of `scenario_matrix`: each entry is checked when its turn comes; the exit code is of all results |
| `Refuse`, `Reject` | what `scenario_run` refuses with a code before anything starts, and what leaves it as an exception the matrix does not catch: a usage error, an unknown keyword, an `OSError` of the claim |
| `Spawn`, `EnterTry`, `Captured`, `CaptureRaises` | `Popen` of the generator in a group of its own, the `try` that begins after it, `run_capture` |
| `Waited`, `WaitTimesOut`, `Poll` | the wait for a generator that ends by itself, `poll` before the teardown |
| `Graced`, `GraceTimesOut`, `Kill`, `Reap` | `terminate_tree`: SIGTERM, grace, SIGKILL, the bounded reap |
| `Attach`, `Audit` | the copy of the loadgen manifest into the session (an object whose `workload` is none raises) and the audit after it |
| `Interrupt` | Ctrl-C: `InterruptedRun`, `InterruptedWait` and `InterruptedGrace` in the blocks that catch it; `Bare` between them (after `Popen` and before the `try`, around the wait of the `finally`, before the wait of `terminate_tree` and before its SIGKILL), where nothing does; elsewhere it ends the matrix |
| `LoadDone`, `LeaderExits`, `BotsExit` | the generator |
| `LadderSample`, `LadderCapture`, `LadderAttach` | `scale_ladder.py`: the sessions before, the capture, the newest of those that were not there before |

### Integrity

`files` and `manifest` of two directories (the session and the place a bundle is restored
to), the audit, export and import under way, the archive at the output path. A file's bytes
are a content and whether the scrubbing of an export has been applied to it.

| Actions | Code |
|---|---|
| `AuditStart`, `AuditVerify`, `AuditWalk`, `AuditWrite`, `AuditCut` | `audit_session`: `verify_recorded_hashes`, the walk that hashes, the stamp; what it found tampered keeps its recorded hashes; Ctrl-C or a kill in it leaves the manifest as it was |
| `Finalize` | `finalize` writes a document again and stamps what it wrote |
| `ExportStart`, `ExportMember`, `ExportPublish`, `ExportFail` | `export_bundle`: one member at a time into a temporary archive, its manifest, the rename; a text that cannot be opened as one is stored raw (`Stored`) |
| `ImportStart`, `ExtractMember`, `Extracted` | `import_bundle`: extraction, the audit of what arrived |
| `ImportFail`, `ImportCut` | an error the handler names, which removes what was extracted; and what leaves it in the store (`stranded`): Ctrl-C, a kill, any other error, or a removal that fails in part |
| `Alter`, `LoseManifest`, `DamageMember` | a rotting disk, an operator's edit, an archive damaged on its way |

A stranded directory is one that its owner can audit by hand (`adopted`), as any other in the
store. `drift` is history: the recorded files changed from outside. Member names and size limits
are settled before any state changes and are left out.

### Backup

`source` and `archive` hold each entry's artifacts and manifest as two versions, so a copy
can be torn; `record` is `backup-index.json`. A run has its locals in `pc`, `memo` (the
record as read), `todo`, `at`, `print`, `staging` and `taken`.

| Actions | Code |
|---|---|
| `Rewrite`, `Stamp`, `Prune` | a capture finalizes a session again (artifacts, then the manifest); retention retires it |
| `Begin` | `backup_store` reads the record, as empty when it cannot be read or parsed (`ReadRecord`), and lists the store |
| `Skip`, `Unchanged`, `Fetch` | a session that is gone or has no manifest, one whose recorded fingerprint matches, an entry to copy |
| `CopyFile`, `CopyFails`, `Remove`, `Replace`, `Clash` | `_replace_tree`: into staging, an `rmtree` of the old copy that may leave a part of it (`Halves`), the rename, which refuses a directory that is not empty |
| `WriteRecord`, `Verify` | the merged record, the verdict over the whole destination |
| `Kill`, `CutRemoval`, `Interrupt` | SIGKILL or a power cut anywhere, also half way through an `rmtree`; SIGINT inside the `try` of `_replace_tree`, whose handler drops the staging directory |

`overlapped` and `exposed` are history: whether two runs were ever under way at once, and the
sessions whose staged copy a handler dropped when the archive had no other whole one.

### Live

The panel (`pan`) and the monitor (`mon`, `log`, `previous`) watch one `server`.

| Actions | Code |
|---|---|
| `Publish` | the bridge's next sample, or one after `apm reset` |
| `Ask`, `Answer`, `Fail` | `useQuery` and `WebApi`: an answer is rendered and pushed into the history; a lost session (401, 403) pauses the polling, a failed snapshot does not |
| `ToggleFreeze`, `ChangeDepth`, `Copy`, `CopyTimer` | the buttons |
| `Sample`, `Record`, `Done`, `Stop` | the loop of `monitor`: read the file or not, print the delta, `_append_rotating` with an `unlink` and a rename that can fail, `--count`, Ctrl-C, also between that `unlink` and the rename |

### Summary, Timeline, Gates, Analysis

The first three have no state. `Summary` goes from a record of what the probes say to the
summary: `Planned` and `PlannedLayers` (`collectors.py`, `models.py`), a score operator per
layer, `HasEvidence`, the four adjustments after scoring (`MainThreadPressure`,
`GcPressure`, `LateTickPressure`, `TrendPressure`), `Diagnosis`, the attribution (`Total`,
`Exclusive`, `Attribution`) and the rules of the catalog. `Timeline` has the parsers of
`events.py`, the bound per source as the binary heap that `heapq` keeps in an array
(`Climb`, `Sink`, `Kept`), the bound of the document and the stall report. `Gates` has the
grade (`HealthOf`), the budget (`Checks`, `Passes`), the comparison with all its refusals
(`Rejection`, `Comparison`) and the scaling fit (`Slope`, `Classify`, `ScalingOf`).

| Actions of `Analysis` | Code |
|---|---|
| `Begin`, `RunStage`, `StageRaises` | `finalize.py`: the stages in their order, each in its own `try`; one that raises leaves the document of an earlier run |
| `Arrive` | an artifact that a collector which outlived its capture, or an operator, leaves after the finalize |
| `BudgetCommand`, `Compare`, `Scaling` | the commands over the documents there are |

Abstractions: a probe's output is what the regular expressions of its scorer find in it;
shares are thousandths, severities hundredths, and the thresholds are those of the code in
these units. The loads and costs of a ladder are powers of two, so that a logarithm is a
number that TLC has. Six of the eleven rules are there: the three with a gate and three
others.

Coarser than the code, by choice: the tie band of the comparison, ±0.01, is equality of whole
numbers; the attribution takes a snapshot whole or not at all, where the code still attributes
from the good blocks of one that has a bad block (`report.py:1381-1420`); the severity of a lock
cause is in hundredths; section heats are those of the ingested snapshot, without the lines of
`bridge.jsonl`, other documents of the app, and the cut to the fifteen hottest; a rule's matches
by method suffix count as matches of its section.

## 4. Runs

Each passing run fires what its configuration allows; together they fire every action.
Every property of a passing run has a mutant, a plausible bug of the code that TLC finds
with the same configuration. The type invariants are not among the runs' properties: they
are theorems (section 5).

| Run | Shows | Bounds, and why they are enough |
|---|---|---|
| `store_overlap` | `DistinctPaths`, `VerdictSound`, `RetirementEnds`, `ExpiredLeavesTrash`: no name ever carries two directories, no purge takes an entry for expired before its time, every rename loop ends, and what has expired leaves the trash | a prune that never stops and a capture that auto-prunes over two sessions of one second: the twin names make claim suffix and trash suffix collide; `MaxTries = 2` reaches the give-up that needs 16 collisions in the code; three suffixes are one more than the directories can use |
| `store_one_pruner` | `GraceHonoured`, `RetentionFloor`, `ImplementsLifecycle` | one prune at a time, two captures, crashes, failing renames, restores; a clock of three values covers before, at and after the window |
| `store_sequential` | `IndexExact`, `NewestKept`, with stamps that fail | one capture after another, until the clock ends; each capture prunes what the one before left |
| `store_budget` | `BudgetMet` | two hard-deleting prunes over four sessions of sizes 3, 2, 1, 1 against keep 3 and limit 3: the size budget bites after the count did |
| `telemetry` | `WindowConsistent`, `RingShowsNewest`, `DeepCallsScale`, `SingleFlight`, `LatestAdvances` | three frames give an interval, its neighbour and one after a reset; ring sizes 1 and 2 wrap and resize; one call in two is timed, and two calls, nested or one after the other, share the sequence across a reset and an exception; two pool threads and a dump, so that an export can be overtaken by a later window |
| `capture_window` | `NothingStranded`, `NoOrphans`, `DriftDeclared`, `RecordComplete`, `WindowsClose` | two unprivileged collectors (one can be launched before the other is), one root collector that needs the mount, two writes each (one before and one after the hash), two interrupts (one while the other is handled) |
| `drivers` | `InterruptsHandled`, `WorkloadAttributed`, `MatrixEnds` | a plan of two entries of every kind (the second shows what the first left behind), two Ctrl-C at any step (one inside or just after the block that catches the other), one ladder tier beside them |
| `integrity` | `DriftStaysVisible`, `BundleSound`, `ImportVerdict` | one file of each kind the export treats differently by content (a document, a text) and one that it leaves out; contents are torn or whole, scrubbed or not; two changes from outside: one before an audit and one inside it |
| `backup_runs` | `EvidenceHeld`, `RecordTrusted`, `CleanRunMeansHeld` | two runs, apart or overlapping, each of which can read the record or not and remove an old copy whole or in part; two sessions and one extra, each session finalized once more; a third finalize only repeats the second |
| `live` | `HistoryInOrder`, `PanelRecovers`, `MonitorAccounts` | three samples, depths 1 and 2 (one push too many and a trim), two failures, two clicks; a log of two units, so that three records rotate it |
| `analysis` | `ScoresFollowEvidence`, `WorstComesFirst`, `AttributionSound`, `TimelineFaithful`, `GatesNeedEvidence`, `CleanFinalizeIsCurrent`, `CompareSound`, `PowerLawRecovered` | some fifty sessions (a calm one, one pathology at a time, combinations in which one kind of evidence speaks of another, floods of events), each finalized twice with one failing stage and late artifacts; a bound of 3 events per source and of 5 in the document, so that both bite |
| `store_prune_race` | expected violation of `RetentionFloor` | two sessions, two prunes, keep 1 |

`capture_window` has one capture; captures meet only at the link, and the theorem
`ClaimsReleased` says for any number of them what the run says for one.

Some properties hold under conditions, which the configuration or the property states:

- `GraceHonoured`, `RetentionFloor` and `ImplementsLifecycle`: one prune at a time and
  stamps that take (`RetentionFloor` needs only the first).
- `IndexExact` and `NewestKept`: one process at a time (`Serial`), no crash and no restore by
  hand; `NewestKept` also without failing renames and without a size budget, which leaves
  fewer than `Keep` by design.
- `BudgetMet`: no capture (one may be finalizing beside the prune and is not counted), no
  failing rename and no restore; prunes may overlap if they delete at once.
- `LatestAdvances`: the time before the first console dump; `DeepCallsScale`: one sampling
  rate (`OneRate`; `RateFixed` in the proof), and all sections together, since nothing of the
  kind holds of one of them (`SectionCallsScale`).
- `LoadgenTornDown`, in `InterruptsHandled`: no Ctrl-C between two handlers (`bare`).
- `NoPartialImport`, in `BundleSound`: a directory an import was cut off in stays and is not
  called ok, until somebody audits it.
- `GatesNeedEvidence`: layers; what the budget skips is in the next list.
- the `Capture` properties: interrupts outside the gaps between taking and noting
  (`InWindow`; `NoGaps` in the proofs).
- `RecordTrusted` and `CleanRunMeansHeld`: until two backup runs first overlap; a run that could
  not read the record may drop the sessions the store has pruned from it, and no other.
  `EvidenceHeld`: entries whose staged copy no handler dropped after the removal of the old one
  began (`exposed`); kills may come anywhere.
- `DriftStaysVisible`: drift from before the audit began, or from after it.

What happens without those conditions is in the next two lists.

### Disagreements between code and documentation

`store_prune_race`, the one run that expects a violation: the grace stamp makes a doomed
session the newest until it is renamed (`session.py:357`). A second prune that lists in
between dooms one the first prune keeps; together they leave less than `--keep`.

The others below were met while modelling. For those with a property or a constant in
parentheses, that property (at the end of its module) or that value of the constant gives a
counterexample in TLC; the rest were read in the code.

- The index scan of a finalizing capture overlaps a prune; the older scan is published last
  and lists the retired session, against `docs/APM.md:202` (`analysis/index.py:186`;
  `IndexExact` with a capture and a prune).
- A snapshot between the two hooks of a frame sees k intervals and k-1 frames; the mean it
  reports exceeds its maximum, although a comment says that `Snapshot()` never observes a
  half-updated frame (`Telemetry.cs:242` and `:234`; `MeanWithinMax`).
- An interrupt after the link was swapped (the symbol count reads the whole map in that gap)
  or after the mount, and before the assignment, leaves the claim on the host, against the
  comment at `capture.py:760` (`capture.py:785`; `NothingStranded` with `WhileAcquiring`).
- `_remove_perf_map_link` reads the link and then unlinks (`capture.py:538`): a capture that
  swaps it in between loses its own, against the docstring above. Two captures that fell back
  to the bridge's own file have one target, so the first to end takes the link of the other
  even without a race; and a capture that ends removes the link an earlier one had placed and
  lost to it, which that one's `perf` still reads.
- `_replace_tree` says of the window between removing the old copy and renaming the new one
  that "losing it there costs a rerun, not evidence" (`backup.py:104`). Its handler removes
  the staging directory too (`backup.py:115`), so a Ctrl-C in that window, or a rename refused
  by what the removal left, after the store has pruned the session, leaves it nowhere
  (`NothingExposed`).
- A record that cannot be read or parsed reads as an empty one (`backup.py:91-96`), which "only
  costs the incremental skip" (`backup.py:88-96`). The run then writes what it backed up itself:
  the sessions that the store has pruned are no longer in the record, which "is merged forward"
  (`backup.py:22-24`). Their copies stay in the archive (`RecordMergedForward`: a prune, a run
  that cannot read the record, its `WriteRecord`).
- `scenario_run` promises a "deterministic loadgen shutdown even when the capture is interrupted"
  (`cli.py:1207`). A Ctrl-C after `Popen` and before the `try`, or a second one between the wait
  of the `finally` and `terminate_tree` (`cli.py:1217-1222`), leaves the generator running and
  never signalled (`AlwaysTornDown`).
- A "torn or non-object write must not crash the attach" (`cli.py:1225`), and such documents are
  reported; but an object whose `workload` is no object raises in it (`cli.py:1282`), which ends
  the matrix.
- "A mid-extract failure must not strand a partial session" (`bundle.py:394-396`), but only five
  kinds of error are caught (`bundle.py:386-406`): Ctrl-C, a kill or an `EOFError` leaves the
  partial directory in the store (`NeverStranded`). It has no manifest, or a torn one, so
  `verify-store` does not call it ok; an `audit` by hand, which stamps what it finds when nothing
  is recorded, can.
- A file whose text cannot be read is copied raw, since "the raw copy hits the same wall"
  (`bundle.py:324-326`) and fails as well: unless what kept it from being opened has passed, and
  then it leaves the host without having been scrubbed (`RawNeverStored`).
- "Sampled 1-in-DeepSampleRate: calls and totalMs are the raw sampled totals, and the host scales
  them" (`Telemetry.cs:66-69`), section by section. All sections share `_sampleSequence`
  (`Telemetry.cs:104`, `:193`), and they nest: when the number of calls per frame and the rate
  have a common factor, it is always the same sections whose calls are timed. The outer one of
  two nested sections is never timed at a rate of 2 (`SectionCallsScale` with `MaxCalls = 4`,
  `MaxFrames = 1`). What holds is the sum over all sections, `DeepCallsScale`.
- A plan entry's `_`-prefixed keys "carry no runner meaning" (`cli.py:1385`), and the plans in
  the repository use them (`plans/profile.canonical.json:4`); `scenario_matrix` hands them to
  `scenario_run` as keywords (`cli.py:1412`), which ends the matrix with a traceback
  (`CommentaryIgnored`).
- `terminate_tree` exists to stop the process group; it waits for the shell only. When the
  shell ends on the first signal within the grace, bots that ignore it are not killed
  (`runner.py:71`; `CohortTornDown`).
- The scale ladder attaches its workload to the only session that appeared while it captured,
  which "names exactly the session it created" (`scale_ladder.py:129`): when its own capture
  makes none and a scheduled one makes one, that one is annotated (`scale_ladder.py:193`;
  `LadderOwns`).
- A session without a bridge snapshot is given the verdict that the server met its tick
  deadline (`report.py:1129`), against "Missing evidence is reported as unavailable; it is
  never scored as a healthy zero" (`README.md:191`; `VerdictNeedsEvidence`).
- The bound per source keeps the earlier of two equally severe events, where the comment at
  `events.py:321` wants the latest first (`events.py:75`; `RecencyBreaksTie`).
- `check_budget` skips a section for which there is no heat, and rates that are absent, though
  "missing evidence is UNKNOWN and fails the gate" (`budget.py:3`).
- The "observed window recorded at capture end wins whenever it is shorter" (`models.py:321`),
  but an observed length of 0 counts as none (`models.py:327`). A capture that is interrupted
  within a twentieth of a second records 0.0 (`capture.py:834`), and its rates are then those
  of the whole window it asked for; a test has the code's reading (`test_core.py:4323`). The
  proof of `CompareSound` failed at this case (`ObservedWins`).
- `--only perf` plans the perf collector, but the layer it feeds is reported as `skipped`,
  although one table is to keep planning and scoring from "disagreeing about what an --only
  token means" (`models.py:270`, `report.py:507`).
- A `memory_growth` cause found by its file descriptors can have a negative severity when the
  resident set shrinks (`report.py:1002`); the exporter declares it 0-1 (`prometheus.py:121`).
- Auto-prune "never prunes the just-created session (it is the newest)" (`capture.py:894`):
  with overlapping captures it need not be the newest when the store is listed.

### Counterexamples found while modelling

- A rename that fails, or a kill before it, leaves the fresh stamp on a session that stays;
  it then outranks newer ones (`session.py:362`; `NewestKept` with `MoveFails`).
- A session whose stamp fails but whose rename succeeds enters the trash with its capture
  date, and the purge of the same pass destroys it (`session.py:360`; `GraceHonoured` with
  `StampFails`).
- Between a purge's look and its `rmtree` an operator can restore the entry and another
  prune retire it again under the same name: it is destroyed with a fresh grace clock
  (`session.py:433`; `GraceHonoured` with `Restores` and two prunes).
- With a grace of 0 the auto-prune of a capture that a scenario started unlinks that
  scenario's load generator files (`session.py:478`).
- An audit verifies the recorded hashes and hashes the files again for the manifest it
  writes (`session.py:663`): a change between the two is stamped as the new baseline.
- An interrupt between `Popen` and `running.append` leaves a collector that nobody stops and
  no record mentions (`capture.py:969`). The `umount` of the release has a timeout that cannot
  be enforced against a `sudo` that runs as root (`capture.py:230`).
- Two backup runs that overlap each merge into the record they read at their start, so the
  later one takes entries back (`backup.py:199`).
- A dump publishes outside the single-flight flag, so an export that took its snapshot before
  it can swap after it (`Telemetry.cs:585`); an export in flight across a reset publishes the
  old window's totals after it (`Telemetry.cs:549`); a spike whose frame closed before a reset
  is recorded after it (`Telemetry.cs:288`); calls sampled at one rate are scaled by another
  when a reload changes it (`Telemetry.cs:194`).
- A matrix goes on with its next entry after an interrupted one, and counts code 1 as a
  success, also when it means that the store could not be written. It checks its entries as
  their turn comes, so a typing error in the last one is found after hours (`cli.py:1394`).
- The bridge and budget stages are not required ones: a run that is reported clean can leave
  their documents of an earlier run. `CleanFinalizeIsCurrent` speaks of the required ones.
- A torn snapshot makes `app_sim` a collected layer with a score of 0.

### Fairness

`FairSpec` of `SessionStore`: weak fairness of each process's next step and of time, since
nothing in these loops waits for another process; for `Pruners` that includes starting the
next prune, which cron does. Nothing is assumed of captures starting, of the operator or of
crashes. `FairSpec` of `Capture`: weak fairness of a capture that has begun, since every
wait in it has a timeout; collectors may never exit. (The `umount` calls are taken to end.)
`Drivers`: weak fairness of the driver, whose every wait is bounded; the generator owes
nothing and may ignore any signal but SIGKILL, which it may also outlive. `Live`: weak
fairness of asking and of the answer, a browser's timer and a request that is answered or
fails; nothing is assumed of how often it fails or of the monitor. `Telemetry`, `Integrity`,
`Backup` and `Analysis` state safety only.

## 5. Proofs

Each theorem holds for all values of the constants that the module's assumptions admit.
`TypeCorrect` is proved of every module with actions; in `Analysis` the types are a part of
`DocsInv`. Of the properties that the passing runs check, all are theorems but the five
liveness properties.

The assumptions on constants are what the code's types give: numbers where it has numbers, sets
that are finite. Those of `Analysis` are the longest: each evidence is `WellFormed`
(`EvidenceAssumption`: what a probe's regular expressions can yield), a budget bounds a layer by
an integer, by null or by something else that is none (`BudgetAssumption`), a ladder is a
sequence of loads and costs, each of which may be missing (`LadderAssumption`), and what stands
for an absent value is no value (`AbsenceAssumption`).

**SessionStoreProofs.** `TypeCorrect` needs, beside `TypeOK`, that a process in a loop has
something to visit, since the code takes the head of its list (`TypeInv`). `PathsDistinct`
follows from it: a claim takes a free name and a rename lands on a free one, and the free
name is re-checked by the rename itself. `VerdictsSound` (for working stamps and no restores)
rests on `GraceBase`: a retired session's mtime is at least its retirement (`Stamped`: the
stamp precedes the rename) and a purge's cutoff leaves the whole window (`CutoffFits`: the
clock only advances). `GraceKept` (for one prune at a time and working stamps) adds that
captures never purge and that what lies at the path about to be removed has expired; that
part needs `DistinctPaths`. `RetentionKept` (for one prune at a time and no size budget)
counts: while the prune retires, the store holds `Keep` sessions and as many more as it has
still to visit (`Floor`). That is what the listing establishes, what captures and restores
can only raise, and what each retirement lowers by one on both sides. `Implements` puts the
two together: a `Stamp` is a `Mark`, a `Move` or an `Erase` a `Retire` or a `Discard` of
surplus, an `Unlink` a `Destroy` after the window, and everything else a stutter, a capture,
a recovery or the clock.

`IndexRight` (for `Serial`, without crashes and restores, whatever stamps and renames fail)
needs to know of every process why the index may be out of date at the moment: `Settled` says
that it equals what is listed, or that the one process under way has changed the store and its
refresh is still to come; `RowsRead` that a scan not yet published is of the store as it is;
`FlagDown` that a process at rest has nothing to report. Without `Serial` a scan can be published
late (section 4); a crash between the rename and the refresh leaves the index behind as well.
`NewestStay` (`Serial`, no failing rename, no size budget, an auto-prune that keeps no fewer than
the prune) has `NewestInv`: the directory that is being retired is the only one whose mtime is
not the date of its evidence (`Dated`), so a listing that starts while nothing is being retired
orders by evidence; from it on, `Keep` sessions that are not doomed are more recent than
every doomed one (`Surpassed`, `Beside`). `BudgetKept` (without captures, restores
and failing renames, with `Grace = 0` or `Serial`) has `BudgetInv`: what a
prune has not still to visit fits its limits (`Fitting`), so that when it has visited everything
(`Visited`), the store does. That a prefix of the listing fits the size limit comes from the sums
of the listing, `Bytes`, which are folds over finite sets.

**TelemetryProofs.** `Timely` types the sums and orders the timestamps: what the main thread
read is no older than what it will be subtracted from, also across a reset (`Timestamps`).
On it rest `Counting` and `Sums`, which strengthens `TotalsFitWindow` by the frame in
progress: the total so far ends no later than its start; together they give
`WindowsConsistent`. `Flight` says that the flag and the one busy thread agree and that
whatever a flight or `latest` holds is of a window no later than the present one, `latest`
behind the flight (`OneFlight`, `LatestMonotone`). `RingShows`: counted back from the write
position, slot by slot and modulo the size, the ring holds the newest records (`Holds`); a
push moves every one of them one place back and drops at most the oldest, a resize or a reset
starts over with the history. `DeepCallsScaled` (for one sampling rate, any number of sections
and any depth) follows from `SampledNow`: the calls timed since the window began, those that
threw and those still open included, times the rate, are the calls begun in it up to the
remainder of the sequence number, one period, and one more for each call that was open at the
reset (`Sampled`). A call takes the next number, a return only moves a timed call from the open
ones to the recorded or the thrown, and a frame that throws does so with all its open calls.

**CaptureProofs.** `TypeCorrect` needs that a collector in hand is in `current`. `NoGaps` is the
condition of all the others: no interrupt between taking and noting, nor in the `finally`.
`ClaimsReleased` strengthens `NothingStranded` to `ClaimsInv`: while a capture is past neither
its claim nor its release, what it holds is noted (`ClaimInv`), and a link that exists is the
target of a capture whose `finally` is not over (`Owned`), since a release that finds another
target leaves the link to the capture that placed it. `CollectorsStopped` uses `StopsInv`: a live
collector is in hand, during `_terminate` every live one that can be signalled is still to be
visited, and none is left after it unless an exception is on its way out. `DriftIsDeclared` and
`RecordsComplete` (which joins `AllOutcomesRecorded` and `TruncationIsRecorded`) follow from one
invariant of five parts: what has written is in hand (`Traced`); a window that passed uncut has
visited the whole catalog (`Visited`); the recording loop leaves a verdict for each collector it
has visited, a suspect one if it lives (`Recorded`); `meta.json` tells the window before anything
is hashed (`Noticed`); and what the manifest says stays true of the capture (`Sealed`), since
afterwards only live collectors act, and each of those is in hand (`StopsInv`) and already called
suspect.

**DriversProofs.** `TearDown` says that outside the capture of an entry (before it, while it
attaches, while it is audited, after the exit) the shell is up only if -9 has been sent to its
group or a Ctrl-C fell between two handlers, after which the matrix is over; and that the reap is
reached with -9 sent, which is not so yet where the grace has run out (`GeneratorTornDown`).
`Verdicts` ties the results to the interrupts: each interrupt so far is in a code other than 0
and 1, in the code under way, in an exception under way, or in the exit (`Told`); with it
`InterruptsAccounted`. `WorkloadsAttributed` needs `OwnIsFresh`: the session a ladder's capture
made is newer than the sample, so that of several fresh ones it is one, and a single fresh one is
it.

**IntegrityProofs.** `DriftVisible`: every drifted file is one the manifest shows (it is lost, or
differs), none is in the restored directory before the import is done, and while an audit is
going to stamp, nothing in its directory has drifted (`DriftInv`). `BundlesSound`: the members an
export has stored and the manifest it keeps of them agree at every step (`Describes`), and each is
of a shape that may leave the host: scrubbed, or a text listed as copied raw (`StoredShape`).
`Restoring`: an import that was refused left no files, one that is done left a manifest, and one
that was cut off left none or a torn one, which no audit under way in that directory can replace,
since an audit of it ends its being stranded. The proof has links and files without
a text beside the three kinds of the run. `ImportsJudged`: an archive
differs from its manifest exactly when it was damaged (`Faithful`), an extraction copies it, and
the audit after it compares just that.

**BackupProofs.** `EvidenceAlwaysHeld` (for any number of overlapping, interrupted and killed
runs): a run that removes or replaces has its staging whole (`StagedFirst`), and a session that
some record, on disk or in a run's memory, names, or of
which the archive has any part, is whole in the archive or staged, or it is one that a handler
exposed (`KnownSafe`); a kill leaves the staging where it is. `RecordsTrusted` and
`CleanRunsHold` rest on `TrustInv`: a store's manifest is no newer than its artifacts
(`Ordered`), and as long as runs did not overlap, one runs at a time (`Alone`), a recorded
fingerprint is no newer than the store and no newer than the copy (`Trusted`), and the same
holds of what the run under way has read, copied and counted (`Own`). A run that read nothing has
still to visit, or has counted, each recorded session that is in the store (`Took`), which is why
it can drop only those that are not.

**LiveProofs.** `PanelInv` strengthens `HistoryInOrder` by what a push and a trim need: the last
sample taken is the largest of the history and no newer than what was polled, which is no newer
than what the server has published. `FreezesHold` is an action property on top of it (a freeze
keeps the very snapshot it was clicked on). `CountsInv` and `LogInv` give the first two thirds of
`SamplesAccounted`: the printed deltas telescope to the difference of the last and the first
count, and the two files number their records without a gap up to the last sample. The third is
the cap of the log: `Size`, a recursive function over a sequence, exists and grows by what is
appended (`SumsExist`, `SizeGrows`), and a rotation comes before the append that would pass it.

**AnalysisProofs.** Half of the module is about operators, since most of what the analysis
promises is arithmetic. Three groups of lemmas carry the rest.

- *Folds.* A fold over a finite set, with a choice of the element to take next, exists and is
  unique (`FoldsExist`): by `WFMin` of the library, on the subsets that fail. With it come the
  sums (`SumOf`, which splits, compares and is positive as a sum is), the maxima and minima, and
  the listings: `Listed` enumerates its indices in the given order, so `Sifted` keeps order and
  members, and `Ranked` is a stable sort that does not rise (`RankedSays`, `RankedFalls`).
- *Ranges.* Each score operator stays within 0 to 100, term by term, through the four adjustments
  and the rounding; a share is rounded down, so that the whole falls short by less than one
  thousandth per bucket (`WholeShares`); each cause has a severity of at most 100.
- *The heap.* `Climb` and `Sink` are iterations, of which each step keeps the members, their
  distinct numbers and the order everywhere but at one place, one level further up or down, and
  which end when there is no such place. So the root is least, and `Kept` drops the least severe
  (`KeepsWorst`). `SinkAccounts` is the induction over the events of a session: each is in the heap
  of its source, or the heap is full of ones at least as severe.

`DocsInv` then says of each document of whom it is: in its ranges always, and, once its stage has
run in the current finalize and did not raise, the one of the evidence and of the documents that
the stage reads (`SummaryKept`, `HealthKept`, `EventsKept`, `BridgeKept`, `BudgetKept`). Evidence
only grows, and not during a finalize (`EvidenceGrows`), so a stage needs only to keep what the
stages before it have established. `ScoresFollow`, `CleanIsCurrent` and `GatesStand` are read off
it. `WorstIsFirst` adds that the shares on record are those of the snapshot (`SharesKept`), and
that a summary is ranked (`SummaryWorst`), which holds of a summary of an earlier run too.
`ComparisonsStand` and `PowerLawStands` rest on `AnswersInv`: what a command answered is what it
would still answer. That the comparison mirrors is then an equation of operators, refusal by
refusal; that an exponent is recovered is that the numerator of the fit is k times its
denominator, and that this denominator, n times the sum of the squares less the square of the
sum, is positive as soon as two loads differ. `TimelineStands` and `AttributionStands` rest on
`TimelineInv`: the events on record are of the lines of the evidence, typed and in order
(`EventsSound`), and each stall that names the GC has such a line (`StallsSound`); the pieces are
`ParsedGenuine` (what each parser emits), `TimelineSays` (what heap, layout and bound leave of
it) and `StallsProportionate`.

**Only model-checked.** Liveness under fairness: `RetirementEnds`, `ExpiredLeavesTrash`,
`WindowsClose`, `MatrixEnds`, `PanelRecovers`; the prover has neither fairness nor `ENABLED`. The
induction theorems of the library that take a predicate cannot be used by the installed provers;
where the proofs above need induction over numbers or finite sets, it is stated with sets and
derived from `WFMin`.

## 6. Not modelled

- Of the session store: the `.scenario` sweep, bundle imports and the mtime bumps of audits.
- Of the bridge: deep sections on worker threads, world samples, map transfers, API timing, the
  GC window, percentiles, the benchmark, the pruning of dumps; the grades and scales the panel
  draws.
- Of a capture: the ingest of the bridge's document, the flame build, a record that cannot be
  written, `--no-finalize`.
- Of the drivers: warmup and rally, the environment of the generator, the spawning rounds of
  the ladder, `ladder_report.py`, which prints what the ladder wrote.
- Of the analysis: symbol and allocation rankings, the text of the playbook, symbolizing of
  JIT frames, rendering, the Prometheus export. These rank and print; no state outlives them.
- The CLI's option parsing, doctor and console output; the JIT map writer, build, install and
  packaging scripts; the host profiler and the bpftrace scripts, whose behaviour is that of
  the kernel they read.

Each is in `PROJECT.json` with its reason.
