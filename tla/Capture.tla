------------------------------ MODULE Capture ------------------------------
(***************************************************************************)
(* run_capture from its signal handler to its manifest: the two claims a   *)
(* capture makes on the host (the perf-map link in /tmp, the bind mount of *)
(* the mono library), the collectors it launches and stops, and what it    *)
(* records of them.  Captures of one server process share the link.  An    *)
(* interrupt (Ctrl-C, SIGTERM) can arrive between any two steps.           *)
(***************************************************************************)
EXTENDS Integers

CONSTANTS
    Captures,       \* run_capture processes, all of one server pid
    Specs,          \* the collector catalog
    Sudo,           \* the collectors that run as root and cannot be signalled
    Mono,           \* those of them that probe the mono library
    Plans,          \* for each capture, what --only and --no-app can ask of it
    InterruptedAt,  \* the labels at which an interrupt can arrive
    MaxInterrupts,  \* bound on the interrupts of a capture
    MaxWrites,      \* bound on the writes of a collector to its artifact
    Source,         \* the map in the bridge's telemetry directory
    NoLink, NoSpec, NoManifest

ASSUME CatalogAssumption ==
    /\ Mono \subseteq Sudo /\ Sudo \subseteq Specs
    /\ Plans \in [Captures -> SUBSET SUBSET Specs]
    /\ MaxInterrupts \in Nat /\ MaxWrites \in Nat
    /\ Source \notin Captures /\ NoLink \notin Captures \cup {Source}
    /\ NoSpec \notin Specs

VARIABLES
    cap,       \* the locals of each capture
    link,      \* what /tmp/perf-<pid>.map names: a capture's own copy, or Source
    mounts,    \* the captures whose bind mount is in place
    child,     \* the collector processes, by how they ended
    artifact,  \* how often each artifact was written; 0 is empty
    result,    \* the <collector>.result.json files
    observed,  \* the captures whose meta.json holds observed_seconds
    manifest   \* manifest.json

world == <<child, artifact>>
records == <<result, observed, manifest>>
vars == <<cap, link, mounts, world, records>>

Acquiring == {"jitmap", "linked", "mount", "bound"}
Window == {"launch", "spawned", "poll", "expire"}
Releasing == {"release", "unlinking", "unlink"}
Recording == {"record", "classify", "finalize"}
Ended == {"done", "aborted"}
Labels == {"new", "stop"} \cup Acquiring \cup Window \cup Releasing \cup Recording \cup Ended

Targets == Captures \cup {Source}
Ends == {"clean", "broken", "missing"}     \* CLEAN_RC, any other code, MISSING_RC
Statuses == {"skipped", "unavailable", "failed", "interrupted", "ok"}
Results == [Specs -> Statuses \cup {"none"}]

Locals ==
    [pc : Labels,
     sudo : BOOLEAN,                   \* sudo_ok
     plan : SUBSET Specs,              \* what --only and --no-app ask for
     todo : SUBSET Specs,              \* specs the loop under way has yet to visit
     current : Specs \cup {NoSpec},    \* started, and not yet in running
     running : SUBSET Specs,
     target : Targets \cup {NoLink},   \* _export_jitmap's link_target once it is placed
     linked : BOOLEAN,                 \* perf_map_link is set
     bound : BOOLEAN,                  \* mono_link is set
     interrupted : BOOLEAN,
     raising : BOOLEAN,                \* an exception is on its way out
     warned : BOOLEAN,                 \* a failed unmount was reported
     interrupts : 0 .. MaxInterrupts]

Begin == [pc |-> "new", sudo |-> FALSE, plan |-> {}, todo |-> {}, current |-> NoSpec,
          running |-> {}, target |-> NoLink, linked |-> FALSE, bound |-> FALSE,
          interrupted |-> FALSE, raising |-> FALSE, warned |-> FALSE, interrupts |-> 0]

\* results and hashes are what the audit read; observed says which meta.json it hashed.
Manifests == [results : Results, hashes : [Specs -> 0 .. MaxWrites], observed : BOOLEAN]

TypeOK ==
    /\ cap \in [Captures -> Locals]
    /\ link \in Targets \cup {NoLink}
    /\ mounts \subseteq Captures
    /\ child \in [Captures -> [Specs -> Ends \cup {"none", "alive"}]]
    /\ artifact \in [Captures -> [Specs -> 0 .. MaxWrites]]
    /\ result \in [Captures -> Results]
    /\ observed \subseteq Captures
    /\ manifest \in [Captures -> Manifests \cup {NoManifest}]

Init ==
    /\ cap = [c \in Captures |-> Begin]
    /\ link = NoLink
    /\ mounts = {}
    /\ child = [c \in Captures |-> [s \in Specs |-> "none"]]
    /\ artifact = [c \in Captures |-> [s \in Specs |-> 0]]
    /\ result = [c \in Captures |-> [s \in Specs |-> "none"]]
    /\ observed = {}
    /\ manifest = [c \in Captures |-> NoManifest]

At(c, label) == cap[c].pc = label
Alive(c) == {s \in Specs : child[c][s] = "alive"}
Goto(c, label) == cap' = [cap EXCEPT ![c].pc = label]

-----------------------------------------------------------------------------
(* Acquiring: the perf-map link, then the bind mount.                      *)

\* The claim, meta.json and the sudo probe, up to the signal handler.
Start(c) ==
    /\ At(c, "new")
    /\ \E sudo \in BOOLEAN, plan \in Plans[c] :
        cap' = [cap EXCEPT ![c].pc = "jitmap", ![c].sudo = sudo, ![c].plan = plan]
    /\ UNCHANGED <<link, mounts, world, records>>

\* _export_jitmap up to the swap of the link: it names the capture's own copy,
\* or the bridge's file when the copy failed.
PlaceLink(c) ==
    /\ At(c, "jitmap")
    /\ \E t \in {c, Source} :
        /\ link' = t
        /\ cap' = [cap EXCEPT ![c].pc = "linked", ![c].target = t]
    /\ UNCHANGED <<mounts, world, records>>

\* --symbolize is off, telnet or the map failed, or the path is somebody else's.
NoMap(c) ==
    /\ At(c, "jitmap")
    /\ Goto(c, "mount")
    /\ UNCHANGED <<link, mounts, world, records>>

\* The symbols are counted, and the pair returned is assigned.
KeepLink(c) ==
    /\ At(c, "linked")
    /\ cap' = [cap EXCEPT ![c].pc = "mount", ![c].linked = TRUE]
    /\ UNCHANGED <<link, mounts, world, records>>

\* _bind_mono: sudo mount --bind onto a file of the session.
Mount(c) ==
    /\ At(c, "mount") /\ cap[c].sudo
    /\ mounts' = mounts \cup {c}
    /\ Goto(c, "bound")
    /\ UNCHANGED <<link, world, records>>

KeepMount(c) ==
    /\ At(c, "bound")
    /\ cap' = [cap EXCEPT ![c].pc = "launch", ![c].bound = TRUE, ![c].todo = Specs]
    /\ UNCHANGED <<link, mounts, world, records>>

\* No library, no sudo, or the mount failed.
NoMount(c) ==
    /\ At(c, "mount")
    /\ cap' = [cap EXCEPT ![c].pc = "launch", ![c].todo = Specs]
    /\ UNCHANGED <<link, mounts, world, records>>

-----------------------------------------------------------------------------
(* _launch_collectors and the poll loop.                                   *)

\* No sudo, or a mono probe without its mount.
Blocked(c, s) == (s \in Sudo /\ ~cap[c].sudo) \/ (s \in Mono /\ ~cap[c].bound)

\* Mutant of Unstarted: a collector that failed to start leaves no record.
UnstartedQuiet(c, s) ==
    IF s \notin cap[c].plan THEN {"skipped"}
    ELSE {"unavailable"} \cup (IF Blocked(c, s) THEN {} ELSE {"none"})

\* How a spec that is not started is recorded; one that nothing blocks can still
\* lack its tool or a prerequisite, or fail in Popen.
Unstarted(c, s) ==
    IF s \notin cap[c].plan THEN {"skipped"}
    ELSE {"unavailable"} \cup (IF Blocked(c, s) THEN {} ELSE {"failed"})

PassOver(c, s) ==
    /\ At(c, "launch") /\ s \in cap[c].todo
    /\ \E status \in Unstarted(c, s) : result' = [result EXCEPT ![c][s] = status]
    /\ cap' = [cap EXCEPT ![c].todo = @ \ {s}]
    /\ UNCHANGED <<link, mounts, world, observed, manifest>>

Spawn(c, s) ==
    /\ At(c, "launch") /\ s \in cap[c].todo \cap cap[c].plan /\ ~Blocked(c, s)
    /\ child' = [child EXCEPT ![c][s] = "alive"]
    /\ cap' = [cap EXCEPT ![c].pc = "spawned", ![c].todo = @ \ {s}, ![c].current = s]
    /\ UNCHANGED <<link, mounts, artifact, records>>

\* running.append
Track(c) ==
    /\ At(c, "spawned")
    /\ cap' = [cap EXCEPT ![c].pc = "launch", ![c].running = @ \cup {cap[c].current},
                          ![c].current = NoSpec]
    /\ UNCHANGED <<link, mounts, world, records>>

Launched(c) ==
    /\ At(c, "launch") /\ cap[c].todo = {}
    /\ Goto(c, "poll")
    /\ UNCHANGED <<link, mounts, world, records>>

Finished(c) ==
    /\ At(c, "poll") /\ cap[c].running \cap Alive(c) = {}
    /\ Goto(c, "release")
    /\ UNCHANGED <<link, mounts, world, records>>

\* Mutant of Deadline: the loop waits for the root collectors.
PatientDeadline(c) ==
    /\ At(c, "poll") /\ cap[c].running \cap Alive(c) \cap Sudo = {}
    /\ cap[c].running \cap Alive(c) # {}
    /\ cap' = [cap EXCEPT ![c].pc = "expire", ![c].todo = cap[c].running]
    /\ UNCHANGED <<link, mounts, world, records>>

\* The window and its grace are over, and some collector still runs.
Deadline(c) ==
    /\ At(c, "poll") /\ cap[c].running \cap Alive(c) # {}
    /\ cap' = [cap EXCEPT ![c].pc = "expire", ![c].todo = cap[c].running]
    /\ UNCHANGED <<link, mounts, world, records>>

\* Mutant of AfterKill: the TERM alone is relied on.
AfterTerm(c, s) == child[c][s]

\* What SIGKILL to the group makes of a collector; a root one ignores it.
AfterKill(c, s) == IF child[c][s] = "alive" /\ s \notin Sudo THEN "broken" ELSE child[c][s]

\* _terminate: each collector in turn is waited for, killed if it has not
\* obeyed its TERM, and waited for again; every wait is bounded.
Reap(c, s) ==
    /\ cap[c].pc \in {"expire", "stop"} /\ s \in cap[c].todo
    /\ child' = [child EXCEPT ![c][s] = AfterKill(c, s)]
    /\ cap' = [cap EXCEPT ![c].todo = @ \ {s}]
    /\ UNCHANGED <<link, mounts, artifact, records>>

Reaped(c) ==
    /\ cap[c].pc \in {"expire", "stop"} /\ cap[c].todo = {}
    /\ Goto(c, "release")
    /\ UNCHANGED <<link, mounts, world, records>>

-----------------------------------------------------------------------------
(* The finally: SIGTERM's handler is put back first, then the claims go.   *)

\* _unmount_mono; a mount that even umount -l leaves is reported.
Unmount(c) ==
    /\ At(c, "release")
    /\ \/ /\ mounts' = IF cap[c].bound THEN mounts \ {c} ELSE mounts
          /\ Goto(c, "unlinking")
       \/ /\ cap[c].bound /\ UNCHANGED mounts
          /\ cap' = [cap EXCEPT ![c].pc = "unlinking", ![c].warned = TRUE]
    /\ UNCHANGED <<link, world, records>>

\* An exception goes on out of run_capture; otherwise what ran is recorded.
AfterRelease(c) == IF cap[c].raising THEN "aborted" ELSE "record"

\* Mutant of CheckLink: only a link to the session's own copy is released.
CheckLinkOwn(c) ==
    /\ At(c, "unlinking")
    /\ Goto(c, IF cap[c].linked /\ link = c THEN "unlink" ELSE AfterRelease(c))
    /\ UNCHANGED <<link, mounts, world, records>>

\* _remove_perf_map_link reads the link ...
CheckLink(c) ==
    /\ At(c, "unlinking")
    /\ Goto(c, IF cap[c].linked /\ link = cap[c].target THEN "unlink" ELSE AfterRelease(c))
    /\ UNCHANGED <<link, mounts, world, records>>

\* ... and then removes whatever has its name.
Unlink(c) ==
    /\ At(c, "unlink")
    /\ link' = NoLink
    /\ Goto(c, AfterRelease(c))
    /\ UNCHANGED <<mounts, world, records>>

-----------------------------------------------------------------------------
(* Recording: meta.json, the results, the manifest.                        *)

\* Mutant of Observe: meta.json is left as it was written at the start.
ObserveNothing(c) ==
    /\ At(c, "record")
    /\ cap' = [cap EXCEPT ![c].pc = "classify", ![c].todo = cap[c].running]
    /\ UNCHANGED <<link, mounts, world, records>>

\* meta.json is written again with the window that ran, before anything is hashed.
Observe(c) ==
    /\ At(c, "record")
    /\ observed' = IF cap[c].interrupted THEN observed \cup {c} ELSE observed
    /\ cap' = [cap EXCEPT ![c].pc = "classify", ![c].todo = cap[c].running]
    /\ UNCHANGED <<link, mounts, world, result, manifest>>

\* Mutant of Verdict: a collector that left output and broke nothing is ok.
LenientVerdict(end, produced, interrupted) ==
    IF end = "missing" THEN "unavailable"
    ELSE IF end = "broken" \/ ~produced THEN "failed" ELSE "ok"

\* _classify; "alive" is its rc None.
Verdict(end, produced, interrupted) ==
    IF interrupted /\ end # "clean" THEN "interrupted"
    ELSE IF end = "missing" THEN "unavailable"
    ELSE IF end # "clean" \/ ~produced THEN "failed" ELSE "ok"

\* The app collector's artifact can hold failed scrapes only; any unprivileged
\* collector stands for it.
Classify(c, s) ==
    /\ At(c, "classify") /\ s \in cap[c].todo
    /\ LET status == Verdict(child[c][s], artifact[c][s] > 0, cap[c].interrupted) IN
       \E recorded \in {status} \cup (IF status = "ok" /\ s \notin Sudo THEN {"failed"} ELSE {}) :
           result' = [result EXCEPT ![c][s] = recorded]
    /\ cap' = [cap EXCEPT ![c].todo = @ \ {s}]
    /\ UNCHANGED <<link, mounts, world, observed, manifest>>

Classified(c) ==
    /\ At(c, "classify") /\ cap[c].todo = {}
    /\ Goto(c, "finalize")
    /\ UNCHANGED <<link, mounts, world, records>>

\* The audit reads the results and hashes every artifact, last of the stages.
Finalize(c) ==
    /\ At(c, "finalize")
    /\ manifest' = [manifest EXCEPT ![c] =
           [results |-> result[c], hashes |-> artifact[c], observed |-> c \in observed]]
    /\ Goto(c, "done")
    /\ UNCHANGED <<link, mounts, world, result, observed>>

-----------------------------------------------------------------------------
(* The collectors, and the operator.                                       *)

Write(c, s) ==
    /\ s \in Alive(c) /\ artifact[c][s] < MaxWrites
    /\ artifact' = [artifact EXCEPT ![c][s] = @ + 1]
    /\ UNCHANGED <<cap, link, mounts, child, records>>

Exit(c, s) ==
    /\ s \in Alive(c)
    /\ \E end \in Ends : child' = [child EXCEPT ![c][s] = end]
    /\ UNCHANGED <<cap, link, mounts, artifact, records>>

\* Inside the inner try: what was launched is stopped, and the capture goes on.
InterruptWindow(c) ==
    /\ cap[c].pc \in Window
    /\ cap' = [cap EXCEPT ![c].pc = "stop", ![c].todo = cap[c].running,
                          ![c].interrupted = TRUE,
                          ![c].current = NoSpec, ![c].interrupts = @ + 1]

\* Before the inner try, or in its handler: only the finally still runs.
InterruptOuter(c) ==
    /\ cap[c].pc \in Acquiring \cup {"stop"}
    /\ cap' = [cap EXCEPT ![c].pc = "release", ![c].todo = {}, ![c].raising = TRUE,
                          ![c].interrupts = @ + 1]

\* In the finally or after it: nothing more runs.
InterruptLast(c) ==
    /\ cap[c].pc \in Releasing \cup Recording
    /\ cap' = [cap EXCEPT ![c].pc = "aborted", ![c].todo = {}, ![c].interrupts = @ + 1]

Interrupt(c) ==
    /\ cap[c].pc \in InterruptedAt /\ cap[c].interrupts < MaxInterrupts
    /\ InterruptWindow(c) \/ InterruptOuter(c) \/ InterruptLast(c)
    /\ UNCHANGED <<link, mounts, world, records>>

-----------------------------------------------------------------------------
Acquire(c) == Start(c) \/ PlaceLink(c) \/ NoMap(c) \/ KeepLink(c) \/ Mount(c)
                 \/ KeepMount(c) \/ NoMount(c)
Collect(c) == \/ Track(c) \/ Launched(c) \/ Finished(c) \/ Deadline(c) \/ Reaped(c)
              \/ \E s \in Specs : PassOver(c, s) \/ Spawn(c, s) \/ Reap(c, s)
Release(c) == Unmount(c) \/ CheckLink(c) \/ Unlink(c)
Record(c) == Observe(c) \/ Classified(c) \/ Finalize(c) \/ \E s \in Specs : Classify(c, s)

\* What run_capture does by itself.
Run(c) == Collect(c) \/ Release(c) \/ Record(c) \/ (Acquire(c) /\ ~At(c, "new"))

Next ==
    \E c \in Captures :
        \/ Acquire(c) \/ Collect(c) \/ Release(c) \/ Record(c) \/ Interrupt(c)
        \/ \E s \in Specs : Write(c, s) \/ Exit(c, s)

Spec == Init /\ [][Next]_vars

\* A capture that has begun keeps running: every wait in it is bounded.  Nothing
\* is assumed of the collectors, which may never exit, or of the operator.
FairSpec == Spec /\ \A c \in Captures : WF_vars(Run(c))

-----------------------------------------------------------------------------
(* Properties.                                                             *)

\* The captures whose finally is over.
Past == {c \in Captures : cap[c].pc \in Recording \cup Ended}

\* run_capture's try/finally: once it is over, a capture has left neither a mount
\* it said nothing of nor a link, its own copy's or the shared file's, that no
\* capture still answers for.
NothingStranded ==
    /\ \A c \in Past : c \in mounts => cap[c].warned
    /\ link # NoLink => \E c \in Captures \ Past : cap[c].target = link

\* _terminate and the poll loop: a capture that records its results has stopped
\* every collector it can signal, however its window ended.
NoOrphans ==
    \A c \in Captures : cap[c].pc \in Recording \cup {"done"} => Alive(c) \subseteq Sudo

\* _classify against finalize: an artifact that no longer is what the manifest
\* hashed belongs to a collector the same manifest reports as not usable.
DriftDeclared ==
    \A c \in Captures : manifest[c] # NoManifest =>
        \A s \in Specs : artifact[c][s] # manifest[c].hashes[s] =>
            manifest[c].results[s] \in {"failed", "interrupted"}

\* _launch_collectors and the recording loop: a manifest has an outcome for every
\* collector of the catalog; only an interrupt leaves some out, and none of those
\* has left data.
OutcomesRecorded ==
    \A c \in Captures : manifest[c] # NoManifest =>
        \A s \in Specs : manifest[c].results[s] = "none" =>
            cap[c].interrupted /\ artifact[c][s] = 0

\* run_capture's observed_seconds: a manifest that does not hash a truncated
\* window's meta.json is of a window that no interrupt cut: whatever it reports
\* as interrupted or as never reached, it hashed the window that really ran.
TruncationRecorded ==
    \A c \in Captures : manifest[c] # NoManifest =>
        /\ manifest[c].observed = cap[c].interrupted
        /\ ~manifest[c].observed => \A s \in Specs :
               manifest[c].results[s] \notin {"none", "interrupted"}

\* _launch_collectors, the recording loop and observed_seconds: what a manifest says
\* happened accounts for the whole catalog and for the window that really ran.
RecordComplete == OutcomesRecorded /\ TruncationRecorded

\* The bounded waits: every window closes and lets go of its claims, whatever the
\* collectors do and whenever interrupts arrive.
WindowsClose ==
    \A c \in Captures : cap[c].pc \in Window \cup {"stop"} ~> c \in Past
=============================================================================
