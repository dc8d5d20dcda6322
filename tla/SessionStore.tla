---------------------------- MODULE SessionStore ----------------------------
(***************************************************************************)
(* The session store of apm_suite as the processes that share it see it:   *)
(* captures claim a session directory and auto-prune when they finish, CLI *)
(* prunes retire sessions into .trash and purge what has expired there, an *)
(* operator moves a retired session back with mv.  Nothing locks the       *)
(* store; every hand-over is a mkdir, a utime, a rename or an rmtree by    *)
(* path, and each of those is one step here.                               *)
(*                                                                         *)
(* A session directory has an identity (an element of Evidence) beside its *)
(* path, because a path can come to name a second directory.               *)
(***************************************************************************)
EXTENDS Integers, Sequences, FiniteSetsExt

CONSTANTS
    Evidence,      \* identities of session directories (bounds how many are made)
    Stock,         \* the sessions there at the start, each with its name
    StartClock,    \* when the run starts
    Captures,      \* run_capture processes
    Pruners,       \* CLI prune processes (prune run by cron or by hand)
    Keep,          \* CLI prune --keep
    MaxBytes,      \* CLI prune --max-gb in bytes, or NoLimit
    Size,          \* what each directory's files occupy
    AutoKeep,      \* APM_KEEP_SESSIONS; 0 disables auto-prune
    Grace,         \* APM_PRUNE_GRACE_HOURS in clock units; 0 hard-deletes
    MaxTries,      \* rename attempts of _move_into_trash (16 in the code)
    MaxSuffix,     \* bound on the _N suffix of a name
    MaxClock,      \* bound on the clock
    MoveFails,     \* BOOLEAN: rename, mkdir of the trash or rmtree can fail
    StampFails,    \* BOOLEAN: utime can fail on a session that can be renamed
    Restores,      \* BOOLEAN: the operator moves sessions back out of .trash
    Crashes,       \* BOOLEAN: a process can be killed between two steps
    NoName, NoDir, NoLimit

Procs == Captures \cup Pruners
Stamps == 0 .. MaxClock
Suffixes == 1 .. MaxSuffix

\* session_<stamp>[_<claim suffix>[_<trash suffix>]], written as a sequence.
Names == {<<s>> : s \in Stamps}
           \cup {<<s, i>> : s \in Stamps, i \in Suffixes}
           \cup {<<s, i, j>> : s \in Stamps, i \in Suffixes, j \in Suffixes}

ASSUME ConstantsAssumption ==
    /\ IsFiniteSet(Evidence) /\ DOMAIN Stock \subseteq Evidence
    /\ StartClock \in Stamps
    /\ \A d \in DOMAIN Stock : Stock[d] \in Names /\ Head(Stock[d]) <= StartClock
    /\ \A d, e \in DOMAIN Stock : Stock[d] = Stock[e] => d = e
    /\ Captures \cap Pruners = {}
    /\ MaxBytes \in Nat \cup {NoLimit} /\ NoLimit \notin Nat /\ Size \in [Evidence -> Nat]
    /\ Keep \in Nat \ {0} /\ AutoKeep \in Nat /\ Grace \in Nat
    /\ MaxTries \in Nat \ {0} /\ MaxSuffix \in Nat /\ MaxClock \in Nat
    /\ {MoveFails, StampFails, Restores, Crashes} \subseteq BOOLEAN
    /\ NoName \notin Names /\ NoDir \notin Evidence

VARIABLES
    clock,
    where,     \* where each directory is: not made yet, in the store, in .trash, gone
    name,      \* its name there
    mtime,     \* its directory mtime
    summary,   \* the directories that hold a summary.json
    index,     \* the session names index.json lists
    proc,      \* the locals of each process
    written,   \* history: when capture evidence was last written into a directory
    retiredAt  \* history: when a prune last set out to retire it

dirs == <<where, name, mtime, summary, written, retiredAt>>
vars == <<clock, dirs, index, proc>>

Places == {"unmade", "store", "trash", "gone"}
Labels == {"idle", "claim", "collect", "list", "stamp", "probe", "move", "collided",
           "erase", "sweep", "stat", "unlink", "scan", "publish"}

Process ==
    [pc : Labels,                  \* the next step
     base : Names \cup {NoName},   \* the name claim_dir starts from
     own : Names \cup {NoName},    \* the session a capture has yet to finalize
     made : Evidence \cup {NoDir}, \* history: the directory its claim created
     todo : Seq(Names),            \* doomed sessions, then trash entries, to visit
     target : Names \cup {NoName}, \* the free trash name last probed
     tries : 0 .. MaxTries,        \* rename attempts for the session being retired
     removed : BOOLEAN,            \* the index is to be refreshed at the end
     cutoff : Int,                 \* the purge's mtime cutoff
     seen : Evidence \cup {NoDir}, \* history: the entry the purge last looked at
     rows : SUBSET Names]          \* what the index scan read

Idle == [pc |-> "idle", base |-> NoName, own |-> NoName, made |-> NoDir, todo |-> <<>>,
         target |-> NoName, tries |-> 0, removed |-> FALSE, cutoff |-> 0,
         seen |-> NoDir, rows |-> {}]

TypeOK ==
    /\ clock \in Stamps
    /\ where \in [Evidence -> Places]
    /\ name \in [Evidence -> Names \cup {NoName}]
    /\ mtime \in [Evidence -> Stamps]
    /\ summary \subseteq Evidence
    /\ index \subseteq Names
    /\ proc \in [Procs -> Process]
    /\ written \in [Evidence -> Stamps]
    /\ retiredAt \in [Evidence -> Stamps]

-----------------------------------------------------------------------------
(* Paths.                                                                  *)

In(place) == {d \in Evidence : where[d] = place}
At(place, n) == {d \in In(place) : name[d] = n}
Taken(place, n) == At(place, n) # {}
NamesIn(place) == {name[d] : d \in In(place)}

\* String order on names: a name sorts before each of its suffixed forms.
Before(m, n) ==
    \E k \in 1 .. Len(n) :
        /\ Len(m) >= k - 1
        /\ \A i \in 1 .. k - 1 : m[i] = n[i]
        /\ Len(m) >= k => m[k] < n[k]

\* Mutant of FirstFree: the name is used as if it were free (exist_ok).
FirstAsked(place, n) == {n} \cap Names

\* base, base_1, base_2, ... in the order claim_dir and _free_trash_target try them.
Candidates(n) == {n} \cup {Append(n, i) : i \in Suffixes}
FirstFree(place, n) ==
    {c \in Candidates(n) \cap Names :
        /\ ~Taken(place, c)
        /\ \A b \in Candidates(n) : Before(b, c) => Taken(place, b)}

\* Mutant of Newer: the sort without reverse=True.
OlderFirst(d, e) == mtime[d] < mtime[e] \/ (mtime[d] = mtime[e] /\ Before(name[d], name[e]))

\* list_sessions: newest first by mtime, the name breaking ties.
Newer(d, e) == mtime[d] > mtime[e] \/ (mtime[d] = mtime[e] /\ Before(name[e], name[d]))
Listings(S) ==
    {s \in [1 .. Cardinality(S) -> S] :
        \A i, j \in DOMAIN s : i < j => Newer(s[i], s[j])}

\* Mutant of KeepOf: sessions[keep - 1:] for sessions[keep:].
KeepOneShort(p) == (IF p \in Pruners THEN Keep ELSE AutoKeep) - 1

\* A CLI prune has the options; auto-prune only APM_KEEP_SESSIONS.
KeepOf(p) == IF p \in Pruners THEN Keep ELSE AutoKeep
LimitOf(p) == IF p \in Pruners THEN MaxBytes ELSE NoLimit

Least(m, n) == IF m < n THEN m ELSE n

\* What the first n sessions of a listing occupy.
Occupied(s, n) == MapThenSumSet(LAMBDA i : Size[s[i]], 1 .. n)

\* Mutant of Survivors: the size budget is never applied.
SurvivorsByCount(s, keep, limit) == {Least(keep, Len(s))}

\* How many of the newest survive: keep of them, less the oldest of those until
\* the rest fits the limit (the set has one element).
Survivors(s, keep, limit) ==
    LET upto == Least(keep, Len(s)) IN
    IF limit = NoLimit THEN {upto}
    ELSE {n \in 0 .. upto :
            /\ Occupied(s, n) <= limit
            /\ \A m \in n + 1 .. upto : Occupied(s, m) > limit}

\* sessions_beyond_budget: everything past the newest keep, newest first, then
\* the oldest kept ones, oldest first, when only left of those survive.
Doomed(s, keep, left) ==
    LET upto == Least(keep, Len(s)) IN
    [i \in 1 .. Len(s) - left |->
        name[s[IF upto + i <= Len(s) THEN upto + i ELSE Len(s) - i + 1]]]

\* The trash entries in the order sorted() gives them.
TrashListings ==
    {s \in [1 .. Cardinality(NamesIn("trash")) -> NamesIn("trash")] :
        \A i, j \in DOMAIN s : i < j => Before(s[i], s[j])}

-----------------------------------------------------------------------------
Init ==
    /\ clock = StartClock
    /\ where = [d \in Evidence |-> IF d \in DOMAIN Stock THEN "store" ELSE "unmade"]
    /\ name = [d \in Evidence |-> IF d \in DOMAIN Stock THEN Stock[d] ELSE NoName]
    /\ mtime = [d \in Evidence |-> IF d \in DOMAIN Stock THEN Head(Stock[d]) ELSE 0]
    /\ summary = DOMAIN Stock
    /\ index = {Stock[d] : d \in DOMAIN Stock}
    /\ proc = [p \in Procs |-> Idle]
    /\ written = mtime
    /\ retiredAt = [d \in Evidence |-> 0]

Doing(p, label) == proc[p].pc = label
Current(p) == Head(proc[p].todo)

\* The identity the next directory gets; any would do, so one is enough.
Unused == {CHOOSE d \in Evidence : where[d] = "unmade" : e \in In("unmade")}

\* A new directory appears in the store under name n, written now.
Make(d, n) ==
    /\ where[d] = "unmade"
    /\ where' = [where EXCEPT ![d] = "store"]
    /\ name' = [name EXCEPT ![d] = n]
    /\ mtime' = [mtime EXCEPT ![d] = clock]
    /\ written' = [written EXCEPT ![d] = clock]
    /\ UNCHANGED retiredAt

\* rmtree
Destroy(d) ==
    /\ where' = [where EXCEPT ![d] = "gone"]
    /\ name' = [name EXCEPT ![d] = NoName]
    /\ UNCHANGED <<mtime, summary, written, retiredAt>>

-----------------------------------------------------------------------------
(* run_capture: claim a directory, collect, finalize into it.              *)

StartCapture(p) ==
    /\ p \in Captures /\ Doing(p, "idle")
    /\ proc' = [proc EXCEPT ![p].pc = "claim", ![p].base = <<clock>>]
    /\ UNCHANGED <<clock, dirs, index>>

\* claim_dir: mkdir is the claim; FileExistsError moves on to the next suffix.
Claim(p) ==
    /\ Doing(p, "claim")
    /\ \E d \in Unused, n \in FirstFree("store", proc[p].base) :
        /\ Make(d, n)
        /\ proc' = [proc EXCEPT ![p].pc = "collect", ![p].own = n, ![p].made = d,
                                ![p].base = NoName]
    /\ UNCHANGED <<clock, summary, index>>

\* The result, meta and finalize writes go to the claimed path: atomic_text
\* makes the directory again when a prune has moved it away.  A capture lasts
\* longer than the clock unit of its stamp, so its writes come later.
Finalize(p) ==
    /\ Doing(p, "collect") /\ clock > Head(proc[p].own)
    /\ \/ \E d \in At("store", proc[p].own) :
            /\ mtime' = [mtime EXCEPT ![d] = clock]
            /\ written' = [written EXCEPT ![d] = clock]
            /\ summary' = summary \cup {d}
            /\ UNCHANGED <<where, name, retiredAt>>
       \/ /\ ~Taken("store", proc[p].own)
          /\ \E d \in Unused : Make(d, proc[p].own) /\ summary' = summary \cup {d}
    /\ proc' = [proc EXCEPT ![p].pc = "scan"]
    /\ UNCHANGED <<clock, index>>

-----------------------------------------------------------------------------
(* sessions_beyond_budget and remove_sessions.                             *)

FirstDoomed == IF Grace = 0 THEN "erase" ELSE "stamp"

\* Mutant of AfterListing: nothing doomed, nothing to do.
AfterListingDoomed(doomed) == IF doomed = <<>> THEN "idle" ELSE FirstDoomed

\* The purges run whether or not a session is doomed.
AfterListing(doomed) == IF doomed = <<>> THEN "sweep" ELSE FirstDoomed

\* A CLI prune starts by listing; so does auto-prune, which Publish leads to.
\* remove_sessions stops at once when it cannot make the trash directory.
List(p) ==
    /\ Doing(p, "list") \/ (p \in Pruners /\ Doing(p, "idle"))
    /\ \E s \in Listings(In("store")) : \E left \in Survivors(s, KeepOf(p), LimitOf(p)) :
        LET doomed == Doomed(s, KeepOf(p), left) IN
        \/ proc' = [proc EXCEPT ![p].pc = AfterListing(doomed),
                                ![p].todo = doomed,
                                ![p].removed = p \in Pruners /\ doomed # <<>>]
        \/ /\ MoveFails /\ doomed # <<>> /\ Grace > 0
           /\ proc' = [proc EXCEPT ![p].pc = "sweep", ![p].removed = p \in Pruners]
    /\ UNCHANGED <<clock, dirs, index>>

\* On to the next doomed session; ok says whether this one was retired.
NextDoomed(p, ok) ==
    proc' = [proc EXCEPT ![p].pc = IF Len(proc[p].todo) = 1 THEN "sweep" ELSE FirstDoomed,
                         ![p].todo = Tail(@), ![p].target = NoName, ![p].tries = 0,
                         ![p].removed = @ \/ ok]

\* Mutant of GraceStamp: the capture date is left.
CaptureStamp(d) == mtime[d]

\* os.utime(session, None) starts the grace clock.
GraceStamp(d) == clock

\* The stamp comes before the entry is visible in the trash; a session whose
\* mtime cannot be set is retired all the same.
Stamp(p) ==
    /\ Doing(p, "stamp")
    /\ \E d \in At("store", Current(p)) :
        /\ \/ mtime' = [mtime EXCEPT ![d] = GraceStamp(d)]
           \/ StampFails /\ UNCHANGED mtime
        /\ retiredAt' = [retiredAt EXCEPT ![d] = clock]
    /\ proc' = [proc EXCEPT ![p].pc = "probe"]
    /\ UNCHANGED <<clock, where, name, summary, written, index>>

\* FileNotFoundError from utime, from the rename or from the hard delete:
\* another prune got there first, which counts as success.
AlreadyGone(p) ==
    /\ proc[p].pc \in {"stamp", "move", "erase"}
    /\ ~Taken("store", Current(p))
    /\ NextDoomed(p, TRUE)
    /\ UNCHANGED <<clock, dirs, index>>

\* _free_trash_target
Probe(p) ==
    /\ Doing(p, "probe")
    /\ \E n \in FirstFree("trash", Current(p)) :
        proc' = [proc EXCEPT ![p].pc = "move", ![p].target = n, ![p].tries = @ + 1]
    /\ UNCHANGED <<clock, dirs, index>>

\* os.replace onto the probed name, which a racing prune may have taken since.
Move(p) ==
    /\ Doing(p, "move")
    /\ ~Taken("trash", proc[p].target)
    /\ \E d \in At("store", Current(p)) :
        /\ where' = [where EXCEPT ![d] = "trash"]
        /\ name' = [name EXCEPT ![d] = proc[p].target]
    /\ NextDoomed(p, TRUE)
    /\ UNCHANGED <<clock, mtime, summary, written, retiredAt, index>>

\* rename(2) refuses to replace a directory that holds anything.
Collide(p) ==
    /\ Doing(p, "move")
    /\ Taken("store", Current(p)) /\ Taken("trash", proc[p].target)
    /\ proc' = [proc EXCEPT ![p].pc = "collided"]
    /\ UNCHANGED <<clock, dirs, index>>

\* Mutant of Retry: the same name again, without a new probe.
RetrySameName(p) ==
    /\ Doing(p, "collided")
    /\ Taken("trash", proc[p].target)
    /\ proc' = [proc EXCEPT ![p].pc = "move"]
    /\ UNCHANGED <<clock, dirs, index>>

\* The name is still taken: probe again, up to the bound of the loop.
Retry(p) ==
    /\ Doing(p, "collided")
    /\ Taken("trash", proc[p].target) /\ proc[p].tries < MaxTries
    /\ proc' = [proc EXCEPT ![p].pc = "probe"]
    /\ UNCHANGED <<clock, dirs, index>>

\* The rename failed for another reason, or the collision's cause is gone, or
\* every attempt collided: the error is reported and the session stays.
GiveUp(p) ==
    /\ \/ proc[p].pc \in {"move", "erase"} /\ MoveFails /\ Taken("store", Current(p))
       \/ Doing(p, "collided") /\ (~Taken("trash", proc[p].target) \/ proc[p].tries = MaxTries)
    /\ NextDoomed(p, FALSE)
    /\ UNCHANGED <<clock, dirs, index>>

\* Grace 0: shutil.rmtree straight from the store.
Erase(p) ==
    /\ Doing(p, "erase")
    /\ \E d \in At("store", Current(p)) : Destroy(d)
    /\ NextDoomed(p, TRUE)
    /\ UNCHANGED <<clock, index>>

-----------------------------------------------------------------------------
(* purge_expired_trash and _expired.                                       *)

\* Mutant of AfterPurge: auto-prune without its index refresh.
AfterPurgeSilent(p) == Idle

\* The purge is done: refresh the index if the prune retired anything.
AfterPurge(p) == IF proc[p].removed THEN [Idle EXCEPT !.pc = "scan", !.made = proc[p].made] ELSE Idle

\* Mutant of Cutoff: the grace window is not subtracted.
CutoffNow == clock

\* What was retired at or before this has outlived its grace window.
Cutoff == clock - Grace

Sweep(p) ==
    /\ Doing(p, "sweep")
    /\ \E s \in TrashListings :
        proc' = [proc EXCEPT ![p] =
                    IF s = <<>> THEN AfterPurge(p)
                    ELSE [proc[p] EXCEPT !.pc = "stat", !.todo = s, !.cutoff = Cutoff]]
    /\ UNCHANGED <<clock, dirs, index>>

NextEntry(p) ==
    proc' = [proc EXCEPT ![p] =
                IF Len(proc[p].todo) = 1 THEN AfterPurge(p)
                ELSE [proc[p] EXCEPT !.pc = "stat", !.todo = Tail(@), !.seen = NoDir]]

\* The entry is gone, or its mtime is not past the cutoff.
Skip(p) ==
    /\ Doing(p, "stat")
    /\ \A d \in At("trash", Current(p)) : mtime[d] > proc[p].cutoff
    /\ NextEntry(p)
    /\ UNCHANGED <<clock, dirs, index>>

Expire(p) ==
    /\ Doing(p, "stat")
    /\ \E d \in At("trash", Current(p)) :
        /\ mtime[d] <= proc[p].cutoff
        /\ proc' = [proc EXCEPT ![p].pc = "unlink", ![p].seen = d]
    /\ UNCHANGED <<clock, dirs, index>>

\* shutil.rmtree removes whatever has that path now.
Unlink(p) ==
    /\ Doing(p, "unlink")
    /\ \E d \in At("trash", Current(p)) : Destroy(d)
    /\ NextEntry(p)
    /\ UNCHANGED <<clock, index>>

\* The entry has vanished, or cannot be removed: both only move on.
UnlinkNothing(p) ==
    /\ Doing(p, "unlink")
    /\ MoveFails \/ ~Taken("trash", Current(p))
    /\ NextEntry(p)
    /\ UNCHANGED <<clock, dirs, index>>

-----------------------------------------------------------------------------
(* write_index: scan the store, then replace index.json.                   *)

\* A session counts once it has a summary.json.
Listed == {name[d] : d \in In("store") \cap summary}

Scan(p) ==
    /\ Doing(p, "scan")
    /\ proc' = [proc EXCEPT ![p].pc = "publish", ![p].rows = Listed]
    /\ UNCHANGED <<clock, dirs, index>>

\* A capture that has just finalized goes on to _auto_prune_sessions.
Publish(p) ==
    /\ Doing(p, "publish")
    /\ index' = proc[p].rows
    /\ proc' = [proc EXCEPT ![p] =
                   IF proc[p].own # NoName /\ AutoKeep > 0
                   THEN [Idle EXCEPT !.pc = "list", !.made = proc[p].made]
                   ELSE Idle]
    /\ UNCHANGED <<clock, dirs>>

-----------------------------------------------------------------------------
(* The surroundings.                                                       *)

\* mv .trash/session_X <store>/: the recovery the runbook gives.
Restore(d) ==
    /\ Restores
    /\ where[d] = "trash" /\ ~Taken("store", name[d])
    /\ where' = [where EXCEPT ![d] = "store"]
    /\ UNCHANGED <<clock, name, mtime, summary, written, retiredAt, index, proc>>

Crash(p) ==
    /\ Crashes /\ ~Doing(p, "idle")
    /\ proc' = [proc EXCEPT ![p] = Idle]
    /\ UNCHANGED <<clock, dirs, index>>

Tick ==
    /\ clock < MaxClock
    /\ clock' = clock + 1
    /\ UNCHANGED <<dirs, index, proc>>

Capturing(p) == Claim(p) \/ Finalize(p)
Retiring(p) == List(p) \/ Stamp(p) \/ AlreadyGone(p) \/ Probe(p) \/ Move(p)
                 \/ Collide(p) \/ Retry(p) \/ GiveUp(p) \/ Erase(p)
Purging(p) == Sweep(p) \/ Skip(p) \/ Expire(p) \/ Unlink(p) \/ UnlinkNothing(p)
Indexing(p) == Scan(p) \/ Publish(p)
Running(p) == Capturing(p) \/ Retiring(p) \/ Purging(p) \/ Indexing(p)

Next ==
    \/ \E p \in Procs : StartCapture(p) \/ Running(p) \/ Crash(p)
    \/ \E d \in Evidence : Restore(d)
    \/ Tick

Spec == Init /\ [][Next]_vars

\* A running process takes its next step, and cron starts another prune; the
\* operator, crashes and the start of captures promise nothing.
FairSpec == Spec /\ (\A p \in Procs : WF_vars(Running(p))) /\ WF_vars(Tick)

-----------------------------------------------------------------------------
(* What the store promises.                                                *)

\* No two directories ever share a path: a claim takes a free name, and a
\* retired session is never renamed over one that waits in the trash, however
\* claims, prunes and restores interleave.
DistinctPaths ==
    \A d, e \in Evidence :
        /\ where[d] = where[e] /\ where[d] \in {"store", "trash"}
        /\ name[d] = name[e]
        => d = e

\* A purge that decided to remove an entry was right about the directory it
\* looked at: the grace window since a prune retired it had run out, although
\* the mtime it read could be stamped by any of the racing prunes.
VerdictSound ==
    \A p \in Procs :
        Doing(p, "unlink") /\ where[proc[p].seen] = "trash"
        => clock - retiredAt[proc[p].seen] >= Grace

\* Nothing that a prune retired is destroyed within the grace window, so a bad
\* --keep can be undone with mv for that long.
GraceHonoured ==
    [][\A d \in Evidence :
          where[d] = "trash" /\ where'[d] = "gone" => clock - retiredAt[d] >= Grace]_vars

\* Retention only ever removes the surplus: taking a session out of the store
\* leaves at least the sessions it was told to keep.
RetentionFloor ==
    [][\A d \in Evidence :
          where[d] = "store" /\ where'[d] # "store" => Cardinality(In("store")') >= Keep]_vars

\* A prune that has retired what it set out to leaves a store within both of
\* its limits, when nothing fails and nothing is captured meanwhile.
BudgetMet ==
    \A p \in Pruners :
        Doing(p, "sweep") =>
            /\ Cardinality(In("store")) <= Keep
            /\ MaxBytes # NoLimit => MapThenSumSet(LAMBDA d : Size[d], In("store")) <= MaxBytes

\* d's capture evidence is more recent than e's, whatever prunes did to mtimes.
MoreRecent(d, e) ==
    written[d] > written[e] \/ (written[d] = written[e] /\ Before(name[e], name[d]))

\* The sessions retention keeps are the newest: one that leaves the store has
\* Keep sessions of more recent evidence beside it.
NewestKept ==
    [][\A d \in Evidence :
          where[d] = "store" /\ where'[d] # "store"
          => Cardinality({e \in In("store") : MoreRecent(e, d)}) >= Keep]_vars

Quiet == \A p \in Procs : Doing(p, "idle")

\* With nothing running, the index lists the finalized sessions that exist and no
\* other.
IndexExact == Quiet => index = Listed

\* A retired session leaves the trash once its window has run out, counted from
\* its retirement or from the last evidence a capture still wrote into it: every
\* later prune reaches the purge and the purge reaches every entry.
ExpiredLeavesTrash ==
    \A d \in Evidence :
        /\ where[d] = "trash"
        /\ clock - retiredAt[d] >= Grace /\ clock - written[d] >= Grace
        ~> where[d] # "trash"

\* A prune gets through its doomed sessions, whoever races it for trash names.
RetirementEnds == \A p \in Procs : Doing(p, "probe") ~> proc[p].pc \in {"sweep", "idle"}

=============================================================================
