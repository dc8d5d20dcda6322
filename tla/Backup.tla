------------------------------- MODULE Backup -------------------------------
(***************************************************************************)
(* `7dtd-server-apm backup DEST` (apm_suite/backup.py): processes that     *)
(* copy the session store into one destination while captures finalize     *)
(* sessions again, prunes retire them, other backups run, and a signal or  *)
(* a power cut ends a run anywhere.  There is no lock at either end: a run *)
(* reads the destination's record once, copies session by session through  *)
(* a staging directory of its own, and writes the record back at the end.  *)
(*                                                                         *)
(* A session's files are two versions: that of its artifacts and that of   *)
(* the manifest.json that hashes them; they differ while a finalize runs.  *)
(***************************************************************************)
EXTENDS Integers, FiniteSets

CONSTANTS
    Sessions,
    Extras,        \* store entries copied beside the sessions (.scenario, the index files)
    Runs,          \* backup processes; each has its pid, hence its staging names
    MaxVersion,    \* bound on how often a session is finalized
    Gone, Absent, None

Entries == Sessions \cup Extras
Versions == 0 .. MaxVersion          \* 0: the file is not there
Copies == [content : Versions, manifest : Versions]
Empty == [content |-> 0, manifest |-> 0]
Nothing == [s \in Sessions |-> 0]

ASSUME BackupAssumption ==
    /\ IsFiniteSet(Sessions) /\ Sessions \cap Extras = {}
    /\ MaxVersion \in Nat \ {0}
    /\ Gone \notin Copies /\ Absent \notin Copies /\ None \notin Entries

VARIABLES
    source,      \* the store: an entry's files, or Gone
    archive,     \* the destination: an entry's copy, or Absent
    record,      \* backup-index.json: the fingerprint of each session, 0 for none
    pc,          \* where each run is
    memo,        \* the record as the run read it
    todo,        \* entries it has yet to visit
    at,          \* the entry it is replacing
    print,       \* the fingerprint it took of that entry
    staging,     \* its .incoming-<pid>-<name>
    taken,       \* fingerprints of the sessions it backed up
    overlapped,  \* history: two runs were ever under way at once
    exposed      \* history: sessions whose staged copy a handler dropped with no other whole

outside == <<source, archive, record, overlapped, exposed>>
locals == <<pc, memo, todo, at, print, staging, taken>>
vars == <<outside, locals>>

Running == {"walk", "copy", "remove", "replace", "verify"}
Ended == {"clean", "failed", "killed"}

TypeOK ==
    /\ source \in [Entries -> Copies \cup {Gone}]
    /\ archive \in [Entries -> Copies \cup {Absent}]
    /\ record \in [Sessions -> Versions]
    /\ pc \in [Runs -> {"idle"} \cup Running \cup Ended]
    /\ memo \in [Runs -> [Sessions -> Versions]]
    /\ todo \in [Runs -> SUBSET Entries]
    /\ at \in [Runs -> Entries \cup {None}]
    /\ print \in [Runs -> Versions]
    /\ staging \in [Runs -> Copies]
    /\ taken \in [Runs -> [Sessions -> Versions]]
    /\ overlapped \in BOOLEAN
    /\ exposed \subseteq Sessions

\* Either sessions are being captured (artifacts, no manifest yet), or they are
\* finalized and an earlier backup holds them.
Init ==
    /\ \E m \in {0, 1} :
          /\ source = [s \in Entries |-> [content |-> 1, manifest |-> IF s \in Extras THEN 1 ELSE m]]
          /\ archive = [s \in Entries |-> IF m = 0 THEN Absent ELSE [content |-> 1, manifest |-> 1]]
          /\ record = [s \in Sessions |-> m]
    /\ pc = [r \in Runs |-> "idle"]
    /\ memo = [r \in Runs |-> Nothing]
    /\ todo = [r \in Runs |-> {}]
    /\ at = [r \in Runs |-> None]
    /\ print = [r \in Runs |-> 0]
    /\ staging = [r \in Runs |-> Empty]
    /\ taken = [r \in Runs |-> Nothing]
    /\ overlapped = FALSE /\ exposed = {}

-----------------------------------------------------------------------------
(* The store under the backup. *)

\* finalize rewrites a session's artifacts before its manifest stage ...
Rewrite(s) ==
    /\ source[s] # Gone /\ source[s].content < MaxVersion
    /\ source' = [source EXCEPT ![s].content = @ + 1]
    /\ UNCHANGED <<archive, record, overlapped, exposed, locals>>

\* ... which then stamps manifest.json over what is there.
Stamp(s) ==
    /\ source[s] # Gone /\ source[s].manifest # source[s].content
    /\ source' = [source EXCEPT ![s].manifest = source[s].content]
    /\ UNCHANGED <<archive, record, overlapped, exposed, locals>>

\* Retention renames the session out of the store, and purges it later.
Prune(s) ==
    /\ source[s] # Gone
    /\ source' = [source EXCEPT ![s] = Gone]
    /\ UNCHANGED <<archive, record, overlapped, exposed, locals>>

-----------------------------------------------------------------------------
(* One run of backup_store. *)

\* A record that cannot be read or parsed reads as an empty one.
ReadRecord == {record, Nothing}

Begin(r) ==
    /\ pc[r] = "idle"
    /\ pc' = [pc EXCEPT ![r] = "walk"]
    /\ \E known \in ReadRecord : memo' = [memo EXCEPT ![r] = known]
    /\ todo' = [todo EXCEPT ![r] = {s \in Sessions : source[s] # Gone} \cup Extras]
    /\ overlapped' = (overlapped \/ \E q \in Runs : pc[q] \in Running)
    /\ UNCHANGED <<source, archive, record, exposed, at, print, staging, taken>>

\* Sessions come first, in mtime order (any order); the extras follow.
Visits(r, s) ==
    /\ pc[r] = "walk" /\ s \in todo[r]
    /\ s \in Extras => todo[r] \cap Sessions = {}

HasManifest(s) == source[s] # Gone /\ source[s].manifest # 0

Current(r, s) ==
    s \in Sessions /\ memo[r][s] = source[s].manifest /\ archive[s] # Absent

Skip(r, s) ==
    /\ Visits(r, s) /\ ~HasManifest(s)
    /\ todo' = [todo EXCEPT ![r] = @ \ {s}]
    /\ UNCHANGED <<outside, pc, memo, at, print, staging, taken>>

Unchanged(r, s) ==
    /\ Visits(r, s) /\ HasManifest(s) /\ Current(r, s)
    /\ todo' = [todo EXCEPT ![r] = @ \ {s}]
    /\ taken' = [taken EXCEPT ![r][s] = source[s].manifest]
    /\ UNCHANGED <<outside, pc, memo, at, print, staging>>

\* Mutant of Fetch: the old copy is removed before the new one is staged.
FetchRemoves(r, s) ==
    /\ Visits(r, s) /\ HasManifest(s) /\ ~Current(r, s)
    /\ pc' = [pc EXCEPT ![r] = "copy"]
    /\ at' = [at EXCEPT ![r] = s]
    /\ print' = [print EXCEPT ![r] = source[s].manifest]
    /\ archive' = [archive EXCEPT ![s] = Absent]
    /\ UNCHANGED <<source, record, overlapped, exposed, memo, todo, staging, taken>>

\* The fingerprint is the manifest's, taken before the copy.
Fetch(r, s) ==
    /\ Visits(r, s) /\ HasManifest(s) /\ ~Current(r, s)
    /\ pc' = [pc EXCEPT ![r] = "copy"]
    /\ at' = [at EXCEPT ![r] = s]
    /\ print' = [print EXCEPT ![r] = source[s].manifest]
    /\ UNCHANGED <<outside, memo, todo, staging, taken>>

\* copytree reads the files one after the other, in directory order.
CopyFile(r) ==
    /\ pc[r] = "copy" /\ source[at[r]] # Gone
    /\ \E f \in {g \in DOMAIN Empty : staging[r][g] = 0} :
          staging' = [staging EXCEPT ![r][f] = source[at[r]][f]]
    /\ pc' = IF 0 \in {staging'[r].content, staging'[r].manifest}
             THEN pc ELSE [pc EXCEPT ![r] = "remove"]
    /\ UNCHANGED <<outside, memo, todo, at, print, taken>>

WholeCopy(c) == c # Absent /\ c.content # 0 /\ c.manifest # 0

\* A run that is over keeps no locals; what it leaves is its staging directory.
End(r, how) ==
    /\ pc' = [pc EXCEPT ![r] = how]
    /\ memo' = [memo EXCEPT ![r] = Nothing] /\ taken' = [taken EXCEPT ![r] = Nothing]
    /\ todo' = [todo EXCEPT ![r] = {}] /\ print' = [print EXCEPT ![r] = 0]
    /\ UNCHANGED <<source, record, overlapped, at>>

\* The handler of _replace_tree drops the staging directory and raises on, out of the run.
Raise(r) ==
    /\ End(r, "failed")
    /\ staging' = [staging EXCEPT ![r] = Empty]
    /\ exposed' = exposed \cup {s \in {at[r]} \cap Sessions : pc[r] # "copy" /\ ~WholeCopy(archive'[s])}

CopyFails(r) == pc[r] = "copy" /\ source[at[r]] = Gone /\ UNCHANGED archive /\ Raise(r)

\* What a removal leaves of a copy, when it fails in part or is cut short.
Halves(c) ==
    IF c = Absent THEN {Absent}
    ELSE {c, [c EXCEPT !.content = 0], [c EXCEPT !.manifest = 0], Empty, Absent}

\* rmtree with ignore_errors: nobody asks what is left.
Remove(r) ==
    /\ pc[r] = "remove"
    /\ \E c \in Halves(archive[at[r]]) : archive' = [archive EXCEPT ![at[r]] = c]
    /\ pc' = [pc EXCEPT ![r] = "replace"]
    /\ UNCHANGED <<source, record, overlapped, exposed, memo, todo, at, print, staging, taken>>

\* Mutant of Replace: the fingerprint is taken after the copy.
ReplaceThenPrint(r) ==
    /\ pc[r] = "replace" /\ archive[at[r]] \in {Absent, Empty}
    /\ archive' = [archive EXCEPT ![at[r]] = staging[r]]
    /\ taken' = IF HasManifest(at[r]) /\ at[r] \in Sessions
                THEN [taken EXCEPT ![r][at[r]] = source[at[r]].manifest] ELSE taken
    /\ todo' = [todo EXCEPT ![r] = @ \ {at[r]}]
    /\ at' = [at EXCEPT ![r] = None]
    /\ staging' = [staging EXCEPT ![r] = Empty]
    /\ pc' = [pc EXCEPT ![r] = "walk"]
    /\ UNCHANGED <<source, record, overlapped, exposed, memo, print>>

Replace(r) ==
    /\ pc[r] = "replace" /\ archive[at[r]] \in {Absent, Empty}
    /\ archive' = [archive EXCEPT ![at[r]] = staging[r]]
    /\ taken' = IF at[r] \in Sessions THEN [taken EXCEPT ![r][at[r]] = print[r]] ELSE taken
    /\ todo' = [todo EXCEPT ![r] = @ \ {at[r]}]
    /\ at' = [at EXCEPT ![r] = None]
    /\ staging' = [staging EXCEPT ![r] = Empty]
    /\ pc' = [pc EXCEPT ![r] = "walk"]
    /\ UNCHANGED <<source, record, overlapped, exposed, memo, print>>

\* rename(2) refuses a directory that is not empty: one another run has put there
\* meanwhile, or the rest of the old copy.
Clash(r) ==
    pc[r] = "replace" /\ archive[at[r]] \notin {Absent, Empty} /\ UNCHANGED archive /\ Raise(r)

\* Mutant of Merged: the record lists what this run backed up.
OwnOnly(r) == taken[r]

Merged(r) == [s \in Sessions |-> IF taken[r][s] # 0 THEN taken[r][s] ELSE memo[r][s]]

WriteRecord(r) ==
    /\ pc[r] = "walk" /\ todo[r] = {}
    /\ record' = Merged(r)
    /\ pc' = [pc EXCEPT ![r] = "verify"]
    /\ UNCHANGED <<source, archive, overlapped, exposed, memo, todo, at, print, staging, taken>>

\* verify_session on a copy: "incomplete" findings do not fail the run.
Verdict(c) ==
    IF c.manifest = 0 THEN "incomplete"
    ELSE IF c.content # c.manifest THEN "invalid" ELSE "intact"

\* Mutant of Verify: a run checks only what it copied.
VerifyOwn(r) ==
    /\ pc[r] = "verify"
    /\ LET bad == {s \in Sessions : taken[r][s] # 0 /\ Verdict(archive[s]) = "invalid"}
       IN  End(r, IF bad = {} THEN "clean" ELSE "failed")
    /\ UNCHANGED <<archive, exposed, staging>>

Verify(r) ==
    /\ pc[r] = "verify"
    /\ LET bad == {s \in Sessions : archive[s] # Absent /\ Verdict(archive[s]) = "invalid"}
       IN  End(r, IF bad = {} /\ taken[r] # Nothing THEN "clean" ELSE "failed")
    /\ UNCHANGED <<archive, exposed, staging>>

-----------------------------------------------------------------------------
(* Ends nobody asked for. *)

CutRemoval(r) ==
    IF pc[r] = "remove"
    THEN \E c \in Halves(archive[at[r]]) : archive' = [archive EXCEPT ![at[r]] = c]
    ELSE archive' = archive

\* SIGKILL or power loss: no handler runs, the staging directory stays.
Kill(r) ==
    /\ pc[r] \in Running
    /\ CutRemoval(r)
    /\ End(r, "killed") /\ UNCHANGED <<exposed, staging>>

\* KeyboardInterrupt inside the try of _replace_tree.
Interrupt(r) == pc[r] \in {"copy", "remove", "replace"} /\ CutRemoval(r) /\ Raise(r)

Step(r) ==
    \/ Begin(r) \/ CopyFile(r) \/ CopyFails(r) \/ Remove(r) \/ Replace(r) \/ Clash(r)
    \/ WriteRecord(r) \/ Verify(r) \/ Kill(r) \/ Interrupt(r)
    \/ \E s \in Entries : Skip(r, s) \/ Unchanged(r, s) \/ Fetch(r, s)

Next ==
    \/ \E s \in Sessions : Rewrite(s) \/ Stamp(s) \/ Prune(s)
    \/ \E r \in Runs : Step(r)

Spec == Init /\ [][Next]_vars

-----------------------------------------------------------------------------
Staged(s) == \E r \in Runs : at[r] = s /\ staging[r].content # 0 /\ staging[r].manifest # 0

\* The files of s exist somewhere: in the store, whole in the archive, or whole in a
\* staging directory an operator can still rename by hand.
Held(s) == source[s] # Gone \/ WholeCopy(archive[s]) \/ Staged(s)

\* A session the backup's record names is always whole somewhere, whatever is pruned,
\* killed, run twice or removed in part: _replace_tree stages the whole copy before
\* it removes the old one.  The exception is an entry whose staged copy a handler has
\* dropped after that removal began.
EvidenceHeld == \A s \in Sessions \ exposed : record[s] # 0 => Held(s)

\* As long as runs do not overlap, what the record says can be acted on.  No run takes
\* a session in it back to an older finalize, and only one that could not read it drops
\* any: those the store has pruned, no other.  And a run that calls a session unchanged
\* is right: the copy in the archive was made from the finalize the store now has,
\* though backup_store looks at the recorded fingerprint only.
RecordTrusted ==
    [][~overlapped => \A s \in Sessions :
          /\ \/ record'[s] >= record[s]
             \/ /\ record'[s] = 0 /\ source[s] = Gone
                /\ \E r \in Runs : pc[r] = "walk" /\ pc'[r] = "verify" /\ memo[r] = Nothing
          /\ \A r \in Runs : taken'[r][s] \notin {0, taken[r][s]} /\ archive' = archive
                => archive[s].manifest \in {0, source[s].manifest}]_vars

\* When a run exits 0, the archive holds every session it counted as backed up,
\* at least as new as the fingerprint the record now has of it (a session that
\* was finalized again during the copy may be newer), and nothing in the archive
\* is torn, whoever copied it ("the whole destination, not only this run's copy").
CleanRunMeansHeld ==
    [][\A r \in Runs, s \in Sessions :
          pc'[r] = "clean" /\ pc[r] # "clean" /\ ~overlapped =>
              /\ taken[r][s] # 0 => archive[s] # Absent
              /\ archive[s] # Absent => Verdict(archive[s]) # "invalid"
              /\ archive[s] # Absent /\ archive[s].manifest # 0
                    => archive[s].manifest >= record[s]]_vars

(* What the documentation says and the code does not do; the README has the   *)
(* counterexamples.                                                           *)

\* "the backup's own record is merged forward", and one that cannot be parsed "only
\* costs the incremental skip".
RecordMergedForward == [][~overlapped => \A s \in Sessions : record'[s] >= record[s]]_vars

\* "losing it there costs a rerun, not evidence".
NothingExposed == \A s \in Sessions : record[s] # 0 => Held(s)
=============================================================================
