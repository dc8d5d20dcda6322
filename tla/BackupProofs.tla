---------------------------- MODULE BackupProofs ----------------------------
(***************************************************************************)
(* What holds of the backups of a store of any size, for any number of     *)
(* runs, finalizes and kills: types, that no session of the record is ever *)
(* in no place at all, and that the record can be trusted as long as runs  *)
(* do not overlap.                                                         *)
(***************************************************************************)
EXTENDS Backup, TLAPS

USE BackupAssumption

LEMMA NewCopies == \A c \in Copies, v \in Versions :
    /\ [c EXCEPT !.content = v] \in Copies /\ [c EXCEPT !.manifest = v] \in Copies
    /\ c.content \in Versions /\ c.manifest \in Versions
BY DEF Copies

LEMMA Constants == Empty \in Copies /\ Nothing \in [Sessions -> Versions] /\ 0 \in Versions
BY DEF Empty, Copies, Nothing, Versions

LEMMA HalvesAreCopies ==
    ASSUME NEW c \in Copies \cup {Absent}
    PROVE  Halves(c) \subseteq Copies \cup {Absent}
BY NewCopies, Constants DEF Halves

\* TypeOK, and where a run is in relation to the entry it replaces.
Typed ==
    /\ TypeOK
    /\ \A r \in Runs : pc[r] \in {"copy", "remove", "replace"} => at[r] \in Entries /\ at[r] \in todo[r]
    /\ \A r \in Runs : pc[r] \in {"idle", "walk", "verify"} => at[r] = None

LEMMA CutRemovalTyped ==
    ASSUME Typed, NEW r \in Runs, CutRemoval(r)
    PROVE  /\ archive' \in [Entries -> Copies \cup {Absent}]
           /\ \A e \in Entries : e # at[r] \/ pc[r] # "remove" => archive'[e] = archive[e]
<1>1. CASE pc[r] = "remove"
    <2>1. at[r] \in Entries
        BY <1>1 DEF Typed
    <2>2. PICK c \in Halves(archive[at[r]]) : archive' = [archive EXCEPT ![at[r]] = c]
        BY <1>1 DEF CutRemoval
    <2>3. c \in Copies \cup {Absent}
        BY <2>1, <2>2, HalvesAreCopies DEF Typed, TypeOK
    <2> QED
        BY <1>1, <2>1, <2>2, <2>3 DEF Typed, TypeOK
<1>2. CASE pc[r] # "remove"
    BY <1>2 DEF CutRemoval, Typed, TypeOK
<1> QED
    BY <1>1, <1>2

LEMMA RemoveTyped ==
    ASSUME Typed, NEW r \in Runs, Remove(r)
    PROVE  /\ archive' \in [Entries -> Copies \cup {Absent}]
           /\ \A e \in Entries : e # at[r] => archive'[e] = archive[e]
           /\ archive'[at[r]] \in Halves(archive[at[r]]) /\ at[r] \in Entries
<1>1. at[r] \in Entries
    BY DEF Remove, Typed
<1>2. PICK c \in Halves(archive[at[r]]) : archive' = [archive EXCEPT ![at[r]] = c]
    BY DEF Remove
<1>3. c \in Copies \cup {Absent}
    BY <1>1, <1>2, HalvesAreCopies DEF Typed, TypeOK
<1> QED
    BY <1>1, <1>2, <1>3 DEF Typed, TypeOK

LEMMA TypedStep == Typed /\ [Next]_vars => Typed'
<1> SUFFICES ASSUME Typed, [Next]_vars PROVE Typed'
    OBVIOUS
<1> USE Constants DEF Typed, TypeOK
<1>r. Running \subseteq {"idle"} \cup Running \cup Ended /\ None \notin Entries
    OBVIOUS
<1>1. ASSUME NEW s \in Sessions, Rewrite(s) PROVE Typed'
    <2>0. source[s] \in Copies /\ source[s].content < MaxVersion
        BY <1>1 DEF Rewrite, Entries
    <2>1. source[s].content + 1 \in Versions
        <3>1. source[s].content \in Versions
            BY <2>0, NewCopies
        <3> QED
            BY <2>0, <3>1 DEF Versions
    <2>2. [source[s] EXCEPT !.content = source[s].content + 1] \in Copies
        BY <2>0, <2>1, NewCopies
    <2>3. source' \in [Entries -> Copies \cup {Gone}]
        BY <1>1, <2>2 DEF Rewrite, Entries
    <2> QED
        BY <1>1, <2>3 DEF Rewrite, locals
<1>2. ASSUME NEW s \in Sessions, Stamp(s) PROVE Typed'
    <2>1. source[s] \in Copies
        BY <1>2 DEF Stamp, Entries
    <2>2. [source[s] EXCEPT !.manifest = source[s].content] \in Copies
        BY <2>1, NewCopies
    <2>3. source' \in [Entries -> Copies \cup {Gone}]
        BY <1>2, <2>2 DEF Stamp, Entries
    <2> QED
        BY <1>2, <2>3 DEF Stamp, locals
<1>3. ASSUME NEW s \in Sessions, Prune(s) PROVE Typed'
    BY <1>3 DEF Prune, locals, Entries
<1>4. ASSUME NEW r \in Runs, Begin(r) PROVE Typed'
    <2>1. {s \in Sessions : source[s] # Gone} \cup Extras \in SUBSET Entries
        BY DEF Entries
    <2>2. overlapped' \in BOOLEAN
        BY <1>4 DEF Begin
    <2>3. pc' \in [Runs -> {"idle"} \cup Running \cup Ended] /\ pc'[r] = "walk"
        BY <1>4 DEF Begin, Running
    <2>4. /\ memo' \in [Runs -> [Sessions -> Versions]]
          /\ todo' \in [Runs -> SUBSET Entries]
        BY <1>4, <2>1 DEF Begin, ReadRecord
    <2>5. at[r] = None
        BY <1>4 DEF Begin
    <2> QED
        BY <1>4, <2>2, <2>3, <2>4, <2>5 DEF Begin, Running
<1>5. ASSUME NEW r \in Runs, NEW s \in Entries, Skip(r, s) PROVE Typed'
    BY <1>5 DEF Skip, Visits, outside
<1>6. ASSUME NEW r \in Runs, NEW s \in Entries, Unchanged(r, s) PROVE Typed'
    <2>1. s \in Sessions /\ source[s].manifest \in Versions
        BY <1>6, NewCopies DEF Unchanged, Current, HasManifest
    <2> QED
        BY <1>6, <2>1 DEF Unchanged, Visits, outside
<1>7. ASSUME NEW r \in Runs, NEW s \in Entries, Fetch(r, s) PROVE Typed'
    <2>1. source[s].manifest \in Versions
        BY <1>7, NewCopies DEF Fetch, HasManifest
    <2> QED
        BY <1>7, <2>1 DEF Fetch, Visits, outside, Running
<1>8. ASSUME NEW r \in Runs, CopyFile(r) PROVE Typed'
    <2>1. source[at[r]] \in Copies /\ at[r] \in Entries /\ staging[r] \in Copies
        BY <1>8 DEF CopyFile
    <2>2. PICK f \in {"content", "manifest"} : staging' = [staging EXCEPT ![r][f] = source[at[r]][f]]
        BY <1>8 DEF CopyFile, Empty
    <2>3. [staging[r] EXCEPT ![f] = source[at[r]][f]] \in Copies
        BY <2>1, NewCopies DEF Copies
    <2>4. staging' \in [Runs -> Copies]
        BY <2>2, <2>3
    <2>5. pc' \in {pc, [pc EXCEPT ![r] = "remove"]} /\ pc[r] = "copy"
        BY <1>8 DEF CopyFile
    <2> QED
        BY <1>8, <2>4, <2>5 DEF CopyFile, outside, Running
\* A run ends, with whatever is left of the copy at hand.
<1>17. ASSUME NEW r \in Runs, NEW how \in Ended, End(r, how),
              archive' \in [Entries -> Copies \cup {Absent}], staging' \in [Runs -> Copies],
              exposed' \subseteq Sessions
       PROVE  Typed'
    <2>1. pc' \in [Runs -> {"idle"} \cup Running \cup Ended]
        BY <1>17 DEF End
    <2>2. /\ memo' \in [Runs -> [Sessions -> Versions]] /\ taken' \in [Runs -> [Sessions -> Versions]]
          /\ todo' \in [Runs -> SUBSET Entries] /\ print' \in [Runs -> Versions]
        BY <1>17 DEF End
    <2>3. \A q \in Runs : \/ pc'[q] = pc[q] /\ todo'[q] = todo[q] /\ at'[q] = at[q]
                          \/ pc'[q] \in Ended
        BY <1>17 DEF End
    <2> QED
        BY <1>17, <2>1, <2>2, <2>3 DEF End, Ended
<1>9. ASSUME NEW r \in Runs, Raise(r), archive' \in [Entries -> Copies \cup {Absent}] PROVE Typed'
    <2>1. staging' \in [Runs -> Copies] /\ exposed' \subseteq Sessions /\ "failed" \in Ended
        BY <1>9 DEF Raise, Ended
    <2> QED
        BY <1>9, <1>17, <2>1 DEF Raise
<1>10. ASSUME NEW r \in Runs, Remove(r) PROVE Typed'
    BY <1>10, RemoveTyped DEF Remove, Running
<1>11. ASSUME NEW r \in Runs, Replace(r) PROVE Typed'
    <2>1. archive' \in [Entries -> Copies \cup {Absent}] /\ staging' \in [Runs -> Copies]
        BY <1>11 DEF Replace
    <2>2. taken' \in [Runs -> [Sessions -> Versions]]
        BY <1>11 DEF Replace
    <2> QED
        BY <1>11, <2>1, <2>2 DEF Replace, Running
<1>12. ASSUME NEW r \in Runs, WriteRecord(r) PROVE Typed'
    <2>1. Merged(r) \in [Sessions -> Versions]
        BY DEF Merged
    <2> QED
        BY <1>12, <2>1 DEF WriteRecord, Running
<1>13. ASSUME NEW r \in Runs, Verify(r) PROVE Typed'
    <2>1. PICK how \in Ended : End(r, how)
        BY <1>13 DEF Verify, Ended
    <2> QED
        BY <1>13, <1>17, <2>1 DEF Verify
<1>14. ASSUME NEW r \in Runs, Kill(r) PROVE Typed'
    <2>1. "killed" \in Ended
        BY DEF Ended
    <2> QED
        BY <1>14, <1>17, <2>1, CutRemovalTyped DEF Kill
<1>15. ASSUME NEW r \in Runs, Interrupt(r) PROVE Typed'
    BY <1>15, <1>9, CutRemovalTyped DEF Interrupt
<1>18. ASSUME NEW r \in Runs, CopyFails(r) \/ Clash(r) PROVE Typed'
    BY <1>18, <1>9 DEF CopyFails, Clash
<1>16. CASE UNCHANGED vars
    BY <1>16 DEF vars, outside, locals
<1> QED
    BY <1>1, <1>2, <1>3, <1>4, <1>5, <1>6, <1>7, <1>8, <1>10, <1>11, <1>12, <1>13, <1>14,
       <1>15, <1>16, <1>18 DEF Next, Step

LEMMA TypedAlways == Spec => []Typed
<1>1. Init => Typed
    <2> SUFFICES ASSUME Init PROVE Typed
        OBVIOUS
    <2>1. PICK m \in {0, 1} :
              /\ source = [s \in Entries |-> [content |-> 1, manifest |-> IF s \in Extras THEN 1 ELSE m]]
              /\ archive = [s \in Entries |-> IF m = 0 THEN Absent ELSE [content |-> 1, manifest |-> 1]]
              /\ record = [s \in Sessions |-> m]
        BY DEF Init
    <2>2. 0 \in Versions /\ 1 \in Versions
        BY DEF Versions
    <2>3. source \in [Entries -> Copies \cup {Gone}]
        BY <2>1, <2>2 DEF Copies
    <2>4. archive \in [Entries -> Copies \cup {Absent}]
        BY <2>1, <2>2 DEF Copies
    <2> QED
        BY <2>1, <2>2, <2>3, <2>4, Constants DEF Init, Typed, TypeOK
<1> QED
    BY <1>1, TypedStep, PTL DEF Spec

\* For any store and any number of runs, every state is well formed.
THEOREM TypeCorrect == Spec => []TypeOK
<1>1. Typed => TypeOK
    BY DEF Typed
<1> QED
    BY <1>1, TypedAlways, PTL

-----------------------------------------------------------------------------
(* The evidence is held.                                                    *)

Whole(r) == staging[r].content # 0 /\ staging[r].manifest # 0

\* The old copy is only removed next to a whole new one.
StagedFirst ==
    \A r \in Runs : /\ pc[r] \in {"remove", "replace"} => Whole(r)
                    /\ pc[r] = "copy" => ~Whole(r)
                    /\ pc[r] \in {"idle", "walk"} => staging[r] = Empty

Safe(s) == WholeCopy(archive[s]) \/ Staged(s)

\* What a run or the record knows as backed up, or the archive has any of, is whole in
\* the archive or beside it, unless a handler dropped it.
KnownSafe ==
    \A s \in Sessions \ exposed :
        /\ record[s] # 0 \/ archive[s] # Absent => Safe(s)
        /\ \A r \in Runs : taken[r][s] # 0 \/ memo[r][s] # 0 => Safe(s)

HeldInv == StagedFirst /\ KnownSafe

\* It is enough that nothing is known that is not safe, and nothing safe is lost.
LEMMA KnownKept ==
    ASSUME KnownSafe, exposed \subseteq exposed',
           \A s \in Sessions \ exposed' : Safe(s) => Safe(s)',
           \A s \in Sessions \ exposed' :
               /\ archive'[s] # Absent => archive[s] # Absent \/ Safe(s)'
               /\ record'[s] # 0 => record[s] # 0 \/ Safe(s)' \/ \E r \in Runs : taken[r][s] # 0 \/ memo[r][s] # 0
               /\ \A r \in Runs : taken'[r][s] # 0 \/ memo'[r][s] # 0
                                    => \/ taken[r][s] # 0 \/ memo[r][s] # 0 \/ record[s] # 0
                                       \/ archive[s] # Absent \/ Safe(s)'
    PROVE  KnownSafe'
<1> SUFFICES ASSUME NEW s \in Sessions \ exposed'
             PROVE  /\ record'[s] # 0 \/ archive'[s] # Absent => Safe(s)'
                    /\ \A r \in Runs : taken'[r][s] # 0 \/ memo'[r][s] # 0 => Safe(s)'
    BY DEF KnownSafe
<1>1. s \in Sessions \ exposed /\ (Safe(s) => Safe(s)')
    OBVIOUS
<1>2. /\ record[s] # 0 \/ archive[s] # Absent => Safe(s)'
      /\ \A r \in Runs : taken[r][s] # 0 \/ memo[r][s] # 0 => Safe(s)'
    BY <1>1 DEF KnownSafe
<1> QED
    BY <1>2

\* The staging directory of r aside, a step of r loses no copy but the one at hand.
LEMMA SafeKept ==
    ASSUME NEW r \in Runs, NEW s \in Sessions, Safe(s),
           archive'[s] = archive[s] \/ WholeCopy(archive'[s]) \/ Staged(s)',
           \A q \in Runs : q # r => staging'[q] = staging[q] /\ at'[q] = at[q],
           at[r] = s /\ Whole(r) => (at'[r] = s /\ staging'[r] = staging[r]) \/ WholeCopy(archive'[s])
    PROVE  Safe(s)'
BY DEF Safe, Staged, Whole, WholeCopy

LEMMA HeldStep ==
    ASSUME HeldInv, Typed, [Next]_vars
    PROVE  HeldInv'
<1> USE DEF HeldInv
<1>t. TypeOK
    BY DEF Typed
<1>n. None \notin Entries /\ Sessions \subseteq Entries /\ Absent \notin Copies
    BY DEF Entries
<1>e. Empty.content = 0
    BY DEF Empty
\* A step that touches neither archive, staging, nor what is known.
<1>k. ASSUME UNCHANGED <<archive, staging, at, record, taken, memo, exposed>>,
             \A r \in Runs : pc'[r] = pc[r] \/ pc'[r] \notin {"idle", "walk", "copy", "remove", "replace"}
      PROVE  HeldInv'
    <2>1. StagedFirst'
        BY <1>k DEF StagedFirst, Whole
    <2>2. KnownSafe'
        BY <1>k DEF KnownSafe, Safe, Staged, WholeCopy
    <2> QED
        BY <2>1, <2>2
<1>1. CASE \E s \in Sessions : Rewrite(s) \/ Stamp(s) \/ Prune(s)
    BY <1>1, <1>k DEF Rewrite, Stamp, Prune, locals
<1>2. ASSUME NEW r \in Runs, Begin(r) PROVE HeldInv'
    <2>1. StagedFirst'
        BY <1>2, <1>t DEF Begin, StagedFirst, Whole, TypeOK
    <2>2. \A s \in Sessions : Safe(s) => Safe(s)'
        BY <1>2 DEF Begin, Safe, Staged, WholeCopy
    <2>3. \A q \in Runs, s \in Sessions : memo'[q][s] \in {memo[q][s], record[s], 0}
        BY <1>2, <1>t DEF Begin, ReadRecord, TypeOK, Nothing
    <2> QED
        BY <1>2, <2>1, <2>2, <2>3, KnownKept DEF Begin
<1>3. ASSUME NEW r \in Runs, NEW s \in Entries, Skip(r, s) PROVE HeldInv'
    BY <1>3, <1>k DEF Skip, outside
<1>4. ASSUME NEW r \in Runs, NEW s \in Entries, Unchanged(r, s) PROVE HeldInv'
    <2>1. StagedFirst' /\ s \in Sessions /\ archive[s] # Absent
        BY <1>4 DEF Unchanged, Current, StagedFirst, Whole
    <2>2. \A e \in Sessions : Safe(e) => Safe(e)'
        BY <1>4 DEF Unchanged, Safe, Staged, WholeCopy, outside
    <2>4. \A q \in Runs, e \in Sessions : taken'[q][e] = taken[q][e] \/ e = s
        BY <1>4, <1>t, <2>1 DEF Unchanged, TypeOK
    <2> QED
        BY <1>4, <2>1, <2>2, <2>4, KnownKept DEF Unchanged, outside
<1>5. ASSUME NEW r \in Runs, NEW s \in Entries, Fetch(r, s) PROVE HeldInv'
    <2>1. at[r] = None /\ pc[r] = "walk" /\ ~Whole(r)
        BY <1>5, <1>e DEF Fetch, Visits, Typed, StagedFirst, Whole
    <2>2. UNCHANGED <<archive, staging, record, taken, memo, exposed>>
        BY <1>5 DEF Fetch, outside
    <2>3. pc' = [pc EXCEPT ![r] = "copy"] /\ \A q \in Runs : q # r => at'[q] = at[q]
        BY <1>5, <1>t DEF Fetch, TypeOK
    <2>4. \A e \in Sessions : Safe(e) => Safe(e)'
        BY <2>1, <2>2, <2>3, SafeKept
    <2>5. StagedFirst'
        BY <1>t, <2>1, <2>2, <2>3 DEF StagedFirst, Whole, TypeOK
    <2> QED
        BY <2>2, <2>4, <2>5, KnownKept
<1>6. ASSUME NEW r \in Runs, CopyFile(r) PROVE HeldInv'
    <2>1. pc[r] = "copy" /\ ~Whole(r) /\ UNCHANGED <<archive, at, record, taken, memo, exposed>>
        BY <1>6 DEF CopyFile, StagedFirst, outside
    <2>2. \A q \in Runs : q # r => staging'[q] = staging[q] /\ pc'[q] = pc[q]
        BY <1>6, <1>t DEF CopyFile, TypeOK
    <2>3. pc'[r] = IF Whole(r)' THEN "remove" ELSE "copy"
        BY <1>6, <1>t, <2>1 DEF CopyFile, TypeOK, Whole
    <2>4. StagedFirst'
        BY <2>2, <2>3 DEF StagedFirst, Whole
    <2>5. \A e \in Sessions : Safe(e) => Safe(e)'
        BY <2>1, <2>2, SafeKept
    <2> QED
        BY <2>1, <2>4, <2>5, KnownKept
\* A run ends: it knows nothing any more, and its directory is left or dropped.
<1>17. ASSUME NEW r \in Runs, NEW how \in Ended, End(r, how), exposed \subseteq exposed',
              \A q \in Runs : q # r => staging'[q] = staging[q],
              \A e \in Sessions \ exposed' :
                 /\ Safe(e) => Safe(e)'
                 /\ archive'[e] # Absent => archive[e] # Absent
       PROVE  HeldInv'
    <2>1. \A q \in Runs : q # r => pc'[q] = pc[q] /\ taken'[q] = taken[q] /\ memo'[q] = memo[q]
        BY <1>17, <1>t DEF End, TypeOK
    <2>2. pc'[r] \in Ended /\ \A e \in Sessions : taken'[r][e] = 0 /\ memo'[r][e] = 0
        BY <1>17, <1>t DEF End, TypeOK, Nothing
    <2>3. StagedFirst'
        BY <1>17, <2>1, <2>2 DEF StagedFirst, Whole, Ended
    <2>4. UNCHANGED record
        BY <1>17 DEF End
    <2>5. \A e \in Sessions \ exposed', q \in Runs :
             taken'[q][e] # 0 \/ memo'[q][e] # 0 => taken[q][e] # 0 \/ memo[q][e] # 0
        BY <2>1, <2>2
    <2> QED
        BY <1>17, <2>3, <2>4, <2>5, KnownKept
\* A handler drops the staging directory.
<1>7. ASSUME NEW r \in Runs, Raise(r), pc[r] \in {"copy", "remove", "replace"},
             \A e \in Entries : e # at[r] \/ pc[r] = "copy" => archive'[e] = archive[e],
             at[r] \in Sessions /\ archive'[at[r]] # Absent => archive[at[r]] # Absent
      PROVE  HeldInv'
    <2>1. End(r, "failed") /\ "failed" \in Ended /\ exposed \subseteq exposed' /\ UNCHANGED at
        BY <1>7 DEF Raise, End, Ended
    <2>2. \A q \in Runs : q # r => staging'[q] = staging[q]
        BY <1>7, <1>t DEF Raise, TypeOK
    <2>3. ASSUME NEW e \in Sessions \ exposed', Safe(e) PROVE Safe(e)'
        <3>1. CASE e = at[r] /\ pc[r] # "copy"
            <4>1. WholeCopy(archive'[e])
                BY <1>7, <2>3, <3>1 DEF Raise
            <4> QED
                BY <4>1 DEF Safe, WholeCopy
        <3>2. CASE e # at[r] \/ pc[r] = "copy"
            <4>1. archive'[e] = archive[e] /\ ~(at[r] = e /\ Whole(r))
                BY <1>7, <1>n, <3>2 DEF StagedFirst
            <4> QED
                BY <2>1, <2>2, <2>3, <4>1, SafeKept
        <3> QED
            BY <3>1, <3>2
    <2>4. \A e \in Sessions : archive'[e] # Absent => archive[e] # Absent
        BY <1>7, <1>n
    <2> QED
        BY <1>17, <2>1, <2>2, <2>3, <2>4
<1>8. ASSUME NEW r \in Runs, CopyFails(r) PROVE HeldInv'
    BY <1>8, <1>7 DEF CopyFails
<1>9. ASSUME NEW r \in Runs, Clash(r) PROVE HeldInv'
    BY <1>9, <1>7 DEF Clash
<1>10. ASSUME NEW r \in Runs, Remove(r) PROVE HeldInv'
    <2>1. Whole(r) /\ UNCHANGED <<staging, at, record, taken, memo, exposed>>
        BY <1>10 DEF Remove, StagedFirst
    <2>2. /\ \A e \in Entries : e # at[r] => archive'[e] = archive[e]
          /\ archive'[at[r]] \in Halves(archive[at[r]])
        BY <1>10, RemoveTyped
    <2>3. StagedFirst'
        BY <1>10, <1>t, <2>1 DEF Remove, StagedFirst, Whole, TypeOK
    <2>4. ASSUME NEW e \in Sessions, Safe(e) PROVE Safe(e)'
        <3>1. e = at[r] => Staged(e)'
            BY <2>1 DEF Staged, Whole
        <3> QED
            BY <1>n, <2>1, <2>2, <2>4, <3>1, SafeKept
    <2>5. ASSUME NEW e \in Sessions, archive'[e] # Absent PROVE archive[e] # Absent
        BY <1>n, <2>2, <2>5 DEF Halves
    <2> QED
        BY <2>1, <2>3, <2>4, <2>5, KnownKept
<1>11. ASSUME NEW r \in Runs, Replace(r) PROVE HeldInv'
    <2>1. /\ at[r] \in Entries /\ staging[r] \in Copies /\ UNCHANGED <<record, memo, exposed>>
          /\ Whole(r)
        BY <1>11, <1>t DEF Replace, Typed, TypeOK, StagedFirst
    <2>2. /\ WholeCopy(archive'[at[r]])
          /\ \A e \in Entries : e # at[r] => archive'[e] = archive[e]
        BY <1>11, <1>t, <1>n, <2>1 DEF Replace, TypeOK, Whole, WholeCopy
    <2>3. \A q \in Runs : q # r => staging'[q] = staging[q] /\ at'[q] = at[q] /\ pc'[q] = pc[q]
        BY <1>11, <1>t DEF Replace, TypeOK
    <2>4. pc'[r] = "walk" /\ staging'[r] = Empty
        BY <1>11, <1>t DEF Replace, TypeOK
    <2>5. StagedFirst'
        BY <2>3, <2>4 DEF StagedFirst, Whole
    <2>6. ASSUME NEW e \in Sessions, Safe(e) PROVE Safe(e)'
        BY <1>n, <2>2, <2>3, <2>6, SafeKept
    <2>7. \A q \in Runs, e \in Sessions : taken'[q][e] = taken[q][e] \/ (e = at[r] /\ Safe(e)')
        BY <1>11, <1>t, <2>2 DEF Replace, TypeOK, Safe, WholeCopy
    <2>8. \A e \in Sessions : archive'[e] # Absent => archive[e] # Absent \/ Safe(e)'
        BY <1>n, <2>2 DEF Safe, WholeCopy
    <2> QED
        BY <2>1, <2>5, <2>6, <2>7, <2>8, KnownKept
<1>12. ASSUME NEW r \in Runs, WriteRecord(r) PROVE HeldInv'
    <2>1. StagedFirst'
        BY <1>12, <1>t DEF WriteRecord, StagedFirst, Whole, TypeOK
    <2>2. \A e \in Sessions : Safe(e) => Safe(e)'
        BY <1>12 DEF WriteRecord, Safe, Staged, WholeCopy
    <2>3. \A e \in Sessions : record'[e] \in {taken[r][e], memo[r][e]}
        BY <1>12 DEF WriteRecord, Merged
    <2> QED
        BY <1>12, <2>1, <2>2, <2>3, KnownKept DEF WriteRecord
<1>13. ASSUME NEW r \in Runs, Verify(r) PROVE HeldInv'
    <2>1. PICK how \in Ended : End(r, how)
        BY <1>13 DEF Verify, Ended
    <2>2. UNCHANGED <<archive, exposed, staging, at>>
        BY <1>13, <2>1 DEF Verify, End
    <2>3. \A e \in Sessions : Safe(e) => Safe(e)'
        BY <2>2 DEF Safe, Staged, WholeCopy
    <2> QED
        BY <1>17, <2>1, <2>2, <2>3
\* What a removal leaves of the copy at hand.
<1>c. ASSUME NEW r \in Runs, CutRemoval(r)
      PROVE  /\ \A e \in Entries : e # at[r] \/ pc[r] # "remove" => archive'[e] = archive[e]
             /\ \A e \in Entries : archive'[e] # Absent => archive[e] # Absent
    <2>1. \A e \in Entries : e # at[r] \/ pc[r] # "remove" => archive'[e] = archive[e]
        BY <1>c, CutRemovalTyped
    <2>2. ASSUME NEW e \in Entries, e = at[r], pc[r] = "remove", archive'[e] # Absent
          PROVE  archive[e] # Absent
        <3>1. PICK c \in Halves(archive[e]) : archive' = [archive EXCEPT ![e] = c]
            BY <1>c, <2>2 DEF CutRemoval
        <3>2. archive'[e] = c
            BY <1>t, <3>1 DEF TypeOK
        <3> QED
            BY <2>2, <3>1, <3>2 DEF Halves
    <2> QED
        BY <2>1, <2>2
<1>14. ASSUME NEW r \in Runs, Kill(r) PROVE HeldInv'
    <2>1. End(r, "killed") /\ "killed" \in Ended /\ UNCHANGED <<staging, at, exposed>> /\ CutRemoval(r)
        BY <1>14 DEF Kill, End, Ended
    <2>3. ASSUME NEW e \in Sessions, Safe(e) PROVE Safe(e)'
        <3>1. CASE e = at[r] /\ pc[r] = "remove"
            BY <2>1, <3>1 DEF Safe, Staged, StagedFirst, Whole
        <3>2. CASE e # at[r] \/ pc[r] # "remove"
            BY <1>n, <1>c, <2>1, <2>3, <3>2, SafeKept
        <3> QED
            BY <3>1, <3>2
    <2>4. \A e \in Sessions : archive'[e] # Absent => archive[e] # Absent
        BY <1>n, <1>c, <2>1
    <2> QED
        BY <1>17, <2>1, <2>3, <2>4
<1>15. ASSUME NEW r \in Runs, Interrupt(r) PROVE HeldInv'
    <2>1. Raise(r) /\ CutRemoval(r) /\ pc[r] \in {"copy", "remove", "replace"}
        BY <1>15 DEF Interrupt
    <2> QED
        BY <1>7, <1>c, <1>n, <2>1
<1>16. CASE UNCHANGED vars
    BY <1>16, <1>k DEF vars, outside, locals
<1> QED
    BY <1>1, <1>2, <1>3, <1>4, <1>5, <1>6, <1>8, <1>9, <1>10, <1>11, <1>12, <1>13, <1>14,
       <1>15, <1>16 DEF Next, Step

LEMMA HeldAlways == Spec => []HeldInv
<1>1. Init => HeldInv
    <2> SUFFICES ASSUME Init PROVE HeldInv
        OBVIOUS
    <2>1. StagedFirst
        BY DEF Init, StagedFirst
    <2>2. \A s \in Sessions : s \in Entries
        BY DEF Entries
    <2>3. PICK m \in {0, 1} :
              /\ archive = [s \in Entries |-> IF m = 0 THEN Absent ELSE [content |-> 1, manifest |-> 1]]
              /\ record = [s \in Sessions |-> m]
        BY DEF Init
    <2>4. [content |-> 1, manifest |-> 1] \in Copies
        BY DEF Copies, Versions
    <2>5. \A s \in Sessions : archive[s] \in {Absent, [content |-> 1, manifest |-> 1]}
        BY <2>2, <2>3
    <2>6. \A s \in Sessions : record[s] # 0 \/ archive[s] # Absent => Safe(s)
        <3>1. m # 0 \/ archive # [s \in Entries |-> Absent] => m = 1
            BY <2>3
        <3>2. WholeCopy([content |-> 1, manifest |-> 1])
            BY <2>4 DEF WholeCopy
        <3> QED
            BY <2>2, <2>3, <2>5, <3>2 DEF Safe
    <2> QED
        BY <2>1, <2>6 DEF Init, HeldInv, KnownSafe, Nothing
<1> QED
    BY <1>1, HeldStep, TypedAlways, PTL DEF Spec

\* For any store and any number of overlapping, killed and interrupted runs: a session
\* of the record is always whole somewhere, unless a handler dropped its staged copy
\* after the removal of the old one had begun.
THEOREM EvidenceAlwaysHeld == Spec => []EvidenceHeld
<1>1. HeldInv => EvidenceHeld
    BY DEF HeldInv, KnownSafe, Safe, EvidenceHeld, Held
<1> QED
    BY <1>1, HeldAlways, PTL

-----------------------------------------------------------------------------
(* One run at a time: what the record says is true of store and archive.    *)

\* A finalize never takes a manifest back.
Ordered == \A s \in Entries : source[s] # Gone => source[s].manifest <= source[s].content

Fresh(v, s) == source[s] # Gone => v <= source[s].manifest

\* A copy whose removal was cut short may lack its manifest.
AtLeast(c, v) == c.manifest = 0 \/ c.manifest >= v

Trusted(s) ==
    /\ Fresh(record[s], s)
    /\ archive[s] # Absent => Fresh(archive[s].manifest, s) /\ AtLeast(archive[s], record[s])

Took(r, s) ==
    /\ s \in todo[r] => taken[r][s] = 0
    /\ record[s] # 0 => s \in todo[r] \/ taken[r][s] # 0 \/ source[s] = Gone
    /\ taken[r][s] # 0 => /\ Fresh(taken[r][s], s) /\ taken[r][s] >= record[s]
                          /\ archive[s] # Absent /\ AtLeast(archive[s], taken[r][s])

Copying(r) ==
    at[r] \in Sessions => /\ Fresh(print[r], at[r]) /\ print[r] >= record[at[r]]
                          /\ Fresh(staging[r].manifest, at[r]) /\ AtLeast(staging[r], print[r])

Own(r) ==
    /\ pc[r] = "idle" => taken[r] = Nothing
    /\ pc[r] \in {"idle", "walk"} => staging[r] = Empty
    /\ pc[r] \in {"walk", "copy", "remove", "replace"} => memo[r] \in {record, Nothing}
    /\ pc[r] \in {"copy", "remove", "replace"} => Copying(r)
    /\ pc[r] \in Running => \A s \in Sessions : Took(r, s)

Alone == \A r, q \in Runs : pc[r] \in Running /\ pc[q] \in Running => r = q

Sequential == Alone /\ (\A s \in Sessions : Trusted(s)) /\ \A r \in Runs : Own(r)

TrustInv == Ordered /\ (~overlapped => Sequential)

LEMMA CopyNumbers ==
    /\ Versions \subseteq Nat
    /\ \A c \in Copies : c.manifest \in Nat /\ c.content \in Nat
BY DEF Copies, Versions

LEMMA Numbers ==
    ASSUME TypeOK
    PROVE  /\ \A s \in Entries : source[s] # Gone => source[s].manifest \in Nat /\ source[s].content \in Nat
           /\ \A s \in Entries : archive[s] # Absent => archive[s].manifest \in Nat
           /\ \A r \in Runs : staging[r].manifest \in Nat /\ print[r] \in Nat
           /\ \A s \in Sessions : record[s] \in Nat /\ \A r \in Runs : taken[r][s] \in Nat /\ memo[r][s] \in Nat
           /\ Sessions \subseteq Entries
<1>1. \A s \in Entries : source[s] # Gone => source[s].manifest \in Nat /\ source[s].content \in Nat
    BY CopyNumbers DEF TypeOK
<1>2. \A s \in Entries : archive[s] # Absent => archive[s].manifest \in Nat
    BY CopyNumbers DEF TypeOK
<1>3. \A r \in Runs : staging[r].manifest \in Nat /\ print[r] \in Nat
    BY CopyNumbers DEF TypeOK
<1>4. \A s \in Sessions : record[s] \in Nat /\ \A r \in Runs : taken[r][s] \in Nat /\ memo[r][s] \in Nat
    <2>1. \A s \in Sessions : record[s] \in Versions
        BY DEF TypeOK
    <2>2. \A r \in Runs : taken[r] \in [Sessions -> Versions] /\ memo[r] \in [Sessions -> Versions]
        BY DEF TypeOK
    <2> QED
        BY <2>1, <2>2, CopyNumbers
<1> QED
    BY <1>1, <1>2, <1>3, <1>4 DEF Entries

LEMMA StoreSteps ==
    ASSUME TrustInv, Typed, NEW s \in Sessions, Rewrite(s) \/ Stamp(s) \/ Prune(s)
    PROVE  TrustInv'
<1>t. TypeOK
    BY DEF Typed
<1>1. UNCHANGED <<archive, record, overlapped, pc, memo, todo, at, print, staging, taken>>
    BY DEF Rewrite, Stamp, Prune, locals
<1>2. /\ \A e \in Entries : e # s => source'[e] = source[e]
      /\ source'[s] # Gone => /\ source[s] # Gone /\ source[s].manifest <= source'[s].manifest
                              /\ source'[s].manifest <= source'[s].content
    <2>0. s \in Entries
        BY DEF Entries
    <2>1. CASE Rewrite(s)
        <3>1. source' = [source EXCEPT ![s] = [source[s] EXCEPT !.content = source[s].content + 1]]
              /\ source[s] \in Copies
            BY <1>t, <2>0, <2>1 DEF Rewrite, TypeOK
        <3>2. source'[s].manifest = source[s].manifest /\ source'[s].content = source[s].content + 1
            BY <1>t, <2>0, <3>1 DEF TypeOK, Copies
        <3> QED
            BY <1>t, <2>0, <2>1, <3>1, <3>2, Numbers DEF TrustInv, Ordered, Rewrite, TypeOK
    <2>2. CASE Stamp(s)
        <3>1. source' = [source EXCEPT ![s] = [source[s] EXCEPT !.manifest = source[s].content]]
              /\ source[s] \in Copies
            BY <1>t, <2>0, <2>2 DEF Stamp, TypeOK
        <3>2. source'[s].manifest = source[s].content /\ source'[s].content = source[s].content
            BY <1>t, <2>0, <3>1 DEF TypeOK, Copies
        <3> QED
            BY <1>t, <2>0, <2>2, <3>1, <3>2, Numbers DEF TrustInv, Ordered, Stamp, TypeOK
    <2>3. CASE Prune(s)
        BY <1>t, <2>0, <2>3 DEF Prune, TypeOK
    <2> QED
        BY <2>1, <2>2, <2>3
<1>3. Ordered'
    BY <1>2 DEF TrustInv, Ordered
<1>4. \A e \in Sessions, v \in Nat : Fresh(v, e) => Fresh(v, e)'
    <2>1. \A e \in Sessions : source'[e] # Gone => /\ source[e] # Gone /\ source[e].manifest <= source'[e].manifest
                                                   /\ source'[e].manifest \in Nat /\ source[e].manifest \in Nat
        <3>1. TypeOK'
            BY TypedStep DEF Next, Typed
        <3>2. \A e \in Sessions : e \in Entries
            BY DEF Entries
        <3>3. \A e \in Entries : source'[e] # Gone => source'[e].manifest \in Nat
            BY <3>1, CopyNumbers DEF TypeOK
        <3> QED
            BY <1>t, <1>2, <3>2, <3>3, Numbers
    <2> QED
        BY <2>1 DEF Fresh
<1>6. \A e \in Sessions : source[e] = Gone => source'[e] = Gone
    BY <1>2 DEF Entries
<1>5. ~overlapped => Sequential'
    <2> SUFFICES ASSUME ~overlapped PROVE Sequential'
        OBVIOUS
    <2>1. Alone'
        BY <1>1 DEF TrustInv, Sequential, Alone
    <2>2. \A e \in Sessions : Trusted(e)'
        BY <1>1, <1>4, <1>t, Numbers DEF TrustInv, Sequential, Trusted, AtLeast
    <2>3. \A r \in Runs, e \in Sessions : Took(r, e) => Took(r, e)'
        BY <1>1, <1>4, <1>6, <1>t, Numbers DEF Took, AtLeast
    <2>4. \A r \in Runs : Copying(r) => Copying(r)'
        BY <1>1, <1>4, <1>t, Numbers DEF Copying, AtLeast
    <2>5. \A r \in Runs : Own(r)'
        BY <1>1, <2>3, <2>4 DEF TrustInv, Sequential, Own
    <2> QED
        BY <2>1, <2>2, <2>5 DEF Sequential
<1> QED
    BY <1>1, <1>3, <1>5 DEF TrustInv

\* A run alone takes a step that leaves the store, the record and all the others alone;
\* of the archive at most the copy at hand changes.
LEMMA RunStep ==
    ASSUME TrustInv, Typed, ~overlapped, NEW r \in Runs, pc[r] \in Running,
           UNCHANGED <<source, record, overlapped>>,
           \A q \in Runs : q # r => /\ pc'[q] = pc[q] /\ memo'[q] = memo[q] /\ todo'[q] = todo[q]
                                    /\ at'[q] = at[q] /\ print'[q] = print[q]
                                    /\ staging'[q] = staging[q] /\ taken'[q] = taken[q],
           \A s \in Sessions : Trusted(s)',
           pc'[r] # "idle", Own(r)'
    PROVE  TrustInv'
<1>1. \A q \in Runs : q # r => pc[q] \notin Running
    BY DEF TrustInv, Sequential, Alone
<1>2. Alone'
    BY <1>1 DEF Alone
<1>3. ASSUME NEW q \in Runs, q # r PROVE Own(q)'
    <2>1. pc[q] \notin Running /\ pc'[q] = pc[q]
        BY <1>1, <1>3
    <2> QED
        BY <1>3, <2>1 DEF TrustInv, Sequential, Own, Running
<1> QED
    BY <1>2, <1>3 DEF TrustInv, Ordered, Sequential

LEMMA BeginTrusted ==
    ASSUME TrustInv, Typed, NEW r \in Runs, Begin(r)
    PROVE  TrustInv'
<1>t. TypeOK
    BY DEF Typed
<1>1. UNCHANGED <<source, archive, record, at, print, staging, taken>>
    BY DEF Begin
<1>2. SUFFICES ASSUME ~overlapped' PROVE Sequential'
    BY <1>1 DEF TrustInv, Ordered
<1>3. ~overlapped /\ \A q \in Runs : pc[q] \notin Running
    BY <1>2 DEF Begin
<1>4. /\ pc[r] = "idle" /\ pc'[r] = "walk" /\ memo'[r] \in {record, Nothing}
      /\ todo'[r] = {s \in Sessions : source[s] # Gone} \cup Extras
      /\ \A q \in Runs : q # r => pc'[q] = pc[q]
    BY <1>t DEF Begin, ReadRecord, TypeOK
<1>5. Alone'
    BY <1>3, <1>4 DEF Alone
<1>6. \A s \in Sessions : Trusted(s)'
    BY <1>1, <1>3 DEF TrustInv, Sequential, Trusted, Fresh, AtLeast
<1>7. Own(r)'
    <2>1. taken[r] = Nothing /\ staging[r] = Empty
        BY <1>3, <1>4 DEF TrustInv, Sequential, Own
    <2>2. \A s \in Sessions : Took(r, s)'
        BY <1>1, <1>4, <2>1 DEF Took, Nothing
    <2> QED
        BY <1>1, <1>4, <2>1, <2>2 DEF Own
<1>8. ASSUME NEW q \in Runs, q # r PROVE Own(q)'
    BY <1>1, <1>3, <1>4, <1>8 DEF TrustInv, Sequential, Own, Running
<1> QED
    BY <1>5, <1>6, <1>7, <1>8 DEF Sequential

LEMMA VisitTrusted ==
    ASSUME TrustInv, Typed, ~overlapped, NEW r \in Runs, NEW s \in Entries,
           Skip(r, s) \/ Unchanged(r, s) \/ Fetch(r, s)
    PROVE  TrustInv'
<1>t. TypeOK
    BY DEF Typed
<1>1. UNCHANGED outside /\ pc[r] = "walk" /\ pc[r] \in Running /\ at[r] = None
    BY DEF Skip, Unchanged, Fetch, Visits, Typed, Running, outside
<1>2. \A q \in Runs : q # r => /\ pc'[q] = pc[q] /\ memo'[q] = memo[q] /\ todo'[q] = todo[q]
                               /\ at'[q] = at[q] /\ print'[q] = print[q]
                               /\ staging'[q] = staging[q] /\ taken'[q] = taken[q]
    BY <1>t DEF Skip, Unchanged, Fetch, TypeOK
<1>3. \A e \in Sessions : Trusted(e)'
    BY <1>1 DEF TrustInv, Sequential, Trusted, Fresh, AtLeast, outside
<1>4. staging[r] = Empty /\ memo[r] \in {record, Nothing} /\ \A e \in Sessions : Took(r, e) /\ Trusted(e)
    BY <1>1 DEF TrustInv, Sequential, Own
<1>5. CASE Skip(r, s)
    <2>1. UNCHANGED <<pc, memo, at, print, staging, taken>> /\ todo'[r] = todo[r] \ {s}
        BY <1>5, <1>t DEF Skip, TypeOK
    <2>2. ASSUME NEW e \in Sessions PROVE Took(r, e)'
        <3>1. e # s => Took(r, e)'
            BY <1>1, <1>4, <2>1 DEF Took, Fresh, AtLeast, outside
        <3>2. e = s /\ source[s] # Gone => record[s] = 0
            BY <1>4, <1>5, <1>t, Numbers DEF Skip, HasManifest, Trusted, Fresh
        <3>3. e = s => Took(r, e)'
            BY <1>1, <1>4, <2>1, <3>2 DEF Took, Fresh, AtLeast, outside
        <3> QED
            BY <3>1, <3>3
    <2>3. Own(r)'
        BY <1>1, <1>4, <2>1, <2>2 DEF Own, outside
    <2> QED
        BY <1>1, <1>2, <1>3, <2>1, <2>3, RunStep DEF outside
<1>6. CASE Unchanged(r, s)
    <2>1. /\ UNCHANGED <<pc, memo, at, print, staging>> /\ todo'[r] = todo[r] \ {s}
          /\ s \in Sessions /\ source[s] # Gone /\ archive[s] # Absent /\ source[s].manifest = record[s]
          /\ record[s] # 0
        BY <1>6, <1>t, <1>4 DEF Unchanged, Current, HasManifest, TypeOK, Nothing
    <2>2. \A e \in Sessions : taken'[r][e] = IF e = s THEN record[s] ELSE taken[r][e]
        BY <1>6, <1>t, <2>1 DEF Unchanged, TypeOK
    <2>3. Took(r, s)'
        BY <1>1, <1>4, <1>t, <2>1, <2>2, Numbers DEF Took, Trusted, Fresh, AtLeast, outside
    <2>4. \A e \in Sessions : e # s => Took(r, e)'
        BY <1>1, <1>4, <2>1, <2>2 DEF Took, Fresh, AtLeast, outside
    <2>5. Own(r)'
        BY <1>1, <1>4, <2>1, <2>3, <2>4 DEF Own, outside
    <2> QED
        BY <1>1, <1>2, <1>3, <2>1, <2>5, RunStep DEF outside
<1>7. CASE Fetch(r, s)
    <2>1. /\ UNCHANGED <<memo, todo, staging, taken>> /\ source[s] # Gone
          /\ pc'[r] = "copy" /\ at'[r] = s /\ print'[r] = source[s].manifest
        BY <1>7, <1>t DEF Fetch, HasManifest, TypeOK
    <2>2. \A e \in Sessions : Took(r, e)'
        BY <1>1, <1>4, <2>1 DEF Took, Fresh, AtLeast, outside
    <2>3. s \in Sessions => Fresh(record[s], s)
        BY <1>4 DEF Trusted
    <2>4. Copying(r)'
        BY <1>1, <1>4, <1>t, <2>1, <2>3, Numbers DEF Copying, Fresh, AtLeast, Empty, outside
    <2>5. Own(r)'
        BY <1>1, <1>4, <2>1, <2>2, <2>4 DEF Own, outside
    <2> QED
        BY <1>1, <1>2, <1>3, <2>1, <2>5, RunStep DEF outside
<1> QED
    BY <1>5, <1>6, <1>7

LEMMA CopyTrusted ==
    ASSUME TrustInv, Typed, ~overlapped, NEW r \in Runs, CopyFile(r)
    PROVE  TrustInv'
<1>t. TypeOK
    BY DEF Typed
<1>1. /\ UNCHANGED outside /\ UNCHANGED <<memo, todo, at, print, taken>>
      /\ pc[r] = "copy" /\ pc[r] \in Running /\ at[r] \in Entries /\ source[at[r]] # Gone
    BY DEF CopyFile, Typed, Running, outside
<1>2. pc'[r] \in {"copy", "remove"} /\ \A q \in Runs : q # r => pc'[q] = pc[q] /\ staging'[q] = staging[q]
    BY <1>t, <1>1 DEF CopyFile, TypeOK
<1>3. staging'[r].manifest \in {staging[r].manifest, source[at[r]].manifest}
    <2>1. PICK f \in {"content", "manifest"} : staging' = [staging EXCEPT ![r][f] = source[at[r]][f]]
        BY DEF CopyFile, Empty
    <2>2. staging[r] \in Copies
        BY <1>t DEF TypeOK
    <2> QED
        BY <1>t, <2>1, <2>2 DEF TypeOK, Copies
<1>4. Own(r)
    BY DEF TrustInv, Sequential
<1>5. Copying(r)'
    <2>1. Copying(r)
        BY <1>1, <1>4 DEF Own
    <2> QED
        BY <1>1, <1>3, <1>t, <2>1, Numbers DEF Copying, Fresh, AtLeast, outside
<1>6. \A e \in Sessions : Took(r, e)'
    BY <1>1, <1>4 DEF Own, Took, Fresh, AtLeast, outside
<1>7. Own(r)'
    BY <1>1, <1>2, <1>4, <1>5, <1>6 DEF Own, outside
<1>8. \A e \in Sessions : Trusted(e)'
    BY <1>1 DEF TrustInv, Sequential, Trusted, Fresh, AtLeast, outside
<1> QED
    BY <1>1, <1>2, <1>7, <1>8, RunStep DEF outside

\* What a removal that was cut short leaves is what was there, or lacks the manifest.
LEMMA HalvesTrusted ==
    ASSUME NEW c \in Copies \cup {Absent}, NEW h \in Halves(c), h # Absent
    PROVE  c # Absent /\ (h.manifest = c.manifest \/ h.manifest = 0)
BY DEF Halves, Empty, Copies

LEMMA ReplaceTrusted ==
    ASSUME TrustInv, Typed, ~overlapped, NEW r \in Runs, Remove(r) \/ Replace(r)
    PROVE  TrustInv'
<1>t. TypeOK
    BY DEF Typed
<1>1. /\ UNCHANGED <<source, record, overlapped, memo, print>>
      /\ pc[r] \in {"remove", "replace"} /\ pc[r] \in Running /\ at[r] \in Entries /\ at[r] \in todo[r]
    BY DEF Remove, Replace, Typed, Running
<1>2. \A q \in Runs : q # r => /\ pc'[q] = pc[q] /\ todo'[q] = todo[q] /\ at'[q] = at[q]
                               /\ staging'[q] = staging[q] /\ taken'[q] = taken[q]
    BY <1>t DEF Remove, Replace, TypeOK
<1>3. /\ Own(r) /\ Copying(r) /\ memo[r] \in {record, Nothing}
      /\ \A e \in Sessions : Took(r, e) /\ Trusted(e)
    BY <1>1 DEF TrustInv, Sequential, Own
<1>4. \A e \in Entries : e # at[r] => archive'[e] = archive[e]
    BY <1>t, <1>1, RemoveTyped DEF Replace, TypeOK
<1>5. \A e \in Sessions : e \in Entries
    BY DEF Entries
<1>6. CASE Remove(r)
    <2>1. pc'[r] = "replace" /\ UNCHANGED <<todo, at, staging, taken>>
        BY <1>6, <1>t, <1>1 DEF Remove, TypeOK
    <2>6. archive'[at[r]] # Absent =>
             archive[at[r]] # Absent /\ archive'[at[r]].manifest \in {archive[at[r]].manifest, 0}
        BY <1>6, <1>t, <1>1, RemoveTyped, HalvesTrusted DEF TypeOK
    <2>2. \A e \in Sessions : Trusted(e)'
        BY <1>1, <1>3, <1>4, <1>5, <1>t, <2>1, <2>6, Numbers DEF Trusted, Fresh, AtLeast
    <2>3. \A e \in Sessions : Took(r, e)'
        BY <1>1, <1>3, <1>4, <1>5, <2>1 DEF Took, Fresh, AtLeast
    <2>4. Copying(r)'
        BY <1>1, <1>3, <2>1 DEF Copying, Fresh, AtLeast
    <2>5. Own(r)'
        BY <1>1, <1>3, <2>1, <2>3, <2>4 DEF Own
    <2> QED
        BY <1>1, <1>2, <2>1, <2>2, <2>5, RunStep
<1>7. CASE Replace(r)
    <2>1. /\ archive'[at[r]] = staging[r] /\ pc'[r] = "walk" /\ staging'[r] = Empty
          /\ todo'[r] = todo[r] \ {at[r]}
        BY <1>7, <1>t, <1>1 DEF Replace, TypeOK
    <2>2. \A e \in Sessions : taken'[r][e] = IF e = at[r] THEN print[r] ELSE taken[r][e]
        BY <1>7, <1>t, <1>5 DEF Replace, TypeOK
    <2>3. staging[r] # Absent
        BY <1>t DEF TypeOK
    <2>5. \A e \in Sessions : e # at[r] => Trusted(e)' /\ Took(r, e)'
        BY <1>1, <1>3, <1>4, <1>5, <2>1, <2>2 DEF Trusted, Took, Fresh, AtLeast
    <2>6. \A e \in Sessions : Trusted(e)' /\ Took(r, e)'
        <3> SUFFICES ASSUME NEW e \in Sessions PROVE Trusted(e)' /\ Took(r, e)'
            OBVIOUS
        <3>1. CASE e # at[r]
            BY <2>5, <3>1
        <3>2. CASE e = at[r]
            <4>1. Trusted(e)'
                BY <1>1, <1>3, <1>t, <2>1, <2>2, <2>3, <3>2, Numbers DEF Copying, Trusted, Fresh, AtLeast
            <4>2. Took(r, e)'
                BY <1>1, <1>3, <1>t, <2>1, <2>2, <2>3, <3>2, Numbers DEF Copying, Took, Fresh, AtLeast
            <4> QED
                BY <4>1, <4>2
        <3> QED
            BY <3>1, <3>2
    <2>7. Own(r)'
        BY <1>1, <1>3, <2>1, <2>6 DEF Own
    <2> QED
        BY <1>1, <1>2, <2>1, <2>6, <2>7, RunStep
<1> QED
    BY <1>6, <1>7

LEMMA WriteTrusted ==
    ASSUME TrustInv, Typed, ~overlapped, NEW r \in Runs, WriteRecord(r)
    PROVE  /\ TrustInv'
           /\ \A s \in Sessions : \/ record'[s] >= record[s]
                                  \/ record'[s] = 0 /\ source[s] = Gone /\ memo[r] = Nothing
<1>t. TypeOK
    BY DEF Typed
<1>1. /\ UNCHANGED <<source, archive, overlapped, memo, todo, at, print, staging, taken>>
      /\ pc[r] = "walk" /\ pc[r] \in Running /\ todo[r] = {}
    BY DEF WriteRecord, Running
<1>2. pc'[r] = "verify" /\ \A q \in Runs : q # r => pc'[q] = pc[q]
    BY <1>t DEF WriteRecord, TypeOK
<1>3. memo[r] \in {record, Nothing} /\ \A s \in Sessions : Took(r, s) /\ Trusted(s)
    BY <1>1 DEF TrustInv, Sequential, Own
<1>4. \A s \in Sessions : IF taken[r][s] # 0 THEN record'[s] = taken[r][s]
                          ELSE record'[s] = record[s] \/ (record'[s] = 0 /\ memo[r] = Nothing)
    BY <1>3 DEF WriteRecord, Merged, Nothing
<1>5. ASSUME NEW s \in Sessions
      PROVE  record'[s] >= record[s] \/ (record'[s] = 0 /\ source[s] = Gone /\ memo[r] = Nothing)
    <2>1. CASE taken[r][s] # 0 \/ record'[s] = record[s]
        BY <1>3, <1>4, <1>t, <2>1, Numbers DEF Took
    <2>2. CASE taken[r][s] = 0 /\ record'[s] # record[s]
        BY <1>1, <1>3, <1>4, <1>t, <2>2, Numbers DEF Took
    <2> QED
        BY <2>1, <2>2
<1>6. \A s \in Sessions : Trusted(s)'
    BY <1>1, <1>3, <1>4, <1>t, Numbers DEF Trusted, Took, Fresh, AtLeast
<1>7. \A s \in Sessions : Took(r, s)'
    BY <1>1, <1>3, <1>4, <1>t, Numbers DEF Took, Fresh, AtLeast
<1>8. Own(r)'
    BY <1>2, <1>7 DEF Own
<1>9. \A q \in Runs : q # r => pc[q] \notin Running
    BY <1>1 DEF TrustInv, Sequential, Alone
<1>10. ASSUME NEW q \in Runs, q # r PROVE Own(q)'
    BY <1>1, <1>2, <1>9, <1>10 DEF TrustInv, Sequential, Own, Running
<1>11. Alone'
    BY <1>2, <1>9 DEF Alone
<1> QED
    BY <1>1, <1>5, <1>6, <1>8, <1>10, <1>11 DEF TrustInv, Ordered, Sequential

LEMMA EndTrusted ==
    ASSUME TrustInv, Typed, ~overlapped, NEW r \in Runs,
           CopyFails(r) \/ Clash(r) \/ Verify(r) \/ Kill(r) \/ Interrupt(r)
    PROVE  TrustInv'
<1>t. TypeOK
    BY DEF Typed
<1>0. PICK how \in Ended : End(r, how)
    BY DEF CopyFails, Clash, Raise, Verify, Kill, Interrupt, Ended
<1>1. UNCHANGED <<source, record, overlapped, at>> /\ pc[r] \in Running
    BY <1>0 DEF End, CopyFails, Clash, Verify, Kill, Interrupt, Running
<1>9. \A q \in Runs : q # r => staging'[q] = staging[q]
    BY <1>t DEF CopyFails, Clash, Raise, Verify, Kill, Interrupt, TypeOK
<1>2. /\ pc'[r] \in Ended
      /\ \A q \in Runs : q # r => /\ pc'[q] = pc[q] /\ memo'[q] = memo[q] /\ todo'[q] = todo[q]
                                  /\ print'[q] = print[q] /\ taken'[q] = taken[q]
                                  /\ staging'[q] = staging[q]
    BY <1>0, <1>9, <1>t DEF End, TypeOK
<1>3. \A e \in Sessions : Trusted(e)
    BY DEF TrustInv, Sequential
<1>4. ASSUME NEW e \in Sessions PROVE Trusted(e)'
    <2>1. archive'[e] # Absent => archive[e] # Absent /\ archive'[e].manifest \in {archive[e].manifest, 0}
        <3>1. CASE UNCHANGED archive
            BY <3>1
        <3>2. CASE CutRemoval(r)
            <4>1. CASE pc[r] = "remove" /\ e = at[r]
                <5>1. PICK c \in Halves(archive[e]) : archive' = [archive EXCEPT ![e] = c]
                    BY <3>2, <4>1 DEF CutRemoval
                <5>2. archive'[e] = c /\ archive[e] \in Copies \cup {Absent}
                    BY <1>t, <5>1 DEF TypeOK, Entries
                <5> QED
                    BY <5>1, <5>2, HalvesTrusted
            <4>2. CASE ~(pc[r] = "remove" /\ e = at[r])
                BY <3>2, <4>2, CutRemovalTyped DEF Entries
            <4> QED
                BY <4>1, <4>2
        <3> QED
            BY <3>1, <3>2 DEF CopyFails, Clash, Verify, Kill, Interrupt
    <2> QED
        BY <1>1, <1>3, <1>t, <2>1, Numbers DEF Trusted, Fresh, AtLeast
<1>5. Own(r)'
    BY <1>2 DEF Own, Ended, Running
<1>6. pc'[r] # "idle"
    BY <1>2 DEF Ended
<1> QED
    BY <1>1, <1>2, <1>4, <1>5, <1>6, RunStep

LEMMA TrustStep == TrustInv /\ Typed /\ [Next]_vars => TrustInv'
<1> SUFFICES ASSUME TrustInv, Typed, [Next]_vars PROVE TrustInv'
    OBVIOUS
<1>1. CASE \E s \in Sessions : Rewrite(s) \/ Stamp(s) \/ Prune(s)
    BY <1>1, StoreSteps
<1>2. CASE \E r \in Runs : Begin(r)
    BY <1>2, BeginTrusted
<1>3. CASE overlapped /\ ~\E s \in Sessions : Rewrite(s) \/ Stamp(s) \/ Prune(s)
    <2>1. UNCHANGED source /\ overlapped'
        BY <1>3 DEF Next, Step, Begin, CopyFile, CopyFails, Remove, Replace, Clash, Raise, End,
                    WriteRecord, Verify, Kill, Interrupt, Skip, Unchanged, Fetch, vars, outside
    <2> QED
        BY <2>1 DEF TrustInv, Ordered
<1>4. CASE ~overlapped /\ \E r \in Runs : Step(r) /\ ~Begin(r)
    BY <1>4, VisitTrusted, CopyTrusted, ReplaceTrusted, WriteTrusted, EndTrusted DEF Step
<1>5. CASE UNCHANGED vars
    BY <1>5 DEF vars, outside, locals, TrustInv, Ordered, Sequential, Alone, Trusted, Own, Took,
                Copying, Fresh, AtLeast
<1> QED
    BY <1>1, <1>2, <1>3, <1>4, <1>5 DEF Next

LEMMA TrustAlways == Spec => []TrustInv
<1>1. Init => TrustInv
    <2> SUFFICES ASSUME Init PROVE TrustInv
        OBVIOUS
    <2>1. PICK m \in {0, 1} :
              /\ source = [s \in Entries |-> [content |-> 1, manifest |-> IF s \in Extras THEN 1 ELSE m]]
              /\ archive = [s \in Entries |-> IF m = 0 THEN Absent ELSE [content |-> 1, manifest |-> 1]]
              /\ record = [s \in Sessions |-> m]
        BY DEF Init
    <2>2. \A s \in Sessions : s \in Entries /\ s \notin Extras
        BY DEF Entries
    <2>3. Ordered
        BY <2>1 DEF Ordered
    <2>4. \A s \in Sessions : Trusted(s)
        BY <2>1, <2>2 DEF Trusted, Fresh, AtLeast
    <2>5. Alone /\ \A r \in Runs : Own(r)
        BY DEF Init, Alone, Own, Running
    <2> QED
        BY <2>3, <2>4, <2>5 DEF TrustInv, Sequential
<1> QED
    BY <1>1, TrustStep, TypedAlways, PTL DEF Spec

\* For any store and any number of finalizes, prunes and kills, as long as no two
\* runs overlap: the record is merged forward, and a run that calls a session
\* unchanged has its current copy.
THEOREM RecordsTrusted == Spec => RecordTrusted
<1>1. ASSUME TrustInv, HeldInv, Typed, [Next]_vars, ~overlapped, NEW s \in Sessions
      PROVE  /\ \/ record'[s] >= record[s]
                \/ /\ record'[s] = 0 /\ source[s] = Gone
                   /\ \E r \in Runs : pc[r] = "walk" /\ pc'[r] = "verify" /\ memo[r] = Nothing
             /\ \A r \in Runs : taken'[r][s] \notin {0, taken[r][s]} /\ archive' = archive
                   => archive[s].manifest \in {0, source[s].manifest}
    <2>t. TypeOK /\ s \in Entries /\ Absent \notin Copies
        BY <1>1 DEF Typed, Entries
    <2>1. \/ record'[s] >= record[s]
          \/ /\ record'[s] = 0 /\ source[s] = Gone
             /\ \E r \in Runs : pc[r] = "walk" /\ pc'[r] = "verify" /\ memo[r] = Nothing
        <3>1. CASE \E r \in Runs : WriteRecord(r)
            <4>1. PICK r \in Runs : WriteRecord(r)
                BY <3>1
            <4>2. pc[r] = "walk" /\ pc'[r] = "verify"
                BY <2>t, <4>1 DEF WriteRecord, TypeOK
            <4> QED
                BY <1>1, <4>1, <4>2, WriteTrusted
        <3>2. CASE UNCHANGED record
            BY <2>t, <3>2, Numbers
        <3> QED
            BY <1>1, <3>1, <3>2
               DEF Next, Step, Begin, CopyFile, CopyFails, Remove, Replace, Clash, Raise, End, Verify,
                   Kill, Interrupt, Skip, Unchanged, Fetch, Rewrite, Stamp, Prune, vars, outside
    <2>2. ASSUME NEW r \in Runs, taken'[r][s] \notin {0, taken[r][s]}, archive' = archive
          PROVE  archive[s].manifest \in {0, source[s].manifest}
        <3>1. CASE \E q \in Runs, e \in Entries : Unchanged(q, e)
            <4>1. PICK q \in Runs, e \in Entries : Unchanged(q, e)
                BY <3>1
            <4>2. q = r /\ e = s
                <5>1. taken' = [taken EXCEPT ![q][e] = source[e].manifest]
                    BY <4>1 DEF Unchanged
                <5> QED
                    BY <2>t, <2>2, <5>1 DEF TypeOK
            <4>3. /\ pc[r] = "walk" /\ archive[s] # Absent /\ source[s] # Gone
                  /\ memo[r][s] = source[s].manifest
                BY <4>1, <4>2 DEF Unchanged, Visits, Current, HasManifest
            <4>5. source[s].manifest # 0
                BY <4>1, <4>2 DEF Unchanged, HasManifest
            <4>4. memo[r] = record /\ Trusted(s)
                BY <1>1, <4>3, <4>5 DEF TrustInv, Sequential, Own, Nothing
            <4> QED
                BY <2>t, <4>3, <4>4, Numbers DEF Trusted, Fresh, AtLeast
        <3>2. CASE \E q \in Runs : Replace(q)
            <4>1. PICK q \in Runs : Replace(q)
                BY <3>2
            <4>2. at[q] \in Entries /\ staging[q] \in Copies /\ archive[at[q]] \in {Absent, Empty}
                BY <1>1, <2>t, <4>1 DEF Replace, Typed, TypeOK
            <4>3. archive'[at[q]] = staging[q]
                BY <2>t, <4>1, <4>2 DEF Replace, TypeOK
            <4>4. staging[q] # Empty
                BY <1>1, <4>1 DEF Replace, HeldInv, StagedFirst, Whole, Empty
            <4> QED
                BY <2>t, <2>2, <4>2, <4>3, <4>4
        <3>3. CASE \E q \in Runs : CopyFails(q) \/ Clash(q) \/ Verify(q) \/ Kill(q) \/ Interrupt(q)
            <4>1. PICK q \in Runs, how \in Ended : End(q, how)
                BY <3>3 DEF CopyFails, Clash, Raise, Verify, Kill, Interrupt, Ended
            <4>2. taken'[r][s] \in {taken[r][s], 0}
                BY <2>t, <4>1 DEF End, TypeOK, Nothing
            <4> QED
                BY <2>2, <4>2
        <3> QED
            BY <1>1, <2>2, <3>1, <3>2, <3>3
               DEF Next, Step, Begin, CopyFile, Remove, WriteRecord, Skip, Fetch, Rewrite, Stamp, Prune,
                   vars, outside, locals
    <2> QED
        BY <2>1, <2>2
<1>2. TrustInv /\ HeldInv /\ Typed /\ [Next]_vars =>
        [~overlapped => \A s \in Sessions :
              /\ \/ record'[s] >= record[s]
                 \/ /\ record'[s] = 0 /\ source[s] = Gone
                    /\ \E r \in Runs : pc[r] = "walk" /\ pc'[r] = "verify" /\ memo[r] = Nothing
              /\ \A r \in Runs : taken'[r][s] \notin {0, taken[r][s]} /\ archive' = archive
                    => archive[s].manifest \in {0, source[s].manifest}]_vars
    BY <1>1
<1> QED
    BY <1>2, TrustAlways, HeldAlways, TypedAlways, PTL DEF Spec, RecordTrusted

\* For any store, as long as no two runs overlap: a run that exits 0 leaves every
\* session it counted in the archive, none of them torn, none behind the record.
THEOREM CleanRunsHold == Spec => CleanRunMeansHeld
<1>1. ASSUME TrustInv, Typed, [Next]_vars, NEW r \in Runs, NEW s \in Sessions,
             pc'[r] = "clean", pc[r] # "clean", ~overlapped
      PROVE  /\ taken[r][s] # 0 => archive[s] # Absent
             /\ archive[s] # Absent => Verdict(archive[s]) # "invalid"
             /\ archive[s] # Absent /\ archive[s].manifest # 0 => archive[s].manifest >= record[s]
    <2>0. ~\E q \in Runs, how \in {"failed", "killed"} : End(q, how)
        BY <1>1 DEF End, Typed, TypeOK
    <2>1. Verify(r)
        <3>1. CASE \E q \in Runs : Verify(q)
            <4>1. PICK q \in Runs : Verify(q)
                BY <3>1
            <4>2. q # r => pc'[r] = pc[r]
                BY <4>1 DEF Verify, End, Typed, TypeOK
            <4> QED
                BY <1>1, <4>1, <4>2
        <3>2. CASE ~\E q \in Runs : Verify(q)
            BY <1>1, <2>0, <3>2
               DEF Next, Step, Begin, CopyFile, CopyFails, Remove, Replace, Clash, Raise, WriteRecord,
                   Kill, Interrupt, Skip, Unchanged, Fetch, Rewrite, Stamp, Prune, vars, outside, locals,
                   Typed, TypeOK
        <3> QED
            BY <3>1, <3>2
    <2>2. pc[r] = "verify" /\ \A e \in Sessions : ~(archive[e] # Absent /\ Verdict(archive[e]) = "invalid")
        <3> DEFINE bad == {e \in Sessions : archive[e] # Absent /\ Verdict(archive[e]) = "invalid"}
        <3>1. End(r, IF bad = {} /\ taken[r] # Nothing THEN "clean" ELSE "failed") /\ pc[r] = "verify"
            BY <2>1 DEF Verify
        <3>2. bad = {}
            BY <1>1, <3>1 DEF End, Typed, TypeOK
        <3> QED
            BY <3>1, <3>2
    <2>3. Took(r, s) /\ Trusted(s)
        BY <1>1, <2>2 DEF TrustInv, Sequential, Own, Running
    <2> QED
        BY <2>2, <2>3 DEF Took, Trusted, AtLeast
<1>2. TrustInv /\ Typed /\ [Next]_vars =>
        [\A r \in Runs, s \in Sessions :
              pc'[r] = "clean" /\ pc[r] # "clean" /\ ~overlapped =>
                  /\ taken[r][s] # 0 => archive[s] # Absent
                  /\ archive[s] # Absent => Verdict(archive[s]) # "invalid"
                  /\ archive[s] # Absent /\ archive[s].manifest # 0
                        => archive[s].manifest >= record[s]]_vars
    BY <1>1
<1> QED
    BY <1>2, TrustAlways, TypedAlways, PTL DEF Spec, CleanRunMeansHeld
=============================================================================
