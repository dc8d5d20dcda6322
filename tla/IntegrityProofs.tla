-------------------------- MODULE IntegrityProofs ---------------------------
(***************************************************************************)
(* What holds of manifests and bundles for any set of files of any kind,   *)
(* any contents and any number of changes from outside.                    *)
(***************************************************************************)
EXTENDS Integrity, TLAPS

USE IntegrityAssumption

Audits == [pc : {"idle", "verify", "walk", "write"}, dir : Dirs, verifies : BOOLEAN,
           tampered : BOOLEAN, seen : Tree, valid : BOOLEAN]
Exports == [pc : {"idle", "walk"}, todo : SUBSET Files, members : Tree, recorded : Tree,
            raw : SUBSET Files]
Imports == [pc : {"idle", "extract", "audit", "refused"} \cup Landed, todo : SUBSET Files,
            archive : Bundles \cup {None}]

Typed ==
    /\ files \in [Dirs -> Tree] /\ manifest \in [Dirs -> Tree \cup {None, Lost}]
    /\ audit \in Audits /\ export \in Exports /\ bundle \in Bundles \cup {None}
    /\ import \in Imports /\ alters \in 0 .. MaxAlters /\ drift \subseteq Dirs \X Files
    /\ import.pc \in {"extract", "audit"} => import.archive \in Bundles

LEMMA TypedOK == Typed => TypeOK
BY DEF Typed, TypeOK, Audits, Exports, Imports

LEMMA Shapes ==
    /\ NoFiles \in Tree /\ NoAudit \in Audits /\ NoExport \in Exports /\ NoImport \in Imports
    /\ \A f \in Files : Outside(f) \subseteq Bytes \cup {Missing}
<1>1. NoFiles \in Tree
    BY DEF NoFiles, Tree
<1>2. \A f \in Files : Outside(f) \subseteq Bytes \cup {Missing}
    <2> SUFFICES ASSUME NEW f \in Files, NEW b \in Outside(f) PROVE b \in Bytes \cup {Missing}
        OBVIOUS
    <2>1. CASE Kind[f] = "json"
        BY <2>1 DEF Outside, Bytes
    <2>2. CASE Kind[f] # "json"
        <3>1. b = Missing \/ b \in [v : 1 .. MaxContent, clean : {FALSE}]
            BY <2>2 DEF Outside
        <3>2. ASSUME NEW k \in 1 .. MaxContent PROVE [v |-> k, clean |-> FALSE] \in Bytes
            BY DEF Bytes
        <3>3. ASSUME b \in [v : 1 .. MaxContent, clean : {FALSE}]
              PROVE  \E k \in 1 .. MaxContent : b = [v |-> k, clean |-> FALSE]
            BY <3>3
        <3> QED
            BY <3>1, <3>2, <3>3
    <2> QED
        BY <2>1, <2>2
<1> QED
    BY <1>1, <1>2 DEF NoAudit, Audits, NoExport, Exports, NoImport, Imports, Dirs

LEMMA TypedStep == Typed /\ [Next]_vars => Typed'
<1> SUFFICES ASSUME Typed, [Next]_vars PROVE Typed'
    OBVIOUS
<1> USE Shapes DEF Typed
<1>0. Origin \in Dirs /\ Restored \in Dirs
    BY DEF Dirs
<1>1. ASSUME NEW d \in Dirs, AuditStart(d) PROVE Typed'
    <2>1. audit' \in Audits /\ import' \in Imports
        BY <1>1 DEF AuditStart, Audits, Imports, Landed
    <2>2. import'.pc \in {"extract", "audit"} => import' = import
        BY <1>1 DEF AuditStart, NoImport
    <2> QED
        BY <1>1, <2>1, <2>2 DEF AuditStart
<1>2. ASSUME NEW d \in Dirs, LoseManifest(d) PROVE Typed'
    BY <1>2 DEF LoseManifest
<1>3. CASE AuditVerify
    <2>1. audit' \in Audits
        BY <1>3 DEF AuditVerify, Audits
    <2> QED
        BY <1>3, <2>1 DEF AuditVerify
<1>4. CASE AuditWalk
    <2>1. Listing(audit.dir) \in Tree
        BY DEF Listing, Tree, Audits
    <2> QED
        BY <1>4, <2>1 DEF AuditWalk, Audits
<1>5. CASE AuditWrite
    <2>1. Stamped \in Tree \cup {None, Lost} /\ audit.dir \in Dirs
        BY DEF Stamped, Audits
    <2>2. import' \in Imports /\ audit' \in Audits
        BY <1>5 DEF AuditWrite, Imports, Landed
    <2>3. import'.pc \in {"extract", "audit"} => import' = import
        BY <1>5 DEF AuditWrite, NoImport
    <2> QED
        BY <1>5, <2>1, <2>2, <2>3 DEF AuditWrite
<1>18. CASE AuditCut
    <2>1. import' \in Imports /\ (import'.pc \in {"extract", "audit"} => import' = import)
        BY <1>18 DEF AuditCut, Imports, NoImport, Landed
    <2> QED
        BY <1>18, <2>1 DEF AuditCut
<1>6. ASSUME NEW f \in Files, NEW c \in 1 .. MaxContent, Finalize(f, c) PROVE Typed'
    <2>1. [v |-> c, clean |-> FALSE] \in Bytes
        BY DEF Bytes
    <2>2. files' \in [Dirs -> Tree] /\ audit' \in Audits /\ drift' \subseteq Dirs \X Files
        BY <1>6, <1>0, <2>1 DEF Finalize, Tree, Audits
    <2> QED
        BY <1>6, <2>2 DEF Finalize
<1>7. CASE ExportStart
    BY <1>7 DEF ExportStart, Exports, Walked
<1>8. CASE ExportPublish
    BY <1>8 DEF ExportPublish, Exports, Bundles
<1>9. CASE ExportFail
    BY <1>9 DEF ExportFail
<1>10. ASSUME NEW f \in Files, ExportMember(f) PROVE Typed'
    <2>1. files[Origin][f] # Missing => Stored(f) \subseteq Bytes
        <3>1. files[Origin][f] \in Bytes \cup {Missing}
            BY <1>0 DEF Tree
        <3>2. \A e \in Bytes, b \in BOOLEAN : [e EXCEPT !.clean = b] \in Bytes
            BY DEF Bytes
        <3>3. files[Origin][f] # Missing => files[Origin][f] \in Bytes
            BY <3>1
        <3> DEFINE c == Kind[f] \in {"json", "text"}
        <3>4. c \in BOOLEAN
            OBVIOUS
        <3> HIDE DEF c
        <3>5. files[Origin][f] # Missing => [files[Origin][f] EXCEPT !.clean = c] \in Bytes
            BY <3>2, <3>3, <3>4
        <3> QED
            BY <3>3, <3>5 DEF Stored, Scrub, c
    <2>2. CASE files[Origin][f] = Missing
        BY <1>10, <2>2 DEF ExportMember, Exports
    <2>3. ASSUME files[Origin][f] # Missing, NEW b \in Stored(f), Store(f, b) PROVE export' \in Exports
        <3>1. RawWith(f, b) \subseteq Files /\ b \in Bytes
            BY <2>1, <2>3 DEF RawWith, Exports
        <3> QED
            BY <2>3, <3>1 DEF Store, Exports, Tree
    <2>4. export' \in Exports
        BY <1>10, <2>2, <2>3 DEF ExportMember, Exports
    <2> QED
        BY <1>10, <2>4 DEF ExportMember
<1>11. CASE ImportStart
    BY <1>11 DEF ImportStart, Imports
<1>12. ASSUME NEW f \in Files, ExtractMember(f) PROVE Typed'
    <2>1. import.archive.members[f] \in Bytes \cup {Missing}
        BY <1>12 DEF ExtractMember, Bundles, Tree
    <2> QED
        BY <1>12, <2>1 DEF ExtractMember, Imports, Tree
<1>13. CASE Extracted
    <2>1. import.archive.manifest \in Tree
        BY <1>13 DEF Extracted, Bundles
    <2>2. manifest' \in [Dirs -> Tree \cup {None, Lost}]
        BY <1>13, <1>0, <2>1 DEF Extracted
    <2>3. import' \in Imports /\ audit' \in Audits /\ import'.archive = import.archive
        BY <1>13, <1>0 DEF Extracted, ImportAudit, Imports, Audits
    <2> QED
        BY <1>13, <2>2, <2>3 DEF Extracted
<1>14. CASE ImportFail
    BY <1>14, <1>0 DEF ImportFail, Cleared, Imports, NoImport
<1>19. CASE ImportCut
    <2>1. \A f \in import.todo : f \in Files
        BY DEF Imports
    <2>2. CutShort \in Bytes
        BY DEF CutShort, Bytes
    <2>3. files' \in [Dirs -> Tree]
        BY <1>19, <1>0, <2>1, <2>2 DEF ImportCut, Tree
    <2>4. manifest' \in [Dirs -> Tree \cup {None, Lost}]
        BY <1>19 DEF ImportCut
    <2>5. import' \in Imports /\ import'.pc = "stranded"
        BY <1>19 DEF ImportCut, Imports, NoImport, Landed
    <2> QED
        BY <1>19, <2>3, <2>4, <2>5 DEF ImportCut
<1>15. ASSUME NEW f \in Files, NEW b \in Outside(f), DamageMember(f, b) PROVE Typed'
    <2>1. bundle \in Bundles /\ b \in Bytes \cup {Missing}
        BY <1>15 DEF DamageMember
    <2>2. [bundle.members EXCEPT ![f] = b] \in Tree
        BY <2>1 DEF Bundles, Tree
    <2>3. bundle' = [bundle EXCEPT !.members = [bundle.members EXCEPT ![f] = b], !.damaged = TRUE]
        BY <1>15 DEF DamageMember
    <2>4. bundle' \in Bundles
        BY <2>1, <2>2, <2>3 DEF Bundles
    <2> QED
        BY <1>15, <2>4 DEF DamageMember
<1>16. ASSUME NEW f \in Files, NEW b \in Outside(f), NEW d \in Dirs, Alter(d, f, b) PROVE Typed'
    BY <1>16 DEF Alter, Tree
<1>17. CASE UNCHANGED vars
    BY <1>17 DEF vars
<1> QED
    BY <1>1, <1>2, <1>3, <1>4, <1>5, <1>6, <1>7, <1>8, <1>9, <1>10, <1>11, <1>12, <1>13, <1>14,
       <1>15, <1>16, <1>17, <1>18, <1>19 DEF Next

LEMMA TypedAlways == Spec => []Typed
<1>1. Init => Typed
    <2> SUFFICES ASSUME Init PROVE Typed
        OBVIOUS
    <2>1. [v |-> 1, clean |-> FALSE] \in Bytes
        BY DEF Bytes
    <2>2. files \in [Dirs -> Tree]
        BY <2>1 DEF Init, Tree
    <2>3. manifest \in [Dirs -> Tree \cup {None, Lost}]
        BY DEF Init
    <2>4. /\ audit \in Audits /\ export \in Exports /\ import \in Imports
          /\ import.pc \notin {"extract", "audit"}
        BY Shapes DEF Init, NoImport
    <2>5. bundle \in Bundles \cup {None} /\ drift \subseteq Dirs \X Files
        BY DEF Init
    <2>6. alters \in 0 .. MaxAlters
        BY DEF Init
    <2> QED
        BY <2>2, <2>3, <2>4, <2>5, <2>6 DEF Typed
<1> QED
    BY <1>1, TypedStep, PTL DEF Spec

\* For any files and contents, every state is well formed.
THEOREM TypeCorrect == Spec => []TypeOK
BY TypedAlways, TypedOK, PTL

-----------------------------------------------------------------------------
(* Drift stays visible.                                                     *)

\* An audit that is about to write a listing of its directory found no drift there.
Stamping ==
    audit.pc # "idle" /\ (~audit.verifies \/ (audit.pc \in {"walk", "write"} /\ ~audit.tampered))

Visible(d, f) ==
    /\ manifest[d] # None
    /\ manifest[d] # Lost => manifest[d][f] # Missing /\ manifest[d][f] # files[d][f]

DriftInv ==
    /\ \A x \in drift : Visible(x[1], x[2])
    /\ import.pc \notin Landed => \A x \in drift : x[1] # Restored
    /\ Stamping => \A x \in drift : x[1] # audit.dir

\* A step that leaves files, manifests and drift alone.
LEMMA DriftKept ==
    ASSUME DriftInv, UNCHANGED <<files, manifest, drift>>,
           import.pc \in Landed => import'.pc \in Landed, Stamping' => Stamping /\ audit'.dir = audit.dir
    PROVE  DriftInv'
BY DEF DriftInv, Visible

LEMMA DriftStep == DriftInv /\ Typed /\ [Next]_vars => DriftInv'
<1> SUFFICES ASSUME DriftInv, Typed, [Next]_vars PROVE DriftInv'
    OBVIOUS
<1>0. \A x \in drift : x \in Dirs \X Files /\ x = <<x[1], x[2]>> /\ x[1] \in Dirs /\ x[2] \in Files
    BY DEF Typed
<1>d. Origin \in Dirs /\ Restored \in Dirs
    BY DEF Dirs
<1>1. ASSUME NEW d \in Dirs, AuditStart(d) PROVE DriftInv'
    BY <1>1, DriftKept DEF AuditStart, NoAudit, Stamping, NoImport, Landed
<1>2. ASSUME NEW d \in Dirs, LoseManifest(d) PROVE DriftInv'
    BY <1>2, <1>0 DEF LoseManifest, DriftInv, Visible, Stamping, Typed
<1>3. CASE AuditVerify
    <2>1. audit'.tampered = (audit.verifies /\ Tampered(audit.dir)) /\ audit'.dir = audit.dir
          /\ audit'.verifies = audit.verifies /\ audit.pc = "verify" /\ audit'.pc = "walk"
        BY <1>3 DEF AuditVerify, Typed, Audits
    <2>2. UNCHANGED <<files, manifest, drift, import>>
        BY <1>3 DEF AuditVerify
    <2>3. CASE ~audit.verifies
        BY <2>1, <2>2, <2>3, DriftKept DEF Stamping
    <2>4. CASE audit.verifies /\ Tampered(audit.dir)
        BY <2>1, <2>2, <2>4, DriftKept DEF Stamping
    <2>5. CASE audit.verifies /\ ~Tampered(audit.dir)
        <3>1. ASSUME NEW x \in drift, x[1] = audit.dir PROVE FALSE
            <4>1. x[2] \in Files /\ Visible(audit.dir, x[2])
                BY <1>0, <3>1 DEF DriftInv
            <4>2. x[2] \in Drifted(audit.dir) \/ manifest[audit.dir] = Lost
                BY <4>1 DEF Visible, Drifted, Recorded
            <4> QED
                BY <4>2, <2>5 DEF Tampered
        <3> QED
            BY <2>1, <2>2, <3>1 DEF DriftInv, Visible
    <2> QED
        BY <2>3, <2>4, <2>5 DEF Typed, Audits
<1>4. CASE AuditWalk
    <2>1. Stamping' => Stamping /\ audit'.dir = audit.dir
        BY <1>4 DEF AuditWalk, Stamping, Typed, Audits
    <2> QED
        BY <1>4, <2>1, DriftKept DEF AuditWalk
<1>5. CASE AuditWrite
    <2>1. ~Stamping' /\ UNCHANGED <<files, drift>> /\ (import'.pc \notin Landed => import.pc \notin Landed)
        BY <1>5 DEF AuditWrite, Stamping, NoAudit, NoImport, Landed
    <2>2. CASE audit.tampered
        BY <1>5, <2>1, <2>2, <1>0 DEF AuditWrite, Stamped, DriftInv, Visible, Typed
    <2>3. CASE ~audit.tampered
        <3>1. \A x \in drift : x[1] # audit.dir
            BY <1>5, <2>3 DEF AuditWrite, DriftInv, Stamping
        <3>2. \A x \in drift : manifest'[x[1]] = manifest[x[1]]
            BY <1>5, <1>0, <3>1 DEF AuditWrite, Typed
        <3> QED
            BY <2>1, <3>2 DEF DriftInv, Visible
    <2> QED
        BY <2>2, <2>3 DEF Typed, Audits
<1>6. ASSUME NEW f \in Files, NEW c \in 1 .. MaxContent, Finalize(f, c) PROVE DriftInv'
    <2>1. /\ UNCHANGED <<manifest, import>> /\ audit'.dir = Origin
          /\ \A x \in drift' : x \in drift /\ x[1] # Origin
        BY <1>6 DEF Finalize, NoAudit
    <2>2. \A x \in drift' : files'[x[1]] = files[x[1]]
        BY <1>6, <1>0, <2>1 DEF Finalize, Typed
    <2> QED
        BY <2>1, <2>2 DEF DriftInv, Visible
<1>7. CASE ExportStart \/ ExportPublish \/ ExportFail \/ \E f \in Files : ExportMember(f)
    <2>1. UNCHANGED <<files, manifest, drift, audit, import>>
        BY <1>7 DEF ExportStart, ExportPublish, ExportFail, ExportMember
    <2> QED
        BY <2>1, DriftKept DEF Stamping
<1>8. CASE ImportStart
    BY <1>8, DriftKept DEF ImportStart, Stamping, Landed
\* The steps of an import touch a directory without drift.
<1>i. ASSUME UNCHANGED <<drift>>, import.pc \notin Landed, Stamping' => Stamping /\ audit'.dir = audit.dir,
             \A d \in Dirs : d # Restored => files'[d] = files[d] /\ manifest'[d] = manifest[d]
      PROVE  DriftInv'
    <2>1. \A x \in drift : files'[x[1]] = files[x[1]] /\ manifest'[x[1]] = manifest[x[1]] /\ x[1] # Restored
        BY <1>i, <1>0 DEF DriftInv
    <2> QED
        BY <1>i, <2>1 DEF DriftInv, Visible
<1>9. ASSUME NEW f \in Files, ExtractMember(f) PROVE DriftInv'
    <2>1. \A d \in Dirs : d # Restored => files'[d] = files[d]
        BY <1>9 DEF ExtractMember, Typed
    <2> QED
        BY <1>9, <2>1, <1>i DEF ExtractMember, Stamping, Landed
<1>10. CASE Extracted
    <2>1. ~Stamping' /\ \A d \in Dirs : d # Restored => manifest'[d] = manifest[d]
        BY <1>10 DEF Extracted, ImportAudit, NoAudit, Stamping, Typed
    <2> QED
        BY <1>10, <2>1, <1>i DEF Extracted, Landed
<1>11. CASE ImportFail
    <2>1. \A d \in Dirs : d # Restored => files'[d] = files[d]
        BY <1>11 DEF ImportFail, Cleared, Typed
    <2> QED
        BY <1>11, <2>1, <1>i DEF ImportFail, Stamping, Landed
<1>15. CASE ImportCut
    <2>1. \A d \in Dirs : d # Restored => files'[d] = files[d] /\ manifest'[d] = manifest[d]
        BY <1>15 DEF ImportCut, Typed
    <2> QED
        BY <1>15, <2>1, <1>i DEF ImportCut, Stamping, Landed
<1>16. CASE AuditCut
    BY <1>16, DriftKept DEF AuditCut, Stamping, NoAudit, NoImport, Landed
<1>12. ASSUME NEW f \in Files, NEW b \in Outside(f), DamageMember(f, b) PROVE DriftInv'
    BY <1>12, DriftKept DEF DamageMember, Stamping
<1>13. ASSUME NEW f \in Files, NEW b \in Outside(f), NEW d \in Dirs, Alter(d, f, b) PROVE DriftInv'
    <2>1. /\ UNCHANGED <<manifest, audit, import>> /\ files[d][f] # b /\ (d = Restored => import.pc \in Landed)
          /\ files' = [files EXCEPT ![d][f] = b]
        BY <1>13 DEF Alter
    <2>2. /\ files'[d][f] = b
          /\ \A e \in Dirs, g \in Files : <<e, g>> # <<d, f>> => files'[e][g] = files[e][g]
        BY <2>1 DEF Typed, Tree
    <2>3. CASE f \in Recorded(d) /\ b # manifest[d][f] /\ ~(audit.pc # "idle" /\ audit.dir = d)
        <3>1. drift' = drift \cup {<<d, f>>}
            BY <1>13, <2>3 DEF Alter
        <3>2. Visible(d, f)'
            BY <2>1, <2>2, <2>3 DEF Visible, Recorded
        <3>3. ASSUME NEW x \in drift PROVE Visible(x[1], x[2])' \/ x = <<d, f>>
            BY <1>0, <2>1, <2>2 DEF DriftInv, Visible
        <3>4. Stamping => audit.dir # d
            BY <2>3 DEF Stamping
        <3> QED
            BY <2>1, <3>1, <3>2, <3>3, <3>4 DEF DriftInv, Stamping
    <2>4. CASE drift' = drift \ {<<d, f>>}
        <3>1. ASSUME NEW x \in drift' PROVE Visible(x[1], x[2])'
            BY <1>0, <2>1, <2>2, <2>4 DEF DriftInv, Visible
        <3> QED
            BY <2>1, <2>4, <3>1 DEF DriftInv, Stamping
    <2> QED
        BY <1>13, <2>3, <2>4 DEF Alter
<1>14. CASE UNCHANGED vars
    BY <1>14, DriftKept DEF vars, Stamping
<1> QED
    BY <1>1, <1>2, <1>3, <1>4, <1>5, <1>6, <1>7, <1>8, <1>9, <1>10, <1>11, <1>12, <1>13, <1>14,
       <1>15, <1>16 DEF Next

\* However often a session is audited, and whatever is exported and imported
\* meanwhile, no audit absorbs drift that was there before it began.
THEOREM DriftVisible == Spec => []DriftStaysVisible
<1>1. Init => DriftInv
    BY DEF Init, DriftInv, NoAudit, Stamping
<1>2. Spec => []DriftInv
    BY <1>1, DriftStep, TypedAlways, PTL DEF Spec
<1>3. DriftInv => DriftStaysVisible
    BY DEF DriftInv, Visible, DriftStaysVisible
<1> QED
    BY <1>2, <1>3, PTL

-----------------------------------------------------------------------------
(* Archives describe themselves, and are restored whole or not at all.      *)

\* As long as nothing changed outside, a session lacks no file.
Undisturbed == alters = 0 => \A f \in Files : files[Origin][f] # Missing

\* Members t with manifest m, the texts in raw copied raw; the files in todo are
\* still to come.
Describes(t, m, raw, todo) ==
    /\ t = m
    /\ \A f \in Files : t[f] # Missing =>
          /\ Kind[f] \notin {"link", "excluded"}
          /\ Kind[f] = "json" \/ (Kind[f] = "text" /\ f \notin raw) => t[f].clean
    /\ alters = 0 => \A f \in Files \ todo : t[f] = Missing => Kind[f] \in {"link", "excluded"}

BundleInv ==
    /\ Undisturbed
    /\ (Describes(export.members, export.recorded, export.raw, export.todo) /\ export.todo \subseteq Walked)
       \/ export = NoExport
    /\ bundle # None /\ ~bundle.damaged => Describes(bundle.members, bundle.manifest, bundle.raw, {})

LEMMA BundleKept ==
    ASSUME BundleInv, UNCHANGED <<bundle, export>>, alters' = alters \/ (alters' # 0 /\ alters' \in Nat),
           alters' = 0 => \A f \in Files : files'[Origin][f] # Missing
    PROVE  BundleInv'
BY DEF BundleInv, Undisturbed, Describes

\* What an archive stores of a file is clean unless it counts as copied raw.
LEMMA StoredShape ==
    ASSUME NEW f \in Files, files[Origin][f] \in Bytes, NEW e \in Stored(f)
    PROVE  /\ e \in Bytes
           /\ Kind[f] = "json" \/ (Kind[f] = "text" /\ f \notin RawWith(f, e)) => e.clean
<1> DEFINE c == Kind[f] \in {"json", "text"}
<1>1. c \in BOOLEAN
    OBVIOUS
<1>2. Scrub(f) = [files[Origin][f] EXCEPT !.clean = c]
    BY DEF Scrub
<1> HIDE DEF c
<1>3. Scrub(f) \in Bytes /\ Scrub(f).clean = c
    BY <1>1, <1>2 DEF Bytes
<1>4. e = Scrub(f) \/ (Kind[f] = "text" /\ e = files[Origin][f])
    BY DEF Stored
<1>5. Kind[f] = "text" /\ f \notin RawWith(f, e) => e = Scrub(f)
    BY DEF RawWith
<1>6. Kind[f] = "json" => e = Scrub(f)
    BY <1>4
<1>7. Kind[f] = "json" \/ Kind[f] = "text" => c
    BY DEF c
<1> QED
    BY <1>3, <1>4, <1>5, <1>6, <1>7

LEMMA BundleStep == BundleInv /\ Typed /\ [Next]_vars => BundleInv'
<1> SUFFICES ASSUME BundleInv, Typed, [Next]_vars PROVE BundleInv'
    OBVIOUS
<1>d. Origin \in Dirs /\ Restored \in Dirs /\ Origin # Restored
    BY IntegrityAssumption DEF Dirs
<1>m. Missing \notin Bytes
    BY IntegrityAssumption
<1>1. CASE UNCHANGED <<files, bundle, export, alters>>
    BY <1>1, BundleKept DEF BundleInv, Undisturbed
<1>2. ASSUME NEW f \in Files, NEW c \in 1 .. MaxContent, Finalize(f, c) PROVE BundleInv'
    <2>1. [v |-> c, clean |-> FALSE] \in Bytes
        BY DEF Bytes
    <2>2. \A g \in Files : files[Origin][g] # Missing => files'[Origin][g] # Missing
        BY <1>2, <1>d, <1>m, <2>1 DEF Finalize, Typed, Tree
    <2> QED
        BY <1>2, <2>2, BundleKept DEF Finalize, BundleInv, Undisturbed
<1>3. CASE ImportFail \/ ImportCut \/ \E f \in Files : ExtractMember(f)
    <2>1. files'[Origin] = files[Origin]
        BY <1>3, <1>d DEF ExtractMember, ImportFail, ImportCut, Cleared, Typed
    <2> QED
        BY <1>3, <2>1, BundleKept DEF ExtractMember, ImportFail, ImportCut, BundleInv, Undisturbed
<1>4. ASSUME NEW f \in Files, NEW b \in Outside(f), NEW d \in Dirs, Alter(d, f, b) PROVE BundleInv'
    <2>1. alters' # 0 /\ alters' \in Nat /\ UNCHANGED <<bundle, export>>
        BY <1>4 DEF Alter, Typed
    <2> QED
        BY <2>1, BundleKept
<1>5. ASSUME NEW d \in Dirs, LoseManifest(d) PROVE BundleInv'
    <2>1. alters' # 0 /\ alters' \in Nat /\ UNCHANGED <<bundle, export>>
        BY <1>5 DEF LoseManifest, Typed
    <2> QED
        BY <2>1, BundleKept
<1>6. ASSUME NEW f \in Files, NEW b \in Outside(f), DamageMember(f, b) PROVE BundleInv'
    <2>1. alters' # 0 /\ bundle'.damaged /\ UNCHANGED export
        BY <1>6 DEF DamageMember, Typed, Bundles
    <2> QED
        BY <2>1 DEF BundleInv, Undisturbed, Describes
<1>7. CASE ExportStart
    <2>1. /\ export'.members = export'.recorded /\ export'.todo = Walked
          /\ \A f \in Files : export'.members[f] = Missing
        BY <1>7 DEF ExportStart, NoExport, NoFiles
    <2>2. Describes(export.members, export.recorded, export.raw, export.todo)'
        BY <2>1 DEF Describes, Walked
    <2> QED
        BY <1>7, <2>1, <2>2 DEF ExportStart, BundleInv, Undisturbed, Describes
<1>8. CASE ExportPublish
    <2>1. export.todo = {} /\ export # NoExport
        BY <1>8 DEF ExportPublish, NoExport
    <2>2. Describes(export.members, export.recorded, export.raw, {})
        BY <1>8, <2>1 DEF ExportPublish, BundleInv, NoExport
    <2>3. /\ bundle'.members = export.members /\ bundle'.manifest = export.recorded
          /\ bundle'.raw = export.raw
        BY <1>8 DEF ExportPublish
    <2> QED
        BY <1>8, <2>2, <2>3 DEF ExportPublish, BundleInv, Undisturbed, Describes
<1>9. CASE ExportFail
    BY <1>9 DEF ExportFail, BundleInv, Undisturbed, Describes
<1>10. ASSUME NEW f \in Files, ExportMember(f) PROVE BundleInv'
    <2>1. /\ Describes(export.members, export.recorded, export.raw, export.todo)
          /\ export.todo \subseteq Walked /\ f \in Walked
        BY <1>10 DEF ExportMember, BundleInv, NoExport
    <2>2. UNCHANGED <<files, bundle, alters>>
        BY <1>10 DEF ExportMember
    <2>3. export.members \in Tree /\ export.recorded \in Tree
        BY DEF Typed, Exports
    <2>4. CASE files[Origin][f] = Missing
        <3>1. /\ export'.members = export.members /\ export'.recorded = export.recorded
              /\ export'.todo = export.todo \ {f} /\ export'.raw = export.raw
            BY <1>10, <2>4 DEF ExportMember, Typed, Exports
        <3>2. alters # 0
            BY <2>4 DEF BundleInv, Undisturbed
        <3>3. Describes(export.members, export.recorded, export.raw, export.todo)'
            BY <2>1, <2>2, <3>1, <3>2 DEF Describes
        <3> QED
            BY <2>1, <2>2, <3>1, <3>3 DEF BundleInv, Undisturbed, Describes
    <2>5. CASE files[Origin][f] # Missing
        <3>1. PICK e \in Stored(f) : Store(f, e)
            BY <1>10, <2>5 DEF ExportMember
        <3>2. files[Origin][f] \in Bytes
            BY <2>5, <1>d DEF Typed, Tree
        <3>3. /\ e \in Bytes
              /\ Kind[f] = "json" \/ (Kind[f] = "text" /\ f \notin RawWith(f, e)) => e.clean
            BY <3>1, <3>2, StoredShape
        <3>4. /\ export'.members = [export.members EXCEPT ![f] = e]
              /\ export'.recorded = [export.recorded EXCEPT ![f] = e]
              /\ export'.todo = export.todo \ {f}
              /\ export'.raw = RawWith(f, e)
            BY <3>1 DEF Store, Typed, Exports
        <3>5. \A g \in Files : g # f => (g \in RawWith(f, e) <=> g \in export.raw)
            BY DEF RawWith
        <3>6. /\ export'.members[f] = e
              /\ \A g \in Files : g # f => export'.members[g] = export.members[g]
            BY <2>3, <3>4 DEF Tree
        <3>7. export'.members = export'.recorded
            BY <2>1, <3>4 DEF Describes
        <3>8. Describes(export.members, export.recorded, export.raw, export.todo)'
            BY <1>m, <2>1, <2>2, <3>3, <3>4, <3>5, <3>6, <3>7 DEF Describes, Walked
        <3> QED
            BY <2>1, <2>2, <3>4, <3>8 DEF BundleInv, Undisturbed, Describes
    <2> QED
        BY <2>4, <2>5
<1> QED
    BY <1>1, <1>2, <1>3, <1>4, <1>5, <1>6, <1>7, <1>8, <1>9, <1>10
       DEF Next, vars, AuditStart, AuditVerify, AuditWalk, AuditWrite, AuditCut, ImportStart, Extracted

\* The restored directory and the import that fills it: nobody audits it before it
\* landed, and one that is stranded has no manifest that could be verified.
Restoring ==
    /\ import.pc \in {"idle", "refused"} => files[Restored] = NoFiles
    /\ import.pc \in {"audit", "done"} => manifest[Restored] # None
    /\ import.pc = "stranded" => manifest[Restored] \in {None, Lost}
    /\ import.pc \in {"idle", "refused", "extract", "stranded"} => audit.pc = "idle" \/ audit.dir # Restored

LEMMA RestoringStep == Restoring /\ Typed /\ [Next]_vars => Restoring'
<1> SUFFICES ASSUME Restoring, Typed, [Next]_vars PROVE Restoring'
    OBVIOUS
<1>d. Origin \in Dirs /\ Restored \in Dirs /\ Origin # Restored
    BY IntegrityAssumption DEF Dirs
<1>n. None \notin Tree /\ None # Lost
    BY IntegrityAssumption
<1>1. CASE UNCHANGED <<files, manifest, import, audit>>
    BY <1>1 DEF Restoring
<1>10. ASSUME NEW d \in Dirs, AuditStart(d) PROVE Restoring'
    <2>1. CASE d = Restored
        BY <1>10, <2>1 DEF AuditStart, Restoring, NoImport, Landed
    <2>2. CASE d # Restored
        BY <1>10, <2>2 DEF AuditStart, Restoring, NoAudit
    <2> QED
        BY <2>1, <2>2
<1>11. CASE AuditVerify
    BY <1>11 DEF AuditVerify, Restoring, Typed, Audits
<1>12. CASE AuditWalk
    BY <1>12 DEF AuditWalk, Restoring, Typed, Audits
<1>13. CASE AuditCut
    BY <1>13 DEF AuditCut, Restoring, NoImport, NoAudit
<1>14. CASE ImportCut
    <2>1. manifest'[Restored] \in {None, Lost}
        BY <1>14, <1>d DEF ImportCut, Typed
    <2> QED
        BY <1>14, <2>1 DEF ImportCut, Restoring, NoImport
<1>2. ASSUME NEW d \in Dirs, LoseManifest(d) PROVE Restoring'
    BY <1>2, <1>d, <1>n DEF LoseManifest, Restoring, Typed
<1>3. CASE AuditWrite
    <2>1. manifest[Restored] # None => manifest'[Restored] # None
        BY <1>3, <1>n, <1>d DEF AuditWrite, Stamped, Typed, Audits
    <2>2. UNCHANGED files /\ (import' = import \/ (import.pc = "audit" /\ import'.pc = "done"))
        BY <1>3 DEF AuditWrite, NoImport
    <2>3. import.pc = "stranded" => manifest'[Restored] = manifest[Restored]
        BY <1>3, <1>d DEF AuditWrite, Restoring, Typed
    <2> QED
        BY <1>3, <2>1, <2>2, <2>3 DEF AuditWrite, Restoring, NoAudit
<1>4. ASSUME NEW f \in Files, NEW c \in 1 .. MaxContent, Finalize(f, c) PROVE Restoring'
    BY <1>4, <1>d DEF Finalize, Restoring, Typed, NoAudit
<1>5. CASE ImportStart
    BY <1>5 DEF ImportStart, Restoring
<1>6. ASSUME NEW f \in Files, ExtractMember(f) PROVE Restoring'
    BY <1>6 DEF ExtractMember, Restoring, Typed, Imports
<1>7. CASE Extracted
    <2>1. import.archive.manifest \in Tree
        BY <1>7 DEF Extracted, Typed, Bundles
    <2> QED
        BY <1>7, <1>n, <1>d, <2>1 DEF Extracted, Restoring, Typed, Imports
<1>8. CASE ImportFail
    BY <1>8, <1>d DEF ImportFail, Cleared, Restoring, NoImport, Typed
<1>9. ASSUME NEW f \in Files, NEW b \in Outside(f), NEW d \in Dirs, Alter(d, f, b) PROVE Restoring'
    <2>1. d = Restored => import.pc \in Landed
        BY <1>9 DEF Alter
    <2>2. d # Restored => files'[Restored] = files[Restored]
        BY <1>9, <1>d DEF Alter, Typed
    <2> QED
        BY <1>9, <2>1, <2>2 DEF Alter, Restoring, Landed
<1> QED
    BY <1>1, <1>2, <1>3, <1>4, <1>5, <1>6, <1>7, <1>8, <1>9, <1>10, <1>11, <1>12, <1>13, <1>14
       DEF Next, vars, ExportStart, ExportPublish, ExportFail,
           ExportMember, DamageMember

\* For any session, an archive at the output path describes itself and holds nothing
\* that must not leave the host, a refused import leaves nothing, and what an import
\* was cut off in is never called ok before somebody audits it.
THEOREM BundlesSound == Spec => []BundleSound
<1>1. Init => BundleInv
    <2> SUFFICES ASSUME Init PROVE BundleInv
        OBVIOUS
    <2>1. [v |-> 1, clean |-> FALSE] \in Bytes /\ Origin \in Dirs
        BY IntegrityAssumption DEF Bytes, Dirs
    <2>2. \A f \in Files : files[Origin][f] = [v |-> 1, clean |-> FALSE]
        BY <2>1 DEF Init
    <2>3. Undisturbed
        BY <2>1, <2>2, IntegrityAssumption DEF Undisturbed
    <2> QED
        BY <2>3 DEF Init, BundleInv
<1>2. Init => Restoring
    BY IntegrityAssumption DEF Init, Restoring, NoFiles, NoImport, NoAudit, Dirs
<1>3. Spec => []BundleInv
    BY <1>1, BundleStep, TypedAlways, PTL DEF Spec
<1>4. Spec => []Restoring
    BY <1>2, RestoringStep, TypedAlways, PTL DEF Spec
<1>5. BundleInv => BundleSelfConsistent
    BY DEF BundleInv, Describes, BundleSelfConsistent
<1>6. Restoring => NoPartialImport
    BY DEF Restoring, NoPartialImport, StoreLabel, Tampered
<1> QED
    BY <1>3, <1>4, <1>5, <1>6, PTL DEF BundleSound

-----------------------------------------------------------------------------
(* The verdict of an import.                                                *)

\* An archive holds what its manifest lists unless it is damaged, and then not.
Faithful(a) ==
    IF a.damaged THEN \E f \in Files : a.manifest[f] # Missing /\ a.members[f] # a.manifest[f]
    ELSE a.members = a.manifest

Extracting ==
    /\ Faithful(import.archive)
    /\ \A f \in Files : files[Restored][f] = IF f \in import.todo THEN Missing ELSE import.archive.members[f]

Auditing ==
    /\ Faithful(import.archive)
    /\ audit.pc # "idle" /\ audit.dir = Restored /\ audit.verifies
    /\ files[Restored] = import.archive.members /\ manifest[Restored] = import.archive.manifest
    /\ audit.pc \in {"walk", "write"} =>
          audit.tampered = import.archive.damaged /\ (audit.tampered => ~audit.valid)

ImportInv ==
    /\ bundle # None => Faithful(bundle)
    /\ import.pc = "extract" => Extracting
    /\ import.pc = "audit" => Auditing

\* The verification of a restored directory finds the damage and nothing else.
LEMMA DamageFound ==
    ASSUME Typed, import.pc = "audit", Auditing
    PROVE  Tampered(Restored) = import.archive.damaged
<1>1. import.archive \in Bundles
    BY DEF Typed
<1>2. manifest[Restored] \notin {None, Lost}
    BY <1>1, IntegrityAssumption DEF Auditing, Bundles
<1>3. Drifted(Restored) # {} <=> \E f \in Files : /\ import.archive.manifest[f] # Missing
                                                  /\ import.archive.members[f] # import.archive.manifest[f]
    BY <1>2 DEF Drifted, Recorded, Auditing
<1>4. CASE import.archive.damaged
    BY <1>2, <1>3, <1>4 DEF Tampered, Auditing, Faithful
<1>5. CASE ~import.archive.damaged
    BY <1>2, <1>3, <1>5, <1>1 DEF Tampered, Auditing, Faithful, Bundles
<1> QED
    BY <1>4, <1>5, <1>1 DEF Bundles

LEMMA ImportStep == ImportInv /\ Restoring /\ BundleInv /\ Typed /\ [Next]_vars => ImportInv'
<1> SUFFICES ASSUME ImportInv, Restoring, BundleInv, Typed, [Next]_vars PROVE ImportInv'
    OBVIOUS
<1>d. Origin \in Dirs /\ Restored \in Dirs /\ Origin # Restored
    BY IntegrityAssumption DEF Dirs
<1>b. bundle = None \/ bundle \in Bundles
    BY DEF Typed
<1> USE DEF ImportInv
\* A step that leaves archives and the restored directory alone.
<1>k. ASSUME UNCHANGED <<bundle, import, files, manifest>>, import.pc = "audit" => audit' = audit
      PROVE  ImportInv'
    BY <1>k DEF Extracting, Auditing, Faithful
<1>1. CASE UNCHANGED <<bundle, import, files, manifest, audit>>
    BY <1>1, <1>k
<1>2. ASSUME NEW d \in Dirs, AuditStart(d) PROVE ImportInv'
    BY <1>2 DEF AuditStart, Extracting, Auditing, Faithful, NoImport
<1>3. ASSUME NEW d \in Dirs, LoseManifest(d) PROVE ImportInv'
    BY <1>3 DEF LoseManifest, Extracting, Auditing, Faithful
<1>4. CASE AuditVerify
    <2>1. UNCHANGED <<bundle, import, files, manifest>>
        BY <1>4 DEF AuditVerify
    <2>2. CASE import.pc = "audit"
        <3>1. /\ audit'.pc = "walk" /\ audit'.dir = audit.dir /\ audit'.verifies = audit.verifies
              /\ audit'.tampered = (audit.verifies /\ Tampered(audit.dir)) /\ (audit'.tampered => ~audit'.valid)
            BY <1>4 DEF AuditVerify, Typed, Audits
        <3>2. audit'.tampered = Tampered(Restored)
            BY <2>2, <3>1 DEF Auditing, Tampered
        <3>3. Tampered(Restored) = import.archive.damaged
            BY <2>2, DamageFound
        <3> QED
            BY <2>1, <2>2, <3>1, <3>2, <3>3 DEF Auditing, Faithful
    <2> QED
        BY <2>1, <2>2, <1>k
<1>5. CASE AuditWalk
    <2>1. /\ audit'.pc = "write" /\ audit.pc = "walk" /\ audit'.dir = audit.dir
          /\ audit'.verifies = audit.verifies /\ audit'.tampered = audit.tampered /\ audit'.valid = audit.valid
        BY <1>5 DEF AuditWalk, Typed, Audits
    <2> QED
        BY <1>5, <2>1 DEF AuditWalk, Extracting, Auditing, Faithful
<1>6. CASE AuditWrite
    <2>1. import.pc # "audit" => import' = import
        BY <1>6 DEF AuditWrite
    <2>2. import.pc = "audit" => import'.pc = "done"
        BY <1>6 DEF AuditWrite, NoImport
    <2> QED
        BY <1>6, <2>1, <2>2 DEF AuditWrite, Extracting, Faithful
<1>7. ASSUME NEW f \in Files, NEW c \in 1 .. MaxContent, Finalize(f, c) PROVE ImportInv'
    <2>1. files'[Restored] = files[Restored] /\ import.pc # "audit"
        BY <1>7, <1>d DEF Finalize, Typed, Auditing
    <2> QED
        BY <1>7, <2>1 DEF Finalize, Extracting, Faithful
<1>8. CASE ExportPublish
    <2>1. Describes(export.members, export.recorded, export.raw, export.todo)
        BY <1>8 DEF ExportPublish, BundleInv, NoExport
    <2>2. Faithful(bundle')
        BY <1>8, <2>1 DEF ExportPublish, Describes, Faithful
    <2> QED
        BY <1>8, <2>2 DEF ExportPublish, Extracting, Auditing, Faithful
<1>9. CASE ImportStart
    <2>1. /\ import'.archive = bundle /\ import'.pc = "extract"
          /\ import'.todo = {f \in Files : bundle.members[f] # Missing}
          /\ UNCHANGED <<files, bundle>> /\ bundle # None
        BY <1>9 DEF ImportStart
    <2>2. \A f \in Files : files[Restored][f] = Missing
        BY <1>9 DEF ImportStart, Restoring, NoFiles
    <2>3. Extracting'
        BY <2>1, <2>2 DEF Extracting, Faithful
    <2> QED
        BY <2>1, <2>3 DEF Faithful
<1>10. ASSUME NEW f \in Files, ExtractMember(f) PROVE ImportInv'
    <2>1. /\ import'.pc = "extract" /\ import'.archive = import.archive /\ import'.todo = import.todo \ {f}
          /\ UNCHANGED bundle
        BY <1>10 DEF ExtractMember, Typed, Imports
    <2>2. /\ files'[Restored][f] = import.archive.members[f]
          /\ \A g \in Files : g # f => files'[Restored][g] = files[Restored][g]
        BY <1>10, <1>d DEF ExtractMember, Typed, Tree
    <2>3. Extracting'
        BY <1>10, <2>1, <2>2 DEF ExtractMember, Extracting, Faithful
    <2> QED
        BY <2>1, <2>3 DEF Faithful
<1>11. CASE Extracted
    <2>1. /\ import'.pc = "audit" /\ import'.archive = import.archive /\ UNCHANGED <<files, bundle>>
          /\ audit'.pc = "verify" /\ audit'.dir = Restored /\ audit'.verifies
        BY <1>11 DEF Extracted, ImportAudit, NoAudit, Typed, Imports
    <2>2. manifest'[Restored] = import.archive.manifest
        BY <1>11, <1>d DEF Extracted, Typed
    <2>3. files[Restored] \in Tree /\ import.archive.members \in Tree
        BY <1>11, <1>d DEF Extracted, Typed, Bundles
    <2>4. files[Restored] = import.archive.members
        BY <1>11, <2>3 DEF Extracted, Extracting, Tree
    <2>5. Auditing'
        BY <1>11, <2>1, <2>2, <2>4 DEF Extracted, Extracting, Auditing, Faithful
    <2> QED
        BY <2>1, <2>5 DEF Faithful
<1>12. CASE ImportFail \/ ImportCut
    BY <1>12 DEF ImportFail, ImportCut, NoImport, Faithful
<1>15. CASE AuditCut
    BY <1>15 DEF AuditCut, NoImport, Extracting, Faithful
<1>13. ASSUME NEW f \in Files, NEW b \in Outside(f), DamageMember(f, b) PROVE ImportInv'
    <2>1. /\ import.pc \notin {"extract", "audit"} /\ UNCHANGED import /\ bundle \in Bundles
          /\ bundle.members = bundle.manifest /\ bundle.manifest[f] # b /\ bundle.manifest[f] # Missing
        BY <1>13, <1>b DEF DamageMember, Faithful
    <2>2. bundle'.damaged /\ bundle'.manifest = bundle.manifest
          /\ bundle'.members = [bundle.members EXCEPT ![f] = b]
        BY <1>13, <2>1 DEF DamageMember, Bundles
    <2>3. bundle'.members[f] = b
        BY <2>1, <2>2 DEF Bundles, Tree
    <2>4. Faithful(bundle')
        BY <2>1, <2>2, <2>3 DEF Faithful
    <2> QED
        BY <2>1, <2>4 DEF Faithful
<1>14. ASSUME NEW f \in Files, NEW b \in Outside(f), NEW d \in Dirs, Alter(d, f, b) PROVE ImportInv'
    <2>1. import.pc \in {"extract", "audit"} => files'[Restored] = files[Restored]
        BY <1>14, <1>d DEF Alter, Typed, Landed
    <2> QED
        BY <1>14, <2>1 DEF Alter, Extracting, Auditing, Faithful
<1> QED
    BY <1>1, <1>2, <1>3, <1>4, <1>5, <1>6, <1>7, <1>8, <1>9, <1>10, <1>11, <1>12, <1>13, <1>14,
       <1>15 DEF Next, vars, ExportStart, ExportFail, ExportMember

\* For any archive and any damage on its way: a restored one is found INVALID
\* exactly when a member its manifest lists changed, and keeps its own baseline.
THEOREM ImportsJudged == Spec => ImportVerdict
<1>1. Init => ImportInv /\ Restoring /\ BundleInv
    <2> SUFFICES ASSUME Init PROVE ImportInv /\ Restoring /\ BundleInv
        OBVIOUS
    <2>1. [v |-> 1, clean |-> FALSE] \in Bytes /\ Origin \in Dirs /\ Restored \in Dirs
        BY IntegrityAssumption DEF Bytes, Dirs
    <2>2. \A f \in Files : files[Origin][f] = [v |-> 1, clean |-> FALSE]
        BY <2>1 DEF Init
    <2>3. Undisturbed
        BY <2>1, <2>2, IntegrityAssumption DEF Undisturbed
    <2>4. Restoring
        BY <2>1, IntegrityAssumption DEF Init, Restoring, NoFiles, NoImport, NoAudit
    <2> QED
        BY <2>3, <2>4 DEF Init, BundleInv, ImportInv, NoImport
<1>2. ImportInv /\ Typed /\ [Next]_vars =>
        [import.pc = "audit" /\ import'.pc = "done" =>
            /\ audit.tampered <=> import.archive.damaged
            /\ audit.tampered => ~audit.valid /\ manifest'[Restored] = import.archive.manifest]_vars
    <2> SUFFICES ASSUME ImportInv, Typed, [Next]_vars, import.pc = "audit", import'.pc = "done"
                 PROVE  /\ audit.tampered <=> import.archive.damaged
                        /\ audit.tampered => ~audit.valid /\ manifest'[Restored] = import.archive.manifest
        OBVIOUS
    <2>1. AuditWrite
        BY DEF Next, vars, AuditStart, LoseManifest, AuditVerify, AuditWalk, Finalize, ExportStart,
               ExportPublish, ExportFail, ExportMember, ExtractMember, ImportStart, Extracted,
               ImportFail, ImportCut, AuditCut, DamageMember, Alter, NoImport
    <2>2. audit.tampered => manifest' = manifest
        <3> SUFFICES ASSUME audit.tampered PROVE manifest' = manifest
            OBVIOUS
        <3>1. manifest' = [manifest EXCEPT ![audit.dir] = manifest[audit.dir]]
            BY <2>1 DEF AuditWrite, Stamped
        <3> QED
            BY <3>1 DEF Typed
    <2> QED
        BY <2>1, <2>2 DEF AuditWrite, ImportInv, Auditing
<1>3. Spec => [](Typed /\ ImportInv /\ Restoring /\ BundleInv)
    BY <1>1, ImportStep, RestoringStep, BundleStep, TypedAlways, PTL DEF Spec
<1> QED
    BY <1>2, <1>3, PTL DEF Spec, ImportVerdict
=============================================================================
