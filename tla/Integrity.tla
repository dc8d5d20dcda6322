----------------------------- MODULE Integrity ------------------------------
(***************************************************************************)
(* The integrity manifest of a session and the support bundle that carries *)
(* one: finalize and audit (apm_suite/session.py) record what a session's  *)
(* files hash to, verify-store compares without writing, export_bundle and *)
(* import_bundle (apm_suite/bundle.py) scrub a session into an archive     *)
(* with a manifest of its own and restore it elsewhere.  Files change      *)
(* under all of them: a disk rots, an operator attaches or edits an        *)
(* artifact, an archive is damaged on its way.                             *)
(***************************************************************************)
EXTENDS Integers, FiniteSets

CONSTANTS
    Files,
    Kind,          \* what each file is, as export_bundle tells files apart
    Required,      \* the documents a session must have
    MaxContent,    \* bound on the contents a file can have
    MaxAlters,     \* bound on the changes from outside
    Origin, Restored,       \* the session and the directory a bundle is restored to
    Missing, None, Lost     \* no file, no manifest yet, an unreadable manifest

Dirs == {Origin, Restored}
Kinds == {"json", "text", "raw", "excluded", "link"}
\* v = 0 is a document cut short (nothing tells other files cut short apart); clean: home prefix and command line scrubbed.
Bytes == [v : 0 .. MaxContent, clean : BOOLEAN]
Tree == [Files -> Bytes \cup {Missing}]

ASSUME IntegrityAssumption ==
    /\ IsFiniteSet(Files) /\ Kind \in [Files -> Kinds] /\ Required \subseteq Files
    /\ MaxContent \in Nat \ {0} /\ MaxAlters \in Nat
    /\ Origin # Restored /\ Missing \notin Bytes /\ {None, Lost} \cap Tree = {} /\ None # Lost

VARIABLES
    files,         \* what the files of each session directory hold
    manifest,      \* its manifest.json: file to recorded bytes, Missing when not listed
    audit,         \* the audit or finalize under way
    export,        \* the export under way
    bundle,        \* the archive at the output path
    import,        \* the import under way
    alters,        \* changes from outside so far
    drift          \* history: recorded files changed from outside, no audit running there

vars == <<files, manifest, audit, export, bundle, import, alters, drift>>

NoFiles == [f \in Files |-> Missing]
Bundles == [members : Tree, manifest : Tree, raw : SUBSET Files, damaged : BOOLEAN]
NoAudit == [pc |-> "idle", dir |-> Origin, verifies |-> TRUE, tampered |-> FALSE,
            seen |-> NoFiles, valid |-> FALSE]
NoExport == [pc |-> "idle", todo |-> {}, members |-> NoFiles, recorded |-> NoFiles, raw |-> {}]
NoImport == [pc |-> "idle", todo |-> {}, archive |-> None]

\* How an import leaves a directory in the store: restored; in part, by an import
\* that was cut off; or audited by hand after that.
Landed == {"done", "stranded", "adopted"}

TypeOK ==
    /\ files \in [Dirs -> Tree]
    /\ manifest \in [Dirs -> Tree \cup {None, Lost}]
    /\ audit \in [pc : {"idle", "verify", "walk", "write"}, dir : Dirs, verifies : BOOLEAN,
                  tampered : BOOLEAN, seen : Tree, valid : BOOLEAN]
    /\ export \in [pc : {"idle", "walk"}, todo : SUBSET Files, members : Tree, recorded : Tree,
                   raw : SUBSET Files]
    /\ bundle \in Bundles \cup {None}
    /\ import \in [pc : {"idle", "extract", "audit", "refused"} \cup Landed, todo : SUBSET Files,
                   archive : Bundles \cup {None}]
    /\ alters \in 0 .. MaxAlters
    /\ drift \subseteq Dirs \X Files

Init ==
    /\ files = [d \in Dirs |-> [f \in Files |->
                  IF d = Origin THEN [v |-> 1, clean |-> FALSE] ELSE Missing]]
    /\ manifest = [d \in Dirs |-> None]
    /\ audit = NoAudit /\ export = NoExport /\ import = NoImport
    /\ bundle = None /\ alters = 0 /\ drift = {}

-----------------------------------------------------------------------------
(* What the checks say of a directory. *)

Recorded(d) == {f \in Files : manifest[d] \notin {None, Lost} /\ manifest[d][f] # Missing}

\* verify_recorded_hashes
Drifted(d) == {f \in Recorded(d) : files[d][f] # manifest[d][f]}
Tampered(d) == manifest[d] = Lost \/ Drifted(d) # {}

Incomplete(d) == \E f \in Required : files[d][f] = Missing
Unparsable(d) == \E f \in Files : Kind[f] = "json" /\ files[d][f] # Missing /\ files[d][f].v = 0

\* The label verify-store prints; it writes nothing.
StoreLabel(d) ==
    IF Tampered(d) \/ Unparsable(d) THEN "INVALID"
    ELSE IF Incomplete(d) \/ manifest[d] = None THEN "incomplete" ELSE "ok"

\* What the walk of audit_session lists: regular files, links skipped.
Listing(d) == [f \in Files |-> IF Kind[f] = "link" THEN Missing ELSE files[d][f]]

-----------------------------------------------------------------------------
(* audit_session: verify, walk, write. *)

\* `audit` and import verify the recorded hashes first.
AuditStart(d) ==
    /\ audit.pc = "idle" /\ files[d] # NoFiles
    /\ d = Restored => import.pc \in Landed
    /\ audit' = [NoAudit EXCEPT !.pc = "verify", !.dir = d]
    /\ import' = IF d = Restored /\ import.pc = "stranded" THEN [NoImport EXCEPT !.pc = "adopted"]
                 ELSE import
    /\ UNCHANGED <<files, manifest, export, bundle, alters, drift>>

AuditVerify ==
    /\ audit.pc = "verify"
    /\ LET tampered == audit.verifies /\ Tampered(audit.dir)
       IN  audit' = [audit EXCEPT !.pc = "walk", !.tampered = tampered,
                        !.valid = ~(tampered \/ Incomplete(audit.dir) \/ Unparsable(audit.dir))]
    /\ UNCHANGED <<files, manifest, export, bundle, import, alters, drift>>

AuditWalk ==
    /\ audit.pc = "walk"
    /\ audit' = [audit EXCEPT !.pc = "write", !.seen = Listing(audit.dir)]
    /\ UNCHANGED <<files, manifest, export, bundle, import, alters, drift>>

\* Mutant of Stamped: the manifest is written whatever the verification found.
AlwaysStamped == audit.seen

Stamped == IF audit.tampered THEN manifest[audit.dir] ELSE audit.seen

AuditWrite ==
    /\ audit.pc = "write"
    /\ manifest' = [manifest EXCEPT ![audit.dir] = Stamped]
    /\ audit' = NoAudit
    /\ import' = IF import.pc = "audit" THEN [NoImport EXCEPT !.pc = "done"] ELSE import
    /\ UNCHANGED <<files, export, bundle, alters, drift>>

\* Ctrl-C or a kill: the manifest, replaced atomically, stays as it was.
AuditCut ==
    /\ audit.pc # "idle"
    /\ audit' = NoAudit
    /\ import' = IF import.pc = "audit" THEN [NoImport EXCEPT !.pc = "adopted"] ELSE import
    /\ UNCHANGED <<files, manifest, export, bundle, alters, drift>>

\* finalize rewrites an artifact and re-stamps without verifying: "a re-finalize
\* rewrites artifacts a previous audit recorded".
Finalize(f, c) ==
    /\ audit.pc = "idle" /\ Kind[f] \in {"json", "text"}
    /\ files' = [files EXCEPT ![Origin][f] = [v |-> c, clean |-> FALSE]]
    /\ audit' = [NoAudit EXCEPT !.pc = "verify", !.verifies = FALSE]
    /\ drift' = {x \in drift : x[1] # Origin}
    /\ UNCHANGED <<manifest, export, bundle, import, alters>>

-----------------------------------------------------------------------------
(* export_bundle *)

Walked == {f \in Files : Kind[f] \notin {"link", "excluded"}}

\* The bytes the archive stores for a file.
Scrub(f) == [files[Origin][f] EXCEPT !.clean = Kind[f] \in {"json", "text"}]

\* A text that could not be opened as one is copied raw; a copy that fails too
\* is ExportFail.
Stored(f) == {Scrub(f)} \cup IF Kind[f] = "text" THEN {files[Origin][f]} ELSE {}

\* export: the texts copied raw so far.
RawWith(f, b) == IF Kind[f] = "text" /\ b # Scrub(f) THEN export.raw \cup {f} ELSE export.raw

ExportStart ==
    /\ export.pc = "idle"
    /\ export' = [NoExport EXCEPT !.pc = "walk", !.todo = Walked]
    /\ UNCHANGED <<files, manifest, audit, bundle, import, alters, drift>>

\* Mutant of Store: the manifest lists the source's bytes, not the member's.
StoreSource(f, b) ==
    export' = [export EXCEPT !.todo = @ \ {f}, !.members[f] = b, !.recorded[f] = files[Origin][f],
                             !.raw = RawWith(f, b)]

Store(f, b) ==
    export' = [export EXCEPT !.todo = @ \ {f}, !.members[f] = b, !.recorded[f] = b,
                             !.raw = RawWith(f, b)]

ExportMember(f) ==
    /\ export.pc = "walk" /\ f \in export.todo
    /\ ~(Kind[f] = "json" /\ files[Origin][f] # Missing /\ files[Origin][f].v = 0)
    /\ \/ files[Origin][f] # Missing /\ \E b \in Stored(f) : Store(f, b)
       \/ files[Origin][f] = Missing /\ export' = [export EXCEPT !.todo = @ \ {f}]
    /\ UNCHANGED <<files, manifest, audit, bundle, import, alters, drift>>

ExportPublish ==
    /\ export.pc = "walk" /\ export.todo = {}
    /\ bundle' = [members |-> export.members, manifest |-> export.recorded,
                  raw |-> export.raw, damaged |-> FALSE]
    /\ export' = NoExport
    /\ UNCHANGED <<files, manifest, audit, import, alters, drift>>

\* An unparsable document, an unreadable file, a full disk or a kill: the temp
\* file goes (or is left behind), the output path keeps what it held.
ExportFail ==
    /\ export.pc = "walk"
    /\ export' = NoExport
    /\ UNCHANGED <<files, manifest, audit, bundle, import, alters, drift>>

-----------------------------------------------------------------------------
(* import_bundle *)

\* The size and path checks come before the claim of the directory.
ImportStart ==
    /\ import.pc \in {"idle", "refused"} /\ bundle # None
    /\ import' = [pc |-> "extract", archive |-> bundle,
                   todo |-> {f \in Files : bundle.members[f] # Missing}]
    /\ UNCHANGED <<files, manifest, audit, export, bundle, alters, drift>>

ExtractMember(f) ==
    /\ import.pc = "extract" /\ f \in import.todo
    /\ files' = [files EXCEPT ![Restored][f] = import.archive.members[f]]
    /\ import' = [import EXCEPT !.todo = @ \ {f}]
    /\ UNCHANGED <<manifest, audit, export, bundle, alters, drift>>

\* Mutant of ImportAudit: a plain audit.
PlainAudit == [NoAudit EXCEPT !.pc = "verify", !.dir = Restored, !.verifies = FALSE]

ImportAudit == [NoAudit EXCEPT !.pc = "verify", !.dir = Restored]

Extracted ==
    /\ import.pc = "extract" /\ import.todo = {} /\ audit.pc = "idle"
    /\ manifest' = [manifest EXCEPT ![Restored] = import.archive.manifest]
    /\ import' = [import EXCEPT !.pc = "audit"]
    /\ audit' = ImportAudit
    /\ UNCHANGED <<files, export, bundle, alters, drift>>

\* Mutant of Cleared: what was extracted is left for the next audit to find.
Strand == files

Cleared == [files EXCEPT ![Restored] = NoFiles]

\* A corrupt member or a full disk: the directory goes, the import is refused.
ImportFail ==
    /\ import.pc = "extract"
    /\ files' = Cleared
    /\ import' = [NoImport EXCEPT !.pc = "refused"]
    /\ UNCHANGED <<manifest, audit, export, bundle, alters, drift>>

\* A document cut short on its way to the disk; it was scrubbed.
CutShort == [v |-> 0, clean |-> TRUE]

\* Ctrl-C, a kill or an error the handler does not catch, or one it does whose
\* removal fails in part (members come in any order here, so what that leaves is
\* covered): the directory stays, perhaps with a member cut short.  The archive's
\* manifest is its last member: it is not there yet, or it is torn.
ImportCut ==
    /\ import.pc = "extract"
    /\ \/ UNCHANGED files
       \/ \E f \in import.todo :
             Kind[f] = "json" /\ files' = [files EXCEPT ![Restored][f] = CutShort]
    /\ \E m \in {None, Lost} :
          (m = Lost => import.todo = {}) /\ manifest' = [manifest EXCEPT ![Restored] = m]
    /\ import' = [NoImport EXCEPT !.pc = "stranded"]
    /\ UNCHANGED <<audit, export, bundle, alters, drift>>

-----------------------------------------------------------------------------
(* Changes from outside. *)

\* A file changes, vanishes or appears; a recorded one has then drifted, unless
\* an audit of its directory was already past the point of noticing.
Alter(d, f, b) ==
    /\ alters < MaxAlters /\ files[d] # NoFiles /\ files[d][f] # b
    /\ d = Restored => import.pc \in Landed
    /\ files' = [files EXCEPT ![d][f] = b]
    /\ alters' = alters + 1
    /\ drift' = IF f \in Recorded(d) /\ b # manifest[d][f] /\ ~(audit.pc # "idle" /\ audit.dir = d)
                THEN drift \cup {<<d, f>>} ELSE drift \ {<<d, f>>}
    /\ UNCHANGED <<manifest, audit, export, bundle, import>>

LoseManifest(d) ==
    /\ alters < MaxAlters /\ manifest[d] \notin {None, Lost} /\ audit.pc = "idle"
    /\ manifest' = [manifest EXCEPT ![d] = Lost]
    /\ alters' = alters + 1
    /\ UNCHANGED <<files, audit, export, bundle, import, drift>>

\* A member the archive's manifest lists changes or is dropped in transit.
DamageMember(f, b) ==
    /\ alters < MaxAlters /\ bundle # None /\ import.pc \in {"idle", "refused"}
    /\ bundle.manifest[f] # Missing /\ bundle.members[f] # b /\ ~bundle.damaged
    /\ bundle' = [bundle EXCEPT !.members[f] = b, !.damaged = TRUE]
    /\ alters' = alters + 1
    /\ UNCHANGED <<files, manifest, audit, export, import, drift>>

Outside(f) ==
    {Missing} \cup [v : (IF Kind[f] = "json" THEN 0 ELSE 1) .. MaxContent, clean : {FALSE}]

Next ==
    \/ \E d \in Dirs : AuditStart(d) \/ LoseManifest(d)
    \/ AuditVerify \/ AuditWalk \/ AuditWrite \/ AuditCut
    \/ \E f \in Files, c \in 1 .. MaxContent : Finalize(f, c)
    \/ ExportStart \/ ExportPublish \/ ExportFail
    \/ \E f \in Files : ExportMember(f) \/ ExtractMember(f)
    \/ ImportStart \/ Extracted \/ ImportFail \/ ImportCut
    \/ \E f \in Files : \E b \in Outside(f) :
          DamageMember(f, b) \/ \E d \in Dirs : Alter(d, f, b)

Spec == Init /\ [][Next]_vars

-----------------------------------------------------------------------------
\* An audit never absorbs drift that was there before it began: as long as no
\* finalize has stamped over it, a recorded file that changed outside still
\* differs from the manifest, however often the session is audited.
DriftStaysVisible ==
    \A x \in drift : manifest[x[1]] # Lost => manifest[x[1]][x[2]] # files[x[1]][x[2]]

\* A bundle nobody touched restores without an integrity finding, whatever was
\* finalized or altered in the session while the export walked it; one whose
\* recorded members changed on the way is found INVALID and keeps the baseline
\* it came with.
ImportVerdict ==
    [][import.pc = "audit" /\ import'.pc = "done" =>
          /\ audit.tampered <=> import.archive.damaged
          /\ audit.tampered => ~audit.valid /\ manifest'[Restored] = import.archive.manifest]_vars

\* The archive at the output path always describes itself: it holds exactly the
\* members its manifest lists, none of them one that must not leave the host, each
\* document scrubbed and each text unless it had to be copied raw, and every file
\* that stayed in the session throughout is in it.
BundleSelfConsistent ==
    bundle # None /\ ~bundle.damaged =>
        /\ bundle.members = bundle.manifest
        /\ \A f \in Files : bundle.members[f] # Missing =>
              /\ Kind[f] \notin {"link", "excluded"}
              /\ Kind[f] = "json" \/ (Kind[f] = "text" /\ f \notin bundle.raw) => bundle.members[f].clean
        /\ alters = 0 => \A f \in Files : bundle.members[f] = Missing => Kind[f] \in {"link", "excluded"}

\* A refused import leaves nothing.  A directory an import was cut off in is never
\* called ok by verify-store: it has no manifest, or a torn one, until somebody
\* audits it.  One an import completed has its manifest.
NoPartialImport ==
    /\ import.pc \in {"idle", "refused"} => files[Restored] = NoFiles
    /\ import.pc = "stranded" => StoreLabel(Restored) # "ok"
    /\ import.pc = "done" => manifest[Restored] # None

\* An archive describes itself, and what an import leaves is whole or known not to be.
BundleSound == BundleSelfConsistent /\ NoPartialImport

-----------------------------------------------------------------------------
(* What comments in the code say and the code does not do (README). *)

\* "A mid-extract failure must not strand a partial session": import_bundle removes
\* it for the five kinds of error it names only.
NeverStranded == import.pc # "stranded"

\* "The raw copy hits the same wall": unless what kept the text from being opened
\* has passed, and then it leaves the host unscrubbed.
RawNeverStored == bundle # None => bundle.raw = {}
=============================================================================
