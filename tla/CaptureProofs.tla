---------------------------- MODULE CaptureProofs ----------------------------
(***************************************************************************)
(* Theorems about Capture, for any number of captures, any catalog and any *)
(* number of interrupts.                                                   *)
(***************************************************************************)
EXTENDS Capture, TLAPS

\* A collector that has been started is noted in current while it is spawned.
Noted == \A c \in Captures : cap[c].pc = "spawned" => cap[c].current \in Specs

TypeInv == TypeOK /\ Noted

LEMMA Bounds ==
    /\ MaxInterrupts \in Nat /\ MaxWrites \in Nat
    /\ Plans \in [Captures -> SUBSET SUBSET Specs]
    /\ Mono \subseteq Sudo /\ Sudo \subseteq Specs
    /\ Source \notin Captures /\ NoLink \notin Captures \cup {Source}
    /\ NoSpec \notin Specs
  BY CatalogAssumption DEF CatalogAssumption

\* _classify only has statuses of the schema.
LEMMA VerdictType ==
    ASSUME NEW e, NEW p, NEW i
    PROVE Verdict(e, p, i) \in Statuses
  BY DEF Verdict, Statuses


WorldTyped ==
    /\ link \in Targets \cup {NoLink}
    /\ mounts \subseteq Captures
    /\ child \in [Captures -> [Specs -> Ends \cup {"none", "alive"}]]
    /\ artifact \in [Captures -> [Specs -> 0 .. MaxWrites]]
    /\ result \in [Captures -> Results]
    /\ observed \subseteq Captures
    /\ manifest \in [Captures -> Manifests \cup {NoManifest}]

\* One capture takes a step, and whatever it does to the world is well typed.
LEMMA LocalStep ==
    ASSUME TypeInv, NEW c \in Captures, NEW r \in Locals,
           r.pc = "spawned" => r.current \in Specs,
           cap' = [cap EXCEPT ![c] = r], WorldTyped'
    PROVE TypeInv'
  <1>1. cap' \in [Captures -> Locals]
    BY DEF TypeInv, TypeOK
  <1>2. ASSUME NEW d \in Captures PROVE cap'[d].pc = "spawned" => cap'[d].current \in Specs
    <2>1. CASE d = c BY <2>1 DEF TypeInv, TypeOK
    <2>2. CASE d # c BY <2>2 DEF TypeInv, TypeOK, Noted
    <2> QED BY <2>1, <2>2
  <1> QED BY <1>1, <1>2 DEF TypeInv, TypeOK, Noted, WorldTyped

LEMMA WorldKept ==
    ASSUME TypeInv, UNCHANGED <<link, mounts, world, records>>
    PROVE WorldTyped'
  BY DEF TypeInv, TypeOK, WorldTyped, world, records

LEMMA TypeInit == Init => TypeInv
  <1> SUFFICES ASSUME Init PROVE TypeInv
    OBVIOUS
  <1>1. Begin \in Locals /\ Begin.pc # "spawned"
    BY Bounds DEF Begin, Locals, Labels
  <1>2. cap \in [Captures -> Locals] /\ Noted
    BY <1>1 DEF Init, Noted
  <1>3. WorldTyped
    BY Bounds DEF Init, WorldTyped, Results, Ends
  <1> QED BY <1>2, <1>3 DEF TypeInv, TypeOK, WorldTyped

LEMMA TypeAcquire ==
    ASSUME TypeInv, NEW c \in Captures, Acquire(c) PROVE TypeInv'
  <1>1. cap[c] \in Locals /\ WorldTyped
    BY DEF TypeInv, TypeOK, WorldTyped
  <1>2. CASE Start(c)
    <2>1. PICK sudo \in BOOLEAN, plan \in SUBSET Specs :
              cap' = [cap EXCEPT ![c].pc = "jitmap", ![c].sudo = sudo, ![c].plan = plan]
      BY <1>2, Bounds DEF Start
    <2> DEFINE r == [cap[c] EXCEPT !.pc = "jitmap", !.sudo = sudo, !.plan = plan]
    <2>2. r \in Locals /\ r.pc # "spawned"
      BY <1>1 DEF Locals, Labels, Acquiring
    <2>3. cap' = [cap EXCEPT ![c] = r]
      BY <2>1
    <2> HIDE DEF r
    <2> QED BY <1>2, <2>2, <2>3, WorldKept, LocalStep DEF Start
  <1>3. CASE PlaceLink(c)
    <2>1. PICK t \in Targets :
              /\ cap' = [cap EXCEPT ![c].pc = "linked", ![c].target = t]
              /\ link' = t
      BY <1>3 DEF PlaceLink, Targets
    <2> DEFINE r == [cap[c] EXCEPT !.pc = "linked", !.target = t]
    <2>2. r \in Locals /\ r.pc # "spawned"
      BY <1>1 DEF Locals, Labels, Acquiring
    <2>3. cap' = [cap EXCEPT ![c] = r]
      BY <2>1
    <2>4. WorldTyped'
      BY <1>1, <1>3, <2>1 DEF PlaceLink, WorldTyped, world, records
    <2> HIDE DEF r
    <2> QED BY <2>2, <2>3, <2>4, LocalStep
  <1>4. CASE NoMap(c)
    <2> DEFINE r == [cap[c] EXCEPT !.pc = "mount"]
    <2>1. r \in Locals /\ r.pc # "spawned"
      BY <1>1 DEF Locals, Labels, Acquiring
    <2>2. cap' = [cap EXCEPT ![c] = r]
      BY <1>4 DEF NoMap, Goto
    <2> HIDE DEF r
    <2> QED BY <1>4, <2>1, <2>2, WorldKept, LocalStep DEF NoMap
  <1>5. CASE KeepLink(c)
    <2> DEFINE r == [cap[c] EXCEPT !.pc = "mount", !.linked = TRUE]
    <2>1. r \in Locals /\ r.pc # "spawned"
      BY <1>1 DEF Locals, Labels, Acquiring
    <2>2. cap' = [cap EXCEPT ![c] = r]
      BY <1>5 DEF KeepLink, Goto
    <2> HIDE DEF r
    <2> QED BY <1>5, <2>1, <2>2, WorldKept, LocalStep DEF KeepLink
  <1>6. CASE Mount(c)
    <2> DEFINE r == [cap[c] EXCEPT !.pc = "bound"]
    <2>1. r \in Locals /\ r.pc # "spawned"
      BY <1>1 DEF Locals, Labels, Acquiring
    <2>2. cap' = [cap EXCEPT ![c] = r]
      BY <1>6 DEF Mount, Goto
    <2>3. WorldTyped'
      BY <1>1, <1>6 DEF Mount, WorldTyped, Targets, world, records
    <2> HIDE DEF r
    <2> QED BY <2>1, <2>2, <2>3, LocalStep
  <1>7. CASE KeepMount(c)
    <2> DEFINE r == [cap[c] EXCEPT !.pc = "launch", !.bound = TRUE, !.todo = Specs]
    <2>1. r \in Locals /\ r.pc # "spawned"
      BY <1>1 DEF Locals, Labels, Window
    <2>2. cap' = [cap EXCEPT ![c] = r]
      BY <1>7 DEF KeepMount, Goto
    <2> HIDE DEF r
    <2> QED BY <1>7, <2>1, <2>2, WorldKept, LocalStep DEF KeepMount
  <1>8. CASE NoMount(c)
    <2> DEFINE r == [cap[c] EXCEPT !.pc = "launch", !.todo = Specs]
    <2>1. r \in Locals /\ r.pc # "spawned"
      BY <1>1 DEF Locals, Labels, Window
    <2>2. cap' = [cap EXCEPT ![c] = r]
      BY <1>8 DEF NoMount, Goto
    <2> HIDE DEF r
    <2> QED BY <1>8, <2>1, <2>2, WorldKept, LocalStep DEF NoMount
  <1> QED BY <1>2, <1>3, <1>4, <1>5, <1>6, <1>7, <1>8 DEF Acquire

LEMMA TypeCollect ==
    ASSUME TypeInv, NEW c \in Captures, Collect(c) PROVE TypeInv'
  <1>1. cap[c] \in Locals /\ WorldTyped
    BY DEF TypeInv, TypeOK, WorldTyped
  <1>2. CASE Track(c)
    <2> DEFINE r == [cap[c] EXCEPT !.pc = "launch", !.running = @ \cup {cap[c].current},
                                   !.current = NoSpec]
    <2>1. cap[c].current \in Specs
      BY <1>2 DEF TypeInv, Noted, Track, At
    <2>2. r \in Locals /\ r.pc # "spawned"
      BY <1>1, <2>1 DEF Locals, Labels, Window
    <2>3. cap' = [cap EXCEPT ![c] = r]
      BY <1>2 DEF Track
    <2> HIDE DEF r
    <2> QED BY <1>2, <2>2, <2>3, WorldKept, LocalStep DEF Track
  <1>3. CASE Launched(c)
    <2> DEFINE r == [cap[c] EXCEPT !.pc = "poll"]
    <2>1. r \in Locals /\ r.pc # "spawned"
      BY <1>1 DEF Locals, Labels, Window
    <2>2. cap' = [cap EXCEPT ![c] = r]
      BY <1>3 DEF Launched, Goto
    <2> HIDE DEF r
    <2> QED BY <1>3, <2>1, <2>2, WorldKept, LocalStep DEF Launched
  <1>4. CASE Finished(c)
    <2> DEFINE r == [cap[c] EXCEPT !.pc = "release"]
    <2>1. r \in Locals /\ r.pc # "spawned"
      BY <1>1 DEF Locals, Labels, Releasing
    <2>2. cap' = [cap EXCEPT ![c] = r]
      BY <1>4 DEF Finished, Goto
    <2> HIDE DEF r
    <2> QED BY <1>4, <2>1, <2>2, WorldKept, LocalStep DEF Finished
  <1>5. CASE Deadline(c)
    <2> DEFINE r == [cap[c] EXCEPT !.pc = "expire", !.todo = cap[c].running]
    <2>1. r \in Locals /\ r.pc # "spawned"
      BY <1>1 DEF Locals, Labels, Window
    <2>2. cap' = [cap EXCEPT ![c] = r]
      BY <1>5 DEF Deadline, Goto
    <2> HIDE DEF r
    <2> QED BY <1>5, <2>1, <2>2, WorldKept, LocalStep DEF Deadline
  <1>6. CASE Reaped(c)
    <2> DEFINE r == [cap[c] EXCEPT !.pc = "release"]
    <2>1. r \in Locals /\ r.pc # "spawned"
      BY <1>1 DEF Locals, Labels, Releasing
    <2>2. cap' = [cap EXCEPT ![c] = r]
      BY <1>6 DEF Reaped, Goto
    <2> HIDE DEF r
    <2> QED BY <1>6, <2>1, <2>2, WorldKept, LocalStep DEF Reaped
  <1>7. ASSUME NEW s \in Specs, PassOver(c, s) PROVE TypeInv'
    <2> DEFINE r == [cap[c] EXCEPT !.todo = @ \ {s}]
    <2>1. r \in Locals /\ (r.pc = "spawned" => r.current \in Specs)
      BY <1>1, <1>7 DEF PassOver, At, Locals
    <2>2. cap' = [cap EXCEPT ![c] = r]
      BY <1>7 DEF PassOver
    <2>3. WorldTyped'
      <3>1. PICK x \in Statuses \cup {"none"} : result' = [result EXCEPT ![c][s] = x]
        BY <1>7 DEF PassOver, Unstarted, Statuses
      <3> QED BY <1>1, <1>7, <3>1 DEF PassOver, WorldTyped, Results, world
    <2> HIDE DEF r
    <2> QED BY <2>1, <2>2, <2>3, LocalStep
  <1>8. ASSUME NEW s \in Specs, Spawn(c, s) PROVE TypeInv'
    <2> DEFINE r == [cap[c] EXCEPT !.pc = "spawned", !.todo = @ \ {s}, !.current = s]
    <2>1. r \in Locals /\ (r.pc = "spawned" => r.current \in Specs)
      BY <1>1 DEF Locals, Labels, Window
    <2>2. cap' = [cap EXCEPT ![c] = r]
      BY <1>8 DEF Spawn
    <2>3. WorldTyped'
      BY <1>1, <1>8 DEF Spawn, WorldTyped, world, records
    <2> HIDE DEF r
    <2> QED BY <2>1, <2>2, <2>3, LocalStep
  <1>9. ASSUME NEW s \in Specs, Reap(c, s) PROVE TypeInv'
    <2> DEFINE r == [cap[c] EXCEPT !.todo = @ \ {s}]
    <2>1. r \in Locals /\ (r.pc = "spawned" => r.current \in Specs)
      BY <1>1, <1>9 DEF Reap, Locals
    <2>2. cap' = [cap EXCEPT ![c] = r]
      BY <1>9 DEF Reap
    <2>3. WorldTyped'
      BY <1>1, <1>9 DEF Reap, AfterKill, WorldTyped, Ends, world, records
    <2> HIDE DEF r
    <2> QED BY <2>1, <2>2, <2>3, LocalStep
  <1> QED BY <1>2, <1>3, <1>4, <1>5, <1>6, <1>7, <1>8, <1>9 DEF Collect

LEMMA TypeRelease ==
    ASSUME TypeInv, NEW c \in Captures, Release(c) PROVE TypeInv'
  <1>1. cap[c] \in Locals /\ WorldTyped
    BY DEF TypeInv, TypeOK, WorldTyped
  <1>2. AfterRelease(c) \in {"aborted", "record"}
    BY DEF AfterRelease
  <1>3. CASE Unmount(c)
    <2>1. PICK w \in BOOLEAN :
              cap' = [cap EXCEPT ![c].pc = "unlinking", ![c].warned = w]
      <3>1. CASE cap' = [cap EXCEPT ![c].pc = "unlinking", ![c].warned = TRUE]
        BY <3>1
      <3>2. CASE cap' = [cap EXCEPT ![c].pc = "unlinking"]
        <4>1. [cap[c] EXCEPT !.pc = "unlinking", !.warned = cap[c].warned]
                  = [cap[c] EXCEPT !.pc = "unlinking"]
          BY <1>1 DEF Locals
        <4> QED BY <1>1, <3>2, <4>1 DEF Locals
      <3> QED BY <1>3, <3>1, <3>2 DEF Unmount, Goto
    <2> DEFINE r == [cap[c] EXCEPT !.pc = "unlinking", !.warned = w]
    <2>2. r \in Locals /\ r.pc # "spawned"
      BY <1>1 DEF Locals, Labels, Releasing
    <2>3. cap' = [cap EXCEPT ![c] = r]
      BY <2>1
    <2>4. WorldTyped'
      BY <1>1, <1>3 DEF Unmount, WorldTyped, world, records
    <2> HIDE DEF r
    <2> QED BY <2>2, <2>3, <2>4, LocalStep
  <1>4. CASE CheckLink(c)
    <2>1. PICK l \in {"unlink", "aborted", "record"} : cap' = [cap EXCEPT ![c].pc = l]
      BY <1>2, <1>4 DEF CheckLink, Goto
    <2> DEFINE r == [cap[c] EXCEPT !.pc = l]
    <2>2. r \in Locals /\ r.pc # "spawned"
      BY <1>1 DEF Locals, Labels, Releasing, Recording, Ended
    <2>3. cap' = [cap EXCEPT ![c] = r]
      BY <2>1
    <2> HIDE DEF r
    <2> QED BY <1>4, <2>2, <2>3, WorldKept, LocalStep DEF CheckLink
  <1>5. CASE Unlink(c)
    <2>1. PICK l \in {"aborted", "record"} : cap' = [cap EXCEPT ![c].pc = l]
      BY <1>2, <1>5 DEF Unlink, Goto
    <2> DEFINE r == [cap[c] EXCEPT !.pc = l]
    <2>2. r \in Locals /\ r.pc # "spawned"
      BY <1>1 DEF Locals, Labels, Recording, Ended
    <2>3. cap' = [cap EXCEPT ![c] = r]
      BY <2>1
    <2>4. WorldTyped'
      BY <1>1, <1>5 DEF Unlink, WorldTyped, world, records
    <2> HIDE DEF r
    <2> QED BY <2>2, <2>3, <2>4, LocalStep
  <1> QED BY <1>3, <1>4, <1>5 DEF Release

LEMMA TypeRecord ==
    ASSUME TypeInv, NEW c \in Captures, Record(c) PROVE TypeInv'
  <1>1. cap[c] \in Locals /\ WorldTyped
    BY DEF TypeInv, TypeOK, WorldTyped
  <1>2. CASE Observe(c)
    <2> DEFINE r == [cap[c] EXCEPT !.pc = "classify", !.todo = cap[c].running]
    <2>1. r \in Locals /\ r.pc # "spawned"
      BY <1>1 DEF Locals, Labels, Recording
    <2>2. cap' = [cap EXCEPT ![c] = r]
      BY <1>2 DEF Observe, Goto
    <2>3. WorldTyped'
      BY <1>1, <1>2 DEF Observe, WorldTyped, Targets, world, records
    <2> HIDE DEF r
    <2> QED BY <2>1, <2>2, <2>3, LocalStep
  <1>3. CASE Classified(c)
    <2> DEFINE r == [cap[c] EXCEPT !.pc = "finalize"]
    <2>1. r \in Locals /\ r.pc # "spawned"
      BY <1>1 DEF Locals, Labels, Recording
    <2>2. cap' = [cap EXCEPT ![c] = r]
      BY <1>3 DEF Classified, Goto
    <2> HIDE DEF r
    <2> QED BY <1>3, <2>1, <2>2, WorldKept, LocalStep DEF Classified
  <1>4. CASE Finalize(c)
    <2> DEFINE r == [cap[c] EXCEPT !.pc = "done"]
    <2>1. r \in Locals /\ r.pc # "spawned"
      BY <1>1 DEF Locals, Labels, Ended
    <2>2. cap' = [cap EXCEPT ![c] = r]
      BY <1>4 DEF Finalize, Goto
    <2>3. WorldTyped'
      <3>1. (c \in observed) \in BOOLEAN
        BY SMT
      <3>2. [results |-> result[c], hashes |-> artifact[c], observed |-> c \in observed]
                \in Manifests
        BY <1>1, <3>1, Zenon DEF WorldTyped, Manifests
      <3> QED BY <1>1, <1>4, <3>2 DEF Finalize, WorldTyped, world
    <2> HIDE DEF r
    <2> QED BY <2>1, <2>2, <2>3, LocalStep
  <1>5. ASSUME NEW s \in Specs, Classify(c, s) PROVE TypeInv'
    <2> DEFINE r == [cap[c] EXCEPT !.todo = @ \ {s}]
    <2>1. r \in Locals /\ (r.pc = "spawned" => r.current \in Specs)
      BY <1>1, <1>5 DEF Classify, At, Locals
    <2>2. cap' = [cap EXCEPT ![c] = r]
      BY <1>5 DEF Classify
    <2>3. WorldTyped'
      <3>1. Verdict(child[c][s], artifact[c][s] > 0, cap[c].interrupted) \in Statuses
        BY VerdictType
      <3>2. PICK x \in Statuses : result' = [result EXCEPT ![c][s] = x]
        BY <1>5, <3>1 DEF Classify, Statuses
      <3> QED BY <1>1, <1>5, <3>2 DEF Classify, WorldTyped, Results, world
    <2> HIDE DEF r
    <2> QED BY <2>1, <2>2, <2>3, LocalStep
  <1> QED BY <1>2, <1>3, <1>4, <1>5 DEF Record

LEMMA TypeInterrupt ==
    ASSUME TypeInv, NEW c \in Captures, Interrupt(c) PROVE TypeInv'
  <1>1. cap[c] \in Locals /\ WorldTyped
    BY DEF TypeInv, TypeOK, WorldTyped
  <1>2. cap[c].interrupts + 1 \in 0 .. MaxInterrupts
    BY <1>1, Bounds DEF Interrupt, Locals
  <1>3. WorldTyped'
    BY WorldKept DEF Interrupt
  <1>4. CASE InterruptWindow(c)
    <2> DEFINE r == [cap[c] EXCEPT !.pc = "stop", !.todo = cap[c].running, !.interrupted = TRUE,
                                   !.current = NoSpec, !.interrupts = @ + 1]
    <2>1. r \in Locals /\ r.pc # "spawned"
      BY <1>1, <1>2 DEF Locals, Labels, Window
    <2>2. cap' = [cap EXCEPT ![c] = r]
      BY <1>4 DEF InterruptWindow
    <2> HIDE DEF r
    <2> QED BY <1>3, <2>1, <2>2, LocalStep
  <1>5. CASE InterruptOuter(c)
    <2> DEFINE r == [cap[c] EXCEPT !.pc = "release", !.todo = {}, !.raising = TRUE, !.interrupts = @ + 1]
    <2>1. r \in Locals /\ r.pc # "spawned"
      BY <1>1, <1>2 DEF Locals, Labels, Releasing
    <2>2. cap' = [cap EXCEPT ![c] = r]
      BY <1>5 DEF InterruptOuter
    <2> HIDE DEF r
    <2> QED BY <1>3, <2>1, <2>2, LocalStep
  <1>6. CASE InterruptLast(c)
    <2> DEFINE r == [cap[c] EXCEPT !.pc = "aborted", !.todo = {}, !.interrupts = @ + 1]
    <2>1. r \in Locals /\ r.pc # "spawned"
      BY <1>1, <1>2 DEF Locals, Labels, Ended
    <2>2. cap' = [cap EXCEPT ![c] = r]
      BY <1>6 DEF InterruptLast
    <2> HIDE DEF r
    <2> QED BY <1>3, <2>1, <2>2, LocalStep
  <1> QED BY <1>4, <1>5, <1>6 DEF Interrupt

LEMMA TypeCollector ==
    ASSUME TypeInv, NEW c \in Captures, NEW s \in Specs, Write(c, s) \/ Exit(c, s)
    PROVE TypeInv'
  <1>1. UNCHANGED cap
    BY DEF Write, Exit
  <1>2. CASE Write(c, s)
    BY <1>1, <1>2, Bounds DEF Write, Alive, TypeInv, TypeOK, Noted, records
  <1>3. CASE Exit(c, s)
    BY <1>1, <1>3 DEF Exit, TypeInv, TypeOK, Noted, records
  <1> QED BY <1>2, <1>3

LEMMA TypeStep == TypeInv /\ [Next]_vars => TypeInv'
  <1> SUFFICES ASSUME TypeInv, [Next]_vars PROVE TypeInv'
    OBVIOUS
  <1>1. CASE UNCHANGED vars
    BY <1>1 DEF vars, world, records, TypeInv, TypeOK, Noted
  <1>2. CASE Next
    BY <1>2, TypeAcquire, TypeCollect, TypeRelease, TypeRecord, TypeInterrupt, TypeCollector
       DEF Next
  <1> QED BY <1>1, <1>2

\* In every state of every run the variables have their types: the locals of a
\* capture are those of run_capture, and a result has a status of the schema.
THEOREM TypeCorrect == Spec => []TypeOK
  <1>1. TypeInv => TypeOK
    BY DEF TypeInv
  <1> QED BY <1>1, TypeInit, TypeStep, PTL DEF Spec

-----------------------------------------------------------------------------
(* What the steps of each phase change.                                    *)

\* A step of one capture leaves the locals of the others alone.
LEMMA Elsewhere ==
    ASSUME TypeInv, NEW c \in Captures,
           Acquire(c) \/ Collect(c) \/ Release(c) \/ Record(c) \/ Interrupt(c)
    PROVE \A d \in Captures \ {c} : cap'[d] = cap[d]
  BY DEF TypeInv, TypeOK, Acquire, Start, PlaceLink, NoMap, KeepLink, Mount, KeepMount,
         NoMount, Collect, Track, Launched, Finished, Deadline, Reaped, PassOver, Spawn,
         Reap, Release, Unmount, CheckLink, Unlink, Record, Observe, Classify, Classified,
         Finalize, Interrupt, InterruptWindow, InterruptOuter, InterruptLast, Goto

\* The fields that the claims, and those that the outcome, depend on.
SameClaims(c) ==
    /\ cap'[c].target = cap[c].target /\ cap'[c].linked = cap[c].linked
    /\ cap'[c].bound = cap[c].bound /\ cap'[c].warned = cap[c].warned
SameOutcome(c) ==
    /\ cap'[c].running = cap[c].running /\ cap'[c].current = cap[c].current
    /\ cap'[c].interrupted = cap[c].interrupted /\ cap'[c].raising = cap[c].raising

LEMMA AcquireEffect ==
    ASSUME TypeInv, NEW c \in Captures, Acquire(c)
    PROVE /\ cap[c].pc \in {"new"} \cup Acquiring
          /\ cap'[c].pc \in {"launch"} \cup Acquiring
          /\ SameOutcome(c) /\ UNCHANGED <<world, records>>
          /\ cap'[c].pc = "launch" => cap'[c].todo = Specs
  <1>1. cap \in [Captures -> Locals]
    BY DEF TypeInv, TypeOK
  <1>2. CASE Start(c)
    BY <1>1, <1>2 DEF Start, At, Goto, Locals, SameClaims, SameOutcome, Acquiring
  <1>3. CASE PlaceLink(c)
    BY <1>1, <1>3 DEF PlaceLink, At, Goto, Locals, SameClaims, SameOutcome, Acquiring
  <1>4. CASE NoMap(c)
    BY <1>1, <1>4 DEF NoMap, At, Goto, Locals, SameClaims, SameOutcome, Acquiring
  <1>5. CASE KeepLink(c)
    BY <1>1, <1>5 DEF KeepLink, At, Goto, Locals, SameClaims, SameOutcome, Acquiring
  <1>6. CASE Mount(c)
    BY <1>1, <1>6 DEF Mount, At, Goto, Locals, SameClaims, SameOutcome, Acquiring
  <1>7. CASE KeepMount(c)
    BY <1>1, <1>7 DEF KeepMount, At, Goto, Locals, SameClaims, SameOutcome, Acquiring
  <1>8. CASE NoMount(c)
    BY <1>1, <1>8 DEF NoMount, At, Goto, Locals, SameClaims, SameOutcome, Acquiring
  <1> QED BY <1>2, <1>3, <1>4, <1>5, <1>6, <1>7, <1>8 DEF Acquire

LEMMA CollectEffect ==
    ASSUME TypeInv, NEW c \in Captures, Collect(c)
    PROVE /\ cap[c].pc \in {"stop"} \cup Window
          /\ cap'[c].pc \in {"stop", "release"} \cup Window
          /\ SameClaims(c) /\ UNCHANGED <<link, mounts, observed, manifest>>
          /\ cap'[c].interrupted = cap[c].interrupted /\ cap'[c].raising = cap[c].raising
  <1>1. cap \in [Captures -> Locals]
    BY DEF TypeInv, TypeOK
  <1>2. CASE Track(c)
    BY <1>1, <1>2 DEF Track, At, Goto, Locals, SameClaims, SameOutcome, Window, records
  <1>3. CASE Launched(c)
    BY <1>1, <1>3 DEF Launched, At, Goto, Locals, SameClaims, SameOutcome, Window, records
  <1>4. CASE Finished(c)
    BY <1>1, <1>4 DEF Finished, At, Goto, Locals, SameClaims, SameOutcome, Window, records
  <1>5. CASE Deadline(c)
    BY <1>1, <1>5 DEF Deadline, At, Goto, Locals, SameClaims, SameOutcome, Window, records
  <1>6. CASE Reaped(c)
    BY <1>1, <1>6 DEF Reaped, At, Goto, Locals, SameClaims, SameOutcome, Window, records
  <1>7. CASE \E s \in Specs : PassOver(c, s)
    BY <1>1, <1>7 DEF PassOver, At, Goto, Locals, SameClaims, SameOutcome, Window, records
  <1>8. CASE \E s \in Specs : Spawn(c, s)
    BY <1>1, <1>8 DEF Spawn, At, Goto, Locals, SameClaims, SameOutcome, Window, records
  <1>9. CASE \E s \in Specs : Reap(c, s)
    BY <1>1, <1>9 DEF Reap, At, Goto, Locals, SameClaims, SameOutcome, Window, records
  <1> QED BY <1>2, <1>3, <1>4, <1>5, <1>6, <1>7, <1>8, <1>9 DEF Collect

LEMMA ReleaseEffect ==
    ASSUME TypeInv, NEW c \in Captures, Release(c)
    PROVE /\ cap[c].pc \in Releasing
          /\ cap'[c].pc \in {"unlinking", "unlink", AfterRelease(c)}
          /\ SameOutcome(c) /\ UNCHANGED <<world, records>>
          /\ cap'[c].target = cap[c].target /\ cap'[c].linked = cap[c].linked
  <1>1. cap \in [Captures -> Locals]
    BY DEF TypeInv, TypeOK
  <1>2. CASE Unmount(c)
    BY <1>1, <1>2 DEF Unmount, At, Goto, Locals, SameClaims, SameOutcome, Releasing
  <1>3. CASE CheckLink(c)
    BY <1>1, <1>3 DEF CheckLink, At, Goto, Locals, SameClaims, SameOutcome, Releasing
  <1>4. CASE Unlink(c)
    BY <1>1, <1>4 DEF Unlink, At, Goto, Locals, SameClaims, SameOutcome, Releasing
  <1> QED BY <1>2, <1>3, <1>4 DEF Release

LEMMA RecordEffect ==
    ASSUME TypeInv, NEW c \in Captures, Record(c)
    PROVE /\ cap[c].pc \in Recording
          /\ cap'[c].pc \in {"done"} \cup Recording
          /\ SameClaims(c) /\ SameOutcome(c) /\ UNCHANGED <<link, mounts, world>>
  <1>1. cap \in [Captures -> Locals]
    BY DEF TypeInv, TypeOK
  <1>2. CASE Observe(c)
    BY <1>1, <1>2 DEF Observe, At, Goto, Locals, SameClaims, SameOutcome, Recording
  <1>3. CASE Classified(c)
    BY <1>1, <1>3 DEF Classified, At, Goto, Locals, SameClaims, SameOutcome, Recording
  <1>4. CASE Finalize(c)
    BY <1>1, <1>4 DEF Finalize, At, Goto, Locals, SameClaims, SameOutcome, Recording
  <1>5. CASE \E s \in Specs : Classify(c, s)
    BY <1>1, <1>5 DEF Classify, At, Goto, Locals, SameClaims, SameOutcome, Recording
  <1> QED BY <1>2, <1>3, <1>4, <1>5 DEF Record

\* No interrupt falls between taking something and noting it, nor into the
\* finally that gives it back.
NoGaps == InterruptedAt \cap ({"linked", "bound", "spawned"} \cup Releasing) = {}

LEMMA InterruptEffect ==
    ASSUME TypeInv, NoGaps, NEW c \in Captures, Interrupt(c)
    PROVE /\ SameClaims(c) /\ UNCHANGED <<link, mounts, world, records>>
          /\ cap'[c].running = cap[c].running
          /\ \/ /\ cap[c].pc \in {"launch", "poll", "expire"}
                /\ cap'[c].pc = "stop" /\ cap'[c].interrupted
                /\ cap'[c].raising = cap[c].raising
                /\ cap'[c].todo = cap[c].running
             \/ /\ cap[c].pc \in {"jitmap", "mount", "stop"}
                /\ cap'[c].pc = "release" /\ cap'[c].raising
                /\ cap'[c].interrupted = cap[c].interrupted
                /\ cap'[c].current = cap[c].current
             \/ /\ cap[c].pc \in Recording
                /\ cap'[c].pc = "aborted" /\ SameOutcome(c)
  <1>1. cap \in [Captures -> Locals]
    BY DEF TypeInv, TypeOK
  <1>2. cap[c].pc \notin {"linked", "bound", "spawned"} \cup Releasing
    BY DEF Interrupt, NoGaps
  <1>3. UNCHANGED <<link, mounts, world, records>>
    BY DEF Interrupt
  <1>4. CASE InterruptWindow(c)
    BY <1>1, <1>2, <1>3, <1>4 DEF InterruptWindow, Window, SameClaims, Locals
  <1>5. CASE InterruptOuter(c)
    BY <1>1, <1>2, <1>3, <1>5 DEF InterruptOuter, Acquiring, SameClaims, Locals
  <1>6. CASE InterruptLast(c)
    BY <1>1, <1>2, <1>3, <1>6 DEF InterruptLast, SameClaims, SameOutcome, Locals
  <1> QED BY <1>4, <1>5, <1>6 DEF Interrupt

-----------------------------------------------------------------------------
(* The claims on the host.                                                 *)

\* Who has put a link or a mount there either has yet to release it or, for a
\* mount that would not go, has said so.
ClaimInv(c) ==
    /\ cap[c].target # NoLink => cap[c].pc = "linked" \/ cap[c].linked
    /\ c \in mounts => \/ cap[c].pc = "bound"
                       \/ cap[c].bound /\ cap[c].pc \in Window \cup {"stop", "release"}
                       \/ cap[c].warned
Owned == link # NoLink => \E c \in Captures \ Past : cap[c].target = link

ClaimsInv == Owned /\ \A c \in Captures : ClaimInv(c)

\* The link stays and the capture that moved keeps answering for it, or never did.
LEMMA OwnedKept ==
    ASSUME Owned, NEW c \in Captures, link' = link,
           \A d \in Captures \ {c} : cap'[d] = cap[d],
           \/ c \in Past
           \/ c \notin Past' /\ cap'[c].target = cap[c].target
           \/ cap[c].target # link
    PROVE Owned'
  <1> SUFFICES ASSUME link # NoLink PROVE \E d \in Captures \ Past' : cap'[d].target = link
    BY DEF Owned
  <1>1. PICK d \in Captures \ Past : cap[d].target = link
    BY DEF Owned
  <1>2. CASE d = c
    BY <1>1, <1>2
  <1>3. CASE d # c
    BY <1>1, <1>3 DEF Past
  <1> QED BY <1>2, <1>3

LEMMA ClaimsElsewhere ==
    ASSUME ClaimsInv, NEW c \in Captures, \A d \in Captures \ {c} : cap'[d] = cap[d],
           \A d \in Captures \ {c} : d \in mounts' => d \in mounts, ClaimInv(c)', Owned'
    PROVE ClaimsInv'
  BY DEF ClaimsInv, ClaimInv

LEMMA ClaimsAcquire ==
    ASSUME TypeInv, ClaimsInv, NEW c \in Captures, Acquire(c)
    PROVE ClaimsInv'
  <1>1. cap \in [Captures -> Locals] /\ ClaimInv(c) /\ Owned
    BY DEF TypeInv, TypeOK, ClaimsInv
  <1>2. \A d \in Captures \ {c} : cap'[d] = cap[d]
    BY Elsewhere
  <1>3. c \notin Past'
    BY AcquireEffect DEF Past, Recording, Ended, Acquiring
  <1> SUFFICES ClaimInv(c)' /\ Owned' /\ \A d \in Captures \ {c} : d \in mounts' => d \in mounts
    BY <1>2, ClaimsElsewhere
  <1> USE DEF At, Goto, Locals, ClaimInv
  <1>4. CASE Start(c)
    BY <1>1, <1>2, <1>3, <1>4, OwnedKept DEF Start, Window
  <1>5. CASE PlaceLink(c)
    <2>1. cap'[c].target = link' /\ cap'[c].pc = "linked"
      BY <1>1, <1>5 DEF PlaceLink
    <2>2. Owned'
      BY <1>3, <2>1 DEF Owned
    <2> QED BY <1>1, <1>5, <2>1, <2>2 DEF PlaceLink, Window
  <1>6. CASE NoMap(c)
    BY <1>1, <1>2, <1>3, <1>6, OwnedKept DEF NoMap, Window
  <1>7. CASE KeepLink(c)
    BY <1>1, <1>2, <1>3, <1>7, OwnedKept DEF KeepLink, Window
  <1>8. CASE Mount(c)
    BY <1>1, <1>2, <1>3, <1>8, OwnedKept DEF Mount
  <1>9. CASE KeepMount(c)
    BY <1>1, <1>2, <1>3, <1>9, OwnedKept DEF KeepMount, Window
  <1>10. CASE NoMount(c)
    BY <1>1, <1>2, <1>3, <1>10, OwnedKept DEF NoMount, Window
  <1> QED BY <1>4, <1>5, <1>6, <1>7, <1>8, <1>9, <1>10 DEF Acquire

LEMMA ClaimsCollect ==
    ASSUME TypeInv, ClaimsInv, NEW c \in Captures, Collect(c)
    PROVE ClaimsInv'
  <1>1. \A d \in Captures \ {c} : cap'[d] = cap[d]
    BY Elsewhere
  <1>2. c \notin Past'
    BY CollectEffect DEF Past, Window, Recording, Ended
  <1>3. ClaimInv(c)'
    BY CollectEffect DEF ClaimsInv, ClaimInv, SameClaims, Window
  <1>4. Owned'
    BY <1>1, <1>2, CollectEffect, OwnedKept DEF ClaimsInv, SameClaims
  <1> QED BY <1>1, <1>3, <1>4, CollectEffect, ClaimsElsewhere

LEMMA ClaimsRelease ==
    ASSUME TypeInv, ClaimsInv, NEW c \in Captures, Release(c)
    PROVE ClaimsInv'
  <1>1. cap \in [Captures -> Locals] /\ ClaimInv(c) /\ Owned
    BY DEF TypeInv, TypeOK, ClaimsInv
  <1>2. \A d \in Captures \ {c} : cap'[d] = cap[d]
    BY Elsewhere
  <1> SUFFICES ClaimInv(c)' /\ Owned' /\ \A d \in Captures \ {c} : d \in mounts' => d \in mounts
    BY <1>2, ClaimsElsewhere
  <1>3. CASE Unmount(c)
    <2>1. cap'[c].pc = "unlinking" /\ (c \in mounts' => cap[c].warned \/ cap'[c].warned)
      BY <1>1, <1>3 DEF Unmount, Goto, Locals, ClaimInv, At
    <2>2. cap[c].warned => cap'[c].warned
      BY <1>1, <1>3 DEF Unmount, Goto, Locals
    <2>3. ClaimInv(c)'
      BY <1>1, <2>1, <2>2, ReleaseEffect DEF ClaimInv, Releasing
    <2>4. Owned'
      BY <1>1, <1>2, <1>3, <2>1, ReleaseEffect, OwnedKept DEF Unmount, Past, Recording, Ended
    <2> QED BY <1>3, <2>3, <2>4 DEF Unmount
  <1>4. ASSUME CheckLink(c) \/ Unlink(c)
        PROVE /\ ClaimInv(c)' /\ mounts' = mounts
    <2>1. cap'[c].warned = cap[c].warned /\ mounts' = mounts
      BY <1>1, <1>4 DEF CheckLink, Unlink, Goto, Locals
    <2>2. c \in mounts => cap[c].warned
      BY <1>1, <1>4 DEF CheckLink, Unlink, At, ClaimInv, Window
    <2> QED BY <1>1, <2>1, <2>2, ReleaseEffect DEF ClaimInv, Releasing
  <1>5. CASE CheckLink(c)
    <2>1. c \notin Past' \/ cap[c].target # link \/ link = NoLink
      BY <1>1, <1>5 DEF CheckLink, Goto, At, Locals, Past, Recording, Ended, ClaimInv
    <2>2. Owned'
      BY <1>1, <1>2, <1>5, <2>1, ReleaseEffect, OwnedKept DEF CheckLink, Owned
    <2> QED BY <1>4, <1>5, <2>2
  <1>6. CASE Unlink(c)
    BY <1>4, <1>6 DEF Unlink, Owned
  <1> QED BY <1>3, <1>5, <1>6 DEF Release

LEMMA ClaimsRecord ==
    ASSUME TypeInv, ClaimsInv, NEW c \in Captures, Record(c)
    PROVE ClaimsInv'
  <1>1. \A d \in Captures \ {c} : cap'[d] = cap[d]
    BY Elsewhere
  <1>2. c \in Past
    BY RecordEffect DEF Past
  <1>3. ClaimInv(c)'
    BY RecordEffect DEF ClaimsInv, ClaimInv, SameClaims, Window, Recording
  <1>4. Owned'
    BY <1>1, <1>2, RecordEffect, OwnedKept DEF ClaimsInv
  <1> QED BY <1>1, <1>3, <1>4, RecordEffect, ClaimsElsewhere

LEMMA ClaimsInterrupt ==
    ASSUME TypeInv, ClaimsInv, NoGaps, NEW c \in Captures, Interrupt(c)
    PROVE ClaimsInv'
  <1>1. \A d \in Captures \ {c} : cap'[d] = cap[d]
    BY Elsewhere
  <1>2. c \in Past \/ c \notin Past'
    BY InterruptEffect DEF Past, Recording, Ended
  <1>3. ClaimInv(c)'
    BY InterruptEffect DEF ClaimsInv, ClaimInv, SameClaims, Window, Recording
  <1>4. Owned'
    BY <1>1, <1>2, InterruptEffect, OwnedKept DEF ClaimsInv, SameClaims
  <1> QED BY <1>1, <1>3, <1>4, InterruptEffect, ClaimsElsewhere

LEMMA ClaimsInit == Init => ClaimsInv
  BY DEF Init, Begin, ClaimsInv, ClaimInv, Owned

LEMMA ClaimsStep ==
    ASSUME TypeInv, ClaimsInv, NoGaps, [Next]_vars
    PROVE ClaimsInv'
  <1>1. CASE UNCHANGED <<cap, link, mounts>>
    BY <1>1 DEF ClaimsInv, ClaimInv, Owned, Past
  <1>2. ASSUME NEW c \in Captures, NEW s \in Specs, Write(c, s) \/ Exit(c, s)
        PROVE UNCHANGED <<cap, link, mounts>>
    BY <1>2 DEF Write, Exit
  <1> QED BY <1>1, <1>2, ClaimsAcquire, ClaimsCollect, ClaimsRelease, ClaimsRecord,
             ClaimsInterrupt DEF Next, vars

\* When no interrupt falls into the gaps, a capture that is over has given back
\* its link and its mount, however many captures share the link and however their
\* windows end.
THEOREM ClaimsReleased == NoGaps /\ Spec => []NothingStranded
  <1>1. ClaimsInv => NothingStranded
    BY DEF ClaimsInv, Owned, ClaimInv, NothingStranded, Past, Window, Recording, Ended
  <1> SUFFICES ASSUME NoGaps PROVE Spec => []NothingStranded
    OBVIOUS
  <1>2. TypeInv /\ ClaimsInv /\ [Next]_vars => (TypeInv /\ ClaimsInv)'
    BY TypeStep, ClaimsStep
  <1> QED BY <1>1, <1>2, TypeInit, ClaimsInit, PTL DEF Spec

-----------------------------------------------------------------------------
(* The collectors, and what is recorded of them.                           *)

\* A collector that runs is one the capture has in hand, and one that can still
\* be signalled is one it has yet to stop.
Held(c, s) == s \in cap[c].running \/ (cap[c].pc = "spawned" /\ s = cap[c].current)
StopInv(c) ==
    /\ \A s \in Alive(c) : Held(c, s)
    /\ cap[c].pc \in {"expire", "stop"} => Alive(c) \ Sudo \subseteq cap[c].todo
    /\ cap[c].raising => cap[c].pc \in Releasing \cup {"aborted"}
    /\ cap[c].pc \in Releasing \cup Recording \cup {"done"} /\ ~cap[c].raising
          => Alive(c) \subseteq Sudo

StopsInv == \A c \in Captures : StopInv(c)

\* Nothing of what StopInv reads changes for a capture that does not move.
LEMMA StopsElsewhere ==
    ASSUME StopsInv, NEW c \in Captures, StopInv(c)',
           \A d \in Captures \ {c} : cap'[d] = cap[d] /\ child'[d] = child[d]
    PROVE StopsInv'
  <1> SUFFICES ASSUME NEW d \in Captures \ {c} PROVE StopInv(d)'
    BY DEF StopsInv
  <1>1. Alive(d)' = Alive(d) /\ \A s \in Specs : Held(d, s)' = Held(d, s)
    BY DEF Alive, Held
  <1> QED BY <1>1 DEF StopsInv, StopInv, Alive

LEMMA StopsAcquire ==
    ASSUME TypeInv, StopsInv, NEW c \in Captures, Acquire(c)
    PROVE StopsInv'
  <1>1. Alive(c)' = Alive(c) /\ child' = child
    BY AcquireEffect DEF world, Alive
  <1>2. \A s \in Alive(c) : Held(c, s)'
    BY AcquireEffect DEF StopsInv, StopInv, Held, SameOutcome, Acquiring
  <1>3. ~cap[c].raising
    BY AcquireEffect DEF StopsInv, StopInv, Acquiring, Releasing
  <1>4. StopInv(c)'
    BY <1>1, <1>2, <1>3, AcquireEffect DEF StopInv, SameOutcome, Acquiring, Releasing, Recording
  <1> QED BY <1>1, <1>4, Elsewhere, StopsElsewhere

LEMMA StopsCollect ==
    ASSUME TypeInv, StopsInv, NEW c \in Captures, Collect(c)
    PROVE StopsInv'
  <1>1. cap \in [Captures -> Locals] /\ StopInv(c) /\ child \in [Captures -> [Specs -> Ends \cup {"none", "alive"}]]
    BY DEF TypeInv, TypeOK, StopsInv
  <1>2. ~cap[c].raising /\ ~cap'[c].raising
    BY <1>1, CollectEffect DEF StopInv, Releasing, Window
  <1> SUFFICES StopInv(c)' /\ \A d \in Captures \ {c} : child'[d] = child[d]
    BY Elsewhere, StopsElsewhere
  <1> USE <1>1, <1>2 DEF At, Goto, Locals, StopInv, Held, Alive, Releasing, Recording
  <1>3. CASE Track(c)
    BY <1>3 DEF Track, world
  <1>4. CASE Launched(c)
    BY <1>4 DEF Launched, world
  <1>5. CASE Finished(c)
    BY <1>5 DEF Finished, world
  <1>6. CASE Deadline(c)
    BY <1>6 DEF Deadline, world
  <1>7. CASE Reaped(c)
    BY <1>7 DEF Reaped, world
  <1>8. ASSUME NEW s \in Specs, PassOver(c, s)
        PROVE StopInv(c)' /\ child' = child
    BY <1>8 DEF PassOver, world
  <1>9. ASSUME NEW s \in Specs, Spawn(c, s)
        PROVE StopInv(c)' /\ \A d \in Captures \ {c} : child'[d] = child[d]
    BY <1>9 DEF Spawn
  <1>10. ASSUME NEW s \in Specs, Reap(c, s)
         PROVE StopInv(c)' /\ \A d \in Captures \ {c} : child'[d] = child[d]
    BY <1>10 DEF Reap, AfterKill
  <1> QED BY <1>3, <1>4, <1>5, <1>6, <1>7, <1>8, <1>9, <1>10 DEF Collect

LEMMA StopsRelease ==
    ASSUME TypeInv, StopsInv, NEW c \in Captures, Release(c)
    PROVE StopsInv'
  <1>1. Alive(c)' = Alive(c) /\ child' = child
    BY ReleaseEffect DEF world, Alive
  <1>2. \A s \in Alive(c) : Held(c, s)'
    BY ReleaseEffect DEF StopsInv, StopInv, Held, SameOutcome, Releasing
  <1>3. cap'[c].pc \in {"unlinking", "unlink"} \/ (cap[c].raising /\ cap'[c].pc = "aborted")
            \/ (~cap[c].raising /\ cap'[c].pc = "record")
    BY ReleaseEffect DEF AfterRelease
  <1>4. StopInv(c)'
    BY <1>1, <1>2, <1>3, ReleaseEffect
       DEF StopsInv, StopInv, SameOutcome, Releasing, Recording
  <1> QED BY <1>1, <1>4, Elsewhere, StopsElsewhere

LEMMA StopsRecord ==
    ASSUME TypeInv, StopsInv, NEW c \in Captures, Record(c)
    PROVE StopsInv'
  <1>1. Alive(c)' = Alive(c) /\ child' = child
    BY RecordEffect DEF world, Alive
  <1>2. \A s \in Alive(c) : Held(c, s)'
    BY RecordEffect DEF StopsInv, StopInv, Held, SameOutcome, Recording
  <1>3. ~cap[c].raising
    BY RecordEffect DEF StopsInv, StopInv, Recording, Releasing
  <1>4. StopInv(c)'
    BY <1>1, <1>2, <1>3, RecordEffect DEF StopsInv, StopInv, SameOutcome, Recording
  <1> QED BY <1>1, <1>4, Elsewhere, StopsElsewhere

LEMMA StopsInterrupt ==
    ASSUME TypeInv, StopsInv, NoGaps, NEW c \in Captures, Interrupt(c)
    PROVE StopsInv'
  <1>1. Alive(c)' = Alive(c) /\ child' = child
    BY InterruptEffect DEF world, Alive
  <1>2. Alive(c) \subseteq cap[c].running
    BY InterruptEffect DEF StopsInv, StopInv, Held, Recording, SameOutcome
  <1>3. \A s \in Alive(c) : Held(c, s)'
    BY <1>2, InterruptEffect DEF Held
  <1>4. StopInv(c)'
    BY <1>1, <1>2, <1>3, InterruptEffect
       DEF StopsInv, StopInv, SameOutcome, Releasing, Recording
  <1> QED BY <1>1, <1>4, Elsewhere, StopsElsewhere

LEMMA StopsCollector ==
    ASSUME TypeInv, StopsInv, NEW c \in Captures, NEW s \in Specs, Write(c, s) \/ Exit(c, s)
    PROVE StopsInv'
  <1>1. cap' = cap
    BY DEF Write, Exit
  <1>2. ASSUME NEW d \in Captures PROVE Alive(d)' \subseteq Alive(d)
    <2>1. CASE Write(c, s)
      BY <2>1 DEF Write, Alive
    <2>2. CASE Exit(c, s)
      <3>1. PICK end \in Ends : child' = [child EXCEPT ![c][s] = end]
        BY <2>2 DEF Exit
      <3>2. end # "alive"
        BY DEF Ends
      <3>3. child \in [Captures -> [Specs -> Ends \cup {"none", "alive"}]]
        BY DEF TypeInv, TypeOK
      <3> QED BY <3>1, <3>2, <3>3 DEF Alive
    <2> QED BY <2>1, <2>2
  <1>3. \A d \in Captures, x \in Specs : Held(d, x)' = Held(d, x)
    BY <1>1 DEF Held
  <1> QED BY <1>1, <1>2, <1>3 DEF StopsInv, StopInv, Alive

LEMMA StopsStep ==
    ASSUME TypeInv, StopsInv, NoGaps, [Next]_vars
    PROVE StopsInv'
  <1>1. CASE UNCHANGED <<cap, child>>
    BY <1>1 DEF StopsInv, StopInv, Held, Alive
  <1> QED BY <1>1, StopsAcquire, StopsCollect, StopsRelease, StopsRecord, StopsInterrupt,
             StopsCollector DEF Next, vars, world

LEMMA StopsInit == Init => StopsInv
  <1> SUFFICES ASSUME Init, NEW c \in Captures PROVE StopInv(c)
    BY DEF StopsInv
  <1>1. cap[c].pc = "new" /\ cap[c].raising = FALSE
    BY DEF Init, Begin
  <1>2. Alive(c) = {}
    BY DEF Init, Alive
  <1> QED BY <1>1, <1>2 DEF StopInv, Releasing, Recording

\* When no interrupt falls into the gaps, a capture that goes on to record its
\* results has left no collector running that it could have stopped.
THEOREM CollectorsStopped == NoGaps /\ Spec => []NoOrphans
  <1>1. StopsInv => NoOrphans
    BY DEF StopsInv, StopInv, NoOrphans, Releasing, Recording
  <1> SUFFICES ASSUME NoGaps PROVE Spec => []NoOrphans
    OBVIOUS
  <1>2. TypeInv /\ StopsInv /\ [Next]_vars => (TypeInv /\ StopsInv)'
    BY TypeStep, StopsStep
  <1> QED BY <1>1, <1>2, TypeInit, StopsInit, PTL DEF Spec

-----------------------------------------------------------------------------
(* What a capture puts on record: its manifest accounts for the whole       *)
(* catalog, reports what can still change as not usable, and says which     *)
(* window really ran.                                                       *)

\* A collector that is on record as none the manifest calls usable.
Suspect == {"failed", "interrupted"}

\* What has written is in hand.
Traced(c) == \A s \in Specs : artifact[c][s] > 0 => Held(c, s)

\* Once a window has passed, every collector of the catalog runs or is on record,
\* unless an interrupt cut the launch.
Visited(c) ==
    /\ cap[c].pc \in {"launch", "spawned"} =>
           \A s \in Specs : s \in cap[c].todo \/ Held(c, s) \/ result[c][s] # "none"
    /\ cap[c].pc \in {"poll", "expire"} \cup Releasing \cup Recording
             /\ ~cap[c].interrupted /\ ~cap[c].raising =>
           \A s \in Specs : s \in cap[c].running \/ result[c][s] # "none"
    /\ cap[c].pc \in {"new"} \cup Acquiring \cup Window => ~cap[c].interrupted
    /\ cap[c].pc = "stop" => cap[c].interrupted

Judged(c, s) == result[c][s] # "none" /\ (s \in Alive(c) => result[c][s] \in Suspect)

\* The recording loop leaves a verdict for each collector it has visited.
Recorded(c) ==
    /\ cap[c].pc = "classify" => \A s \in cap[c].running \ cap[c].todo : Judged(c, s)
    /\ cap[c].pc = "finalize" => \A s \in cap[c].running : Judged(c, s)
    /\ \A s \in Specs : result[c][s] = "interrupted" => cap[c].interrupted

Noticed(c) ==
    /\ cap[c].pc \in {"classify", "finalize"} => (c \in observed <=> cap[c].interrupted)
    /\ cap[c].pc \notin {"classify", "finalize"} \cup Ended => c \notin observed

\* What the manifest says stays true of the capture.
Sealed(c) ==
    manifest[c] # NoManifest =>
        /\ cap[c].pc = "done"
        /\ manifest[c].observed = cap[c].interrupted
        /\ \A s \in Specs :
              /\ manifest[c].results[s] = "none" => cap[c].interrupted /\ s \notin cap[c].running
              /\ manifest[c].results[s] = "interrupted" => cap[c].interrupted
              /\ s \in Alive(c) \/ artifact[c][s] # manifest[c].hashes[s]
                    => manifest[c].results[s] \in Suspect

OutcomeInv(c) == Traced(c) /\ Visited(c) /\ Recorded(c) /\ Noticed(c) /\ Sealed(c)
OutcomesInv == \A c \in Captures : OutcomeInv(c)

\* A capture that does not move, and whose files do not change.
LEMMA OutcomesElsewhere ==
    ASSUME TypeInv, OutcomesInv, NEW c \in Captures, OutcomeInv(c)',
           \A d \in Captures \ {c} :
               /\ cap'[d] = cap[d] /\ child'[d] = child[d] /\ artifact'[d] = artifact[d]
               /\ result'[d] = result[d] /\ manifest'[d] = manifest[d]
               /\ d \in observed' <=> d \in observed
    PROVE OutcomesInv'
  <1> SUFFICES ASSUME NEW d \in Captures \ {c} PROVE OutcomeInv(d)'
    BY DEF OutcomesInv
  <1>1. Alive(d)' = Alive(d) /\ \A s \in Specs : Held(d, s)' = Held(d, s) /\ Judged(d, s)' = Judged(d, s)
    BY DEF Alive, Held, Judged
  <1>2. OutcomeInv(d)
    BY DEF OutcomesInv
  <1>3. Traced(d)' /\ Visited(d)'
    BY <1>1, <1>2 DEF OutcomeInv, Traced, Visited
  <1>4. Recorded(d)'
    <2>1. cap[d].running \subseteq Specs
      BY DEF TypeInv, TypeOK, Locals
    <2> QED BY <1>1, <1>2, <2>1 DEF OutcomeInv, Recorded
  <1>5. Noticed(d)'
    BY <1>2 DEF OutcomeInv, Noticed
  <1>6. Sealed(d)'
    BY <1>1, <1>2 DEF OutcomeInv, Sealed
  <1> QED BY <1>3, <1>4, <1>5, <1>6 DEF OutcomeInv

\* A capture that has yet to end has sealed nothing.
LEMMA NotSealed ==
    ASSUME NEW c \in Captures, Sealed(c), cap[c].pc # "done", manifest'[c] = manifest[c]
    PROVE Sealed(c)'
  BY DEF Sealed

LEMMA OutcomesAcquire ==
    ASSUME TypeInv, StopsInv, OutcomesInv, NEW c \in Captures, Acquire(c)
    PROVE OutcomesInv'
  <1>1. Alive(c)' = Alive(c) /\ UNCHANGED <<child, artifact, result, observed, manifest>>
    BY AcquireEffect DEF world, records, Alive
  <1>2. OutcomeInv(c) /\ cap[c].pc \in {"new"} \cup Acquiring
    BY AcquireEffect DEF OutcomesInv
  <1>3. \A s \in Specs : Held(c, s) => Held(c, s)'
    BY <1>2, AcquireEffect DEF Held, SameOutcome, Acquiring
  <1>4. Traced(c)'
    BY <1>1, <1>2, <1>3 DEF OutcomeInv, Traced
  <1>5. Visited(c)'
    BY <1>1, <1>2, AcquireEffect
       DEF OutcomeInv, Visited, SameOutcome, Acquiring, Window, Releasing, Recording
  <1>6. Recorded(c)' /\ Noticed(c)'
    BY <1>1, <1>2, AcquireEffect
       DEF OutcomeInv, Recorded, Noticed, SameOutcome, Acquiring, Ended
  <1>7. Sealed(c)'
    BY <1>1, <1>2, NotSealed DEF OutcomeInv, Acquiring
  <1> QED BY <1>1, <1>4, <1>5, <1>6, <1>7, Elsewhere, OutcomesElsewhere DEF OutcomeInv

LEMMA OutcomesCollect ==
    ASSUME TypeInv, StopsInv, OutcomesInv, NEW c \in Captures, Collect(c)
    PROVE OutcomesInv'
  <1>1. /\ cap \in [Captures -> Locals] /\ result \in [Captures -> Results]
        /\ child \in [Captures -> [Specs -> Ends \cup {"none", "alive"}]]
    BY DEF TypeInv, TypeOK
  <1>2. OutcomeInv(c) /\ cap[c].pc \in {"stop"} \cup Window
    BY CollectEffect DEF OutcomesInv
  <1>3. /\ artifact' = artifact /\ UNCHANGED <<observed, manifest>>
        /\ \A d \in Captures \ {c} : child'[d] = child[d] /\ result'[d] = result[d]
    <2>1. UNCHANGED <<observed, manifest>>
      BY CollectEffect
    <2>2. artifact' = artifact /\ \A d \in Captures \ {c} : child'[d] = child[d] /\ result'[d] = result[d]
      BY <1>1 DEF Collect, Track, Launched, Finished, Deadline, Reaped, PassOver, Spawn,
                  Reap, world, records
    <2> QED BY <2>1, <2>2
  <1>4. Traced(c)' /\ Visited(c)'
    <2> USE <1>1, <1>2, <1>3 DEF OutcomeInv, Traced, Visited, Held, At, Goto, Locals,
            Acquiring, Window, Releasing, Recording
    <2>1. CASE Track(c)
      BY <2>1 DEF Track, records
    <2>2. CASE Launched(c)
      BY <2>2 DEF Launched, records
    <2>3. CASE Finished(c)
      BY <2>3 DEF Finished, records
    <2>4. CASE Deadline(c)
      BY <2>4 DEF Deadline, records
    <2>5. CASE Reaped(c)
      BY <2>5 DEF Reaped, records
    <2>6. ASSUME NEW s \in Specs, PassOver(c, s) PROVE Traced(c)' /\ Visited(c)'
      BY <2>6 DEF PassOver, Unstarted, Results
    <2>7. ASSUME NEW s \in Specs, Spawn(c, s) PROVE Traced(c)' /\ Visited(c)'
      BY <2>7 DEF Spawn, records
    <2>8. ASSUME NEW s \in Specs, Reap(c, s) PROVE Traced(c)' /\ Visited(c)'
      BY <2>8 DEF Reap, records
    <2> QED BY <2>1, <2>2, <2>3, <2>4, <2>5, <2>6, <2>7, <2>8 DEF Collect
  <1>5. \A s \in Specs : result'[c][s] = "interrupted" => result[c][s] = "interrupted"
    <2>1. ASSUME NEW s \in Specs, PassOver(c, s)
          PROVE \A x \in Specs : result'[c][x] = "interrupted" => result[c][x] = "interrupted"
      <3>1. PICK status \in Unstarted(c, s) : result' = [result EXCEPT ![c][s] = status]
        BY <2>1 DEF PassOver
      <3>2. status # "interrupted"
        BY <3>1 DEF Unstarted
      <3> QED BY <1>1, <3>1, <3>2 DEF Results
    <2>2. result' = result \/ \E s \in Specs : PassOver(c, s)
      BY DEF Collect, Track, Launched, Finished, Deadline, Reaped, Spawn, Reap, records
    <2> QED BY <2>1, <2>2
  <1>6. Recorded(c)' /\ Noticed(c)'
    BY <1>2, <1>3, <1>5, CollectEffect DEF OutcomeInv, Recorded, Noticed, Window, Ended
  <1>7. Sealed(c)'
    BY <1>2, <1>3, NotSealed DEF OutcomeInv, Window
  <1> QED BY <1>3, <1>4, <1>6, <1>7, Elsewhere, OutcomesElsewhere DEF OutcomeInv

LEMMA OutcomesRelease ==
    ASSUME TypeInv, StopsInv, OutcomesInv, NEW c \in Captures, Release(c)
    PROVE OutcomesInv'
  <1>1. Alive(c)' = Alive(c) /\ UNCHANGED <<child, artifact, result, observed, manifest>>
    BY ReleaseEffect DEF world, records, Alive
  <1>2. OutcomeInv(c) /\ cap[c].pc \in Releasing
    BY ReleaseEffect DEF OutcomesInv
  <1>3. \A s \in Specs : Held(c, s) => Held(c, s)'
    BY <1>2, ReleaseEffect DEF Held, SameOutcome, Releasing
  <1>4. cap'[c].pc \in {"unlinking", "unlink"} \/ (cap[c].raising /\ cap'[c].pc = "aborted")
            \/ (~cap[c].raising /\ cap'[c].pc = "record")
    BY ReleaseEffect DEF AfterRelease
  <1>5. Traced(c)'
    BY <1>1, <1>2, <1>3 DEF OutcomeInv, Traced
  <1>6. Visited(c)'
    BY <1>1, <1>2, <1>4, ReleaseEffect
       DEF OutcomeInv, Visited, SameOutcome, Acquiring, Window, Releasing, Recording
  <1>7. Recorded(c)' /\ Noticed(c)'
    BY <1>1, <1>2, <1>4, ReleaseEffect
       DEF OutcomeInv, Recorded, Noticed, SameOutcome, Releasing, Ended
  <1>8. Sealed(c)'
    BY <1>1, <1>2, NotSealed DEF OutcomeInv, Releasing
  <1> QED BY <1>1, <1>5, <1>6, <1>7, <1>8, Elsewhere, OutcomesElsewhere DEF OutcomeInv

LEMMA OutcomesInterrupt ==
    ASSUME TypeInv, StopsInv, OutcomesInv, NoGaps, NEW c \in Captures, Interrupt(c)
    PROVE OutcomesInv'
  <1>1. Alive(c)' = Alive(c) /\ UNCHANGED <<child, artifact, result, observed, manifest>>
    BY InterruptEffect DEF world, records, Alive
  <1>2. OutcomeInv(c)
    BY DEF OutcomesInv
  <1>3. cap \in [Captures -> Locals] /\ cap[c].pc \notin {"spawned", "new"} \cup Releasing \cup Ended
    BY DEF Interrupt, NoGaps, InterruptWindow, InterruptOuter, InterruptLast, Window, Acquiring,
           Releasing, Recording, Ended, TypeInv, TypeOK
  <1>4. \A s \in Specs : Held(c, s) => Held(c, s)'
    BY <1>3, InterruptEffect DEF Held
  <1>5. Traced(c)'
    BY <1>1, <1>2, <1>4 DEF OutcomeInv, Traced
  <1>6. \/ cap'[c].pc = "stop" /\ cap'[c].interrupted /\ cap[c].pc \in Window
        \/ /\ cap'[c].pc = "release" /\ cap'[c].raising /\ cap'[c].interrupted = cap[c].interrupted
           /\ cap[c].pc \in Acquiring \cup {"stop"}
        \/ /\ cap'[c].pc = "aborted" /\ cap'[c].interrupted = cap[c].interrupted
           /\ cap[c].pc \in Recording
    BY <1>3 DEF Interrupt, InterruptWindow, InterruptOuter, InterruptLast, Locals, Releasing
  <1>7. Visited(c)'
    BY <1>6 DEF Visited, Acquiring, Window, Releasing, Recording
  <1>8. Recorded(c)' /\ Noticed(c)'
    BY <1>1, <1>2, <1>6 DEF OutcomeInv, Recorded, Noticed, Acquiring, Window, Recording, Ended
  <1>9. Sealed(c)'
    BY <1>1, <1>2, <1>3, NotSealed DEF OutcomeInv, Ended
  <1> QED BY <1>1, <1>5, <1>7, <1>8, <1>9, Elsewhere, OutcomesElsewhere DEF OutcomeInv

LEMMA OutcomesRecord ==
    ASSUME TypeInv, StopsInv, OutcomesInv, NEW c \in Captures, Record(c)
    PROVE OutcomesInv'
  <1>1. /\ cap \in [Captures -> Locals] /\ result \in [Captures -> Results]
        /\ manifest \in [Captures -> Manifests \cup {NoManifest}]
    BY DEF TypeInv, TypeOK
  <1>2. Alive(c)' = Alive(c) /\ UNCHANGED world /\ SameOutcome(c)
    BY RecordEffect DEF world, Alive
  <1>3. OutcomeInv(c) /\ cap[c].pc \in Recording /\ ~cap[c].raising
    BY RecordEffect DEF OutcomesInv, StopsInv, StopInv, Recording, Releasing
  <1>4. \A s \in Alive(c) : s \in cap[c].running
    BY <1>3 DEF StopsInv, StopInv, Held, Recording
  <1>5. Traced(c)' /\ Visited(c)'
    <2>1. \A s \in Specs : Held(c, s) => Held(c, s)'
      BY <1>2, <1>3 DEF Held, SameOutcome, Recording
    <2>2. Traced(c)'
      BY <1>2, <1>3, <2>1 DEF OutcomeInv, Traced, world
    <2>3. \A s \in Specs : result[c][s] # "none" => result'[c][s] # "none"
      <3>1. ASSUME NEW s \in Specs, Classify(c, s)
            PROVE \A x \in Specs : result[c][x] # "none" => result'[c][x] # "none"
        BY <1>1, <3>1, VerdictType DEF Classify, Statuses, Results
      <3>2. result' = result \/ \E s \in Specs : Classify(c, s)
        BY DEF Record, Observe, Classified, Finalize, records
      <3> QED BY <3>1, <3>2
    <2>4. cap'[c].pc \in Recording \cup {"done"}
      BY RecordEffect
    <2> QED BY <1>2, <1>3, <2>2, <2>3, <2>4
            DEF OutcomeInv, Visited, SameOutcome, Acquiring, Window, Releasing, Recording
  <1>6. CASE Observe(c)
    <2>1. UNCHANGED <<result, manifest>> /\ cap'[c].pc = "classify" /\ cap'[c].todo = cap[c].running
      BY <1>1, <1>6 DEF Observe, Locals
    <2>2. \A d \in Captures \ {c} : d \in observed' <=> d \in observed
      BY <1>6 DEF Observe
    <2>3. cap[c].pc = "record" /\ (c \in observed' <=> c \in observed \/ cap[c].interrupted)
      BY <1>6 DEF Observe, At
    <2>4. Recorded(c)'
      BY <1>2, <1>3, <2>1 DEF OutcomeInv, Recorded, SameOutcome
    <2>5. Noticed(c)'
      BY <1>2, <1>3, <2>1, <2>3 DEF OutcomeInv, Noticed, SameOutcome, Ended
    <2>6. Sealed(c)'
      BY <1>3, <2>1, <2>3, NotSealed DEF OutcomeInv
    <2> QED BY <1>2, <1>5, <2>1, <2>2, <2>4, <2>5, <2>6, Elsewhere, OutcomesElsewhere
            DEF OutcomeInv, world
  <1>7. ASSUME NEW s \in Specs, Classify(c, s)
        PROVE OutcomesInv'
    <2>1. /\ UNCHANGED <<observed, manifest>> /\ cap[c].pc = "classify" /\ cap'[c].pc = "classify"
          /\ cap'[c].todo = cap[c].todo \ {s}
      BY <1>1, <1>7 DEF Classify, At, Locals
    <2> DEFINE status == Verdict(child[c][s], artifact[c][s] > 0, cap[c].interrupted)
    <2>2. PICK recorded \in {status} \cup (IF status = "ok" /\ s \notin Sudo THEN {"failed"} ELSE {}) :
              result' = [result EXCEPT ![c][s] = recorded]
      BY <1>7 DEF Classify
    <2>3. recorded # "none" /\ (recorded = "interrupted" => cap[c].interrupted)
      BY <2>2 DEF Verdict
    <2>4. s \in Alive(c) => recorded \in Suspect
      BY <2>2 DEF Verdict, Alive, Suspect
    <2>5. /\ \A d \in Captures \ {c} : result'[d] = result[d]
          /\ \A x \in Specs : result'[c][x] = IF x = s THEN recorded ELSE result[c][x]
      BY <1>1, <2>2 DEF Results
    <2>6. \A x \in cap[c].running \ cap'[c].todo : Judged(c, x)'
      <3> SUFFICES ASSUME NEW x \in cap[c].running \ cap'[c].todo PROVE Judged(c, x)'
        OBVIOUS
      <3>1. x \in Specs
        BY <1>1 DEF Locals
      <3>2. CASE x = s
        BY <1>2, <2>3, <2>4, <2>5, <3>1, <3>2 DEF Judged
      <3>3. CASE x # s
        BY <1>2, <1>3, <2>1, <2>5, <3>1, <3>3 DEF Judged, OutcomeInv, Recorded
      <3> QED BY <3>2, <3>3
    <2>7. Recorded(c)'
      BY <1>2, <1>3, <2>1, <2>3, <2>5, <2>6 DEF OutcomeInv, Recorded, SameOutcome
    <2>8. Noticed(c)' /\ Sealed(c)'
      BY <1>2, <1>3, <2>1, NotSealed DEF OutcomeInv, Noticed, SameOutcome, Ended
    <2> QED BY <1>2, <1>5, <2>1, <2>5, <2>7, <2>8, Elsewhere, OutcomesElsewhere
            DEF OutcomeInv, world
  <1>8. CASE Classified(c)
    <2>1. UNCHANGED records /\ cap[c].pc = "classify" /\ cap'[c].pc = "finalize" /\ cap[c].todo = {}
      BY <1>1, <1>8 DEF Classified, At, Goto, Locals
    <2>2. Recorded(c)'
      BY <1>2, <1>3, <2>1 DEF OutcomeInv, Recorded, Judged, SameOutcome, records
    <2>3. Noticed(c)' /\ Sealed(c)'
      BY <1>2, <1>3, <2>1, NotSealed DEF OutcomeInv, Noticed, SameOutcome, Ended, records
    <2> QED BY <1>2, <1>5, <2>1, <2>2, <2>3, Elsewhere, OutcomesElsewhere
            DEF OutcomeInv, world, records
  <1>9. CASE Finalize(c)
    <2>1. UNCHANGED <<result, observed>> /\ cap[c].pc = "finalize" /\ cap'[c].pc = "done"
      BY <1>1, <1>9 DEF Finalize, At, Goto, Locals
    <2>2. manifest' = [manifest EXCEPT ![c] =
              [results |-> result[c], hashes |-> artifact[c], observed |-> c \in observed]]
      BY <1>9 DEF Finalize
    <2>3. /\ manifest'[c].results = result[c] /\ manifest'[c].hashes = artifact[c]
          /\ manifest'[c].observed = (c \in observed)
          /\ \A d \in Captures \ {c} : manifest'[d] = manifest[d]
      BY <1>1, <2>2
    <2>4. Recorded(c)' /\ Noticed(c)'
      BY <1>2, <1>3, <2>1 DEF OutcomeInv, Recorded, Noticed, SameOutcome, Ended
    <2>5. \A s \in Specs : s \in cap[c].running => Judged(c, s)
      BY <1>3, <2>1 DEF OutcomeInv, Recorded
    <2>6. Sealed(c)'
      <3>1. cap[c].interrupted \in BOOLEAN /\ (c \in observed) = cap[c].interrupted
        <4>1. cap[c].interrupted \in BOOLEAN
          BY <1>1 DEF Locals
        <4>2. (c \in observed) \in BOOLEAN
          BY SMT
        <4> QED BY <1>3, <2>1, <4>1, <4>2 DEF OutcomeInv, Noticed
      <3>2. ASSUME NEW s \in Specs
            PROVE /\ result[c][s] = "none" => cap[c].interrupted /\ s \notin cap[c].running
                  /\ result[c][s] = "interrupted" => cap[c].interrupted
                  /\ s \in Alive(c) => result[c][s] \in Suspect
        BY <1>3, <1>4, <2>1, <2>5 DEF OutcomeInv, Visited, Recorded, Judged, Recording
      <3>3. artifact' = artifact /\ cap'[c].interrupted = cap[c].interrupted
            /\ cap'[c].running = cap[c].running
        BY <1>2 DEF world, SameOutcome
      <3> QED BY <1>2, <2>1, <2>3, <3>1, <3>2, <3>3 DEF Sealed
    <2> QED BY <1>2, <1>5, <2>1, <2>3, <2>4, <2>6, Elsewhere, OutcomesElsewhere
            DEF OutcomeInv, world
  <1> QED BY <1>6, <1>7, <1>8, <1>9 DEF Record

\* A collector that writes or exits is alive, hence in hand, and the manifest
\* already calls it suspect.
LEMMA OutcomesCollector ==
    ASSUME TypeInv, StopsInv, OutcomesInv, NEW c \in Captures, NEW s \in Specs,
           Write(c, s) \/ Exit(c, s)
    PROVE OutcomesInv'
  <1>1. UNCHANGED <<cap, records>> /\ s \in Alive(c)
    BY DEF Write, Exit
  <1>2. /\ child \in [Captures -> [Specs -> Ends \cup {"none", "alive"}]]
        /\ artifact \in [Captures -> [Specs -> 0 .. MaxWrites]]
    BY DEF TypeInv, TypeOK
  <1>3. Held(c, s) /\ OutcomeInv(c)
    BY <1>1 DEF StopsInv, StopInv, OutcomesInv
  <1>4. /\ \A d \in Captures \ {c} : child'[d] = child[d] /\ artifact'[d] = artifact[d]
        /\ \A x \in Specs \ {s} : child'[c][x] = child[c][x] /\ artifact'[c][x] = artifact[c][x]
    BY <1>2 DEF Write, Exit
  <1>5. Alive(c)' \subseteq Alive(c)
    BY <1>1, <1>4 DEF Alive
  <1>6. \A x \in Specs : Held(c, x)' = Held(c, x)
    BY <1>1 DEF Held
  <1>7. Traced(c)' /\ Visited(c)'
    BY <1>1, <1>3, <1>4, <1>6 DEF OutcomeInv, Traced, Visited, records
  <1>8. Recorded(c)'
    <2>1. cap[c].running \subseteq Specs
      BY DEF TypeInv, TypeOK, Locals
    <2>2. \A x \in Specs : Judged(c, x) => Judged(c, x)'
      BY <1>1, <1>5 DEF Judged, records
    <2> QED BY <1>1, <1>3, <2>1, <2>2 DEF OutcomeInv, Recorded, records
  <1>9. Noticed(c)'
    BY <1>1, <1>3 DEF OutcomeInv, Noticed, records
  <1>10. Sealed(c)'
    BY <1>1, <1>3, <1>4, <1>5 DEF OutcomeInv, Sealed, records
  <1> QED BY <1>1, <1>4, <1>7, <1>8, <1>9, <1>10, OutcomesElsewhere DEF OutcomeInv, records

LEMMA OutcomesStep ==
    ASSUME TypeInv, StopsInv, OutcomesInv, NoGaps, [Next]_vars
    PROVE OutcomesInv'
  <1>1. CASE UNCHANGED vars
    BY <1>1 DEF vars, world, records, OutcomesInv, OutcomeInv, Traced, Visited, Recorded,
                Judged, Noticed, Sealed, Held, Alive
  <1> QED BY <1>1, OutcomesAcquire, OutcomesCollect, OutcomesRelease, OutcomesRecord,
             OutcomesInterrupt, OutcomesCollector DEF Next

LEMMA OutcomesInit == Init => OutcomesInv
  <1> SUFFICES ASSUME Init, NEW c \in Captures PROVE OutcomeInv(c)
    BY DEF OutcomesInv
  <1>1. cap[c].pc = "new" /\ cap[c].interrupted = FALSE
    BY DEF Init, Begin
  <1>2. Traced(c) /\ Visited(c)
    BY <1>1 DEF Init, Traced, Visited, Releasing, Recording
  <1>3. Recorded(c) /\ Noticed(c) /\ Sealed(c)
    BY <1>1 DEF Init, Recorded, Noticed, Sealed
  <1> QED BY <1>2, <1>3 DEF OutcomeInv

LEMMA OutcomesAlways ==
    ASSUME NoGaps
    PROVE Spec => [](TypeInv /\ OutcomesInv)
  <1>1. Init => TypeInv /\ StopsInv /\ OutcomesInv
    BY TypeInit, StopsInit, OutcomesInit
  <1>2. TypeInv /\ StopsInv /\ OutcomesInv /\ [Next]_vars
            => (TypeInv /\ StopsInv /\ OutcomesInv)'
    BY TypeStep, StopsStep, OutcomesStep
  <1> QED BY <1>1, <1>2, PTL DEF Spec

\* When no interrupt falls into the gaps, an artifact that is no longer what
\* finalize hashed belongs to a collector that _classify recorded as failed or
\* interrupted, however long the root collectors keep writing.
THEOREM DriftIsDeclared == NoGaps /\ Spec => []DriftDeclared
  <1>1. OutcomesInv => DriftDeclared
    BY DEF OutcomesInv, OutcomeInv, Sealed, DriftDeclared, Suspect
  <1> SUFFICES ASSUME NoGaps PROVE Spec => []DriftDeclared
    OBVIOUS
  <1> QED BY <1>1, OutcomesAlways, PTL

\* When no interrupt falls into the gaps, a manifest has an outcome for the whole
\* catalog; what an interrupt of _launch_collectors left out has no data.
THEOREM AllOutcomesRecorded == NoGaps /\ Spec => []OutcomesRecorded
  <1>1. TypeInv /\ OutcomesInv => OutcomesRecorded
    <2> SUFFICES ASSUME TypeInv, OutcomesInv, NEW c \in Captures, manifest[c] # NoManifest,
                        NEW s \in Specs, manifest[c].results[s] = "none"
                 PROVE cap[c].interrupted /\ artifact[c][s] = 0
      BY DEF OutcomesRecorded
    <2>1. cap[c].interrupted /\ s \notin cap[c].running /\ cap[c].pc = "done"
      BY DEF OutcomesInv, OutcomeInv, Sealed
    <2>2. ~(artifact[c][s] > 0)
      BY <2>1 DEF OutcomesInv, OutcomeInv, Traced, Held
    <2>3. artifact[c][s] \in Nat
      BY Bounds DEF TypeInv, TypeOK
    <2> QED BY <2>1, <2>2, <2>3
  <1> SUFFICES ASSUME NoGaps PROVE Spec => []OutcomesRecorded
    OBVIOUS
  <1> QED BY <1>1, OutcomesAlways, PTL

\* When no interrupt falls into the gaps, a manifest says of a cut window that it
\* was cut, and reports nothing as interrupted or missing in one that was not.
THEOREM TruncationIsRecorded == NoGaps /\ Spec => []TruncationRecorded
  <1>1. OutcomesInv => TruncationRecorded
    BY DEF OutcomesInv, OutcomeInv, Sealed, TruncationRecorded
  <1> SUFFICES ASSUME NoGaps PROVE Spec => []TruncationRecorded
    OBVIOUS
  <1> QED BY <1>1, OutcomesAlways, PTL

\* When no interrupt falls into the gaps, a manifest accounts for the whole catalog
\* and for the window that really ran.
THEOREM RecordsComplete == NoGaps /\ Spec => []RecordComplete
  <1>1. NoGaps /\ Spec => []OutcomesRecorded /\ []TruncationRecorded
    BY AllOutcomesRecorded, TruncationIsRecorded
  <1> QED BY <1>1, PTL DEF RecordComplete
==============================================================================
