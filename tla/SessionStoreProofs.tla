------------------------- MODULE SessionStoreProofs -------------------------
(***************************************************************************)
(* Theorems about SessionStore, for every value of its constants.          *)
(***************************************************************************)
EXTENDS SessionStoreRefinement, FiniteSetTheorems, SequenceTheorems,
        WellFoundedInduction, TLAPS

\* Every directory that has a path has a well-formed name.
Named == \A d \in Evidence : where[d] \in {"store", "trash"} => name[d] \in Names

\* What a process holds fits the step it is at.
Consistent(r) ==
    /\ r.pc \in {"stamp", "probe", "move", "collided", "erase", "stat", "unlink"}
       => r.todo # <<>>
    /\ r.pc = "collect" => r.own \in Names
    /\ r.pc = "move" => r.target \in Names
    /\ r.pc = "probe" => r.tries < MaxTries
    /\ r.pc \notin {"probe", "move", "collided"} => r.tries = 0

TypeInv == TypeOK /\ Named /\ \A p \in Procs : Consistent(proc[p])

-----------------------------------------------------------------------------
(* Listings are sequences of names.                                        *)

LEMMA NameNotSpecial == NoName \notin Names /\ NoDir \notin Evidence
  BY ConstantsAssumption DEF ConstantsAssumption

LEMMA TriesAndGrace == MaxTries \in Nat \ {0} /\ Grace \in Nat
  BY ConstantsAssumption DEF ConstantsAssumption

LEMMA ClockNames == \A s \in Stamps : <<s>> \in Names
  BY DEF Names

\* The head of a name is a stamp.
LEMMA HeadOfName == \A n \in Names : Head(n) \in Stamps
  BY DEF Names

\* What the listing of a set of n names holds is a sequence.
LEMMA ListedNames ==
    ASSUME NEW S, S \subseteq Names, NEW n \in Nat, NEW s \in [1 .. n -> S]
    PROVE s \in Seq(Names)
  BY IsASeq, SeqMonotonic, s \in [1 .. n -> Names]

LEMMA TailOfNames ==
    ASSUME NEW s \in Seq(Names), s # <<>>
    PROVE /\ Head(s) \in Names /\ Tail(s) \in Seq(Names)
          /\ Len(s) # 1 => Tail(s) # <<>>
  <1>1. Len(s) \in Nat /\ Len(s) # 0
    BY EmptySeq
  <1>2. Head(s) \in Names /\ Tail(s) \in Seq(Names) /\ Len(Tail(s)) = Len(s) - 1
    BY HeadTailProperties
  <1>3. Len(<<>>) = 0
    BY EmptySeq
  <1>4. Len(s) # 1 => Len(Tail(s)) # 0
    BY <1>1, <1>2
  <1> QED BY <1>2, <1>3, <1>4

LEMMA FiniteEvidence ==
    ASSUME NEW T \in SUBSET Evidence
    PROVE IsFiniteSet(T) /\ Cardinality(T) \in Nat
  BY ConstantsAssumption, FS_Subset, FS_CardinalityType DEF ConstantsAssumption

LEMMA TrashNames ==
    ASSUME Named, NEW s \in TrashListings
    PROVE s \in Seq(Names)
  <1> DEFINE D == In("trash")
             N == NamesIn("trash")
             f == [d \in D |-> name[d]]
  <1>1. D \in SUBSET Evidence /\ N \subseteq Names
    BY DEF In, NamesIn, Named
  <1>2. f \in Surjection(D, N)
    BY DEF Surjection, NamesIn
  <1>3. IsFiniteSet(D)
    BY <1>1, FiniteEvidence
  <1>4. Cardinality(N) \in Nat
    <2> HIDE DEF f, D, N
    <2> QED BY <1>2, <1>3, FS_Surjection, FS_CardinalityType
  <1>5. s \in [1 .. Cardinality(N) -> N]
    BY DEF TrashListings
  <1> HIDE DEF D, N, f
  <1> QED BY <1>1, <1>4, <1>5, ListedNames

LEMMA KeepType == ASSUME NEW p \in Procs PROVE KeepOf(p) \in Nat
  BY ConstantsAssumption DEF ConstantsAssumption, KeepOf

LEMMA DoomedNames ==
    ASSUME Named, NEW s \in Listings(In("store")), NEW keep \in Nat,
           NEW limit, NEW left \in Survivors(s, keep, limit)
    PROVE Doomed(s, keep, left) \in Seq(Names)
  <1> DEFINE S == In("store")
             upto == Least(keep, Len(s))
             j(i) == IF upto + i <= Len(s) THEN upto + i ELSE Len(s) - i + 1
  <1>1. S \in SUBSET Evidence
    BY DEF In
  <1>2. PICK n \in Nat : n = Cardinality(S)
    BY <1>1, FiniteEvidence
  <1>3. s \in [1 .. n -> S]
    BY <1>2 DEF Listings
  <1>4. s \in Seq(S) /\ Len(s) = n /\ DOMAIN s = 1 .. n
    BY <1>2, <1>3, IsASeq
  <1>5. upto \in 0 .. n /\ left \in 0 .. upto
    BY <1>2, <1>4 DEF Least, Survivors
  <1>6. \A i \in 1 .. n - left : j(i) \in 1 .. n
    BY <1>2, <1>4, <1>5
  <1>7. \A i \in 1 .. n - left : name[s[j(i)]] \in Names
    <2> TAKE i \in 1 .. n - left
    <2>1. s[j(i)] \in S
      BY <1>3, <1>6
    <2> QED BY <2>1 DEF In, Named
  <1>8. Doomed(s, keep, left) = [i \in 1 .. n - left |-> name[s[j(i)]]]
    BY <1>4 DEF Doomed
  <1>9. n - left \in Nat
    BY <1>2, <1>5
  <1> HIDE DEF j, upto, S
  <1> QED BY <1>7, <1>8, <1>9, IsASeq, [i \in 1 .. n - left |-> name[s[j(i)]]] \in [1 .. n - left -> Names]

-----------------------------------------------------------------------------
(* Type correctness.                                                       *)

DirsTyped ==
    /\ where \in [Evidence -> Places]
    /\ name \in [Evidence -> Names \cup {NoName}]
    /\ mtime \in [Evidence -> Stamps]
    /\ summary \subseteq Evidence
    /\ written \in [Evidence -> Stamps]
    /\ retiredAt \in [Evidence -> Stamps]
    /\ Named

\* One process takes a step; whatever it does to the directories is well typed.
LEMMA ProcessStep ==
    ASSUME TypeInv, NEW p \in Procs, NEW r \in Process, Consistent(r),
           proc' = [proc EXCEPT ![p] = r],
           DirsTyped', clock' \in Stamps, index' \subseteq Names
    PROVE TypeInv'
  <1>1. proc' \in [Procs -> Process]
    BY DEF TypeInv, TypeOK
  <1>2. \A q \in Procs : Consistent(proc[q])'
    <2> TAKE q \in Procs
    <2>1. CASE q = p
      BY <2>1 DEF TypeInv, TypeOK, Consistent
    <2>2. CASE q # p
      BY <2>2 DEF TypeInv, TypeOK, Consistent
    <2> QED BY <2>1, <2>2
  <1> QED BY <1>1, <1>2 DEF TypeInv, TypeOK, DirsTyped, Named

LEMMA DirsKept ==
    ASSUME TypeInv, UNCHANGED dirs
    PROVE DirsTyped'
  BY DEF TypeInv, TypeOK, DirsTyped, Named, dirs

LEMMA IdleType == Idle \in Process /\ Consistent(Idle)
  BY ConstantsAssumption, EmptySeq DEF ConstantsAssumption, Idle, Process, Labels, Consistent

LEMMA TypeInit == Init => TypeInv
  <1> SUFFICES ASSUME Init PROVE TypeInv
    OBVIOUS
  <1>1. \A d \in DOMAIN Stock : d \in Evidence /\ Stock[d] \in Names /\ Head(Stock[d]) \in Stamps
    BY ConstantsAssumption, HeadOfName DEF ConstantsAssumption
  <1>2. 0 \in Stamps /\ clock \in Stamps
    BY ConstantsAssumption DEF ConstantsAssumption, Stamps, Init
  <1>3. DirsTyped
    BY <1>1, <1>2 DEF Init, DirsTyped, Named, Places
  <1>4. index \subseteq Names
    BY <1>1 DEF Init
  <1>5. proc \in [Procs -> Process] /\ \A p \in Procs : Consistent(proc[p])
    BY IdleType DEF Init
  <1> QED BY <1>2, <1>3, <1>4, <1>5 DEF TypeInv, TypeOK, DirsTyped

LEMMA MakeType ==
    ASSUME TypeInv, NEW d \in Evidence, NEW n \in Names, Make(d, n), summary' \subseteq Evidence
    PROVE DirsTyped'
  BY DEF TypeInv, TypeOK, DirsTyped, Named, Make, Places

LEMMA DestroyType ==
    ASSUME TypeInv, NEW d \in Evidence, Destroy(d)
    PROVE DirsTyped'
  BY DEF TypeInv, TypeOK, DirsTyped, Named, Destroy, Places

LEMMA UnusedEvidence == Unused \subseteq Evidence
  BY DEF Unused, In

LEMMA NextDoomedType ==
    ASSUME TypeInv, NEW p \in Procs, NEW ok \in BOOLEAN, NextDoomed(p, ok),
           proc[p].todo # <<>>, DirsTyped', clock' \in Stamps, index' \subseteq Names
    PROVE TypeInv'
  <1>1. proc[p] \in Process /\ proc[p].todo \in Seq(Names) /\ proc[p].removed \in BOOLEAN
    BY DEF TypeInv, TypeOK, Process
  <1>2. PICK b \in BOOLEAN : b = (proc[p].removed \/ ok)
    BY <1>1
  <1>3. PICK l \in {"sweep", "erase", "stamp"} :
            /\ l = IF Len(proc[p].todo) = 1 THEN "sweep" ELSE FirstDoomed
            /\ l # "sweep" => Len(proc[p].todo) # 1
    BY DEF FirstDoomed
  <1>4. PICK s \in Seq(Names) : s = Tail(proc[p].todo) /\ (Len(proc[p].todo) # 1 => s # <<>>)
    BY <1>1, TailOfNames
  <1> DEFINE r == [proc[p] EXCEPT !.pc = l, !.todo = s, !.target = NoName, !.tries = 0,
                                  !.removed = b]
  <1>5. r \in Process /\ Consistent(r)
    <2>1. 0 \in 0 .. MaxTries
      BY ConstantsAssumption DEF ConstantsAssumption
    <2>2. r \in Process
      <3>1. [proc[p] EXCEPT !.removed = b] \in Process
        BY <1>1, Zenon DEF Process
      <3>2. ASSUME NEW x \in Process
            PROVE [x EXCEPT !.pc = l, !.todo = s, !.target = NoName, !.tries = 0] \in Process
        BY <1>3, <1>4, <2>1 DEF Process, Labels
      <3> QED BY <3>1, <3>2
    <2>3. r.pc = l /\ r.todo = s /\ r.tries = 0
      BY <1>1 DEF Process
    <2> HIDE DEF r
    <2> QED BY <1>3, <1>4, <2>2, <2>3 DEF Consistent
  <1>6. proc' = [proc EXCEPT ![p] = r]
    <2>1. r = [proc[p] EXCEPT !.pc = IF Len(proc[p].todo) = 1 THEN "sweep" ELSE FirstDoomed,
                              !.todo = Tail(@), !.target = NoName, !.tries = 0,
                              !.removed = @ \/ ok]
      BY <1>1, <1>2, <1>3, <1>4, Zenon DEF Process
    <2> QED BY <2>1, Zenon DEF NextDoomed
  <1> HIDE DEF r
  <1> QED BY <1>5, <1>6, ProcessStep

LEMMA AfterPurgeType ==
    ASSUME TypeInv, NEW p \in Procs
    PROVE AfterPurge(p) \in Process /\ Consistent(AfterPurge(p))
  <1>1. proc[p] \in Process
    BY DEF TypeInv, TypeOK
  <1> QED BY <1>1, IdleType DEF AfterPurge, Process, Labels, Consistent, Idle

LEMMA NextEntryType ==
    ASSUME TypeInv, NEW p \in Procs, NextEntry(p), proc[p].pc \in {"stat", "unlink"},
           DirsTyped', clock' \in Stamps, index' \subseteq Names
    PROVE TypeInv'
  <1> DEFINE r == [proc[p] EXCEPT !.pc = "stat", !.todo = Tail(@), !.seen = NoDir]
  <1>1. proc[p] \in Process /\ Consistent(proc[p])
    BY DEF TypeInv, TypeOK
  <1>2. CASE Len(proc[p].todo) = 1
    BY <1>2, AfterPurgeType, ProcessStep DEF NextEntry
  <1>3. CASE Len(proc[p].todo) # 1
    <2>1. proc[p].todo # <<>>
      BY <1>1 DEF Consistent
    <2>2. Tail(proc[p].todo) \in Seq(Names) /\ Tail(proc[p].todo) # <<>>
      BY <1>1, <1>3, <2>1, TailOfNames DEF Process
    <2>3. r \in Process /\ Consistent(r)
      BY <1>1, <2>2 DEF Process, Labels, Consistent
    <2>4. proc' = [proc EXCEPT ![p] = r]
      <3>1. proc' = [proc EXCEPT ![p] = IF Len(proc[p].todo) = 1 THEN AfterPurge(p) ELSE r]
        BY DEF NextEntry
      <3> QED BY <1>3, <3>1, Zenon
    <2> HIDE DEF r
    <2> QED BY <2>3, <2>4, ProcessStep
  <1> QED BY <1>2, <1>3

\* The clock and the index stay, so only what changes has to be typed.
Steady == clock' = clock /\ index' = index

LEMMA SteadyType == ASSUME TypeInv, Steady PROVE clock' \in Stamps /\ index' \subseteq Names
  BY DEF TypeInv, TypeOK, Steady

LEMMA CapturingType ==
    ASSUME TypeInv, NEW p \in Procs, StartCapture(p) \/ Claim(p) \/ Finalize(p)
    PROVE TypeInv'
  <1>1. proc[p] \in Process /\ Consistent(proc[p]) /\ clock \in Stamps
    BY DEF TypeInv, TypeOK
  <1>2. Steady
    BY DEF Steady, StartCapture, Claim, Finalize
  <1>3. CASE StartCapture(p)
    <2> DEFINE r == [proc[p] EXCEPT !.pc = "claim", !.base = <<clock>>]
    <2>1. r \in Process /\ Consistent(r)
      BY <1>1, <1>3, ClockNames DEF StartCapture, Doing, Process, Labels, Consistent
    <2>2. proc' = [proc EXCEPT ![p] = r] /\ UNCHANGED dirs
      BY <1>1, <1>3 DEF StartCapture, TypeInv, TypeOK
    <2> HIDE DEF r
    <2> QED BY <1>2, <2>1, <2>2, SteadyType, DirsKept, ProcessStep
  <1>4. CASE Claim(p)
    <2>1. PICK d \in Evidence, n \in Names :
              /\ Make(d, n) /\ summary' \subseteq Evidence
              /\ proc' = [proc EXCEPT ![p].pc = "collect", ![p].own = n, ![p].made = d,
                                      ![p].base = NoName]
      BY <1>4, UnusedEvidence DEF Claim, FirstFree, TypeInv, TypeOK
    <2> DEFINE r == [proc[p] EXCEPT !.pc = "collect", !.own = n, !.made = d, !.base = NoName]
    <2>2. r \in Process /\ Consistent(r)
      BY <1>1, <1>4 DEF Claim, Doing, Process, Labels, Consistent
    <2>3. proc' = [proc EXCEPT ![p] = r]
      BY <2>1 DEF TypeInv, TypeOK
    <2> HIDE DEF r
    <2> QED BY <1>2, <2>1, <2>2, <2>3, SteadyType, MakeType, ProcessStep
  <1>5. CASE Finalize(p)
    <2> DEFINE r == [proc[p] EXCEPT !.pc = "scan"]
    <2>1. proc[p].own \in Names
      BY <1>1, <1>5 DEF Finalize, Doing, Consistent
    <2>2. DirsTyped'
      <3>1. CASE \E d \in Unused : Make(d, proc[p].own) /\ summary' = summary \cup {d}
        BY <2>1, <3>1, UnusedEvidence, MakeType DEF TypeInv, TypeOK
      <3>2. CASE \E d \in At("store", proc[p].own) :
                    /\ mtime' = [mtime EXCEPT ![d] = clock]
                    /\ written' = [written EXCEPT ![d] = clock]
                    /\ summary' = summary \cup {d}
                    /\ UNCHANGED <<where, name, retiredAt>>
        BY <1>1, <3>2 DEF TypeInv, TypeOK, DirsTyped, Named, At, In
      <3> QED BY <1>5, <3>1, <3>2 DEF Finalize
    <2>3. r \in Process /\ Consistent(r)
      BY <1>1, <1>5 DEF Finalize, Doing, Process, Labels, Consistent
    <2>4. proc' = [proc EXCEPT ![p] = r]
      BY <1>5 DEF Finalize
    <2> HIDE DEF r
    <2> QED BY <1>2, <2>2, <2>3, <2>4, SteadyType, ProcessStep
  <1> QED BY <1>3, <1>4, <1>5

LEMMA ListType == ASSUME TypeInv, NEW p \in Procs, List(p) PROVE TypeInv'
  <1>1. proc[p] \in Process /\ Consistent(proc[p])
    BY DEF TypeInv, TypeOK
  <1>2. Steady /\ UNCHANGED dirs
    BY DEF Steady, List
  <1>3. proc[p].tries = 0
    BY <1>1 DEF List, Doing, Consistent
  <1>4. PICK b \in BOOLEAN, c \in BOOLEAN, doomed \in Seq(Names) :
           \/ proc' = [proc EXCEPT ![p].pc = AfterListing(doomed), ![p].todo = doomed,
                                   ![p].removed = b]
           \/ proc' = [proc EXCEPT ![p].pc = "sweep", ![p].removed = c]
    <2>0. PICK s \in Listings(In("store")) : \E left \in Survivors(s, KeepOf(p), LimitOf(p)) :
            \/ proc' = [proc EXCEPT ![p].pc = AfterListing(Doomed(s, KeepOf(p), left)),
                                    ![p].todo = Doomed(s, KeepOf(p), left),
                                    ![p].removed = (p \in Pruners /\ Doomed(s, KeepOf(p), left) # <<>>)]
            \/ proc' = [proc EXCEPT ![p].pc = "sweep", ![p].removed = (p \in Pruners)]
      BY DEF List
    <2>1. PICK left \in Survivors(s, KeepOf(p), LimitOf(p)) :
            \/ proc' = [proc EXCEPT ![p].pc = AfterListing(Doomed(s, KeepOf(p), left)),
                                    ![p].todo = Doomed(s, KeepOf(p), left),
                                    ![p].removed = (p \in Pruners /\ Doomed(s, KeepOf(p), left) # <<>>)]
            \/ proc' = [proc EXCEPT ![p].pc = "sweep", ![p].removed = (p \in Pruners)]
      BY <2>0
    <2>2. Doomed(s, KeepOf(p), left) \in Seq(Names)
      BY KeepType, DoomedNames DEF TypeInv
    <2>3. (p \in Pruners /\ Doomed(s, KeepOf(p), left) # <<>>) \in BOOLEAN /\ (p \in Pruners) \in BOOLEAN
      OBVIOUS
    <2> QED BY <2>1, <2>2, <2>3, Zenon
  <1>5. \A x \in Process, b2 \in BOOLEAN : [x EXCEPT !.removed = b2] \in Process
    BY Zenon DEF Process
  <1>6. CASE proc' = [proc EXCEPT ![p].pc = AfterListing(doomed), ![p].todo = doomed,
                                  ![p].removed = b]
    <2>1. PICK l \in {"sweep", "erase", "stamp"} :
              l = AfterListing(doomed) /\ (l # "sweep" => doomed # <<>>)
      BY DEF AfterListing, FirstDoomed
    <2> DEFINE x == [proc[p] EXCEPT !.pc = l, !.todo = doomed]
               r == [x EXCEPT !.removed = b]
    <2>2. x \in Process /\ x.pc = l /\ x.todo = doomed /\ x.tries = 0
      BY <1>1, <1>3, <2>1 DEF Process, Labels
    <2>3. r.pc = l /\ r.todo = doomed /\ r.tries = 0
      BY <1>1, <1>3 DEF Process
    <2>4. r \in Process /\ Consistent(r)
      <3> HIDE DEF x
      <3>1. r \in Process
        BY <1>5, <2>2
      <3> HIDE DEF r
      <3> QED BY <2>1, <2>3, <3>1 DEF Consistent
    <2>5. proc' = [proc EXCEPT ![p] = r]
      BY <1>1, <1>6, <2>1 DEF TypeInv, TypeOK, Process
    <2> HIDE DEF r
    <2> QED BY <1>2, <2>4, <2>5, SteadyType, DirsKept, ProcessStep
  <1>7. CASE proc' = [proc EXCEPT ![p].pc = "sweep", ![p].removed = c]
    <2> DEFINE x == [proc[p] EXCEPT !.pc = "sweep"]
               r == [x EXCEPT !.removed = c]
    <2>1. x \in Process
      BY <1>1 DEF Process, Labels
    <2>2. r.pc = "sweep" /\ r.tries = 0
      BY <1>1, <1>3 DEF Process
    <2>3. r \in Process /\ Consistent(r)
      <3> HIDE DEF x
      <3>1. r \in Process
        BY <1>5, <2>1
      <3> HIDE DEF r
      <3> QED BY <2>2, <3>1 DEF Consistent
    <2>4. proc' = [proc EXCEPT ![p] = r]
      BY <1>1, <1>7 DEF TypeInv, TypeOK, Process
    <2> HIDE DEF r
    <2> QED BY <1>2, <2>3, <2>4, SteadyType, DirsKept, ProcessStep
  <1> QED BY <1>4, <1>6, <1>7

LEMMA RetiringType ==
    ASSUME TypeInv, NEW p \in Procs,
           Stamp(p) \/ AlreadyGone(p) \/ Probe(p) \/ Move(p) \/ Collide(p) \/ Retry(p)
             \/ GiveUp(p) \/ Erase(p)
    PROVE TypeInv'
  <1>1. proc[p] \in Process /\ Consistent(proc[p]) /\ clock \in Stamps /\ proc[p].todo # <<>>
    BY DEF TypeInv, TypeOK, Consistent, Doing, Stamp, AlreadyGone, Probe, Move, Collide,
           Retry, GiveUp, Erase
  <1>2. Steady
    BY DEF Steady, Stamp, AlreadyGone, Probe, Move, Collide, Retry, GiveUp, Erase
  <1>3. proc[p].tries \in 0 .. MaxTries
    BY <1>1 DEF Process
  <1>4. CASE Stamp(p)
    <2> DEFINE r == [proc[p] EXCEPT !.pc = "probe"]
    <2>1. DirsTyped'
      BY <1>1, <1>4 DEF Stamp, GraceStamp, DirsTyped, Named, TypeInv, TypeOK
    <2>2. r \in Process /\ Consistent(r)
      BY <1>1, <1>4, TriesAndGrace DEF Stamp, Doing, Process, Labels, Consistent
    <2>3. proc' = [proc EXCEPT ![p] = r]
      BY <1>4 DEF Stamp
    <2> HIDE DEF r
    <2> QED BY <1>2, <2>1, <2>2, <2>3, SteadyType, ProcessStep
  <1>5. CASE AlreadyGone(p)
    BY <1>1, <1>2, <1>5, SteadyType, DirsKept, NextDoomedType DEF AlreadyGone
  <1>6. CASE Probe(p)
    <2>1. PICK n \in Names :
              proc' = [proc EXCEPT ![p].pc = "move", ![p].target = n, ![p].tries = @ + 1]
      BY <1>6 DEF Probe, FirstFree
    <2> DEFINE r == [proc[p] EXCEPT !.pc = "move", !.target = n, !.tries = proc[p].tries + 1]
    <2>2. proc[p].tries + 1 \in 0 .. MaxTries
      <3>1. proc[p].tries < MaxTries
        BY <1>1, <1>6 DEF Probe, Doing, Consistent
      <3> QED BY <1>3, <3>1, TriesAndGrace
    <2>3. r \in Process /\ Consistent(r)
      BY <1>1, <2>2 DEF Process, Labels, Consistent
    <2>4. proc' = [proc EXCEPT ![p] = r] /\ UNCHANGED dirs
      BY <1>1, <1>6, <2>1 DEF Probe, TypeInv, TypeOK
    <2> HIDE DEF r
    <2> QED BY <1>2, <2>3, <2>4, SteadyType, DirsKept, ProcessStep
  <1>7. CASE Move(p)
    <2>1. proc[p].target \in Names
      BY <1>1, <1>7 DEF Move, Doing, Consistent
    <2>2. DirsTyped'
      BY <1>7, <2>1 DEF Move, DirsTyped, Named, TypeInv, TypeOK, Places
    <2> QED BY <1>1, <1>2, <1>7, <2>2, SteadyType, NextDoomedType DEF Move
  <1>8. CASE Collide(p)
    <2> DEFINE r == [proc[p] EXCEPT !.pc = "collided"]
    <2>1. r \in Process /\ Consistent(r)
      BY <1>1 DEF Process, Labels, Consistent
    <2>2. proc' = [proc EXCEPT ![p] = r] /\ UNCHANGED dirs
      BY <1>8 DEF Collide
    <2> HIDE DEF r
    <2> QED BY <1>2, <2>1, <2>2, SteadyType, DirsKept, ProcessStep
  <1>9. CASE Retry(p)
    <2> DEFINE r == [proc[p] EXCEPT !.pc = "probe"]
    <2>1. r \in Process /\ Consistent(r)
      BY <1>1, <1>9 DEF Retry, Process, Labels, Consistent
    <2>2. proc' = [proc EXCEPT ![p] = r] /\ UNCHANGED dirs
      BY <1>9 DEF Retry
    <2> HIDE DEF r
    <2> QED BY <1>2, <2>1, <2>2, SteadyType, DirsKept, ProcessStep
  <1>10. CASE GiveUp(p)
    BY <1>1, <1>2, <1>10, SteadyType, DirsKept, NextDoomedType DEF GiveUp
  <1>11. CASE Erase(p)
    <2>1. DirsTyped'
      BY <1>11, DestroyType DEF Erase, At, In
    <2> QED BY <1>1, <1>2, <1>11, <2>1, SteadyType, NextDoomedType DEF Erase
  <1> QED BY <1>4, <1>5, <1>6, <1>7, <1>8, <1>9, <1>10, <1>11

LEMMA PurgingType ==
    ASSUME TypeInv, NEW p \in Procs, Purging(p)
    PROVE TypeInv'
  <1>1. proc[p] \in Process /\ Consistent(proc[p]) /\ clock \in Stamps
    BY DEF TypeInv, TypeOK
  <1>2. Steady
    BY DEF Steady, Purging, Sweep, Skip, Expire, Unlink, UnlinkNothing
  <1>3. CASE Sweep(p)
    <2>1. PICK s \in TrashListings :
              proc' = [proc EXCEPT ![p] =
                          IF s = <<>> THEN AfterPurge(p)
                          ELSE [proc[p] EXCEPT !.pc = "stat", !.todo = s, !.cutoff = Cutoff]]
      BY <1>3 DEF Sweep
    <2>2. s \in Seq(Names)
      BY TrashNames DEF TypeInv
    <2>3. CASE s = <<>>
      BY <1>2, <1>3, <2>1, <2>3, AfterPurgeType, SteadyType, DirsKept, ProcessStep DEF Sweep
    <2>4. CASE s # <<>>
      <3> DEFINE r == [proc[p] EXCEPT !.pc = "stat", !.todo = s, !.cutoff = Cutoff]
      <3>1. Cutoff \in Int
        BY <1>1, ConstantsAssumption, TriesAndGrace DEF Cutoff, Stamps, ConstantsAssumption
      <3>2. r \in Process /\ Consistent(r)
        BY <1>1, <1>3, <2>2, <2>4, <3>1 DEF Sweep, Doing, Process, Labels, Consistent
      <3>3. proc' = [proc EXCEPT ![p] = r] /\ UNCHANGED dirs
        BY <1>3, <2>1, <2>4 DEF Sweep
      <3> HIDE DEF r
      <3> QED BY <1>2, <3>2, <3>3, SteadyType, DirsKept, ProcessStep
    <2> QED BY <2>3, <2>4
  <1>4. CASE Skip(p)
    BY <1>2, <1>4, SteadyType, DirsKept, NextEntryType DEF Skip, Doing
  <1>5. CASE Expire(p)
    <2>1. PICK d \in Evidence : proc' = [proc EXCEPT ![p].pc = "unlink", ![p].seen = d]
      BY <1>5 DEF Expire, At, In
    <2> DEFINE r == [proc[p] EXCEPT !.pc = "unlink", !.seen = d]
    <2>2. r \in Process /\ Consistent(r)
      BY <1>1, <1>5 DEF Expire, Doing, Process, Labels, Consistent
    <2>3. proc' = [proc EXCEPT ![p] = r] /\ UNCHANGED dirs
      BY <1>1, <1>5, <2>1 DEF Expire, TypeInv, TypeOK
    <2> HIDE DEF r
    <2> QED BY <1>2, <2>2, <2>3, SteadyType, DirsKept, ProcessStep
  <1>6. CASE Unlink(p)
    <2>1. DirsTyped'
      BY <1>6, DestroyType DEF Unlink, At, In
    <2> QED BY <1>2, <1>6, <2>1, SteadyType, NextEntryType DEF Unlink, Doing
  <1>7. CASE UnlinkNothing(p)
    BY <1>2, <1>7, SteadyType, DirsKept, NextEntryType DEF UnlinkNothing, Doing
  <1> QED BY <1>3, <1>4, <1>5, <1>6, <1>7 DEF Purging

LEMMA IndexingType ==
    ASSUME TypeInv, NEW p \in Procs, Indexing(p)
    PROVE TypeInv'
  <1>1. proc[p] \in Process /\ Consistent(proc[p]) /\ clock \in Stamps
    BY DEF TypeInv, TypeOK
  <1>2. CASE Scan(p)
    <2> DEFINE r == [proc[p] EXCEPT !.pc = "publish", !.rows = Listed]
    <2>1. Listed \subseteq Names
      BY DEF Listed, In, TypeInv, Named
    <2>2. r \in Process /\ Consistent(r)
      BY <1>1, <1>2, <2>1 DEF Scan, Doing, Process, Labels, Consistent
    <2>3. proc' = [proc EXCEPT ![p] = r] /\ UNCHANGED dirs /\ Steady
      BY <1>1, <1>2 DEF Scan, TypeInv, TypeOK, Steady
    <2> HIDE DEF r
    <2> QED BY <2>2, <2>3, SteadyType, DirsKept, ProcessStep
  <1>3. CASE Publish(p)
    <2> DEFINE x == [Idle EXCEPT !.pc = "list", !.made = proc[p].made]
    <2>1. x \in Process /\ Consistent(x)
      <3>1. proc[p].made \in Evidence \cup {NoDir} /\ Idle.tries = 0
        BY <1>1 DEF Process, Idle
      <3>2. x \in Process
        BY <3>1, IdleType DEF Process, Labels
      <3>3. x.pc = "list" /\ x.tries = 0
        BY <3>1, IdleType DEF Process
      <3> HIDE DEF x
      <3> QED BY <3>2, <3>3 DEF Consistent
    <2>2. PICK r \in Process : Consistent(r) /\ proc' = [proc EXCEPT ![p] = r]
      BY <1>3, <2>1, IdleType DEF Publish
    <2>3. clock' \in Stamps /\ index' \subseteq Names /\ UNCHANGED dirs
      BY <1>1, <1>3 DEF Publish, Process
    <2> QED BY <2>2, <2>3, DirsKept, ProcessStep
  <1> QED BY <1>2, <1>3 DEF Indexing

LEMMA SurroundingsType ==
    ASSUME TypeInv,
           (\E d \in Evidence : Restore(d)) \/ (\E p \in Procs : Crash(p)) \/ Tick
             \/ UNCHANGED vars
    PROVE TypeInv'
  <1>1. ASSUME NEW d \in Evidence, Restore(d) PROVE TypeInv'
    BY <1>1 DEF Restore, TypeInv, TypeOK, Named, Consistent, Places
  <1>2. ASSUME NEW p \in Procs, Crash(p) PROVE TypeInv'
    BY <1>2, IdleType, SteadyType, DirsKept, ProcessStep DEF Crash, Steady
  <1>3. CASE Tick
    <2>1. clock + 1 \in Stamps
      BY <1>3, ConstantsAssumption DEF Tick, TypeInv, TypeOK, Stamps, ConstantsAssumption
    <2> QED BY <1>3, <2>1 DEF Tick, dirs, TypeInv, TypeOK, Named, Consistent
  <1>4. CASE UNCHANGED vars
    BY <1>4 DEF vars, dirs, TypeInv, TypeOK, Named, Consistent
  <1> QED BY <1>1, <1>2, <1>3, <1>4

LEMMA TypeStep == TypeInv /\ [Next]_vars => TypeInv'
  BY CapturingType, ListType, RetiringType, PurgingType, IndexingType, SurroundingsType
  DEF Next, Running, Capturing, Retiring, Indexing

\* The store, the processes and the index stay well formed, whatever runs and
\* fails: in particular no name grows past a claim and a trash suffix, and no
\* prune makes more than MaxTries rename attempts (session.py _move_into_trash).
THEOREM TypeCorrect == Spec => []TypeOK
  <1>1. TypeInv => TypeOK
    BY DEF TypeInv
  <1> QED BY TypeInit, TypeStep, <1>1, PTL DEF Spec

-----------------------------------------------------------------------------
(* Distinct paths.                                                         *)

LEMMA MakeDistinct ==
    ASSUME TypeInv, DistinctPaths, NEW d \in Evidence, NEW n, ~Taken("store", n), Make(d, n)
    PROVE DistinctPaths'
  BY DEF TypeInv, TypeOK, DistinctPaths, Taken, At, In, Make

LEMMA DestroyDistinct ==
    ASSUME TypeInv, DistinctPaths, NEW d \in Evidence, Destroy(d)
    PROVE DistinctPaths'
  BY DEF TypeInv, TypeOK, DistinctPaths, Destroy

LEMMA PathsKept ==
    ASSUME DistinctPaths, UNCHANGED <<where, name>>
    PROVE DistinctPaths'
  BY DEF DistinctPaths

LEMMA DistinctStep ==
    ASSUME TypeInv, DistinctPaths, [Next]_vars
    PROVE DistinctPaths'
  <1>1. ASSUME NEW p \in Procs, Claim(p) PROVE DistinctPaths'
    BY <1>1, UnusedEvidence, MakeDistinct DEF Claim, FirstFree
  <1>2. ASSUME NEW p \in Procs, Finalize(p) PROVE DistinctPaths'
    BY <1>2, UnusedEvidence, MakeDistinct, PathsKept DEF Finalize
  <1>3. ASSUME NEW p \in Procs, Move(p) PROVE DistinctPaths'
    BY <1>3 DEF Move, TypeInv, TypeOK, DistinctPaths, Taken, At, In
  <1>4. ASSUME NEW p \in Procs, Erase(p) \/ Unlink(p) PROVE DistinctPaths'
    BY <1>4, DestroyDistinct DEF Erase, Unlink, At, In
  <1>5. ASSUME NEW d \in Evidence, Restore(d) PROVE DistinctPaths'
    BY <1>5 DEF Restore, TypeInv, TypeOK, DistinctPaths, Taken, At, In
  <1>6. ASSUME NEW p \in Procs,
               \/ StartCapture(p) \/ List(p) \/ Stamp(p) \/ AlreadyGone(p) \/ Probe(p)
               \/ Collide(p) \/ Retry(p) \/ GiveUp(p) \/ Sweep(p) \/ Skip(p) \/ Expire(p)
               \/ UnlinkNothing(p) \/ Scan(p) \/ Publish(p) \/ Crash(p)
        PROVE DistinctPaths'
    <2>1. UNCHANGED <<where, name>>
      BY <1>6 DEF StartCapture, List, Stamp, AlreadyGone, Probe, Collide, Retry, GiveUp,
                  Sweep, Skip, Expire, UnlinkNothing, Scan, Publish, Crash, dirs
    <2> QED BY <2>1, PathsKept
  <1>7. CASE Tick \/ UNCHANGED vars
    BY <1>7, PathsKept DEF Tick, vars, dirs
  <1> QED BY <1>1, <1>2, <1>3, <1>4, <1>5, <1>6, <1>7
          DEF Next, Running, Capturing, Retiring, Purging, Indexing

\* No two directories ever share a path, for any number of captures and prunes
\* racing, whatever fails, crashes or is moved back: a claim's mkdir (io.py
\* claim_dir) and a retirement's rename (session.py _move_into_trash) never land
\* on evidence that is there.
THEOREM PathsDistinct == Spec => []DistinctPaths
  <1>1. Init => DistinctPaths
    BY ConstantsAssumption DEF ConstantsAssumption, Init, DistinctPaths
  <1>2. TypeInv /\ DistinctPaths /\ [Next]_vars => DistinctPaths'
    BY DistinctStep
  <1> QED BY <1>1, <1>2, TypeInit, TypeStep, PTL DEF Spec

-----------------------------------------------------------------------------
(* The grace window.                                                       *)

\* A stamped session's mtime is no older than the stamp.
Stamped == \A d \in Evidence : retiredAt[d] <= mtime[d] /\ retiredAt[d] <= clock

\* A purge's cutoff leaves the whole window.
CutoffFits ==
    \A p \in Procs : proc[p].pc \in {"stat", "unlink"} => proc[p].cutoff <= clock - Grace

GraceBase == TypeInv /\ Stamped /\ CutoffFits

LEMMA ClockForward ==
    ASSUME TypeInv, [Next]_vars
    PROVE clock \in Int /\ clock' \in Int /\ clock <= clock'
  <1>1. clock \in Int
    BY ConstantsAssumption DEF ConstantsAssumption, TypeInv, TypeOK, Stamps
  <1>2. clock' = clock \/ clock' = clock + 1
    BY DEF Next, Running, Capturing, Retiring, Purging, Indexing, StartCapture, Claim, Finalize,
           List, Stamp, AlreadyGone, Probe, Move, Collide, Retry, GiveUp, Erase, Sweep, Skip,
           Expire, Unlink, UnlinkNothing, Scan, Publish, Crash, Restore, Tick, vars
  <1> QED BY <1>1, <1>2

LEMMA StampsAreTimes ==
    ASSUME TypeInv, NEW d \in Evidence
    PROVE mtime[d] \in Int /\ retiredAt[d] \in Int
  BY ConstantsAssumption DEF ConstantsAssumption, TypeInv, TypeOK, Stamps

LEMMA StampedStep ==
    ASSUME TypeInv, Stamped, [Next]_vars, ~StampFails
    PROVE Stamped'
  <1>1. clock \in Int /\ clock' \in Int /\ clock <= clock'
    BY ClockForward
  <1>2. \A d \in Evidence : retiredAt[d] \in Int /\ mtime[d] \in Int
    BY StampsAreTimes
  <1>3. ASSUME NEW d \in Evidence, NEW n, Make(d, n) PROVE Stamped'
    BY <1>1, <1>2, <1>3 DEF Make, Stamped, TypeInv, TypeOK
  <1>4. ASSUME NEW p \in Procs, Claim(p) PROVE Stamped'
    BY <1>3, <1>4, UnusedEvidence DEF Claim
  <1>5. ASSUME NEW p \in Procs, Finalize(p) PROVE Stamped'
    <2>1. CASE \E d \in Unused : Make(d, proc[p].own)
      BY <1>3, <2>1, UnusedEvidence
    <2>2. CASE \E d \in At("store", proc[p].own) :
                  /\ mtime' = [mtime EXCEPT ![d] = clock]
                  /\ UNCHANGED retiredAt
      BY <1>1, <1>2, <2>2 DEF Stamped, TypeInv, TypeOK
    <2> QED BY <1>5, <2>1, <2>2 DEF Finalize
  <1>6. ASSUME NEW p \in Procs, Stamp(p) PROVE Stamped'
    BY <1>1, <1>2, <1>6 DEF Stamp, GraceStamp, Stamped, TypeInv, TypeOK
  <1>7. ASSUME UNCHANGED <<mtime, retiredAt>> PROVE Stamped'
    BY <1>1, <1>2, <1>7 DEF Stamped
  <1>8. ASSUME NEW p \in Procs,
               \/ StartCapture(p) \/ List(p) \/ AlreadyGone(p) \/ Probe(p) \/ Move(p)
               \/ Collide(p) \/ Retry(p) \/ GiveUp(p) \/ Erase(p) \/ Sweep(p) \/ Skip(p)
               \/ Expire(p) \/ Unlink(p) \/ UnlinkNothing(p) \/ Scan(p) \/ Publish(p) \/ Crash(p)
        PROVE Stamped'
    <2>1. UNCHANGED <<mtime, retiredAt>>
      BY <1>8 DEF StartCapture, List, AlreadyGone, Probe, Move, Collide, Retry, GiveUp, Erase,
                  Sweep, Skip, Expire, Unlink, UnlinkNothing, Scan, Publish, Crash, Destroy, dirs
    <2> QED BY <1>7, <2>1
  <1>9. CASE (\E d \in Evidence : Restore(d)) \/ Tick \/ UNCHANGED vars
    BY <1>7, <1>9 DEF Restore, Tick, vars, dirs
  <1> QED BY <1>4, <1>5, <1>6, <1>8, <1>9
          DEF Next, Running, Capturing, Retiring, Purging, Indexing

ProcessTakes(p) == StartCapture(p) \/ Running(p) \/ Crash(p)

LEMMA OthersWait ==
    ASSUME TypeInv, NEW p \in Procs, ProcessTakes(p), NEW q \in Procs, q # p
    PROVE proc'[q] = proc[q]
  BY DEF TypeInv, TypeOK, ProcessTakes, Running, Capturing, Retiring, Purging, Indexing,
         StartCapture, Claim, Finalize, List, Stamp, AlreadyGone, Probe, Move, Collide, Retry,
         GiveUp, Erase, Sweep, Skip, Expire, Unlink, UnlinkNothing, Scan, Publish, Crash,
         NextDoomed, NextEntry

\* A process that is about to look at a trash entry has just fixed its cutoff or
\* goes on with the one it had; one that is about to remove an entry has just
\* looked at it.
LEMMA CutoffOrigin ==
    ASSUME TypeInv, NEW p \in Procs, ProcessTakes(p), proc'[p].pc \in {"stat", "unlink"}
    PROVE \/ Expire(p) /\ proc[p].pc = "stat" /\ proc'[p].cutoff = proc[p].cutoff
          \/ proc'[p].pc = "stat" /\ proc'[p].cutoff = clock - Grace
          \/ /\ proc'[p].pc = "stat"
             /\ proc[p].pc \in {"stat", "unlink"} /\ proc'[p].cutoff = proc[p].cutoff
  <1>1. proc[p] \in Process /\ proc \in [Procs -> Process]
    BY DEF TypeInv, TypeOK
  <1>2. AfterPurge(p).pc \notin {"stat", "unlink"} /\ Idle.pc \notin {"stat", "unlink"}
    BY DEF AfterPurge, Idle
  <1>3. CASE NextEntry(p) /\ proc[p].pc \in {"stat", "unlink"}
    <2> DEFINE r == [proc[p] EXCEPT !.pc = "stat", !.todo = Tail(proc[p].todo), !.seen = NoDir]
    <2>1. r.cutoff = proc[p].cutoff /\ r.pc = "stat"
      BY <1>1 DEF Process
    <2>2. proc'[p] = AfterPurge(p) \/ proc'[p] = r
      BY <1>1, <1>3 DEF NextEntry
    <2> HIDE DEF r
    <2> QED BY <1>2, <1>3, <2>1, <2>2
  <1>4. CASE Skip(p) \/ Unlink(p) \/ UnlinkNothing(p)
    BY <1>3, <1>4 DEF Skip, Unlink, UnlinkNothing, Doing
  <1>5. CASE Expire(p)
    BY <1>1, <1>5 DEF Expire, Doing, Process
  <1>6. CASE Sweep(p)
    <2>1. PICK s \in TrashListings :
              proc' = [proc EXCEPT ![p] =
                          IF s = <<>> THEN AfterPurge(p)
                          ELSE [proc[p] EXCEPT !.pc = "stat", !.todo = s, !.cutoff = Cutoff]]
      BY <1>6 DEF Sweep
    <2>2. proc'[p].cutoff = Cutoff /\ proc'[p].pc = "stat"
      BY <1>1, <1>2, <2>1 DEF Process
    <2> QED BY <2>2 DEF Cutoff
  <1>7. CASE \/ StartCapture(p) \/ Claim(p) \/ Finalize(p) \/ List(p) \/ Stamp(p) \/ Probe(p)
             \/ Collide(p) \/ Retry(p) \/ Scan(p)
    <2>1. \A doomed : AfterListing(doomed) \in {"sweep", "erase", "stamp"}
      BY DEF AfterListing, FirstDoomed
    <2>2. CASE List(p)
      <3>1. PICK l \in {"sweep", "erase", "stamp"} : \E t, b :
                \/ proc' = [proc EXCEPT ![p].pc = l, ![p].todo = t, ![p].removed = b]
                \/ proc' = [proc EXCEPT ![p].pc = l, ![p].removed = b]
        BY <2>1, <2>2, Zenon DEF List
      <3> QED BY <1>1, <3>1 DEF Process
    <2>3. StartCapture(p) => proc'[p].pc = "claim"
      BY <1>1 DEF StartCapture, Process
    <2>4. Claim(p) => proc'[p].pc = "collect"
      BY <1>1 DEF Claim, Process
    <2>5. Finalize(p) => proc'[p].pc = "scan"
      BY <1>1 DEF Finalize, Process
    <2>6. Stamp(p) \/ Retry(p) => proc'[p].pc = "probe"
      BY <1>1 DEF Stamp, Retry, Process
    <2>7. Probe(p) => proc'[p].pc = "move"
      BY <1>1 DEF Probe, Process
    <2>8. Collide(p) => proc'[p].pc = "collided"
      BY <1>1 DEF Collide, Process
    <2>9. Scan(p) => proc'[p].pc = "publish"
      BY <1>1 DEF Scan, Process
    <2> QED BY <1>7, <2>2, <2>3, <2>4, <2>5, <2>6, <2>7, <2>8, <2>9
  <1>8. ASSUME NEW ok, NextDoomed(p, ok) PROVE proc'[p].pc \notin {"stat", "unlink"}
    BY <1>1, <1>8 DEF NextDoomed, FirstDoomed, Process
  <1>9. CASE AlreadyGone(p) \/ Move(p) \/ GiveUp(p) \/ Erase(p)
    BY <1>8, <1>9 DEF AlreadyGone, Move, GiveUp, Erase
  <1>10. CASE Publish(p) \/ Crash(p)
    <2>1. [Idle EXCEPT !.pc = "list", !.made = proc[p].made].pc = "list"
      BY DEF Idle
    <2>2. proc'[p].pc \notin {"stat", "unlink"}
      BY <1>1, <1>2, <1>10, <2>1 DEF Publish, Crash
    <2> QED BY <2>2
  <1> QED BY <1>4, <1>5, <1>6, <1>7, <1>9, <1>10
          DEF ProcessTakes, Running, Capturing, Retiring, Purging, Indexing

LEMMA CutoffStep ==
    ASSUME TypeInv, CutoffFits, [Next]_vars
    PROVE CutoffFits'
  <1>1. clock \in Int /\ clock' \in Int /\ clock <= clock' /\ Grace \in Int
    BY ClockForward, TriesAndGrace
  <1>2. \A p \in Procs : proc[p].cutoff \in Int
    BY DEF TypeInv, TypeOK, Process
  <1>3. ASSUME NEW p \in Procs, ProcessTakes(p) PROVE CutoffFits'
    <2> SUFFICES ASSUME NEW q \in Procs, proc'[q].pc \in {"stat", "unlink"}
                 PROVE proc'[q].cutoff <= clock' - Grace
      BY DEF CutoffFits
    <2>1. CASE q = p
      <3>1. proc'[p].pc \in {"stat", "unlink"}
        BY <2>1
      <3>2. \/ proc'[p].cutoff = clock - Grace
            \/ proc[p].pc \in {"stat", "unlink"} /\ proc'[p].cutoff = proc[p].cutoff
        BY <1>3, <3>1, CutoffOrigin
      <3>3. proc[p].pc \in {"stat", "unlink"} => proc[p].cutoff <= clock - Grace
        BY DEF CutoffFits
      <3>4. proc'[p].cutoff \in Int /\ proc'[p].cutoff <= clock - Grace
        BY <1>1, <1>2, <3>2, <3>3
      <3>5. proc'[p].cutoff <= clock' - Grace
        BY <1>1, <3>4
      <3> QED BY <2>1, <3>5
    <2>2. CASE q # p
      BY <1>1, <1>2, <1>3, <2>2, OthersWait DEF CutoffFits
    <2> QED BY <2>1, <2>2
  <1>4. CASE UNCHANGED proc
    BY <1>1, <1>2, <1>4 DEF CutoffFits
  <1>5. CASE (\E d \in Evidence : Restore(d)) \/ Tick \/ UNCHANGED vars
    BY <1>4, <1>5 DEF Restore, Tick, vars
  <1> QED BY <1>3, <1>5 DEF Next, ProcessTakes

LEMMA GraceBaseInit == Init => GraceBase
  <1> SUFFICES ASSUME Init PROVE GraceBase
    OBVIOUS
  <1>1. TypeInv
    BY TypeInit
  <1>2. clock \in Nat /\ \A d \in Evidence : retiredAt[d] = 0 /\ mtime[d] \in Nat
    BY <1>1, ConstantsAssumption DEF ConstantsAssumption, TypeInv, TypeOK, Stamps, Init
  <1>3. Stamped
    BY <1>2 DEF Stamped
  <1>4. CutoffFits
    BY DEF Init, CutoffFits, Idle
  <1> QED BY <1>1, <1>3, <1>4 DEF GraceBase

LEMMA GraceBaseStep ==
    ASSUME GraceBase, [Next]_vars, ~StampFails
    PROVE GraceBase'
  BY TypeStep, StampedStep, CutoffStep DEF GraceBase

-----------------------------------------------------------------------------
(* A purge's verdict, with any number of prunes racing.                    *)

\* The entry a purge has decided on is still the expired one, or gone.
Decided ==
    \A p \in Procs :
        proc[p].pc = "unlink" =>
            /\ proc[p].seen \in Evidence
            /\ where[proc[p].seen] \in {"trash", "gone"}
            /\ where[proc[p].seen] = "trash" => mtime[proc[p].seen] <= proc[p].cutoff

LEMMA TrashRests ==
    ASSUME TypeInv, [Next]_vars, ~Restores, NEW d \in Evidence, where[d] \in {"trash", "gone"}
    PROVE /\ where'[d] \in {"trash", "gone"}
          /\ where'[d] = "trash" => where[d] = "trash" /\ mtime'[d] = mtime[d]
  <1>1. ASSUME NEW e \in Evidence, NEW n, Make(e, n)
        PROVE where'[d] = where[d] /\ mtime'[d] = mtime[d]
    BY <1>1 DEF Make, TypeInv, TypeOK
  <1>2. ASSUME NEW p \in Procs, Claim(p) \/ Finalize(p)
        PROVE where'[d] = where[d] /\ mtime'[d] = mtime[d]
    <2>1. CASE \E e \in Unused : \E n : Make(e, n)
      BY <1>1, <2>1, UnusedEvidence
    <2>2. CASE \E e \in At("store", proc[p].own) :
                  mtime' = [mtime EXCEPT ![e] = clock] /\ UNCHANGED where
      BY <2>2 DEF At, In, TypeInv, TypeOK
    <2> QED BY <1>2, <2>1, <2>2 DEF Claim, Finalize
  <1>3. ASSUME NEW p \in Procs, Stamp(p) PROVE where'[d] = where[d] /\ mtime'[d] = mtime[d]
    BY <1>3 DEF Stamp, At, In, TypeInv, TypeOK
  <1>4. ASSUME NEW p \in Procs, Move(p) PROVE where'[d] = where[d] /\ mtime'[d] = mtime[d]
    BY <1>4 DEF Move, At, In, TypeInv, TypeOK
  <1>5. ASSUME NEW p \in Procs, Erase(p) \/ Unlink(p)
        PROVE where'[d] \in {where[d], "gone"} /\ mtime'[d] = mtime[d]
    BY <1>5 DEF Erase, Unlink, Destroy, At, In, TypeInv, TypeOK
  <1>6. ASSUME NEW p \in Procs,
               \/ StartCapture(p) \/ List(p) \/ AlreadyGone(p) \/ Probe(p)
               \/ Collide(p) \/ Retry(p) \/ GiveUp(p) \/ Sweep(p) \/ Skip(p)
               \/ Expire(p) \/ UnlinkNothing(p) \/ Scan(p) \/ Publish(p) \/ Crash(p)
        PROVE where'[d] = where[d] /\ mtime'[d] = mtime[d]
    BY <1>6 DEF StartCapture, List, AlreadyGone, Probe, Collide, Retry, GiveUp, Sweep, Skip,
                Expire, UnlinkNothing, Scan, Publish, Crash, dirs
  <1>7. CASE (\E e \in Evidence : Restore(e)) \/ Tick \/ UNCHANGED vars
    BY <1>7 DEF Restore, Tick, vars, dirs
  <1> QED BY <1>2, <1>3, <1>4, <1>5, <1>6, <1>7
          DEF Next, Running, Capturing, Retiring, Purging, Indexing

LEMMA DecidedStep ==
    ASSUME GraceBase, Decided, [Next]_vars, ~Restores
    PROVE Decided'
  <1>1. ASSUME NEW q \in Procs, proc'[q] = proc[q], proc'[q].pc = "unlink"
        PROVE /\ proc'[q].seen \in Evidence
              /\ where'[proc'[q].seen] \in {"trash", "gone"}
              /\ where'[proc'[q].seen] = "trash" => mtime'[proc'[q].seen] <= proc'[q].cutoff
    BY <1>1, TrashRests DEF Decided, GraceBase
  <1>2. ASSUME NEW p \in Procs, Expire(p)
        PROVE /\ proc'[p].seen \in Evidence
              /\ where'[proc'[p].seen] \in {"trash", "gone"}
              /\ where'[proc'[p].seen] = "trash" => mtime'[proc'[p].seen] <= proc'[p].cutoff
    <2>1. PICK d \in Evidence :
              /\ where[d] = "trash" /\ mtime[d] <= proc[p].cutoff
              /\ proc' = [proc EXCEPT ![p].pc = "unlink", ![p].seen = d]
      BY <1>2 DEF Expire, At, In
    <2>2. proc'[p].seen = d /\ proc'[p].cutoff = proc[p].cutoff
      BY <2>1 DEF GraceBase, TypeInv, TypeOK, Process
    <2>3. UNCHANGED <<where, mtime>>
      BY <1>2 DEF Expire, dirs
    <2> QED BY <2>1, <2>2, <2>3
  <1>3. ASSUME NEW p \in Procs, ProcessTakes(p) PROVE Decided'
    <2> SUFFICES ASSUME NEW q \in Procs, proc'[q].pc = "unlink"
                 PROVE /\ proc'[q].seen \in Evidence
                       /\ where'[proc'[q].seen] \in {"trash", "gone"}
                       /\ where'[proc'[q].seen] = "trash"
                            => mtime'[proc'[q].seen] <= proc'[q].cutoff
      BY DEF Decided
    <2>1. CASE q = p
      BY <1>2, <1>3, <2>1, CutoffOrigin DEF GraceBase
    <2>2. CASE q # p
      BY <1>1, <1>3, <2>2, OthersWait DEF GraceBase
    <2> QED BY <2>1, <2>2
  <1>4. CASE (\E d \in Evidence : Restore(d)) \/ Tick \/ UNCHANGED vars
    <2>1. proc' = proc
      BY <1>4 DEF Restore, Tick, vars
    <2> QED BY <1>1, <2>1 DEF Decided
  <1> QED BY <1>3, <1>4 DEF Next, ProcessTakes

LEMMA DecidedIsSound == GraceBase /\ Decided => VerdictSound
  <1> SUFFICES ASSUME GraceBase, Decided, NEW p \in Procs, proc[p].pc = "unlink",
                      where[proc[p].seen] = "trash"
               PROVE clock - retiredAt[proc[p].seen] >= Grace
    BY DEF VerdictSound, Doing
  <1> DEFINE d == proc[p].seen
  <1>1. d \in Evidence /\ mtime[d] <= proc[p].cutoff
    BY DEF Decided
  <1>2. retiredAt[d] <= mtime[d] /\ proc[p].cutoff <= clock - Grace
    BY <1>1 DEF GraceBase, Stamped, CutoffFits
  <1>3. clock \in Int /\ Grace \in Int /\ proc[p].cutoff \in Int
    BY TriesAndGrace, ConstantsAssumption
    DEF ConstantsAssumption, Stamps, GraceBase, TypeInv, TypeOK, Process
  <1>4. mtime[d] \in Int /\ retiredAt[d] \in Int
    BY <1>1, StampsAreTimes DEF GraceBase
  <1> QED BY <1>1, <1>2, <1>3, <1>4

\* However many prunes race and crash, what a purge (session.py _expired) decides
\* to remove has been in retirement for the whole grace window, provided the
\* stamp of _move_into_trash takes and nobody moves sessions back by hand: the
\* stamp comes before the rename, so no purge ever reads the capture date.
THEOREM VerdictsSound ==
    ASSUME ~StampFails, ~Restores
    PROVE Spec => []VerdictSound
  <1>1. Init => GraceBase /\ Decided
    BY GraceBaseInit DEF Init, Decided, Idle
  <1>2. GraceBase /\ Decided /\ [Next]_vars => (GraceBase /\ Decided)'
    BY GraceBaseStep, DecidedStep
  <1> QED BY <1>1, <1>2, DecidedIsSound, PTL DEF Spec

-----------------------------------------------------------------------------
(* The grace window, with one prune at a time.                             *)

\* Only one process retires and purges: auto-prune is off.
PrunesAlone == AutoKeep = 0 /\ \A p, q \in Pruners : p = q

\* Captures never come to prune.
CapturesOnlyCapture ==
    \A p \in Captures : proc[p].pc \in {"idle", "claim", "collect", "scan", "publish"}

\* Whatever lies at the path a purge is about to remove has expired.
PathExpired ==
    \A p \in Procs : proc[p].pc = "unlink" =>
        \A d \in At("trash", Current(p)) : mtime[d] <= proc[p].cutoff

GraceInv == GraceBase /\ DistinctPaths /\ CapturesOnlyCapture /\ PathExpired

LEMMA CaptureStep ==
    ASSUME TypeInv, CapturesOnlyCapture, PrunesAlone, NEW p \in Captures, ProcessTakes(p)
    PROVE /\ StartCapture(p) \/ Claim(p) \/ Finalize(p) \/ Scan(p) \/ Publish(p) \/ Crash(p)
          /\ proc'[p].pc \in {"idle", "claim", "collect", "scan", "publish"}
  <1>1. p \in Procs /\ p \notin Pruners /\ proc[p] \in Process /\ proc \in [Procs -> Process]
    BY ConstantsAssumption DEF ConstantsAssumption, Procs, TypeInv, TypeOK
  <1>2. StartCapture(p) \/ Claim(p) \/ Finalize(p) \/ Scan(p) \/ Publish(p) \/ Crash(p)
    BY <1>1 DEF ProcessTakes, CapturesOnlyCapture, Running, Capturing, Retiring, Purging,
                Indexing, List, Stamp, AlreadyGone, Probe, Move, Collide, Retry, GiveUp, Erase,
                Sweep, Skip, Expire, Unlink, UnlinkNothing, Doing
  <1>3. StartCapture(p) => proc'[p].pc = "claim"
    BY <1>1 DEF StartCapture, Process
  <1>4. Claim(p) => proc'[p].pc = "collect"
    BY <1>1 DEF Claim, Process
  <1>5. Finalize(p) => proc'[p].pc = "scan"
    BY <1>1 DEF Finalize, Process
  <1>6. Scan(p) => proc'[p].pc = "publish"
    BY <1>1 DEF Scan, Process
  <1>7. Publish(p) \/ Crash(p) => proc'[p].pc = "idle"
    BY <1>1 DEF Publish, Crash, PrunesAlone, Idle
  <1> QED BY <1>2, <1>3, <1>4, <1>5, <1>6, <1>7

LEMMA CapturesOnlyCaptureStep ==
    ASSUME TypeInv, CapturesOnlyCapture, PrunesAlone, [Next]_vars
    PROVE CapturesOnlyCapture'
  <1>1. ASSUME NEW p \in Procs, ProcessTakes(p) PROVE CapturesOnlyCapture'
    BY <1>1, CaptureStep, OthersWait DEF CapturesOnlyCapture, Procs
  <1>2. CASE (\E d \in Evidence : Restore(d)) \/ Tick \/ UNCHANGED vars
    BY <1>2 DEF Restore, Tick, vars, CapturesOnlyCapture
  <1> QED BY <1>1, <1>2 DEF Next, ProcessTakes

\* A capture's step leaves the trash as it was.
LEMMA CaptureLeavesTrash ==
    ASSUME TypeInv, CapturesOnlyCapture, PrunesAlone, NEW p \in Captures, ProcessTakes(p),
           NEW n, NEW d \in At("trash", n)'
    PROVE d \in At("trash", n) /\ mtime'[d] = mtime[d]
  <1>1. ASSUME NEW e \in Evidence, NEW m, Make(e, m)
        PROVE d \in At("trash", n) /\ mtime'[d] = mtime[d]
    BY <1>1 DEF Make, At, In, TypeInv, TypeOK
  <1>2. CASE Claim(p)
    BY <1>1, <1>2, UnusedEvidence DEF Claim
  <1>3. CASE Finalize(p)
    <2>1. CASE \E e \in Unused : Make(e, proc[p].own)
      BY <1>1, <2>1, UnusedEvidence
    <2>2. CASE \E e \in At("store", proc[p].own) :
                  mtime' = [mtime EXCEPT ![e] = clock] /\ UNCHANGED <<where, name>>
      BY <2>2 DEF At, In, TypeInv, TypeOK
    <2> QED BY <1>3, <2>1, <2>2 DEF Finalize
  <1>4. CASE StartCapture(p) \/ Scan(p) \/ Publish(p) \/ Crash(p)
    BY <1>4 DEF StartCapture, Scan, Publish, Crash, dirs, At, In
  <1> QED BY <1>2, <1>3, <1>4, CaptureStep

LEMMA PathExpiredStep ==
    ASSUME GraceInv, PrunesAlone, [Next]_vars
    PROVE PathExpired'
  <1>1. TypeInv /\ CapturesOnlyCapture
    BY DEF GraceInv, GraceBase
  <1>2. ASSUME NEW p \in Procs, Expire(p), NEW d \in At("trash", Current(p))'
        PROVE mtime'[d] <= proc'[p].cutoff
    <2>1. PICK e \in At("trash", Current(p)) :
              /\ mtime[e] <= proc[p].cutoff
              /\ proc' = [proc EXCEPT ![p].pc = "unlink", ![p].seen = e]
      BY <1>2 DEF Expire
    <2>2. proc'[p].todo = proc[p].todo /\ proc'[p].cutoff = proc[p].cutoff
      BY <1>1, <2>1 DEF TypeInv, TypeOK, Process
    <2>3. UNCHANGED <<where, name, mtime>>
      BY <1>2 DEF Expire, dirs
    <2>4. d \in At("trash", Current(p))
      BY <1>2, <2>2, <2>3 DEF At, In, Current
    <2>5. d = e
      BY <2>1, <2>4 DEF GraceInv, DistinctPaths, At, In
    <2> QED BY <2>1, <2>2, <2>3, <2>5
  <1>3. ASSUME NEW p \in Procs, ProcessTakes(p), NEW q \in Procs, q # p, proc'[q].pc = "unlink",
               NEW d \in At("trash", Current(q))'
        PROVE mtime'[d] <= proc'[q].cutoff
    <2>1. proc'[q] = proc[q]
      BY <1>1, <1>3, OthersWait
    <2>2. p \in Captures
      BY <1>1, <1>3, <2>1 DEF Procs, PrunesAlone, CapturesOnlyCapture
    <2>3. d \in At("trash", Current(q)) /\ mtime'[d] = mtime[d]
      BY <1>1, <1>3, <2>1, <2>2, CaptureLeavesTrash DEF Current, At, In
    <2> QED BY <1>3, <2>1, <2>3 DEF GraceInv, PathExpired
  <1>4. ASSUME NEW p \in Procs, ProcessTakes(p) PROVE PathExpired'
    <2> SUFFICES ASSUME NEW q \in Procs, proc'[q].pc = "unlink",
                        NEW d \in At("trash", Current(q))'
                 PROVE mtime'[d] <= proc'[q].cutoff
      BY DEF PathExpired
    <2>1. CASE q = p
      BY <1>1, <1>2, <1>4, <2>1, CutoffOrigin
    <2>2. CASE q # p
      BY <1>3, <1>4, <2>2
    <2> QED BY <2>1, <2>2
  <1>5. ASSUME NEW e \in Evidence, Restore(e) PROVE PathExpired'
    BY <1>1, <1>5 DEF Restore, TypeInv, TypeOK, GraceInv, PathExpired, At, In, Current
  <1>6. CASE Tick \/ UNCHANGED vars
    BY <1>6 DEF Tick, vars, dirs, GraceInv, PathExpired, At, In, Current
  <1> QED BY <1>4, <1>5, <1>6 DEF Next, ProcessTakes

\* Only a purge takes a directory from the trash for good.
LEMMA DestroyedByPurge ==
    ASSUME GraceInv, [Next]_vars, NEW d \in Evidence, where[d] = "trash", where'[d] = "gone"
    PROVE clock - retiredAt[d] >= Grace
  <1>1. TypeInv /\ where[d] # where'[d]
    BY DEF GraceInv, GraceBase
  <1>2. PICK p \in Procs : Unlink(p)
    <2>1. \A e \in Evidence : \A n : Make(e, n) => where'[d] = where[d] \/ where'[d] = "store"
      BY <1>1 DEF Make, TypeInv, TypeOK
    <2>2. \A p \in Procs : Claim(p) \/ Finalize(p) => where'[d] # "gone"
      BY <2>1, UnusedEvidence DEF Claim, Finalize
    <2>3. \A p \in Procs : Move(p) => where'[d] # "gone"
      BY <1>1 DEF Move, At, In, TypeInv, TypeOK
    <2>4. \A p \in Procs : ~Erase(p)
      BY <1>1 DEF Erase, Destroy, At, In, TypeInv, TypeOK
    <2>5. \A e \in Evidence : ~Restore(e)
      BY <1>1 DEF Restore, TypeInv, TypeOK
    <2>6. \A p \in Procs :
             ~ \/ StartCapture(p) \/ List(p) \/ Stamp(p) \/ AlreadyGone(p) \/ Probe(p)
               \/ Collide(p) \/ Retry(p) \/ GiveUp(p) \/ Sweep(p) \/ Skip(p)
               \/ Expire(p) \/ UnlinkNothing(p) \/ Scan(p) \/ Publish(p) \/ Crash(p)
      BY <1>1 DEF StartCapture, List, Stamp, AlreadyGone, Probe, Collide, Retry, GiveUp, Sweep,
                  Skip, Expire, UnlinkNothing, Scan, Publish, Crash, dirs
    <2>7. ~Tick /\ ~UNCHANGED vars
      BY <1>1 DEF Tick, vars, dirs
    <2> QED BY <2>2, <2>3, <2>4, <2>5, <2>6, <2>7
            DEF Next, Running, Capturing, Retiring, Purging, Indexing
  <1>3. d \in At("trash", Current(p)) /\ proc[p].pc = "unlink"
    BY <1>1, <1>2 DEF Unlink, Doing, Destroy, At, In, TypeInv, TypeOK
  <1>4. mtime[d] <= proc[p].cutoff
    BY <1>3 DEF GraceInv, PathExpired
  <1>5. retiredAt[d] <= mtime[d] /\ proc[p].cutoff <= clock - Grace
    BY <1>3 DEF GraceInv, GraceBase, Stamped, CutoffFits
  <1>6. clock \in Int /\ Grace \in Int /\ proc[p].cutoff \in Int
    BY <1>1, TriesAndGrace, ConstantsAssumption
    DEF ConstantsAssumption, Stamps, TypeInv, TypeOK, Process
  <1>7. mtime[d] \in Int /\ retiredAt[d] \in Int
    BY <1>1, StampsAreTimes
  <1> QED BY <1>4, <1>5, <1>6, <1>7

LEMMA GraceInvInit == Init => GraceInv
  <1>1. Init => DistinctPaths
    BY ConstantsAssumption DEF ConstantsAssumption, Init, DistinctPaths
  <1>2. Init => CapturesOnlyCapture /\ PathExpired
    BY DEF Init, CapturesOnlyCapture, PathExpired, Idle, Procs
  <1> QED BY <1>1, <1>2, GraceBaseInit DEF GraceInv

LEMMA GraceInvStep ==
    ASSUME PrunesAlone, ~StampFails, GraceInv, [Next]_vars
    PROVE GraceInv'
  <1>1. GraceBase'
    BY GraceBaseStep DEF GraceInv
  <1>2. DistinctPaths'
    BY DistinctStep DEF GraceInv, GraceBase
  <1>3. CapturesOnlyCapture'
    BY CapturesOnlyCaptureStep DEF GraceInv, GraceBase
  <1>4. PathExpired'
    BY PathExpiredStep
  <1> QED BY <1>1, <1>2, <1>3, <1>4 DEF GraceInv

\* While one prune runs at a time and its stamps take, nothing a prune retired is
\* destroyed within the grace window, however captures, crashes, failing renames
\* and restores by hand interleave with it (session.py remove_sessions: "only
\* purge_expired_trash unlinks them once the grace window passes").
THEOREM GraceKept ==
    ASSUME PrunesAlone, ~StampFails
    PROVE Spec => GraceHonoured
  <1>1. Init => GraceInv
    BY GraceInvInit
  <1>2. GraceInv /\ [Next]_vars => GraceInv'
    BY GraceInvStep
  <1>3. GraceInv /\ [Next]_vars
        => [\A d \in Evidence :
              where[d] = "trash" /\ where'[d] = "gone" => clock - retiredAt[d] >= Grace]_vars
    BY DestroyedByPurge
  <1> QED BY <1>1, <1>2, <1>3, PTL DEF Spec, GraceHonoured

-----------------------------------------------------------------------------
(* Retention, with one prune at a time and no size budget.                 *)

Retires == {"stamp", "probe", "move", "collided", "erase"}

\* The sessions a prune has still to visit are all surplus; without a grace
\* window, and only then, it deletes them where they are.
Floor ==
    \A p \in Pruners :
        proc[p].pc \in Retires => Cardinality(In("store")) >= Keep + Len(proc[p].todo)
Plain == \A p \in Procs : proc[p].pc = "erase" => Grace = 0

FloorInv == TypeInv /\ CapturesOnlyCapture /\ Floor /\ Plain

LEMMA KeepsSome == Keep \in Nat \ {0} /\ NoLimit \notin Nat
  BY ConstantsAssumption DEF ConstantsAssumption

LEMMA StoreCounted == Cardinality(In("store")) \in Nat /\ IsFiniteSet(In("store"))
  BY FiniteEvidence DEF In

LEMMA StoreCountedNext == Cardinality(In("store")') \in Nat /\ IsFiniteSet(In("store")')
  BY FiniteEvidence DEF In

LEMMA StoreGrows ==
    ASSUME In("store") \subseteq In("store")'
    PROVE Cardinality(In("store")) <= Cardinality(In("store")')
  BY StoreCountedNext, FS_Subset

LEMMA MakeGrows ==
    ASSUME TypeInv, NEW d \in Evidence, NEW n, Make(d, n)
    PROVE In("store") \subseteq In("store")'
  BY DEF Make, In, TypeInv, TypeOK

LEMMA OneLess ==
    ASSUME NEW d \in In("store"), In("store")' = In("store") \ {d}
    PROVE Cardinality(In("store")') = Cardinality(In("store")) - 1
  BY StoreCounted, FS_RemoveElement

\* What a prune sets out to retire is what is beyond Keep.
LEMMA ListedSurplus ==
    ASSUME NEW s \in Listings(In("store")), NEW left \in Survivors(s, Keep, NoLimit),
           Doomed(s, Keep, left) # <<>>
    PROVE Cardinality(In("store")) = Keep + Len(Doomed(s, Keep, left))
  <1> DEFINE n == Cardinality(In("store"))
             doomed == Doomed(s, Keep, left)
  <1>1. n \in Nat /\ Keep \in Nat
    BY StoreCounted, KeepsSome
  <1>2. s \in [1 .. n -> In("store")]
    BY DEF Listings
  <1>3. Len(s) = n
    <2> HIDE DEF n
    <2> QED BY <1>1, <1>2, IsASeq
  <1>4. left = Least(Keep, n)
    BY <1>3 DEF Survivors
  <1>5. left \in 0 .. n /\ (left = n \/ left = Keep)
    BY <1>1, <1>4 DEF Least
  <1> HIDE DEF n
  <1>6. \E f : doomed = [i \in 1 .. n - left |-> f[i]]
    <2> DEFINE upto == Least(Keep, Len(s))
               g == [i \in 1 .. n - left |->
                        name[s[IF upto + i <= Len(s) THEN upto + i ELSE Len(s) - i + 1]]]
    <2>1. doomed = g
      BY <1>3 DEF Doomed
    <2>2. g = [i \in 1 .. n - left |-> g[i]]
      OBVIOUS
    <2> HIDE DEF g, doomed
    <2> QED BY <2>1, <2>2
  <1>7. DOMAIN doomed = 1 .. n - left /\ n - left \in Nat
    BY <1>1, <1>5, <1>6
  <1>8. doomed \in Seq({doomed[i] : i \in 1 .. n - left})
    <2>1. doomed \in [1 .. n - left -> {doomed[i] : i \in 1 .. n - left}]
      BY <1>6
    <2> HIDE DEF doomed
    <2> QED BY <1>7, <2>1, IsASeq
  <1>9. Len(doomed) = n - left
    <2> HIDE DEF doomed
    <2> QED BY <1>7, <1>8, LenProperties
  <1>10. n - left # 0
    <2> HIDE DEF doomed
    <2> SUFFICES ASSUME n - left = 0 PROVE FALSE
      OBVIOUS
    <2> QED BY <1>8, <1>9, EmptySeq DEF doomed
  <1> QED BY <1>1, <1>5, <1>9, <1>10 DEF n

\* A prune that goes on retiring visits fewer, and has taken out at most one.
LEMMA VisitsFewer ==
    ASSUME TypeInv, NEW p \in Procs, NEW ok, NextDoomed(p, ok), proc[p].todo # <<>>,
           proc'[p].pc \in Retires
    PROVE /\ Len(proc'[p].todo) = Len(proc[p].todo) - 1
          /\ proc'[p].pc = FirstDoomed
  <1>1. proc[p] \in Process /\ proc \in [Procs -> Process] /\ proc[p].todo \in Seq(Names)
    BY DEF TypeInv, TypeOK, Process
  <1>2. /\ proc'[p].pc = IF Len(proc[p].todo) = 1 THEN "sweep" ELSE FirstDoomed
        /\ proc'[p].todo = Tail(proc[p].todo)
    BY <1>1 DEF NextDoomed, Process
  <1>3. Len(Tail(proc[p].todo)) = Len(proc[p].todo) - 1
    BY <1>1, HeadTailProperties
  <1> QED BY <1>2, <1>3 DEF Retires

\* Taking one session out of the store.
LEMMA MovedOut ==
    ASSUME TypeInv, NEW p \in Procs, Move(p) \/ Erase(p)
    PROVE \E d \in In("store") : In("store")' = In("store") \ {d}
  <1>1. CASE Move(p)
    <2>1. PICK d \in At("store", Current(p)) : where' = [where EXCEPT ![d] = "trash"]
      BY <1>1 DEF Move
    <2> QED BY <2>1 DEF At, In, TypeInv, TypeOK
  <1>2. CASE Erase(p)
    <2>1. PICK d \in At("store", Current(p)) : where' = [where EXCEPT ![d] = "gone"]
      BY <1>2 DEF Erase, Destroy
    <2> QED BY <2>1 DEF At, In, TypeInv, TypeOK
  <1> QED BY <1>1, <1>2

\* What a prune's step does while it retires, with the store as it was.
LEMMA RetiresOn ==
    ASSUME TypeInv, NEW p \in Procs, Stamp(p) \/ Probe(p) \/ Collide(p) \/ Retry(p)
    PROVE /\ proc[p].pc \in Retires /\ proc'[p].todo = proc[p].todo /\ UNCHANGED where
          /\ proc'[p].pc # "erase"
  <1>1. proc[p] \in Process /\ proc \in [Procs -> Process]
    BY DEF TypeInv, TypeOK
  <1>2. CASE Stamp(p)
    <2>1. proc' = [proc EXCEPT ![p].pc = "probe"] /\ UNCHANGED where /\ proc[p].pc = "stamp"
      BY <1>2 DEF Stamp, Doing
    <2> QED BY <1>1, <2>1 DEF Process, Retires
  <1>3. CASE Probe(p)
    <2>1. PICK n : proc' = [proc EXCEPT ![p].pc = "move", ![p].target = n, ![p].tries = @ + 1]
      BY <1>3 DEF Probe
    <2>2. UNCHANGED where /\ proc[p].pc = "probe"
      BY <1>3 DEF Probe, Doing, dirs
    <2> QED BY <1>1, <2>1, <2>2 DEF Process, Retires
  <1>4. CASE Collide(p)
    <2>1. proc' = [proc EXCEPT ![p].pc = "collided"] /\ UNCHANGED where /\ proc[p].pc = "move"
      BY <1>4 DEF Collide, Doing, dirs
    <2> QED BY <1>1, <2>1 DEF Process, Retires
  <1>5. CASE Retry(p)
    <2>1. proc' = [proc EXCEPT ![p].pc = "probe"] /\ UNCHANGED where /\ proc[p].pc = "collided"
      BY <1>5 DEF Retry, Doing, dirs
    <2> QED BY <1>1, <2>1 DEF Process, Retires
  <1> QED BY <1>2, <1>3, <1>4, <1>5

\* A process that retires next, or has just done so, was retiring or listed.
LEMMA NotRetiring ==
    ASSUME TypeInv, NEW p \in Procs,
           \/ StartCapture(p) \/ Claim(p) \/ Finalize(p) \/ Purging(p) \/ Indexing(p) \/ Crash(p)
    PROVE proc'[p].pc \notin Retires \cup {"sweep"}
  <1>1. proc[p] \in Process /\ proc \in [Procs -> Process]
    BY DEF TypeInv, TypeOK
  <1>2. AfterPurge(p).pc \in {"scan", "idle"} /\ Idle.pc = "idle"
    BY DEF AfterPurge, Idle
  <1>3. StartCapture(p) => proc'[p].pc = "claim"
    BY <1>1 DEF StartCapture, Process
  <1>4. Claim(p) => proc'[p].pc = "collect"
    <2> SUFFICES ASSUME Claim(p) PROVE proc'[p].pc = "collect"
      OBVIOUS
    <2>1. PICK d, n : proc' = [proc EXCEPT ![p].pc = "collect", ![p].own = n, ![p].made = d,
                                           ![p].base = NoName]
      BY DEF Claim
    <2> QED BY <1>1, <2>1 DEF Process
  <1>5. Finalize(p) => proc'[p].pc = "scan"
    BY <1>1 DEF Finalize, Process
  <1>6. Scan(p) => proc'[p].pc = "publish"
    BY <1>1 DEF Scan, Process
  <1>7. Publish(p) \/ Crash(p) => proc'[p].pc \in {"list", "idle"}
    <2>1. [Idle EXCEPT !.pc = "list", !.made = proc[p].made].pc = "list"
      BY DEF Idle
    <2> QED BY <1>1, <1>2, <2>1 DEF Publish, Crash
  <1>8. Expire(p) => proc'[p].pc = "unlink"
    BY <1>1 DEF Expire, Process
  <1>9. Sweep(p) => proc'[p].pc \in {"scan", "idle", "stat"}
    <2> SUFFICES ASSUME Sweep(p) PROVE proc'[p].pc \in {"scan", "idle", "stat"}
      OBVIOUS
    <2>1. PICK s \in TrashListings :
            proc' = [proc EXCEPT ![p] =
                        IF s = <<>> THEN AfterPurge(p)
                        ELSE [proc[p] EXCEPT !.pc = "stat", !.todo = s, !.cutoff = Cutoff]]
      BY DEF Sweep
    <2> QED BY <1>1, <1>2, <2>1 DEF Process
  <1>10. Skip(p) \/ Unlink(p) \/ UnlinkNothing(p) => proc'[p].pc \in {"scan", "idle", "stat"}
    BY <1>1, <1>2 DEF Skip, Unlink, UnlinkNothing, NextEntry, Process
  <1> QED BY <1>3, <1>4, <1>5, <1>6, <1>7, <1>8, <1>9, <1>10 DEF Purging, Indexing, Retires

LEMMA PruneFloor ==
    ASSUME TypeInv, Floor, Plain, MaxBytes = NoLimit, NEW p \in Pruners, ProcessTakes(p),
           proc'[p].pc \in Retires
    PROVE /\ Cardinality(In("store")') >= Keep + Len(proc'[p].todo)
          /\ proc'[p].pc = "erase" => Grace = 0
  <1>1. p \in Procs /\ proc[p] \in Process /\ proc \in [Procs -> Process] /\ Consistent(proc[p])
        /\ p \notin Captures
    BY ConstantsAssumption DEF ConstantsAssumption, Procs, TypeInv, TypeOK
  <1>2. proc[p].todo \in Seq(Names) /\ Len(proc[p].todo) \in Nat
    BY <1>1 DEF Process
  <1>k. Keep \in Nat /\ Cardinality(In("store")) \in Nat
    BY KeepsSome, StoreCounted
  <1>f. FirstDoomed = "erase" => Grace = 0
    BY DEF FirstDoomed
  <1>3. CASE List(p)
    <2>0. KeepOf(p) = Keep /\ LimitOf(p) = NoLimit
      BY DEF KeepOf, LimitOf
    <2>l. PICK s \in Listings(In("store")) : \E left \in Survivors(s, KeepOf(p), LimitOf(p)) :
            LET doomed == Doomed(s, KeepOf(p), left) IN
            \/ proc' = [proc EXCEPT ![p].pc = AfterListing(doomed),
                                    ![p].todo = doomed,
                                    ![p].removed = p \in Pruners /\ doomed # <<>>]
            \/ /\ MoveFails /\ doomed # <<>> /\ Grace > 0
               /\ proc' = [proc EXCEPT ![p].pc = "sweep", ![p].removed = p \in Pruners]
      BY <1>3 DEF List
    <2>1. \E left \in Survivors(s, Keep, NoLimit) :
            \/ /\ proc' = [proc EXCEPT ![p].pc = AfterListing(Doomed(s, Keep, left)),
                                       ![p].todo = Doomed(s, Keep, left),
                                       ![p].removed = (p \in Pruners /\ Doomed(s, Keep, left) # <<>>)]
            \/ proc' = [proc EXCEPT ![p].pc = "sweep", ![p].removed = (p \in Pruners)]
      BY <2>0, <2>l
    <2>2. PICK left \in Survivors(s, Keep, NoLimit) :
            \/ /\ proc' = [proc EXCEPT ![p].pc = AfterListing(Doomed(s, Keep, left)),
                                       ![p].todo = Doomed(s, Keep, left),
                                       ![p].removed = (p \in Pruners /\ Doomed(s, Keep, left) # <<>>)]
            \/ proc' = [proc EXCEPT ![p].pc = "sweep", ![p].removed = (p \in Pruners)]
      BY <2>1
    <2>d. PICK doomed, b, c :
            /\ doomed = Doomed(s, Keep, left)
            /\ \/ proc' = [proc EXCEPT ![p].pc = AfterListing(doomed), ![p].todo = doomed, ![p].removed = b]
               \/ proc' = [proc EXCEPT ![p].pc = "sweep", ![p].removed = c]
      BY <2>2, Zenon
    <2>3. proc'[p].pc = AfterListing(doomed) /\ proc'[p].todo = doomed
      <3>1. CASE proc' = [proc EXCEPT ![p].pc = "sweep", ![p].removed = c]
        <4>1. proc'[p].pc = "sweep"
          BY <1>1, <3>1 DEF Process
        <4> QED BY <4>1 DEF Retires
      <3>2. CASE proc' = [proc EXCEPT ![p].pc = AfterListing(doomed), ![p].todo = doomed, ![p].removed = b]
        <4> DEFINE l == AfterListing(doomed)
        <4>1. proc' = [proc EXCEPT ![p].pc = l, ![p].todo = doomed, ![p].removed = b]
          BY <3>2
        <4> HIDE DEF l
        <4>2. proc'[p].pc = l /\ proc'[p].todo = doomed
          BY <1>1, <4>1 DEF Process
        <4> QED BY <4>2 DEF l
      <3> QED BY <2>d, <3>1, <3>2
    <2>4. doomed # <<>> /\ proc'[p].pc = FirstDoomed
      BY <2>3 DEF AfterListing, Retires
    <2>5. Cardinality(In("store")) = Keep + Len(doomed)
      BY <2>d, <2>4, ListedSurplus
    <2>6. In("store")' = In("store")
      BY <1>3 DEF List, dirs, In
    <2>7. Keep + Len(doomed) \in Nat
      BY <2>5, <1>k
    <2> QED BY <1>f, <2>3, <2>4, <2>5, <2>6, <2>7
  <1>4. CASE Stamp(p) \/ Probe(p) \/ Collide(p) \/ Retry(p)
    <2>1. In("store")' = In("store")
      BY <1>1, <1>4, RetiresOn DEF In
    <2> QED BY <1>1, <1>4, <2>1, RetiresOn DEF Floor
  <1>5. CASE AlreadyGone(p) \/ GiveUp(p)
    <2>1. PICK ok : NextDoomed(p, ok)
      BY <1>5 DEF AlreadyGone, GiveUp
    <2>2. proc[p].pc \in Retires /\ proc[p].todo # <<>> /\ In("store")' = In("store")
      BY <1>1, <1>5 DEF AlreadyGone, GiveUp, Doing, Retires, Consistent, dirs, In
    <2>3. Len(proc'[p].todo) = Len(proc[p].todo) - 1 /\ proc'[p].pc = FirstDoomed
      BY <1>1, <2>1, <2>2, VisitsFewer
    <2> QED BY <1>2, <1>f, <1>k, <2>2, <2>3 DEF Floor
  <1>6. CASE Move(p) \/ Erase(p)
    <2>1. NextDoomed(p, TRUE)
      BY <1>6 DEF Move, Erase
    <2>2. proc[p].pc \in Retires /\ proc[p].todo # <<>>
      BY <1>1, <1>6 DEF Move, Erase, Doing, Retires, Consistent
    <2>3. Len(proc'[p].todo) = Len(proc[p].todo) - 1 /\ proc'[p].pc = FirstDoomed
      BY <1>1, <2>1, <2>2, VisitsFewer
    <2>4. Cardinality(In("store")') = Cardinality(In("store")) - 1
      BY <1>1, <1>6, MovedOut, OneLess
    <2> QED BY <1>2, <1>f, <1>k, <2>2, <2>3, <2>4 DEF Floor
  <1>7. ~ \/ StartCapture(p) \/ Claim(p) \/ Finalize(p) \/ Purging(p) \/ Indexing(p) \/ Crash(p)
    BY <1>1, NotRetiring
  <1> QED BY <1>3, <1>4, <1>5, <1>6, <1>7 DEF ProcessTakes, Running, Capturing, Retiring

LEMMA CaptureGrows ==
    ASSUME TypeInv, CapturesOnlyCapture, PrunesAlone, NEW p \in Captures, ProcessTakes(p)
    PROVE In("store") \subseteq In("store")'
  <1>1. CASE Claim(p)
    BY <1>1, UnusedEvidence, MakeGrows DEF Claim
  <1>2. CASE Finalize(p)
    <2>1. CASE \E e \in Unused : Make(e, proc[p].own)
      BY <2>1, UnusedEvidence, MakeGrows
    <2>2. CASE UNCHANGED where
      BY <2>2 DEF In
    <2> QED BY <1>2, <2>1, <2>2 DEF Finalize
  <1>3. CASE StartCapture(p) \/ Scan(p) \/ Publish(p) \/ Crash(p)
    BY <1>3 DEF StartCapture, Scan, Publish, Crash, dirs, In
  <1> QED BY <1>1, <1>2, <1>3, CaptureStep

LEMMA FloorStep ==
    ASSUME FloorInv, PrunesAlone, MaxBytes = NoLimit, [Next]_vars
    PROVE FloorInv'
  <1>1. TypeInv /\ CapturesOnlyCapture /\ Floor /\ Plain
    BY DEF FloorInv
  <1>2. TypeInv' /\ CapturesOnlyCapture'
    BY <1>1, TypeStep, CapturesOnlyCaptureStep
  <1>k. /\ Keep \in Nat /\ Cardinality(In("store")) \in Nat /\ Cardinality(In("store")') \in Nat
        /\ \A q \in Procs : Len(proc[q].todo) \in Nat
    BY <1>1, KeepsSome, StoreCounted, StoreCountedNext DEF TypeInv, TypeOK, Process
  <1>p. \A q \in Pruners : q \in Procs
    BY DEF Procs
  <1>3. ASSUME NEW p \in Pruners, ProcessTakes(p) PROVE Floor' /\ Plain'
    <2>1. Floor'
      BY <1>1, <1>3, PruneFloor DEF Floor, PrunesAlone
    <2>2. Plain'
      BY <1>1, <1>3, <1>p, PruneFloor, OthersWait DEF Plain, Retires
    <2> QED BY <2>1, <2>2
  <1>4. ASSUME NEW p \in Captures, ProcessTakes(p) PROVE Floor' /\ Plain'
    <2>1. \A q \in Pruners : q # p /\ proc'[q] = proc[q]
      BY <1>1, <1>4, <1>p, OthersWait, ConstantsAssumption DEF ConstantsAssumption, Procs
    <2>2. Cardinality(In("store")) <= Cardinality(In("store")')
      BY <1>1, <1>4, CaptureGrows, StoreGrows
    <2>3. Floor'
      BY <1>1, <1>k, <1>p, <2>1, <2>2 DEF Floor
    <2>4. proc'[p].pc # "erase"
      BY <1>1, <1>4, CaptureStep
    <2>5. Plain'
      BY <1>1, <1>4, <2>4, OthersWait DEF Plain, Procs
    <2> QED BY <2>3, <2>5
  <1>5. ASSUME (\E d \in Evidence : Restore(d)) \/ Tick \/ UNCHANGED vars PROVE Floor' /\ Plain'
    <2>1. UNCHANGED proc
      BY <1>5 DEF Restore, Tick, vars
    <2>2. In("store") \subseteq In("store")'
      <3>1. ASSUME NEW d \in Evidence, Restore(d) PROVE In("store") \subseteq In("store")'
        BY <1>1, <3>1 DEF Restore, In, TypeInv, TypeOK
      <3>2. CASE Tick \/ UNCHANGED vars
        BY <3>2 DEF Tick, vars, dirs, In
      <3> QED BY <1>5, <3>1, <3>2
    <2>3. Cardinality(In("store")) <= Cardinality(In("store")')
      BY <2>2, StoreGrows
    <2> QED BY <1>1, <1>k, <1>p, <2>1, <2>3 DEF Floor, Plain
  <1>6. ASSUME NEW p \in Procs, ProcessTakes(p) PROVE Floor' /\ Plain'
    <2>1. p \in Pruners \/ p \in Captures
      BY DEF Procs
    <2> QED BY <1>3, <1>4, <1>6, <2>1
  <1>7. Floor' /\ Plain'
    BY <1>5, <1>6 DEF Next, ProcessTakes
  <1> QED BY <1>2, <1>7 DEF FloorInv

\* Only a process that retires takes a session out of the store.
LEMMA Takers ==
    ASSUME TypeInv, [Next]_vars, NEW d \in Evidence, where[d] = "store", where'[d] # "store"
    PROVE \E p \in Procs : Move(p) \/ Erase(p)
  <1>1. \A e \in Evidence : \A n : Make(e, n) => where'[d] = where[d] \/ where'[d] = "store"
    BY DEF Make, TypeInv, TypeOK
  <1>2. \A p \in Procs : ~Claim(p) /\ ~Finalize(p)
    BY <1>1, UnusedEvidence DEF Claim, Finalize
  <1>3. \A p \in Procs : ~Unlink(p)
    BY DEF Unlink, Destroy, At, In, TypeInv, TypeOK
  <1>4. \A e \in Evidence : ~Restore(e)
    BY DEF Restore, TypeInv, TypeOK
  <1>5. \A p \in Procs :
           ~ \/ StartCapture(p) \/ List(p) \/ Stamp(p) \/ AlreadyGone(p) \/ Probe(p)
             \/ Collide(p) \/ Retry(p) \/ GiveUp(p) \/ Sweep(p) \/ Skip(p)
             \/ Expire(p) \/ UnlinkNothing(p) \/ Scan(p) \/ Publish(p) \/ Crash(p)
    BY DEF StartCapture, List, Stamp, AlreadyGone, Probe, Collide, Retry, GiveUp, Sweep,
           Skip, Expire, UnlinkNothing, Scan, Publish, Crash, dirs
  <1>6. ~Tick /\ ~UNCHANGED vars
    BY DEF Tick, vars, dirs
  <1> QED BY <1>2, <1>3, <1>4, <1>5, <1>6
          DEF Next, Running, Capturing, Retiring, Purging, Indexing

\* With PrunesAlone that is a prune.
LEMMA StoreTakers ==
    ASSUME TypeInv, CapturesOnlyCapture, PrunesAlone, [Next]_vars,
           NEW d \in Evidence, where[d] = "store", where'[d] # "store"
    PROVE \E p \in Pruners : Move(p) \/ Erase(p)
  <1>1. PICK p \in Procs : Move(p) \/ Erase(p)
    BY Takers
  <1>2. p \notin Captures
    BY <1>1 DEF Move, Erase, Doing, CapturesOnlyCapture
  <1> QED BY <1>1, <1>2 DEF Procs

\* What it takes out is surplus.
LEMMA TakesSurplus ==
    ASSUME FloorInv, NEW p \in Pruners, Move(p) \/ Erase(p)
    PROVE Cardinality(In("store")) > Keep /\ Cardinality(In("store")') >= Keep
  <1>1. TypeInv /\ Floor /\ p \in Procs
    BY DEF FloorInv, Procs
  <1>2. proc[p].pc \in Retires
    BY DEF Move, Erase, Doing, Retires
  <1>3. Len(proc[p].todo) \in Nat \ {0}
    <2>1. proc[p].todo \in Seq(Names) /\ Consistent(proc[p])
      BY <1>1 DEF TypeInv, TypeOK, Process
    <2>2. proc[p].todo # <<>>
      BY <2>1 DEF Move, Erase, Doing, Consistent
    <2> QED BY <2>1, <2>2, EmptySeq, LenProperties
  <1>4. Cardinality(In("store")) >= Keep + Len(proc[p].todo)
    BY <1>1, <1>2 DEF Floor
  <1>5. Cardinality(In("store")') = Cardinality(In("store")) - 1
    BY <1>1, MovedOut, OneLess
  <1> QED BY <1>3, <1>4, <1>5, KeepsSome, StoreCounted

LEMMA FloorInit == Init => FloorInv
  <1>1. Init => CapturesOnlyCapture /\ Floor /\ Plain
    BY DEF Init, CapturesOnlyCapture, Floor, Plain, Retires, Idle, Procs
  <1> QED BY <1>1, TypeInit DEF FloorInv

\* While one prune runs at a time, retention takes only the surplus: whatever
\* captures, failing renames, crashes and restores by hand do meanwhile, Keep
\* sessions stay (session.py sessions_beyond_budget: "everything past the newest
\* ``keep``").
THEOREM RetentionKept ==
    ASSUME PrunesAlone, MaxBytes = NoLimit
    PROVE Spec => RetentionFloor
  <1>1. FloorInv /\ [Next]_vars => FloorInv'
    BY FloorStep
  <1>2. FloorInv /\ [Next]_vars
        => [\A d \in Evidence :
              where[d] = "store" /\ where'[d] # "store"
              => Cardinality(In("store")') >= Keep]_vars
    BY StoreTakers, TakesSurplus DEF FloorInv
  <1> QED BY FloorInit, <1>1, <1>2, PTL DEF Spec, RetentionFloor

-----------------------------------------------------------------------------
(* The store implements the lifecycle of evidence.                         *)

LEMMA StageMoves ==
    ASSUME TypeInv, NEW d \in Evidence, NEW s \in Places,
           where' = [where EXCEPT ![d] = s], UNCHANGED <<clock, retiredAt>>
    PROVE Lifecycle!Become(d, StageAt[s])
  BY DEF Lifecycle!Become, TypeInv, TypeOK

LEMMA MakeImplements ==
    ASSUME TypeInv, NEW d \in Evidence, NEW n, Make(d, n), UNCHANGED clock
    PROVE Lifecycle!Capture(d)
  <1>1. Lifecycle!Become(d, StageAt["store"])
    BY StageMoves DEF Make, Places
  <1> QED BY <1>1 DEF Lifecycle!Capture, Make, StageAt

LEMMA StampImplements ==
    ASSUME TypeInv, NEW p \in Procs, Stamp(p)
    PROVE \E d \in Evidence : Lifecycle!Mark(d)
  <1>1. PICK d \in At("store", Current(p)) : retiredAt' = [retiredAt EXCEPT ![d] = clock]
    BY DEF Stamp
  <1>2. d \in Evidence /\ where[d] = "store" /\ UNCHANGED <<clock, where>>
    BY DEF Stamp, At, In
  <1>3. [e \in Evidence |-> StageAt[where[e]]][d] = "kept"
    BY <1>2 DEF StageAt
  <1>4. UNCHANGED <<clock, [e \in Evidence |-> StageAt[where[e]]]>>
    BY <1>2
  <1>5. Lifecycle!Mark(d)
    BY <1>1, <1>3, <1>4 DEF Lifecycle!Mark
  <1> QED BY <1>2, <1>5

\* Both modules count with the same operator.
LEMMA SameSurplus ==
    ASSUME TypeInv, Cardinality(In("store")) > Keep
    PROVE Lifecycle!Surplus
  <1>1. Lifecycle!Kept = In("store")
    BY DEF Lifecycle!Kept, In, StageAt, TypeInv, TypeOK, Places
  <1>2. Lifecycle!Cardinality(In("store")) = Cardinality(In("store"))
    BY DEF Cardinality, Lifecycle!Cardinality
  <1> QED BY <1>1, <1>2 DEF Lifecycle!Surplus

LEMMA TakeImplements ==
    ASSUME FloorInv, GraceInv, NEW p \in Pruners, Move(p) \/ Erase(p)
    PROVE \E d \in Evidence : Lifecycle!Retire(d) \/ Lifecycle!Discard(d)
  <1>1. TypeInv /\ p \in Procs /\ Lifecycle!Surplus
    BY TakesSurplus, SameSurplus DEF FloorInv, Procs
  <1>2. CASE Move(p)
    <2>1. PICK d \in At("store", Current(p)) : where' = [where EXCEPT ![d] = "trash"]
      BY <1>2 DEF Move
    <2>2. d \in Evidence /\ where[d] = "store" /\ UNCHANGED <<clock, retiredAt>>
      BY <1>2 DEF Move, At, In
    <2>3. Lifecycle!Become(d, StageAt["trash"])
      BY <1>1, <2>1, <2>2, StageMoves DEF Places
    <2> QED BY <1>1, <2>2, <2>3 DEF Lifecycle!Retire, StageAt
  <1>3. CASE Erase(p)
    <2>1. PICK d \in At("store", Current(p)) : Destroy(d)
      BY <1>3 DEF Erase
    <2>2. /\ d \in Evidence /\ where[d] = "store" /\ UNCHANGED <<clock, retiredAt>>
          /\ where' = [where EXCEPT ![d] = "gone"]
      BY <1>3, <2>1 DEF Erase, Destroy, At, In
    <2>3. Lifecycle!Become(d, StageAt["gone"])
      BY <1>1, <2>2, StageMoves DEF Places
    <2>4. Grace = 0
      BY <1>1, <1>3 DEF FloorInv, Plain, Erase, Doing
    <2> QED BY <1>1, <2>2, <2>3, <2>4 DEF Lifecycle!Discard, StageAt
  <1> QED BY <1>2, <1>3

LEMMA UnlinkImplements ==
    ASSUME GraceInv, [Next]_vars, NEW p \in Procs, Unlink(p)
    PROVE \E d \in Evidence : Lifecycle!Destroy(d)
  <1>1. PICK d \in At("trash", Current(p)) : Destroy(d)
    BY DEF Unlink
  <1>2. TypeInv /\ d \in Evidence /\ where[d] = "trash" /\ UNCHANGED clock
    BY DEF GraceInv, GraceBase, Unlink, At, In
  <1>3. where' = [where EXCEPT ![d] = "gone"] /\ UNCHANGED retiredAt
    BY <1>1 DEF Destroy
  <1>4. Lifecycle!Become(d, StageAt["gone"])
    BY <1>2, <1>3, StageMoves DEF Places
  <1>5. where'[d] = "gone"
    BY <1>2, <1>3 DEF TypeInv, TypeOK
  <1>6. clock - retiredAt[d] >= Grace
    BY <1>2, <1>5, DestroyedByPurge
  <1> QED BY <1>2, <1>4, <1>6 DEF Lifecycle!Destroy, StageAt

LEMMA StepImplements ==
    ASSUME FloorInv, GraceInv, PrunesAlone, [Next]_vars
    PROVE [Lifecycle!Step]_(Lifecycle!lifecycle)
  <1>1. TypeInv /\ CapturesOnlyCapture
    BY DEF FloorInv
  <1>2. ASSUME NEW p \in Procs, Claim(p) \/ Finalize(p)
        PROVE [Lifecycle!Step]_(Lifecycle!lifecycle)
    <2>1. UNCHANGED clock
      BY <1>2 DEF Claim, Finalize
    <2>2. CASE \E d \in Unused : \E n : Make(d, n)
      BY <1>1, <2>1, <2>2, UnusedEvidence, MakeImplements DEF Lifecycle!Step
    <2>3. CASE UNCHANGED <<where, retiredAt>>
      BY <2>1, <2>3 DEF Lifecycle!lifecycle
    <2> QED BY <1>2, <2>2, <2>3 DEF Claim, Finalize
  <1>3. ASSUME NEW p \in Procs, Stamp(p) PROVE Lifecycle!Step
    BY <1>1, <1>3, StampImplements DEF Lifecycle!Step
  <1>4. ASSUME NEW p \in Procs, Move(p) \/ Erase(p) PROVE Lifecycle!Step
    <2>1. p \in Pruners
      BY <1>1, <1>4 DEF Move, Erase, Doing, CapturesOnlyCapture, Procs
    <2> QED BY <1>4, <2>1, TakeImplements DEF Lifecycle!Step
  <1>5. ASSUME NEW p \in Procs, Unlink(p) PROVE Lifecycle!Step
    BY <1>5, UnlinkImplements DEF Lifecycle!Step
  <1>6. ASSUME NEW d \in Evidence, Restore(d) PROVE Lifecycle!Step
    <2>1. /\ where[d] = "trash" /\ UNCHANGED <<clock, retiredAt>>
          /\ where' = [where EXCEPT ![d] = "store"]
      BY <1>6 DEF Restore
    <2>2. Lifecycle!Become(d, StageAt["store"])
      BY <1>1, <2>1, StageMoves DEF Places
    <2>3. Lifecycle!Recover(d)
      BY <2>1, <2>2 DEF Lifecycle!Recover, StageAt
    <2> QED BY <2>3 DEF Lifecycle!Step
  <1>7. CASE Tick
    BY <1>1, <1>7, TypeStep DEF Tick, dirs, Lifecycle!Step, Lifecycle!Advance, Stamps, TypeInv, TypeOK
  <1>8. ASSUME UNCHANGED <<clock, where, retiredAt>>
        PROVE [Lifecycle!Step]_(Lifecycle!lifecycle)
    BY <1>8 DEF Lifecycle!lifecycle
  <1>9. ASSUME NEW p \in Procs,
               \/ StartCapture(p) \/ List(p) \/ AlreadyGone(p) \/ Probe(p) \/ Collide(p)
               \/ Retry(p) \/ GiveUp(p) \/ Sweep(p) \/ Skip(p) \/ Expire(p)
               \/ UnlinkNothing(p) \/ Scan(p) \/ Publish(p) \/ Crash(p)
        PROVE UNCHANGED <<clock, where, retiredAt>>
    BY <1>9 DEF StartCapture, List, AlreadyGone, Probe, Collide, Retry, GiveUp, Sweep,
                Skip, Expire, UnlinkNothing, Scan, Publish, Crash, dirs
  <1>10. UNCHANGED vars => UNCHANGED <<clock, where, retiredAt>>
    BY DEF vars, dirs
  <1> QED BY <1>2, <1>3, <1>4, <1>5, <1>6, <1>7, <1>8, <1>9, <1>10
          DEF Next, Running, Capturing, Retiring, Purging, Indexing

\* While one prune runs at a time and its stamps take, every step of the store is
\* a step of the lifecycle of evidence or none: nothing but surplus is retired,
\* after it was marked, and nothing retired is destroyed before its window is over
\* (session.py remove_sessions, purge_expired_trash).
THEOREM Implements ==
    ASSUME PrunesAlone, ~StampFails, MaxBytes = NoLimit
    PROVE Spec => ImplementsLifecycle
  <1>1. Init => Lifecycle!Start
    BY TypeInit DEF Init, Lifecycle!Start, StageAt, TypeInv, TypeOK, Stamps
  <1>2. Init => GraceInv
    BY GraceInvInit
  <1>3. GraceInv /\ [Next]_vars => GraceInv'
    BY GraceInvStep
  <1>4. FloorInv /\ [Next]_vars => FloorInv'
    BY FloorStep
  <1>5. FloorInv /\ GraceInv /\ [Next]_vars => [Lifecycle!Step]_(Lifecycle!lifecycle)
    BY StepImplements
  <1> QED BY FloorInit, <1>1, <1>2, <1>3, <1>4, <1>5, PTL
          DEF Spec, ImplementsLifecycle, Lifecycle!Spec

-----------------------------------------------------------------------------
(* Processes one after the other: the index.                               *)

\* Processes run one after the other: a capture, a prune, another capture.
Serial == \A p, q \in Procs : ~Doing(p, "idle") /\ ~Doing(q, "idle") => p = q

Resting == {"idle", "claim", "collect", "list", "scan", "publish"}
Rewriting == {"scan", "publish"}

\* Only what was made has a summary; what a scan has read is what there is; the flag
\* that calls for a scan is not left up; with no scan called for the index is right.
SummaryMade == \A d \in summary : where[d] # "unmade"
RowsRead == \A p \in Procs : proc[p].pc = "publish" => proc[p].rows = Listed
FlagDown == \A p \in Procs : proc[p].pc \in Resting => ~proc[p].removed
Settled == (\A p \in Procs : proc[p].pc \notin Rewriting /\ ~proc[p].removed) => index = Listed

IndexInv == TypeInv /\ SummaryMade /\ RowsRead /\ FlagDown /\ Settled

\* What NextDoomed leaves of a process.
LEMMA NextDoomedDoes ==
    ASSUME TypeInv, NEW p \in Procs, NEW ok \in BOOLEAN, NextDoomed(p, ok)
    PROVE /\ proc'[p].pc \in {"sweep", "stamp", "erase"}
          /\ proc'[p].removed = (proc[p].removed \/ ok)
          /\ proc'[p].todo = Tail(proc[p].todo)
          /\ proc'[p].pc = IF Len(proc[p].todo) = 1 THEN "sweep" ELSE FirstDoomed
  <1>1. proc[p] \in Process /\ proc \in [Procs -> Process] /\ proc[p].removed \in BOOLEAN
    BY DEF TypeInv, TypeOK, Process
  <1>2. PICK b \in BOOLEAN : b = (proc[p].removed \/ ok)
    BY <1>1
  <1>3. PICK l : l = IF Len(proc[p].todo) = 1 THEN "sweep" ELSE FirstDoomed
    OBVIOUS
  <1>4. proc' = [proc EXCEPT ![p].pc = l, ![p].todo = Tail(@), ![p].target = NoName,
                             ![p].tries = 0, ![p].removed = b]
    BY <1>2, <1>3, Zenon DEF NextDoomed
  <1>5. proc'[p].pc = l /\ proc'[p].todo = Tail(proc[p].todo) /\ proc'[p].removed = b
    BY <1>1, <1>4 DEF Process
  <1>6. l \in {"sweep", "stamp", "erase"}
    BY <1>3 DEF FirstDoomed
  <1> QED BY <1>2, <1>3, <1>5, <1>6

LEMMA AfterPurgeDoes ==
    ASSUME NEW p \in Procs
    PROVE /\ ~AfterPurge(p).removed /\ AfterPurge(p).pc \in {"scan", "idle"}
          /\ AfterPurge(p).pc = "idle" => ~proc[p].removed
  BY DEF AfterPurge, Idle

\* What the index is to list changes only with the store and its summaries.
LEMMA ListedKept == ASSUME UNCHANGED <<where, name, summary>> PROVE Listed' = Listed
  BY DEF Listed, In

LEMMA ListedOutside ==
    ASSUME TypeInv, NEW d \in Evidence, where[d] # "store" \/ d \notin summary, UNCHANGED summary,
           \A e \in Evidence : e # d => where'[e] = where[e] /\ name'[e] = name[e],
           where'[d] # "store" \/ d \notin summary
    PROVE Listed' = Listed
  <1>1. In("store") \cap summary = (In("store") \cap summary)'
    BY DEF In, TypeInv, TypeOK
  <1>2. \A e \in In("store") \cap summary : e # d /\ e \in Evidence
    BY DEF In
  <1> QED BY <1>1, <1>2 DEF Listed

\* What a listing leaves of a process.
LEMMA ListDoes ==
    ASSUME TypeInv, NEW p \in Procs, List(p)
    PROVE /\ UNCHANGED <<dirs, index, clock>> /\ proc[p].pc \in {"list", "idle"}
          /\ \E s \in Listings(In("store")) : \E left \in Survivors(s, KeepOf(p), LimitOf(p)) :
                \/ /\ proc'[p].pc = AfterListing(Doomed(s, KeepOf(p), left))
                   /\ proc'[p].todo = Doomed(s, KeepOf(p), left)
                \/ MoveFails /\ proc'[p].pc = "sweep"
          /\ proc'[p].pc \in {"sweep", "stamp", "erase"}
  <1>1. proc[p] \in Process /\ proc \in [Procs -> Process]
    BY DEF TypeInv, TypeOK
  <1>2. PICK s \in Listings(In("store")) : \E left \in Survivors(s, KeepOf(p), LimitOf(p)) :
            LET doomed == Doomed(s, KeepOf(p), left) IN
            \/ proc' = [proc EXCEPT ![p].pc = AfterListing(doomed),
                                    ![p].todo = doomed,
                                    ![p].removed = p \in Pruners /\ doomed # <<>>]
            \/ /\ MoveFails /\ doomed # <<>> /\ Grace > 0
               /\ proc' = [proc EXCEPT ![p].pc = "sweep", ![p].removed = p \in Pruners]
    BY DEF List
  <1>3. PICK left \in Survivors(s, KeepOf(p), LimitOf(p)) :
            LET doomed == Doomed(s, KeepOf(p), left) IN
            \/ proc' = [proc EXCEPT ![p].pc = AfterListing(doomed),
                                    ![p].todo = doomed,
                                    ![p].removed = p \in Pruners /\ doomed # <<>>]
            \/ /\ MoveFails /\ doomed # <<>> /\ Grace > 0
               /\ proc' = [proc EXCEPT ![p].pc = "sweep", ![p].removed = p \in Pruners]
    BY <1>2
  <1>4. PICK doomed, l, b, c :
            /\ doomed = Doomed(s, KeepOf(p), left) /\ l = AfterListing(doomed)
            /\ \/ proc' = [proc EXCEPT ![p].pc = l, ![p].todo = doomed, ![p].removed = b]
               \/ MoveFails /\ proc' = [proc EXCEPT ![p].pc = "sweep", ![p].removed = c]
    BY <1>3, Zenon
  <1>5. \/ proc'[p].pc = l /\ proc'[p].todo = doomed
        \/ MoveFails /\ proc'[p].pc = "sweep"
    <2>1. CASE proc' = [proc EXCEPT ![p].pc = l, ![p].todo = doomed, ![p].removed = b]
      BY <1>1, <2>1 DEF Process
    <2>2. CASE MoveFails /\ proc' = [proc EXCEPT ![p].pc = "sweep", ![p].removed = c]
      BY <1>1, <2>2 DEF Process
    <2> QED BY <1>4, <2>1, <2>2
  <1>6. l \in {"sweep", "stamp", "erase"}
    BY <1>4 DEF AfterListing, FirstDoomed
  <1>7. UNCHANGED <<dirs, index, clock>> /\ proc[p].pc \in {"list", "idle"}
    BY DEF List, Doing
  <1> QED BY <1>4, <1>5, <1>6, <1>7

LEMMA IndexProcess ==
    ASSUME IndexInv, ~Crashes, NEW p \in Procs, ProcessTakes(p)
    PROVE /\ proc'[p].pc = "publish" => proc'[p].rows = Listed'
          /\ proc'[p].pc \in Resting => ~proc'[p].removed
          /\ /\ proc'[p].pc \notin Rewriting /\ ~proc'[p].removed
             /\ proc[p].pc \notin Rewriting /\ ~proc[p].removed => index = Listed
             => index' = Listed'
          /\ SummaryMade'
  <1>1. /\ proc[p] \in Process /\ proc \in [Procs -> Process] /\ Consistent(proc[p])
        /\ proc[p].removed \in BOOLEAN /\ TypeInv /\ summary \subseteq Evidence
        /\ where \in [Evidence -> Places]
    BY DEF IndexInv, TypeInv, TypeOK, Process
  <1>2. UNCHANGED <<where, summary>> => SummaryMade'
    BY DEF IndexInv, SummaryMade
  <1>3. ASSUME NEW ok \in BOOLEAN, NextDoomed(p, ok), UNCHANGED <<index, summary>>,
               SummaryMade', proc[p].pc \notin Resting, ok \/ UNCHANGED <<where, name>>
        PROVE  /\ proc'[p].pc \notin Resting
               /\ /\ ~proc'[p].removed
                  /\ proc[p].pc \notin Rewriting /\ ~proc[p].removed => index = Listed
                  => index' = Listed'
    <2>1. proc'[p].pc \in {"sweep", "stamp", "erase"} /\ proc'[p].removed = (proc[p].removed \/ ok)
      BY <1>1, <1>3, NextDoomedDoes
    <2>2. ~proc'[p].removed => ~ok /\ ~proc[p].removed
      BY <2>1
    <2> QED BY <1>3, <2>1, <2>2, ListedKept DEF Resting, Rewriting
  <1>4. ASSUME NextEntry(p), UNCHANGED index, Listed' = Listed, proc[p].pc \notin Resting
        PROVE  /\ proc'[p].pc # "publish"
               /\ proc'[p].pc \in Resting => ~proc'[p].removed
               /\ /\ proc'[p].pc \notin Rewriting /\ ~proc'[p].removed
                  /\ proc[p].pc \notin Rewriting /\ ~proc[p].removed => index = Listed
                  => index' = Listed'
    <2>1. CASE proc' = [proc EXCEPT ![p] = AfterPurge(p)]
      <3>1. proc'[p] = AfterPurge(p)
        BY <1>1, <2>1
      <3> QED BY <1>4, <3>1, AfterPurgeDoes DEF Resting, Rewriting
    <2>2. CASE proc' = [proc EXCEPT ![p] = [proc[p] EXCEPT !.pc = "stat", !.todo = Tail(@), !.seen = NoDir]]
      <3>1. proc'[p].pc = "stat" /\ proc'[p].removed = proc[p].removed
        BY <1>1, <2>2 DEF Process
      <3> QED BY <1>4, <3>1 DEF Resting, Rewriting
    <2> QED BY <1>4, <2>1, <2>2 DEF NextEntry
  <1>5. CASE StartCapture(p)
    <2>1. proc'[p].pc = "claim" /\ proc'[p].removed = proc[p].removed /\ proc[p].pc = "idle"
      BY <1>1, <1>5 DEF StartCapture, Doing, Process
    <2>2. UNCHANGED <<where, name, summary, index>>
      BY <1>5 DEF StartCapture, dirs
    <2> QED BY <1>2, <2>1, <2>2, ListedKept DEF IndexInv, FlagDown, Resting, Rewriting
  <1>6. CASE Claim(p)
    <2>1. PICK d \in Unused : \E n :
             /\ Make(d, n)
             /\ proc' = [proc EXCEPT ![p].pc = "collect", ![p].own = n, ![p].made = d,
                                     ![p].base = NoName]
      BY <1>6 DEF Claim
    <2>2. proc'[p].pc = "collect" /\ proc'[p].removed = proc[p].removed /\ proc[p].pc = "claim"
      BY <1>1, <1>6, <2>1 DEF Claim, Doing, Process
    <2>3. d \in Evidence /\ where[d] = "unmade" /\ d \notin summary /\ UNCHANGED <<summary, index>>
      BY <1>6, <2>1, UnusedEvidence DEF Make, Claim, IndexInv, SummaryMade
    <2>4. Listed' = Listed
      BY <1>1, <2>1, <2>3, ListedOutside DEF Make, TypeInv, TypeOK
    <2>5. SummaryMade'
      BY <1>1, <2>1, <2>3 DEF Make, IndexInv, SummaryMade
    <2> QED BY <2>2, <2>3, <2>4, <2>5 DEF IndexInv, FlagDown, Resting, Rewriting
  <1>7. CASE Finalize(p)
    <2>1. proc'[p].pc = "scan" /\ proc'[p].removed = proc[p].removed /\ proc[p].pc = "collect"
      BY <1>1, <1>7 DEF Finalize, Doing, Process
    <2>2. SummaryMade'
      <3>1. CASE \E d \in Unused : Make(d, proc[p].own) /\ summary' = summary \cup {d}
        BY <1>1, <3>1, UnusedEvidence DEF Make, IndexInv, SummaryMade
      <3>2. CASE \E d \in At("store", proc[p].own) : summary' = summary \cup {d} /\ UNCHANGED where
        BY <3>2 DEF At, In, IndexInv, SummaryMade
      <3> QED BY <1>7, <3>1, <3>2 DEF Finalize
    <2> QED BY <2>1, <2>2 DEF IndexInv, FlagDown, Resting, Rewriting
  <1>8. CASE List(p)
    <2>1. /\ proc'[p].pc \in {"sweep", "stamp", "erase"} /\ UNCHANGED <<where, name, summary, index>>
          /\ proc[p].pc \in {"list", "idle"}
      BY <1>1, <1>8, ListDoes DEF dirs
    <2> QED BY <1>2, <2>1, ListedKept DEF IndexInv, FlagDown, Resting, Rewriting
  <1>9. CASE Stamp(p)
    <2>1. proc'[p].pc = "probe" /\ proc'[p].removed = proc[p].removed /\ proc[p].pc = "stamp"
      BY <1>1, <1>9 DEF Stamp, Doing, Process
    <2>2. UNCHANGED <<where, name, summary, index>>
      BY <1>9 DEF Stamp
    <2> QED BY <1>2, <2>1, <2>2, ListedKept DEF Resting, Rewriting
  <1>10. CASE Probe(p) \/ Collide(p) \/ Retry(p)
    <2>1. /\ proc'[p].pc \in {"move", "collided", "probe"} /\ proc'[p].removed = proc[p].removed
          /\ proc[p].pc \in {"move", "collided", "probe"}
      <3>1. CASE Probe(p)
        <4>1. PICK n : proc' = [proc EXCEPT ![p].pc = "move", ![p].target = n, ![p].tries = @ + 1]
          BY <3>1 DEF Probe
        <4> QED BY <1>1, <3>1, <4>1 DEF Probe, Doing, Process
      <3>2. CASE Collide(p) \/ Retry(p)
        BY <1>1, <3>2 DEF Collide, Retry, Doing, Process
      <3> QED BY <1>10, <3>1, <3>2
    <2>2. UNCHANGED <<where, name, summary, index>>
      BY <1>10 DEF Probe, Collide, Retry, dirs
    <2> QED BY <1>2, <2>1, <2>2, ListedKept DEF Resting, Rewriting
  <1>11. CASE AlreadyGone(p)
    <2>1. UNCHANGED <<where, name, summary, index>> /\ proc[p].pc \notin Resting
      BY <1>11 DEF AlreadyGone, dirs, Resting
    <2> QED BY <1>2, <1>3, <1>11, <2>1 DEF AlreadyGone, Resting
  <1>12. CASE GiveUp(p)
    <2>1. UNCHANGED <<where, name, summary, index>> /\ proc[p].pc \notin Resting
      BY <1>12 DEF GiveUp, dirs, Resting, Doing
    <2> QED BY <1>2, <1>3, <1>12, <2>1 DEF GiveUp, Resting
  <1>13. CASE Move(p)
    <2>1. UNCHANGED <<summary, index>> /\ proc[p].pc \notin Resting /\ NextDoomed(p, TRUE)
      BY <1>13 DEF Move, Resting, Doing
    <2>2. SummaryMade'
      BY <1>1, <1>13, <2>1 DEF Move, At, In, IndexInv, SummaryMade
    <2> QED BY <1>3, <2>1, <2>2 DEF Resting
  <1>14. CASE Erase(p)
    <2>1. UNCHANGED <<summary, index>> /\ proc[p].pc \notin Resting /\ NextDoomed(p, TRUE)
      BY <1>14 DEF Erase, Destroy, Resting, Doing
    <2>2. SummaryMade'
      BY <1>1, <1>14, <2>1 DEF Erase, Destroy, At, In, IndexInv, SummaryMade
    <2> QED BY <1>3, <2>1, <2>2 DEF Resting
  <1>15. CASE Sweep(p)
    <2>1. UNCHANGED <<where, name, summary, index>> /\ proc[p].pc = "sweep"
      BY <1>15 DEF Sweep, dirs, Doing
    <2>2. PICK s \in TrashListings :
            proc' = [proc EXCEPT ![p] =
                        IF s = <<>> THEN AfterPurge(p)
                        ELSE [proc[p] EXCEPT !.pc = "stat", !.todo = s, !.cutoff = Cutoff]]
      BY <1>15 DEF Sweep
    <2>3. CASE s = <<>>
      <3>1. proc'[p] = AfterPurge(p)
        BY <1>1, <2>2, <2>3
      <3> QED BY <1>2, <2>1, <3>1, AfterPurgeDoes, ListedKept DEF Resting, Rewriting
    <2>4. CASE s # <<>>
      <3>1. proc'[p].pc = "stat" /\ proc'[p].removed = proc[p].removed
        BY <1>1, <2>2, <2>4 DEF Process
      <3> QED BY <1>2, <2>1, <3>1, ListedKept DEF Resting, Rewriting
    <2> QED BY <2>3, <2>4
  <1>16. CASE Skip(p) \/ UnlinkNothing(p)
    <2>1. /\ UNCHANGED <<where, name, summary, index>> /\ proc[p].pc \in {"stat", "unlink"}
          /\ NextEntry(p)
      BY <1>16 DEF Skip, UnlinkNothing, dirs, Doing
    <2> QED BY <1>2, <1>4, <2>1, ListedKept DEF Resting
  <1>17. CASE Expire(p)
    <2>1. proc'[p].pc = "unlink" /\ proc'[p].removed = proc[p].removed /\ proc[p].pc = "stat"
      BY <1>1, <1>17 DEF Expire, Doing, Process
    <2>2. UNCHANGED <<where, name, summary, index>>
      BY <1>17 DEF Expire, dirs
    <2> QED BY <1>2, <2>1, <2>2, ListedKept DEF Resting, Rewriting
  <1>18. CASE Unlink(p)
    <2>1. PICK d \in At("trash", Current(p)) : Destroy(d)
      BY <1>18 DEF Unlink
    <2>2. /\ d \in Evidence /\ where[d] = "trash" /\ UNCHANGED <<summary, index>>
          /\ proc[p].pc = "unlink" /\ NextEntry(p)
      BY <1>18, <2>1 DEF Unlink, Destroy, Doing, At, In
    <2>3. Listed' = Listed
      BY <1>1, <2>1, <2>2, ListedOutside DEF Destroy, TypeInv, TypeOK
    <2>4. SummaryMade'
      BY <1>1, <2>1, <2>2 DEF Destroy, IndexInv, SummaryMade
    <2> QED BY <1>4, <2>2, <2>3, <2>4 DEF Resting
  <1>19. CASE Scan(p)
    <2>1. /\ proc'[p].pc = "publish" /\ proc'[p].removed = proc[p].removed /\ proc[p].pc = "scan"
          /\ proc'[p].rows = Listed
      BY <1>1, <1>19 DEF Scan, Doing, Process
    <2>2. UNCHANGED <<where, name, summary, index>>
      BY <1>19 DEF Scan, dirs
    <2> QED BY <1>2, <2>1, <2>2, ListedKept DEF IndexInv, FlagDown, Resting, Rewriting
  <1>20. CASE Publish(p)
    <2>1. ~proc'[p].removed /\ proc'[p].pc \in {"list", "idle"}
      BY <1>1, <1>20 DEF Publish, Idle
    <2>2. UNCHANGED <<where, name, summary>> /\ index' = Listed
      BY <1>20 DEF Publish, dirs, Doing, IndexInv, RowsRead
    <2> QED BY <1>2, <2>1, <2>2, ListedKept DEF Resting, Rewriting
  <1>21. ~Crash(p)
    BY DEF Crash
  <1> QED BY <1>5, <1>6, <1>7, <1>8, <1>9, <1>10, <1>11, <1>12, <1>13, <1>14, <1>15, <1>16,
             <1>17, <1>18, <1>19, <1>20, <1>21
          DEF ProcessTakes, Running, Capturing, Retiring, Purging, Indexing

\* An idle process starts a capture or a prune.
LEMMA IdleTakes ==
    ASSUME NEW p \in Procs, ProcessTakes(p), Doing(p, "idle")
    PROVE StartCapture(p) \/ List(p)
  BY DEF ProcessTakes, Running, Capturing, Retiring, Purging, Indexing, Doing, Claim, Finalize,
         Stamp, AlreadyGone, Probe, Move, Collide, Retry, GiveUp, Erase, Sweep, Skip, Expire,
         Unlink, UnlinkNothing, Scan, Publish, Crash

\* While one process works the others are idle, before and after its step.
LEMMA OthersIdle ==
    ASSUME TypeInv, Serial, Serial', ~Crashes, NEW p \in Procs, ProcessTakes(p)
    PROVE \A q \in Procs \ {p} : Doing(q, "idle") /\ proc'[q] = proc[q]
  <1> TAKE q \in Procs \ {p}
  <1>1. proc'[q] = proc[q]
    BY OthersWait
  <1>2. Doing(p, "idle") => proc'[p].pc # "idle"
    <2> SUFFICES ASSUME Doing(p, "idle") PROVE proc'[p].pc # "idle"
      OBVIOUS
    <2>1. StartCapture(p) \/ List(p)
      BY IdleTakes
    <2>2. proc[p] \in Process /\ proc \in [Procs -> Process]
      BY DEF TypeInv, TypeOK
    <2>3. CASE StartCapture(p)
      BY <2>2, <2>3 DEF StartCapture, Process
    <2>4. CASE List(p)
      <3>1. proc'[p].pc \in {"sweep", "stamp", "erase"}
        BY <2>4, ListDoes
      <3> QED BY <3>1
    <2> QED BY <2>1, <2>3, <2>4
  <1> QED BY <1>1, <1>2 DEF Serial, Doing

LEMMA IndexStep ==
    ASSUME IndexInv, Serial, Serial', ~Crashes, ~Restores, [Next]_vars
    PROVE IndexInv'
  <1>1. TypeInv /\ TypeInv'
    BY TypeStep DEF IndexInv
  <1>2. ASSUME NEW p \in Procs, ProcessTakes(p) PROVE IndexInv'
    <2>1. \A q \in Procs \ {p} : proc[q].pc = "idle" /\ proc'[q] = proc[q]
      BY <1>1, <1>2, OthersIdle DEF Doing
    <2>2. \A q \in Procs \ {p} : proc[q].pc \notin Rewriting /\ ~proc[q].removed
      BY <2>1 DEF IndexInv, FlagDown, Resting, Rewriting
    <2>3. proc[p].pc \notin Rewriting /\ ~proc[p].removed => index = Listed
      BY <2>2 DEF IndexInv, Settled
    <2>4. RowsRead'
      BY <1>2, <2>1, IndexProcess DEF RowsRead
    <2>5. FlagDown'
      BY <1>2, <2>1, <2>2, IndexProcess DEF FlagDown
    <2>6. Settled'
      BY <1>2, <2>3, IndexProcess DEF Settled
    <2> QED BY <1>1, <1>2, <2>4, <2>5, <2>6, IndexProcess DEF IndexInv
  <1>3. CASE Tick \/ UNCHANGED vars
    <2>1. UNCHANGED <<where, name, summary, index, proc>>
      BY <1>3 DEF Tick, vars, dirs
    <2> QED BY <1>1, <2>1, ListedKept
            DEF IndexInv, SummaryMade, RowsRead, FlagDown, Settled
  <1>4. \A d \in Evidence : ~Restore(d)
    BY DEF Restore
  <1> QED BY <1>2, <1>3, <1>4 DEF Next, ProcessTakes

\* While the store's processes run one after the other, whatever renames and stamps
\* fail: when they rest, the index lists the finalized sessions that exist and no other
\* (session.py write_index, remove_sessions; capture.py run_capture).
THEOREM IndexRight ==
    ASSUME ~Crashes, ~Restores
    PROVE Spec /\ []Serial => []IndexExact
  <1>1. Init => IndexInv
    <2> SUFFICES ASSUME Init PROVE IndexInv
      OBVIOUS
    <2>1. SummaryMade
      BY ConstantsAssumption DEF ConstantsAssumption, Init, SummaryMade
    <2>2. index = Listed
      <3>1. In("store") \cap summary = DOMAIN Stock
        BY ConstantsAssumption DEF ConstantsAssumption, Init, In
      <3>2. \A d \in DOMAIN Stock : name[d] = Stock[d]
        BY ConstantsAssumption DEF ConstantsAssumption, Init
      <3> QED BY <3>1, <3>2 DEF Init, Listed
    <2>3. \A p \in Procs : proc[p].pc = "idle" /\ ~proc[p].removed
      BY DEF Init, Idle
    <2> QED BY <2>1, <2>2, <2>3, TypeInit DEF IndexInv, RowsRead, FlagDown, Settled
  <1>2. IndexInv /\ Serial /\ Serial' /\ [Next]_vars => IndexInv'
    BY IndexStep
  <1>3. IndexInv => IndexExact
    BY DEF IndexInv, FlagDown, Settled, IndexExact, Quiet, Doing, Resting, Rewriting
  <1> QED BY <1>1, <1>2, <1>3, PTL DEF Spec

-----------------------------------------------------------------------------
(* Processes one after the other: what is retired is the oldest.           *)

\* No name sorts before itself.
LEMMA NotBeforeItself == \A n \in Names : ~Before(n, n)
  <1> SUFFICES ASSUME NEW n \in Names PROVE \A k \in 1 .. Len(n) : n[k] \in Int
    BY DEF Before
  <1>1. Stamps \subseteq Int /\ Suffixes \subseteq Int
    BY ConstantsAssumption DEF ConstantsAssumption, Stamps, Suffixes
  <1>2. CASE \E s \in Stamps : n = <<s>>
    BY <1>1, <1>2
  <1>3. CASE \E s \in Stamps, i \in Suffixes : n = <<s, i>>
    BY <1>1, <1>3
  <1>4. CASE \E s \in Stamps, i \in Suffixes, j \in Suffixes : n = <<s, i, j>>
    BY <1>1, <1>4
  <1> QED BY <1>2, <1>3, <1>4 DEF Names

\* A listing holds each session once.
LEMMA ListingOnce ==
    ASSUME NEW S, IsFiniteSet(S), S \subseteq Evidence, Named, \A d \in S : where[d] = "store",
           \A d \in S : mtime[d] \in Int, NEW s \in Listings(S)
    PROVE /\ \A i, j \in 1 .. Cardinality(S) : s[i] = s[j] => i = j
          /\ \A d \in S : \E i \in 1 .. Cardinality(S) : s[i] = d
  <1> DEFINE n == Cardinality(S)
  <1>1. n \in Nat
    BY FS_CardinalityType
  <1>2. s \in [1 .. n -> S] /\ \A i, j \in 1 .. n : i < j => Newer(s[i], s[j])
    BY DEF Listings
  <1>3. \A d \in S : ~Newer(d, d)
    BY NotBeforeItself DEF Newer, Named
  <1>4. \A i, j \in 1 .. n : i # j => s[i] # s[j]
    <2> SUFFICES ASSUME NEW i \in 1 .. n, NEW j \in 1 .. n, i < j PROVE s[i] # s[j]
      BY <1>1
    <2> QED BY <1>2, <1>3
  <1>5. IsFiniteSet(1 .. n) /\ Cardinality(1 .. n) = n
    BY <1>1, FS_Interval
  <1>6. s \in Injection(1 .. n, S)
    BY <1>2, <1>4 DEF Injection, IsInjective
  <1>7. s \in Surjection(1 .. n, S)
    BY <1>5, <1>6, FS_Injection
  <1> QED BY <1>4, <1>7 DEF Surjection

\* The first of a listing are as many as are asked for.
LEMMA FirstListed ==
    ASSUME NEW S, IsFiniteSet(S), S \subseteq Evidence, Named, \A d \in S : where[d] = "store",
           \A d \in S : mtime[d] \in Int,
           NEW s \in Listings(S), NEW k \in 0 .. Cardinality(S)
    PROVE Cardinality({s[i] : i \in 1 .. k}) = k
  <1> DEFINE n == Cardinality(S)
             f == [i \in 1 .. k |-> s[i]]
  <1>1. n \in Nat
    BY FS_CardinalityType
  <1>2. s \in [1 .. n -> S] /\ \A i, j \in 1 .. n : i < j => Newer(s[i], s[j])
    BY DEF Listings
  <1>3. \A i, j \in 1 .. n : s[i] = s[j] => i = j
    BY ListingOnce
  <1> HIDE DEF n
  <1>4. f \in Bijection(1 .. k, {s[i] : i \in 1 .. k})
    <2>1. \A i \in 1 .. k : i \in 1 .. n
      BY <1>1 DEF n
    <2>2. \A i, j \in 1 .. k : f[i] = f[j] => i = j
      BY <1>3, <2>1
    <2>3. f \in [1 .. k -> {s[i] : i \in 1 .. k}] /\ \A e \in {s[i] : i \in 1 .. k} : \E i \in 1 .. k : f[i] = e
      OBVIOUS
    <2> HIDE DEF f
    <2> QED BY <2>2, <2>3 DEF Bijection, Injection, Surjection, IsInjective
  <1>5. IsFiniteSet(1 .. k) /\ Cardinality(1 .. k) = k
    BY <1>1, FS_Interval DEF n
  <1> HIDE DEF f
  <1> QED BY <1>4, <1>5, FS_Bijection DEF ExistsBijection

\* What is doomed beyond the newest, when no budget takes more.
LEMMA DoomedBeyond ==
    ASSUME NEW S, NEW s \in Seq(S), NEW keep \in Nat, NEW left \in Survivors(s, keep, NoLimit)
    PROVE \E u : /\ u = Least(keep, Len(s))
                 /\ DOMAIN Doomed(s, keep, left) \subseteq 1 .. Len(s) - u
                 /\ \A i \in DOMAIN Doomed(s, keep, left) :
                       u + i \in 1 .. Len(s) /\ Doomed(s, keep, left)[i] = name[s[u + i]]
  <1> DEFINE u == Least(keep, Len(s))
             n == Len(s)
  <1>1. n \in Nat
    BY LenProperties
  <1>2. left = u /\ u \in 0 .. n
    BY <1>1 DEF Survivors, Least
  <1>3. Doomed(s, keep, left) = [i \in 1 .. n - u |-> name[s[IF u + i <= n THEN u + i ELSE n - i + 1]]]
    BY <1>1, <1>2 DEF Doomed
  <1> HIDE DEF u, n
  <1>4. \A i \in 1 .. n - u : u + i <= n /\ u + i \in 1 .. n
    BY <1>1, <1>2
  <1>5. DOMAIN Doomed(s, keep, left) \subseteq 1 .. n - u
    BY <1>3
  <1>6. \A i \in 1 .. n - u : Doomed(s, keep, left)[i] = name[s[u + i]]
    BY <1>3, <1>4
  <1> QED BY <1>4, <1>5, <1>6 DEF u, n

Uncollided == \A p \in Procs : proc[p].pc # "collided"
                               /\ (proc[p].pc = "move" => ~Taken("trash", proc[p].target))

\* A session is dated by its evidence, but for one that is being retired.
Marking(p) == proc[p].pc \in {"probe", "move"}
Dated == \A d \in In("store") :
             (\A p \in Procs : Marking(p) => name[d] # Current(p)) => mtime[d] = written[d]

\* As many as are to be kept are more recent than any that is doomed.
Surpassed(p) ==
    \E K \in SUBSET In("store") :
        /\ Cardinality(K) >= Keep
        /\ \A i \in DOMAIN proc[p].todo : \A d \in At("store", proc[p].todo[i]) :
               \A e \in K : MoreRecent(e, d)
Beside == \A p \in Procs : proc[p].pc \in Retires => Surpassed(p)

\* A capture lists only when it is to prune.
AutoLists == \A p \in Captures : proc[p].pc = "list" => AutoKeep > 0

NewestInv == TypeInv /\ DistinctPaths /\ Uncollided /\ Dated /\ Beside /\ AutoLists

\* What a process is at that still retires, or has just done so, and what it did.
LEMMA RetiringOnly ==
    ASSUME TypeInv, ~MoveFails, Uncollided, NEW p \in Procs, ProcessTakes(p),
           proc'[p].pc \in Retires \cup {"sweep"}
    PROVE List(p) \/ Stamp(p) \/ Probe(p) \/ AlreadyGone(p) \/ Move(p) \/ Erase(p)
  <1>1. ~Collide(p) /\ ~Retry(p) /\ ~GiveUp(p)
    BY DEF Uncollided, Collide, Retry, GiveUp, Doing
  <1> QED BY <1>1, NotRetiring DEF ProcessTakes, Running, Capturing, Retiring

LEMMA UncollidedProcess ==
    ASSUME TypeInv, ~MoveFails, Uncollided, NEW p \in Procs, ProcessTakes(p)
    PROVE proc'[p].pc # "collided" /\ (proc'[p].pc = "move" => ~Taken("trash", proc[p].target)')
  <1>1. proc[p] \in Process /\ proc \in [Procs -> Process]
    BY DEF TypeInv, TypeOK
  <1> SUFFICES ASSUME proc'[p].pc \in {"move", "collided"}
               PROVE  proc'[p].pc = "move" /\ ~Taken("trash", proc[p].target)'
    OBVIOUS
  <1>2. CASE List(p)
    BY <1>2, ListDoes
  <1>3. CASE Stamp(p)
    <2>1. proc'[p].pc = "probe"
      BY <1>1, <1>3 DEF Stamp, Process
    <2> QED BY <2>1
  <1>4. CASE AlreadyGone(p) \/ Move(p) \/ Erase(p)
    BY <1>4, NextDoomedDoes DEF AlreadyGone, Move, Erase
  <1>5. CASE Probe(p)
    <2>1. PICK n \in FirstFree("trash", Current(p)) :
              proc' = [proc EXCEPT ![p].pc = "move", ![p].target = n, ![p].tries = @ + 1]
      BY <1>5 DEF Probe
    <2>2. proc'[p].pc = "move" /\ proc'[p].target = n
      BY <1>1, <2>1 DEF Process
    <2>3. ~Taken("trash", n) /\ UNCHANGED <<where, name>>
      BY <1>5, <2>1 DEF FirstFree, Probe, dirs
    <2> QED BY <2>2, <2>3 DEF Taken, At, In
  <1> QED BY <1>2, <1>3, <1>4, <1>5, RetiringOnly DEF Retires

\* Whatever a step does to the store while no session is being marked.
LEMMA DatedRest ==
    ASSUME NewestInv, \A q \in Procs : ~Marking(q), [Next]_vars, ~Restores,
           \A q \in Procs : ~Stamp(q)
    PROVE \A d \in In("store")' : mtime'[d] = written'[d]
  <1>1. TypeInv /\ \A d \in In("store") : mtime[d] = written[d]
    BY DEF NewestInv, Dated
  <1>2. \A e \in Evidence : \A n : Make(e, n) => \A d \in In("store")' : mtime'[d] = written'[d]
    BY <1>1 DEF Make, In, TypeInv, TypeOK
  <1>3. ASSUME NEW q \in Procs, Claim(q) \/ Finalize(q)
        PROVE  \A d \in In("store")' : mtime'[d] = written'[d]
    <2>1. CASE \E d \in At("store", proc[q].own) :
                  /\ mtime' = [mtime EXCEPT ![d] = clock] /\ written' = [written EXCEPT ![d] = clock]
                  /\ UNCHANGED where
      BY <1>1, <2>1 DEF At, In, TypeInv, TypeOK
    <2> QED BY <1>2, <1>3, <2>1, UnusedEvidence DEF Claim, Finalize
  <1>4. ASSUME UNCHANGED <<mtime, written>>, In("store")' \subseteq In("store")
        PROVE  \A d \in In("store")' : mtime'[d] = written'[d]
    BY <1>1, <1>4
  <1>5. ASSUME NEW d \in Evidence, Destroy(d)
        PROVE  UNCHANGED <<mtime, written>> /\ In("store")' \subseteq In("store")
    BY <1>1, <1>5 DEF Destroy, In, TypeInv, TypeOK
  <1>6. ASSUME NEW q \in Procs, Erase(q) \/ Unlink(q) \/ Move(q)
        PROVE  UNCHANGED <<mtime, written>> /\ In("store")' \subseteq In("store")
    BY <1>1, <1>5, <1>6 DEF Erase, Unlink, Move, At, In, TypeInv, TypeOK
  <1>7. ASSUME NEW q \in Procs,
               \/ StartCapture(q) \/ List(q) \/ AlreadyGone(q) \/ Probe(q) \/ Collide(q) \/ Retry(q)
               \/ GiveUp(q) \/ Sweep(q) \/ Skip(q) \/ Expire(q) \/ UnlinkNothing(q) \/ Scan(q)
               \/ Publish(q) \/ Crash(q)
        PROVE  UNCHANGED <<mtime, written>> /\ In("store")' \subseteq In("store")
    BY <1>7 DEF StartCapture, List, AlreadyGone, Probe, Collide, Retry, GiveUp, Sweep, Skip, Expire,
                UnlinkNothing, Scan, Publish, Crash, dirs, In
  <1>8. CASE Tick \/ UNCHANGED vars
    BY <1>1, <1>8 DEF Tick, vars, dirs, In
  <1> QED BY <1>3, <1>4, <1>6, <1>7, <1>8
          DEF Next, Running, Capturing, Retiring, Purging, Indexing, Restore

LEMMA DatedProcess ==
    ASSUME NewestInv, ~MoveFails, ~Restores, ~Crashes, NEW p \in Procs, ProcessTakes(p), [Next]_vars,
           \A q \in Procs \ {p} : proc[q].pc = "idle" /\ proc'[q] = proc[q]
    PROVE Dated'
  <1>1. /\ proc[p] \in Process /\ proc \in [Procs -> Process] /\ TypeInv /\ DistinctPaths
        /\ mtime \in [Evidence -> Stamps] /\ Uncollided /\ Dated
    BY DEF NewestInv, TypeInv, TypeOK
  <1>2. \A q \in Procs \ {p} : ~Marking(q) /\ ~Stamp(q)
    BY DEF Marking, Stamp, Doing
  <1>3. CASE Marking(p)
    <2>1. Probe(p) \/ AlreadyGone(p) \/ Move(p)
      <3>1. ~ \/ StartCapture(p) \/ Claim(p) \/ Finalize(p) \/ Stamp(p) \/ Erase(p) \/ Sweep(p)
              \/ Skip(p) \/ Expire(p) \/ Unlink(p) \/ UnlinkNothing(p) \/ Scan(p) \/ Publish(p)
        BY <1>3 DEF Marking, StartCapture, Claim, Finalize, Stamp, Erase, Sweep, Skip, Expire, Unlink,
                    UnlinkNothing, Scan, Publish, Doing
      <3>2. ~List(p)
        BY <1>1, <1>3, ListDoes DEF Marking
      <3>3. ~Collide(p) /\ ~Retry(p) /\ ~GiveUp(p) /\ ~Crash(p)
        BY <1>1, <1>3 DEF Marking, Uncollided, Collide, Retry, GiveUp, Crash, Doing
      <3> QED BY <3>1, <3>2, <3>3
              DEF ProcessTakes, Running, Capturing, Retiring, Purging, Indexing
    <2>2. CASE Probe(p)
      <3>1. PICK n : proc' = [proc EXCEPT ![p].pc = "move", ![p].target = n, ![p].tries = @ + 1]
        BY <2>2 DEF Probe
      <3>2. proc'[p].pc = "move" /\ proc'[p].todo = proc[p].todo
        BY <1>1, <3>1 DEF Process
      <3>3. UNCHANGED <<where, name, mtime, written>>
        BY <2>2 DEF Probe, dirs
      <3> QED BY <1>1, <1>2, <1>3, <3>2, <3>3 DEF Dated, Marking, In, Current
    <2>3. CASE AlreadyGone(p)
      <3>1. UNCHANGED <<where, name, mtime, written>> /\ ~Taken("store", Current(p))
        BY <2>3 DEF AlreadyGone, dirs
      <3>2. \A d \in In("store") : name[d] # Current(p)
        BY <3>1 DEF Taken, At
      <3> QED BY <1>1, <1>2, <3>1, <3>2 DEF Dated, In
    <2>4. CASE Move(p)
      <3>1. PICK d \in At("store", Current(p)) : where' = [where EXCEPT ![d] = "trash"]
        BY <2>4 DEF Move
      <3>2. \A e \in In("store")' : e \in In("store") /\ e # d
        BY <1>1, <3>1 DEF At, In, TypeInv, TypeOK
      <3>3. \A e \in In("store")' : name[e] # Current(p)
        BY <1>1, <3>1, <3>2 DEF DistinctPaths, At, In
      <3>4. UNCHANGED <<mtime, written>>
        BY <2>4 DEF Move
      <3> QED BY <1>1, <1>2, <3>2, <3>3, <3>4 DEF Dated
    <2> QED BY <2>1, <2>2, <2>3, <2>4
  <1>4. CASE Stamp(p)
    <2>1. proc'[p].pc = "probe" /\ proc'[p].todo = proc[p].todo /\ proc[p].pc = "stamp"
      BY <1>1, <1>4 DEF Stamp, Doing, Process
    <2>2. UNCHANGED <<where, name, written>>
      BY <1>4 DEF Stamp
    <2>3. \A d \in In("store") : name[d] # Current(p) => mtime'[d] = mtime[d]
      BY <1>1, <1>4 DEF Stamp, At, In
    <2>4. \A d \in In("store") : mtime[d] = written[d]
      BY <1>1, <1>2, <2>1 DEF Dated, Marking
    <2> QED BY <2>1, <2>2, <2>3, <2>4 DEF Dated, Marking, In, Current
  <1>5. CASE ~Marking(p) /\ ~Stamp(p)
    BY <1>2, <1>5, DatedRest DEF Dated
  <1> QED BY <1>3, <1>4, <1>5

\* What a listing dooms is surpassed.
LEMMA ListedSurpassed ==
    ASSUME NewestInv, \A q \in Procs : ~Marking(q), MaxBytes = NoLimit, ~MoveFails,
           AutoKeep = 0 \/ AutoKeep >= Keep, NEW p \in Procs, List(p), proc'[p].pc \in Retires
    PROVE Surpassed(p)'
  <1> DEFINE S == In("store")
             n == Cardinality(S)
             k == KeepOf(p)
  <1>1. TypeInv /\ \A d \in S : mtime[d] = written[d]
    BY DEF NewestInv, Dated
  <1>2. IsFiniteSet(S) /\ n \in Nat /\ S \subseteq Evidence
    BY StoreCounted DEF In
  <1>3. PICK s \in Listings(S) : \E left \in Survivors(s, k, NoLimit) :
            /\ proc'[p].pc = AfterListing(Doomed(s, k, left))
            /\ proc'[p].todo = Doomed(s, k, left)
    BY <1>1, ListDoes DEF LimitOf
  <1>4. PICK left \in Survivors(s, k, NoLimit) : proc'[p].todo = Doomed(s, k, left)
    BY <1>3
  <1>5. k \in Nat /\ k >= Keep /\ Keep \in Nat
    <2>1. p \in Captures => AutoKeep > 0
      BY ConstantsAssumption DEF ConstantsAssumption, NewestInv, AutoLists, List, Doing
    <2> QED BY <2>1, KeepsSome, ConstantsAssumption DEF ConstantsAssumption, KeepOf, Procs
  <1>6. s \in [1 .. n -> S] /\ \A i, j \in 1 .. n : i < j => Newer(s[i], s[j])
    BY DEF Listings
  <1> HIDE DEF S, n, k
  <1>7. PICK u, todo :
           /\ u = Least(k, n) /\ todo = proc'[p].todo
           /\ \A i \in DOMAIN todo : u + i \in 1 .. n /\ i \in 1 .. n - u /\ todo[i] = name[s[u + i]]
    <2>1. s \in Seq(S) /\ Len(s) = n
      BY <1>2, <1>6, IsASeq
    <2>2. PICK d : d = Doomed(s, k, left)
      OBVIOUS
    <2>3. \E u : /\ u = Least(k, n) /\ DOMAIN d \subseteq 1 .. n - u
                 /\ \A i \in DOMAIN d : u + i \in 1 .. n /\ d[i] = name[s[u + i]]
      BY <1>5, <2>1, <2>2, DoomedBeyond
    <2> QED BY <1>4, <2>2, <2>3
  <1>8. 1 \in DOMAIN todo
    <2>1. TypeInv'
      BY <1>1, TypeStep DEF Next, Running, Retiring
    <2>2. todo \in Seq(Names) /\ todo # <<>>
      BY <1>7, <2>1 DEF TypeInv, TypeOK, Process, Consistent, Retires
    <2> QED BY <2>2, EmptySeq, LenProperties
  <1>9. u = k /\ k \in 0 .. n
    BY <1>2, <1>5, <1>7, <1>8 DEF Least
  <1> DEFINE K == {s[i] : i \in 1 .. u}
  <1>10. K \subseteq S /\ Cardinality(K) = k
    <2>1. K \subseteq S
      BY <1>2, <1>5, <1>6, <1>9
    <2>2. \A d \in S : where[d] = "store" /\ mtime[d] \in Int
      BY <1>1, ConstantsAssumption DEF ConstantsAssumption, S, In, TypeInv, TypeOK, Stamps
    <2>3. Cardinality({s[i] : i \in 1 .. k}) = k
      <3>1. Named /\ k \in 0 .. Cardinality(S)
        BY <1>1, <1>9 DEF TypeInv, n
      <3> QED BY <1>2, <3>1, <2>2, FirstListed
    <2> QED BY <1>9, <2>1, <2>3
  <1>11. UNCHANGED <<where, name, written, mtime>> /\ S' = S
    BY <1>1, ListDoes DEF dirs, S, In
  <1>12. ASSUME NEW i \in DOMAIN todo, NEW d \in At("store", todo[i])', NEW e \in K
         PROVE  MoreRecent(e, d)'
    <2>1. s[u + i] \in At("store", todo[i]) /\ d \in At("store", todo[i])
      <3>1. s[u + i] \in S
        BY <1>6, <1>7
      <3>2. d \in At("store", todo[i])
        BY <1>11 DEF At, In
      <3> QED BY <1>7, <3>1, <3>2 DEF At, S
    <2>2. d = s[u + i]
      BY <2>1 DEF NewestInv, DistinctPaths, At, In
    <2>3. PICK j \in 1 .. u : e = s[j]
      OBVIOUS
    <2>4. j \in 1 .. n /\ u + i \in 1 .. n /\ j < u + i
      BY <1>2, <1>7, <1>9, <2>3
    <2>5. Newer(e, d)
      BY <1>6, <2>2, <2>3, <2>4
    <2>6. d \in S /\ e \in S
      BY <1>6, <2>2, <2>3, <2>4
    <2> QED BY <1>1, <1>11, <2>5, <2>6 DEF Newer, MoreRecent
  <1> HIDE DEF K
  <1>13. Cardinality(K) >= Keep /\ K \subseteq In("store")'
    BY <1>5, <1>9, <1>10, <1>11 DEF S
  <1> QED BY <1>7, <1>12, <1>13 DEF Surpassed

LEMMA BesideProcess ==
    ASSUME NewestInv, ~MoveFails, MaxBytes = NoLimit, AutoKeep = 0 \/ AutoKeep >= Keep,
           NEW p \in Procs, ProcessTakes(p), proc'[p].pc \in Retires,
           \A q \in Procs \ {p} : proc[q].pc = "idle"
    PROVE Surpassed(p)'
  <1>1. /\ proc[p] \in Process /\ proc \in [Procs -> Process] /\ TypeInv /\ Uncollided
        /\ Consistent(proc[p]) /\ proc[p].todo \in Seq(Names)
    BY DEF NewestInv, TypeInv, TypeOK, Process
  <1>2. CASE List(p)
    <2>1. \A q \in Procs : ~Marking(q)
      BY <1>1, <1>2, ListDoes DEF Marking
    <2> QED BY <1>2, <2>1, ListedSurpassed
  <1>3. CASE Stamp(p) \/ Probe(p)
    <2>1. /\ proc[p].pc \in Retires /\ proc'[p].todo = proc[p].todo /\ UNCHANGED where
      BY <1>1, <1>3, RetiresOn
    <2>2. UNCHANGED <<name, written>>
      BY <1>3 DEF Stamp, Probe, dirs
    <2>3. Surpassed(p)
      BY <2>1 DEF NewestInv, Beside
    <2> QED BY <2>1, <2>2, <2>3 DEF Surpassed, At, In, MoreRecent
  <1>4. CASE AlreadyGone(p) \/ Move(p) \/ Erase(p)
    <2>1. NextDoomed(p, TRUE) /\ proc[p].pc \in Retires
      BY <1>4 DEF AlreadyGone, Move, Erase, Doing, Retires
    <2>2. proc'[p].todo = Tail(proc[p].todo) /\ proc[p].todo # <<>>
      BY <1>1, <2>1, NextDoomedDoes DEF Consistent, Retires
    <2>3. PICK K \in SUBSET In("store") :
            /\ Cardinality(K) >= Keep
            /\ \A i \in DOMAIN proc[p].todo : \A d \in At("store", proc[p].todo[i]) :
                   \A e \in K : MoreRecent(e, d)
      BY <2>1 DEF NewestInv, Beside, Surpassed
    <2>4. PICK todo : /\ todo = proc'[p].todo
                      /\ \A i \in DOMAIN todo :
                            i + 1 \in DOMAIN proc[p].todo /\ todo[i] = proc[p].todo[i + 1]
      <3>1. PICK old \in Seq(Names) : old = proc[p].todo
        BY <1>1
      <3>2. /\ Tail(old) \in Seq(Names) /\ Len(Tail(old)) = Len(old) - 1
            /\ \A i \in 1 .. Len(Tail(old)) : Tail(old)[i] = old[i + 1]
        BY <2>2, <3>1, HeadTailProperties
      <3>3. DOMAIN Tail(old) = 1 .. Len(Tail(old)) /\ DOMAIN old = 1 .. Len(old) /\ Len(old) \in Nat
        BY <3>2, LenProperties
      <3>4. \A i \in DOMAIN Tail(old) : i + 1 \in DOMAIN old /\ Tail(old)[i] = old[i + 1]
        BY <3>2, <3>3
      <3> QED BY <2>2, <3>1, <3>4
    <2>5. 1 \in DOMAIN proc[p].todo /\ proc[p].todo[1] = Current(p)
      BY <1>1, <2>2, EmptySeq, LenProperties DEF Current
    <2>6. UNCHANGED written /\ \A d \in In("store")' : d \in In("store") /\ name'[d] = name[d]
      BY <1>1, <1>4 DEF AlreadyGone, Move, Erase, Destroy, At, In, TypeInv, TypeOK, dirs
    <2>7. K \subseteq In("store")'
      <3>1. \A d \in In("store") : d \in In("store")' \/ d \in At("store", Current(p))
        BY <1>1, <1>4 DEF AlreadyGone, Move, Erase, Destroy, At, In, TypeInv, TypeOK, dirs
      <3>2. \A d \in K : ~MoreRecent(d, d)
        <4>1. \A d \in K : name[d] \in Names /\ written[d] \in Int
          BY <1>1, ConstantsAssumption
             DEF ConstantsAssumption, TypeInv, TypeOK, Named, In, Stamps
        <4> QED BY <4>1, NotBeforeItself DEF MoreRecent
      <3> QED BY <2>3, <2>5, <3>1, <3>2
    <2>8. \A i \in DOMAIN todo : \A d \in At("store", todo[i])' : \A e \in K : MoreRecent(e, d)'
      <3> SUFFICES ASSUME NEW i \in DOMAIN todo, NEW d \in At("store", todo[i])', NEW e \in K
                   PROVE  MoreRecent(e, d)'
        OBVIOUS
      <3>1. d \in At("store", proc[p].todo[i + 1])
        BY <2>4, <2>6 DEF At, In
      <3>2. name'[d] = name[d] /\ name'[e] = name[e]
        BY <2>6, <2>7 DEF At, In
      <3>3. MoreRecent(e, d)
        BY <2>3, <2>4, <3>1
      <3> QED BY <2>6, <3>2, <3>3 DEF MoreRecent
    <2> QED BY <2>3, <2>4, <2>7, <2>8 DEF Surpassed
  <1> QED BY <1>1, <1>2, <1>3, <1>4, RetiringOnly

\* Only a capture that auto-prunes goes on to a listing.
LEMMA ListsNext ==
    ASSUME TypeInv, NEW p \in Procs, ProcessTakes(p), proc'[p].pc = "list"
    PROVE AutoKeep > 0
  <1>1. proc[p] \in Process /\ proc \in [Procs -> Process]
    BY DEF TypeInv, TypeOK
  <1>2. ~StartCapture(p) /\ ~Finalize(p) /\ ~Stamp(p) /\ ~Collide(p) /\ ~Retry(p) /\ ~Expire(p) /\ ~Scan(p)
    BY <1>1 DEF StartCapture, Finalize, Stamp, Collide, Retry, Expire, Scan, Process
  <1>3. ~Claim(p)
    <2> SUFFICES ASSUME Claim(p) PROVE FALSE
      OBVIOUS
    <2>1. PICK d, n : proc' = [proc EXCEPT ![p].pc = "collect", ![p].own = n, ![p].made = d,
                                           ![p].base = NoName]
      BY DEF Claim
    <2> QED BY <1>1, <2>1 DEF Process
  <1>4. ~Probe(p)
    <2> SUFFICES ASSUME Probe(p) PROVE FALSE
      OBVIOUS
    <2>1. PICK n : proc' = [proc EXCEPT ![p].pc = "move", ![p].target = n, ![p].tries = @ + 1]
      BY DEF Probe
    <2> QED BY <1>1, <2>1 DEF Process
  <1>5. ~List(p)
    <2>1. List(p) => proc'[p].pc \in {"sweep", "stamp", "erase"}
      BY ListDoes
    <2> QED BY <2>1
  <1>6. ~AlreadyGone(p) /\ ~Move(p) /\ ~Erase(p) /\ ~GiveUp(p)
    <2>1. \A ok \in BOOLEAN : NextDoomed(p, ok) => proc'[p].pc \in {"sweep", "stamp", "erase"}
      BY NextDoomedDoes
    <2> QED BY <2>1 DEF AlreadyGone, Move, Erase, GiveUp
  <1>7. ~Sweep(p)
    <2> SUFFICES ASSUME Sweep(p) PROVE FALSE
      OBVIOUS
    <2>1. PICK s \in TrashListings :
            proc' = [proc EXCEPT ![p] =
                        IF s = <<>> THEN AfterPurge(p)
                        ELSE [proc[p] EXCEPT !.pc = "stat", !.todo = s, !.cutoff = Cutoff]]
      BY DEF Sweep
    <2> QED BY <1>1, <2>1, AfterPurgeDoes DEF Process
  <1>8. ~Skip(p) /\ ~Unlink(p) /\ ~UnlinkNothing(p)
    BY <1>1, AfterPurgeDoes DEF Skip, Unlink, UnlinkNothing, NextEntry, Process
  <1>9. ~Crash(p)
    BY <1>1 DEF Crash, Idle
  <1>10. Publish(p) => AutoKeep > 0
    BY <1>1 DEF Publish, Idle
  <1> QED BY <1>2, <1>3, <1>4, <1>5, <1>6, <1>7, <1>8, <1>9, <1>10
          DEF ProcessTakes, Running, Capturing, Retiring, Purging, Indexing

\* One prune after the other, on a store where no rename fails.
OneByOne == ~Crashes /\ ~Restores /\ ~MoveFails /\ MaxBytes = NoLimit /\ (AutoKeep = 0 \/ AutoKeep >= Keep)

LEMMA NewestStep ==
    ASSUME NewestInv, Serial, Serial', OneByOne, [Next]_vars
    PROVE NewestInv'
  <1>1. TypeInv /\ TypeInv' /\ DistinctPaths /\ DistinctPaths'
    BY TypeStep, DistinctStep DEF NewestInv
  <1>2. ASSUME NEW p \in Procs, ProcessTakes(p) PROVE NewestInv'
    <2>1. \A q \in Procs \ {p} : proc[q].pc = "idle" /\ proc'[q] = proc[q]
      BY <1>1, <1>2, OthersIdle DEF Doing, OneByOne
    <2>2. Uncollided'
      <3>1. proc'[p].pc # "collided" /\ (proc'[p].pc = "move" => ~Taken("trash", proc[p].target)')
        BY <1>1, <1>2, UncollidedProcess DEF NewestInv, OneByOne
      <3> QED BY <2>1, <3>1 DEF Uncollided
    <2>3. Dated'
      BY <1>2, <2>1, DatedProcess DEF OneByOne
    <2>4. Beside'
      <3>1. proc'[p].pc \in Retires => Surpassed(p)'
        BY <1>2, <2>1, BesideProcess DEF OneByOne
      <3>2. \A q \in Procs \ {p} : proc'[q].pc \notin Retires
        BY <2>1 DEF Retires
      <3> QED BY <3>1, <3>2 DEF Beside
    <2>5. AutoLists'
      <3>1. proc'[p].pc = "list" => AutoKeep > 0
        BY <1>1, <1>2, ListsNext
      <3>2. \A q \in Captures : q \in Procs
        BY DEF Procs
      <3> QED BY <2>1, <3>1, <3>2 DEF AutoLists
    <2> QED BY <1>1, <2>2, <2>3, <2>4, <2>5 DEF NewestInv
  <1>3. CASE Tick \/ UNCHANGED vars
    <2>1. UNCHANGED <<where, name, mtime, written, proc>>
      BY <1>3 DEF Tick, vars, dirs
    <2>2. Uncollided' /\ Dated' /\ AutoLists'
      BY <2>1 DEF NewestInv, Uncollided, Dated, AutoLists, Taken, At, In, Marking, Current
    <2>3. Beside'
      BY <2>1 DEF NewestInv, Beside, Surpassed, At, In, MoreRecent
    <2> QED BY <1>1, <2>2, <2>3 DEF NewestInv
  <1>4. \A d \in Evidence : ~Restore(d)
    BY DEF Restore, OneByOne
  <1> QED BY <1>2, <1>3, <1>4 DEF Next, ProcessTakes

\* What a prune takes out has Keep more recent sessions beside it.
LEMMA TakesSurpassed ==
    ASSUME NewestInv, [Next]_vars, NEW d \in Evidence, where[d] = "store", where'[d] # "store"
    PROVE Cardinality({e \in In("store") : MoreRecent(e, d)}) >= Keep
  <1>1. PICK p \in Procs : Move(p) \/ Erase(p)
    BY Takers DEF NewestInv
  <1>2. d \in At("store", Current(p)) /\ proc[p].pc \in Retires
    BY <1>1 DEF Move, Erase, Destroy, Doing, Retires, At, In, NewestInv, TypeInv, TypeOK
  <1>3. PICK K \in SUBSET In("store") :
            /\ Cardinality(K) >= Keep
            /\ \A i \in DOMAIN proc[p].todo : \A c \in At("store", proc[p].todo[i]) :
                   \A e \in K : MoreRecent(e, c)
    BY <1>2 DEF NewestInv, Beside, Surpassed
  <1>4. 1 \in DOMAIN proc[p].todo /\ proc[p].todo[1] = Current(p)
    <2>1. proc[p].todo \in Seq(Names) /\ proc[p].todo # <<>>
      BY <1>2 DEF NewestInv, TypeInv, TypeOK, Process, Consistent, Retires
    <2> QED BY <2>1, EmptySeq, LenProperties DEF Current
  <1> DEFINE T == {e \in In("store") : MoreRecent(e, d)}
  <1>5. K \subseteq T /\ T \subseteq In("store")
    BY <1>2, <1>3, <1>4
  <1>6. IsFiniteSet(T) /\ IsFiniteSet(K)
    BY <1>5, StoreCounted, FS_Subset
  <1>7. Cardinality(K) <= Cardinality(T) /\ Cardinality(K) \in Nat /\ Cardinality(T) \in Nat
    BY <1>5, <1>6, FS_Subset, FS_CardinalityType
  <1> QED BY <1>3, <1>7, KeepsSome

\* While the store's processes run one after the other, prunes only by number and no
\* rename fails, the sessions retention keeps are those of the newest evidence, whatever
\* the grace stamps did to directory mtimes and whether or not a stamp fails (session.py
\* list_sessions, sessions_beyond_budget, remove_sessions).
THEOREM NewestStay ==
    ASSUME ~Crashes, ~Restores, ~MoveFails, MaxBytes = NoLimit, AutoKeep = 0 \/ AutoKeep >= Keep
    PROVE Spec /\ []Serial => NewestKept
  <1>1. Init => NewestInv
    <2> SUFFICES ASSUME Init PROVE NewestInv
      OBVIOUS
    <2>1. \A p \in Procs : proc[p].pc = "idle"
      BY DEF Init, Idle
    <2>2. DistinctPaths
      BY ConstantsAssumption DEF ConstantsAssumption, Init, DistinctPaths
    <2>3. Dated
      BY DEF Init, Dated
    <2> QED BY <2>1, <2>2, <2>3, TypeInit
            DEF NewestInv, Uncollided, Beside, AutoLists, Retires, Procs
  <1>2. NewestInv /\ Serial /\ Serial' /\ [Next]_vars => NewestInv'
    BY NewestStep DEF OneByOne
  <1>3. NewestInv /\ [Next]_vars
        => [\A d \in Evidence :
              where[d] = "store" /\ where'[d] # "store"
              => Cardinality({e \in In("store") : MoreRecent(e, d)}) >= Keep]_vars
    BY TakesSurpassed
  <1> QED BY <1>1, <1>2, <1>3, PTL DEF Spec, NewestKept

-----------------------------------------------------------------------------
(* Sums over finite sets.                                                  *)

\* A set of numbers that holds 0 and with a number the next holds them all.
LEMMA Inductive ==
    ASSUME NEW T \in SUBSET Nat, 0 \in T, \A n \in T : n + 1 \in T
    PROVE T = Nat
  <1> DEFINE R == {ss \in Nat \X Nat : ss[1] < ss[2]}
             U == Nat \ T
  <1>1. IsWellFoundedOn(R, Nat)
    BY NatLessThanWellFounded DEF OpToRel
  <1>2. \A x, y \in Nat : x < y => <<x, y>> \in R
    OBVIOUS
  <1>3. U \subseteq Nat
    OBVIOUS
  <1> HIDE DEF R, U
  <1> SUFFICES ASSUME U # {} PROVE FALSE
    BY DEF U
  <1>4. PICK n \in U : \A y \in U : ~(<<y, n>> \in R)
    BY <1>1, <1>3, WFMin
  <1>5. n \in Nat \ {0} /\ n - 1 \in Nat /\ n - 1 < n /\ (n - 1) + 1 = n
    BY DEF U
  <1>6. n - 1 \notin U
    BY <1>2, <1>4, <1>5
  <1> QED BY <1>5, <1>6 DEF U

\* A family of subsets of a finite set that holds a set once it holds the set less any of
\* its elements holds them all.
LEMMA SubsetsInductive ==
    ASSUME NEW I, IsFiniteSet(I), NEW G \in SUBSET SUBSET I,
           \A t \in SUBSET I : (\A x \in t : t \ {x} \in G) => t \in G
    PROVE G = SUBSET I
  <1> DEFINE T == {n \in Nat : \A t \in SUBSET I : Cardinality(t) = n => t \in G}
  <1>1. \A t \in SUBSET I : IsFiniteSet(t) /\ Cardinality(t) \in Nat
    BY FS_Subset, FS_CardinalityType
  <1>2. 0 \in T
    <2> SUFFICES ASSUME NEW t \in SUBSET I, Cardinality(t) = 0 PROVE t \in G
      OBVIOUS
    <2>1. t = {}
      BY <1>1, FS_EmptySet
    <2> QED BY <2>1
  <1>3. ASSUME NEW n \in T PROVE n + 1 \in T
    <2> SUFFICES ASSUME NEW t \in SUBSET I, Cardinality(t) = n + 1 PROVE t \in G
      OBVIOUS
    <2>1. ASSUME NEW x \in t PROVE Cardinality(t \ {x}) = n
      <3>1. IsFiniteSet(t) /\ n \in Nat
        BY <1>1
      <3>2. Cardinality(t \ {x}) = Cardinality(t) - 1
        BY <3>1, FS_RemoveElement
      <3> QED BY <3>1, <3>2
    <2>2. \A x \in t : t \ {x} \in G
      BY <2>1
    <2> QED BY <2>2
  <1>4. T = Nat
    <2> HIDE DEF T
    <2>1. T \in SUBSET Nat
      BY DEF T
    <2> QED BY <1>2, <1>3, <2>1, Inductive
  <1> QED BY <1>1, <1>4

Any(t) == CHOOSE x \in t : TRUE

LEMMA AnyOf == \A t : t # {} => Any(t) \in t
  BY DEF Any

\* h holds what the subsets of I weigh.
Adds(h, w, I) == h = [t \in SUBSET I |-> IF t = {} THEN 0 ELSE w[Any(t)] + h[t \ {Any(t)}]]

\* The same, for the subsets of no more than n elements.
AddsUpto(h, w, I, n) ==
    h = [t \in {t \in SUBSET I : Cardinality(t) <= n} |->
            IF t = {} THEN 0 ELSE w[Any(t)] + h[t \ {Any(t)}]]

\* A sum is defined.
LEMMA AddsExist == ASSUME NEW I, IsFiniteSet(I), NEW w PROVE \E h : Adds(h, w, I)
  <1> DEFINE Small(n) == {t \in SUBSET I : Cardinality(t) <= n}
             T == {n \in Nat : \E h : AddsUpto(h, w, I, n)}
  <1>1. \A t \in SUBSET I : IsFiniteSet(t) /\ Cardinality(t) \in Nat
    BY FS_Subset, FS_CardinalityType
  <1>2. 0 \in T
    <2> DEFINE h == [t \in Small(0) |-> 0]
    <2>1. \A t \in Small(0) : t = {}
      BY <1>1, FS_EmptySet
    <2>2. AddsUpto(h, w, I, 0)
      BY <2>1 DEF AddsUpto
    <2> QED BY <2>2
  <1>3. ASSUME NEW n \in T PROVE n + 1 \in T
    <2> SUFFICES \E h : AddsUpto(h, w, I, n + 1)
      OBVIOUS
    <2>1. PICK h : AddsUpto(h, w, I, n)
      OBVIOUS
    <2> DEFINE g == [t \in Small(n + 1) |-> IF t = {} THEN 0 ELSE w[Any(t)] + h[t \ {Any(t)}]]
    <2>2. n \in Nat /\ Small(n) \subseteq Small(n + 1)
      BY <1>1
    <2>3. ASSUME NEW t \in Small(n + 1), t # {} PROVE t \ {Any(t)} \in Small(n)
      <3>1. Cardinality(t \ {Any(t)}) = Cardinality(t) - 1
        BY <1>1, <2>3, AnyOf, FS_RemoveElement
      <3> QED BY <1>1, <2>2, <3>1
    <2>4. \A t \in Small(n) : g[t] = h[t]
      <3>1. h = [t \in Small(n) |-> IF t = {} THEN 0 ELSE w[Any(t)] + h[t \ {Any(t)}]]
        BY <2>1 DEF AddsUpto
      <3> HIDE DEF Small
      <3> QED BY <2>2, <3>1
    <2>5. AddsUpto(g, w, I, n + 1)
      <3>1. \A t \in Small(n + 1) : t # {} => g[t \ {Any(t)}] = h[t \ {Any(t)}]
        BY <2>3, <2>4
      <3>2. g = [t \in Small(n + 1) |-> IF t = {} THEN 0 ELSE w[Any(t)] + g[t \ {Any(t)}]]
        <4> HIDE DEF Small
        <4> QED BY <3>1
      <3> HIDE DEF g
      <3> QED BY <3>2 DEF AddsUpto
    <2> HIDE DEF g, Small
    <2> QED BY <2>5
  <1>4. T = Nat
    <2> HIDE DEF T
    <2>1. T \in SUBSET Nat
      BY DEF T
    <2> QED BY <1>2, <1>3, <2>1, Inductive
  <1>5. Cardinality(I) \in Nat /\ Small(Cardinality(I)) = SUBSET I
    BY FS_CardinalityType, FS_Subset
  <1>6. PICK h : AddsUpto(h, w, I, Cardinality(I))
    BY <1>4, <1>5
  <1>7. h = [t \in Small(Cardinality(I)) |-> IF t = {} THEN 0 ELSE w[Any(t)] + h[t \ {Any(t)}]]
    BY <1>6 DEF AddsUpto
  <1> HIDE DEF Small
  <1> QED BY <1>5, <1>7 DEF Adds

LEMMA AddsValue ==
    ASSUME NEW I, NEW w, NEW h, Adds(h, w, I)
    PROVE h[{}] = 0 /\ \A t \in SUBSET I : t # {} => h[t] = w[Any(t)] + h[t \ {Any(t)}]
  BY DEF Adds

LEMMA AddsNat ==
    ASSUME NEW I, IsFiniteSet(I), NEW w, \A x \in I : w[x] \in Nat, NEW h, Adds(h, w, I)
    PROVE \A t \in SUBSET I : h[t] \in Nat
  <1> DEFINE G == {t \in SUBSET I : h[t] \in Nat}
  <1>1. ASSUME NEW t \in SUBSET I, \A x \in t : t \ {x} \in G PROVE t \in G
    <2>1. CASE t = {}
      BY <2>1, AddsValue
    <2>2. CASE t # {}
      <3>1. Any(t) \in t
        BY <2>2, AnyOf
      <3>2. h[t \ {Any(t)}] \in Nat /\ w[Any(t)] \in Nat /\ h[t] = w[Any(t)] + h[t \ {Any(t)}]
        BY <1>1, <2>2, <3>1, AddsValue
      <3> QED BY <3>2
    <2> QED BY <2>1, <2>2
  <1>2. G = SUBSET I
    <2> HIDE DEF G
    <2>1. G \in SUBSET SUBSET I
      BY DEF G
    <2> QED BY <1>1, <2>1, SubsetsInductive
  <1> QED BY <1>2

\* Any element may be taken first.
Additive(h, w, I) == \A t \in SUBSET I : \A x \in t : h[t] = w[x] + h[t \ {x}]

LEMMA AddsAny ==
    ASSUME NEW I, IsFiniteSet(I), NEW w, \A x \in I : w[x] \in Nat, NEW h, Adds(h, w, I)
    PROVE Additive(h, w, I)
  <1> DEFINE G == {t \in SUBSET I : \A x \in t : h[t] = w[x] + h[t \ {x}]}
  <1>1. ASSUME NEW t \in SUBSET I, \A x \in t : t \ {x} \in G PROVE t \in G
    <2> SUFFICES ASSUME NEW x \in t PROVE h[t] = w[x] + h[t \ {x}]
      OBVIOUS
    <2> DEFINE a == Any(t)
    <2>1. a \in t /\ h[t] = w[a] + h[t \ {a}]
      BY AnyOf, AddsValue
    <2> HIDE DEF a
    <2>2. CASE a = x
      BY <2>1, <2>2
    <2>3. CASE a # x
      <3>1. h[t \ {a}] = w[x] + h[(t \ {a}) \ {x}]
        BY <1>1, <2>1, <2>3
      <3>2. h[t \ {x}] = w[a] + h[(t \ {x}) \ {a}]
        BY <1>1, <2>1, <2>3
      <3>3. (t \ {a}) \ {x} = (t \ {x}) \ {a}
        OBVIOUS
      <3>4. PICK rest \in Nat : rest = h[(t \ {x}) \ {a}]
        BY AddsNat
      <3>5. h[t \ {a}] = w[x] + rest
        BY <3>1, <3>3, <3>4, Zenon
      <3>6. h[t \ {x}] = w[a] + rest
        BY <3>2, <3>4, Zenon
      <3>7. w[a] \in Nat /\ w[x] \in Nat
        BY <2>1
      <3> QED BY <2>1, <3>5, <3>6, <3>7
    <2> QED BY <2>2, <2>3
  <1>2. G = SUBSET I
    <2> HIDE DEF G
    <2>1. G \in SUBSET SUBSET I
      BY DEF G
    <2> QED BY <1>1, <2>1, SubsetsInductive
  <1> QED BY <1>2 DEF Additive

\* More weighs no less.
LEMMA AddsGrow ==
    ASSUME NEW I, IsFiniteSet(I), NEW w, \A x \in I : w[x] \in Nat, NEW h, Adds(h, w, I),
           NEW s \in SUBSET I
    PROVE h[s] \in Nat /\ h[I] \in Nat /\ h[s] <= h[I]
  <1>n. \A t \in SUBSET I : h[t] \in Nat
    BY AddsNat
  <1> DEFINE G == {t \in SUBSET I : s \subseteq t => h[s] <= h[t]}
  <1>1. ASSUME NEW t \in SUBSET I, \A x \in t : t \ {x} \in G PROVE t \in G
    <2> SUFFICES ASSUME s \subseteq t, s # t PROVE h[s] <= h[t]
      BY <1>n
    <2>1. PICK x \in t : x \notin s
      OBVIOUS
    <2>2. h[s] <= h[t \ {x}]
      BY <1>1, <2>1
    <2>3. h[t] = w[x] + h[t \ {x}]
      BY <2>1, AddsAny DEF Additive
    <2>4. w[x] \in Nat /\ h[s] \in Nat /\ h[t \ {x}] \in Nat
      BY <1>n, <2>1
    <2> QED BY <2>2, <2>3, <2>4
  <1>2. G = SUBSET I
    <2> HIDE DEF G
    <2>1. G \in SUBSET SUBSET I
      BY DEF G
    <2> QED BY <1>1, <2>1, SubsetsInductive
  <1> QED BY <1>n, <1>2

\* The same elements weigh the same in whatever set they are taken from.
LEMMA AddsAgree ==
    ASSUME NEW I, IsFiniteSet(I), NEW J \in SUBSET I, NEW w, NEW h, Adds(h, w, I), NEW g, Adds(g, w, J)
    PROVE g[J] = h[J]
  <1> DEFINE G == {t \in SUBSET J : g[t] = h[t]}
  <1>1. ASSUME NEW t \in SUBSET J, \A x \in t : t \ {x} \in G PROVE t \in G
    <2>1. CASE t = {}
      BY <2>1, AddsValue
    <2>2. CASE t # {}
      <3>1. Any(t) \in t
        BY <2>2, AnyOf
      <3>2. g[t \ {Any(t)}] = h[t \ {Any(t)}]
        BY <1>1, <3>1
      <3>3. g[t] = w[Any(t)] + g[t \ {Any(t)}]
        BY <2>2, AddsValue
      <3>4. h[t] = w[Any(t)] + h[t \ {Any(t)}]
        BY <2>2, AddsValue
      <3> QED BY <3>2, <3>3, <3>4
    <2> QED BY <2>1, <2>2
  <1>2. G = SUBSET J
    <2> HIDE DEF G
    <2>1. G \in SUBSET SUBSET J
      BY DEF G
    <2>2. IsFiniteSet(J)
      BY FS_Subset
    <2> QED BY <1>1, <2>1, <2>2, SubsetsInductive
  <1> QED BY <1>2

-----------------------------------------------------------------------------
(* Sums over sessions.                                                     *)

Bytes(S) == MapThenSumSet(LAMBDA d : Size[d], S)

LEMMA BytesAdd ==
    ASSUME NEW S, IsFiniteSet(S)
    PROVE \E h : Adds(h, Size, S) /\ Bytes(S) = h[S]
  <1> DEFINE f == CHOOSE h : Adds(h, Size, S)
  <1>1. Bytes(S) = f[S]
    BY DEF Bytes, MapThenSumSet, MapThenFoldSet, Adds, Any
  <1>2. Adds(f, Size, S)
    BY AddsExist
  <1> QED BY <1>1, <1>2

LEMMA BytesGrow ==
    ASSUME NEW S \in SUBSET Evidence, NEW T \in SUBSET S
    PROVE Bytes(T) \in Nat /\ Bytes(S) \in Nat /\ Bytes(T) <= Bytes(S)
  <1>1. IsFiniteSet(S) /\ IsFiniteSet(T)
    BY FiniteEvidence, FS_Subset
  <1>2. PICK h : Adds(h, Size, S) /\ Bytes(S) = h[S]
    BY <1>1, BytesAdd
  <1>3. PICK g : Adds(g, Size, T) /\ Bytes(T) = g[T]
    BY <1>1, BytesAdd
  <1>4. g[T] = h[T]
    BY <1>1, <1>2, <1>3, AddsAgree
  <1>5. \A x \in S : Size[x] \in Nat
    BY ConstantsAssumption DEF ConstantsAssumption
  <1>6. h[T] \in Nat /\ h[S] \in Nat /\ h[T] <= h[S]
    BY <1>1, <1>2, <1>5, AddsGrow
  <1> QED BY <1>2, <1>3, <1>4, <1>6

\* What the first n of a listing occupy is what they weigh.
LEMMA OccupiedBytes ==
    ASSUME NEW n \in Nat, NEW s, \A i \in 1 .. n : s[i] \in Evidence,
           \A i, j \in 1 .. n : s[i] = s[j] => i = j
    PROVE Occupied(s, n) = Bytes({s[i] : i \in 1 .. n})
  <1> DEFINE S == {s[i] : i \in 1 .. n}
             w == [i \in 1 .. n |-> Size[s[i]]]
  <1>1. IsFiniteSet(1 .. n) /\ IsFiniteSet(S) /\ S \subseteq Evidence
    <2>1. S \subseteq Evidence
      OBVIOUS
    <2> HIDE DEF S
    <2>2. IsFiniteSet(S) /\ IsFiniteSet(1 .. n)
      BY <2>1, FS_Interval, FiniteEvidence
    <2> QED BY <2>1, <2>2
  <1>2. PICK g : Adds(g, w, 1 .. n) /\ Occupied(s, n) = g[1 .. n]
    <2> DEFINE f == CHOOSE h : h = [t \in SUBSET (1 .. n) |->
                                       IF t = {} THEN 0 ELSE Size[s[Any(t)]] + h[t \ {Any(t)}]]
    <2>1. Occupied(s, n) = f[1 .. n]
      BY DEF Occupied, MapThenSumSet, MapThenFoldSet, Any
    <2>2. \A h : Adds(h, w, 1 .. n)
                 <=> h = [t \in SUBSET (1 .. n) |->
                             IF t = {} THEN 0 ELSE Size[s[Any(t)]] + h[t \ {Any(t)}]]
      <3>1. \A t \in SUBSET (1 .. n) : t # {} => w[Any(t)] = Size[s[Any(t)]]
        BY AnyOf
      <3> HIDE DEF w
      <3>2. ASSUME NEW h
            PROVE  [t \in SUBSET (1 .. n) |-> IF t = {} THEN 0 ELSE w[Any(t)] + h[t \ {Any(t)}]]
                     = [t \in SUBSET (1 .. n) |->
                           IF t = {} THEN 0 ELSE Size[s[Any(t)]] + h[t \ {Any(t)}]]
        BY <3>1
      <3> QED BY <3>2, Zenon DEF Adds
    <2>3. \E h : Adds(h, w, 1 .. n)
      <3> HIDE DEF w
      <3> QED BY <1>1, AddsExist
    <2>4. f = [t \in SUBSET (1 .. n) |->
                  IF t = {} THEN 0 ELSE Size[s[Any(t)]] + f[t \ {Any(t)}]]
      <3> HIDE DEF w
      <3> QED BY <2>2, <2>3
    <2>5. Adds(f, w, 1 .. n)
      <3> HIDE DEF f, w
      <3> QED BY <2>2, <2>4
    <2> HIDE DEF f, w
    <2> QED BY <2>1, <2>5
  <1>3. PICK h : Adds(h, Size, S) /\ Bytes(S) = h[S]
    BY <1>1, BytesAdd
  <1>4. \A i \in 1 .. n : w[i] = Size[s[i]] /\ w[i] \in Nat /\ s[i] \in S
    BY ConstantsAssumption DEF ConstantsAssumption
  <1>5. \A x \in S : Size[x] \in Nat
    BY <1>1, ConstantsAssumption DEF ConstantsAssumption
  <1> HIDE DEF w, S
  <1>a. \A t \in SUBSET (1 .. n) : \A x \in t : g[t] = w[x] + g[t \ {x}]
    <2>1. IsFiniteSet(1 .. n)
      BY <1>1
    <2>2. \A i \in 1 .. n : w[i] \in Nat
      BY <1>4
    <2>3. Adds(g, w, 1 .. n)
      BY <1>2
    <2>4. Additive(g, w, 1 .. n)
      BY <2>1, <2>2, <2>3, AddsAny
    <2> QED BY <2>4 DEF Additive
  <1>b. \A u \in SUBSET S : \A x \in u : h[u] = Size[x] + h[u \ {x}]
    <2>1. IsFiniteSet(S)
      BY <1>1
    <2>2. Adds(h, Size, S)
      BY <1>3
    <2>3. Additive(h, Size, S)
      BY <1>5, <2>1, <2>2, AddsAny
    <2> QED BY <2>3 DEF Additive
  <1> DEFINE G == {t \in SUBSET (1 .. n) : g[t] = h[{s[i] : i \in t}]}
  <1>6. ASSUME NEW t \in SUBSET (1 .. n), \A x \in t : t \ {x} \in G PROVE t \in G
    <2> DEFINE u == {s[i] : i \in t}
    <2>1. CASE t = {}
      <3>1. u = {}
        BY <2>1
      <3>2. g[t] = 0 /\ h[u] = 0
        BY <1>2, <1>3, <2>1, <3>1, AddsValue
      <3> QED BY <3>2
    <2>2. CASE t # {}
      <3>1. PICK x \in t : TRUE
        BY <2>2
      <3>2. u \in SUBSET S /\ s[x] \in u
        BY <1>4, <3>1
      <3>3. u \ {s[x]} = {s[i] : i \in t \ {x}}
        BY <3>1
      <3>4. g[t \ {x}] = h[u \ {s[x]}]
        BY <1>6, <3>1, <3>3
      <3>5. g[t] = w[x] + g[t \ {x}]
        BY <1>a, <3>1
      <3>6. h[u] = Size[s[x]] + h[u \ {s[x]}]
        <4> HIDE DEF u
        <4> QED BY <1>b, <3>2
      <3>7. w[x] = Size[s[x]]
        BY <1>4
      <3>8. g[t] = h[u]
        <4> HIDE DEF u
        <4> QED BY <3>4, <3>5, <3>6, <3>7
      <3> QED BY <3>8
    <2> QED BY <2>1, <2>2
  <1>7. G = SUBSET (1 .. n)
    <2> HIDE DEF G
    <2>1. G \in SUBSET SUBSET (1 .. n)
      BY DEF G
    <2> QED BY <1>1, <1>6, <2>1, SubsetsInductive
  <1>8. g[1 .. n] = h[{s[i] : i \in 1 .. n}]
    BY <1>7
  <1> QED BY <1>2, <1>3, <1>8 DEF S

-----------------------------------------------------------------------------
(* A prune that has retired what it set out to.                            *)

\* Nothing is captured, so no session is made.
NoCapture == \A p \in Procs : proc[p].pc \notin {"claim", "collect"}

\* Without a grace window nothing passes through the trash.
Outright == Grace = 0 => \A p \in Procs : proc[p].pc \notin {"stamp", "probe", "move", "collided"}

\* The sessions a prune has still to visit.
ToVisit(p) == {d \in Evidence : \E i \in DOMAIN proc[p].todo : name[d] = proc[p].todo[i]}

\* All that is not to be visited fits the limits of a prune.
Fitting(p) ==
    \E G \in SUBSET Evidence :
        /\ In("store") \subseteq G \cup ToVisit(p)
        /\ Cardinality(G) <= Keep
        /\ MaxBytes # NoLimit => Bytes(G) <= MaxBytes
Fits == \A p \in Procs : proc[p].pc \in Retires \cup {"sweep"} => Fitting(p)
Visited == \A p \in Procs : proc[p].pc = "sweep" => proc[p].todo = <<>>

BudgetInv == TypeInv /\ DistinctPaths /\ Uncollided /\ NoCapture /\ Outright /\ Fits /\ Visited

\* The newest of a listing that the budget leaves, and what is doomed beyond them, are all.
LEMMA DoomedRest ==
    ASSUME NEW S, NEW s \in Seq(S), NEW keep \in Nat, NEW left \in 0 .. Least(keep, Len(s))
    PROVE \A j \in left + 1 .. Len(s) : \E i \in DOMAIN Doomed(s, keep, left) :
              Doomed(s, keep, left)[i] = name[s[j]]
  <1> DEFINE n == Len(s)
             u == Least(keep, n)
  <1>1. n \in Nat /\ u \in 0 .. n /\ left \in 0 .. u
    BY LenProperties DEF Least
  <1>2. Doomed(s, keep, left) = [i \in 1 .. n - left |-> name[s[IF u + i <= n THEN u + i ELSE n - i + 1]]]
    BY DEF Doomed
  <1> TAKE j \in left + 1 .. n
  <1> HIDE DEF n, u
  <1>3. CASE j > u
    <2>1. j - u \in 1 .. n - left /\ u + (j - u) = j /\ j <= n
      BY <1>1, <1>3
    <2>2. Doomed(s, keep, left)[j - u] = name[s[j]]
      BY <1>2, <2>1
    <2> QED BY <1>2, <2>1, <2>2
  <1>4. CASE j <= u
    <2>1. n - j + 1 \in 1 .. n - left /\ ~(u + (n - j + 1) <= n) /\ n - (n - j + 1) + 1 = j
      BY <1>1, <1>4
    <2>2. Doomed(s, keep, left)[n - j + 1] = name[s[j]]
      BY <1>2, <2>1
    <2> QED BY <1>2, <2>1, <2>2
  <1> QED BY <1>1, <1>3, <1>4

\* A listing dooms enough.
LEMMA ListedFits ==
    ASSUME BudgetInv, Captures = {}, ~MoveFails, NEW p \in Procs, List(p)
    PROVE Fitting(p)' /\ (proc'[p].pc = "sweep" => proc'[p].todo = <<>>)
  <1> DEFINE S == In("store")
             n == Cardinality(S)
  <1>1. TypeInv /\ Named /\ UNCHANGED dirs /\ KeepOf(p) = Keep /\ LimitOf(p) = MaxBytes /\ Keep \in Nat
    BY ListDoes, KeepsSome DEF BudgetInv, TypeInv, Procs, KeepOf, LimitOf
  <1>2. IsFiniteSet(S) /\ n \in Nat /\ S \subseteq Evidence
    BY StoreCounted DEF In
  <1>3. PICK s \in Listings(S) : \E left \in Survivors(s, Keep, MaxBytes) :
            /\ proc'[p].pc = AfterListing(Doomed(s, Keep, left))
            /\ proc'[p].todo = Doomed(s, Keep, left)
    BY <1>1, ListDoes
  <1>4. PICK left \in Survivors(s, Keep, MaxBytes) :
            /\ proc'[p].pc = AfterListing(Doomed(s, Keep, left))
            /\ proc'[p].todo = Doomed(s, Keep, left)
    BY <1>3
  <1>5. s \in [1 .. n -> S]
    BY DEF Listings
  <1>6. \A d \in S : where[d] = "store" /\ mtime[d] \in Int
    BY <1>1, ConstantsAssumption DEF ConstantsAssumption, In, TypeInv, TypeOK, Stamps
  <1>7. /\ \A i, j \in 1 .. n : s[i] = s[j] => i = j
        /\ \A d \in S : \E i \in 1 .. n : s[i] = d
    <2>1. \A d \in S : where[d] = "store"
      BY <1>6
    <2>2. \A d \in S : mtime[d] \in Int
      BY <1>6
    <2> HIDE DEF S
    <2> QED BY <1>1, <1>2, <2>1, <2>2, ListingOnce
  <1> HIDE DEF S, n
  <1>8. Len(s) = n
    BY <1>2, <1>5, IsASeq
  <1>9. left \in 0 .. Least(Keep, n) /\ Least(Keep, n) <= Keep /\ Least(Keep, n) <= n
        /\ (MaxBytes # NoLimit => Occupied(s, left) <= MaxBytes)
    BY <1>1, <1>2, <1>8 DEF Survivors, Least
  <1>10. left \in 0 .. n /\ left <= Keep /\ left \in Nat
    BY <1>1, <1>2, <1>9 DEF Least
  <1> DEFINE G == {s[i] : i \in 1 .. left}
  <1>11. G \in SUBSET Evidence
    BY <1>2, <1>5, <1>10
  <1>12. Cardinality(G) <= Keep
    <2>1. \A d \in S : where[d] = "store"
      BY <1>6
    <2>2. \A d \in S : mtime[d] \in Int
      BY <1>6
    <2>3. left \in 0 .. Cardinality(S)
      BY <1>10 DEF n
    <2>4. Cardinality(G) = left
      BY <1>1, <1>2, <2>1, <2>2, <2>3, FirstListed
    <2> QED BY <1>10, <2>4
  <1>13. MaxBytes # NoLimit => Bytes(G) <= MaxBytes
    <2> DEFINE r == [i \in 1 .. left |-> s[i]]
    <2>1. \A i \in 1 .. left : i \in 1 .. n /\ s[i] \in Evidence
      BY <1>2, <1>5, <1>10
    <2>2. Occupied(s, left) = Bytes(G)
      <3>1. \A i, j \in 1 .. left : s[i] = s[j] => i = j
        BY <1>7, <2>1
      <3> QED BY <1>10, <2>1, <3>1, OccupiedBytes
    <2> QED BY <1>9, <2>2
  <1>14. PICK todo : todo = Doomed(s, Keep, left) /\ todo = proc'[p].todo
    BY <1>4
  <1>15. S \subseteq G \cup {d \in Evidence : \E i \in DOMAIN todo : name[d] = todo[i]}
    <2> SUFFICES ASSUME NEW d \in S, d \notin G
                 PROVE  \E i \in DOMAIN todo : name[d] = todo[i]
      BY <1>2
    <2>1. PICK j \in 1 .. n : s[j] = d
      BY <1>7
    <2>2. j \in left + 1 .. n
      BY <1>10, <2>1
    <2>3. \E i \in DOMAIN todo : todo[i] = name[s[j]]
      <3>1. s \in Seq(S) /\ Keep \in Nat /\ left \in 0 .. Least(Keep, Len(s)) /\ j \in left + 1 .. Len(s)
        BY <1>1, <1>2, <1>5, <1>8, <1>9, <2>2, IsASeq
      <3>2. \A k \in left + 1 .. Len(s) : \E i \in DOMAIN Doomed(s, Keep, left) :
               Doomed(s, Keep, left)[i] = name[s[k]]
        BY <3>1, DoomedRest
      <3> QED BY <1>14, <3>1, <3>2
    <2> QED BY <2>1, <2>3
  <1>16. Fitting(p)'
    <2>1. S' = S /\ UNCHANGED name
      BY <1>1 DEF S, In, dirs
    <2>2. In("store")' \subseteq G \cup ToVisit(p)'
      BY <1>14, <1>15, <2>1 DEF ToVisit, S
    <2> HIDE DEF G
    <2> QED BY <1>11, <1>12, <1>13, <2>2 DEF Fitting
  <1>17. proc'[p].pc = "sweep" => proc'[p].todo = <<>>
    BY <1>4 DEF AfterListing, FirstDoomed
  <1> QED BY <1>16, <1>17

\* No step brings a session into the store, and those that stay keep their names.
LEMMA StoreShrinks ==
    ASSUME BudgetInv, Captures = {}, ~Restores, [Next]_vars
    PROVE \A d \in In("store")' : d \in In("store") /\ name'[d] = name[d]
  <1>1. TypeInv /\ NoCapture
    BY DEF BudgetInv
  <1>2. \A q \in Procs : ~StartCapture(q) /\ ~Claim(q) /\ ~Finalize(q)
    BY <1>1 DEF NoCapture, StartCapture, Claim, Finalize, Doing
  <1>3. ASSUME NEW q \in Procs, Move(q) \/ Erase(q) \/ Unlink(q)
        PROVE  \A d \in In("store")' : d \in In("store") /\ name'[d] = name[d]
    BY <1>1, <1>3 DEF Move, Erase, Unlink, Destroy, At, In, TypeInv, TypeOK
  <1>4. ASSUME NEW q \in Procs,
               \/ List(q) \/ Stamp(q) \/ AlreadyGone(q) \/ Probe(q) \/ Collide(q) \/ Retry(q) \/ GiveUp(q)
               \/ Sweep(q) \/ Skip(q) \/ Expire(q) \/ UnlinkNothing(q) \/ Scan(q) \/ Publish(q) \/ Crash(q)
        PROVE  UNCHANGED <<where, name>>
    BY <1>4 DEF List, Stamp, AlreadyGone, Probe, Collide, Retry, GiveUp, Sweep, Skip, Expire,
                UnlinkNothing, Scan, Publish, Crash, dirs
  <1>5. CASE Tick \/ UNCHANGED vars
    BY <1>5 DEF Tick, vars, dirs, In
  <1>6. UNCHANGED <<where, name>> => \A d \in In("store")' : d \in In("store") /\ name'[d] = name[d]
    BY DEF In
  <1> QED BY <1>2, <1>3, <1>4, <1>5, <1>6
          DEF Next, Running, Capturing, Retiring, Purging, Indexing, Restore

\* While the same is to be visited, or what is not any more is gone, the rest fits.
LEMMA FitsOn ==
    ASSUME NEW p \in Procs, Fitting(p),
           \A d \in In("store")' : d \in In("store") /\ name'[d] = name[d],
           \A d \in In("store")' : d \in ToVisit(p) => d \in ToVisit(p)'
    PROVE Fitting(p)'
  <1>1. PICK G \in SUBSET Evidence :
          /\ In("store") \subseteq G \cup ToVisit(p)
          /\ Cardinality(G) <= Keep
          /\ MaxBytes # NoLimit => Bytes(G) <= MaxBytes
    BY DEF Fitting
  <1>2. In("store")' \subseteq G \cup ToVisit(p)'
    BY <1>1
  <1> QED BY <1>1, <1>2 DEF Fitting

LEMMA FitsProcess ==
    ASSUME BudgetInv, Captures = {}, ~MoveFails, ~Restores, NEW p \in Procs, ProcessTakes(p), [Next]_vars,
           proc'[p].pc \in Retires \cup {"sweep"}
    PROVE Fitting(p)' /\ (proc'[p].pc = "sweep" => proc'[p].todo = <<>>)
  <1>1. /\ proc[p] \in Process /\ proc \in [Procs -> Process] /\ TypeInv /\ Uncollided /\ DistinctPaths
        /\ Consistent(proc[p]) /\ proc[p].todo \in Seq(Names)
    BY DEF BudgetInv, TypeInv, TypeOK, Process
  <1>2. \A d \in In("store")' : d \in In("store") /\ name'[d] = name[d]
    BY StoreShrinks
  <1>3. CASE List(p)
    BY <1>3, ListedFits
  <1>4. CASE Stamp(p) \/ Probe(p)
    <2>1. /\ proc[p].pc \in Retires /\ proc'[p].todo = proc[p].todo
      BY <1>1, <1>4, RetiresOn
    <2>2. proc'[p].pc # "sweep"
      <3>1. Stamp(p) => proc'[p].pc = "probe"
        BY <1>1 DEF Stamp, Process
      <3>2. Probe(p) => proc'[p].pc = "move"
        <4> SUFFICES ASSUME Probe(p) PROVE proc'[p].pc = "move"
          OBVIOUS
        <4>1. PICK m : proc' = [proc EXCEPT ![p].pc = "move", ![p].target = m, ![p].tries = @ + 1]
          BY DEF Probe
        <4> QED BY <1>1, <4>1 DEF Process
      <3> QED BY <1>4, <3>1, <3>2
    <2>3. Fitting(p)
      BY <2>1 DEF BudgetInv, Fits
    <2>4. \A d \in In("store")' : d \in ToVisit(p) => d \in ToVisit(p)'
      BY <1>2, <2>1 DEF ToVisit
    <2> QED BY <1>2, <2>2, <2>3, <2>4, FitsOn
  <1>5. CASE AlreadyGone(p) \/ Move(p) \/ Erase(p)
    <2>1. NextDoomed(p, TRUE) /\ proc[p].pc \in Retires
      BY <1>5 DEF AlreadyGone, Move, Erase, Doing, Retires
    <2>2. /\ proc'[p].todo = Tail(proc[p].todo) /\ proc[p].todo # <<>>
          /\ proc'[p].pc = IF Len(proc[p].todo) = 1 THEN "sweep" ELSE FirstDoomed
      BY <1>1, <2>1, NextDoomedDoes DEF Consistent, Retires
    <2>3. Fitting(p)
      BY <2>1 DEF BudgetInv, Fits
    <2>4. \A d \in In("store")' : name[d] # Current(p)
      <3>1. CASE AlreadyGone(p)
        BY <1>2, <3>1 DEF AlreadyGone, Taken, At
      <3>2. CASE Move(p) \/ Erase(p)
        <4>1. PICK d \in At("store", Current(p)) : where'[d] # "store"
          BY <1>1, <3>2 DEF Move, Erase, Destroy, At, In, TypeInv, TypeOK
        <4> QED BY <1>1, <1>2, <4>1 DEF DistinctPaths, At, In
      <3> QED BY <1>5, <3>1, <3>2
    <2>5. PICK old \in Seq(Names) : old = proc[p].todo
      BY <1>1
    <2>6. /\ Tail(old) \in Seq(Names) /\ Len(Tail(old)) = Len(old) - 1 /\ Len(old) \in Nat
          /\ \A i \in 1 .. Len(Tail(old)) : Tail(old)[i] = old[i + 1]
          /\ DOMAIN old = 1 .. Len(old) /\ DOMAIN Tail(old) = 1 .. Len(Tail(old))
      BY <2>2, <2>5, HeadTailProperties, LenProperties
    <2>7. ASSUME NEW d \in In("store")', d \in ToVisit(p) PROVE d \in ToVisit(p)'
      <3>1. PICK i \in DOMAIN old : name[d] = old[i]
        BY <2>5, <2>7 DEF ToVisit
      <3>2. i # 1
        BY <2>4, <2>5, <3>1 DEF Current
      <3>3. i - 1 \in DOMAIN Tail(old) /\ Tail(old)[i - 1] = old[i]
        BY <2>6, <3>1, <3>2
      <3>4. name'[d] = Tail(old)[i - 1] /\ d \in Evidence
        BY <1>2, <3>1, <3>3 DEF In
      <3> QED BY <2>2, <2>5, <3>3, <3>4 DEF ToVisit
    <2>8. Fitting(p)'
      BY <1>2, <2>3, <2>7, FitsOn
    <2>9. proc'[p].pc = "sweep" => proc'[p].todo = <<>>
      <3> SUFFICES ASSUME proc'[p].pc = "sweep" PROVE Tail(old) = <<>>
        BY <2>2, <2>5
      <3>1. Len(old) = 1
        BY <2>2, <2>5 DEF FirstDoomed
      <3>2. Len(Tail(old)) = 0
        BY <2>6, <3>1
      <3> QED BY <2>6, <3>2, EmptySeq
    <2> QED BY <2>8, <2>9
  <1> QED BY <1>1, <1>3, <1>4, <1>5, RetiringOnly

\* Without a grace window no step leads to the trash.
LEMMA OutrightProcess ==
    ASSUME BudgetInv, Grace = 0, ~MoveFails, NEW p \in Procs, ProcessTakes(p)
    PROVE proc'[p].pc \notin {"stamp", "probe", "move", "collided"}
  <1>1. TypeInv /\ Uncollided /\ proc[p].pc \notin {"stamp", "probe", "move", "collided"}
    BY DEF BudgetInv, Outright
  <1> SUFFICES ASSUME proc'[p].pc \in {"stamp", "probe", "move", "collided"} PROVE FALSE
    OBVIOUS
  <1>2. List(p) \/ AlreadyGone(p) \/ Move(p) \/ Erase(p)
    BY <1>1, RetiringOnly DEF Retires, Stamp, Probe, Doing
  <1>3. ~List(p)
    BY <1>1, ListDoes DEF AfterListing, FirstDoomed
  <1>4. AlreadyGone(p) \/ Move(p) \/ Erase(p) => proc'[p].pc \in {"sweep", FirstDoomed}
    BY <1>1, NextDoomedDoes DEF AlreadyGone, Move, Erase
  <1> QED BY <1>2, <1>3, <1>4 DEF FirstDoomed

LEMMA NoCaptureProcess ==
    ASSUME BudgetInv, Captures = {}, NEW p \in Procs, ProcessTakes(p)
    PROVE proc'[p].pc \notin {"claim", "collect"}
  <1>1. /\ proc[p] \in Process /\ proc \in [Procs -> Process] /\ TypeInv
        /\ proc[p].pc \notin {"claim", "collect"}
    BY DEF BudgetInv, TypeInv, TypeOK, NoCapture
  <1>2. ~StartCapture(p) /\ ~Claim(p) /\ ~Finalize(p)
    BY <1>1 DEF StartCapture, Claim, Finalize, Doing
  <1>3. Stamp(p) \/ Collide(p) \/ Retry(p) \/ Expire(p) \/ Scan(p)
        => proc'[p].pc \in {"probe", "collided", "unlink", "publish"}
    BY <1>1 DEF Stamp, Collide, Retry, Expire, Scan, Process
  <1>4. Probe(p) => proc'[p].pc = "move"
    <2> SUFFICES ASSUME Probe(p) PROVE proc'[p].pc = "move"
      OBVIOUS
    <2>1. PICK n : proc' = [proc EXCEPT ![p].pc = "move", ![p].target = n, ![p].tries = @ + 1]
      BY DEF Probe
    <2> QED BY <1>1, <2>1 DEF Process
  <1>5. List(p) => proc'[p].pc \in {"sweep", "stamp", "erase"}
    BY <1>1, ListDoes
  <1>6. AlreadyGone(p) \/ Move(p) \/ Erase(p) \/ GiveUp(p) => proc'[p].pc \in {"sweep", "stamp", "erase"}
    <2>1. \A ok \in BOOLEAN : NextDoomed(p, ok) => proc'[p].pc \in {"sweep", "stamp", "erase"}
      BY <1>1, NextDoomedDoes
    <2> QED BY <2>1 DEF AlreadyGone, Move, Erase, GiveUp
  <1>7. Sweep(p) => proc'[p].pc \in {"scan", "idle", "stat"}
    <2> SUFFICES ASSUME Sweep(p) PROVE proc'[p].pc \in {"scan", "idle", "stat"}
      OBVIOUS
    <2>1. PICK s \in TrashListings :
            proc' = [proc EXCEPT ![p] =
                        IF s = <<>> THEN AfterPurge(p)
                        ELSE [proc[p] EXCEPT !.pc = "stat", !.todo = s, !.cutoff = Cutoff]]
      BY DEF Sweep
    <2> QED BY <1>1, <2>1, AfterPurgeDoes DEF Process
  <1>8. Skip(p) \/ Unlink(p) \/ UnlinkNothing(p) => proc'[p].pc \in {"scan", "idle", "stat"}
    BY <1>1, AfterPurgeDoes DEF Skip, Unlink, UnlinkNothing, NextEntry, Process
  <1>9. Publish(p) \/ Crash(p) => proc'[p].pc \in {"list", "idle"}
    <2>1. [Idle EXCEPT !.pc = "list", !.made = proc[p].made].pc = "list" /\ Idle.pc = "idle"
      BY DEF Idle
    <2> QED BY <1>1, <2>1 DEF Publish, Crash
  <1> QED BY <1>2, <1>3, <1>4, <1>5, <1>6, <1>7, <1>8, <1>9
          DEF ProcessTakes, Running, Capturing, Retiring, Purging, Indexing

\* Where prunes may race: they delete at once, or only one works at a time.
Ordered == Grace = 0 \/ Serial

LEMMA BudgetStep ==
    ASSUME BudgetInv, Ordered, Captures = {}, ~MoveFails, ~Restores, [Next]_vars
    PROVE BudgetInv'
  <1>1. TypeInv /\ TypeInv' /\ DistinctPaths'
    BY TypeStep, DistinctStep DEF BudgetInv
  <1>2. \A d \in In("store")' : d \in In("store") /\ name'[d] = name[d]
    BY StoreShrinks
  <1>3. ASSUME NEW q \in Procs, UNCHANGED <<proc>> \/ proc'[q] = proc[q],
               proc'[q].pc \in Retires \cup {"sweep"}
        PROVE  Fitting(q)' /\ (proc'[q].pc = "sweep" => proc'[q].todo = <<>>)
    <2>1. proc'[q] = proc[q]
      BY <1>3
    <2>2. Fitting(q)
      BY <1>3, <2>1 DEF BudgetInv, Fits
    <2>3. \A d \in In("store")' : d \in ToVisit(q) => d \in ToVisit(q)'
      BY <1>2, <2>1 DEF ToVisit
    <2> QED BY <1>2, <2>1, <2>2, <2>3, FitsOn DEF BudgetInv, Visited
  <1>4. ASSUME NEW p \in Procs, ProcessTakes(p) PROVE BudgetInv'
    <2>1. \A q \in Procs \ {p} : proc'[q] = proc[q]
      BY <1>1, <1>4, OthersWait
    <2>2. Fits' /\ Visited'
      <3>1. \A q \in Procs : proc'[q].pc \in Retires \cup {"sweep"}
                => Fitting(q)' /\ (proc'[q].pc = "sweep" => proc'[q].todo = <<>>)
        BY <1>3, <1>4, <2>1, FitsProcess
      <3> QED BY <3>1 DEF Fits, Visited
    <2>3. NoCapture'
      BY <1>4, <2>1, NoCaptureProcess DEF BudgetInv, NoCapture
    <2>4. Outright'
      BY <1>4, <2>1, OutrightProcess DEF BudgetInv, Outright
    <2>5. Uncollided'
      <3>1. proc'[p].pc # "collided" /\ (proc'[p].pc = "move" => ~Taken("trash", proc[p].target)')
        BY <1>1, <1>4, UncollidedProcess DEF BudgetInv
      <3>2. ASSUME NEW q \in Procs \ {p}
            PROVE  proc'[q].pc # "collided" /\ (proc'[q].pc = "move" => ~Taken("trash", proc[q].target)')
        <4>1. CASE Grace = 0
          BY <2>1, <4>1 DEF BudgetInv, Outright
        <4>2. CASE Serial /\ proc[p].pc # "idle"
          BY <2>1, <4>2 DEF Serial, Doing
        <4>3. CASE proc[p].pc = "idle"
          <5>1. UNCHANGED <<where, name>>
            BY <1>4, <4>3, IdleTakes DEF Doing, StartCapture, List, dirs
          <5> QED BY <2>1, <5>1 DEF BudgetInv, Uncollided, Taken, At, In
        <4> QED BY <4>1, <4>2, <4>3 DEF Ordered
      <3> QED BY <3>1, <3>2 DEF Uncollided
    <2> QED BY <1>1, <2>2, <2>3, <2>4, <2>5 DEF BudgetInv
  <1>5. CASE Tick \/ UNCHANGED vars
    <2>1. UNCHANGED <<where, name, proc>>
      BY <1>5 DEF Tick, vars, dirs
    <2>2. Uncollided' /\ NoCapture' /\ Outright'
      BY <2>1 DEF BudgetInv, Uncollided, NoCapture, Outright, Taken, At, In
    <2>3. Fits' /\ Visited'
      BY <1>3, <2>1 DEF Fits, Visited
    <2> QED BY <1>1, <2>2, <2>3 DEF BudgetInv
  <1>6. \A d \in Evidence : ~Restore(d)
    BY DEF Restore
  <1> QED BY <1>4, <1>5, <1>6 DEF Next, ProcessTakes

\* With nothing captured, nothing restored and no rename failing, a prune that has retired
\* what it set out to leaves a store within both of its limits: any number of prunes that
\* delete at once, or prunes one after the other when there is a grace window; a prune
\* may be killed at any step, and stamps may fail (session.py sessions_beyond_budget,
\* remove_sessions).
THEOREM BudgetKept ==
    ASSUME Captures = {}, ~MoveFails, ~Restores
    PROVE Spec /\ [](Grace = 0 \/ Serial) => []BudgetMet
  <1>1. Init => BudgetInv
    <2> SUFFICES ASSUME Init PROVE BudgetInv
      OBVIOUS
    <2>1. \A p \in Procs : proc[p].pc = "idle"
      BY DEF Init, Idle
    <2>2. DistinctPaths
      BY ConstantsAssumption DEF ConstantsAssumption, Init, DistinctPaths
    <2> QED BY <2>1, <2>2, TypeInit
            DEF BudgetInv, Uncollided, NoCapture, Outright, Fits, Visited, Retires
  <1>2. BudgetInv /\ (Grace = 0 \/ Serial) /\ (Grace = 0 \/ Serial)' /\ [Next]_vars => BudgetInv'
    BY BudgetStep DEF Ordered
  <1>3. BudgetInv => BudgetMet
    <2> SUFFICES ASSUME BudgetInv, NEW p \in Pruners, proc[p].pc = "sweep"
                 PROVE  /\ Cardinality(In("store")) <= Keep
                        /\ MaxBytes # NoLimit => Bytes(In("store")) <= MaxBytes
      BY DEF BudgetMet, Doing, Bytes
    <2>1. p \in Procs
      BY DEF Procs
    <2>2. PICK G \in SUBSET Evidence :
            /\ In("store") \subseteq G \cup ToVisit(p)
            /\ Cardinality(G) <= Keep
            /\ MaxBytes # NoLimit => Bytes(G) <= MaxBytes
      BY <2>1 DEF BudgetInv, Fits, Fitting
    <2>3. ToVisit(p) = {}
      <3>1. proc[p].todo = <<>>
        BY <2>1 DEF BudgetInv, Visited
      <3> QED BY <3>1 DEF ToVisit
    <2>4. In("store") \in SUBSET G
      BY <2>2, <2>3
    <2>5. IsFiniteSet(G) /\ Cardinality(G) \in Nat
      BY FiniteEvidence
    <2>6. Cardinality(In("store")) <= Keep
      BY <2>2, <2>4, <2>5, FS_Subset, StoreCounted, KeepsSome
    <2>7. ASSUME MaxBytes # NoLimit PROVE Bytes(In("store")) <= MaxBytes
      <3>1. MaxBytes \in Nat
        BY <2>7, ConstantsAssumption DEF ConstantsAssumption
      <3>2. Bytes(G) <= MaxBytes
        BY <2>2, <2>7
      <3>3. Bytes(In("store")) \in Nat /\ Bytes(G) \in Nat /\ Bytes(In("store")) <= Bytes(G)
        BY <2>4, BytesGrow
      <3> QED BY <3>1, <3>2, <3>3
    <2> QED BY <2>6, <2>7
  <1> QED BY <1>1, <1>2, <1>3, PTL DEF Spec
=============================================================================
