--------------------------- MODULE DriversProofs ---------------------------
(***************************************************************************)
(* What holds of the drivers under load for plans of any length, ladders   *)
(* of any height and any number of interrupts: types, the teardown of the  *)
(* load generator, the code the matrix ends with, and whose workload a     *)
(* session is given.                                                       *)
(***************************************************************************)
EXTENDS Drivers, FiniteSetTheorems, SequenceTheorems, TLAPS

Session == [owner : Owners, workload : Owners \cup {None}, recorded : Owners \cup {None}]

LadderState ==
    [pc : {"sample", "capture", "attach"}, tier : 0 .. Tiers, before : 0 .. Len(sessions),
     own : Ids \cup {None}]

LEMMA Bounds ==
    /\ Entries \in Nat \ {0} /\ MaxInterrupts \in Nat /\ Tiers \in Nat
    /\ None \notin Int /\ Up \notin Int /\ Traceback \notin Int /\ Ladder \notin Int
BY DriversAssumption

LEMMA AtMostThree ==
    ASSUME NEW a, NEW b, NEW c
    PROVE  Cardinality({a, b, c}) <= 3
<1>1. IsFiniteSet({a}) /\ Cardinality({a}) = 1
    BY FS_Singleton
<1>2. IsFiniteSet({a} \cup {b}) /\ Cardinality({a} \cup {b}) <= 2
    BY <1>1, FS_AddElement
<1>3. Cardinality(({a} \cup {b}) \cup {c}) <= 3
    BY <1>2, FS_AddElement, FS_CardinalityType
<1>4. ({a} \cup {b}) \cup {c} = {a, b, c}
    OBVIOUS
<1> QED
    BY <1>3, <1>4

\* The four markers are four values.
LEMMA Markers == None # Up /\ None # Traceback
<1>1. Cardinality({None, Ladder, Up, Traceback}) = 4
    BY DriversAssumption
<1>2. None # Up
    <2> SUFFICES ASSUME None = Up PROVE FALSE
        OBVIOUS
    <2>1. {None, Ladder, Up, Traceback} = {None, Ladder, Traceback}
        OBVIOUS
    <2>2. Cardinality({None, Ladder, Traceback}) <= 3
        BY AtMostThree
    <2>3. Cardinality({None, Ladder, Traceback}) = 4
        BY <2>1, <1>1, Zenon
    <2> QED
        BY <2>2, <2>3
<1>3. None # Traceback
    <2> SUFFICES ASSUME None = Traceback PROVE FALSE
        OBVIOUS
    <2>1. {None, Ladder, Up, Traceback} = {None, Ladder, Up}
        OBVIOUS
    <2>2. Cardinality({None, Ladder, Up}) <= 3
        BY AtMostThree
    <2>3. Cardinality({None, Ladder, Up}) = 4
        BY <2>1, <1>1, Zenon
    <2> QED
        BY <2>2, <2>3
<1> QED
    BY <1>2, <1>3

-----------------------------------------------------------------------------
(* The teardown of the load generator.                                     *)

\* Outside an experiment the generator is down or was sent SIGKILL, and what is
\* reaped was sent it, unless a Ctrl-C that nothing caught has ended the matrix.
TearDown ==
    /\ pc \in {"entry", "start", "attach", "audit", "exited"} /\ ~bare => leader # Up \/ signal = -9
    /\ pc = "reap" => signal = -9
    /\ bare => pc = "exited"
    /\ bare \in BOOLEAN

LEMMA TearDownAlways == Spec => []TearDown
<1> USE DEF Codes
<1>1. Init => TearDown
    BY Markers DEF Init, TearDown
<1>2. TearDown /\ [Next]_vars => TearDown'
    <2> SUFFICES ASSUME TearDown, [Next]_vars PROVE TearDown'
        OBVIOUS
    <2> USE Bounds DEF TearDown
    <2>1. CASE TakeEntry \/ Finish \/ Refuse \/ Reject
        <3>1. pc \in {"entry", "start"} /\ UNCHANGED <<group, bare>>
            BY <2>1 DEF TakeEntry, Finish, Refuse, Reject
        <3>2. pc' # "reap"
            BY <2>1 DEF TakeEntry, Finish, Refuse, Reject, Exit, Return
        <3> QED
            BY <3>1, <3>2 DEF group
    <2>2. CASE Spawn \/ EnterTry \/ Captured \/ CaptureRaises
        BY <2>2 DEF Spawn, EnterTry, Captured, CaptureRaises, group
    <2>3. CASE Waited \/ WaitTimesOut \/ Poll
        BY <2>3 DEF Waited, WaitTimesOut, Poll, Leave, Exit, group, run
    <2>4. CASE Graced \/ GraceTimesOut \/ Kill \/ Reap
        BY <2>4 DEF Graced, GraceTimesOut, Kill, Reap, Leave, Exit, group, run
    <2>5. CASE Attach \/ Audit
        BY <2>5 DEF Attach, Audit, Exit, Return, group
    <2>6. CASE Interrupt
        <3>1. CASE InterruptedRun \/ InterruptedWait \/ InterruptedGrace
            BY <3>1, <2>6 DEF Interrupt, InterruptedRun, InterruptedWait, InterruptedGrace
        <3>2. CASE Bare
            BY <3>2, <2>6 DEF Interrupt, Bare, Exit
        <3>3. CASE ~(InterruptedRun \/ InterruptedWait \/ InterruptedGrace \/ Bare)
            BY <3>3, <2>6 DEF Interrupt, Exit
        <3> QED
            BY <3>1, <3>2, <3>3
    <2>7. CASE Loadgen
        BY <2>7 DEF Loadgen, LoadDone, LeaderExits, BotsExit
    <2>8. CASE LadderSample \/ LadderCapture \/ LadderAttach
        BY <2>8 DEF LadderSample, LadderCapture, LadderAttach, group
    <2>9. CASE UNCHANGED vars
        BY <2>9 DEF vars, group
    <2> QED
        BY <2>1, <2>2, <2>3, <2>4, <2>5, <2>6, <2>7, <2>8, <2>9 DEF Next, Driver
<1> QED
    BY <1>1, <1>2, PTL DEF Spec

\* Whatever exceptions do, and interrupts that the handlers of the teardown catch, the
\* matrix goes on from no experiment with its generator up and not killed.
THEOREM GeneratorTornDown == Spec => []LoadgenTornDown
<1>1. TearDown => LoadgenTornDown
    BY DEF TearDown, LoadgenTornDown
<1> QED
    BY <1>1, TearDownAlways, PTL

-----------------------------------------------------------------------------
(* Types.                                                                  *)

\* TypeOK in parts that different actions disturb, and where an exception can be
\* under way.
MatrixTyped ==
    /\ plan \in [1 .. Entries -> EntryKinds]
    /\ pc \in {"entry", "start", "spawned", "run", "wait", "poll", "grace", "kill", "reap", "attach",
              "audit", "exited"}
    /\ pos \in 1 .. Entries + 1
    /\ pc \notin {"entry", "exited"} => pos <= Entries
    /\ results \in Seq(Codes) /\ Len(results) = pos - 1
    /\ exit \in {0, 1, 2, None, Traceback} /\ (exit # None <=> pc = "exited")
    /\ interrupts \in 0 .. MaxInterrupts

GroupTyped ==
    /\ leader \in Codes \cup {None, Up}
    /\ pc \in {"spawned", "run", "wait", "poll", "grace", "kill", "reap"} => leader # None
    /\ cohort \in {"none", "up", "gone"} /\ signal \in {0, -15, -9}
    /\ manifest \in {"empty", "torn", "odd", "whole"} /\ bare \in BOOLEAN

StoreTyped ==
    /\ sessions \in Seq(Session)
    /\ cap \in Codes /\ load \in Codes /\ session \in Ids \cup {None} /\ raised \in BOOLEAN
    /\ lad \in LadderState

TypeInv == MatrixTyped /\ GroupTyped /\ StoreTyped

LEMMA TypeInvOK == TypeInv => TypeOK
BY DEF TypeInv, MatrixTyped, GroupTyped, StoreTyped, TypeOK, Session, LadderState

\* scenario_run's code is in the results of the matrix, and the next entry is due.
LEMMA Returned ==
    ASSUME MatrixTyped, pc \notin {"entry", "exited"}, NEW code \in Codes, Return(code),
           interrupts' = interrupts
    PROVE  /\ MatrixTyped'
           /\ results' = Append(results, code) /\ Len(results') = Len(results) + 1
           /\ results'[Len(results')] = code
           /\ \A i \in 1 .. Len(results) : results'[i] = results[i]
<1>1. results' \in Seq(Codes) /\ Len(results') = Len(results) + 1
    BY DEF MatrixTyped, Return
<1>2. results'[Len(results')] = code /\ \A i \in 1 .. Len(results) : results'[i] = results[i]
    BY <1>1 DEF MatrixTyped, Return
<1>3. pos' \in 1 .. Entries + 1 /\ Len(results') = pos' - 1
    BY <1>1, Bounds DEF MatrixTyped, Return
<1> QED
    BY <1>1, <1>2, <1>3 DEF MatrixTyped, Return

LEMMA MatrixTypedStep == MatrixTyped /\ TypeInv /\ [Next]_vars => MatrixTyped'
<1> SUFFICES ASSUME MatrixTyped, TypeInv, [Next]_vars PROVE MatrixTyped'
    OBVIOUS
<1> USE Bounds, Markers
<1>c. cap \in Codes /\ load \in Codes /\ 1 \in Codes /\ 2 \in Codes
    BY DEF TypeInv, StoreTyped, Codes
<1>1. CASE TakeEntry \/ Finish
    BY <1>1 DEF TakeEntry, Finish, Exit, MatrixTyped, matrix
<1>2. CASE Refuse
    <2>1. PICK code \in Codes : Return(code)
        BY <1>2, <1>c DEF Refuse
    <2> QED
        BY <2>1, <1>2, Returned DEF Refuse
<1>3. CASE Reject
    <2>1. pc' = "exited" /\ exit' \in {2, Traceback}
        BY <1>3 DEF Reject, Exit
    <2>2. UNCHANGED <<matrix, interrupts>>
        BY <1>3 DEF Reject
    <2> QED
        BY <2>1, <2>2 DEF MatrixTyped, matrix
<1>12. CASE Spawn \/ EnterTry
    BY <1>12 DEF Spawn, EnterTry, MatrixTyped, matrix
<1>13. CASE Captured \/ CaptureRaises
    BY <1>13 DEF Captured, CaptureRaises, MatrixTyped, matrix
<1>4. CASE Waited \/ WaitTimesOut \/ Poll
    BY <1>4 DEF Waited, WaitTimesOut, Poll, Leave, Exit, MatrixTyped, matrix
<1>5. CASE Graced \/ GraceTimesOut \/ Kill \/ Reap
    BY <1>5 DEF Graced, GraceTimesOut, Kill, Reap, Leave, Exit, MatrixTyped, matrix
<1>6. CASE Attach
    BY <1>6 DEF Attach, Exit, MatrixTyped, matrix
<1>7. CASE Audit
    <2>1. (IF cap # 0 THEN cap ELSE load) \in Codes
        BY <1>c
    <2> QED
        BY <2>1, <1>7, Returned DEF Audit
<1>8. CASE Interrupt
    BY <1>8 DEF Interrupt, InterruptedRun, InterruptedWait, InterruptedGrace, Bare, Exit,
                MatrixTyped, matrix
<1>9. CASE Loadgen
    BY <1>9 DEF Loadgen, LoadDone, LeaderExits, BotsExit, MatrixTyped, matrix
<1>10. CASE LadderSample \/ LadderCapture \/ LadderAttach
    BY <1>10 DEF LadderSample, LadderCapture, LadderAttach, MatrixTyped, matrix
<1>11. CASE UNCHANGED vars
    BY <1>11 DEF vars, MatrixTyped, matrix
<1> QED
    BY <1>1, <1>2, <1>3, <1>4, <1>5, <1>6, <1>7, <1>8, <1>9, <1>10, <1>11, <1>12, <1>13 DEF Next, Driver

LEMMA GroupTypedStep == TypeInv /\ [Next]_vars => GroupTyped'
<1> SUFFICES ASSUME TypeInv, [Next]_vars PROVE GroupTyped'
    OBVIOUS
<1> USE Bounds, Markers DEF TypeInv, GroupTyped, Codes
<1>1. CASE TakeEntry \/ Finish \/ Refuse \/ Reject
    <2>1. pc' \in {"entry", "start", "exited"} /\ UNCHANGED <<group, bare>>
        BY <1>1 DEF TakeEntry, Finish, Refuse, Reject, Exit, Return
    <2> QED
        BY <2>1 DEF group
<1>2. CASE Spawn \/ EnterTry \/ Captured \/ CaptureRaises
    <2>1. CASE Spawn \/ EnterTry
        BY <2>1 DEF Spawn, EnterTry, group
    <2>2. CASE Captured \/ CaptureRaises
        BY <2>2 DEF Captured, CaptureRaises, group
    <2> QED
        BY <1>2, <2>1, <2>2
<1>3. CASE Waited \/ WaitTimesOut \/ Poll
    BY <1>3 DEF Waited, WaitTimesOut, Poll, Leave, Exit, group, run
<1>4. CASE Graced \/ GraceTimesOut \/ Kill \/ Reap
    BY <1>4 DEF Graced, GraceTimesOut, Kill, Reap, Leave, Exit, group, run
<1>5. CASE Attach \/ Audit
    BY <1>5 DEF Attach, Audit, Exit, Return, group
<1>6. CASE Interrupt
    BY <1>6 DEF Interrupt, InterruptedRun, InterruptedWait, InterruptedGrace, Bare, Exit
<1>7. CASE Loadgen
    BY <1>7 DEF Loadgen, LoadDone, LeaderExits, BotsExit
<1>8. CASE LadderSample \/ LadderCapture \/ LadderAttach
    BY <1>8 DEF LadderSample, LadderCapture, LadderAttach, group
<1>9. CASE UNCHANGED vars
    BY <1>9 DEF vars, group
<1> QED
    BY <1>1, <1>2, <1>3, <1>4, <1>5, <1>6, <1>7, <1>8, <1>9 DEF Next, Driver

LEMMA SessionAdded ==
    ASSUME sessions \in Seq(Session), NEW o \in Owners, sessions' = NewSession(o)
    PROVE  /\ sessions' \in Seq(Session) /\ Len(sessions') = Len(sessions) + 1
           /\ sessions'[Len(sessions')].owner = o
           /\ \A s \in Ids : sessions'[s] = sessions[s]
<1> DEFINE new == [owner |-> o, workload |-> None, recorded |-> None]
<1>1. new \in Session
    BY DEF Session
<1>2. sessions' = Append(sessions, new)
    BY DEF NewSession
<1> HIDE DEF new
<1>3. /\ sessions' \in Seq(Session) /\ Len(sessions') = Len(sessions) + 1
      /\ sessions'[Len(sessions) + 1] = new
      /\ \A s \in Ids : sessions'[s] = sessions[s]
    BY <1>1, <1>2, AppendProperties DEF Ids
<1>4. sessions'[Len(sessions')] = new
    BY <1>3
<1> QED
    BY <1>3, <1>4 DEF new

LEMMA SessionChanged ==
    ASSUME sessions \in Seq(Session), NEW s \in Ids, NEW e \in Session,
           sessions' = [sessions EXCEPT ![s] = e]
    PROVE  /\ sessions' \in Seq(Session) /\ Len(sessions') = Len(sessions)
           /\ sessions'[s] = e
           /\ \A t \in Ids \ {s} : sessions'[t] = sessions[t]
BY ExceptSeq DEF Ids

LEMMA Entry ==
    ASSUME sessions \in Seq(Session)
    PROVE  Len(sessions) \in Nat /\ \A s \in Ids : sessions[s] \in Session
BY ElementOfSeq, LenProperties DEF Ids

\* What is typed by the length of the store stays typed when the store grows.
LEMMA StoreGrows ==
    ASSUME StoreTyped, sessions' \in Seq(Session), Len(sessions') >= Len(sessions)
    PROVE  /\ (lad' = lad => lad' \in LadderState')
           /\ (session' = session => session' \in Ids' \cup {None})
<1>1. Len(sessions) \in Nat /\ Len(sessions') \in Nat
    BY Entry, LenProperties DEF StoreTyped
<1>2. Ids \subseteq Ids' /\ 0 .. Len(sessions) \subseteq 0 .. Len(sessions')
    BY <1>1 DEF Ids
<1> QED
    BY <1>2 DEF StoreTyped, LadderState

\* What the attach and the audit of an experiment do to its session.
LEMMA Experiment ==
    ASSUME TypeInv, Attach \/ Audit
    PROVE  sessions' \in Seq(Session) /\ Len(sessions') = Len(sessions)
<1> USE DEF TypeInv, StoreTyped
<1>1. CASE UNCHANGED sessions
    BY <1>1
<1>2. CASE Attach /\ session # None /\ sessions' = [sessions EXCEPT ![session].workload = pos]
    <2>1. session \in Ids /\ pos \in Owners
        BY <1>2, Bounds DEF Attach, MatrixTyped, Owners
    <2> DEFINE e == [sessions[session] EXCEPT !.workload = pos]
    <2>2. e \in Session
        BY <2>1, Entry DEF Session
    <2>3. sessions' = [sessions EXCEPT ![session] = e]
        BY <1>2
    <2> QED
        BY <2>1, <2>2, <2>3, SessionChanged
<1>3. CASE Audit /\ session # None /\ sessions' = Recorded(session)
    <2>1. session \in Ids
        BY <1>3
    <2> DEFINE e == [sessions[session] EXCEPT !.recorded = sessions[session].workload]
    <2>2. e \in Session
        BY <2>1, Entry DEF Session
    <2>3. sessions' = [sessions EXCEPT ![session] = e]
        BY <1>3 DEF Recorded
    <2> QED
        BY <2>1, <2>2, <2>3, SessionChanged
<1> QED
    BY <1>1, <1>2, <1>3 DEF Attach, Audit

LEMMA LadderAttached ==
    ASSUME TypeInv, LadderAttach
    PROVE  sessions' \in Seq(Session) /\ Len(sessions') = Len(sessions)
<1>1. Ladder \in Owners
    BY DEF Owners
<1>2. sessions' \in [Ids -> Session]
    BY <1>1, Entry DEF LadderAttach, TypeInv, StoreTyped, Session
<1>3. Len(sessions) \in Nat
    BY Entry DEF TypeInv, StoreTyped
<1>4. sessions' \in Seq(Session)
    BY <1>2, <1>3, SeqDef DEF Ids
<1> QED
    BY <1>2, <1>3, <1>4, LenProperties DEF Ids

LEMMA StoreTypedStep == TypeInv /\ [Next]_vars => StoreTyped'
<1> SUFFICES ASSUME TypeInv, [Next]_vars PROVE StoreTyped'
    OBVIOUS
<1>s. StoreTyped /\ sessions \in Seq(Session) /\ Len(sessions) \in Nat
    BY Entry DEF TypeInv, StoreTyped
<1>c. 0 \in Codes /\ 1 \in Codes /\ 2 \in Codes /\ 130 \in Codes
    BY DEF Codes
\* Steps that leave the store and the ladder alone.
<1>r. ASSUME UNCHANGED <<sessions, lad>>, cap' \in Codes, load' \in Codes,
             session' \in {session, None}, raised' \in BOOLEAN
      PROVE  StoreTyped'
    <2>1. lad' \in LadderState' /\ Ids' = Ids
        BY <1>s, <1>r, StoreGrows DEF Ids
    <2> QED
        BY <1>s, <1>r, <2>1 DEF StoreTyped
<1>1. CASE TakeEntry \/ Finish \/ Refuse \/ Reject
    <2>1. UNCHANGED <<run, sessions, lad>>
        BY <1>1 DEF TakeEntry, Finish, Refuse, Reject
    <2> QED
        BY <1>s, <1>r, <2>1 DEF run, StoreTyped
<1>2. CASE Spawn \/ EnterTry
    BY <1>2, <1>c, <1>r, <1>s DEF Spawn, EnterTry, run, StoreTyped
<1>3. CASE Captured \/ CaptureRaises \/ (Interrupt /\ InterruptedRun)
    <2>1. /\ cap' \in Codes /\ load' = load /\ lad' = lad /\ raised' \in BOOLEAN
          /\ session' \in {session, Len(sessions')} /\ sessions' \in {sessions, NewSession(pos)}
          /\ session' # session => sessions' = NewSession(pos)
        BY <1>3, <1>c, <1>s DEF Captured, CaptureRaises, Interrupt, InterruptedRun, StoreTyped
    <2>2. pos \in Owners
        BY <1>3, Bounds DEF Captured, CaptureRaises, InterruptedRun, TypeInv, MatrixTyped, Owners
    <2>3. sessions' \in Seq(Session) /\ Len(sessions') \in {Len(sessions), Len(sessions) + 1}
          /\ (session' # session => Len(sessions') = Len(sessions) + 1)
        BY <1>s, <2>1, <2>2, SessionAdded
    <2>4. lad' \in LadderState' /\ session' \in Ids' \cup {None}
        BY <1>s, <2>1, <2>3, StoreGrows DEF Ids
    <2> QED
        BY <1>s, <2>1, <2>3, <2>4 DEF StoreTyped
<1>4. CASE Waited \/ WaitTimesOut \/ Poll \/ Graced \/ GraceTimesOut \/ Kill \/ Reap
    <2>1. /\ UNCHANGED <<sessions, lad, cap, session, raised>>
          /\ load' \in Codes
        BY <1>4, <1>s DEF Waited, WaitTimesOut, Poll, Graced, GraceTimesOut, Kill, Reap, run, StoreTyped
    <2> QED
        BY <1>s, <1>r, <2>1 DEF StoreTyped
<1>5. CASE Attach \/ Audit
    <2>1. UNCHANGED <<run, lad>>
        BY <1>5 DEF Attach, Audit
    <2>2. sessions' \in Seq(Session) /\ Len(sessions') = Len(sessions)
        BY <1>5, Experiment
    <2>3. lad' \in LadderState' /\ session' \in Ids' \cup {None}
        BY <1>s, <2>1, <2>2, StoreGrows DEF run
    <2> QED
        BY <1>s, <2>1, <2>2, <2>3 DEF StoreTyped, run
<1>6. CASE Interrupt /\ ~InterruptedRun
    <2>1. /\ UNCHANGED <<sessions, lad, load, session>>
          /\ cap' \in Codes /\ raised' \in BOOLEAN
        BY <1>6, <1>s, <1>c DEF Interrupt, InterruptedWait, InterruptedGrace, Bare, run, StoreTyped
    <2> QED
        BY <1>s, <1>r, <2>1 DEF StoreTyped
<1>7. CASE Loadgen \/ UNCHANGED vars
    <2>1. UNCHANGED <<run, sessions, lad>>
        BY <1>7 DEF Loadgen, LoadDone, LeaderExits, BotsExit, vars
    <2> QED
        BY <1>s, <1>r, <2>1 DEF run, StoreTyped
<1>8. CASE LadderSample
    <2>1. lad' \in LadderState' /\ Ids' = Ids
        BY <1>8, <1>s, Bounds DEF LadderSample, LadderState, StoreTyped, Ids
    <2> QED
        BY <1>s, <1>8, <2>1 DEF LadderSample, StoreTyped, run
<1>9. CASE LadderCapture
    <2>1. sessions' \in Seq(Session) /\ Len(sessions') \in {Len(sessions), Len(sessions) + 1}
        BY <1>9, <1>s, SessionAdded DEF LadderCapture, Owners
    <2>2. lad' \in LadderState'
        <3>1. CASE sessions' = NewSession(Ladder) /\ lad' = [lad EXCEPT !.pc = "attach", !.own = Len(sessions')]
            <4>1. Len(sessions') = Len(sessions) + 1
                BY <3>1, <1>s, SessionAdded DEF Owners
            <4>2. /\ lad.before \in 0 .. Len(sessions') /\ Len(sessions') \in Ids'
                  /\ lad \in LadderState
                BY <4>1, <1>s DEF StoreTyped, LadderState, Ids
            <4>3. lad'.own \in Ids' /\ lad'.pc = "attach" /\ lad'.before = lad.before
                  /\ lad'.tier = lad.tier /\ lad' = [pc |-> lad'.pc, tier |-> lad'.tier, before |-> lad'.before, own |-> lad'.own]
                BY <3>1, <4>2 DEF LadderState
            <4> QED
                BY <4>2, <4>3 DEF LadderState
        <3>2. CASE lad' = [lad EXCEPT !.pc = "attach"] /\ UNCHANGED sessions
            BY <3>2, <1>s DEF StoreTyped, LadderState, Ids
        <3> QED
            BY <3>1, <3>2, <1>9 DEF LadderCapture
    <2>3. session' \in Ids' \cup {None} /\ UNCHANGED run
        BY <1>9, <1>s, <2>1, StoreGrows DEF LadderCapture, run
    <2> QED
        BY <1>s, <2>1, <2>2, <2>3 DEF StoreTyped, run
<1>10. CASE LadderAttach
    <2>1. sessions' \in Seq(Session) /\ Len(sessions') = Len(sessions)
        BY <1>10, LadderAttached
    <2>2. lad' \in LadderState' /\ UNCHANGED run
        BY <1>10, <1>s, <2>1 DEF LadderAttach, StoreTyped, LadderState, Ids
    <2>3. session' \in Ids' \cup {None}
        BY <1>s, <2>1, <2>2, StoreGrows DEF run
    <2> QED
        BY <1>s, <2>1, <2>2, <2>3 DEF StoreTyped, run
<1> QED
    BY <1>1, <1>2, <1>3, <1>4, <1>5, <1>6, <1>7, <1>8, <1>9, <1>10 DEF Next, Driver

LEMMA TypeInvAlways == Spec => []TypeInv
<1>1. Init => TypeInv
    <2> SUFFICES ASSUME Init PROVE TypeInv
        OBVIOUS
    <2> USE Bounds, Markers DEF Init
    <2>1. MatrixTyped
        BY EmptySeq DEF MatrixTyped
    <2>2. GroupTyped
        BY DEF GroupTyped
    <2>3. sessions \in Seq(Session) /\ Len(sessions) = 0
        BY EmptySeq
    <2>4. lad \in LadderState
        <3>1. 0 \in 0 .. Len(sessions) /\ 0 \in 0 .. Tiers
            BY <2>3
        <3> QED
            BY <3>1 DEF LadderState
    <2>5. StoreTyped
        BY <2>3, <2>4 DEF StoreTyped, Codes
    <2> QED
        BY <2>1, <2>2, <2>5 DEF TypeInv
<1>2. TypeInv /\ [Next]_vars => TypeInv'
    BY MatrixTypedStep, GroupTypedStep, StoreTypedStep DEF TypeInv
<1> QED
    BY <1>1, <1>2, PTL DEF Spec

\* For plans of any length, every state is well formed: a result for each entry that
\* is done, codes the matrix knows, and sessions that exist.
THEOREM TypeCorrect == Spec => []TypeOK
BY TypeInvAlways, TypeInvOK, PTL

-----------------------------------------------------------------------------
(* The code of the matrix.                                                 *)

Bad(code) == code \notin {0, 1}

\* An interrupt is on its way into the code of the matrix: in a result, in the code
\* of the experiment under way, or as the exception that ends it all.
Told ==
    \/ interrupts = 0
    \/ \E i \in 1 .. Len(results) : Bad(results[i])
    \/ exit = Traceback
    \/ raised /\ pc \in {"wait", "poll", "grace", "kill", "reap"}
    \/ cap = 130 /\ pc \in {"wait", "poll", "grace", "kill", "reap", "attach", "audit"}

Verdicts ==
    /\ Told
    /\ raised => pc \in {"wait", "poll", "grace", "kill", "reap", "exited"}
    /\ exit = 0 => pos = Entries + 1 /\ interrupts = 0

LEMMA VerdictsStep == Verdicts /\ TypeInv /\ TypeInv' /\ [Next]_vars => Verdicts'
<1> SUFFICES ASSUME Verdicts, TypeInv, TypeInv', [Next]_vars PROVE Verdicts'
    OBVIOUS
<1> USE Bounds, Markers
<1>t. exit # None <=> pc = "exited"
    BY DEF TypeInv, MatrixTyped
<1>b. Bad(130)
    BY DEF Bad
\* A code is appended: what the results told they still tell.
<1>r. ASSUME NEW code \in Codes, Return(code), interrupts' = interrupts, raised' = raised,
             pc \notin {"entry", "exited"}, ~raised, interrupts # 0 /\ cap = 130 => Bad(code) \/ pc = "start"
      PROVE  Verdicts'
    <2>1. /\ Len(results') = Len(results) + 1 /\ results'[Len(results')] = code
          /\ \A i \in 1 .. Len(results) : results'[i] = results[i]
          /\ Len(results) \in Nat
        BY <1>r, Returned, LenProperties DEF TypeInv, MatrixTyped
    <2>2. (\E i \in 1 .. Len(results) : Bad(results[i])) => \E i \in 1 .. Len(results') : Bad(results'[i])
        BY <2>1
    <2>3. Bad(code) => \E i \in 1 .. Len(results') : Bad(results'[i])
        BY <2>1
    <2>4. exit = None /\ exit' = exit
        BY <1>r, <1>t DEF Return
    <2>5. Told'
        BY <1>r, <2>2, <2>3, <2>4 DEF Verdicts, Told
    <2> QED
        BY <1>r, <2>4, <2>5 DEF Verdicts
\* An exception ends the matrix.
<1>e. ASSUME Exit(Traceback) PROVE Verdicts'
    BY <1>e DEF Exit, Verdicts, Told
<1>1. CASE TakeEntry
    BY <1>1, <1>t DEF TakeEntry, Exit, Verdicts, Told, matrix, run
<1>2. CASE Finish
    <2>1. DOMAIN results = 1 .. Len(results)
        BY LenProperties DEF TypeInv, MatrixTyped
    <2> QED
        BY <1>2, <1>t, <2>1 DEF Finish, Exit, Verdicts, Told, Bad, matrix, run
<1>3. CASE Refuse
    <2>1. PICK code \in {1, 2} : Return(code)
        BY <1>3 DEF Refuse
    <2>2. code \in Codes /\ pc = "start" /\ ~raised /\ UNCHANGED <<run, interrupts>>
        BY <1>3 DEF Refuse, Codes, Verdicts
    <2> QED
        BY <2>1, <2>2, <1>r DEF run
<1>4. CASE Reject
    <2>1. CASE Exit(Traceback)
        BY <2>1, <1>e
    <2>2. CASE Exit(2)
        <3>1. pc = "start" /\ exit' = 2 /\ UNCHANGED <<results, pos, raised, cap, interrupts>>
            BY <1>4, <2>2 DEF Reject, Exit, matrix, run
        <3>2. ~raised /\ exit = None
            BY <3>1, <1>t DEF Verdicts
        <3>3. Told'
            BY <3>1, <3>2 DEF Verdicts, Told
        <3> QED
            BY <3>1, <3>2, <3>3 DEF Verdicts
    <2> QED
        BY <1>4, <2>1, <2>2 DEF Reject
<1>5. CASE Spawn \/ EnterTry \/ Captured \/ CaptureRaises
    BY <1>5, <1>t DEF Spawn, EnterTry, Captured, CaptureRaises, run, Verdicts, Told, matrix
<1>6. CASE Waited \/ WaitTimesOut \/ Poll
    BY <1>6, <1>t DEF Waited, WaitTimesOut, Poll, Leave, Exit, Verdicts, Told, matrix, run
<1>7. CASE Graced \/ GraceTimesOut \/ Kill \/ Reap
    BY <1>7, <1>t DEF Graced, GraceTimesOut, Kill, Reap, Leave, Exit, Verdicts, Told, matrix, run
<1>8. CASE Attach
    <2>1. CASE Exit(Traceback)
        BY <2>1, <1>e
    <2>2. CASE ~Exit(Traceback)
        BY <1>8, <2>2, <1>t DEF Attach, Verdicts, Told, matrix, run
    <2> QED
        BY <2>1, <2>2
<1>9. CASE Audit
    <2> DEFINE code == IF cap # 0 THEN cap ELSE load
    <2>1. /\ code \in Codes /\ Return(code) /\ pc = "audit" /\ ~raised /\ UNCHANGED <<run, interrupts>>
          /\ cap = 130 => Bad(code)
        BY <1>9, <1>b DEF Audit, TypeInv, StoreTyped, Verdicts
    <2> QED
        BY <2>1, <1>r DEF run
<1>10. CASE Interrupt
    <2>1. CASE Exit(Traceback)
        BY <2>1, <1>e
    <2>2. CASE ~Exit(Traceback)
        BY <1>10, <2>2, <1>t DEF Interrupt, InterruptedRun, InterruptedWait, InterruptedGrace, Bare,
                                 Verdicts, Told, matrix
    <2> QED
        BY <2>1, <2>2
<1>11. CASE Loadgen \/ LadderSample \/ LadderCapture \/ LadderAttach \/ UNCHANGED vars
    <2>1. UNCHANGED <<matrix, pc, run, exit, interrupts>>
        BY <1>11 DEF Loadgen, LoadDone, LeaderExits, BotsExit, LadderSample, LadderCapture, LadderAttach, vars
    <2> QED
        BY <2>1 DEF Verdicts, Told, matrix, run
<1> QED
    BY <1>1, <1>2, <1>3, <1>4, <1>5, <1>6, <1>7, <1>8, <1>9, <1>10, <1>11 DEF Next, Driver

\* For plans of any length and any number of interrupts, a matrix that exits 0 has
\* visited its whole plan and nobody interrupted it, and no experiment it left has a
\* generator that was only asked to stop, unless a Ctrl-C fell between the handlers.
THEOREM InterruptsAccounted == Spec => []InterruptsHandled
<1>1. Init => Verdicts
    BY Bounds, Markers DEF Init, Verdicts, Told
<1>2. Spec => []Verdicts
    BY <1>1, VerdictsStep, TypeInvAlways, PTL DEF Spec
<1>3. Verdicts => MatrixVerdict
    BY DEF Verdicts, MatrixVerdict
<1> QED
    BY <1>2, <1>3, GeneratorTornDown, PTL DEF InterruptsHandled

-----------------------------------------------------------------------------
(* Whose workload a session is given.                                       *)

\* The session of the ladder's own capture is newer than its sample.
OwnIsFresh ==
    /\ lad.pc = "capture" => lad.own = None
    /\ lad.pc = "attach" /\ lad.own # None => lad.own > lad.before

LEMMA OwnIsFreshStep == OwnIsFresh /\ TypeInv /\ [Next]_vars => OwnIsFresh'
<1> SUFFICES ASSUME OwnIsFresh, TypeInv, [Next]_vars PROVE OwnIsFresh'
    OBVIOUS
<1>s. lad \in LadderState /\ sessions \in Seq(Session) /\ Len(sessions) \in Nat
    BY Entry DEF TypeInv, StoreTyped
<1>1. CASE LadderSample
    <2>1. lad'.pc = "capture" /\ lad'.own = None
        BY <1>1 DEF LadderSample
    <2> QED
        BY <2>1 DEF OwnIsFresh
<1>2. CASE LadderCapture
    <2>1. CASE sessions' = NewSession(Ladder) /\ lad' = [lad EXCEPT !.pc = "attach", !.own = Len(sessions')]
        <3>1. Len(sessions') = Len(sessions) + 1
            BY <2>1, <1>s, SessionAdded DEF Owners
        <3>2. lad'.pc = "attach" /\ lad'.own = Len(sessions) + 1 /\ lad'.before \in 0 .. Len(sessions)
            BY <2>1, <3>1, <1>s DEF LadderState
        <3> QED
            BY <3>2, <1>s DEF OwnIsFresh
    <2>2. CASE lad' = [lad EXCEPT !.pc = "attach"]
        <3>1. lad'.pc = "attach" /\ lad'.own = None
            BY <1>2, <2>2, <1>s DEF LadderCapture, LadderState, OwnIsFresh
        <3> QED
            BY <3>1 DEF OwnIsFresh
    <2> QED
        BY <1>2, <2>1, <2>2 DEF LadderCapture
<1>3. CASE LadderAttach
    <2>1. lad'.pc = "sample"
        BY <1>3, <1>s DEF LadderAttach, LadderState
    <2> QED
        BY <2>1 DEF OwnIsFresh
<1>4. CASE UNCHANGED lad
    BY <1>4 DEF OwnIsFresh
<1> QED
    BY <1>1, <1>2, <1>3, <1>4
       DEF Next, Driver, Loadgen, TakeEntry, Finish, Refuse, Reject, Spawn, EnterTry, Captured, CaptureRaises,
           Waited, WaitTimesOut, Poll, Graced, GraceTimesOut, Kill, Reap, Attach, Audit, Interrupt,
           InterruptedRun, InterruptedWait, InterruptedGrace, Bare, LoadDone, LeaderExits, BotsExit, vars

\* A result at the end of an audit is that of an Audit step, whose record is whole.
LEMMA AuditRecords ==
    ASSUME TypeInv, [Next]_vars, pc = "audit", results' # results, session # None
    PROVE  sessions'[session].recorded = sessions'[session].workload
<1>1. Audit
    BY DEF Next, Driver, Loadgen, TakeEntry, Finish, Refuse, Reject, Spawn, EnterTry, Captured, CaptureRaises,
           Waited, WaitTimesOut, Poll, Graced, GraceTimesOut, Kill, Reap, Attach, Interrupt, LadderSample,
           LadderCapture, LadderAttach, LoadDone, LeaderExits, BotsExit, matrix, vars
<1>2. session \in Ids
    BY DEF TypeInv, StoreTyped
<1> DEFINE e == [sessions[session] EXCEPT !.recorded = sessions[session].workload]
<1>3. sessions[session] \in Session
    BY <1>2, Entry DEF TypeInv, StoreTyped
<1>4. e \in Session /\ e.recorded = e.workload
    BY <1>3 DEF Session
<1>5. sessions' = [sessions EXCEPT ![session] = e]
    BY <1>1 DEF Audit, Recorded
<1>6. sessions'[session] = e
    BY <1>2, <1>4, <1>5, SessionChanged DEF TypeInv, StoreTyped
<1> QED
    BY <1>4, <1>6

\* Of exactly one session since the sample, the ladder's own is the one.
LEMMA OnlyOwn ==
    ASSUME TypeInv, OwnIsFresh, lad.pc = "attach", lad.own # None, NEW s \in Attributed
    PROVE  s = lad.own
<1> DEFINE fresh == {t \in Ids : t > lad.before}
<1>1. lad \in LadderState
    BY DEF TypeInv, StoreTyped
<1>2. lad.own \in fresh
    BY <1>1 DEF LadderState, OwnIsFresh
<1>3. s \in fresh /\ Cardinality(fresh) = 1
    BY DEF Attributed
<1>4. IsFiniteSet(fresh)
    <2>1. IsFiniteSet(Ids) /\ fresh \subseteq Ids
        BY Entry, FS_Interval DEF Ids, TypeInv, StoreTyped
    <2> QED
        BY <2>1, FS_Subset
<1>5. \E x : fresh = {x}
    BY <1>3, <1>4, FS_Singleton
<1> QED
    BY <1>2, <1>3, <1>5

LEMMA LadderKeepsToItsOwn ==
    ASSUME TypeInv, OwnIsFresh, [Next]_vars, lad.pc = "attach", lad' # lad, lad.own # None
    PROVE  \A s \in Ids : sessions'[s].workload # sessions[s].workload => s = lad.own
<1>1. LadderAttach
    BY DEF Next, Driver, Loadgen, TakeEntry, Finish, Refuse, Reject, Spawn, EnterTry, Captured, CaptureRaises,
           Waited, WaitTimesOut, Poll, Graced, GraceTimesOut, Kill, Reap, Attach, Audit, Interrupt,
           LadderSample, LadderCapture, LoadDone, LeaderExits, BotsExit, vars
<1>2. \A s \in Ids : s \notin Attributed => sessions'[s] = sessions[s]
    BY <1>1 DEF LadderAttach
<1> QED
    BY <1>2, OnlyOwn

\* For any store and any other capture in it: an audited session records the workload
\* it was given, and the ladder gives its workload to its own session alone.
THEOREM WorkloadsAttributed == Spec => WorkloadAttributed
<1>1. Init => OwnIsFresh
    BY DEF Init, OwnIsFresh
<1>2. Spec => []OwnIsFresh
    BY <1>1, OwnIsFreshStep, TypeInvAlways, PTL DEF Spec
<1>3. TypeInv /\ [Next]_vars =>
        [pc = "audit" /\ results' # results /\ session # None =>
            sessions'[session].recorded = sessions'[session].workload]_vars
    BY AuditRecords
<1>4. TypeInv /\ OwnIsFresh /\ [Next]_vars =>
        [lad.pc = "attach" /\ lad' # lad /\ lad.own # None =>
            \A s \in Ids : sessions'[s].workload # sessions[s].workload => s = lad.own]_vars
    BY LadderKeepsToItsOwn
<1>5. Spec => SessionAudited
    BY <1>3, TypeInvAlways, PTL DEF Spec, SessionAudited
<1>6. Spec => LadderAttribution
    BY <1>2, <1>4, TypeInvAlways, PTL DEF Spec, LadderAttribution
<1> QED
    BY <1>5, <1>6 DEF WorkloadAttributed
=============================================================================
