----------------------------- MODULE LiveProofs -----------------------------
(***************************************************************************)
(* What holds of the panel and the monitor for any number of samples,      *)
(* failures and clicks: types, the order of the panel's history, what a    *)
(* freeze shows, and what the monitor prints and logs.                     *)
(***************************************************************************)
EXTENDS Live, SequenceTheorems, WellFoundedInduction, TLAPS

\* The ranges of the panel's fields.
Utcs == 0 .. MaxUtc
Histories == Seq(1 .. MaxUtc)
Statuses == {0, 200, 403, 500}
Notices == 0 .. MaxClicks
TimerSets == SUBSET (1 .. MaxClicks)

Panels == [data : Utcs, status : Statuses, blocked : BOOLEAN, asking : BOOLEAN, frozen : BOOLEAN,
           snap : Utcs, last : Utcs, hist : Histories, depth : Depths, copy : Notices, timers : TimerSets]

LEMMA AskingSet == ASSUME NEW p \in Panels, NEW b \in BOOLEAN PROVE [p EXCEPT !.asking = b] \in Panels
BY DEF Panels

USE LiveAssumption

LEMMA Deepest == Largest(Depths) \in Depths /\ \A d \in Depths : d <= Largest(Depths)
BY DEF Largest

Increasing(h) == \A i, j \in DOMAIN h : i < j => h[i] < h[j]

\* A history of samples up to v, of which v is the newest if there is one.
History(h, d, v) ==
    /\ h \in Seq(1 .. MaxUtc) /\ Len(h) <= d /\ Increasing(h)
    /\ h # <<>> => h[Len(h)] = v

LEMMA HistoryBelow ==
    ASSUME NEW d \in Depths, NEW v \in Nat, NEW h, History(h, d, v)
    PROVE  \A i \in 1 .. Len(h) : h[i] <= v /\ h[i] \in 1 .. MaxUtc
<1> SUFFICES ASSUME NEW i \in 1 .. Len(h) PROVE h[i] <= v /\ h[i] \in 1 .. MaxUtc
    OBVIOUS
<1>1. Len(h) \in Nat /\ DOMAIN h = 1 .. Len(h) /\ h[i] \in 1 .. MaxUtc
    BY LenProperties, ElementOfSeq DEF History
<1>2. h # <<>> /\ Len(h) \in DOMAIN h /\ i \in DOMAIN h
    BY <1>1, EmptySeq
<1>3. h[Len(h)] = v
    BY <1>2 DEF History
<1> QED
    BY <1>1, <1>2, <1>3 DEF History, Increasing

\* pushHistory keeps the order, the length and takes the newest sample last.
LEMMA HistoryPushed ==
    ASSUME NEW d \in Depths, NEW v \in Nat, NEW h, History(h, d, v), NEW u \in 1 .. MaxUtc, v < u
    PROVE  History(Pushed(h, u, d), d, u)
<1> DEFINE longer == Append(h, u)
<1>1. h \in Seq(1 .. MaxUtc) /\ Len(h) \in Nat /\ Len(h) <= d /\ d \in Nat \ {0}
    BY LenProperties DEF History
<1>2. /\ longer \in Seq(1 .. MaxUtc) /\ Len(longer) = Len(h) + 1 /\ longer[Len(h) + 1] = u
      /\ \A i \in 1 .. Len(h) : longer[i] = h[i]
      /\ DOMAIN longer = 1 .. Len(h) + 1
    BY <1>1, AppendProperties, LenProperties
<1> HIDE DEF longer
<1>3. Increasing(longer)
    <2>1. \A i \in 1 .. Len(h) : longer[i] < u
        <3> SUFFICES ASSUME NEW i \in 1 .. Len(h) PROVE longer[i] < u
            OBVIOUS
        <3>1. h[i] <= v /\ h[i] \in 1 .. MaxUtc
            BY HistoryBelow
        <3>2. longer[i] = h[i]
            BY <1>2
        <3> QED
            BY <3>1, <3>2
    <2>2. \A i, j \in 1 .. Len(h) : i < j => h[i] < h[j]
        BY <1>1, LenProperties DEF History, Increasing
    <2> SUFFICES ASSUME NEW i \in DOMAIN longer, NEW j \in DOMAIN longer, i < j
                 PROVE  longer[i] < longer[j]
        BY DEF Increasing
    <2>3. i \in 1 .. Len(h)
        BY <1>1, <1>2
    <2>4. CASE j = Len(h) + 1
        BY <1>2, <2>1, <2>3, <2>4
    <2>5. CASE j # Len(h) + 1
        <3>1. j \in 1 .. Len(h)
            BY <1>1, <1>2, <2>5
        <3> QED
            BY <1>2, <2>2, <2>3, <3>1
    <2> QED
        BY <2>4, <2>5
<1>4. CASE Len(longer) <= d
    <2>1. Pushed(h, u, d) = longer
        BY <1>1, <1>2, <1>4 DEF Pushed, longer
    <2> QED
        BY <1>2, <1>3, <1>4, <2>1 DEF History
<1>5. CASE ~(Len(longer) <= d)
    <2>1. Pushed(h, u, d) = Tail(longer)
        BY <1>1, <1>2, <1>5 DEF Pushed, longer
    <2>2. longer # <<>>
        BY <1>1, <1>2, EmptySeq
    <2>3. /\ Tail(longer) \in Seq(1 .. MaxUtc) /\ Len(Tail(longer)) = Len(h)
          /\ \A i \in 1 .. Len(h) : Tail(longer)[i] = longer[i + 1]
        BY <1>1, <1>2, <2>2, HeadTailProperties
    <2>4. DOMAIN Tail(longer) = 1 .. Len(h)
        BY <2>3, LenProperties
    <2>5. Increasing(Tail(longer))
        <3> SUFFICES ASSUME NEW i \in 1 .. Len(h), NEW j \in 1 .. Len(h), i < j
                     PROVE  Tail(longer)[i] < Tail(longer)[j]
            BY <2>4 DEF Increasing
        <3>1. i + 1 \in DOMAIN longer /\ j + 1 \in DOMAIN longer /\ i + 1 < j + 1
            BY <1>1, <1>2
        <3>2. longer[i + 1] < longer[j + 1]
            BY <1>3, <3>1 DEF Increasing
        <3> QED
            BY <2>3, <3>2
    <2>6. Tail(longer) # <<>> => Tail(longer)[Len(Tail(longer))] = u
        BY <1>1, <1>2, <2>3, EmptySeq
    <2> QED
        BY <1>1, <2>1, <2>3, <2>5, <2>6 DEF History
<1> QED
    BY <1>4, <1>5

\* trimHistory keeps the newest samples.
LEMMA HistoryTrimmed ==
    ASSUME NEW d \in Depths, NEW n \in Depths, NEW v \in Nat, NEW h, History(h, d, v)
    PROVE  History(Trimmed(h, n), n, v)
<1>1. h \in Seq(1 .. MaxUtc) /\ Len(h) \in Nat /\ DOMAIN h = 1 .. Len(h) /\ n \in Nat \ {0}
    BY LenProperties DEF History
<1> DEFINE kept == Min2(Len(h), n)
<1>2. kept \in Nat /\ kept <= n /\ kept <= Len(h) /\ (Len(h) # 0 => kept # 0)
    BY <1>1 DEF Min2
<1> DEFINE from == Len(h) - kept + 1
<1>3. Trimmed(h, n) = SubSeq(h, from, Len(h))
    BY DEF Trimmed
<1> HIDE DEF kept
<1>4. from \in 1 .. Len(h) + 1 /\ Len(h) \in from - 1 .. Len(h)
    BY <1>1, <1>2
<1>5. /\ Trimmed(h, n) \in Seq(1 .. MaxUtc) /\ Len(Trimmed(h, n)) = kept
      /\ \A i \in 1 .. kept : Trimmed(h, n)[i] = h[Len(h) - kept + i]
    BY <1>1, <1>2, <1>3, <1>4, SubSeqProperties
<1>6. DOMAIN Trimmed(h, n) = 1 .. kept
    BY <1>5, LenProperties
<1>7. Increasing(Trimmed(h, n))
    <2> SUFFICES ASSUME NEW i \in 1 .. kept, NEW j \in 1 .. kept, i < j
                 PROVE  Trimmed(h, n)[i] < Trimmed(h, n)[j]
        BY <1>6 DEF Increasing
    <2> DEFINE k == Len(h) - kept + i
               l == Len(h) - kept + j
    <2>1. k \in DOMAIN h /\ l \in DOMAIN h /\ k < l
        BY <1>1, <1>2
    <2>2. h[k] < h[l]
        BY <2>1 DEF History, Increasing
    <2> QED
        BY <1>5, <2>2
<1>8. Trimmed(h, n) # <<>> => Trimmed(h, n)[Len(Trimmed(h, n))] = v
    <2> SUFFICES ASSUME Trimmed(h, n) # <<>> PROVE Trimmed(h, n)[Len(Trimmed(h, n))] = v
        OBVIOUS
    <2>1. kept # 0
        BY <1>5, EmptySeq
    <2>2. h # <<>>
        BY <1>1, <1>2, <2>1, EmptySeq
    <2> QED
        BY <1>1, <1>2, <1>5, <2>1, <2>2 DEF History
<1> QED
    BY <1>2, <1>5, <1>7, <1>8 DEF History

-----------------------------------------------------------------------------
(* The panel. *)

ServerInv ==
    /\ server \in [utc : 1 .. MaxUtc, late : 0 .. MaxUtc, reset : BOOLEAN]
    /\ server.late < server.utc

Sound(p, utc) ==
    /\ p \in Panels /\ History(p.hist, p.depth, p.last) /\ p.last <= p.data /\ p.data <= utc
    /\ p.status = 200 => p.data # 0

PanelInv == Sound(pan, server.utc) /\ failures \in 0 .. MaxFailures /\ clicks \in 0 .. MaxClicks

\* What a panel shows and asks is nothing to its history.
LEMMA SoundKept ==
    ASSUME NEW p, NEW q \in Panels, NEW utc, Sound(p, utc), q.hist = p.hist, q.depth = p.depth,
           q.last = p.last, q.data = p.data, q.status = 200 => p.status = 200
    PROVE  Sound(q, utc)
BY DEF Sound

\* A render takes the newest sample, once.
LEMMA RenderedSound ==
    ASSUME NEW p, NEW utc \in Nat, Sound(p, utc)
    PROVE  Sound(Rendered(p), utc)
<1>1. CASE Rendered(p) = p
    BY <1>1
<1>2. CASE ~(p.frozen \/ p.status # 200 \/ p.data = p.last)
    <2>1. p.data \in 1 .. MaxUtc /\ p.last \in Nat /\ p.last < p.data /\ p.depth \in Depths
        BY <1>2 DEF Sound, Panels, Utcs
    <2> DEFINE h == Pushed(p.hist, p.data, p.depth)
               q == [p EXCEPT !.hist = h, !.last = p.data]
    <2>2. History(h, p.depth, p.data)
        BY <2>1, HistoryPushed DEF Sound
    <2>3. Rendered(p) = q
        BY <1>2 DEF Rendered
    <2>4. h \in Histories
        BY <2>2 DEF History, Histories
    <2> HIDE DEF h
    <2>5. q \in Panels /\ q.hist = h /\ q.last = p.data /\ q.data = p.data /\ q.depth = p.depth /\ q.status = p.status
        BY <2>4 DEF Sound, Panels
    <2> HIDE DEF q
    <2>6. Sound(q, utc)
        BY <2>1, <2>2, <2>5 DEF Sound
    <2> QED
        BY <2>3, <2>6
<1> QED
    BY <1>1, <1>2 DEF Rendered

LEMMA PanelStep == PanelInv /\ ServerInv /\ [Next]_vars => (PanelInv /\ ServerInv)'
<1> SUFFICES ASSUME PanelInv, ServerInv, [Next]_vars PROVE (PanelInv /\ ServerInv)'
    OBVIOUS
<1>s. Sound(pan, server.utc) /\ pan \in Panels /\ server.utc \in 1 .. MaxUtc /\ server.utc \in Nat
      /\ server.utc \in Utcs
    BY DEF PanelInv, ServerInv, Sound, Utcs
<1>f. failures \in 0 .. MaxFailures /\ clicks \in 0 .. MaxClicks
    BY DEF PanelInv
\* A step of the panel: the server stays.
<1>k. ASSUME UNCHANGED server, Sound(pan', server.utc), failures' \in 0 .. MaxFailures, clicks' \in 0 .. MaxClicks
      PROVE  (PanelInv /\ ServerInv)'
    BY <1>k DEF PanelInv, ServerInv
<1>1. CASE Publish
    <2>1. /\ server' \in [utc : 1 .. MaxUtc, late : 0 .. MaxUtc, reset : BOOLEAN]
          /\ server'.late < server'.utc /\ server.utc <= server'.utc
        <3>1. CASE server' = [utc |-> server.utc + 1, late |-> 0, reset |-> TRUE]
            BY <1>1, <1>s, <3>1 DEF Publish
        <3>2. CASE \E d \in 0 .. 1 : server' = [server EXCEPT !.utc = @ + 1, !.late = @ + d]
            <4>1. PICK d \in 0 .. 1 : server' = [server EXCEPT !.utc = @ + 1, !.late = @ + d]
                BY <3>2
            <4>2. server'.utc = server.utc + 1 /\ server'.late = server.late + d /\ server'.reset = server.reset
                BY <4>1 DEF ServerInv
            <4>3. server' = [utc |-> server'.utc, late |-> server'.late, reset |-> server'.reset]
                BY <4>1 DEF ServerInv
            <4>4. server'.utc \in 1 .. MaxUtc /\ server'.late \in 0 .. MaxUtc /\ server'.late < server'.utc
                BY <1>1, <4>2 DEF Publish, ServerInv
            <4> QED
                BY <1>s, <4>2, <4>3, <4>4 DEF ServerInv
        <3> QED
            BY <1>1, <3>1, <3>2 DEF Publish
    <2>2. pan' = pan /\ failures' = failures /\ clicks' = clicks
        BY <1>1 DEF Publish
    <2>3. Sound(pan', server'.utc)
        BY <1>s, <2>1, <2>2 DEF Sound, Panels, Utcs
    <2> QED
        BY <1>f, <2>1, <2>2, <2>3 DEF PanelInv, ServerInv
<1>2. CASE Ask
    <2>1. pan' \in Panels
        BY <1>2, <1>s DEF Ask, Panels
    <2>2. Sound(pan', server.utc)
        BY <1>2, <1>s, <2>1, SoundKept DEF Ask, Panels
    <2> QED
        BY <1>2, <1>f, <1>k, <2>2 DEF Ask, PanelOnly
<1>3. CASE Answer
    <2> DEFINE p == [pan EXCEPT !.asking = FALSE, !.data = server.utc, !.status = 200]
    <2>1. /\ p \in Panels /\ p.hist = pan.hist /\ p.depth = pan.depth /\ p.last = pan.last
          /\ p.data = server.utc
        <3>1. FALSE \in BOOLEAN /\ 200 \in Statuses
            BY DEF Statuses
        <3> HIDE DEF Statuses
        <3> QED
            BY <1>s, <3>1 DEF Panels
    <2>2. pan' = Rendered(p)
        BY <1>3 DEF Answer
    <2> HIDE DEF p
    <2>3. pan.last <= server.utc
        BY <1>s DEF Sound, Panels, Utcs
    <2>4. Sound(p, server.utc)
        BY <1>s, <2>1, <2>3 DEF Sound
    <2>5. Sound(pan', server.utc)
        BY <1>s, <2>2, <2>4, RenderedSound
    <2> QED
        BY <1>3, <1>f, <1>k, <2>5 DEF Answer, PanelOnly
<1>4. CASE Fail
    <2>1. PICK t \in {403, 500} :
              pan' = [pan EXCEPT !.asking = FALSE, !.status = t, !.blocked = Latches(t)]
        BY <1>4 DEF Fail
    <2>2. Latches(t) \in BOOLEAN /\ t \in Statuses /\ t # 200
        BY DEF Latches, Statuses
    <2>3. /\ pan' \in Panels /\ pan'.hist = pan.hist /\ pan'.depth = pan.depth /\ pan'.last = pan.last
          /\ pan'.data = pan.data /\ pan'.status = t
        <3> DEFINE l == Latches(t)
        <3>1. pan \in Panels /\ l \in BOOLEAN /\ t \in Statuses
            BY <1>s, <2>2
        <3>2. pan' = [pan EXCEPT !.asking = FALSE, !.status = t, !.blocked = l]
            BY <2>1
        <3> HIDE DEF l
        <3>3. pan' \in Panels
            <4> DEFINE asked == [pan EXCEPT !.asking = FALSE]
                       answered == [asked EXCEPT !.status = t]
            <4>f. FALSE \in BOOLEAN
                OBVIOUS
            <4>1. asked \in Panels
                BY <3>1, <4>f, AskingSet
            <4>2. pan' = [answered EXCEPT !.blocked = l]
                BY <3>2
            <4> HIDE DEF asked
            <4>3. answered \in Panels
                BY <3>1, <4>1 DEF Panels
            <4> HIDE DEF answered
            <4> QED
                BY <3>1, <4>2, <4>3 DEF Panels
        <3>4. /\ pan'.hist = pan.hist /\ pan'.depth = pan.depth /\ pan'.last = pan.last
              /\ pan'.data = pan.data
            BY <3>1, <3>2 DEF Panels
        <3>5. pan'.status = t
            BY <3>1, <3>2 DEF Panels
        <3> QED
            BY <3>3, <3>4, <3>5
    <2>4. Sound(pan', server.utc)
        BY <1>s, <2>2, <2>3, SoundKept
    <2>5. failures' \in 0 .. MaxFailures
        BY <1>4, <1>f DEF Fail
    <2> QED
        BY <1>4, <1>f, <1>k, <2>4, <2>5 DEF Fail, PanelOnly
<1>5. CASE ToggleFreeze
    <2> DEFINE p == Frozen(pan)
    <2>1. /\ p \in Panels /\ p.hist = pan.hist /\ p.depth = pan.depth /\ p.last = pan.last
          /\ p.data = pan.data /\ p.status = pan.status
        BY <1>s DEF Frozen, Panels
    <2>2. pan' = Rendered(p)
        BY <1>5 DEF ToggleFreeze
    <2> HIDE DEF p
    <2>3. Sound(p, server.utc)
        BY <1>s, <2>1, SoundKept
    <2>4. Sound(pan', server.utc)
        BY <1>s, <2>2, <2>3, RenderedSound
    <2>5. clicks' \in 0 .. MaxClicks
        BY <1>5, <1>f DEF ToggleFreeze, Click
    <2> QED
        BY <1>5, <1>f, <1>k, <2>4, <2>5 DEF ToggleFreeze, PanelOnly
<1>6. ASSUME NEW n \in Depths, ChangeDepth(n) PROVE (PanelInv /\ ServerInv)'
    <2> DEFINE h == Trimmed(pan.hist, n)
               p == [pan EXCEPT !.depth = n, !.hist = h]
    <2>1. pan.depth \in Depths /\ pan.last \in Nat /\ History(pan.hist, pan.depth, pan.last)
        BY <1>s DEF Sound, Panels, Utcs
    <2>2. History(h, n, pan.last)
        BY <2>1, HistoryTrimmed
    <2>3. h \in Histories
        BY <2>2 DEF History, Histories
    <2>4. pan' = Rendered(p)
        BY <1>6 DEF ChangeDepth
    <2> HIDE DEF h
    <2>5. /\ p \in Panels /\ p.hist = h /\ p.depth = n /\ p.last = pan.last
          /\ p.data = pan.data /\ p.status = pan.status
        BY <1>s, <2>3 DEF Panels
    <2> HIDE DEF p
    <2>6. Sound(p, server.utc)
        BY <1>s, <2>2, <2>5 DEF Sound
    <2>7. Sound(pan', server.utc)
        BY <1>s, <2>4, <2>6, RenderedSound
    <2>8. clicks' \in 0 .. MaxClicks
        BY <1>6, <1>f DEF ChangeDepth, Click
    <2> QED
        BY <1>6, <1>f, <1>k, <2>7, <2>8 DEF ChangeDepth, PanelOnly
<1>7. CASE Copy
    <2>1. clicks' \in 1 .. MaxClicks /\ clicks' \in 0 .. MaxClicks
        BY <1>7, <1>f DEF Copy, Click
    <2>2. clicks' \in Notices /\ {clicks'} \in TimerSets
        BY <2>1 DEF Notices, TimerSets
    <2>3. pan' = [pan EXCEPT !.copy = clicks', !.timers = {clicks'}]
        BY <1>7 DEF Copy, Notice
    <2>4. pan' \in Panels
        BY <1>s, <2>2, <2>3 DEF Panels
    <2>5. Sound(pan', server.utc)
        BY <1>s, <2>3, <2>4, SoundKept DEF Panels
    <2> QED
        BY <1>7, <1>f, <1>k, <2>1, <2>5 DEF Copy, PanelOnly
<1>8. ASSUME NEW id \in 1 .. MaxClicks, CopyTimer(id) PROVE (PanelInv /\ ServerInv)'
    <2> DEFINE t == pan.timers \ {id}
    <2>1. t \in TimerSets /\ 0 \in Notices
        BY <1>s DEF Panels, TimerSets, Notices
    <2>2. pan' = [pan EXCEPT !.copy = 0, !.timers = t]
        BY <1>8 DEF CopyTimer
    <2> HIDE DEF t
    <2>3. pan' \in Panels
        BY <1>s, <2>1, <2>2 DEF Panels
    <2>4. Sound(pan', server.utc)
        BY <1>s, <2>2, <2>3, SoundKept DEF Panels
    <2> QED
        BY <1>8, <1>f, <1>k, <2>4 DEF CopyTimer, PanelOnly
<1>9. CASE Sample \/ Done \/ Stop \/ \E size \in 1 .. 2 : Record(size)
    <2>1. UNCHANGED <<server, pan, clicks>>
        BY <1>9 DEF Sample, Done, Stop, Record, MonitorOnly
    <2>2. failures' \in 0 .. MaxFailures
        <3>1. CASE Sample \/ Done \/ Stop
            BY <3>1, <1>f DEF Sample, Done, Stop
        <3>2. CASE \E size \in 1 .. 2 : Record(size)
            <4>1. CASE failures < MaxFailures
                BY <3>2, <4>1, <1>f DEF Record
            <4>2. CASE ~(failures < MaxFailures)
                <5>1. Full => Rotated.log = <<>>
                    BY DEF Rotated
                <5> QED
                    BY <3>2, <4>2, <5>1, <1>f DEF Record
            <4> QED
                BY <4>1, <4>2
        <3> QED
            BY <1>9, <3>1, <3>2
    <2> QED
        BY <1>s, <1>f, <1>k, <2>1, <2>2
<1>10. CASE UNCHANGED vars
    BY <1>10, <1>s, <1>f, <1>k DEF vars
<1> QED
    BY <1>1, <1>2, <1>3, <1>4, <1>5, <1>6, <1>7, <1>8, <1>9, <1>10 DEF Next, Poll

LEMMA PanelAlways == Spec => [](PanelInv /\ ServerInv)
<1>1. Init => PanelInv /\ ServerInv
    <2> SUFFICES ASSUME Init PROVE PanelInv /\ ServerInv
        OBVIOUS
    <2>1. <<>> \in Seq(1 .. MaxUtc) /\ Len(<<>>) = 0
        BY EmptySeq
    <2>2. ServerInv
        BY DEF Init, ServerInv
    <2>3. History(<<>>, Largest(Depths), 0)
        <3>1. DOMAIN <<>> = {}
            BY <2>1
        <3>2. Increasing(<<>>)
            BY <3>1 DEF Increasing
        <3>3. Largest(Depths) \in Nat
            BY Deepest
        <3>4. Len(<<>>) <= Largest(Depths)
            BY <2>1, <3>3
        <3>5. <<>> \in Seq(1 .. MaxUtc)
            BY <2>1
        <3> QED
            BY <3>2, <3>4, <3>5, Zenon DEF History
    <2>4. pan \in Panels
        BY <2>1, Deepest DEF Init, Panels, Utcs, Histories, Statuses, Notices, TimerSets
    <2>5. Sound(pan, server.utc)
        BY <2>3, <2>4 DEF Init, Sound
    <2> QED
        BY <2>2, <2>5 DEF Init, PanelInv
<1> QED
    BY <1>1, PanelStep, PTL DEF Spec

\* For any samples, depths, failures and clicks: the history holds each sample once,
\* in order, and ends with the last one taken.
THEOREM HistoriesInOrder == Spec => []HistoryInOrder
<1>1. PanelInv => HistoryInOrder
    BY DEF PanelInv, Sound, History, Increasing, HistoryInOrder
<1> QED
    BY <1>1, PanelAlways, PTL

\* What a step does to the freeze: nothing, or it takes what is there.
Froze(p, q) ==
    \/ q.frozen = p.frozen /\ q.snap = p.snap
    \/ q.frozen = ~p.frozen /\ (p.frozen \/ q.snap = p.data)

LEMMA RenderedFroze ==
    ASSUME NEW p, NEW q, "frozen" \in DOMAIN q, "snap" \in DOMAIN q, Froze(p, q)
    PROVE  Froze(p, Rendered(q))
<1>1. Rendered(q).frozen = q.frozen /\ Rendered(q).snap = q.snap
    <2>1. CASE Rendered(q) = q
        BY <2>1
    <2>2. CASE Rendered(q) # q
        <3> DEFINE h == Pushed(q.hist, q.data, q.depth)
        <3>1. Rendered(q) = [q EXCEPT !.hist = h, !.last = q.data]
            BY <2>2 DEF Rendered
        <3> HIDE DEF h
        <3> QED
            BY <3>1
    <2> QED
        BY <2>1, <2>2
<1> QED
    BY <1>1 DEF Froze

\* For any run of clicks, answers and failures: a freeze keeps what it froze.
THEOREM FreezesHold == Spec => FreezeHolds
<1>1. ASSUME PanelInv, [Next]_vars, Shown # None, Shown' # None, pan'.frozen PROVE Shown' = Shown
    <2>p. pan \in Panels
        BY <1>1 DEF PanelInv, Sound
    <2>1. Froze(pan, pan')
        <3>1. CASE pan' = pan
            BY <3>1 DEF Froze
        <3>2. CASE Ask
            BY <2>p, <3>2 DEF Ask, Froze, Panels
        <3>3. CASE Answer
            <4> DEFINE q == [pan EXCEPT !.asking = FALSE, !.data = server.utc, !.status = 200]
            <4>1. "frozen" \in DOMAIN q /\ "snap" \in DOMAIN q
                BY <2>p DEF Panels
            <4>2. Froze(pan, q)
                BY <2>p DEF Froze, Panels
            <4>3. pan' = Rendered(q)
                BY <3>3 DEF Answer
            <4> QED
                BY <4>1, <4>2, <4>3, RenderedFroze
        <3>4. CASE Fail
            BY <2>p, <3>4 DEF Fail, Froze, Panels
        <3>5. CASE ToggleFreeze
            <4>1. /\ Froze(pan, Frozen(pan))
                  /\ "frozen" \in DOMAIN Frozen(pan) /\ "snap" \in DOMAIN Frozen(pan)
                BY <2>p DEF Frozen, Froze, Panels
            <4> QED
                BY <3>5, <4>1, RenderedFroze DEF ToggleFreeze
        <3>6. ASSUME NEW n \in Depths, ChangeDepth(n) PROVE Froze(pan, pan')
            <4> DEFINE h == Trimmed(pan.hist, n)
                       q == [pan EXCEPT !.depth = n, !.hist = h]
            <4>1. "frozen" \in DOMAIN q /\ "snap" \in DOMAIN q
                BY <2>p DEF Panels
            <4>2. Froze(pan, q)
                BY <2>p DEF Froze, Panels
            <4>3. pan' = Rendered(q)
                BY <3>6 DEF ChangeDepth
            <4> QED
                BY <4>1, <4>2, <4>3, RenderedFroze
        <3>7. CASE Copy
            BY <2>p, <3>7 DEF Copy, Notice, Froze, Panels
        <3>8. ASSUME NEW id \in 1 .. MaxClicks, CopyTimer(id) PROVE Froze(pan, pan')
            BY <2>p, <3>8 DEF CopyTimer, Froze, Panels
        <3> QED
            BY <1>1, <3>1, <3>2, <3>3, <3>4, <3>5, <3>6, <3>7, <3>8
               DEF Next, Poll, vars, Publish, Sample, Done, Stop, Record, MonitorOnly
    <2>2. pan.frozen \in BOOLEAN
        BY <2>p DEF Panels
    <2>3. pan.status \notin {403, 500} /\ Shown = IF pan.frozen THEN pan.snap ELSE pan.data
        BY <1>1 DEF Shown
    <2>4. Shown' = pan'.snap
        BY <1>1 DEF Shown
    <2>5. CASE pan.frozen
        BY <1>1, <2>1, <2>3, <2>4, <2>5 DEF Froze
    <2>6. CASE ~pan.frozen
        BY <1>1, <2>1, <2>3, <2>4, <2>6 DEF Froze
    <2> QED
        BY <2>5, <2>6
<1>2. [Next]_vars /\ PanelInv => [Shown # None /\ Shown' # None /\ pan'.frozen => Shown' = Shown]_vars
    BY <1>1
<1> QED
    BY <1>2, PanelAlways, PTL DEF Spec, FreezeHolds

-----------------------------------------------------------------------------
(* The monitor. *)

Lates == (0 .. MaxUtc) \cup {None}

\* The counts a monitor has read, against what the server counts now.
CountsInv ==
    /\ mon \in [taken : 0 .. Count, pending : BOOLEAN, late : Lates, first : Lates, printed : Nat,
                stuck : BOOLEAN, exit : {"no", "done", "stopped"}]
    /\ mon.late = None <=> mon.first = None
    /\ mon.late = None => mon.printed = 0
    /\ mon.late # None /\ ~server.reset =>
          mon.first <= mon.late /\ mon.late <= server.late /\ mon.printed = mon.late - mon.first
    /\ mon.pending => mon.taken < Count

Numbered(l, k) == \A i \in DOMAIN l : l[i].n = k - Len(l) + i
Records == [n : 1 .. Count, size : {1, 2}]

LogInv ==
    /\ log \in Seq(Records) /\ previous \in Seq(Records)
    /\ Numbered(previous \o log, mon.taken)

LEMMA NoneApart == \A v \in 0 .. MaxUtc : v # None
OBVIOUS

LEMMA CountsStep == CountsInv /\ ServerInv /\ [Next]_vars => CountsInv'
<1> SUFFICES ASSUME CountsInv, ServerInv, [Next]_vars PROVE CountsInv'
    OBVIOUS
<1> DEFINE Mons == [taken : 0 .. Count, pending : BOOLEAN, late : Lates, first : Lates, printed : Nat,
                    stuck : BOOLEAN, exit : {"no", "done", "stopped"}]
<1>m. mon \in Mons /\ server.late \in 0 .. MaxUtc /\ server.reset \in BOOLEAN
    BY DEF CountsInv, ServerInv
<1>1. CASE Publish
    <2>1. mon' = mon
        BY <1>1 DEF Publish
    <2>2. ~server'.reset => ~server.reset /\ server'.late \in Nat /\ server.late <= server'.late
        <3>1. CASE server' = [utc |-> server.utc + 1, late |-> 0, reset |-> TRUE]
            BY <3>1
        <3>2. CASE \E d \in 0 .. 1 : server' = [server EXCEPT !.utc = @ + 1, !.late = @ + d]
            BY <3>2 DEF ServerInv
        <3> QED
            BY <1>1, <3>1, <3>2 DEF Publish
    <2>3. mon.late # None => mon.late \in 0 .. MaxUtc
        BY <1>m DEF Lates
    <2> QED
        BY <1>m, <2>1, <2>2, <2>3 DEF CountsInv
<1>2. CASE Sample
    <2>1. UNCHANGED server /\ mon.taken < Count
        BY <1>2 DEF Sample, MonitorOnly
    <2>2. CASE mon' = Counted(None)
        <3>1. mon' = [mon EXCEPT !.pending = TRUE]
            BY <2>2 DEF Counted
        <3>2. TRUE \in BOOLEAN
            OBVIOUS
        <3>3. mon' \in Mons
            BY <1>m, <3>1, <3>2
        <3>4. /\ mon'.taken = mon.taken /\ mon'.late = mon.late /\ mon'.first = mon.first
              /\ mon'.printed = mon.printed
            BY <1>m, <3>1
        <3> HIDE DEF Mons
        <3> QED
            BY <2>1, <3>3, <3>4 DEF CountsInv, Mons
    <2>3. CASE mon' = Counted(server.late)
        <3> DEFINE c == server.late
                   f == IF mon.first = None THEN c ELSE mon.first
                   more == IF mon.late # None /\ c > mon.late THEN c - mon.late ELSE 0
                   sum == mon.printed + more
        <3>1. c # None /\ c \in 0 .. MaxUtc
            BY <1>m, NoneApart
        <3>2. mon' = [mon EXCEPT !.pending = TRUE, !.late = c, !.first = f, !.printed = sum]
            BY <2>3, <3>1 DEF Counted
        <3>3. c \in Lates /\ f \in Lates /\ f # None
            BY <1>m, <3>1 DEF Lates
        <3>4. more \in Nat /\ sum \in Nat
            <4>1. CASE mon.late # None /\ c > mon.late
                <5>1. mon.late \in 0 .. MaxUtc
                    BY <1>m, <4>1 DEF Lates
                <5> QED
                    BY <1>m, <3>1, <4>1, <5>1
            <4>2. CASE ~(mon.late # None /\ c > mon.late)
                BY <1>m, <4>2
            <4> QED
                BY <4>1, <4>2
        <3>5. ~server.reset => f <= c /\ sum = c - f
            <4>1. CASE mon.late = None
                BY <1>m, <3>1, <4>1 DEF CountsInv
            <4>2. CASE mon.late # None
                <5>1. mon.late \in 0 .. MaxUtc /\ mon.first \in 0 .. MaxUtc /\ f = mon.first
                    BY <1>m, <4>2 DEF CountsInv, Lates
                <5> QED
                    BY <1>m, <3>1, <4>2, <5>1 DEF CountsInv
            <4> QED
                BY <4>1, <4>2
        <3>6. TRUE \in BOOLEAN
            OBVIOUS
        <3> HIDE DEF c, f, sum
        <3>7. mon' \in Mons
            BY <1>m, <3>2, <3>3, <3>4, <3>6
        <3>8. mon'.taken = mon.taken /\ mon'.late = c /\ mon'.first = f /\ mon'.printed = sum
            BY <1>m, <3>2
        <3>9. c <= server.late
            BY <1>m DEF c
        <3> HIDE DEF Mons
        <3> QED
            BY <2>1, <3>1, <3>3, <3>5, <3>7, <3>8, <3>9 DEF CountsInv, Mons
    <2> QED
        BY <1>2, <2>2, <2>3 DEF Sample
<1>3. ASSUME NEW size \in 1 .. 2, Record(size) PROVE CountsInv'
    <2>1. PICK s : mon' = [mon EXCEPT !.pending = FALSE, !.taken = @ + 1, !.stuck = @ \/ s]
        BY <1>3 DEF Record
    <2> DEFINE b == mon.stuck \/ s
    <2>2. b \in BOOLEAN /\ FALSE \in BOOLEAN
        OBVIOUS
    <2>3. mon.taken + 1 \in 0 .. Count
        BY <1>3, <1>m DEF Record, CountsInv
    <2>4. mon' = [mon EXCEPT !.pending = FALSE, !.taken = mon.taken + 1, !.stuck = b]
        BY <2>1
    <2> HIDE DEF b
    <2>5. mon' \in Mons
        BY <1>m, <2>2, <2>3, <2>4
    <2>6. mon'.late = mon.late /\ mon'.first = mon.first /\ mon'.printed = mon.printed /\ ~mon'.pending
        BY <1>m, <2>4
    <2>7. UNCHANGED server
        BY <1>3 DEF Record, MonitorOnly
    <2> HIDE DEF Mons
    <2> QED
        BY <2>5, <2>6, <2>7 DEF CountsInv, Mons
<1>4. CASE Done \/ Stop
    <2>0. TRUE \in BOOLEAN /\ mon.stuck \in BOOLEAN
        BY <1>m
    <2>1. PICK x \in {"done", "stopped"}, b \in BOOLEAN : mon' = [mon EXCEPT !.exit = x, !.stuck = b]
        <3>1. mon' = [mon EXCEPT !.exit = mon'.exit, !.stuck = mon'.stuck]
              /\ mon'.exit \in {"done", "stopped"} /\ mon'.stuck \in BOOLEAN
            BY <1>4, <1>m, <2>0 DEF Done, Stop
        <3> QED
            BY <3>1
    <2>2. mon' \in Mons
        BY <1>m, <2>1
    <2>3. /\ mon'.late = mon.late /\ mon'.first = mon.first /\ mon'.printed = mon.printed
          /\ mon'.pending = mon.pending /\ mon'.taken = mon.taken
        BY <1>m, <2>1
    <2>4. UNCHANGED server
        BY <1>4 DEF Done, Stop, MonitorOnly
    <2> HIDE DEF Mons
    <2> QED
        BY <2>2, <2>3, <2>4 DEF CountsInv, Mons
<1>5. CASE UNCHANGED <<mon, server>>
    BY <1>5 DEF CountsInv
<1> QED
    BY <1>1, <1>2, <1>3, <1>4, <1>5
       DEF Next, Poll, vars, Ask, Answer, Fail, ToggleFreeze, ChangeDepth, Copy, CopyTimer, PanelOnly

\* An appended record has the next number.
LEMMA NumberedOn ==
    ASSUME NEW l \in Seq(Records), NEW k \in Nat, Numbered(l, k), NEW r \in Records, r.n = k + 1
    PROVE  Numbered(Append(l, r), k + 1)
<1>1. /\ Len(l) \in Nat /\ DOMAIN l = 1 .. Len(l) /\ Len(Append(l, r)) = Len(l) + 1
      /\ DOMAIN Append(l, r) = 1 .. Len(l) + 1 /\ Append(l, r)[Len(l) + 1] = r
      /\ \A i \in 1 .. Len(l) : Append(l, r)[i] = l[i]
    BY AppendProperties, LenProperties
<1> SUFFICES ASSUME NEW i \in 1 .. Len(l) + 1 PROVE Append(l, r)[i].n = k + 1 - (Len(l) + 1) + i
    BY <1>1 DEF Numbered
<1>2. CASE i = Len(l) + 1
    BY <1>1, <1>2
<1>3. CASE i # Len(l) + 1
    <2>1. i \in 1 .. Len(l)
        BY <1>1, <1>3
    <2> QED
        BY <1>1, <2>1 DEF Numbered
<1> QED
    BY <1>2, <1>3

\* What follows in a numbered sequence is numbered.
LEMMA NumberedRest ==
    ASSUME NEW p \in Seq(Records), NEW l \in Seq(Records), NEW k \in Nat, Numbered(p \o l, k)
    PROVE  Numbered(l, k)
<1>1. /\ Len(p) \in Nat /\ Len(l) \in Nat /\ DOMAIN l = 1 .. Len(l) /\ Len(p \o l) = Len(p) + Len(l)
      /\ DOMAIN (p \o l) = 1 .. Len(p) + Len(l)
    BY ConcatProperties, LenProperties
<1>2. \A i \in 1 .. Len(l) : (p \o l)[Len(p) + i] = l[i]
    <2> SUFFICES ASSUME NEW i \in 1 .. Len(l) PROVE (p \o l)[Len(p) + i] = l[i]
        OBVIOUS
    <2> DEFINE j == Len(p) + i
    <2>1. j \in 1 .. Len(p) + Len(l) /\ ~(j <= Len(p)) /\ j - Len(p) = i
        BY <1>1
    <2> QED
        BY <1>1, <2>1, ConcatProperties
<1> SUFFICES ASSUME NEW i \in 1 .. Len(l) PROVE l[i].n = k - Len(l) + i
    BY <1>1 DEF Numbered
<1>3. Len(p) + i \in DOMAIN (p \o l)
    BY <1>1
<1>4. (p \o l)[Len(p) + i].n = k - (Len(p) + Len(l)) + (Len(p) + i)
    BY <1>1, <1>3 DEF Numbered
<1> QED
    BY <1>1, <1>2, <1>4

LEMMA LogStep == LogInv /\ CountsInv /\ [Next]_vars => LogInv'
<1> SUFFICES ASSUME LogInv, CountsInv, [Next]_vars PROVE LogInv'
    OBVIOUS
<1>t. mon.taken \in Nat
    BY DEF CountsInv
<1>1. ASSUME NEW size \in 1 .. 2, Record(size) PROVE LogInv'
    <2> DEFINE r == [n |-> mon.taken + 1, size |-> size]
    <2>1. r \in Records /\ r.n = mon.taken + 1
        BY <1>1, <1>t DEF Records, Record, CountsInv
    <2> HIDE DEF r
    <2>2. PICK kept \in {[log |-> log, previous |-> previous], Rotated} \cup Stuck :
              log' = Append(kept.log, r) /\ previous' = kept.previous
        BY <1>1 DEF Record, r
    <2>3. mon'.taken = mon.taken + 1
        BY <1>1 DEF Record, CountsInv
    <2>e. /\ <<>> \in Seq(Records) /\ \A l \in Seq(Records) : <<>> \o l = l /\ l \o <<>> = l
        BY EmptySeq, ConcatEmptySeq
    <2>l. log \in Seq(Records) /\ previous \in Seq(Records) /\ Numbered(previous \o log, mon.taken)
        BY DEF LogInv
    <2>4. /\ kept.log \in Seq(Records) /\ kept.previous \in Seq(Records)
          /\ Numbered(kept.previous \o kept.log, mon.taken)
        <3>1. CASE kept = [log |-> log, previous |-> previous]
            BY <2>l, <3>1
        <3>2. CASE kept = [log |-> log, previous |-> <<>>]
            BY <2>l, <2>e, <3>2, <1>t, NumberedRest
        <3>3. CASE kept = [log |-> <<>>, previous |-> log]
            BY <2>l, <2>e, <3>3, <1>t, NumberedRest
        <3> QED
            BY <2>2, <3>1, <3>2, <3>3 DEF Rotated, Stuck
    <2>5. previous' \o log' = Append(kept.previous \o kept.log, r)
        <3> DEFINE p == kept.previous
                   l == kept.log
        <3>1. p \in Seq(Records) /\ l \in Seq(Records) /\ p \o l \in Seq(Records)
              /\ <<r>> \in Seq(Records)
            BY <2>1, <2>4, ConcatProperties
        <3>2. log' = Append(l, r) /\ previous' = p
            BY <2>2
        <3> HIDE DEF p, l
        <3>3. Append(l, r) = l \o <<r>> /\ Append(p \o l, r) = (p \o l) \o <<r>>
            BY <2>1, <3>1, AppendIsConcat
        <3>4. p \o (l \o <<r>>) = (p \o l) \o <<r>>
            BY <3>1, ConcatAssociative
        <3>5. p \o Append(l, r) = Append(p \o l, r)
            BY <3>3, <3>4
        <3> QED
            BY <3>2, <3>5 DEF p, l
    <2>6. kept.previous \o kept.log \in Seq(Records)
        BY <2>4, ConcatProperties
    <2>7. Numbered(Append(kept.previous \o kept.log, r), mon.taken + 1)
        BY <1>t, <2>1, <2>4, <2>6, NumberedOn
    <2>8. log' \in Seq(Records) /\ previous' \in Seq(Records)
        BY <2>1, <2>2, <2>4, AppendProperties
    <2>9. Numbered(previous' \o log', mon'.taken)
        BY <2>3, <2>5, <2>7
    <2> QED
        BY <2>8, <2>9 DEF LogInv
<1>2. CASE UNCHANGED <<log, previous>> /\ mon'.taken = mon.taken
    BY <1>2 DEF LogInv
<1>3. CASE Sample \/ Done \/ Stop
    <2>1. mon'.taken = mon.taken /\ log' = log
        BY <1>3 DEF Sample, Counted, Done, Stop, CountsInv
    <2>2. CASE previous' = previous
        BY <1>2, <2>1, <2>2
    <2>3. CASE previous' = <<>>
        <3>1. log \in Seq(Records) /\ previous \in Seq(Records) /\ Numbered(previous \o log, mon.taken)
            BY DEF LogInv
        <3>2. Numbered(log, mon.taken)
            BY <1>t, <3>1, NumberedRest
        <3>3. <<>> \in Seq(Records) /\ <<>> \o log = log
            BY <3>1, EmptySeq, ConcatEmptySeq
        <3> QED
            BY <2>1, <2>3, <3>1, <3>2, <3>3 DEF LogInv
    <2> QED
        BY <1>3, <2>2, <2>3 DEF Sample, Done, Stop
<1>4. CASE UNCHANGED <<mon, log, previous>>
    BY <1>2, <1>4
<1> QED
    BY <1>1, <1>3, <1>4
       DEF Next, Poll, vars, Publish, Ask, Answer, Fail, ToggleFreeze, ChangeDepth, Copy, CopyTimer, PanelOnly

LEMMA MonitorAlways == Spec => [](CountsInv /\ LogInv)
<1>1. Init => CountsInv /\ LogInv
    <2> SUFFICES ASSUME Init PROVE CountsInv /\ LogInv
        OBVIOUS
    <2>1. <<>> \in Seq(Records) /\ <<>> \o <<>> = <<>> /\ DOMAIN <<>> = {}
        BY EmptySeq, ConcatEmptySeq
    <2>2. LogInv
        BY <2>1 DEF Init, LogInv, Numbered
    <2>3. CountsInv
        BY DEF Init, CountsInv, Lates
    <2> QED
        BY <2>2, <2>3
<1> QED
    BY <1>1, CountsStep, LogStep, PanelAlways, PTL DEF Spec

-----------------------------------------------------------------------------
(* The size of a log: a sum that a recursive function forms.               *)

\* Induction, for a set of numbers.
LEMMA Inductive ==
    ASSUME NEW T \in SUBSET Nat, 0 \in T, \A n \in T : n + 1 \in T
    PROVE  T = Nat
<1> DEFINE R == {ss \in Nat \X Nat : ss[1] < ss[2]}
           U == Nat \ T
<1>1. IsWellFoundedOn(R, Nat)
    BY NatLessThanWellFounded DEF OpToRel
<1>2. \A x, y \in Nat : x < y => <<x, y>> \in R
    OBVIOUS
<1>3. U \subseteq Nat
    OBVIOUS
<1> HIDE DEF R, U
<1> SUFFICES ASSUME U # {} PROVE FALSE
    BY DEF U
<1>4. PICK n \in U : \A y \in U : ~(<<y, n>> \in R)
    BY <1>1, <1>3, WFMin
<1>5. n \in Nat \ {0} /\ n - 1 \in Nat /\ n - 1 < n /\ (n - 1) + 1 = n
    BY DEF U
<1>6. n - 1 \notin U
    BY <1>2, <1>4, <1>5
<1> QED
    BY <1>5, <1>6 DEF U

\* f holds the partial sums of l.
Sums(f, l) == f = [i \in 0 .. Len(l) |-> IF i = 0 THEN 0 ELSE f[i - 1] + l[i].size]

\* The function Size is defined with exists.
LEMMA SumsExist == \A l \in Seq(Records) : \E f : Sums(f, l)
<1> DEFINE T == {n \in Nat : \A l \in Seq(Records) : Len(l) = n => \E f : Sums(f, l)}
<1>1. 0 \in T
    <2> SUFFICES ASSUME NEW l \in Seq(Records), Len(l) = 0 PROVE \E f : Sums(f, l)
        OBVIOUS
    <2> DEFINE f == [i \in 0 .. 0 |-> 0]
    <2>1. Sums(f, l)
        BY DEF Sums
    <2> QED
        BY <2>1
<1>2. ASSUME NEW n \in T PROVE n + 1 \in T
    <2> SUFFICES ASSUME NEW l \in Seq(Records), Len(l) = n + 1 PROVE \E f : Sums(f, l)
        OBVIOUS
    <2> DEFINE k == SubSeq(l, 1, n)
    <2>1. k \in Seq(Records) /\ Len(k) = n /\ \A i \in 1 .. n : k[i] = l[i]
        BY SubSeqProperties
    <2> HIDE DEF k
    <2>2. PICK f : Sums(f, k)
        BY <2>1
    <2>3. \A i \in 0 .. n : f[i] = IF i = 0 THEN 0 ELSE f[i - 1] + l[i].size
        BY <2>1, <2>2 DEF Sums
    <2> DEFINE g == [i \in 0 .. n + 1 |-> IF i = n + 1 THEN f[n] + l[n + 1].size ELSE f[i]]
    <2>4. ASSUME NEW i \in 0 .. n + 1 PROVE g[i] = IF i = 0 THEN 0 ELSE g[i - 1] + l[i].size
        <3>1. CASE i = n + 1
            <4>1. g[i] = f[n] + l[n + 1].size /\ n \in 0 .. n + 1 /\ n # n + 1 /\ i - 1 = n /\ i # 0
                BY <3>1
            <4>2. g[n] = f[n]
                BY <4>1
            <4> QED
                BY <3>1, <4>1, <4>2
        <3>2. CASE i # n + 1
            <4>1. i \in 0 .. n /\ g[i] = f[i]
                BY <3>2
            <4>2. i # 0 => g[i - 1] = f[i - 1]
                BY <4>1
            <4> QED
                BY <2>3, <4>1, <4>2
        <3> QED
            BY <3>1, <3>2
    <2>5. g = [i \in 0 .. n + 1 |-> IF i = 0 THEN 0 ELSE g[i - 1] + l[i].size]
        <3>1. DOMAIN g = 0 .. n + 1 /\ g = [i \in 0 .. n + 1 |-> g[i]]
            OBVIOUS
        <3> HIDE DEF g
        <3> QED
            BY <2>4, <3>1
    <2> HIDE DEF g
    <2> QED
        BY <2>5 DEF Sums
<1>3. T = Nat
    <2> HIDE DEF T
    <2>1. T \in SUBSET Nat
        BY DEF T
    <2> QED
        BY <1>1, <1>2, <2>1, Inductive
<1> QED
    BY <1>3, LenProperties

\* Sums of a sequence and of one that goes on agree, and are numbers.
LEMMA SumsAgree ==
    ASSUME NEW l \in Seq(Records), NEW m \in Seq(Records), Len(l) <= Len(m),
           \A i \in 1 .. Len(l) : l[i] = m[i], NEW f, Sums(f, l), NEW g, Sums(g, m)
    PROVE  \A i \in 0 .. Len(l) : f[i] = g[i] /\ f[i] \in Nat
<1> DEFINE T == {n \in Nat : n <= Len(l) => f[n] = g[n] /\ f[n] \in Nat}
<1>l. Len(l) \in Nat /\ Len(m) \in Nat /\ \A i \in 1 .. Len(l) : l[i].size \in Nat
    <2>1. \A i \in 1 .. Len(l) : l[i] \in Records
        BY ElementOfSeq
    <2> QED
        BY <2>1, LenProperties DEF Records
<1>f. \A i \in 0 .. Len(l) : f[i] = IF i = 0 THEN 0 ELSE f[i - 1] + l[i].size
    BY DEF Sums
<1>g. \A i \in 0 .. Len(m) : g[i] = IF i = 0 THEN 0 ELSE g[i - 1] + m[i].size
    BY DEF Sums
<1>1. 0 \in T
    BY <1>l, <1>f, <1>g
<1>2. ASSUME NEW n \in T PROVE n + 1 \in T
    <2> SUFFICES ASSUME n + 1 <= Len(l) PROVE f[n + 1] = g[n + 1] /\ f[n + 1] \in Nat
        OBVIOUS
    <2>1. n + 1 \in 0 .. Len(l) /\ n + 1 \in 0 .. Len(m) /\ n + 1 \in 1 .. Len(l) /\ n + 1 # 0 /\ (n + 1) - 1 = n
        BY <1>l
    <2>2. f[n] = g[n] /\ f[n] \in Nat
        BY <1>l
    <2>3. f[n + 1] = f[n] + l[n + 1].size /\ g[n + 1] = g[n] + m[n + 1].size
        BY <1>f, <1>g, <2>1
    <2> QED
        BY <1>l, <2>1, <2>2, <2>3
<1>3. T = Nat
    <2> HIDE DEF T
    <2>1. T \in SUBSET Nat
        BY DEF T
    <2> QED
        BY <1>1, <1>2, <2>1, Inductive
<1> QED
    BY <1>3, <1>l

\* The size of a log grows by that of the record appended.
LEMMA SizeGrows ==
    /\ Size(<<>>) = 0
    /\ \A l \in Seq(Records), r \in Records :
          Size(l) \in Nat /\ Size(Append(l, r)) = Size(l) + r.size
<1> DEFINE S(l) == CHOOSE f : Sums(f, l)
<1>1. \A l : Size(l) = S(l)[Len(l)]
    BY DEF Size, Sums
<1>2. \A l \in Seq(Records) : Sums(S(l), l)
    BY SumsExist
<1> HIDE DEF S
<1>3. ASSUME NEW l \in Seq(Records), NEW r \in Records
      PROVE  Size(l) \in Nat /\ Size(Append(l, r)) = Size(l) + r.size
    <2> DEFINE m == Append(l, r)
               n == Len(l)
    <2>1. /\ m \in Seq(Records) /\ Len(m) = n + 1 /\ n \in Nat /\ m[n + 1] = r
          /\ \A i \in 1 .. n : l[i] = m[i]
        BY AppendProperties, LenProperties
    <2> HIDE DEF m
    <2>2. Sums(S(l), l) /\ Sums(S(m), m)
        BY <1>2, <2>1
    <2>3. S(l)[n] = S(m)[n] /\ S(l)[n] \in Nat
        BY <2>1, <2>2, SumsAgree
    <2>4. S(m)[n + 1] = S(m)[n] + r.size
        BY <2>1, <2>2 DEF Sums
    <2> QED
        BY <1>1, <2>1, <2>3, <2>4 DEF m
<1>4. ASSUME NEW l \in Seq(Records), Len(l) = 0 PROVE Size(l) = 0
    <2>1. PICK f : f = S(l)
        OBVIOUS
    <2>2. f = [i \in 0 .. 0 |-> IF i = 0 THEN 0 ELSE f[i - 1] + l[i].size]
        BY <1>2, <1>4, <2>1 DEF Sums
    <2>3. f[0] = 0
        BY <2>2
    <2> QED
        BY <1>1, <1>4, <2>1, <2>3
<1>5. <<>> \in Seq(Records) /\ Len(<<>>) = 0
    BY EmptySeq
<1> QED
    BY <1>3, <1>4, <1>5

LEMMA CapStep == LogInv /\ CountsInv /\ LogCapped /\ [Next]_vars => LogCapped'
<1> SUFFICES ASSUME LogInv, CountsInv, LogCapped, [Next]_vars PROVE LogCapped'
    OBVIOUS
<1>t. mon.taken \in Nat /\ mon.stuck \in BOOLEAN /\ MaxBytes \in Nat
    BY DEF CountsInv
<1>l. /\ log \in Seq(Records) /\ previous \in Seq(Records)
      /\ Len(log) \in Nat /\ Len(previous) \in Nat /\ Size(log) \in Nat /\ Size(previous) \in Nat
    <2>1. [n |-> 1, size |-> 1] \in Records
        BY LiveAssumption DEF Records
    <2> QED
        BY <2>1, SizeGrows, LenProperties DEF LogInv
<1>1. ASSUME NEW size \in 1 .. 2, Record(size) PROVE LogCapped'
    <2> DEFINE r == [n |-> mon.taken + 1, size |-> size]
    <2>1. r \in Records /\ r.size = size
        BY <1>1, <1>t DEF Records, Record, CountsInv
    <2> HIDE DEF r
    <2>2. PICK kept \in IF ~Full THEN {[log |-> log, previous |-> previous]}
                        ELSE {Rotated} \cup IF failures < MaxFailures THEN Stuck ELSE {} :
              LET stuck == Full /\ kept.log # <<>>
              IN  /\ log' = Append(kept.log, r)
                  /\ previous' = kept.previous
                  /\ failures' = failures + IF stuck THEN 1 ELSE 0
                  /\ mon' = [mon EXCEPT !.pending = FALSE, !.taken = @ + 1, !.stuck = @ \/ stuck]
        BY <1>1, Zenon DEF Record, r
    <2> DEFINE b == mon.stuck \/ (Full /\ kept.log # <<>>)
    <2>m. mon' = [mon EXCEPT !.pending = FALSE, !.taken = @ + 1, !.stuck = b]
        BY <2>2
    <2> HIDE DEF b
    <2>d. mon \in [taken : 0 .. Count, pending : BOOLEAN, late : Lates, first : Lates, printed : Nat,
                   stuck : BOOLEAN, exit : {"no", "done", "stopped"}]
        BY DEF CountsInv
    <2>3. mon'.taken = mon.taken + 1 /\ mon'.stuck = b
        BY <2>m, <2>d
    <2> USE DEF b
    <2> SUFFICES ASSUME ~mon'.stuck
                 PROVE  /\ Len(previous') + Len(log') = mon'.taken \/ Size(previous') >= MaxBytes
                        /\ MaxBytes > 0 => Size(log') <= MaxBytes + 1
        BY DEF LogCapped
    <2>4. ~mon.stuck /\ ~(Full /\ kept.log # <<>>)
        BY <2>3
    <2>5. CASE ~Full
        <3>1. kept = [log |-> log, previous |-> previous]
            BY <2>2, <2>5
        <3>2. log' = Append(log, r) /\ previous' = previous
            BY <2>2, <3>1
        <3>3. Size(log') = Size(log) + size /\ Len(log') = Len(log) + 1
            BY <1>l, <2>1, <3>2, SizeGrows, AppendProperties
        <3>4. MaxBytes > 0 => Size(log) < MaxBytes
            BY <1>l, <1>t, <2>5 DEF Full
        <3> QED
            BY <1>l, <1>t, <2>3, <2>4, <3>2, <3>3, <3>4 DEF LogCapped
    <2>6. CASE Full
        <3>1. MaxBytes > 0 /\ Size(log) >= MaxBytes /\ log # <<>>
            BY <1>l, <1>t, <2>6, SizeGrows DEF Full
        <3>2. kept = Rotated
            BY <2>2, <2>4, <2>6, <3>1 DEF Stuck
        <3>3. log' = Append(<<>>, r) /\ previous' = log
            BY <2>2, <3>2 DEF Rotated
        <3>4. <<>> \in Seq(Records)
            BY EmptySeq
        <3>5. Size(log') = 0 + size
            BY <2>1, <3>3, <3>4, SizeGrows
        <3> QED
            BY <1>l, <1>t, <3>1, <3>3, <3>5
    <2> QED
        BY <2>5, <2>6
<1>2. CASE UNCHANGED <<log, previous>> /\ mon'.taken = mon.taken /\ mon'.stuck = mon.stuck
    BY <1>2 DEF LogCapped
<1>3. CASE Sample \/ Done \/ Stop
    <2>1. CASE mon'.stuck
        BY <2>1 DEF LogCapped
    <2>2. CASE ~mon'.stuck
        <3>1. mon'.taken = mon.taken /\ mon'.stuck = mon.stuck /\ UNCHANGED <<log, previous>>
            BY <1>3, <2>2 DEF Sample, Counted, Done, Stop, CountsInv
        <3> QED
            BY <1>2, <3>1
    <2> QED
        BY <2>1, <2>2
<1>4. CASE UNCHANGED <<mon, log, previous>>
    BY <1>2, <1>4
<1>5. CASE Ask \/ Poll \/ ToggleFreeze \/ Copy
    BY <1>4, <1>5 DEF Poll, Ask, Answer, Fail, ToggleFreeze, Copy, PanelOnly
<1>6. ASSUME NEW n \in Depths, ChangeDepth(n) PROVE LogCapped'
    BY <1>4, <1>6 DEF ChangeDepth, PanelOnly
<1>7. ASSUME NEW id \in 1 .. MaxClicks, CopyTimer(id) PROVE LogCapped'
    BY <1>4, <1>7 DEF CopyTimer, PanelOnly
<1>8. CASE Publish \/ UNCHANGED vars
    BY <1>4, <1>8 DEF Publish, vars
<1> QED
    BY <1>1, <1>3, <1>5, <1>6, <1>7, <1>8 DEF Next

\* For any number of samples of any sizes, failures and renames: the deltas printed add
\* up, the two files hold the last samples without a gap, a rotation drops nothing but
\* the generation before, and without a failed rename the log is within its cap.
THEOREM SamplesAccounted == Spec => []MonitorAccounts
<1>1. Init => LogCapped
    <2> SUFFICES ASSUME Init PROVE LogCapped
        OBVIOUS
    <2>1. Len(<<>>) = 0 /\ Size(<<>>) = 0
        BY EmptySeq, SizeGrows
    <2> QED
        BY <2>1 DEF Init, LogCapped
<1>2. CountsInv => DeltasAddUp
    BY DEF CountsInv, DeltasAddUp
<1>3. LogInv => LogGapless
    BY DEF LogInv, LogGapless, Numbered
<1>4. Spec => []LogCapped
    BY <1>1, CapStep, MonitorAlways, PTL DEF Spec
<1> QED
    BY <1>2, <1>3, <1>4, MonitorAlways, PTL DEF MonitorAccounts

\* Types, for every value of the constants.
THEOREM TypeCorrect == Spec => []TypeOK
<1>1. PanelInv /\ ServerInv /\ CountsInv /\ LogInv => TypeOK
    <2> SUFFICES ASSUME PanelInv, ServerInv, CountsInv, LogInv PROVE TypeOK
        OBVIOUS
    <2>1. pan.hist \in UNION {[1 .. n -> 1 .. MaxUtc] : n \in 0 .. Largest(Depths)}
        <3>1. pan.hist \in Seq(1 .. MaxUtc) /\ Len(pan.hist) <= pan.depth /\ pan.depth \in Depths
            BY DEF PanelInv, Sound, History, Panels
        <3>2. Len(pan.hist) \in Nat /\ pan.hist \in [1 .. Len(pan.hist) -> 1 .. MaxUtc]
            BY <3>1, LenProperties, SeqDef
        <3>3. Len(pan.hist) \in 0 .. Largest(Depths)
            <4> DEFINE m == Largest(Depths)
            <4>1. pan.depth <= m /\ pan.depth \in Nat /\ m \in Nat
                BY <3>1, Deepest
            <4> HIDE DEF m
            <4>2. Len(pan.hist) \in 0 .. m
                BY <3>1, <3>2, <4>1
            <4> QED
                BY <4>2 DEF m
        <3> QED
            BY <3>2, <3>3
    <2>2. \A l \in {log, previous} : \A i \in DOMAIN l : l[i].n \in 1 .. Count /\ l[i].size \in {1, 2}
        <3>1. \A l \in Seq(Records) : \A i \in DOMAIN l : l[i] \in Records
            BY ElementOfSeq, LenProperties
        <3>2. \A r \in Records : r.n \in 1 .. Count /\ r.size \in {1, 2}
            BY DEF Records
        <3> QED
            BY <3>1, <3>2 DEF LogInv
    <2>3. pan \in Panels
        BY DEF PanelInv, Sound
    <2> DEFINE hists == UNION {[1 .. n -> 1 .. MaxUtc] : n \in 0 .. Largest(Depths)}
    <2> HIDE DEF hists
    <2>4. pan \in [data : 0 .. MaxUtc, status : {0, 200, 403, 500}, blocked : BOOLEAN, asking : BOOLEAN,
                   frozen : BOOLEAN, snap : 0 .. MaxUtc, last : 0 .. MaxUtc, hist : hists,
                   depth : Depths, copy : 0 .. MaxClicks, timers : SUBSET (1 .. MaxClicks)]
        BY <2>1, <2>3 DEF Panels, Utcs, Statuses, Notices, TimerSets, hists
    <2> QED
        BY <2>2, <2>4 DEF PanelInv, ServerInv, CountsInv, Lates, TypeOK, hists
<1> QED
    BY <1>1, PanelAlways, MonitorAlways, PTL

=============================================================================
