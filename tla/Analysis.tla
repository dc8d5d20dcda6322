------------------------------ MODULE Analysis ------------------------------
(***************************************************************************)
(* Finalizing a session and judging it: the stages of finalize in their    *)
(* order (finalize.py), each able to fail and leave the documents of an    *)
(* earlier run behind, evidence that arrives between two runs, and the     *)
(* budget, compare and scaling commands over the documents there are.      *)
(***************************************************************************)
EXTENDS Gates

CONSTANTS Evidence,     \* the evidence a session may hold
          Arrivals,     \* artifacts that may still arrive after a finalize
          Peer,         \* evidence of the session it is compared with
          Budgets,      \* custom budgets of the budget command
          Ladders,      \* ladders of sessions the scaling command is given
          MaxRuns,      \* bound on the finalizes of the session
          MaxErrors     \* bound on the stages that raise

ASSUME AnalysisAssumption == MaxRuns \in Nat /\ MaxErrors \in Nat

ASSUME EvidenceAssumption == (\A e \in Evidence \cup {Peer} : WellFormed(e)) /\ Arrivals \subseteq Artifacts

ASSUME BudgetAssumption == \A b \in Budgets : \A l \in DOMAIN b.layers : b.layers[l] \in Int \cup {Junk, None}

ASSUME LadderAssumption ==
    \A ladder \in Ladders :
        ladder \in Seq([load : Int \cup {None}, call : Int \cup {None}, total : Int \cup {None}])

\* The stand-ins for what is absent or unreadable are no values.
ASSUME AbsenceAssumption ==
    None \notin Int \cup Layers \cup Refusals /\ Malformed \notin Int /\ Junk \notin Int /\ None # Malformed

VARIABLES ev,       \* the evidence in the session directory
          docs,     \* its documents: summary, health, events, bridge, budget
          stage,    \* the stage finalize is at, "idle" when none runs
          failed,   \* the stages of the last finalize that raised
          skipped,  \* finalize runs without the bridge stage
          asOf,     \* history: the artifacts there when the last finalize began
          report,   \* what the last command answered
          runs, errors

vars == <<ev, docs, stage, failed, skipped, asOf, report, runs, errors>>

Stages == <<"jitsym", "summary", "health", "events", "bridge", "budget", "render", "manifest", "index">>

\* Mutant of Required: a health stage that raised does not fail the run.
RequiredButHealth == {"summary", "events", "render", "manifest"}

Required == {"summary", "health", "events", "render", "manifest"}

NoDocs == [summary |-> None, health |-> None, events |-> None, bridge |-> None, budget |-> None]

Init ==
    /\ ev \in Evidence
    /\ docs = NoDocs /\ stage = "idle" /\ failed = {} /\ skipped = FALSE
    /\ asOf = {} /\ report = None /\ runs = 0 /\ errors = 0

-----------------------------------------------------------------------------
(* The stages.                                                             *)

\* analyze: from the summary on disk, whichever run wrote it.
BridgeOf(evidence, summary, events) ==
    LET collected == IF summary = None THEN {} ELSE DOMAIN CollectedScores(summary)
        heats == SectionHeats(evidence)
        signals == IF summary = None THEN [gcs |-> [slow |-> 0, little |-> 0], locks |-> 0, blocks |-> 0]
                   ELSE summary
    IN [heats |-> heats,
        shares |-> IF Readable(evidence) THEN Attribution(evidence.snap) ELSE <<>>,
        totals |-> IF Readable(evidence)
                   THEN [b \in DOMAIN Attribution(evidence.snap) |-> Exclusive(b, evidence.snap)] ELSE <<>>,
        stalls |-> IF events = None THEN <<>> ELSE Stalls(events),
        hits |-> MatchRules(NativeShare(evidence), heats, collected, signals)]

\* What the bridge document ranks; nothing when there is none.
RankedHeats(d) == IF d.bridge = None THEN <<>> ELSE d.bridge.heats

\* budget.load_sections.
Heats == RankedHeats(docs)

BudgetDoc(summary, heats, budget, baseline) ==
    [budget |-> budget, passed |-> Passes(Checks(summary, heats, budget, baseline, 15))]

\* The documents once the stage has written its own.
After(name) ==
    CASE name = "summary" -> [docs EXCEPT !.summary = SummaryOf(ev, docs.bridge)]
      [] name = "health" -> [docs EXCEPT !.health = HealthOf(CollectedScores(docs.summary))]
      [] name = "events" -> [docs EXCEPT !.events = TimelineOf(ev)]
      [] name = "bridge" -> [docs EXCEPT !.bridge = BridgeOf(ev, docs.summary, docs.events)]
      [] name = "budget" -> [docs EXCEPT !.budget = BudgetDoc(docs.summary, Heats, DefaultBudget, None)]
      [] OTHER -> docs

\* A stage that reads a summary which is not there raises.
Impossible(name) == name \in {"health", "budget"} /\ docs.summary = None

Following(name) ==
    LET at == CHOOSE i \in DOMAIN Stages : Stages[i] = name
        next == IF skipped /\ Stages[at] = "events" THEN at + 2 ELSE at + 1
    IN IF next > Len(Stages) THEN "idle" ELSE Stages[next]

Begin ==
    /\ stage = "idle" /\ runs < MaxRuns
    /\ stage' = Stages[1] /\ failed' = {} /\ asOf' = ev.files /\ runs' = runs + 1 /\ report' = None
    /\ skipped' \in BOOLEAN
    /\ UNCHANGED <<ev, docs, errors>>

RunStage ==
    /\ stage # "idle" /\ ~Impossible(stage)
    /\ docs' = After(stage)
    /\ stage' = Following(stage)
    /\ UNCHANGED <<ev, failed, skipped, asOf, report, runs, errors>>

\* A stage that raises does not stop the rest; events and bridge write a second file
\* after the document, so they can raise with it written.
StageRaises ==
    /\ stage # "idle"
    /\ failed' = failed \cup {stage}
    /\ stage' = Following(stage)
    /\ \/ Impossible(stage) /\ UNCHANGED <<docs, errors>>
       \/ /\ ~Impossible(stage) /\ errors < MaxErrors /\ errors' = errors + 1
          /\ \/ UNCHANGED docs
             \/ stage \in {"events", "bridge"} /\ docs' = After(stage)
    /\ UNCHANGED <<ev, skipped, asOf, report, runs>>

\* A collector that outlived its capture, or an operator, leaves another artifact.
Arrive ==
    /\ stage = "idle" /\ runs > 0
    /\ \E a \in Arrivals \ ev.files : ev' = [ev EXCEPT !.files = @ \cup {a}]
    /\ UNCHANGED <<docs, stage, failed, skipped, asOf, report, runs, errors>>

-----------------------------------------------------------------------------
(* The commands.                                                           *)

\* What compare reads of a session.
Judged(evidence, d, version) ==
    [summary |-> d.summary, version |-> version, workload |-> evidence.workload,
     heats |-> LoadSections(evidence, RankedHeats(d)),
     totals |-> IF d.bridge = None THEN <<>> ELSE d.bridge.totals,
     frames |-> FrameWeights(evidence)]

Mine == Judged(ev, docs, ev.version)

Theirs ==
    LET summary == SummaryOf(Peer, None) IN
    Judged(Peer, [summary |-> summary, bridge |-> BridgeOf(Peer, summary, TimelineOf(Peer))], Peer.version)

Idle == stage = "idle" /\ runs > 0 /\ report = None

Compare ==
    /\ Idle /\ docs.summary # None
    /\ report' = [kind |-> "compare", result |-> Comparison(Theirs, Mine),
                  seconds |-> <<EffectiveSeconds(Peer), EffectiveSeconds(ev)>>]
    /\ UNCHANGED <<ev, docs, stage, failed, skipped, asOf, runs, errors>>

BudgetCommand ==
    /\ Idle /\ docs.summary # None
    /\ \E budget \in Budgets, baseline \in {None, Theirs.summary} :
          /\ docs' = [docs EXCEPT !.budget = BudgetDoc(docs.summary, Heats, budget, baseline)]
          /\ report' = [kind |-> "budget", result |-> docs'.budget.passed]
    /\ UNCHANGED <<ev, stage, failed, skipped, asOf, runs, errors>>

\* The ladder is of other sessions: the command reads their documents only.
Scaling ==
    /\ stage = "idle" /\ runs = 0 /\ report = None
    /\ \E ladder \in Ladders :
          report' = [kind |-> "scaling", result |-> ScalingCommand(ladder), ladder |-> ladder]
    /\ UNCHANGED <<ev, docs, stage, failed, skipped, asOf, runs, errors>>

Done == stage = "idle" /\ runs = MaxRuns /\ report # None /\ UNCHANGED vars

Next == Begin \/ RunStage \/ StageRaises \/ Arrive \/ Compare \/ BudgetCommand \/ Scaling \/ Done

Spec == Init /\ [][Next]_vars

-----------------------------------------------------------------------------
(* Properties.                                                             *)

Percent == 0 .. 100
Hundredths == 0 .. 10000

\* No adjustment of a score gives one to a layer that nothing was collected for, none
\* takes the score of one that was, and none leaves the range in which the schema of
\* the document accepts it; grades and confidences drawn from them stay in theirs.
ScoresFollowEvidence ==
    /\ docs.summary # None =>
          \A l \in Layers :
              docs.summary.layers[l].score \in
                  IF docs.summary.layers[l].state = "collected" THEN Percent ELSE {None}
    /\ docs.health # None => docs.health.health \in Hundredths \cup {None}
    /\ docs.bridge # None => \A h \in docs.bridge.hits : h.confidence \in Percent

\* The layer the recommendation names has the highest score the summary stores.
RecommendationNamesWorst ==
    LET scores == CollectedScores(docs.summary)
        named == docs.summary.recommends
    IN docs.summary # None =>
          IF DOMAIN scores = {} THEN named = None
          ELSE named # None /\ \A l \in DOMAIN scores : scores[named] >= scores[l]

\* A server past its capacity is not reported under a lesser cause.
SaturationLeads ==
    (docs.summary # None /\ docs.summary.diagnosis.saturated) =>
        docs.summary.diagnosis.causes[1].cause = "server_saturated"

\* What the summary puts first is the worst it found.
WorstComesFirst == RecommendationNamesWorst /\ SaturationLeads

\* The shares make up the whole but for rounding, and a bucket that frame_core
\* contains is not counted in it as well.
AttributionCountsOnce ==
    LET shares == docs.bridge.shares
        whole == SumFunction(shares)
        nested == SumFunction([b \in Nested |-> Total(b, ev.snap)])
    IN (docs.bridge # None /\ shares # <<>>) =>
          /\ whole \in 1000 - Cardinality(DOMAIN shares) .. 1000
          /\ Total("frame_core", ev.snap) >= nested =>
                MeasuredMs(ev.snap) =
                    SumFunction([b \in Subsystems \ Nested |-> Total(b, ev.snap)])

\* A spike is put down to the GC only if a pause of half to one and a half times its
\* length is in the timeline.
GcBlameProportionate ==
    docs.bridge # None =>
        \A i \in DOMAIN docs.bridge.stalls :
            LET s == docs.bridge.stalls[i] IN
            s.gc => \E l \in ToSet(ev.gc.lines) : 2 * l.ms \in s.spike.value .. 3 * s.spike.value

\* Time and stalls are put down to what was measured, and only once.
AttributionSound == AttributionCountsOnce /\ GcBlameProportionate

Lost(timeline) == {e \in ToSet(Parsed(ev)) : \A f \in ToSet(timeline.events) : [f EXCEPT !.seq = 0] # e}

\* Whatever one source floods the timeline with, no event of a source is dropped in
\* favour of a less severe one of it, and every event is counted.
TimelineKeepsWorst ==
    LET timeline == docs.events IN
    (timeline # None /\ asOf = ev.files /\ stage = "idle" /\ "events" \notin failed) =>
        /\ timeline.count = Len(Parsed(ev)) /\ timeline.count = timeline.dropped + Len(timeline.events)
        /\ \A lost \in Lost(timeline), kept \in ToSet(timeline.events) :
              lost.source = kept.source => kept.severity <= lost.severity

\* The events are in the order of their stamps, those without one at the end.
TimelineChronological ==
    docs.events # None =>
        LET events == docs.events.events IN
        \A i, j \in DOMAIN events :
            i < j => events[j].t = None \/ (events[i].t # None /\ events[i].t <= events[j].t)

\* The bounded timeline keeps the worst of each source and lays it out by time.
TimelineFaithful == TimelineKeepsWorst /\ TimelineChronological

\* The gate passes a session only with evidence, within the limit, for every layer
\* the budget names.
BudgetFailsClosed ==
    (docs.budget # None /\ docs.budget.passed /\ asOf = ev.files /\ stage = "idle"
       /\ failed \cap {"summary", "budget"} = {}) =>
        \A l \in DOMAIN docs.budget.budget.layers :
            /\ HasEvidence(l, ev)
            /\ docs.budget.budget.layers[l] \notin {Junk, None}
            /\ docs.summary.layers[l].score <= docs.budget.budget.layers[l]

\* A grade stands on evidence for four fifths of the weight.
HealthNeedsEvidence ==
    (docs.health # None /\ docs.health.grade # None /\ asOf = ev.files /\ stage = "idle"
       /\ failed \cap {"summary", "health"} = {}) =>
        SumFunction([l \in {m \in Layers : HasEvidence(m, ev)} |-> Weight(l)]) >= 80

\* Neither gate passes a layer that nobody measured.  Sections and rates are not in
\* it: check skips those a session lacks.
GatesNeedEvidence == BudgetFailsClosed /\ HealthNeedsEvidence

\* A run that did not fail leaves health and timeline of the summary and the evidence
\* it leaves, never of an earlier run.
CleanFinalizeIsCurrent ==
    (stage = "idle" /\ runs > 0 /\ failed \cap Required = {} /\ asOf = ev.files) =>
        /\ docs.summary # None /\ docs.health = HealthOf(CollectedScores(docs.summary))
        /\ \A l \in Layers : (docs.summary.layers[l].state = "collected") <=> HasEvidence(l, ev)
        /\ docs.events = TimelineOf(ev)

Mirror(winner) ==
    CASE winner = "A" -> "B"
      [] winner = "B" -> "A"
      [] OTHER -> winner

\* Which of the two sessions is named first does not matter: the same gate rejects
\* them, or each verdict is the other's mirror.
CompareMirrors ==
    (report # None /\ report.kind = "compare") =>
        \E mine \in {Mine}, theirs \in {Theirs} : \E other \in {Comparison(mine, theirs)} :
            LET mirrored(f, g) == DOMAIN f = DOMAIN g /\ \A n \in DOMAIN f : f[n] = Mirror(g[n])
            IN /\ report.result.rejected = other.rejected
               /\ other.rejected = None =>
                     /\ report.result.overall = Mirror(other.overall)
                     /\ mirrored(report.result.layers, other.layers)
                     /\ mirrored(report.result.sections, other.sections)
                     /\ mirrored(report.result.subsystems, other.subsystems)

\* No delta is drawn between windows whose real lengths differ by more than a tenth;
\* a recorded length of 0 is read as none.
NoTruncatedCompare ==
    (report # None /\ report.kind = "compare" /\ report.result.rejected = None) =>
        LET ran(e) == IF e.observed \notin {None, 0} THEN Min({e.observed, e.seconds}) ELSE e.seconds
            a == ran(Peer)
            b == ran(ev)
        IN a >= 5 /\ b >= 5 /\ 10 * Max({a - b, b - a}) <= Max({a, b})

\* A comparison is between comparable windows and does not depend on their order.
CompareSound == CompareMirrors /\ NoTruncatedCompare

\* A section that costs c * load^k per call is ranked with exponent k, from any three
\* loads, and a ladder of fewer is refused.
PowerLawRecovered ==
    (report # None /\ report.kind = "scaling") =>
        LET loaded == Those(report.ladder, LAMBDA s : s.load # None)
            law(c, k) == \A s \in ToSet(loaded) : s.call = c + k * s.load
        IN IF Cardinality({s.load : s \in ToSet(loaded)}) < 3 THEN report.result = None
           ELSE \A c \in 0 .. 3, k \in -1 .. 2 : law(c, k) => report.result.perCall = 100 * k

(* What the documentation says and the code does not do; the README has the   *)
(* counterexamples.                                                           *)

\* "met its deadline" is said of a server whose ticks were measured.
VerdictNeedsEvidence ==
    (docs.summary # None /\ docs.summary.diagnosis.verdict = "met its deadline"
       /\ asOf = ev.files /\ stage = "idle" /\ "summary" \notin failed) => Readable(ev)

\* The observed window wins whenever it is shorter, also when it rounds to nothing.
ObservedWins ==
    (docs.summary # None /\ ev.observed # None) => docs.summary.seconds = Min({ev.observed, ev.seconds})

\* Of two events of a source that are equally severe and unstamped, the timeline
\* does not drop the later one and keep the earlier.
RecencyBreaksTie ==
    (docs.events # None /\ asOf = ev.files /\ stage = "idle" /\ "events" \notin failed) =>
        \A lost \in Lost(docs.events), kept \in ToSet(docs.events.events) :
            (lost.source = kept.source /\ lost.severity = kept.severity /\ lost.t = None /\ kept.t = None)
                => kept.line >= lost.line

=============================================================================
