------------------------------- MODULE Gates --------------------------------
(***************************************************************************)
(* The verdicts drawn from finalized documents: the health grade           *)
(* (analysis/health.py), the budget gate (analysis/budget.py), the         *)
(* comparison of two sessions (analysis/compare.py, flame_delta.py) and    *)
(* the scaling fit over a ladder of sessions (analysis/scaling.py).        *)
(***************************************************************************)
EXTENDS Timeline

CONSTANT Junk   \* a value that is not a number

-----------------------------------------------------------------------------
(* health.py                                                               *)

\* Hundredths.
Weight(layer) ==
    CASE layer = "sync_locks" -> 18
      [] layer \in {"runtime_gc", "cpu", "app_sim"} -> 15
      [] layer \in {"io", "memory_cache"} -> 12
      [] layer = "scheduler" -> 13

Coverage(scores) == SumFunction([l \in DOMAIN scores |-> Weight(l)])

GradeFor(health) ==
    CASE health >= 8500 -> "A"
      [] health \in 7000 .. 8499 -> "B"
      [] health \in 5500 .. 6999 -> "C"
      [] health \in 4000 .. 5499 -> "D"
      [] OTHER -> "F"

\* compute_health, in hundredths of a point: withheld below four fifths of the
\* weight, and graded on the number that is stored.
HealthOf(scores) ==
    LET pressure == RoundDiv(100 * SumFunction([l \in DOMAIN scores |-> Weight(l) * scores[l]]), Coverage(scores))
    IN IF Coverage(scores) < 80 THEN [health |-> None, grade |-> None, coverage |-> Coverage(scores)]
       ELSE [health |-> 10000 - pressure, grade |-> GradeFor(10000 - pressure), coverage |-> Coverage(scores)]

-----------------------------------------------------------------------------
(* budget.py                                                               *)

\* DEFAULT_BUDGET; the allocation limit in tenths of a MB/s, the late share in
\* thousandths.
DefaultBudget ==
    [layers |-> [l \in Layers |-> CASE l = "sync_locks" -> 70
                                    [] l \in {"runtime_gc", "app_sim"} -> 60
                                    [] OTHER -> 50],
     sum |-> 250, late |-> 50, gross |-> 150, udp |-> 30,
     heat |-> [n \in {"World.TickEntities"} |-> 20]]

\* gate: a limit that cannot be read, null included, is a limit that cannot be enforced.
Gate(value, limit) ==
    IF limit \in {Junk, None} THEN "UNKNOWN" ELSE IF value > limit THEN "FAIL" ELSE "ok"

\* Mutant of LayerGate: a layer without evidence is skipped like a section is.
LayerGateSkips(scores, layer, limit) ==
    IF layer \in DOMAIN scores THEN Gate(scores[layer], limit) ELSE "skip"

\* max_layer_scores: no evidence for a budgeted layer fails the gate.
LayerGate(scores, layer, limit) ==
    IF layer \in DOMAIN scores THEN Gate(scores[layer], limit) ELSE "UNKNOWN"

\* The gates on what a summary may not have: absent is skipped, a limit of None is
\* no limit.
OptionalGate(value, limit) ==
    IF limit = None \/ value = None THEN "skip" ELSE Gate(value, limit)

LateGate(frame, limit) ==
    CASE limit = None \/ frame = None -> "skip"
      [] limit # None /\ frame # None ->
            IF frame.updates <= 0 THEN "skip" ELSE
            IF limit = Junk THEN "UNKNOWN" ELSE Gate(1000 * frame.late, limit * frame.updates)

Regressions(base, scores, most) ==
    IF DOMAIN base # DOMAIN scores THEN {"UNKNOWN"}
    ELSE {Gate(scores[l] - base[l], most) : l \in DOMAIN scores}

\* check: the outcomes of all its lines; baseline is a summary, or None.
Checks(summary, heats, budget, baseline, most) ==
    LET scores == CollectedScores(summary) IN
    {LayerGate(scores, l, budget.layers[l]) : l \in DOMAIN budget.layers}
      \cup {OptionalGate(SumFunction(scores), budget.sum)}
      \cup {Gate(heats[n], budget.heat[n]) : n \in DOMAIN budget.heat \cap DOMAIN heats}
      \cup (IF baseline = None THEN {} ELSE Regressions(CollectedScores(baseline), scores, most))
      \cup {OptionalGate(summary.gross, budget.gross), OptionalGate(summary.net, budget.udp),
            LateGate(summary.frame, budget.late)}

Passes(checks) == checks \cap {"FAIL", "UNKNOWN"} = {}

-----------------------------------------------------------------------------
(* compare.py                                                              *)

\* Mutant of WithinTenth: the tenth is measured on the first session.
WithinTenthOfA(a, b) == 10 * Max({a - b, b - a}) <= a

\* The windows differ by a tenth of the longer one at most.
WithinTenth(a, b) == 10 * Max({a - b, b - a}) <= Max({a, b})

Refusals ==
    {"layer coverage", "analyzer version", "collector selection", "too short", "durations", "one workload",
     "torn workload", "workloads"}

\* compare_sessions: the first gate that rejects the pair, or None.  A document is
\* [summary, version, workload, heats, shares, frames].
Rejection(a, b) ==
    IF DOMAIN CollectedScores(a.summary) # DOMAIN CollectedScores(b.summary) THEN "layer coverage"
    ELSE IF a.version # b.version THEN "analyzer version"
    ELSE IF a.summary.only # b.summary.only THEN "collector selection"
    ELSE IF a.summary.seconds < 5 \/ b.summary.seconds < 5 THEN "too short"
    ELSE IF ~WithinTenth(a.summary.seconds, b.summary.seconds) THEN "durations"
    ELSE IF ~((a.workload = None) <=> (b.workload = None)) THEN "one workload"
    ELSE IF a.workload = Malformed \/ b.workload = Malformed THEN "torn workload"
    ELSE IF a.workload # b.workload THEN "workloads" ELSE None

\* _winner on whole numbers: less is better.
Winner(difference) ==
    CASE difference < 0 -> "B"
      [] difference > 0 -> "A"
      [] OTHER -> "tie"

\* _paired_deltas: a name that one side did not exercise has no winner.
PairedDeltas(left, right) ==
    [n \in DOMAIN left \cup DOMAIN right |->
        IF n \in DOMAIN left \cap DOMAIN right THEN Winner(right[n] - left[n]) ELSE "not_comparable"]

\* flame_delta.delta: the frames whose sampled weight moved, by name.
FrameDeltas(left, right) ==
    LET value(f, n) == IF n \in DOMAIN f THEN f[n] ELSE 0 IN
    [n \in DOMAIN left \cup DOMAIN right |-> value(right, n) - value(left, n)]

Comparison(a, b) ==
    LET left == CollectedScores(a.summary)
        right == CollectedScores(b.summary)
    IN IF Rejection(a, b) # None THEN [rejected |-> Rejection(a, b)]
       ELSE [rejected |-> None,
             overall |-> Winner(SumFunction(right) - SumFunction(left)),
             layers |-> PairedDeltas(left, right),
             sections |-> PairedDeltas(a.heats, b.heats),
             subsystems |-> PairedDeltas(a.totals, b.totals),
             frames |-> IF a.frames = None \/ b.frames = None THEN <<>> ELSE FrameDeltas(a.frames, b.frames)]

-----------------------------------------------------------------------------
(* scaling.py, over sessions whose loads and costs are powers of two: load *)
(* and the two costs of a section are logarithms, None when the session or *)
(* the section has none.                                                   *)

\* Mutant of Slope: the sums of x and y are not squared out of the fit.
SlopeThroughOrigin(points) ==
    LET sum(f(_)) == SumFunction([i \in DOMAIN points |-> f(points[i])])
        denominator == sum(LAMBDA p : p[1] * p[1])
    IN IF Len(points) < 3 \/ denominator = 0 THEN None
       ELSE (100 * sum(LAMBDA p : p[1] * p[2])) \div denominator

\* _loglog_slope, in hundredths: least squares over three points or more that are
\* not all at one load.
Slope(points) ==
    LET n == Len(points)
        sum(f(_)) == SumFunction([i \in DOMAIN points |-> f(points[i])])
        sx == sum(LAMBDA p : p[1])
        sy == sum(LAMBDA p : p[2])
        denominator == n * sum(LAMBDA p : p[1] * p[1]) - sx * sx
    IN IF n < 3 \/ denominator = 0 THEN None
       ELSE (100 * (n * sum(LAMBDA p : p[1] * p[2]) - sx * sy)) \div denominator

Classify(exponent) ==
    CASE exponent = None -> "n/a"
      [] exponent # None ->
            IF exponent >= 170 THEN "quadratic+" ELSE IF exponent >= 130 THEN "super-linear"
            ELSE IF exponent >= 80 THEN "linear" ELSE "sub-linear"

\* analyze_scaling of one section; a session without a load is left out, and one
\* without the section has no point.
ScalingOf(ladder) ==
    LET loaded == Those(ladder, LAMBDA s : s.load # None)
        having == Those(loaded, LAMBDA s : s.call # None)
        call == Slope([i \in DOMAIN having |-> <<having[i].load, having[i].call>>])
        total == Slope([i \in DOMAIN having |-> <<having[i].load, having[i].total>>])
    IN [loads |-> {s.load : s \in ToSet(loaded)}, perCall |-> call, total |-> total,
        classes |-> <<Classify(call), Classify(total)>>]

\* The scaling command: three sessions at three loads, or it refuses.
ScalingCommand(ladder) ==
    IF Len(ladder) < 3 \/ Cardinality(ScalingOf(ladder).loads) < 3 THEN None ELSE ScalingOf(ladder)

=============================================================================
