-------------------------- MODULE EvidenceLifecycle --------------------------
(***************************************************************************)
(* What the store promises about a piece of evidence, without names, paths *)
(* or processes: retention may retire it only as surplus and after marking *)
(* when it did, and it is destroyed only once the grace window since that  *)
(* mark has run out.  Until then it can be brought back.                   *)
(***************************************************************************)
EXTENDS Integers, FiniteSets

CONSTANTS Evidence, Keep, Grace

VARIABLES
    now,
    stage,  \* of each piece of evidence
    since   \* when retention last set out to retire it

lifecycle == <<now, stage, since>>

Stages == {"unmade", "kept", "retired", "destroyed"}
Kept == {d \in Evidence : stage[d] = "kept"}

Start ==
    /\ now \in Int
    /\ stage \in [Evidence -> {"unmade", "kept"}]
    /\ since \in [Evidence -> Int]

Become(d, s) == stage' = [stage EXCEPT ![d] = s] /\ UNCHANGED <<now, since>>

Capture(d) == stage[d] = "unmade" /\ Become(d, "kept")

Mark(d) ==
    /\ stage[d] = "kept"
    /\ since' = [since EXCEPT ![d] = now]
    /\ UNCHANGED <<now, stage>>

Surplus == Cardinality(Kept) > Keep
Retire(d) == stage[d] = "kept" /\ Surplus /\ Become(d, "retired")
Recover(d) == stage[d] = "retired" /\ Become(d, "kept")
Destroy(d) == stage[d] = "retired" /\ now - since[d] >= Grace /\ Become(d, "destroyed")

\* With the grace window disabled there is no trash to pass through.
Discard(d) == Grace = 0 /\ stage[d] = "kept" /\ Surplus /\ Become(d, "destroyed")

Advance == now' \in Int /\ now' > now /\ UNCHANGED <<stage, since>>

Step ==
    \/ Advance
    \/ \E d \in Evidence :
         Capture(d) \/ Mark(d) \/ Retire(d) \/ Recover(d) \/ Destroy(d) \/ Discard(d)

Spec == Start /\ [][Step]_lifecycle
=============================================================================
