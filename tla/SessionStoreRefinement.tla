----------------------- MODULE SessionStoreRefinement -----------------------
(***************************************************************************)
(* The session store implements the lifecycle of evidence as long as one   *)
(* prune runs at a time and its mtime stamps take: the mtimes, names and   *)
(* path operations it works with are an implementation of `since' and of   *)
(* the two guards.                                                         *)
(***************************************************************************)
EXTENDS SessionStore

StageAt == [unmade |-> "unmade", store |-> "kept", trash |-> "retired", gone |-> "destroyed"]

Lifecycle == INSTANCE EvidenceLifecycle
    WITH now <- clock, stage <- [d \in Evidence |-> StageAt[where[d]]], since <- retiredAt

\* Every step of claims, prunes, purges and restores, with crashes and failing
\* renames in between, is a step of the evidence's lifecycle or none.
ImplementsLifecycle == Lifecycle!Spec
=============================================================================
