------------------------------ MODULE MCCapture ------------------------------
(* Small instances of Capture for TLC. *)
EXTENDS Capture

\* Every capture may be asked for anything the catalog has.
AnyPlan == [c \in Captures |-> SUBSET Specs]

\* Interrupts reach the collectors' window and what follows the release, the gaps
\* between taking something and noting it excepted.
InWindow == {"launch", "poll", "expire", "stop"} \cup Recording
\* Interrupts reach the claims being made: with these, NothingStranded fails.
WhileAcquiring == Acquiring
=============================================================================
