--------------------------- MODULE MCSessionStore ---------------------------
(* Small instances of SessionStore for TLC. *)
EXTENDS SessionStoreRefinement, TLC

CONSTANTS s1, s2, s3, s4

\* Sessions in the store when a run starts.
TwoOld == (s1 :> <<0>>) @@ (s2 :> <<1>>)
FourOld == TwoOld @@ (s3 :> <<2>>) @@ (s4 :> <<3>>)
\* Two sessions that were claimed within one clock unit.
Twins == (s1 :> <<1>>) @@ (s2 :> <<1, 1>>)

\* Directories of one size, and of sizes that grow with their age.
AlikeSize == [d \in Evidence |-> 1]
OldLarge == [d \in Evidence |-> IF d = s1 THEN 3 ELSE IF d = s2 THEN 2 ELSE 1]

\* Processes of one kind are interchangeable.
Alike == Permutations(Captures) \cup Permutations(Pruners)
=============================================================================
