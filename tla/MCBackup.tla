------------------------------ MODULE MCBackup ------------------------------
(* Small instances of Backup for TLC. *)
EXTENDS Backup, TLC

\* Sessions are interchangeable; so are the processes that back them up.
Alike == Permutations(Sessions) \cup Permutations(Runs)
=============================================================================
