---------------------------- MODULE MCIntegrity -----------------------------
(* A small instance of Integrity for TLC: a document, a text, and a file an export leaves out. *)
EXTENDS Integrity, TLC

CONSTANTS doc, log, chat

KindOf == (doc :> "json") @@ (log :> "text") @@ (chat :> "excluded")
=============================================================================
