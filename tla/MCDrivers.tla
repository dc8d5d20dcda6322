----------------------------- MODULE MCDrivers ------------------------------
(* A small instance of Drivers for TLC: a plan of two entries, one tier beside it. *)
EXTENDS Drivers
=============================================================================
