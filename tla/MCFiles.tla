------------------------------ MODULE MCFiles ------------------------------
(* A small instance of Files for TLC.  The requests are not made symmetric: *)
(* the run checks a liveness property.                                      *)
EXTENDS Files

CONSTANTS g1, r1, r2, r3, r4
=============================================================================
