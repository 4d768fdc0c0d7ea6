--------------------------- MODULE MCAuthSession ---------------------------
(* Small instances of AuthSession for TLC. *)
EXTENDS AuthSession, TLC

\* Requests are interchangeable; users are not (their sessions are the mortal ones).
Symmetry == Permutations(Requests)
=============================================================================
