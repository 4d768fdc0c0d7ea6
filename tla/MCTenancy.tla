----------------------------- MODULE MCTenancy -----------------------------
(* A small instance of Tenancy for TLC. *)
EXTENDS Tenancy, TLC

\* One name of which only one other slug can be drawn: the third registration finds
\* every slug taken.
MCDraws == "acme" :> {"acme-1"}

\* The defaults; and strings each reader understands in its own way.
MCConfigs == {DefaultConfig,
              [access |-> [n |-> 900, unit |-> "none"], refresh |-> [n |-> 2, unit |-> "w"]]}
=============================================================================
