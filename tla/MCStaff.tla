------------------------------ MODULE MCStaff ------------------------------
(* A small instance of Staff for TLC. *)
EXTENDS Staff, TLC

CONSTANTS g1, g2, u1, u2, u3

\* A tenant with an owner and an agent, and one whose owner has become an admin.
MCUserOrg == u1 :> g1 @@ u2 :> g1 @@ u3 :> g2
MCFirstRole == u1 :> "OWNER" @@ u2 :> "AGENT" @@ u3 :> "ADMIN"
=============================================================================
