---------------------------- MODULE MCDirectory ----------------------------
(* A small instance of Directory for TLC: two tenants that mirror each other. *)
EXTENDS Directory, TLC

CONSTANTS g1, g2, u1, u2, c1, c2, t1, t2, f1

MCUserOrg == u1 :> g1 @@ u2 :> g2
MCRowOrg == c1 :> g1 @@ c2 :> g2 @@ t1 :> g1 @@ t2 :> g2

\* Bodies that claim or clear a Facebook id, and that edit a row and assign an agent.
MCBodies == {"facebookId" :> f : f \in {f1, None}} \cup
            {"crm" :> None @@ "facebookName" :> None @@ "agent" :> a : a \in {u1, u2}}

\* Requests are interchangeable, and so are the two tenants with all they hold.
Tenants == {g1 :> g1, g1 :> g2 @@ g2 :> g1 @@ u1 :> u2 @@ u2 :> u1 @@ c1 :> c2 @@ c2 :> c1
                      @@ t1 :> t2 @@ t2 :> t1}
Symmetry == {p @@ q : p \in Permutations(Requests), q \in Tenants}
=============================================================================
