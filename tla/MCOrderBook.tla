---------------------------- MODULE MCOrderBook ----------------------------
(* Small instances of OrderBook for TLC. *)
EXTENDS OrderBook, TLC

CONSTANTS g1, g2, c1, c2, c3

\* Two customers of one organization, one of another.
MCCustomerOrg == c1 :> g1 @@ c2 :> g1 @@ c3 :> g2

\* Money in half cents.  An order whose unit costs three cents and a half, and one whose
\* discount exceeds its price.
MCCreateDtos ==
    {[amount |-> 7, quantity |-> 2, discount |-> 0, shippingFee |-> 2, status |-> "PENDING"],
     [amount |-> 2, quantity |-> 1, discount |-> 10, shippingFee |-> 0, status |-> "DELIVERED"]}

\* Bodies that change different factors of the total, one to whole cents and one not, and
\* two that move the order: within the tenant of g1 and out of it (all set a quantity,
\* see Bind).
MCPatchDtos == {[f \in {"amount", "quantity"} |-> 2], "discount" :> 9 @@ "status" :> "DELIVERED",
                [f \in {"customer"} |-> c2], [f \in {"customer"} |-> c3]}

\* Requests are interchangeable; customers and organizations are not.
Symmetry == Permutations(Requests)
=============================================================================
