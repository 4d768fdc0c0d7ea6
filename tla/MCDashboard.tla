---------------------------- MODULE MCDashboard ----------------------------
(* A small instance of Dashboard for TLC. *)
EXTENDS Dashboard, TLC

CONSTANTS g1, g2, c1, v1, v2

\* One customer; the other organization has none.
MCCustomerOrg == c1 :> g1

\* The customer is as old as a row of the monthly series can be.
MCJoined == c1 :> 0

\* A viewer of what is counted of orders and of customers, once of the tenant that has none,
\* and another of the report that is stored longest.
MCLooks == v1 :> {"sales", "orders", "customers"} \X {g1} \cup {<<"customers", g2>>}
           @@ v2 :> {"sales"} \X {g1}

\* An order that counts as revenue, and one that does not.
MCCreateDtos ==
    {[amount |-> 3, quantity |-> 1, discount |-> 0, shippingFee |-> 0, status |-> "PENDING"],
     [amount |-> 2, quantity |-> 1, discount |-> 0, shippingFee |-> 0, status |-> "CANCELLED"]}
=============================================================================
