------------------------------- MODULE Ledger -------------------------------
(***************************************************************************)
(* What the order service promises its tenants, whatever statements it     *)
(* takes: a book of orders that changes by whole orders.  An order is      *)
(* entered once, under the tenant of its client and a number the tenant    *)
(* has not in use; its tenant and number never change; it may move to      *)
(* another client of the tenant; it leaves alone, or with its client.      *)
(* Both leave for good.                                                    *)
(*                                                                         *)
(* OrderBook implements this (Promise in that module): of all the          *)
(* statements of all handlers in flight, exactly those that write orders   *)
(* or delete customers are steps here, and the others are stutters.        *)
(***************************************************************************)
EXTENDS Integers

CONSTANTS
    Ids, Clients,
    TenantOf        \* the tenant of each client

VARIABLES
    clients,        \* those that exist
    book,           \* the orders, by id: records with at least tenant, client and number
    spent           \* ids that have been used

vars == <<clients, book, spent>>

OfTenant(t) == {i \in DOMAIN book : book[i].tenant = t}

\* An entry as it may stand in the book.
Sound(e) == e.client \in clients /\ TenantOf[e.client] = e.tenant

Init ==
    /\ clients = Clients
    /\ book = <<>>
    /\ spent = {}

\* The other entries stay as they are.
KeepsBut(i) == \A j \in DOMAIN book \ {i} : j \in DOMAIN book' /\ book'[j] = book[j]

Enter(i) ==
    /\ i \notin spent
    /\ DOMAIN book' = DOMAIN book \cup {i}
    /\ KeepsBut(i)
    /\ Sound(book'[i])
    /\ \A j \in OfTenant(book'[i].tenant) : book[j].number # book'[i].number
    /\ spent' = spent \cup {i}
    /\ UNCHANGED clients

Amend(i) ==
    /\ i \in DOMAIN book
    /\ DOMAIN book' = DOMAIN book
    /\ KeepsBut(i)
    /\ Sound(book'[i])
    /\ book'[i].tenant = book[i].tenant /\ book'[i].number = book[i].number
    /\ UNCHANGED <<clients, spent>>

Strike(i) ==
    /\ i \in DOMAIN book
    /\ DOMAIN book' = DOMAIN book \ {i}
    /\ KeepsBut(i)
    /\ UNCHANGED <<clients, spent>>

\* A client leaves with every order it has, and with no other.
Dismiss(c) ==
    /\ c \in clients
    /\ clients' = clients \ {c}
    /\ book' = [i \in {j \in DOMAIN book : book[j].client # c} |-> book[i]]
    /\ UNCHANGED spent

Next == (\E i \in Ids : Enter(i) \/ Amend(i) \/ Strike(i)) \/ (\E c \in Clients : Dismiss(c))

Spec == Init /\ [][Next]_vars
=============================================================================
