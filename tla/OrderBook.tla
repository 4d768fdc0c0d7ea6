----------------------------- MODULE OrderBook -----------------------------
(***************************************************************************)
(* The orders of the tenants, with the customers they hang on              *)
(* (modules/order over order.repository.ts; the removal of a customer from *)
(* modules/customer, because it cascades to the orders).                   *)
(*                                                                         *)
(* As in AuthSession a Prisma statement is an action, handlers interleave  *)
(* between statements, and ids are named after the request that draws      *)
(* them: order r is the one created by request r.  Every statement carries *)
(* organizationId = the tenant of the request (base.repository.ts); what   *)
(* Postgres adds is the unique (organization, orderNumber), the foreign    *)
(* key to customers and its ON DELETE CASCADE.  Nothing in the schema ties *)
(* an order's organization to its customer's.                              *)
(*                                                                         *)
(* The columns hold whole cents, Decimal(12,2); a body may name fractions  *)
(* of a cent, which computeTotal sees and the columns do not.  A value     *)
(* beyond 12 digits fails its statement: a handler that dies there.        *)
(* Product names, notes and payment status are left out; a request refused *)
(* before its first statement is over is no step.                          *)
(***************************************************************************)
EXTENDS Integers, FiniteSets

CONSTANTS
    Orgs, Customers, Requests,
    CustomerOrg,  \* the organization of each customer
    CreateDtos,   \* bodies of POST /orders, the defaults of the absent columns filled in
    PatchDtos,    \* bodies of PATCH /orders/:id: functions from some of the columns
    Statuses,
    Cent,         \* the fractions bodies name money in that make one cent
    MaxCrashes,   \* how many handlers may die half way
    None

Amounts == {"amount", "discount", "shippingFee"}
Money == Amounts \cup {"quantity"}
Columns == Money \cup {"status", "customer"}

ASSUME OrderConstants ==
    /\ CustomerOrg \in [Customers -> Orgs]
    /\ \A d \in CreateDtos : /\ Money \subseteq DOMAIN d
                             /\ \A f \in Money : d[f] \in Nat
                             /\ d["status"] \in Statuses
    /\ \A d \in PatchDtos : /\ DOMAIN d \subseteq Columns
                            /\ \A f \in DOMAIN d \cap Money : d[f] \in Nat
                            /\ "customer" \in DOMAIN d => d["customer"] \in Customers
                            /\ "status" \in DOMAIN d => d["status"] \in Statuses
    /\ "PENDING" \in Statuses
    /\ Cent \in Nat \ {0}
    /\ MaxCrashes \in Nat
    /\ None \notin Orgs \cup Customers \cup Requests

VARIABLES
    pc,          \* the next statement of each request's handler
    ctx,         \* its locals
    customers,   \* customers: the rows that exist
    orders,      \* orders: the rows that exist
    row,         \* ... and their columns; of a deleted order, the last ones
    audit,       \* audit_logs: the requests that left a row
    crashed,     \* handlers that died
    gaps,        \* history: organizations that have lost an order
    torn,        \* history: orders whose last PATCH wrote over a newer row
    rough,       \* history: orders whose last total came of fractions of a cent
    written      \* history: updates whose statement met a row

store == <<customers, orders, row>>
history == <<gaps, torn, rough, written>>
vars == <<pc, ctx, store, audit, crashed, history>>

Ops == {"none", "create", "patch", "status", "remove", "removeCustomer"}
Labels == {"new", "count", "insert", "checkCustomer", "write", "setStatus", "delete",
           "deleteCustomer", "audit", "done", "refused"}

\* The request's tenant and what it names: a customer, an order; dto is the body,
\* seen the order as findOne returned it, number the result of nextOrderNumber.
Locals(op, org, customer, order, dto, seen) ==
    [op |-> op, org |-> org, customer |-> customer, order |-> order,
     dto |-> dto, seen |-> seen, number |-> 0]

Blank == Locals("none", None, None, None, None, None)

Row(org, customer, number, status, amount, quantity, discount, shippingFee, total) ==
    [org |-> org, customer |-> customer, number |-> number, status |-> status,
     amount |-> amount, quantity |-> quantity, discount |-> discount,
     shippingFee |-> shippingFee, total |-> total]

NoRow == Row(None, None, 0, "PENDING", 0, 0, 0, 0, 0)

Init ==
    /\ pc = [r \in Requests |-> "new"]
    /\ ctx = [r \in Requests |-> Blank]
    /\ customers = Customers
    /\ orders = {} /\ row = [r \in Requests |-> NoRow]
    /\ audit = {} /\ crashed = {}
    /\ gaps = {} /\ torn = {} /\ rough = {} /\ written = {}

-----------------------------------------------------------------------------
\* amount * quantity - discount + shippingFee
Price(m) == m["amount"] * m["quantity"] - m["discount"] + m["shippingFee"]

\* computeTotal, of money in fractions of a cent: to the nearest cent and never negative.
\* Half a cent goes either way: toFixed rounds the binary value, which lies on either
\* side of the decimal one (mutant: without the clamp).
Nearest(x) == {n \in {x \div Cent, x \div Cent + 1} : 2 * (n * Cent - x) \in -Cent..Cent}
Totals_Unclamped(m) == Nearest(Price(m))
Totals(m) == IF Price(m) < 0 THEN {0} ELSE Nearest(Price(m))

\* The same formula over whole cents.
TotalOf(x) == IF Price(x) < 0 THEN 0 ELSE Price(x)

\* What Postgres stores in a Decimal(12,2): the nearest cent, half a cent up.
Cents(v) == (2 * v + Cent) \div (2 * Cent)
Stored(d, f) == IF f \in Amounts THEN Cents(d[f]) ELSE d[f]
Fractional(d) == \E f \in DOMAIN d \cap Amounts : d[f] % Cent # 0

\* The row after { ...dto, total } was written to it.
Pick(x, d, f) == IF f \in DOMAIN d THEN Stored(d, f) ELSE x[f]

Merge(x, d, total) ==
    Row(x.org, Pick(x, d, "customer"), x.number, Pick(x, d, "status"), Pick(x, d, "amount"),
        Pick(x, d, "quantity"), Pick(x, d, "discount"), Pick(x, d, "shippingFee"), total)

\* A PATCH body as the controller receives it: UpdateOrderDto is a PartialType of
\* CreateOrderDto, which initializes quantity to 1, and a body without quantity
\* keeps that initial value.
Bind(d) == [f \in DOMAIN d \cup {"quantity"} |-> IF f \in DOMAIN d THEN d[f] ELSE 1]

SameMoney(x, y) == /\ x.amount = y.amount /\ x.quantity = y.quantity
                   /\ x.discount = y.discount /\ x.shippingFee = y.shippingFee

OrgOrders(g) == {o \in orders : row[o].org = g}

\* where: { id, organizationId } (mutant: id alone).
Owns_Any(g, o) == o \in orders
Owns(g, o) == o \in OrgOrders(g)

\* customerInOrg (mutant: the organization is not asked for).
CustomerInOrg_Any(g, c) == c \in customers
CustomerInOrg(g, c) == c \in customers /\ CustomerOrg[c] = g

\* @@unique([organizationId, orderNumber])
NumberTaken(g, n) == \E o \in OrgOrders(g) : row[o].number = n

\* nextOrderNumber (mutant: the other organizations' orders count as well).
NextOrderNumber_Global(g) == Cardinality(orders) + 1
NextOrderNumber(g) == Cardinality(OrgOrders(g)) + 1

At(r, label) == pc[r] = label /\ r \notin crashed
Goto(r, label) == pc' = [pc EXCEPT ![r] = label]

Admit(r, c, label) ==
    /\ pc[r] = "new"
    /\ ctx' = [ctx EXCEPT ![r] = c]
    /\ Goto(r, label)
    /\ UNCHANGED <<store, audit, crashed, history>>

-----------------------------------------------------------------------------
\* create(): customerInOrg.
CreateArrive(r, g, c, d) ==
    /\ CustomerInOrg(g, c)
    /\ Admit(r, Locals("create", g, c, None, d, None), "count")

\* create(): nextOrderNumber, a count.
CreateCount(r) ==
    /\ At(r, "count")
    /\ ctx' = [ctx EXCEPT ![r].number = NextOrderNumber(ctx[r].org)]
    /\ Goto(r, "insert")
    /\ UNCHANGED <<store, audit, crashed, history>>

NewRow(c, total) ==
    Row(c.org, c.customer, c.number, c.dto.status, Cents(c.dto.amount), c.dto.quantity,
        Cents(c.dto.discount), Cents(c.dto.shippingFee), total)

\* create(): order.create with the total of the body, refused by the unique number
\* (P2002, 409) or by the foreign key when the customer has gone meanwhile (P2003, 400).
CreateInsert(r) ==
    /\ At(r, "insert")
    /\ LET c == ctx[r] IN
       \/ /\ NumberTaken(c.org, c.number)
          /\ Goto(r, "refused")
          /\ UNCHANGED <<orders, row, rough>>
       \/ /\ ~NumberTaken(c.org, c.number) /\ c.customer \notin customers
          /\ Goto(r, "refused")
          /\ UNCHANGED <<orders, row, rough>>
       \/ /\ ~NumberTaken(c.org, c.number) /\ c.customer \in customers
          /\ orders' = orders \cup {r}
          /\ \E t \in Totals(c.dto) : row' = [row EXCEPT ![r] = NewRow(c, t)]
          /\ rough' = IF Fractional(c.dto) THEN rough \cup {r} ELSE rough
          /\ Goto(r, "audit")
    /\ UNCHANGED <<ctx, customers, audit, crashed, gaps, torn, written>>

\* audit.log, the last statement of every mutation; its errors are swallowed.
AuditLog(r) ==
    /\ At(r, "audit")
    /\ audit' \in {audit, audit \cup {r}}
    /\ Goto(r, "done")
    /\ UNCHANGED <<ctx, store, crashed, history>>

-----------------------------------------------------------------------------
\* update(): findOne, then customerInOrg if the body names a customer.
PatchArrive(r, g, o, d) ==
    /\ Owns(g, o)
    /\ Admit(r, Locals("patch", g, None, o, Bind(d), row[o]),
             IF "customer" \in DOMAIN d THEN "checkCustomer" ELSE "write")

PatchCheckCustomer(r) ==
    /\ At(r, "checkCustomer")
    /\ Goto(r, IF CustomerInOrg(ctx[r].org, ctx[r].dto["customer"]) THEN "write" ELSE "refused")
    /\ UNCHANGED <<ctx, store, audit, crashed, history>>

\* dto.f ?? Number(existing.f): the money of the body, and of the columns as they were
\* seen, not as they are written to (mutant: the other columns taken as zero).
Full(x, d) ==
    [f \in Money |-> IF f \in DOMAIN d THEN d[f]
                     ELSE IF f \in Amounts THEN x[f] * Cent ELSE x[f]]
PatchTotals_BodyOnly(r) == Totals(Full(NoRow, ctx[r].dto))
PatchTotals(r) == Totals(Full(ctx[r].seen, ctx[r].dto))

\* update(): updateMany({ ...dto, total }).  No row may be left to update, and the
\* handler goes on; a new customer that has gone meanwhile violates the foreign key.
PatchWrite(r) ==
    /\ At(r, "write")
    /\ LET o == ctx[r].order
           d == ctx[r].dto
       IN
       \/ /\ ~Owns(ctx[r].org, o)
          /\ Goto(r, "audit")
          /\ UNCHANGED <<row, torn, rough, written>>
       \/ /\ Owns(ctx[r].org, o)
          /\ "customer" \in DOMAIN d /\ d["customer"] \notin customers
          /\ Goto(r, "refused")
          /\ UNCHANGED <<row, torn, rough, written>>
       \/ /\ Owns(ctx[r].org, o)
          /\ "customer" \in DOMAIN d => d["customer"] \in customers
          /\ \E t \in PatchTotals(r) : row' = [row EXCEPT ![o] = Merge(row[o], d, t)]
          /\ torn' = IF SameMoney(row[o], ctx[r].seen) THEN torn \ {o} ELSE torn \cup {o}
          /\ rough' = IF Fractional(d) THEN rough \cup {o} ELSE rough \ {o}
          /\ written' = written \cup {r}
          /\ Goto(r, "audit")
    /\ UNCHANGED <<ctx, customers, orders, audit, crashed, gaps>>

\* changeStatus(): findOne, setStatus; any status may follow any other.
StatusArrive(r, g, o, s) ==
    /\ Owns(g, o)
    /\ Admit(r, Locals("status", g, None, o, [status |-> s], None), "setStatus")

StatusWrite(r) ==
    /\ At(r, "setStatus")
    /\ row' = IF Owns(ctx[r].org, ctx[r].order)
              THEN [row EXCEPT ![ctx[r].order].status = ctx[r].dto.status] ELSE row
    /\ written' = IF Owns(ctx[r].org, ctx[r].order) THEN written \cup {r} ELSE written
    /\ Goto(r, "audit")
    /\ UNCHANGED <<ctx, customers, orders, audit, crashed, gaps, torn, rough>>

\* remove(): findOne, deleteMany (mutant: the audit row is written without deleting).
RemoveArrive_AuditOnly(r, g, o) ==
    /\ Owns(g, o)
    /\ Admit(r, Locals("remove", g, None, o, None, None), "audit")

RemoveArrive(r, g, o) ==
    /\ Owns(g, o)
    /\ Admit(r, Locals("remove", g, None, o, None, None), "delete")

RemoveDelete(r) ==
    /\ At(r, "delete")
    /\ orders' = {o \in orders : ~(o = ctx[r].order /\ Owns(ctx[r].org, o))}
    /\ gaps' = IF orders' = orders THEN gaps ELSE gaps \cup {ctx[r].org}
    /\ Goto(r, "audit")
    /\ UNCHANGED <<ctx, customers, row, audit, crashed, torn, rough, written>>

\* CustomerService.remove(): findOne, deleteMany; Postgres deletes the customer's
\* orders with it (mutant: it does not).
Cascade_None(c) == {}
Cascade(c) == {o \in orders : row[o].customer = c}

CustomerRemoveArrive(r, g, c) ==
    /\ CustomerInOrg(g, c)
    /\ Admit(r, Locals("removeCustomer", g, c, None, None, None), "deleteCustomer")

CustomerDelete(r) ==
    /\ At(r, "deleteCustomer")
    /\ LET c == ctx[r].customer IN
       /\ customers' = customers \ {c}
       /\ orders' = orders \ Cascade(c)
       /\ gaps' = gaps \cup {row[o].org : o \in Cascade(c)}
    /\ Goto(r, "audit")
    /\ UNCHANGED <<ctx, row, audit, crashed, torn, rough, written>>

-----------------------------------------------------------------------------
\* A handler dies between two statements; those already run stay.
Crash(r) ==
    /\ pc[r] \notin {"new", "done", "refused"} /\ r \notin crashed
    /\ Cardinality(crashed) < MaxCrashes
    /\ crashed' = crashed \cup {r}
    /\ UNCHANGED <<pc, ctx, store, audit, history>>

Arrive(r) ==
    \E g \in Orgs :
        \/ \E c \in Customers, d \in CreateDtos : CreateArrive(r, g, c, d)
        \/ \E o \in Requests, d \in PatchDtos : PatchArrive(r, g, o, d)
        \/ \E o \in Requests, s \in Statuses : StatusArrive(r, g, o, s)
        \/ \E o \in Requests : RemoveArrive(r, g, o)
        \/ \E c \in Customers : CustomerRemoveArrive(r, g, c)

Continue(r) ==
    \/ CreateCount(r) \/ CreateInsert(r)
    \/ PatchCheckCustomer(r) \/ PatchWrite(r)
    \/ StatusWrite(r) \/ RemoveDelete(r) \/ CustomerDelete(r)
    \/ AuditLog(r)

Next == \E r \in Requests : Arrive(r) \/ Continue(r) \/ Crash(r)

Spec == Init /\ [][Next]_vars

-----------------------------------------------------------------------------
RowType == [org: Orgs \cup {None}, customer: Customers \cup {None}, number: Nat,
            status: Statuses, amount: Nat, quantity: Nat, discount: Nat,
            shippingFee: Nat, total: Nat]

Bodies == {None} \cup CreateDtos \cup {Bind(d) : d \in PatchDtos} \cup [status: Statuses]

Context == [op: Ops, org: Orgs \cup {None}, customer: Customers \cup {None},
            order: Requests \cup {None}, dto: Bodies, seen: RowType \cup {None}, number: Nat]

\* Every column keeps its type; a total is never negative (order.service.ts:17).
TypeOK ==
    /\ pc \in [Requests -> Labels]
    /\ ctx \in [Requests -> Context]
    /\ customers \subseteq Customers
    /\ orders \subseteq Requests /\ IsFiniteSet(orders)
    /\ row \in [Requests -> RowType]
    /\ audit \subseteq Requests /\ crashed \subseteq Requests
    /\ gaps \subseteq Orgs
    /\ torn \subseteq Requests /\ rough \subseteq Requests /\ written \subseteq Requests

\* An order hangs on a customer that exists and belongs to the order's own
\* organization, whatever happens to customers between a handler's check and its
\* write (order.service.ts:24, 61; no constraint of the schema compares the two).
OrdersStayInTenant ==
    \A o \in orders : row[o].customer \in customers /\ CustomerOrg[row[o].customer] = row[o].org

\* The total of an order is the formula over its own columns, unless its last PATCH was
\* computed from a row that another PATCH had replaced meanwhile; a later PATCH that
\* meets the row it saw repairs it (order.service.ts:66-73).  When the body that fixed
\* the total named fractions of a cent, total and columns are rounded apart, and differ
\* by no more than half a cent for each unit and for the discount, the fee and the total
\* (order.service.ts:18-21, create-order.dto.ts:29-47, schema.prisma:293-296).
TotalFollowsColumns ==
    \A o \in orders \ torn :
        LET off == row[o].total - TotalOf(row[o]) IN
        /\ o \notin rough => off = 0
        /\ 2 * off \in -(row[o].quantity + 3)..(row[o].quantity + 3)

\* While an organization has lost no order, its numbers are exactly 1..n, however
\* its creates interleave with each other and with other tenants'
\* (order.repository.ts:82-86 and the unique index).
NumbersAreDense ==
    \A g \in Orgs \ gaps :
        {row[o].number : o \in OrgOrders(g)} = 1..Cardinality(OrgOrders(g))

\* What the audit log says of orders has happened: what it says was created had a
\* number, what it says was removed is gone for good, and an order it says was updated
\* was, or has been deleted meanwhile: updateMany may meet no row and the handler logs
\* ORDER_UPDATE all the same (order.service.ts:73-74, 80-81; order.repository.ts:38-52).
AuditTellsTruth ==
    \A r \in audit :
        /\ ctx[r].op = "create" => row[r].number > 0
        /\ ctx[r].op \in {"patch", "status"} => r \in written \/ ctx[r].order \notin orders
        /\ ctx[r].op = "remove" => ctx[r].order \notin orders
        /\ ctx[r].op = "removeCustomer" => ctx[r].customer \notin customers

\* A tenant's orders change only by a request of that tenant
\* (order.repository.ts:32-52), and an order that is gone stays gone.
TenantsAreIsolated ==
    [][\A o \in Requests :
           (o \in orders /\ (o \notin orders' \/ row'[o] # row[o])) =>
               \E r \in Requests : pc'[r] # pc[r] /\ ctx[r].org = row[o].org]_vars

\* The book a tenant may rely on, kept by these statements (see Ledger): the orders as
\* they are in the table, and an id spent once its row has been written.
Promise == INSTANCE Ledger WITH
    Ids <- Requests, Clients <- Customers, TenantOf <- CustomerOrg,
    clients <- customers,
    book <- [o \in orders |-> [tenant |-> row[o].org, client |-> row[o].customer,
                               number |-> row[o].number, rest |-> row[o]]],
    spent <- {r \in Requests : row[r] # NoRow}

\* Handlers that read, decide and write in several statements, overtake each other and
\* die half way keep the promise of one book changed by whole orders: entered once
\* under a free number of the client's tenant, amended in place, gone alone or with the
\* client (order.service.ts:24-99, order.repository.ts, and the cascade of the schema).
PromiseKept == Promise!Spec

\* What order.repository.ts:82 says: gap-tolerant, so the number the next create of
\* a tenant draws is free whenever no other create of the tenant comes between.
NumberingIsGapTolerant == \A g \in Orgs : ~NumberTaken(g, NextOrderNumber(g))

\* What order.service.ts:66 says: the total changes if a monetary field changed,
\* so a PATCH that names none leaves the money of the row it met alone.
PatchKeepsMoney ==
    [][\A r \in Requests :
           (/\ pc[r] = "write" /\ pc'[r] = "audit" /\ ctx[r].order \in orders
            /\ \E d \in PatchDtos : DOMAIN d \cap Money = {} /\ ctx[r].dto = Bind(d)
            /\ ctx[r].seen = row[ctx[r].order])
           => SameMoney(row[ctx[r].order], row'[ctx[r].order])]_vars
=============================================================================
