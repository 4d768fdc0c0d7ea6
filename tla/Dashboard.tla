----------------------------- MODULE Dashboard -----------------------------
(***************************************************************************)
(* The reports of a tenant over its book (modules/dashboard and            *)
(* modules/analytics): figures counted by separate statements while        *)
(* requests change what they count, and two reports kept in Redis.         *)
(*                                                                         *)
(* OrderBook is here as it is: its requests create, patch, move and delete *)
(* orders and customers.  Beside them customers change status (the         *)
(* handlers are in Directory; their one write is MoveCustomer).  A report  *)
(* is a viewer, who may come again and again.  Promise.all starts the      *)
(* statements of a batch together, so they run in any order.               *)
(*                                                                         *)
(* Time is counted in ticks, some of which make a month: the two monthly   *)
(* series have a bucket for each month with rows young enough.  Averages   *)
(* and rates, computed from the figures at the end, are left out.          *)
(***************************************************************************)
EXTENDS Integers, FiniteSets, FiniteSetsExt, Functions

CONSTANTS
    Orgs, Customers, Requests, CustomerOrg, CreateDtos, PatchDtos, Statuses,
    Cent, MaxCrashes, None,   \* those of OrderBook
    Stages,             \* statuses of customers
    Viewers,            \* who may look at reports at the same time,
    Looks,              \* ... and at which, of which tenant
    MaxMoves,           \* how often customers change status or rows grow older
    MonthLength,        \* ticks of a calendar month
    Window,             \* ticks of the twelve months the series look back
    Start,              \* the tick the model begins at
    Joined              \* the tick each customer was created at

Reports == {"stats", "sales", "orders", "customers"}

ASSUME DashboardConstants ==
    /\ IsFiniteSet(Customers)   \* the rows of a table
    /\ Looks \in [Viewers -> SUBSET (Reports \X Orgs)]
    /\ {"NEW", "ORDERED", "DELIVERED"} \subseteq Stages
    /\ MaxMoves \in Nat /\ MonthLength \in Nat \ {0} /\ Window \in Nat
    /\ Start \in Nat /\ Joined \in [Customers -> 0..Start]

VARIABLES
    pc, ctx, customers, orders, row, audit, crashed,
    gaps, torn, rough, written,   \* OrderBook
    stage,     \* customers.status
    moves,     \* how often customers have changed status or time has passed
    now,       \* the tick it is
    placed,    \* orders.created_at
    cache,     \* Redis: the stored reports, by report and tenant
    view,      \* what each viewer is doing
    truth      \* history: what its tenant's figures were from the opening of a viewer's
               \* report until they were read

Book == INSTANCE OrderBook

ASSUME BookConstants == Book!OrderConstants

tables == <<pc, ctx, customers, orders, row, audit, crashed, gaps, torn, rough, written>>
world == <<tables, stage, moves, now, placed>>
vars == <<world, cache, view, truth>>

\* The statements of each report; those of a batch run together, the batches in turn.
Batches(report) ==
    CASE report = "stats" -> <<{"customers", "orders", "revenue", "new", "pending"}>>
      [] report = "sales" -> <<{"revenue", "revenueByMonth", "orders"}>>
      [] report = "orders" -> <<{"orders", "byStatus"}>>
      [] report = "customers" -> <<{"customers", "growth", "delivered"}, {"ordered"}>>

Figures == {"customers", "orders", "revenue", "new", "pending", "byStatus", "delivered",
            "ordered", "revenueByMonth", "growth"}

\* Seconds a report stays in Redis; zero: it is not stored.
Ttl(report) == CASE report = "stats" -> 30 [] report = "sales" -> 60 [] OTHER -> 0

\* Redis keys carry the report and the tenant.
Key(report, g) == <<report, g>>

-----------------------------------------------------------------------------
\* where: { organizationId } of the statements over customers (mutant: left out).  Those
\* over orders have OrgOrders, which goes by the column of the order.
OrgCustomers_All(g) == customers
OrgCustomers(g) == {c \in customers : CustomerOrg[c] = g}

AtStage(g, s) == Cardinality({c \in OrgCustomers(g) : stage[c] = s})
WithStatus(g, s) == Cardinality({o \in Book!OrgOrders(g) : row[o].status = s})

\* status <> 'CANCELLED'
Kept(g) == {o \in Book!OrgOrders(g) : row[o].status # "CANCELLED"}

\* SUM: w has the number of each row.
Total(w) == FoldFunction(+, 0, w)
SumTotals(S) == Total([o \in S |-> row[o].total])

\* GROUP BY date_trunc('month', created_at): born has the tick of each row.
Month(t) == t \div MonthLength
Young(S, born) == {x \in S : born[x] >= now - Window}
ByMonth(S, born, Value(_)) ==
    [m \in {Month(born[x]) : x \in S} |-> Value({x \in S : Month(born[x]) = m})]

\* What each statement returns.
Figure(g, f) ==
    CASE f = "customers" -> Cardinality(OrgCustomers(g))
      [] f = "orders" -> Cardinality(Book!OrgOrders(g))
      [] f = "revenue" -> SumTotals(Kept(g))
      [] f = "revenueByMonth" -> ByMonth(Young(Kept(g), placed), placed, SumTotals)
      [] f = "growth" -> ByMonth(Young(OrgCustomers(g), Joined), Joined, Cardinality)
      [] f = "new" -> AtStage(g, "NEW")
      [] f = "delivered" -> AtStage(g, "DELIVERED")
      [] f = "ordered" -> AtStage(g, "ORDERED")
      [] f = "pending" -> WithStatus(g, "PENDING")
      [] f = "byStatus" -> [s \in Statuses |-> WithStatus(g, s)]

\* What the figure of a tenant is: of its customers, and of the orders of its customers,
\* whatever organization a statement asks for.
TrueFigure(g, f) ==
    LET people == {c \in customers : CustomerOrg[c] = g}
        sales == {o \in orders : row[o].customer \in people}
        paid == {o \in sales : row[o].status # "CANCELLED"}
        In(s) == {c \in people : stage[c] = s}
        Of(s) == {o \in sales : row[o].status = s}
    IN CASE f = "customers" -> Cardinality(people)
         [] f = "orders" -> Cardinality(sales)
         [] f = "revenue" -> SumTotals(paid)
         [] f = "revenueByMonth" ->
                ByMonth({o \in paid : placed[o] + Window >= now}, placed, SumTotals)
         [] f = "growth" ->
                ByMonth({c \in people : Joined[c] + Window >= now}, Joined, Cardinality)
         [] f = "new" -> Cardinality(In("NEW"))
         [] f = "delivered" -> Cardinality(In("DELIVERED"))
         [] f = "ordered" -> Cardinality(In("ORDERED"))
         [] f = "pending" -> Cardinality(Of("PENDING"))
         [] f = "byStatus" -> [s \in Statuses |-> Cardinality(Of(s))]

\* What is true of a tenant now, about the figures of a report.
FiguresOf(report) == UNION Range(Batches(report))
Facts(report, g) == [f \in FiguresOf(report) |-> {TrueFigure(g, f)}]

\* A function with one more argument, or another value there.
With(fn, x, e) == [y \in DOMAIN fn \cup {x} |-> IF y = x THEN e ELSE fn[y]]

\* Nobody's report.
Idle == [org |-> None, report |-> None, figs |-> <<>>]
Reading(v) == view[v] # Idle
Read(v) == DOMAIN view[v].figs

Init ==
    /\ Book!Init
    /\ stage = [c \in Customers |-> "NEW"] /\ moves = 0
    /\ now = Start /\ placed = [r \in Requests |-> Start]
    /\ cache = <<>>
    /\ view = [v \in Viewers |-> Idle]
    /\ truth = [v \in Viewers |-> <<>>]

\* Viewers that are reading see the tables change under them, as long as they have not
\* read the figure.
Witness ==
    truth' = [v \in Viewers |->
                IF ~Reading(v) THEN truth[v]
                ELSE [f \in DOMAIN truth[v] |->
                        IF f \in Read(v) THEN truth[v][f]
                        ELSE truth[v][f] \cup {TrueFigure(view[v].org, f)'}]]

\* A request takes a step; an order it inserts is of this tick.
BookStep ==
    /\ Book!Next
    /\ placed' = [r \in Requests |-> IF r \in orders' \ orders THEN now ELSE placed[r]]
    /\ UNCHANGED <<stage, moves, now, cache, view>>
    /\ Witness

MoveCustomer(c, s) ==
    /\ c \in customers /\ stage[c] # s /\ moves < MaxMoves
    /\ stage' = [stage EXCEPT ![c] = s]
    /\ moves' = moves + 1
    /\ UNCHANGED <<tables, now, placed, cache, view>>
    /\ Witness

\* Rows grow too old for the monthly series.
Tick ==
    /\ moves < MaxMoves
    /\ now' = now + 1
    /\ moves' = moves + 1
    /\ UNCHANGED <<tables, stage, placed, cache, view>>
    /\ Witness

-----------------------------------------------------------------------------
\* The statements a viewer's report is waiting for: of the first unfinished batch.
Pending(v) ==
    LET b == Batches(view[v].report)
        open == {i \in DOMAIN b : ~(b[i] \subseteq Read(v))}
    IN  IF open = {} THEN {} ELSE b[Min(open)] \ Read(v)

\* A stored report is served as it is, which changes nothing; else the reading begins.
Open(v, g, report) ==
    /\ ~Reading(v) /\ <<report, g>> \in Looks[v]
    /\ Ttl(report) > 0 => Key(report, g) \notin DOMAIN cache
    /\ view' = [view EXCEPT ![v] = [org |-> g, report |-> report, figs |-> <<>>]]
    /\ truth' = [truth EXCEPT ![v] = Facts(report, g)]
    /\ UNCHANGED <<world, cache>>

Count(v, f) ==
    /\ Reading(v) /\ f \in Pending(v)
    /\ view' = [view EXCEPT ![v].figs = With(@, f, Figure(view[v].org, f))]
    /\ UNCHANGED <<world, cache, truth>>

\* What is stored; org and real are history: whose figures they are, and whether each
\* was so at some moment of the reading.
Stored(v, ttl) ==
    IF Ttl(view[v].report) = 0 THEN cache
    ELSE With(cache, Key(view[v].report, view[v].org),
              [figs |-> view[v].figs, ttl |-> ttl, org |-> view[v].org,
               real |-> {f \in Read(v) : view[v].figs[f] \in truth[v][f]}])

Leave(v) ==
    /\ view' = [view EXCEPT ![v] = Idle]
    /\ truth' = [truth EXCEPT ![v] = <<>>]

\* redis.set, when everything has been read (mutants: without a lifetime; without
\* awaiting the statements).
Deliver_Forever(v) ==
    /\ Reading(v) /\ Pending(v) = {}
    /\ cache' = Stored(v, 0)
    /\ Leave(v)
    /\ UNCHANGED world

Deliver_Early(v) ==
    /\ Reading(v)
    /\ cache' = Stored(v, Ttl(view[v].report))
    /\ Leave(v)
    /\ UNCHANGED world

Deliver(v) ==
    /\ Reading(v) /\ Pending(v) = {}
    /\ cache' = Stored(v, Ttl(view[v].report))
    /\ Leave(v)
    /\ UNCHANGED world

\* A statement fails: the report is answered with an error.
Fail(v) ==
    /\ Reading(v)
    /\ Leave(v)
    /\ UNCHANGED <<world, cache>>

\* The lifetime of a stored report is over.
Expire(k) ==
    /\ k \in DOMAIN cache /\ cache[k].ttl > 0
    /\ cache' = [x \in DOMAIN cache \ {k} |-> cache[x]]
    /\ UNCHANGED <<world, view, truth>>

-----------------------------------------------------------------------------
Keys == {"stats", "sales"} \X Orgs

Continue(v) == Deliver(v) \/ \E f \in Figures : Count(v, f)

Next ==
    \/ BookStep \/ Tick
    \/ \E c \in Customers, s \in Stages : MoveCustomer(c, s)
    \/ \E v \in Viewers : \/ \E g \in Orgs, report \in Reports : Open(v, g, report)
                          \/ Continue(v) \/ Fail(v)
    \/ \E k \in Keys : Expire(k)

Spec == Init /\ [][Next]_vars

\* Statements are answered and lifetimes end; nobody has to look or to write.
FairSpec == Spec /\ (\A v \in Viewers : WF_vars(Continue(v)))
                 /\ (\A k \in Keys : WF_vars(Expire(k)))

-----------------------------------------------------------------------------
Months == {Month(t) : t \in 0..(Start + MaxMoves)}

IsValue(f, x) ==
    CASE f = "byStatus" -> x \in [Statuses -> Nat]
      [] f \in {"revenueByMonth", "growth"} -> \E M \in SUBSET Months : x \in [M -> Nat]
      [] OTHER -> x \in Nat

\* A stored report has its own figures and all of them, and is there for a time; one
\* being read has some (redis.service.ts:25-32).
TypeOK ==
    /\ stage \in [Customers -> Stages] /\ moves \in 0..MaxMoves
    /\ now \in Start..(Start + moves) /\ placed \in [Requests -> Start..now]
    /\ DOMAIN cache \subseteq Keys
    /\ \A k \in DOMAIN cache : /\ DOMAIN cache[k].figs = FiguresOf(k[1])
                               /\ cache[k].ttl = Ttl(k[1])
    /\ \A v \in Viewers : Reading(v) => /\ Read(v) \subseteq FiguresOf(view[v].report)
                                        /\ \A f \in Read(v) : IsValue(f, view[v].figs[f])

\* Every figure that a statement counts, in the hands of its reader or stored where the
\* next viewer of the tenant finds it, was the figure of that tenant's customers and of
\* their orders at some moment of the reading it comes from, and never another
\* tenant's; so a tenant whose tables were quiet meanwhile is shown one consistent
\* picture.  What is computed from several figures, an average or a rate, may have been
\* so at no moment (dashboard.service.ts:24-38, analytics.service.ts:16-52,
\* analytics.repository.ts:25-82).
FiguresWereTrue ==
    /\ \A v \in Viewers : \A f \in Read(v) : view[v].figs[f] \in truth[v][f]
    /\ \A report \in Reports, g \in Orgs :
          LET k == Key(report, g) IN
          k \in DOMAIN cache =>
              /\ cache[k].org = g
              /\ cache[k].real = FiguresOf(report)

Exact(k) == \A f \in DOMAIN cache[k].figs : cache[k].figs[f] = Figure(k[2], f)

\* No write invalidates a stored report, and a slow reading may store figures that are
\* no longer true, even over newer ones; yet when the tables have come to rest, and no
\* row grows too old, all that is stored becomes exact and remains so
\* (dashboard.service.ts:38, analytics.service.ts:29).
ReportsConverge == <>[](\A k \in DOMAIN cache : Exact(k))
=============================================================================
