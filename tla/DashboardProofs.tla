-------------------------- MODULE DashboardProofs --------------------------
(***************************************************************************)
(* Proofs about Dashboard, for any tenants, rows, reports and viewers.  Of *)
(* the book the reports are about it uses what is proved in                *)
(* OrderBookProofs, instantiated with the book of Dashboard.               *)
(***************************************************************************)
EXTENDS Dashboard, FiniteSetTheorems, WellFoundedInduction, TLAPS

BookProofs == INSTANCE OrderBookProofs

\* What a reader holds was true during its reading; truth has every figure it has still
\* to read, as it is now.
ReaderOK(v) ==
    /\ view[v] = [org |-> view[v].org, report |-> view[v].report, figs |-> view[v].figs]
    /\ Reading(v) =>
          /\ view[v].org \in Orgs /\ view[v].report \in Reports
          /\ Read(v) \subseteq FiguresOf(view[v].report)
          /\ DOMAIN truth[v] = FiguresOf(view[v].report)
          /\ \A f \in FiguresOf(view[v].report) \ Read(v) :
                TrueFigure(view[v].org, f) \in truth[v][f]
          /\ \A f \in Read(v) : /\ IsValue(f, view[v].figs[f])
                                /\ view[v].figs[f] \in truth[v][f]

\* A stored report is one tenant's, and all its figures were true.
StoredOK(k) ==
    /\ k \in Keys
    /\ DOMAIN cache[k].figs = FiguresOf(k[1]) /\ cache[k].ttl = Ttl(k[1])
    /\ cache[k].org = k[2]
    /\ cache[k].real = FiguresOf(k[1])

Ages ==
    /\ moves \in 0..MaxMoves /\ now \in Start..(Start + moves)
    /\ placed \in [Requests -> Start..now]

IInv ==
    /\ stage \in [Customers -> Stages] /\ Ages
    /\ view = [v \in Viewers |-> view[v]] /\ truth = [v \in Viewers |-> truth[v]]
    /\ \A v \in Viewers : ReaderOK(v)
    /\ \A k \in DOMAIN cache : StoredOK(k)

-----------------------------------------------------------------------------
\* The steps of the book are those OrderBookProofs is about: the operators of the two
\* instances are equal, one by one.
LEMMA SameInit == Book!Init <=> BookProofs!Init
  BY DEF Book!Init, BookProofs!Init, Book!Blank, BookProofs!Blank, Book!NoRow, BookProofs!NoRow,
     Book!Row, BookProofs!Row, Book!Locals, BookProofs!Locals

LEMMA SameSize ==
    /\ \A S : Book!Cardinality(S) = BookProofs!Cardinality(S)
    /\ \A S : Cardinality(S) = Book!Cardinality(S)
    /\ \A S : BookProofs!IsFiniteSet(S) <=> IsFiniteSet(S)
  BY DEF Book!Cardinality, BookProofs!Cardinality, BookProofs!IsFiniteSet, IsFiniteSet, Cardinality

LEMMA SameArrive == ASSUME NEW r PROVE Book!Arrive(r) <=> BookProofs!Arrive(r)
  BY DEF Book!Arrive, BookProofs!Arrive, Book!CreateArrive, BookProofs!CreateArrive,
     Book!PatchArrive, BookProofs!PatchArrive, Book!StatusArrive, BookProofs!StatusArrive,
     Book!RemoveArrive, BookProofs!RemoveArrive, Book!CustomerRemoveArrive,
     BookProofs!CustomerRemoveArrive, Book!CustomerInOrg, BookProofs!CustomerInOrg,
     Book!Owns, BookProofs!Owns, Book!OrgOrders, BookProofs!OrgOrders, Book!Admit,
     BookProofs!Admit, Book!Locals, BookProofs!Locals, Book!Bind, BookProofs!Bind,
     Book!Goto, BookProofs!Goto, Book!store, BookProofs!store, Book!history, BookProofs!history

LEMMA SameContinue == ASSUME NEW r PROVE Book!Continue(r) <=> BookProofs!Continue(r)
<1> USE DEF Book!At, BookProofs!At, Book!Goto, BookProofs!Goto, Book!store, BookProofs!store,
       Book!history, BookProofs!history, Book!OrgOrders, BookProofs!OrgOrders,
       Book!Owns, BookProofs!Owns
<1>1. Book!CreateCount(r) <=> BookProofs!CreateCount(r)
  <2>1. \A g : Book!OrgOrders(g) = BookProofs!OrgOrders(g)
    OBVIOUS
  <2> HIDE DEF Book!OrgOrders, BookProofs!OrgOrders
  <2>2. \A g : Book!NextOrderNumber(g) = BookProofs!NextOrderNumber(g)
    BY <2>1, SameSize, Zenon DEF Book!NextOrderNumber, BookProofs!NextOrderNumber
  <2> QED
    BY <2>2 DEF Book!CreateCount, BookProofs!CreateCount
<1>2. Book!CreateInsert(r) <=> BookProofs!CreateInsert(r)
  BY DEF Book!CreateInsert, BookProofs!CreateInsert, Book!NumberTaken, BookProofs!NumberTaken,
     Book!NewRow, BookProofs!NewRow, Book!Row, BookProofs!Row, Book!Totals, BookProofs!Totals,
     Book!Nearest, BookProofs!Nearest, Book!Price, BookProofs!Price, Book!Cents, BookProofs!Cents,
     Book!Fractional, BookProofs!Fractional, Book!Amounts, BookProofs!Amounts
<1>3. Book!PatchCheckCustomer(r) <=> BookProofs!PatchCheckCustomer(r)
  BY DEF Book!PatchCheckCustomer, BookProofs!PatchCheckCustomer,
     Book!CustomerInOrg, BookProofs!CustomerInOrg
<1>4. Book!PatchWrite(r) <=> BookProofs!PatchWrite(r)
  <2>1. \A x : Book!Totals(x) = BookProofs!Totals(x)
    BY DEF Book!Totals, BookProofs!Totals, Book!Nearest, BookProofs!Nearest,
       Book!Price, BookProofs!Price
  <2>2. \A x, d : Book!Full(x, d) = BookProofs!Full(x, d)
    BY DEF Book!Full, BookProofs!Full, Book!Money, BookProofs!Money, Book!Amounts, BookProofs!Amounts
  <2>3. Book!PatchTotals(r) = BookProofs!PatchTotals(r)
    BY <2>1, <2>2 DEF Book!PatchTotals, BookProofs!PatchTotals
  <2>4. \A x, d, t : Book!Merge(x, d, t) = BookProofs!Merge(x, d, t)
    BY DEF Book!Merge, BookProofs!Merge, Book!Pick, BookProofs!Pick, Book!Stored, BookProofs!Stored,
       Book!Cents, BookProofs!Cents, Book!Amounts, BookProofs!Amounts, Book!Row, BookProofs!Row
  <2>5. \A d : Book!Fractional(d) <=> BookProofs!Fractional(d)
    BY DEF Book!Fractional, BookProofs!Fractional, Book!Amounts, BookProofs!Amounts
  <2>6. \A x, y : Book!SameMoney(x, y) <=> BookProofs!SameMoney(x, y)
    BY DEF Book!SameMoney, BookProofs!SameMoney
  <2> QED
    BY <2>3, <2>4, <2>5, <2>6 DEF Book!PatchWrite, BookProofs!PatchWrite
<1>5. Book!StatusWrite(r) <=> BookProofs!StatusWrite(r)
  BY DEF Book!StatusWrite, BookProofs!StatusWrite
<1>6. Book!RemoveDelete(r) <=> BookProofs!RemoveDelete(r)
  BY DEF Book!RemoveDelete, BookProofs!RemoveDelete
<1>7. Book!CustomerDelete(r) <=> BookProofs!CustomerDelete(r)
  BY DEF Book!CustomerDelete, BookProofs!CustomerDelete, Book!Cascade, BookProofs!Cascade
<1>8. Book!AuditLog(r) <=> BookProofs!AuditLog(r)
  BY DEF Book!AuditLog, BookProofs!AuditLog
<1> QED
  BY <1>1, <1>2, <1>3, <1>4, <1>5, <1>6, <1>7, <1>8 DEF Book!Continue, BookProofs!Continue

LEMMA SameNext == Book!Next <=> BookProofs!Next
<1>1. \A r : Book!Crash(r) <=> BookProofs!Crash(r)
  BY SameSize DEF Book!Crash, BookProofs!Crash, Book!store, BookProofs!store, Book!history, BookProofs!history
<1> QED
  BY <1>1, SameArrive, SameContinue DEF Book!Next, BookProofs!Next

\* Whoever reads reports, the book keeps its invariant.
LEMMA BookInvariance == Spec => []BookProofs!IInv
<1>1. BookProofs!Spec => []BookProofs!IInv
  BY BookProofs!Invariance, BookConstants
     DEF Book!OrderConstants, Book!Columns, Book!Money, Book!Amounts,
         BookProofs!Columns, BookProofs!Money, BookProofs!Amounts
<1>2. Init => BookProofs!Init
  BY SameInit DEF Init
<1>3. [Next]_vars => [BookProofs!Next]_(BookProofs!vars)
  <2>1. BookStep => BookProofs!Next
    BY SameNext DEF BookStep
  <2>2. tables' = tables => BookProofs!vars' = BookProofs!vars
    BY DEF tables, BookProofs!vars, BookProofs!store, BookProofs!history
  <2>3. ASSUME [Next]_vars PROVE BookStep \/ tables' = tables
    BY <2>3 DEF Next, Tick, MoveCustomer, Open, Continue, Deliver, Count, Fail, Expire, vars, world
  <2> QED
    BY <2>1, <2>2, <2>3
<1> QED
  BY <1>1, <1>2, <1>3, PTL DEF Spec, BookProofs!Spec

-----------------------------------------------------------------------------
\* Among sets of parts of a finite set there is a least one: the form in which induction
\* over finite sets is used here.
LEMMA LeastSet ==
    ASSUME NEW S, IsFiniteSet(S), NEW T \in SUBSET (SUBSET S), T # {}
    PROVE  \E x \in T : \A y \in T : y \subseteq x => y = x
<1>1. IsWellFoundedOn(StrictSubsetOrdering(S), FiniteSubsetsOf(S))
  BY FS_StrictSubsetOrderingWellFounded
<1>2. T \subseteq FiniteSubsetsOf(S)
  BY FS_Subset DEF FiniteSubsetsOf
<1>3. \E x \in T : \A y \in T : <<y, x>> \notin StrictSubsetOrdering(S)
  BY <1>1, <1>2, WFMin
<1> QED
  BY <1>3 DEF StrictSubsetOrdering

\* How Total adds: one argument after another, as chosen.
Taken(s) == CHOOSE x \in s : TRUE
Sums(w, P, f) == f = [s \in P |-> IF s = {} THEN 0 ELSE w[Taken(s)] + f[s \ {Taken(s)}]]

LEMMA TotalUnfolds == ASSUME NEW w PROVE Total(w) = (CHOOSE f : Sums(w, SUBSET DOMAIN w, f))[DOMAIN w]
  BY DEF Total, FoldFunction, FoldFunctionOnSet, MapThenFoldSet, Sums, Taken

\* The recursion is one: sums of at most n numbers are defined by those of fewer.
LEMMA SumsExist ==
    ASSUME NEW D, IsFiniteSet(D), NEW w \in [D -> Nat]
    PROVE  \E f : Sums(w, SUBSET D, f)
<1> DEFINE N == Cardinality(D)
           Small(n) == {s \in SUBSET D : Cardinality(s) <= n}
           T == {U \in SUBSET (0..N) : \E n \in 0..N : U = 0..n /\ ~\E f : Sums(w, Small(n), f)}
<1>1. N \in Nat /\ \A s \in SUBSET D : IsFiniteSet(s) /\ Cardinality(s) \in Nat /\ Cardinality(s) <= N
  BY FS_Subset, FS_CardinalityType
<1>2. Small(N) = SUBSET D
  BY <1>1
<1>3. T = {}
  <2> SUFFICES ASSUME T # {} PROVE FALSE
    OBVIOUS
  <2>1. PICK U \in T : \A y \in T : y \subseteq U => y = U
    <3> DEFINE I == 0..N
    <3>1. IsFiniteSet(I)
      BY <1>1, FS_Interval
    <3>2. T \in SUBSET (SUBSET I)
      OBVIOUS
    <3> HIDE DEF T, I
    <3> QED
      BY <3>1, <3>2, LeastSet
  <2>2. PICK n \in 0..N : U = 0..n /\ ~\E f : Sums(w, Small(n), f)
    OBVIOUS
  <2>3. CASE n = 0
    <3>1. Small(0) = {{}}
      BY <1>1, FS_EmptySet
    <3>2. Sums(w, {{}}, [s \in {{}} |-> 0])
      BY DEF Sums
    <3>3. \E f : Sums(w, Small(0), f)
      <4> HIDE DEF Small
      <4> QED
        BY <3>1, <3>2
    <3> QED
      BY <2>2, <2>3, <3>3
  <2>4. CASE n > 0
    <3>1. n - 1 \in 0..N /\ 0..(n-1) \in SUBSET (0..N) /\ 0..(n-1) \subseteq U /\ 0..(n-1) # U
      BY <1>1, <2>2, <2>4
    <3>2. PICK g : Sums(w, Small(n-1), g)
      BY <2>1, <3>1
    <3> DEFINE h == [s \in Small(n) |-> IF s = {} THEN 0 ELSE w[Taken(s)] + g[s \ {Taken(s)}]]
    <3>3. \A s \in Small(n) : s # {} => s \ {Taken(s)} \in Small(n-1) /\ s \ {Taken(s)} \in Small(n)
      <4> SUFFICES ASSUME NEW s \in SUBSET D, Cardinality(s) <= n, s # {}
                   PROVE  s \ {Taken(s)} \in SUBSET D /\ Cardinality(s \ {Taken(s)}) <= n - 1
        BY <1>1, <3>1
      <4>1. Taken(s) \in s
        BY DEF Taken
      <4>2. Cardinality(s \ {Taken(s)}) = Cardinality(s) - 1
        BY <1>1, <4>1, FS_RemoveElement
      <4> QED
        BY <1>1, <4>2
    <3>4. \A t \in Small(n-1) : g[t] = h[t]
      <4>1. Small(n-1) \subseteq Small(n)
        BY <1>1, <3>1
      <4> HIDE DEF Small
      <4> QED
        BY <3>2, <4>1 DEF Sums
    <3>5. Sums(w, Small(n), h)
      <4> HIDE DEF Small
      <4> SUFFICES ASSUME NEW s \in Small(n), s # {} PROVE g[s \ {Taken(s)}] = h[s \ {Taken(s)}]
        BY DEF Sums
      <4> QED
        BY <3>3, <3>4
    <3> QED
      BY <2>2, <3>5
  <2> QED
    BY <2>3, <2>4
<1>4. 0..N \in SUBSET (0..N) /\ N \in 0..N
  BY <1>1
<1>5. \E f : Sums(w, Small(N), f)
  BY <1>3, <1>4
<1> QED
  BY <1>2, <1>5

\* Natural numbers have a natural total.
LEMMA TotalTyped ==
    ASSUME NEW D, IsFiniteSet(D), NEW w \in [D -> Nat]
    PROVE  Total(w) \in Nat
<1> DEFINE f == CHOOSE g : Sums(w, SUBSET D, g)
           T == {s \in SUBSET D : f[s] \notin Nat}
<1>1. Sums(w, SUBSET D, f)
  BY SumsExist
<1>2. Total(w) = f[D]
  BY TotalUnfolds
<1> HIDE DEF f
<1>3. T = {}
  <2> SUFFICES ASSUME T # {} PROVE FALSE
    OBVIOUS
  <2>1. PICK s \in T : \A y \in T : y \subseteq s => y = s
    <3>1. T \in SUBSET (SUBSET D)
      OBVIOUS
    <3> HIDE DEF T
    <3> QED
      BY <3>1, LeastSet
  <2>2. s # {}
    BY <1>1 DEF Sums
  <2>3. Taken(s) \in s
    BY <2>2 DEF Taken
  <2>4. f[s] = w[Taken(s)] + f[s \ {Taken(s)}]
    BY <1>1, <2>2 DEF Sums
  <2>5. f[s \ {Taken(s)}] \in Nat
    BY <2>1, <2>3
  <2> QED
    BY <2>3, <2>4, <2>5
<1> QED
  BY <1>2, <1>3

-----------------------------------------------------------------------------
LEMMA BookTyped ==
    ASSUME BookProofs!IInv
    PROVE  /\ customers \subseteq Customers
           /\ orders \subseteq Requests /\ IsFiniteSet(orders)
           /\ \A o \in orders : row[o].total \in Nat
  BY SameSize DEF BookProofs!IInv, BookProofs!Shape, BookProofs!TypeOK, BookProofs!RowType

\* The rows of a report can be counted, and their totals summed.
LEMMA RowsCount ==
    ASSUME BookProofs!IInv
    PROVE  /\ \A S \in SUBSET customers : Cardinality(S) \in Nat
           /\ \A S \in SUBSET orders : Cardinality(S) \in Nat /\ SumTotals(S) \in Nat
<1>1. \A S \in SUBSET customers : Cardinality(S) \in Nat
  BY BookTyped, DashboardConstants, FS_Subset, FS_CardinalityType
<1>2. ASSUME NEW S \in SUBSET orders PROVE Cardinality(S) \in Nat /\ SumTotals(S) \in Nat
  <2>1. IsFiniteSet(S) /\ Cardinality(S) \in Nat
    BY BookTyped, FS_Subset, FS_CardinalityType
  <2> DEFINE w == [o \in S |-> row[o].total]
  <2>2. w \in [S -> Nat]
    BY BookTyped
  <2>3. SumTotals(S) = Total(w)
    BY DEF SumTotals
  <2> HIDE DEF w
  <2> QED
    BY <2>1, <2>2, <2>3, TotalTyped
<1> QED
  BY <1>1, <1>2

\* A monthly series has a number for each of some months.
LEMMA SeriesTyped ==
    ASSUME BookProofs!IInv, Ages, NEW S, NEW R
    PROVE  /\ S \subseteq orders => \E M \in SUBSET Months : ByMonth(S, placed, SumTotals) \in [M -> Nat]
           /\ R \subseteq customers => \E M \in SUBSET Months : ByMonth(R, Joined, Cardinality) \in [M -> Nat]
<1>1. \A t \in 0..(Start + MaxMoves) : Month(t) \in Months
  BY DEF Months
<1>2. ASSUME S \subseteq orders
      PROVE  \E M \in SUBSET Months : ByMonth(S, placed, SumTotals) \in [M -> Nat]
  <2> DEFINE M == {Month(placed[x]) : x \in S}
  <2>1. \A x \in S : placed[x] \in 0..(Start + MaxMoves)
    BY <1>2, BookTyped, DashboardConstants DEF Ages
  <2>2. M \in SUBSET Months
    BY <1>1, <2>1
  <2>3. \A m : {x \in S : Month(placed[x]) = m} \in SUBSET orders
    BY <1>2
  <2>4. \A m : SumTotals({x \in S : Month(placed[x]) = m}) \in Nat
    BY <2>3, RowsCount
  <2>5. ByMonth(S, placed, SumTotals) = [m \in M |-> SumTotals({x \in S : Month(placed[x]) = m})]
    BY DEF ByMonth
  <2>6. ByMonth(S, placed, SumTotals) \in [M -> Nat]
    BY <2>4, <2>5
  <2> HIDE DEF M
  <2> QED
    BY <2>2, <2>6
<1>3. ASSUME R \subseteq customers
      PROVE  \E M \in SUBSET Months : ByMonth(R, Joined, Cardinality) \in [M -> Nat]
  <2> DEFINE M == {Month(Joined[x]) : x \in R}
  <2>1. \A x \in R : Joined[x] \in 0..(Start + MaxMoves)
    BY <1>3, BookTyped, DashboardConstants DEF Ages
  <2>2. M \in SUBSET Months
    BY <1>1, <2>1
  <2>3. \A m : {x \in R : Month(Joined[x]) = m} \in SUBSET customers
    BY <1>3
  <2>4. \A m : Cardinality({x \in R : Month(Joined[x]) = m}) \in Nat
    BY <2>3, RowsCount
  <2>5. ByMonth(R, Joined, Cardinality) = [m \in M |-> Cardinality({x \in R : Month(Joined[x]) = m})]
    BY DEF ByMonth
  <2>6. ByMonth(R, Joined, Cardinality) \in [M -> Nat]
    BY <2>4, <2>5
  <2> HIDE DEF M
  <2> QED
    BY <2>2, <2>6
<1> QED
  BY <1>2, <1>3

\* Every figure that can be counted is a number, or one for each status or month.
LEMMA FigureTyped ==
    ASSUME BookProofs!IInv, Ages, NEW g, NEW f \in Figures
    PROVE  IsValue(f, Figure(g, f))
<1>1. /\ Book!OrgOrders(g) \subseteq orders /\ OrgCustomers(g) \subseteq customers
      /\ Kept(g) \subseteq orders
  BY DEF Book!OrgOrders, OrgCustomers, Kept
<1>2. \A s : AtStage(g, s) \in Nat /\ WithStatus(g, s) \in Nat
  <2> SUFFICES ASSUME NEW s
               PROVE  /\ Cardinality({c \in OrgCustomers(g) : stage[c] = s}) \in Nat
                      /\ Cardinality({o \in Book!OrgOrders(g) : row[o].status = s}) \in Nat
    BY DEF AtStage, WithStatus
  <2>1. {c \in OrgCustomers(g) : stage[c] = s} \in SUBSET customers
    BY <1>1
  <2>2. {o \in Book!OrgOrders(g) : row[o].status = s} \in SUBSET orders
    BY <1>1
  <2> QED
    BY <2>1, <2>2, RowsCount
<1>3. CASE f = "revenueByMonth"
  <2>1. Figure(g, f) = ByMonth(Young(Kept(g), placed), placed, SumTotals)
    BY <1>3 DEF Figure
  <2>2. Young(Kept(g), placed) \subseteq orders
    BY <1>1 DEF Young
  <2> QED
    BY <1>3, <2>1, <2>2, SeriesTyped DEF IsValue
<1>4. CASE f = "growth"
  <2>1. Figure(g, f) = ByMonth(Young(OrgCustomers(g), Joined), Joined, Cardinality)
    BY <1>4 DEF Figure
  <2>2. Young(OrgCustomers(g), Joined) \subseteq customers
    BY <1>1 DEF Young
  <2> QED
    BY <1>4, <2>1, <2>2, SeriesTyped DEF IsValue
<1>5. CASE f = "byStatus"
  BY <1>2, <1>5 DEF Figure, IsValue
<1>6. CASE f \notin {"revenueByMonth", "growth", "byStatus"}
  <2>1. Figure(g, f) \in Nat
    BY <1>1, <1>2, <1>6, RowsCount DEF Figure, Figures
  <2> QED
    BY <1>6, <2>1 DEF IsValue
<1> QED
  BY <1>3, <1>4, <1>5, <1>6

\* Counting by the column of the order comes to the same as counting by its customer,
\* because orders stay with the customers of their tenant.
LEMMA FigureTrue ==
    ASSUME BookProofs!IInv, Ages, NEW g, NEW f \in Figures
    PROVE  Figure(g, f) = TrueFigure(g, f)
<1> DEFINE people == {c \in customers : CustomerOrg[c] = g}
           sales == {o \in orders : row[o].customer \in people}
           paid == {o \in sales : row[o].status # "CANCELLED"}
<1>1. OrgCustomers(g) = people
  BY DEF OrgCustomers
<1>2. Book!OrgOrders(g) = sales
  BY DEF BookProofs!IInv, BookProofs!TenantInv, BookProofs!OrdersStayInTenant, Book!OrgOrders
<1>3. Kept(g) = paid
  BY <1>2 DEF Kept
<1>4. Young(Kept(g), placed) = {o \in paid : placed[o] + Window >= now}
  <2>1. \A o \in paid : placed[o] \in Int /\ now \in Int /\ Window \in Int
    BY BookTyped, DashboardConstants DEF Ages
  <2> HIDE DEF paid
  <2> QED
    BY <1>3, <2>1 DEF Young
<1>5. Young(OrgCustomers(g), Joined) = {c \in people : Joined[c] + Window >= now}
  <2>1. \A c \in people : Joined[c] \in Int /\ now \in Int /\ Window \in Int
    BY BookTyped, DashboardConstants DEF Ages
  <2> HIDE DEF people
  <2> QED
    BY <1>1, <2>1 DEF Young
<1>6. \A s : AtStage(g, s) = Cardinality({c \in people : stage[c] = s})
  BY <1>1 DEF AtStage
<1>7. \A s : WithStatus(g, s) = Cardinality({o \in sales : row[o].status = s})
  BY <1>2 DEF WithStatus
<1> QED
  BY <1>1, <1>2, <1>3, <1>4, <1>5, <1>6, <1>7 DEF Figure, TrueFigure, Figures

\* What no statement writes keeps its figures.
LEMMA FiguresStay ==
    ASSUME world' = world
    PROVE  \A g : \A f \in Figures : TrueFigure(g, f)' = TrueFigure(g, f)
<1> SUFFICES ASSUME NEW g, NEW f \in Figures PROVE TrueFigure(g, f)' = TrueFigure(g, f)
  OBVIOUS
<1> DEFINE people == {c \in customers : CustomerOrg[c] = g}
           sales == {o \in orders : row[o].customer \in people}
           paid == {o \in sales : row[o].status # "CANCELLED"}
           young == {o \in paid : placed[o] + Window >= now}
           recent == {c \in people : Joined[c] + Window >= now}
           In(s) == {c \in people : stage[c] = s}
           Of(s) == {o \in sales : row[o].status = s}
<1>1. /\ customers' = customers /\ orders' = orders /\ row' = row
      /\ stage' = stage /\ placed' = placed /\ now' = now
  BY DEF world, tables
<1>2. people' = people /\ sales' = sales /\ paid' = paid
  BY <1>1
<1>3. young' = young /\ recent' = recent
  BY <1>1
<1>4. \A s : In(s)' = In(s) /\ Of(s)' = Of(s)
  BY <1>1
<1>5. \A S : SumTotals(S)' = SumTotals(S)
  BY <1>1 DEF SumTotals
<1>6. \A S : ByMonth(S, placed, SumTotals)' = ByMonth(S, placed, SumTotals)
  BY <1>1, <1>5 DEF ByMonth
<1>7. f \notin {"revenueByMonth", "growth", "byStatus"} => TrueFigure(g, f)' = TrueFigure(g, f)
  BY <1>2, <1>4, <1>5 DEF TrueFigure, Figures
<1>8. f = "revenueByMonth" => TrueFigure(g, f)' = TrueFigure(g, f)
  BY <1>1, <1>3, <1>6 DEF TrueFigure
<1>9. f = "growth" => TrueFigure(g, f)' = TrueFigure(g, f)
  BY <1>1, <1>3 DEF TrueFigure, ByMonth
<1>10. f = "byStatus" => TrueFigure(g, f)' = TrueFigure(g, f)
  BY <1>4 DEF TrueFigure
<1> QED
  BY <1>7, <1>8, <1>9, <1>10

LEMMA FiguresKnown == \A report \in Reports : FiguresOf(report) \subseteq Figures
  BY DEF FiguresOf, Reports, Batches, Range, Figures

\* The statements a report waits for are its own, until all have been answered.
LEMMA PendingFits ==
    ASSUME NEW v, view[v].report \in Reports
    PROVE  /\ Pending(v) \subseteq FiguresOf(view[v].report) \ Read(v)
           /\ Pending(v) = {} => FiguresOf(view[v].report) \subseteq Read(v)
<1> DEFINE b == Batches(view[v].report)
           open == {i \in DOMAIN b : ~(b[i] \subseteq Read(v))}
<1>1. DOMAIN b \subseteq {1, 2}
  BY DEF Batches, Reports
<1>2. open # {} => Min(open) \in open
  <2>1. ASSUME open # {} PROVE \E x \in open : \A y \in open : x <= y
    <3>1. CASE 1 \in open
      BY <1>1, <3>1
    <3>2. CASE 1 \notin open
      BY <1>1, <2>1, <3>2
    <3> QED
      BY <3>1, <3>2
  <2> QED
    BY <2>1 DEF Min
<1>3. FiguresOf(view[v].report) = UNION {b[i] : i \in DOMAIN b}
  BY DEF FiguresOf, Range
<1>4. Pending(v) = IF open = {} THEN {} ELSE b[Min(open)] \ Read(v)
  BY DEF Pending
<1> HIDE DEF b
<1> QED
  BY <1>2, <1>3, <1>4

-----------------------------------------------------------------------------
LEMMA InitInv == Init => IInv
  BY DashboardConstants DEF Init, IInv, Ages, ReaderOK, Reading, Idle

\* The book, a customer or the time changes under the readers, who witness it.
LEMMA WitnessInv ==
    ASSUME IInv, Witness, stage' \in [Customers -> Stages], Ages', UNCHANGED <<cache, view>>
    PROVE  IInv'
<1>1. cache' = cache /\ view' = view
  OBVIOUS
<1>2. truth' = [v \in Viewers |-> truth'[v]]
  BY DEF Witness
<1>3. ASSUME NEW v \in Viewers PROVE ReaderOK(v)'
  <2>1. ReaderOK(v) /\ (Reading(v)' <=> Reading(v)) /\ Read(v)' = Read(v)
    BY <1>1 DEF IInv, Reading, Idle, Read
  <2>2. CASE ~Reading(v)
    BY <1>1, <2>1, <2>2 DEF ReaderOK
  <2>3. CASE Reading(v)
    <3>1. truth'[v] = [f \in DOMAIN truth[v] |->
                         IF f \in Read(v) THEN truth[v][f]
                         ELSE truth[v][f] \cup {TrueFigure(view[v].org, f)'}]
      BY <2>3 DEF Witness
    <3>2. \A f \in FiguresOf(view[v].report) \ Read(v) :
             TrueFigure(view[v].org, f)' \in truth'[v][f]
      BY <2>1, <2>3, <3>1 DEF ReaderOK
    <3>3. \A f \in Read(v) : view[v].figs[f] \in truth'[v][f]
      BY <2>1, <2>3, <3>1 DEF ReaderOK
    <3>4. DOMAIN truth'[v] = FiguresOf(view[v].report)
      BY <2>1, <2>3, <3>1 DEF ReaderOK
    <3> QED
      BY <1>1, <2>1, <2>3, <3>2, <3>3, <3>4 DEF ReaderOK
  <2> QED
    BY <2>2, <2>3
<1>4. \A k \in DOMAIN cache' : StoredOK(k)'
  BY <1>1 DEF IInv, StoredOK
<1> QED
  BY <1>1, <1>2, <1>3, <1>4 DEF IInv

LEMMA ViewersStay ==
    ASSUME IInv, world' = world, NEW v \in Viewers,
           view'[v] = view[v], truth'[v] = truth[v]
    PROVE  ReaderOK(v)'
<1>1. ReaderOK(v) /\ (Reading(v)' <=> Reading(v)) /\ Read(v)' = Read(v)
  BY DEF IInv, Reading, Idle, Read
<1>2. \A f \in Figures : TrueFigure(view[v].org, f)' = TrueFigure(view[v].org, f)
  BY FiguresStay
<1> QED
  BY <1>1, <1>2, FiguresKnown DEF ReaderOK

LEMMA OpenInv ==
    ASSUME IInv, NEW v \in Viewers, NEW g \in Orgs, NEW report \in Reports, Open(v, g, report)
    PROVE  IInv'
<1>1. /\ world' = world /\ cache' = cache
      /\ view' = [view EXCEPT ![v] = [org |-> g, report |-> report, figs |-> <<>>]]
      /\ truth' = [truth EXCEPT ![v] = Facts(report, g)]
  BY DEF Open
<1>3. /\ view'[v] = [org |-> g, report |-> report, figs |-> <<>>] /\ truth'[v] = Facts(report, g)
      /\ \A u \in Viewers \ {v} : view'[u] = view[u] /\ truth'[u] = truth[u]
      /\ view' = [u \in Viewers |-> view'[u]] /\ truth' = [u \in Viewers |-> truth'[u]]
  BY <1>1 DEF IInv
<1>4. ReaderOK(v)'
  BY <1>1, <1>3, FiguresStay, FiguresKnown DEF ReaderOK, Facts, Read
<1> QED
  BY <1>1, <1>3, <1>4, ViewersStay DEF IInv, Ages, world, StoredOK

LEMMA CountInv ==
    ASSUME IInv, BookProofs!IInv, NEW v \in Viewers, NEW f \in Figures, Count(v, f)
    PROVE  IInv'
<1>1. /\ world' = world /\ cache' = cache /\ truth' = truth
      /\ view' = [view EXCEPT ![v].figs = With(view[v].figs, f, Figure(view[v].org, f))]
      /\ Reading(v) /\ f \in Pending(v)
  BY DEF Count
<1>2. ReaderOK(v)
  BY DEF IInv
<1> DEFINE figs == With(view[v].figs, f, Figure(view[v].org, f))
<1>3. /\ view'[v] = [org |-> view[v].org, report |-> view[v].report, figs |-> figs]
      /\ \A u \in Viewers \ {v} : view'[u] = view[u] /\ truth'[u] = truth[u]
      /\ view' = [u \in Viewers |-> view'[u]]
  BY <1>1, <1>2 DEF IInv, ReaderOK
<1>4. f \in FiguresOf(view[v].report) \ Read(v)
  BY <1>1, <1>2, PendingFits DEF ReaderOK
<1>5. /\ DOMAIN figs = Read(v) \cup {f} /\ figs[f] = Figure(view[v].org, f)
      /\ \A e \in Read(v) \ {f} : figs[e] = view[v].figs[e]
  BY DEF With, Read
<1>6. IsValue(f, Figure(view[v].org, f)) /\ Figure(view[v].org, f) = TrueFigure(view[v].org, f)
  BY FigureTyped, FigureTrue DEF IInv
<1>7. \A e \in DOMAIN figs : IsValue(e, figs[e]) /\ figs[e] \in truth[v][e]
  BY <1>1, <1>2, <1>4, <1>5, <1>6 DEF ReaderOK
<1> HIDE DEF figs
<1>8. ReaderOK(v)'
  BY <1>1, <1>2, <1>3, <1>4, <1>5, <1>7, FiguresStay, FiguresKnown DEF ReaderOK, Read
<1> QED
  BY <1>1, <1>3, <1>8, ViewersStay DEF IInv, Ages, world, StoredOK

LEMMA LeaveInv ==
    ASSUME IInv, NEW v \in Viewers, Leave(v), world' = world,
           \A k \in DOMAIN cache' : StoredOK(k)'
    PROVE  IInv'
<1>1. /\ view'[v] = Idle /\ view' = [u \in Viewers |-> view'[u]]
      /\ truth' = [u \in Viewers |-> truth'[u]]
      /\ \A u \in Viewers \ {v} : view'[u] = view[u] /\ truth'[u] = truth[u]
  BY DEF Leave, IInv
<1>2. ReaderOK(v)'
  BY <1>1 DEF ReaderOK, Reading, Idle
<1> QED
  BY <1>1, <1>2, ViewersStay DEF IInv, Ages, world

LEMMA DeliverInv == ASSUME IInv, NEW v \in Viewers, Deliver(v) PROVE IInv'
<1>1. /\ Reading(v) /\ Pending(v) = {} /\ cache' = Stored(v, Ttl(view[v].report)) /\ Leave(v)
      /\ world' = world
  BY DEF Deliver
<1>2. ReaderOK(v)
  BY DEF IInv
<1>3. Read(v) = FiguresOf(view[v].report)
  BY <1>1, <1>2, PendingFits DEF ReaderOK
<1>4. \A k \in DOMAIN cache' : StoredOK(k)'
  <2>1. CASE Ttl(view[v].report) = 0
    BY <1>1, <2>1 DEF Stored, IInv, StoredOK
  <2>2. CASE Ttl(view[v].report) # 0
    <3>1. <<view[v].report, view[v].org>> \in Keys
      BY <1>1, <1>2, <2>2 DEF Keys, Ttl, ReaderOK, Reports
    <3>2. PICK x \in Keys : x = <<view[v].report, view[v].org>>
      BY <3>1
    <3>3. x[1] = view[v].report /\ x[2] = view[v].org
      BY <3>2
    <3>4. PICK e : e = [figs |-> view[v].figs, ttl |-> Ttl(view[v].report), org |-> view[v].org,
                        real |-> {f \in Read(v) : view[v].figs[f] \in truth[v][f]}]
      OBVIOUS
    <3>5. cache' = With(cache, x, e)
      BY <1>1, <2>2, <3>2, <3>4 DEF Stored, Key
    <3>6. StoredOK(x)'
      <4>1. cache'[x] = e
        BY <3>5 DEF With
      <4>2. /\ e.ttl = Ttl(x[1]) /\ e.org = x[2] /\ DOMAIN e.figs = FiguresOf(x[1])
            /\ e.real = FiguresOf(x[1])
        BY <1>1, <1>2, <1>3, <3>3, <3>4 DEF ReaderOK, Read
      <4> QED
        BY <4>1, <4>2 DEF StoredOK
    <3>7. ASSUME NEW k \in DOMAIN cache', k # x PROVE StoredOK(k)'
      <4>1. k \in DOMAIN cache /\ cache'[k] = cache[k]
        BY <3>5, <3>7 DEF With
      <4> QED
        BY <4>1 DEF IInv, StoredOK
    <3> QED
      BY <3>6, <3>7
  <2> QED
    BY <2>1, <2>2
<1> QED
  BY <1>1, <1>4, LeaveInv

LEMMA FailInv == ASSUME IInv, NEW v \in Viewers, Fail(v) PROVE IInv'
<1>1. Leave(v) /\ world' = world /\ cache' = cache
  BY DEF Fail
<1>2. \A k \in DOMAIN cache' : StoredOK(k)'
  BY <1>1 DEF IInv, StoredOK
<1> QED
  BY <1>1, <1>2, LeaveInv

LEMMA ExpireInv == ASSUME IInv, NEW k \in Keys, Expire(k) PROVE IInv'
<1>1. /\ cache' = [x \in DOMAIN cache \ {k} |-> cache[x]]
      /\ world' = world /\ view' = view /\ truth' = truth
  BY DEF Expire
<1>2. \A x \in DOMAIN cache' : StoredOK(x)'
  BY <1>1 DEF IInv, StoredOK
<1>3. \A v \in Viewers : ReaderOK(v)'
  BY <1>1, ViewersStay
<1> QED
  BY <1>1, <1>2, <1>3 DEF IInv, Ages, world

LEMMA NextInv == IInv /\ BookProofs!IInv /\ [Next]_vars => IInv'
<1> SUFFICES ASSUME IInv, BookProofs!IInv, [Next]_vars PROVE IInv'
  OBVIOUS
<1>1. CASE BookStep
  <2>1. Ages'
    BY <1>1, DashboardConstants DEF BookStep, IInv, Ages
  <2> QED
    BY <1>1, <2>1, WitnessInv DEF BookStep, IInv
<1>2. ASSUME NEW c \in Customers, NEW s \in Stages, MoveCustomer(c, s) PROVE IInv'
  <2>1. stage' \in [Customers -> Stages] /\ Ages'
    BY <1>2, DashboardConstants DEF MoveCustomer, IInv, Ages
  <2> QED
    BY <1>2, <2>1, WitnessInv DEF MoveCustomer
<1>8. CASE Tick
  <2>1. stage' \in [Customers -> Stages] /\ Ages'
    BY <1>8, DashboardConstants DEF Tick, IInv, Ages
  <2> QED
    BY <1>8, <2>1, WitnessInv DEF Tick
<1>3. ASSUME NEW v \in Viewers, NEW g \in Orgs, NEW report \in Reports, Open(v, g, report) PROVE IInv'
  BY <1>3, OpenInv
<1>4. ASSUME NEW v \in Viewers, Continue(v) PROVE IInv'
  BY <1>4, CountInv, DeliverInv DEF Continue
<1>5. ASSUME NEW v \in Viewers, Fail(v) PROVE IInv'
  BY <1>5, FailInv
<1>6. ASSUME NEW k \in Keys, Expire(k) PROVE IInv'
  BY <1>6, ExpireInv
<1>7. CASE UNCHANGED vars
  <2>1. world' = world /\ cache' = cache /\ view' = view /\ truth' = truth
    BY <1>7 DEF vars
  <2>2. \A v \in Viewers : ReaderOK(v)'
    BY <2>1, ViewersStay
  <2> QED
    BY <2>1, <2>2 DEF IInv, Ages, world, StoredOK
<1> QED
  BY <1>1, <1>2, <1>3, <1>4, <1>5, <1>6, <1>7, <1>8 DEF Next

-----------------------------------------------------------------------------
\* The inductive invariant: every reader and every stored report has its own figures, of
\* one tenant, each a value it had during the reading (dashboard.service.ts:16-40).
THEOREM Invariance == Spec => []IInv
  BY InitInv, NextInv, BookInvariance, PTL DEF Spec

\* A stored report is complete and carries its lifetime, and every figure counted is a
\* number, the aggregated revenue included (redis.service.ts:25-32).
THEOREM TypeCorrect == Spec => []TypeOK
<1>1. IInv => TypeOK
  BY DEF IInv, Ages, TypeOK, ReaderOK, StoredOK
<1> QED
  BY <1>1, Invariance, PTL

\* No report, fresh or stored, shows a figure that a statement counts and that was not,
\* at some moment of the reading, the figure of the tenant's customers and their orders;
\* for orders, whose statements go by their own column, because orders stay with the
\* customers of their tenant (analytics.repository.ts:25-82, dashboard.service.ts:24-38,
\* analytics.service.ts:16-52).
THEOREM FiguresAreTrue == Spec => []FiguresWereTrue
<1>1. IInv => FiguresWereTrue
  <2> SUFFICES ASSUME IInv PROVE FiguresWereTrue
    OBVIOUS
  <2>1. ASSUME NEW v \in Viewers, NEW f \in Read(v) PROVE view[v].figs[f] \in truth[v][f]
    <3>1. Reading(v)
      BY <2>1 DEF Reading, Read, Idle
    <3> QED
      BY <2>1, <3>1 DEF IInv, ReaderOK
  <2>2. \A report, g : Key(report, g)[1] = report /\ Key(report, g)[2] = g
    BY DEF Key
  <2> QED
    BY <2>1, <2>2 DEF FiguresWereTrue, IInv, StoredOK
<1> QED
  BY <1>1, Invariance, PTL
=============================================================================
