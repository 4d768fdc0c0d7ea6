-------------------------- MODULE OrderBookProofs --------------------------
(***************************************************************************)
(* Proofs about OrderBook, for every set of tenants, customers, requests   *)
(* and bodies, and any number of crashes; last, that it implements Ledger. *)
(***************************************************************************)
EXTENDS OrderBook, FiniteSetTheorems, TLAPS

\* The statement a handler stands at tells its operation.
LabelsOK ==
    \A r \in Requests :
        /\ pc[r] = "new" => ctx[r] = Blank
        /\ pc[r] \in {"count", "insert"} => ctx[r].op = "create"
        /\ pc[r] \in {"checkCustomer", "write"} => ctx[r].op = "patch"
        /\ pc[r] = "setStatus" => ctx[r].op = "status"
        /\ pc[r] = "delete" => ctx[r].op = "remove"
        /\ pc[r] = "deleteCustomer" => ctx[r].op = "removeCustomer"

\* The request has created its order and will not create it again.
Created(o) == o \in Requests /\ ctx[o].op = "create" /\ pc[o] \in {"audit", "done"}

\* What the locals of each operation are made of, and what the rows are.
ContextOK ==
    /\ \A r \in Requests : LET c == ctx[r] IN
        /\ c.op # "none" => c.org \in Orgs
        /\ c.op = "create" => c.customer \in Customers /\ c.dto \in CreateDtos
        /\ c.op = "patch" => c.dto \in {Bind(d) : d \in PatchDtos} /\ c.seen \in RowType
        /\ c.op = "status" => c.dto \in [status: Statuses]
        /\ c.op \in {"patch", "status", "remove"} =>
              Created(c.order) /\ row[c.order].org = c.org
        /\ c.op = "removeCustomer" => c.customer \in Customers
    /\ \A o \in orders : Created(o) /\ row[o].org \in Orgs

Shape == TypeOK /\ LabelsOK /\ ContextOK

\* OrdersStayInTenant, and of the customers the handlers have checked.
TenantInv ==
    /\ OrdersStayInTenant
    /\ \A r \in Requests : LET c == ctx[r] IN
        /\ c.op \in {"create", "removeCustomer"} => CustomerOrg[c.customer] = c.org
        /\ pc[r] = "write" /\ "customer" \in DOMAIN c.dto
              => CustomerOrg[c.dto["customer"]] = c.org

\* A number drawn is at most the next one while the tenant has lost no order: its
\* count only grows.  The unique index then leaves room for exactly the next.
DenseInv ==
    /\ \A r \in Requests : pc[r] = "insert" => ctx[r].number >= 1
    /\ \A r \in Requests, g \in Orgs \ gaps : pc[r] = "insert" /\ ctx[r].org = g
          => ctx[r].number <= Cardinality(OrgOrders(g)) + 1
    /\ NumbersAreDense

\* AuditTellsTruth, already before the audit row is written.
AuditInv ==
    \A r \in Requests :
        /\ r \in audit => pc[r] = "done"
        /\ pc[r] = "insert" => ctx[r].number > 0
        /\ pc[r] \in {"audit", "done"} =>
              /\ ctx[r].op = "create" => row[r].number > 0
              /\ ctx[r].op \in {"patch", "status"} => r \in written \/ ctx[r].order \notin orders
              /\ ctx[r].op = "remove" => ctx[r].order \notin orders
              /\ ctx[r].op = "removeCustomer" => ctx[r].customer \notin customers

-----------------------------------------------------------------------------
\* c is v rounded to whole cents, up or down.
Near(v, c) == 2 * (c * Cent - v) \in -Cent..Cent

\* k cents that are no more than half of Cent fractions are none.
LEMMA SmallMultiple ==
    ASSUME NEW k \in Int, NEW C \in Nat \ {0}, 2 * (k * C) \in -C..C
    PROVE  k = 0
<1>1. CASE k >= 1
  <2>1. k * C >= C
    BY <1>1
  <2> QED
    BY <2>1
<1>2. CASE k <= -1
  <2>1. (-k) * C >= C
    BY <1>2
  <2>2. (-k) * C = -(k * C)
    OBVIOUS
  <2>3. k * C \in Int
    OBVIOUS
  <2> QED
    BY <2>1, <2>2, <2>3
<1> QED
  BY <1>1, <1>2

\* The column of an amount is the amount rounded, and exactly the amount when that is
\* whole cents.
LEMMA CentsRounds ==
    ASSUME NEW v \in Nat
    PROVE  Cents(v) \in Nat /\ Near(v, Cents(v)) /\ (v % Cent = 0 => v = Cents(v) * Cent)
<1> DEFINE C == Cent
           q == (2 * v + C) \div (2 * C)
<1>0. C \in Nat \ {0} /\ 2 * v + C \in Nat /\ 2 * C \in Nat \ {0}
  BY OrderConstants
<1>1. PICK k \in Int : k = q
  BY <1>0
<1>2. /\ 2 * C * k <= 2 * v + C
      /\ 2 * v + C < 2 * C * k + 2 * C
  BY <1>0, <1>1
<1> HIDE DEF C, q
<1>3. C * k \in Int /\ 2 * C * k = 2 * (C * k) /\ k * C = C * k
  BY <1>0
<1>4. 2 * (k * C - v) \in -C..C
  BY <1>0, <1>2, <1>3
<1>5. k >= 0
  <2>1. CASE k <= -1
    <3>1. C * (-k) >= C /\ C * (-k) = -(C * k)
      BY <1>0, <2>1
    <3> QED
      BY <1>0, <1>2, <1>3, <3>1
  <2> QED
    BY <2>1
<1>6. ASSUME v % C = 0 PROVE v = k * C
  <2>1. PICK j \in Int : v = j * C
    BY <1>0, <1>6
  <2>2. j * C \in Int /\ (k - j) * C = k * C - j * C
    BY <1>0
  <2>3. k - j = 0
    BY <1>0, <1>4, <2>1, <2>2, SmallMultiple
  <2> QED
    BY <2>1, <2>3
<1> QED
  BY <1>1, <1>4, <1>5, <1>6 DEF Cents, Near, C, q

\* computeTotal returns a total that is not negative.
LEMMA TotalTyped ==
    ASSUME NEW m, \A f \in Money : m[f] \in Nat, NEW t \in Totals(m)
    PROVE  t \in Nat /\ (Price(m) >= 0 => Near(Price(m), t))
<1>1. Price(m) \in Int
  <2>1. m["amount"] * m["quantity"] \in Nat
    BY DEF Money, Amounts
  <2> QED
    BY <2>1 DEF Price, Money, Amounts
<1>2. CASE Price(m) < 0
  BY <1>1, <1>2 DEF Totals
<1>3. CASE Price(m) >= 0
  <2> DEFINE x == Price(m)
             C == Cent
  <2>1. t \in Nearest(x)
    BY <1>1, <1>3 DEF Totals
  <2>2. C \in Nat \ {0} /\ x \div C \in Int
    BY <1>1, OrderConstants
  <2>3. t \in Int /\ 2 * (t * C - x) \in -C..C
    BY <2>1, <2>2 DEF Nearest
  <2> HIDE DEF x, C
  <2>4. CASE t <= -1
    <3>1. (-t) * C >= C /\ (-t) * C = -(t * C) /\ t * C \in Int
      BY <2>2, <2>3, <2>4
    <3> QED
      BY <1>1, <1>3, <2>2, <2>3, <3>1 DEF x
  <2> QED
    BY <2>3, <2>4 DEF Near, x, C
<1> QED
  BY <1>1, <1>2, <1>3

\* Over whole cents, computeTotal is the formula.
LEMMA TotalExact ==
    ASSUME NEW m, \A f \in Money : m[f] \in Nat, NEW t \in Totals(m), NEW x,
           \A f \in Money : x[f] \in Nat,
           \A f \in Amounts : m[f] = x[f] * Cent, m["quantity"] = x["quantity"]
    PROVE  t = TotalOf(x)
<1> DEFINE A == x["amount"]
           q == x["quantity"]
           D == x["discount"]
           S == x["shippingFee"]
           C == Cent
           p == A * q - D + S
<1>1. A \in Nat /\ q \in Nat /\ D \in Nat /\ S \in Nat /\ C \in Nat \ {0}
  BY OrderConstants DEF Money, Amounts
<1>2. Price(x) = p /\ Price(m) = (A * C) * q - D * C + S * C
  BY DEF Price, Money, Amounts
<1> HIDE DEF A, q, D, S, C
<1>3. A * q \in Nat /\ p \in Int
  BY <1>1
<1>4. (A * C) * q - D * C + S * C = p * C
  <2>1. (A * C) * q = (A * q) * C
    BY <1>1
  <2>2. p * C = (A * q) * C - D * C + S * C
    BY <1>1, <1>3
  <2> QED
    BY <2>1, <2>2
<1> HIDE DEF p
<1>5. CASE p < 0
  <2>1. p * C < 0
    BY <1>1, <1>3, <1>5
  <2> QED
    BY <1>2, <1>4, <1>5, <2>1 DEF Totals, TotalOf
<1>6. CASE p >= 0
  <2>1. p * C >= 0 /\ p * C \in Int
    BY <1>1, <1>3, <1>6
  <2>2. t \in Nat /\ 2 * (t * C - p * C) \in -C..C
    BY <1>2, <1>4, <2>1, TotalTyped DEF Near, C
  <2>3. t * C - p * C = (t - p) * C
    BY <1>1, <1>3, <2>2
  <2>4. t - p = 0
    BY <1>1, <1>3, <2>2, <2>3, SmallMultiple
  <2> QED
    BY <1>2, <1>3, <1>6, <2>2, <2>4 DEF TotalOf
<1> QED
  BY <1>3, <1>5, <1>6

\* Twice the distance, counted in fractions of a cent, is bounded: so it is in cents.
LEMMA Descale ==
    ASSUME NEW k \in Int, NEW n \in Nat, NEW C \in Nat \ {0}, k * C <= n * C
    PROVE  k <= n
<1>1. CASE k >= n + 1
  <2>1. k * C >= (n + 1) * C /\ (n + 1) * C = n * C + C /\ k * C \in Int /\ n * C \in Int
    BY <1>1
  <2> QED
    BY <2>1
<1> QED
  BY <1>1

\* Total and columns are rounded apart, and the clamp brings them no further apart.
LEMMA TotalNear ==
    ASSUME NEW m, \A f \in Money : m[f] \in Nat, NEW t \in Totals(m), NEW x,
           \A f \in Money : x[f] \in Nat,
           \A f \in Amounts : Near(m[f], x[f]), m["quantity"] = x["quantity"]
    PROVE  2 * (t - TotalOf(x)) \in -(x["quantity"] + 3)..(x["quantity"] + 3)
<1> DEFINE A == x["amount"]
           q == x["quantity"]
           D == x["discount"]
           S == x["shippingFee"]
           a == m["amount"]
           d == m["discount"]
           s == m["shippingFee"]
           C == Cent
           p == A * q - D + S
           z == a * q - d + s
<1>1. /\ A \in Nat /\ q \in Nat /\ D \in Nat /\ S \in Nat /\ C \in Nat \ {0}
      /\ a \in Nat /\ d \in Nat /\ s \in Nat
  BY OrderConstants DEF Money, Amounts
<1>2. Price(x) = p /\ Price(m) = z
  BY DEF Price
<1>3. /\ 2 * (A * C - a) \in -C..C
      /\ 2 * (D * C - d) \in -C..C
      /\ 2 * (S * C - s) \in -C..C
  BY DEF Near, Amounts
<1>4. t \in Nat /\ (z >= 0 => 2 * (t * C - z) \in -C..C)
  BY <1>2, TotalTyped DEF Near
<1>5. (z < 0 => t = 0) /\ TotalOf(x) = IF p < 0 THEN 0 ELSE p
  BY <1>2 DEF Totals, TotalOf
<1> HIDE DEF A, q, D, S, a, d, s, C
<1>6. p \in Int /\ z \in Int /\ A * q \in Nat /\ a * q \in Nat
  BY <1>1
<1>7. 2 * (p * C - z) \in -((q + 2) * C)..((q + 2) * C)
  <2> DEFINE e == 2 * (A * C - a)
  <2>1. p * C = (A * q) * C - D * C + S * C
    BY <1>1, <1>6
  <2>2. (A * q) * C - a * q = (A * C - a) * q
    BY <1>1
  <2>3. 2 * ((A * C - a) * q) = e * q
    BY <1>1
  <2>4. e \in Int /\ -C <= e /\ e <= C
    BY <1>1, <1>3
  <2> HIDE DEF e
  <2>5. -(C * q) <= e * q /\ e * q <= C * q
    BY <1>1, <2>4
  <2>6. (q + 2) * C = C * q + 2 * C
    BY <1>1
  <2>7. /\ (A * q) * C \in Int /\ D * C \in Int /\ S * C \in Int /\ e * q \in Int /\ C * q \in Int
        /\ (A * C - a) * q \in Int
    BY <1>1, <2>4
  <2> QED
    BY <1>1, <1>3, <1>6, <2>1, <2>2, <2>3, <2>5, <2>6, <2>7
<1>8. (q + 3) * C = (q + 2) * C + C /\ (q + 2) * C \in Int /\ p * C \in Int /\ t * C \in Int
  BY <1>1, <1>4, <1>6
<1> HIDE DEF p, z
<1>9. CASE z < 0
  <2>1. CASE p < 0
    BY <1>1, <1>5, <1>9, <2>1 DEF q
  <2>2. CASE p >= 0
    <3>1. 2 * (p * C) <= (q + 3) * C
      BY <1>1, <1>6, <1>7, <1>8, <1>9
    <3>2. (2 * p) * C = 2 * (p * C)
      BY <1>1, <1>6
    <3>3. 2 * p <= q + 3
      BY <1>1, <1>6, <3>1, <3>2, Descale
    <3> QED
      BY <1>1, <1>5, <1>6, <1>9, <2>2, <3>3 DEF q
  <2> QED
    BY <1>6, <2>1, <2>2
<1>10. CASE z >= 0
  <2>1. /\ 2 * (t * C) - 2 * (p * C) <= (q + 3) * C
        /\ 2 * (p * C) - 2 * (t * C) <= (q + 3) * C
    BY <1>1, <1>4, <1>6, <1>7, <1>8, <1>10
  <2>2. /\ (2 * (t - p)) * C = 2 * (t * C) - 2 * (p * C)
        /\ (2 * (p - t)) * C = 2 * (p * C) - 2 * (t * C)
    BY <1>1, <1>4, <1>6
  <2>3. 2 * (t - p) <= q + 3 /\ 2 * (p - t) <= q + 3
    BY <1>1, <1>4, <1>6, <2>1, <2>2, Descale
  <2> QED
    BY <1>1, <1>4, <1>5, <1>6, <2>3 DEF q
<1> QED
  BY <1>6, <1>9, <1>10

\* A PATCH body bound to UpdateOrderDto still types every column it names.
LEMMA BodyTyped ==
    ASSUME NEW d \in PatchDtos
    PROVE  /\ \A f \in Money \cap DOMAIN Bind(d) : Bind(d)[f] \in Nat
           /\ "customer" \in DOMAIN Bind(d) => Bind(d)["customer"] \in Customers
           /\ "status" \in DOMAIN Bind(d) => Bind(d)["status"] \in Statuses
BY OrderConstants DEF Bind, Money, Columns

\* { ...row, ...dto, total } is a row of the same order.
LEMMA MergeTyped ==
    ASSUME NEW x \in RowType, NEW d \in PatchDtos, NEW t \in Nat
    PROVE  Merge(x, Bind(d), t) \in RowType
<1> DEFINE b == Bind(d)
<1>1. /\ Pick(x, b, "amount") \in Nat /\ Pick(x, b, "quantity") \in Nat
      /\ Pick(x, b, "discount") \in Nat /\ Pick(x, b, "shippingFee") \in Nat
  BY BodyTyped, CentsRounds DEF Pick, Stored, Money, Amounts, RowType
<1>2. /\ Pick(x, b, "customer") \in Customers \cup {None}
      /\ Pick(x, b, "status") \in Statuses
  BY BodyTyped DEF Pick, Stored, Amounts, RowType
<1> QED
  BY <1>1, <1>2 DEF Merge, Row, RowType

\* The money a PATCH computes with: of the body and of the row it has seen.
LEMMA FullTyped ==
    ASSUME NEW x \in RowType, NEW d \in PatchDtos
    PROVE  \A f \in Money : Full(x, Bind(d))[f] \in Nat
<1> DEFINE b == Bind(d)
<1>1. /\ x["amount"] \in Nat /\ x["quantity"] \in Nat
      /\ x["discount"] \in Nat /\ x["shippingFee"] \in Nat
  BY DEF RowType
<1>2. \A f \in Money : x[f] \in Nat
  BY <1>1 DEF Money, Amounts
<1>3. \A f \in Amounts : x[f] * Cent \in Nat
  BY <1>2, OrderConstants DEF Money
<1>4. \A f \in Money : f \in DOMAIN b => b[f] \in Nat
  BY BodyTyped
<1> HIDE DEF b
<1> QED
  BY <1>2, <1>3, <1>4 DEF Full, b

\* The total a PATCH computes.
LEMMA PatchTotalTyped ==
    ASSUME NEW r \in Requests, Shape, pc[r] = "write", NEW t \in PatchTotals(r)
    PROVE  t \in Nat
<1>1. PICK d \in PatchDtos : ctx[r].dto = Bind(d)
  BY DEF Shape, LabelsOK, ContextOK
<1>2. ctx[r].seen \in RowType
  BY DEF Shape, LabelsOK, ContextOK
<1> QED
  BY <1>1, <1>2, FullTyped, TotalTyped DEF PatchTotals

\* The row of a new order, of a body and the total computed for it.
LEMMA NewRowTyped ==
    ASSUME NEW c, c.org \in Orgs, c.customer \in Customers, c.number \in Nat,
           c.dto \in CreateDtos, NEW t \in Totals(c.dto)
    PROVE  NewRow(c, t) \in RowType
<1>1. /\ c.dto["amount"] \in Nat /\ c.dto["quantity"] \in Nat /\ c.dto["discount"] \in Nat
      /\ c.dto["shippingFee"] \in Nat /\ c.dto["status"] \in Statuses
  BY OrderConstants DEF Money, Amounts
<1>2. t \in Nat
  BY TotalTyped, OrderConstants
<1> QED
  BY <1>1, <1>2, CentsRounds DEF NewRow, Row, RowType

-----------------------------------------------------------------------------
\* No update changes the tenant or the number of an order.
LEMMA PatchedRow ==
    ASSUME TypeOK, NEW r \in Requests, PatchWrite(r)
    PROVE  \A o \in Requests : row'[o].org = row[o].org /\ row'[o].number = row[o].number
<1>1. CASE row' = row
  BY <1>1
<1>2. ASSUME NEW t, row' = [row EXCEPT ![ctx[r].order] = Merge(row[ctx[r].order], ctx[r].dto, t)]
      PROVE  \A o \in Requests : row'[o].org = row[o].org /\ row'[o].number = row[o].number
  BY <1>2 DEF Merge, Row, TypeOK
<1> QED
  BY <1>1, <1>2 DEF PatchWrite

\* Every statement keeps the columns typed, the patched total included.
LEMMA TypeOKStep == Shape /\ [Next]_vars => TypeOK'
<1> SUFFICES ASSUME Shape, [Next]_vars PROVE TypeOK'
  OBVIOUS
<1> USE OrderConstants
    DEF Shape, TypeOK, LabelsOK, ContextOK, Context, Created, Ops, Labels, Blank, Locals,
        RowType, Admit, At, Goto, store, history, NoRow, Bodies
<1>1. ASSUME NEW r \in Requests, NEW g \in Orgs, NEW c \in Customers, NEW d \in CreateDtos,
            CreateArrive(r, g, c, d)
     PROVE  TypeOK'
  BY <1>1 DEF CreateArrive, CustomerInOrg
<1>2. ASSUME NEW r \in Requests, NEW g \in Orgs, NEW o \in Requests, NEW d \in PatchDtos,
            PatchArrive(r, g, o, d)
     PROVE  TypeOK'
  BY <1>2 DEF PatchArrive, Owns, OrgOrders
<1>3. ASSUME NEW r \in Requests, NEW g \in Orgs, NEW o \in Requests, NEW s \in Statuses,
            StatusArrive(r, g, o, s)
     PROVE  TypeOK'
  BY <1>3 DEF StatusArrive, Owns, OrgOrders
<1>4. ASSUME NEW r \in Requests, NEW g \in Orgs, NEW o \in Requests, RemoveArrive(r, g, o) PROVE TypeOK'
  BY <1>4 DEF RemoveArrive, Owns, OrgOrders
<1>5. ASSUME NEW r \in Requests, NEW g \in Orgs, NEW c \in Customers, CustomerRemoveArrive(r, g, c) PROVE TypeOK'
  BY <1>5 DEF CustomerRemoveArrive, CustomerInOrg
<1>6. ASSUME NEW r \in Requests, CreateCount(r) PROVE TypeOK'
  <2> DEFINE n == NextOrderNumber(ctx[r].org)
  <2>1. IsFiniteSet(OrgOrders(ctx[r].org))
    BY FS_Subset DEF OrgOrders
  <2>2. n \in Nat
    BY <2>1, FS_CardinalityType DEF NextOrderNumber
  <2>0. ctx[r] \in Context
    BY <1>6 DEF CreateCount
  <2> HIDE DEF n, Bodies, Shape, TypeOK, LabelsOK, ContextOK, RowType
  <2>3. [ctx[r] EXCEPT !.number = n] \in Context
    BY <2>0, <2>2
  <2> HIDE DEF Context
  <2>4. ctx' \in [Requests -> Context]
    BY <1>6, <2>3 DEF CreateCount, n, Shape, TypeOK
  <2> QED
    BY <1>6, <2>4 DEF CreateCount, Shape, TypeOK
<1>7. ASSUME NEW r \in Requests, CreateInsert(r) PROVE TypeOK'
  <2>1. ctx[r].org \in Orgs /\ ctx[r].customer \in Customers /\ ctx[r].number \in Nat
        /\ ctx[r].dto \in CreateDtos
    BY <1>7 DEF CreateInsert
  <2>2. \A t \in Totals(ctx[r].dto) : NewRow(ctx[r], t) \in RowType
    <3> HIDE DEF RowType
    <3> QED
      BY <2>1, NewRowTyped
  <2>4. IsFiniteSet(orders')
    BY <1>7, FS_AddElement DEF CreateInsert
  <2> HIDE DEF RowType, Context
  <2>5. row' \in [Requests -> RowType]
    BY <1>7, <2>2 DEF CreateInsert
  <2>6. pc' \in [Requests -> Labels] /\ orders' \subseteq Requests /\ rough' \subseteq Requests
    BY <1>7 DEF CreateInsert
  <2>7. UNCHANGED <<ctx, customers, audit, crashed, gaps, torn, written>>
    BY <1>7 DEF CreateInsert
  <2> QED
    BY <2>4, <2>5, <2>6, <2>7
<1>8. ASSUME NEW r \in Requests, PatchCheckCustomer(r) PROVE TypeOK'
  BY <1>8 DEF PatchCheckCustomer, CustomerInOrg
<1>9. ASSUME NEW r \in Requests, PatchWrite(r) PROVE TypeOK'
  <2>1. ctx[r].order \in Requests /\ ctx[r].dto \in {Bind(d) : d \in PatchDtos}
    BY <1>9 DEF PatchWrite
  <2> HIDE DEF RowType, Context
  <2>2. \A t \in PatchTotals(r) : t \in Nat
    BY <1>9, PatchTotalTyped DEF PatchWrite
  <2>3. \A t \in PatchTotals(r) : Merge(row[ctx[r].order], ctx[r].dto, t) \in RowType
    BY <2>1, <2>2, MergeTyped
  <2>4. row' \in [Requests -> RowType]
    BY <1>9, <2>1, <2>3 DEF PatchWrite
  <2>5. /\ torn' \subseteq Requests /\ rough' \subseteq Requests /\ written' \subseteq Requests
        /\ pc' \in [Requests -> Labels]
    BY <1>9, <2>1 DEF PatchWrite
  <2>6. UNCHANGED <<ctx, customers, orders, audit, crashed, gaps>>
    BY <1>9 DEF PatchWrite
  <2> QED
    BY <2>4, <2>5, <2>6
<1>10. ASSUME NEW r \in Requests, StatusWrite(r) PROVE TypeOK'
  BY <1>10 DEF StatusWrite, Owns, OrgOrders
<1>11. ASSUME NEW r \in Requests, RemoveDelete(r) PROVE TypeOK'
  <2>1. IsFiniteSet(orders')
    BY <1>11, FS_Subset DEF RemoveDelete
  <2> QED
    BY <1>11, <2>1 DEF RemoveDelete, Owns, OrgOrders
<1>12. ASSUME NEW r \in Requests, CustomerDelete(r) PROVE TypeOK'
  <2>1. IsFiniteSet(orders')
    BY <1>12, FS_Subset DEF CustomerDelete
  <2> QED
    BY <1>12, <2>1 DEF CustomerDelete, Cascade
<1>13. ASSUME NEW r \in Requests, AuditLog(r) PROVE TypeOK'
  BY <1>13 DEF AuditLog
<1>14. ASSUME NEW r \in Requests, Crash(r) PROVE TypeOK'
  BY <1>14 DEF Crash
<1>15. CASE UNCHANGED vars
  BY <1>15 DEF vars
<1> QED
  BY <1>1, <1>2, <1>3, <1>4, <1>5, <1>6, <1>7, <1>8,
     <1>9, <1>10, <1>11, <1>12, <1>13, <1>14, <1>15
  DEF Next, Arrive, Continue

\* Every handler follows the statements of its own operation.
LEMMA LabelsOKStep == Shape /\ [Next]_vars => LabelsOK'
<1> SUFFICES ASSUME Shape, [Next]_vars PROVE LabelsOK'
  OBVIOUS
<1> USE OrderConstants
    DEF Shape, TypeOK, LabelsOK, ContextOK, Context, Created, Ops, Labels, Blank, Locals,
        RowType, Admit, At, Goto, store, history
<1>1. ASSUME NEW r \in Requests, NEW g \in Orgs, NEW c \in Customers, NEW d \in CreateDtos,
            CreateArrive(r, g, c, d)
     PROVE  LabelsOK'
  BY <1>1 DEF CreateArrive, CustomerInOrg
<1>2. ASSUME NEW r \in Requests, NEW g \in Orgs, NEW o \in Requests, NEW d \in PatchDtos,
            PatchArrive(r, g, o, d)
     PROVE  LabelsOK'
  BY <1>2 DEF PatchArrive, Owns, OrgOrders
<1>3. ASSUME NEW r \in Requests, NEW g \in Orgs, NEW o \in Requests, NEW s \in Statuses,
            StatusArrive(r, g, o, s)
     PROVE  LabelsOK'
  BY <1>3 DEF StatusArrive, Owns, OrgOrders
<1>4. ASSUME NEW r \in Requests, NEW g \in Orgs, NEW o \in Requests, RemoveArrive(r, g, o) PROVE LabelsOK'
  BY <1>4 DEF RemoveArrive, Owns, OrgOrders
<1>5. ASSUME NEW r \in Requests, NEW g \in Orgs, NEW c \in Customers, CustomerRemoveArrive(r, g, c) PROVE LabelsOK'
  BY <1>5 DEF CustomerRemoveArrive, CustomerInOrg
<1>6. ASSUME NEW r \in Requests, CreateCount(r) PROVE LabelsOK'
  BY <1>6 DEF CreateCount
<1>7. ASSUME NEW r \in Requests, CreateInsert(r) PROVE LabelsOK'
  BY <1>7 DEF CreateInsert, NewRow, Row
<1>8. ASSUME NEW r \in Requests, PatchCheckCustomer(r) PROVE LabelsOK'
  BY <1>8 DEF PatchCheckCustomer, CustomerInOrg
<1>9. ASSUME NEW r \in Requests, PatchWrite(r) PROVE LabelsOK'
  BY <1>9 DEF PatchWrite, Owns, OrgOrders
<1>10. ASSUME NEW r \in Requests, StatusWrite(r) PROVE LabelsOK'
  BY <1>10 DEF StatusWrite, Owns, OrgOrders
<1>11. ASSUME NEW r \in Requests, RemoveDelete(r) PROVE LabelsOK'
  BY <1>11 DEF RemoveDelete, Owns, OrgOrders
<1>12. ASSUME NEW r \in Requests, CustomerDelete(r) PROVE LabelsOK'
  BY <1>12 DEF CustomerDelete, Cascade
<1>13. ASSUME NEW r \in Requests, AuditLog(r) PROVE LabelsOK'
  BY <1>13 DEF AuditLog
<1>14. ASSUME NEW r \in Requests, Crash(r) PROVE LabelsOK'
  BY <1>14 DEF Crash
<1>15. CASE UNCHANGED vars
  BY <1>15 DEF vars
<1> QED
  BY <1>1, <1>2, <1>3, <1>4, <1>5, <1>6, <1>7, <1>8,
     <1>9, <1>10, <1>11, <1>12, <1>13, <1>14, <1>15
  DEF Next, Arrive, Continue

\* Handlers name orders that were created, and keep the body they were given.
LEMMA ContextOKStep == Shape /\ [Next]_vars => ContextOK'
<1> SUFFICES ASSUME Shape, [Next]_vars PROVE ContextOK'
  OBVIOUS
<1> USE OrderConstants
    DEF Shape, TypeOK, LabelsOK, ContextOK, Context, Created, Ops, Labels, Blank, Locals,
        RowType, Admit, At, Goto, store, history
<1>1. ASSUME NEW r \in Requests, NEW g \in Orgs, NEW c \in Customers, NEW d \in CreateDtos,
            CreateArrive(r, g, c, d)
     PROVE  ContextOK'
  BY <1>1 DEF CreateArrive, CustomerInOrg
<1>2. ASSUME NEW r \in Requests, NEW g \in Orgs, NEW o \in Requests, NEW d \in PatchDtos,
            PatchArrive(r, g, o, d)
     PROVE  ContextOK'
  BY <1>2 DEF PatchArrive, Owns, OrgOrders
<1>3. ASSUME NEW r \in Requests, NEW g \in Orgs, NEW o \in Requests, NEW s \in Statuses,
            StatusArrive(r, g, o, s)
     PROVE  ContextOK'
  BY <1>3 DEF StatusArrive, Owns, OrgOrders
<1>4. ASSUME NEW r \in Requests, NEW g \in Orgs, NEW o \in Requests, RemoveArrive(r, g, o) PROVE ContextOK'
  BY <1>4 DEF RemoveArrive, Owns, OrgOrders
<1>5. ASSUME NEW r \in Requests, NEW g \in Orgs, NEW c \in Customers, CustomerRemoveArrive(r, g, c) PROVE ContextOK'
  BY <1>5 DEF CustomerRemoveArrive, CustomerInOrg
<1>6. ASSUME NEW r \in Requests, CreateCount(r) PROVE ContextOK'
  BY <1>6 DEF CreateCount
<1>7. ASSUME NEW r \in Requests, CreateInsert(r) PROVE ContextOK'
  BY <1>7 DEF CreateInsert, NewRow, Row
<1>8. ASSUME NEW r \in Requests, PatchCheckCustomer(r) PROVE ContextOK'
  BY <1>8 DEF PatchCheckCustomer, CustomerInOrg
<1>9. ASSUME NEW r \in Requests, PatchWrite(r) PROVE ContextOK'
  <2>1. \A o \in Requests : row'[o].org = row[o].org
    BY <1>9, PatchedRow
  <2>2. UNCHANGED <<ctx, orders>> /\ \A q \in Requests : Created(q) => Created(q)'
    BY <1>9 DEF PatchWrite
  <2>3. \A q : Created(q) => q \in Requests
    OBVIOUS
  <2>4. ContextOK
    OBVIOUS
  <2> HIDE DEF Created, RowType, Shape, TypeOK, LabelsOK, Context
  <2> QED
    BY <2>1, <2>2, <2>3, <2>4
<1>10. ASSUME NEW r \in Requests, StatusWrite(r) PROVE ContextOK'
  BY <1>10 DEF StatusWrite, Owns, OrgOrders
<1>11. ASSUME NEW r \in Requests, RemoveDelete(r) PROVE ContextOK'
  BY <1>11 DEF RemoveDelete, Owns, OrgOrders
<1>12. ASSUME NEW r \in Requests, CustomerDelete(r) PROVE ContextOK'
  BY <1>12 DEF CustomerDelete, Cascade
<1>13. ASSUME NEW r \in Requests, AuditLog(r) PROVE ContextOK'
  BY <1>13 DEF AuditLog
<1>14. ASSUME NEW r \in Requests, Crash(r) PROVE ContextOK'
  BY <1>14 DEF Crash
<1>15. CASE UNCHANGED vars
  BY <1>15 DEF vars
<1> QED
  BY <1>1, <1>2, <1>3, <1>4, <1>5, <1>6, <1>7, <1>8,
     <1>9, <1>10, <1>11, <1>12, <1>13, <1>14, <1>15
  DEF Next, Arrive, Continue

\* Checked customers stay in the tenant, and the cascade leaves no order behind.
LEMMA TenantInvStep == Shape /\ TenantInv /\ [Next]_vars => TenantInv'
<1> SUFFICES ASSUME Shape /\ TenantInv, [Next]_vars PROVE TenantInv'
  OBVIOUS
<1> USE OrderConstants
    DEF Shape, TypeOK, LabelsOK, ContextOK, Context, Created, Ops, Labels, Blank, Locals,
        RowType, Admit, At, Goto, store, history, TenantInv, OrdersStayInTenant
<1>1. ASSUME NEW r \in Requests, NEW g \in Orgs, NEW c \in Customers, NEW d \in CreateDtos,
            CreateArrive(r, g, c, d)
     PROVE  TenantInv'
  <2>1. \A q \in Requests \ {r} : ctx'[q] = ctx[q] /\ pc'[q] = pc[q]
    BY <1>1 DEF CreateArrive
  <2>2. ctx'[r].customer = c /\ ctx'[r].org = g /\ CustomerOrg[c] = g /\ pc'[r] = "count"
    BY <1>1 DEF CreateArrive, CustomerInOrg
  <2>3. UNCHANGED store
    BY <1>1 DEF CreateArrive
  <2> QED
    BY <2>1, <2>2, <2>3
<1>2. ASSUME NEW r \in Requests, NEW g \in Orgs, NEW o \in Requests, NEW d \in PatchDtos,
            PatchArrive(r, g, o, d)
     PROVE  TenantInv'
  <2>1. \A q \in Requests \ {r} : ctx'[q] = ctx[q] /\ pc'[q] = pc[q]
    BY <1>2 DEF PatchArrive
  <2>2. /\ ctx'[r].op = "patch" /\ ctx'[r].dto = Bind(d)
        /\ pc'[r] = IF "customer" \in DOMAIN d THEN "checkCustomer" ELSE "write"
    BY <1>2 DEF PatchArrive
  <2>3. "customer" \in DOMAIN Bind(d) => "customer" \in DOMAIN d
    BY DEF Bind
  <2>4. UNCHANGED store
    BY <1>2 DEF PatchArrive
  <2>5. OrdersStayInTenant'
    BY <2>4
  <2>6. ~(pc'[r] = "write" /\ "customer" \in DOMAIN ctx'[r].dto)
    BY <2>2, <2>3
  <2> HIDE DEF Shape, TypeOK, LabelsOK, ContextOK, OrdersStayInTenant
  <2> QED
    BY <2>1, <2>2, <2>5, <2>6
<1>3. ASSUME NEW r \in Requests, NEW g \in Orgs, NEW o \in Requests, NEW s \in Statuses,
            StatusArrive(r, g, o, s)
     PROVE  TenantInv'
  BY <1>3 DEF StatusArrive, Owns, OrgOrders
<1>4. ASSUME NEW r \in Requests, NEW g \in Orgs, NEW o \in Requests, RemoveArrive(r, g, o) PROVE TenantInv'
  BY <1>4 DEF RemoveArrive, Owns, OrgOrders
<1>5. ASSUME NEW r \in Requests, NEW g \in Orgs, NEW c \in Customers, CustomerRemoveArrive(r, g, c) PROVE TenantInv'
  BY <1>5 DEF CustomerRemoveArrive, CustomerInOrg
<1>6. ASSUME NEW r \in Requests, CreateCount(r) PROVE TenantInv'
  BY <1>6 DEF CreateCount
<1>7. ASSUME NEW r \in Requests, CreateInsert(r) PROVE TenantInv'
  <2>1. \A o \in Requests \ {r} : row'[o] = row[o]
    BY <1>7 DEF CreateInsert
  <2>2. ASSUME r \in orders' \ orders
        PROVE  /\ row'[r].customer \in customers'
               /\ CustomerOrg[row'[r].customer] = row'[r].org
    BY <1>7, <2>2 DEF CreateInsert, NewRow, Row
  <2>3. r \notin orders
    BY <1>7 DEF CreateInsert
  <2> QED
    BY <1>7, <2>1, <2>2, <2>3 DEF CreateInsert
<1>8. ASSUME NEW r \in Requests, PatchCheckCustomer(r) PROVE TenantInv'
  BY <1>8 DEF PatchCheckCustomer, CustomerInOrg
<1>9. ASSUME NEW r \in Requests, PatchWrite(r) PROVE TenantInv'
  <2> DEFINE o == ctx[r].order
             d == ctx[r].dto
  <2>1. \A p \in Requests \ {o} : row'[p] = row[p]
    BY <1>9 DEF PatchWrite
  <2>2. ASSUME o \in orders
        PROVE  /\ row'[o].customer \in customers
               /\ CustomerOrg[row'[o].customer] = row'[o].org
    <3>1. CASE row' = row
      BY <2>2, <3>1
    <3>2. CASE /\ Owns(ctx[r].org, o)
               /\ "customer" \in DOMAIN d => d["customer"] \in customers
               /\ \E t \in PatchTotals(r) : row' = [row EXCEPT ![o] = Merge(row[o], d, t)]
      <4>1. /\ row'[o].customer = Pick(row[o], d, "customer")
            /\ row'[o].org = row[o].org /\ row[o].org = ctx[r].org
        BY <2>2, <3>2 DEF Merge, Row, Owns, OrgOrders
      <4> QED
        BY <1>9, <2>2, <3>2, <4>1 DEF Pick, Stored, Amounts, PatchWrite
    <3> QED
      BY <1>9, <3>1, <3>2 DEF PatchWrite
  <2>3. orders' = orders /\ customers' = customers /\ ctx' = ctx
    BY <1>9 DEF PatchWrite
  <2>4. \A q \in Requests : pc'[q] = "write" => pc[q] = "write"
    BY <1>9 DEF PatchWrite
  <2>5. OrdersStayInTenant'
    BY <2>1, <2>2, <2>3
  <2> QED
    BY <2>3, <2>4, <2>5
<1>10. ASSUME NEW r \in Requests, StatusWrite(r) PROVE TenantInv'
  BY <1>10 DEF StatusWrite, Owns, OrgOrders
<1>11. ASSUME NEW r \in Requests, RemoveDelete(r) PROVE TenantInv'
  BY <1>11 DEF RemoveDelete, Owns, OrgOrders
<1>12. ASSUME NEW r \in Requests, CustomerDelete(r) PROVE TenantInv'
  BY <1>12 DEF CustomerDelete, Cascade
<1>13. ASSUME NEW r \in Requests, AuditLog(r) PROVE TenantInv'
  BY <1>13 DEF AuditLog
<1>14. ASSUME NEW r \in Requests, Crash(r) PROVE TenantInv'
  BY <1>14 DEF Crash
<1>15. CASE UNCHANGED vars
  BY <1>15 DEF vars
<1> QED
  BY <1>1, <1>2, <1>3, <1>4, <1>5, <1>6, <1>7, <1>8,
     <1>9, <1>10, <1>11, <1>12, <1>13, <1>14, <1>15
  DEF Next, Arrive, Continue

\* What TotalFollowsColumns asks of one row.
OnFormula(x, isRough) ==
    LET off == x.total - TotalOf(x) IN
    /\ ~isRough => off = 0
    /\ 2 * off \in -(x.quantity + 3)..(x.quantity + 3)

\* A total computed for money that a row holds rounded, or exactly, is on the formula.
LEMMA ComputedOnFormula ==
    ASSUME NEW x \in RowType, NEW m, \A f \in Money : m[f] \in Nat, x.total \in Totals(m),
           m["quantity"] = x.quantity, NEW isRough \in BOOLEAN,
           \A f \in Amounts : Near(m[f], x[f]) /\ (~isRough => m[f] = x[f] * Cent)
    PROVE  OnFormula(x, isRough)
<1>1. /\ x["amount"] \in Nat /\ x["quantity"] \in Nat /\ x["discount"] \in Nat
      /\ x["shippingFee"] \in Nat /\ x.total \in Nat
  BY DEF RowType
<1>2. \A f \in Money : x[f] \in Nat
  BY <1>1 DEF Money, Amounts
<1>3. ~isRough => x.total = TotalOf(x)
  BY <1>2, TotalExact
<1>4. 2 * (x.total - TotalOf(x)) \in -(x["quantity"] + 3)..(x["quantity"] + 3)
  BY <1>2, TotalNear
<1> QED
  BY <1>1, <1>3, <1>4 DEF OnFormula

LEMMA NewOnFormula ==
    ASSUME NEW r \in Requests, TypeOK, ContextOK, ctx[r].op = "create", ctx[r].dto \in CreateDtos,
           NEW t \in Totals(ctx[r].dto), NEW isRough \in BOOLEAN,
           ~isRough => ~Fractional(ctx[r].dto)
    PROVE  OnFormula(NewRow(ctx[r], t), isRough)
<1> DEFINE d == ctx[r].dto
           x == NewRow(ctx[r], t)
<1>1. x \in RowType
  BY NewRowTyped DEF TypeOK, ContextOK, Context
<1>2. \A f \in Money : d[f] \in Nat
  BY OrderConstants
<1>3. \A f \in Amounts : x[f] = Cents(d[f])
  BY DEF NewRow, Row, Amounts
<1>4. ~isRough => \A f \in Amounts : d[f] % Cent = 0
  BY OrderConstants DEF Fractional, Money
<1>5. x.total = t /\ x.quantity = d["quantity"]
  BY DEF NewRow, Row
<1> HIDE DEF x, d
<1>6. \A f \in Amounts : Near(d[f], x[f]) /\ (~isRough => d[f] = x[f] * Cent)
  BY <1>2, <1>3, <1>4, CentsRounds DEF Money
<1>7. x.total \in Totals(d)
  BY <1>5 DEF d
<1> QED
  BY <1>1, <1>2, <1>5, <1>6, <1>7, ComputedOnFormula DEF x

LEMMA PatchedOnFormula ==
    ASSUME NEW x \in RowType, NEW s \in RowType, SameMoney(x, s),
           NEW d \in {Bind(b) : b \in PatchDtos}, NEW t \in Totals(Full(s, d)),
           NEW isRough \in BOOLEAN, ~isRough => ~Fractional(d)
    PROVE  OnFormula(Merge(x, d, t), isRough)
<1> DEFINE y == Merge(x, d, t)
           m == Full(s, d)
<1>0. PICK b \in PatchDtos : d = Bind(b)
  OBVIOUS
<1>1. \A f \in Money : m[f] \in Nat /\ (f \in DOMAIN d => d[f] \in Nat)
  BY <1>0, FullTyped, BodyTyped
<1>2. t \in Nat
  BY <1>1, TotalTyped
<1>3. y \in RowType
  BY <1>0, <1>2, MergeTyped
<1>4. \A f \in Money : y[f] = Pick(s, d, f)
  BY DEF Merge, Row, Money, Amounts, SameMoney, Pick
<1>5. /\ y.total = t
      /\ \A f \in Amounts : m[f] = IF f \in DOMAIN d THEN d[f] ELSE s[f] * Cent
  BY DEF Merge, Row, Full, Money, Amounts
<1>6. y.quantity = m["quantity"]
  BY <1>4 DEF Full, Pick, Stored, Money, Amounts
<1>7. \A f \in Amounts : s[f] \in Nat
  BY DEF RowType, Amounts
<1> HIDE DEF y, m
<1>8. ASSUME NEW f \in Amounts
      PROVE  Near(m[f], y[f]) /\ (~isRough => m[f] = y[f] * Cent)
  <2>1. CASE f \in DOMAIN d
    <3>1. m[f] = d[f] /\ y[f] = Cents(d[f]) /\ d[f] \in Nat
      BY <1>1, <1>4, <1>5, <2>1 DEF Pick, Stored, Money
    <3>2. ~isRough => d[f] % Cent = 0
      BY <2>1 DEF Fractional
    <3> QED
      BY <3>1, <3>2, CentsRounds
  <2>2. CASE f \notin DOMAIN d
    <3>1. m[f] = s[f] * Cent /\ y[f] = s[f]
      BY <1>4, <1>5, <2>2 DEF Pick, Money
    <3>2. s[f] * Cent \in Nat /\ 0 \in -Cent..Cent
      BY <1>7, OrderConstants
    <3> QED
      BY <3>1, <3>2 DEF Near
  <2> QED
    BY <2>1, <2>2
<1>9. y.total \in Totals(m)
  BY <1>5 DEF m
<1> QED
  BY <1>1, <1>3, <1>6, <1>8, <1>9, ComputedOnFormula DEF y

\* A write keeps the total on the formula, or marks the order torn.
LEMMA TotalFollowsColumnsStep == Shape /\ TotalFollowsColumns /\ [Next]_vars => TotalFollowsColumns'
<1> SUFFICES ASSUME Shape /\ TotalFollowsColumns, [Next]_vars PROVE TotalFollowsColumns'
  OBVIOUS
<1> USE OrderConstants
    DEF Shape, TypeOK, LabelsOK, ContextOK, Context, Created, Ops, Labels, Blank, Locals,
        RowType, Admit, At, Goto, store, history, TotalFollowsColumns
<1>1. ASSUME NEW r \in Requests, NEW g \in Orgs, NEW c \in Customers, NEW d \in CreateDtos,
            CreateArrive(r, g, c, d)
     PROVE  TotalFollowsColumns'
  BY <1>1 DEF CreateArrive, CustomerInOrg
<1>2. ASSUME NEW r \in Requests, NEW g \in Orgs, NEW o \in Requests, NEW d \in PatchDtos,
            PatchArrive(r, g, o, d)
     PROVE  TotalFollowsColumns'
  BY <1>2 DEF PatchArrive, Owns, OrgOrders
<1>3. ASSUME NEW r \in Requests, NEW g \in Orgs, NEW o \in Requests, NEW s \in Statuses,
            StatusArrive(r, g, o, s)
     PROVE  TotalFollowsColumns'
  BY <1>3 DEF StatusArrive, Owns, OrgOrders
<1>4. ASSUME NEW r \in Requests, NEW g \in Orgs, NEW o \in Requests, RemoveArrive(r, g, o) PROVE TotalFollowsColumns'
  BY <1>4 DEF RemoveArrive, Owns, OrgOrders
<1>5. ASSUME NEW r \in Requests, NEW g \in Orgs, NEW c \in Customers, CustomerRemoveArrive(r, g, c) PROVE TotalFollowsColumns'
  BY <1>5 DEF CustomerRemoveArrive, CustomerInOrg
<1>6. ASSUME NEW r \in Requests, CreateCount(r) PROVE TotalFollowsColumns'
  BY <1>6 DEF CreateCount
<1>7. ASSUME NEW r \in Requests, CreateInsert(r) PROVE TotalFollowsColumns'
  <2>1. \A o \in Requests \ {r} : row'[o] = row[o] /\ (o \in rough' <=> o \in rough)
    BY <1>7 DEF CreateInsert
  <2>2. r \notin orders /\ torn' = torn
    BY <1>7 DEF CreateInsert
  <2>3. ASSUME r \in orders'
        PROVE  OnFormula(row'[r], r \in rough')
    <3> DEFINE isRough == r \in rough'
    <3>1. PICK t \in Totals(ctx[r].dto) : row'[r] = NewRow(ctx[r], t)
      BY <1>7, <2>2, <2>3 DEF CreateInsert
    <3>2. r \notin rough' => ~Fractional(ctx[r].dto)
      BY <1>7, <2>2, <2>3 DEF CreateInsert
    <3>3. ctx[r].dto \in CreateDtos /\ ctx[r].op = "create"
      BY <1>7 DEF CreateInsert
    <3>4. TypeOK /\ ContextOK /\ isRough \in BOOLEAN
      OBVIOUS
    <3> HIDE DEF RowType, Context, Shape, TypeOK, LabelsOK, ContextOK
    <3>5. ~isRough => ~Fractional(ctx[r].dto)
      BY <3>2
    <3> HIDE DEF isRough
    <3>6. OnFormula(NewRow(ctx[r], t), isRough)
      BY <3>3, <3>4, <3>5, NewOnFormula
    <3> QED
      BY <3>1, <3>6 DEF isRough
  <2> QED
    BY <1>7, <2>1, <2>2, <2>3 DEF CreateInsert, OnFormula
<1>8. ASSUME NEW r \in Requests, PatchCheckCustomer(r) PROVE TotalFollowsColumns'
  BY <1>8 DEF PatchCheckCustomer, CustomerInOrg
<1>9. ASSUME NEW r \in Requests, PatchWrite(r) PROVE TotalFollowsColumns'
  <2> DEFINE o == ctx[r].order
             d == ctx[r].dto
             s == ctx[r].seen
  <2>1. \A p \in Requests \ {o} : /\ row'[p] = row[p]
                                  /\ p \in torn' <=> p \in torn
                                  /\ p \in rough' <=> p \in rough
    BY <1>9 DEF PatchWrite
  <2>2. ASSUME o \in orders \ torn'
        PROVE  OnFormula(row'[o], o \in rough')
    <3>1. CASE row' = row /\ torn' = torn /\ rough' = rough
      BY <2>2, <3>1 DEF OnFormula
    <3>2. CASE /\ \E t \in PatchTotals(r) : row' = [row EXCEPT ![o] = Merge(row[o], d, t)]
               /\ torn' = IF SameMoney(row[o], s) THEN torn \ {o} ELSE torn \cup {o}
               /\ rough' = IF Fractional(d) THEN rough \cup {o} ELSE rough \ {o}
      <4>1. SameMoney(row[o], s) /\ (o \notin rough' => ~Fractional(d))
        BY <2>2, <3>2
      <4>2. PICK t \in PatchTotals(r) : row'[o] = Merge(row[o], d, t)
        BY <2>2, <3>2
      <4>3. row[o] \in RowType /\ s \in RowType /\ d \in {Bind(b) : b \in PatchDtos}
        BY <1>9, <2>2 DEF PatchWrite
      <4> DEFINE isRough == o \in rough'
      <4>4. isRough \in BOOLEAN /\ (~isRough => ~Fractional(d))
        BY <4>1
      <4>5. t \in Totals(Full(s, d))
        BY DEF PatchTotals
      <4> HIDE DEF RowType, Context, Shape, TypeOK, LabelsOK, ContextOK, isRough, o, d, s
      <4>6. OnFormula(Merge(row[o], d, t), isRough)
        BY <4>1, <4>3, <4>4, <4>5, PatchedOnFormula
      <4> QED
        BY <4>2, <4>6 DEF isRough
    <3> QED
      BY <1>9, <3>1, <3>2 DEF PatchWrite
  <2>3. orders' = orders
    BY <1>9 DEF PatchWrite
  <2> QED
    BY <2>1, <2>2, <2>3 DEF OnFormula
<1>10. ASSUME NEW r \in Requests, StatusWrite(r) PROVE TotalFollowsColumns'
  <2>1. \A p \in Requests : /\ row'[p].total = row[p].total
                            /\ row'[p].quantity = row[p].quantity
                            /\ TotalOf(row'[p]) = TotalOf(row[p])
    BY <1>10 DEF StatusWrite, TotalOf, Price
  <2>2. UNCHANGED <<orders, torn, rough>>
    BY <1>10 DEF StatusWrite
  <2> QED
    BY <2>1, <2>2
<1>11. ASSUME NEW r \in Requests, RemoveDelete(r) PROVE TotalFollowsColumns'
  BY <1>11 DEF RemoveDelete, Owns, OrgOrders
<1>12. ASSUME NEW r \in Requests, CustomerDelete(r) PROVE TotalFollowsColumns'
  BY <1>12 DEF CustomerDelete, Cascade
<1>13. ASSUME NEW r \in Requests, AuditLog(r) PROVE TotalFollowsColumns'
  BY <1>13 DEF AuditLog
<1>14. ASSUME NEW r \in Requests, Crash(r) PROVE TotalFollowsColumns'
  BY <1>14 DEF Crash
<1>15. CASE UNCHANGED vars
  BY <1>15 DEF vars
<1> QED
  BY <1>1, <1>2, <1>3, <1>4, <1>5, <1>6, <1>7, <1>8,
     <1>9, <1>10, <1>11, <1>12, <1>13, <1>14, <1>15
  DEF Next, Arrive, Continue

\* The orders of one tenant are finitely many.
LEMMA OrgOrdersFinite ==
    ASSUME TypeOK, NEW g
    PROVE  IsFiniteSet(OrgOrders(g)) /\ Cardinality(OrgOrders(g)) \in Nat
BY FS_Subset, FS_CardinalityType DEF OrgOrders, TypeOK

\* A step that leaves the orders of the tenants without gaps alone keeps the numbers
\* dense, if every number on its way was so before or has just been counted.
LEMMA DenseKept ==
    ASSUME Shape, DenseInv, gaps \subseteq gaps',
           \A g \in Orgs \ gaps' :
              /\ OrgOrders(g)' = OrgOrders(g)
              /\ \A o \in OrgOrders(g) : row'[o].number = row[o].number,
           \A q \in Requests : pc'[q] = "insert" =>
              /\ ctx'[q].org \in Orgs
              /\ \/ pc[q] = "insert" /\ ctx'[q] = ctx[q]
                 \/ ctx'[q].number = Cardinality(OrgOrders(ctx'[q].org)) + 1
    PROVE  DenseInv'
<1>1. \A g : Cardinality(OrgOrders(g)) \in Nat
  BY OrgOrdersFinite DEF Shape
<1>2. NumbersAreDense'
  <2> SUFFICES ASSUME NEW g \in Orgs \ gaps'
               PROVE  {row'[o].number : o \in OrgOrders(g)'} = 1..Cardinality(OrgOrders(g)')
    BY DEF NumbersAreDense
  <2>1. {row'[o].number : o \in OrgOrders(g)'} = {row[o].number : o \in OrgOrders(g)}
    OBVIOUS
  <2>2. {row[o].number : o \in OrgOrders(g)} = 1..Cardinality(OrgOrders(g))
    BY DEF DenseInv, NumbersAreDense
  <2> QED
    BY <2>1, <2>2
<1>3. ASSUME NEW q \in Requests, pc'[q] = "insert"
      PROVE  ctx'[q].number >= 1
  BY <1>1, <1>3 DEF DenseInv
<1>4. ASSUME NEW q \in Requests, NEW g \in Orgs \ gaps', pc'[q] = "insert", ctx'[q].org = g
      PROVE  ctx'[q].number <= Cardinality(OrgOrders(g)') + 1
  <2>1. OrgOrders(g)' = OrgOrders(g)
    BY <1>4
  <2>2. ctx'[q].number <= Cardinality(OrgOrders(g)) + 1
    BY <1>1, <1>4 DEF DenseInv
  <2> QED
    BY <2>1, <2>2
<1> QED
  BY <1>2, <1>3, <1>4 DEF DenseInv

\* An insert takes the next number of its tenant, if the tenant has lost no order.
LEMMA DenseInsert ==
    ASSUME Shape, DenseInv, NEW r \in Requests, At(r, "insert"),
           ~NumberTaken(ctx[r].org, ctx[r].number),
           orders' = orders \cup {r}, NEW t, row' = [row EXCEPT ![r] = NewRow(ctx[r], t)],
           pc' = [pc EXCEPT ![r] = "audit"], ctx' = ctx, gaps' = gaps
    PROVE  DenseInv'
<1> DEFINE g == ctx[r].org
           k == ctx[r].number
           n == Cardinality(OrgOrders(g))
<1>1. /\ r \notin orders /\ g \in Orgs /\ k \in Nat /\ k >= 1
      /\ row \in [Requests -> RowType] /\ orders \subseteq Requests
  BY DEF At, Shape, TypeOK, Context, LabelsOK, ContextOK, Created, DenseInv
<1>2. n \in Nat /\ IsFiniteSet(OrgOrders(g)) /\ r \notin OrgOrders(g)
  BY <1>1, OrgOrdersFinite DEF Shape, OrgOrders
<1>3. row'[r].org = g /\ row'[r].number = k /\ \A o \in orders : row'[o] = row[o]
  BY <1>1 DEF NewRow, Row
<1>4. OrgOrders(g)' = OrgOrders(g) \cup {r}
  BY <1>1, <1>3 DEF OrgOrders
<1>5. \A h \in Orgs \ {g} : OrgOrders(h)' = OrgOrders(h)
  BY <1>1, <1>3 DEF OrgOrders
<1>6. Cardinality(OrgOrders(g)') = n + 1
  BY <1>2, <1>4, FS_AddElement
<1>7. ASSUME NEW h \in Orgs \ gaps
      PROVE  {row'[o].number : o \in OrgOrders(h)'} = 1..Cardinality(OrgOrders(h)')
  <2>1. {row[o].number : o \in OrgOrders(h)} = 1..Cardinality(OrgOrders(h))
    BY DEF DenseInv, NumbersAreDense
  <2>2. \A o \in OrgOrders(h) : row'[o].number = row[o].number
    BY <1>3 DEF OrgOrders
  <2>3. CASE h # g
    BY <1>5, <2>1, <2>2, <2>3
  <2>4. CASE h = g
    <3>1. k = n + 1
      <4>1. k <= n + 1
        BY <2>4 DEF DenseInv, At
      <4>2. k \notin {row[o].number : o \in OrgOrders(g)}
        BY DEF NumberTaken
      <4>3. k \notin 1..n
        BY <2>1, <2>4, <4>2
      <4> QED
        BY <1>1, <1>2, <4>1, <4>3
    <3>2. {row'[o].number : o \in OrgOrders(g)'} = {row[o].number : o \in OrgOrders(g)} \cup {k}
      BY <1>3, <1>4, <2>2, <2>4
    <3>3. (1..n) \cup {n + 1} = 1..(n + 1)
      BY <1>2
    <3> QED
      BY <1>6, <2>1, <2>4, <3>1, <3>2, <3>3
  <2> QED
    BY <2>3, <2>4
<1>8. \A q \in Requests : pc'[q] = "insert" => pc[q] = "insert" /\ q # r
  BY DEF Shape, TypeOK
<1>9. ASSUME NEW q \in Requests, NEW h \in Orgs \ gaps', pc'[q] = "insert", ctx'[q].org = h
      PROVE  ctx'[q].number <= Cardinality(OrgOrders(h)') + 1
  <2>1. /\ ctx'[q].number \in Nat
        /\ ctx'[q].number <= Cardinality(OrgOrders(h)) + 1
    BY <1>8, <1>9 DEF Shape, TypeOK, Context, DenseInv
  <2> QED
    BY <1>2, <1>5, <1>6, <2>1
<1>10. NumbersAreDense'
  BY <1>7 DEF NumbersAreDense
<1> QED
  BY <1>8, <1>9, <1>10 DEF DenseInv

\* Only the next number fits while nothing was deleted.
LEMMA DenseInvStep == Shape /\ DenseInv /\ [Next]_vars => DenseInv'
<1> SUFFICES ASSUME Shape, DenseInv, [Next]_vars PROVE DenseInv'
  OBVIOUS
<1> USE DEF store, history, At, Goto, Admit
<1>1. /\ pc \in [Requests -> Labels] /\ ctx \in [Requests -> Context]
      /\ row \in [Requests -> RowType] /\ orders \subseteq Requests
      /\ \A q \in Requests : pc[q] = "insert" => ctx[q].org \in Orgs
  BY DEF Shape, TypeOK, LabelsOK, ContextOK
\* Steps that change no order's existence, number or organization.
<1> DEFINE SameNumbers == /\ orders' = orders /\ gaps' = gaps
                          /\ \A o \in Requests : /\ row'[o].org = row[o].org
                                                 /\ row'[o].number = row[o].number
           SameDraws == \A q \in Requests : pc'[q] = "insert" => pc[q] = "insert" /\ ctx'[q] = ctx[q]
<1>2. ASSUME SameNumbers, SameDraws PROVE DenseInv'
  <2>1. \A g : OrgOrders(g)' = OrgOrders(g)
    BY <1>1, <1>2 DEF OrgOrders
  <2> QED
    BY <1>1, <1>2, <2>1, DenseKept DEF OrgOrders
<1>3. ASSUME NEW r \in Requests, Arrive(r) PROVE DenseInv'
  <2>1. UNCHANGED <<store, history>>
    BY <1>3 DEF Arrive, CreateArrive, PatchArrive, StatusArrive, RemoveArrive, CustomerRemoveArrive
  <2>2. pc'[r] # "insert"
    BY <1>1, <1>3 DEF Arrive, CreateArrive, PatchArrive, StatusArrive, RemoveArrive,
                      CustomerRemoveArrive
  <2>3. \A q \in Requests \ {r} : ctx'[q] = ctx[q] /\ pc'[q] = pc[q]
    BY <1>1, <1>3 DEF Arrive, CreateArrive, PatchArrive, StatusArrive, RemoveArrive,
                      CustomerRemoveArrive
  <2> QED
    BY <1>2, <2>1, <2>2, <2>3
<1>4. ASSUME NEW r \in Requests, CreateCount(r) PROVE DenseInv'
  <2>1. \A g : OrgOrders(g)' = OrgOrders(g)
    BY <1>4 DEF CreateCount, OrgOrders
  <2>2. ctx[r].org \in Orgs /\ ctx[r] \in Context
    BY <1>1, <1>4 DEF CreateCount, Shape, LabelsOK, ContextOK
  <2>3. /\ ctx'[r].org = ctx[r].org
        /\ ctx'[r].number = Cardinality(OrgOrders(ctx[r].org)) + 1
    BY <1>1, <1>4, <2>2 DEF CreateCount, NextOrderNumber, Context
  <2>4. \A q \in Requests \ {r} : ctx'[q] = ctx[q] /\ pc'[q] = pc[q]
    BY <1>1, <1>4 DEF CreateCount
  <2>5. row' = row /\ gaps' = gaps
    BY <1>4 DEF CreateCount
  <2> QED
    BY <1>1, <2>1, <2>2, <2>3, <2>4, <2>5, DenseKept
<1>5. ASSUME NEW r \in Requests, CreateInsert(r) PROVE DenseInv'
  <2>1. CASE UNCHANGED <<orders, row>> /\ pc' = [pc EXCEPT ![r] = "refused"]
    BY <1>1, <1>2, <1>5, <2>1 DEF CreateInsert
  <2>2. CASE /\ ~NumberTaken(ctx[r].org, ctx[r].number)
             /\ orders' = orders \cup {r}
             /\ \E t : row' = [row EXCEPT ![r] = NewRow(ctx[r], t)]
             /\ pc' = [pc EXCEPT ![r] = "audit"]
    BY <1>5, <2>2, DenseInsert DEF CreateInsert
  <2> QED
    BY <1>5, <2>1, <2>2 DEF CreateInsert
<1>6. ASSUME NEW r \in Requests, PatchCheckCustomer(r) \/ AuditLog(r) \/ Crash(r) PROVE DenseInv'
  BY <1>1, <1>2, <1>6 DEF PatchCheckCustomer, AuditLog, Crash
<1>7. ASSUME NEW r \in Requests, PatchWrite(r) PROVE DenseInv'
  <2>1. SameNumbers
    BY <1>1, <1>7, PatchedRow DEF PatchWrite, Shape
  <2> QED
    BY <1>1, <1>2, <1>7, <2>1 DEF PatchWrite
<1>8. ASSUME NEW r \in Requests, StatusWrite(r) PROVE DenseInv'
  <2>1. SameNumbers
    BY <1>1, <1>8 DEF StatusWrite, RowType
  <2> QED
    BY <1>1, <1>2, <1>8, <2>1 DEF StatusWrite
<1>9. ASSUME NEW r \in Requests, RemoveDelete(r) PROVE DenseInv'
  <2>1. \A g \in Orgs \ gaps' : OrgOrders(g)' = OrgOrders(g)
    BY <1>1, <1>9 DEF RemoveDelete, OrgOrders, Owns
  <2>2. SameDraws /\ gaps \subseteq gaps' /\ row' = row
    BY <1>1, <1>9 DEF RemoveDelete
  <2> QED
    BY <1>1, <2>1, <2>2, DenseKept
<1>10. ASSUME NEW r \in Requests, CustomerDelete(r) PROVE DenseInv'
  <2>1. \A g \in Orgs \ gaps' : OrgOrders(g)' = OrgOrders(g)
    BY <1>1, <1>10 DEF CustomerDelete, OrgOrders, Cascade
  <2>2. SameDraws /\ gaps \subseteq gaps' /\ row' = row
    BY <1>1, <1>10 DEF CustomerDelete
  <2> QED
    BY <1>1, <2>1, <2>2, DenseKept
<1>11. CASE UNCHANGED vars
  BY <1>2, <1>11 DEF vars
<1> QED
  BY <1>3, <1>4, <1>5, <1>6, <1>7, <1>8, <1>9, <1>10, <1>11 DEF Next, Continue

\* What a handler is about to audit has happened, and stays so.
LEMMA AuditInvStep == Shape /\ AuditInv /\ [Next]_vars => AuditInv'
<1> SUFFICES ASSUME Shape /\ AuditInv, [Next]_vars PROVE AuditInv'
  OBVIOUS
<1> USE OrderConstants
    DEF Shape, TypeOK, LabelsOK, ContextOK, Context, Created, Ops, Labels, Blank, Locals,
        RowType, Admit, At, Goto, store, history, AuditInv
<1>1. ASSUME NEW r \in Requests, NEW g \in Orgs, NEW c \in Customers, NEW d \in CreateDtos,
            CreateArrive(r, g, c, d)
     PROVE  AuditInv'
  BY <1>1 DEF CreateArrive, CustomerInOrg
<1>2. ASSUME NEW r \in Requests, NEW g \in Orgs, NEW o \in Requests, NEW d \in PatchDtos,
            PatchArrive(r, g, o, d)
     PROVE  AuditInv'
  BY <1>2 DEF PatchArrive, Owns, OrgOrders
<1>3. ASSUME NEW r \in Requests, NEW g \in Orgs, NEW o \in Requests, NEW s \in Statuses,
            StatusArrive(r, g, o, s)
     PROVE  AuditInv'
  BY <1>3 DEF StatusArrive, Owns, OrgOrders
<1>4. ASSUME NEW r \in Requests, NEW g \in Orgs, NEW o \in Requests, RemoveArrive(r, g, o) PROVE AuditInv'
  BY <1>4 DEF RemoveArrive, Owns, OrgOrders
<1>5. ASSUME NEW r \in Requests, NEW g \in Orgs, NEW c \in Customers, CustomerRemoveArrive(r, g, c) PROVE AuditInv'
  BY <1>5 DEF CustomerRemoveArrive, CustomerInOrg
<1>6. ASSUME NEW r \in Requests, CreateCount(r) PROVE AuditInv'
  <2>1. NextOrderNumber(ctx[r].org) > 0
    BY OrgOrdersFinite DEF NextOrderNumber
  <2>2. ctx'[r].number > 0 /\ ctx'[r].op = "create" /\ pc'[r] = "insert"
    BY <1>6, <2>1 DEF CreateCount
  <2>3. \A q \in Requests \ {r} : ctx'[q] = ctx[q] /\ pc'[q] = pc[q]
    BY <1>6 DEF CreateCount
  <2>4. UNCHANGED <<store, audit, written>> /\ r \notin audit
    BY <1>6 DEF CreateCount
  <2> QED
    BY <2>2, <2>3, <2>4
<1>7. ASSUME NEW r \in Requests, CreateInsert(r) PROVE AuditInv'
  BY <1>7 DEF CreateInsert, NewRow, Row
<1>8. ASSUME NEW r \in Requests, PatchCheckCustomer(r) PROVE AuditInv'
  BY <1>8 DEF PatchCheckCustomer, CustomerInOrg
<1>9. ASSUME NEW r \in Requests, PatchWrite(r) PROVE AuditInv'
  <2>1. \A p \in Requests : row'[p].number = row[p].number
    BY <1>9, PatchedRow
  <2>2. UNCHANGED <<ctx, orders, customers, audit>> /\ written \subseteq written'
    BY <1>9 DEF PatchWrite
  <2>3. ctx[r].op = "patch" /\ r \notin audit /\ pc'[r] # "insert"
    BY <1>9 DEF PatchWrite
  <2>4. \A q \in Requests \ {r} : pc'[q] = pc[q]
    BY <1>9 DEF PatchWrite
  <2>5. pc'[r] \in {"audit", "done"} => r \in written' \/ ctx[r].order \notin orders
    BY <1>9, <2>3 DEF PatchWrite, Owns, OrgOrders
  <2> QED
    BY <2>1, <2>2, <2>3, <2>4, <2>5
<1>10. ASSUME NEW r \in Requests, StatusWrite(r) PROVE AuditInv'
  <2>1. \A p \in Requests : row'[p].number = row[p].number
    BY <1>10 DEF StatusWrite
  <2>2. UNCHANGED <<ctx, orders, customers, audit>> /\ written \subseteq written'
    BY <1>10 DEF StatusWrite
  <2>3. ctx[r].op = "status" /\ r \notin audit /\ pc'[r] = "audit"
    BY <1>10 DEF StatusWrite
  <2>4. \A q \in Requests \ {r} : pc'[q] = pc[q]
    BY <1>10 DEF StatusWrite
  <2>5. r \in written' \/ ctx[r].order \notin orders
    BY <1>10, <2>3 DEF StatusWrite, Owns, OrgOrders
  <2> QED
    BY <2>1, <2>2, <2>3, <2>4, <2>5
<1>11. ASSUME NEW r \in Requests, RemoveDelete(r) PROVE AuditInv'
  <2>1. ctx[r].op = "remove" /\ ctx[r].order \notin orders'
    BY <1>11 DEF RemoveDelete, Owns, OrgOrders
  <2>2. orders' \subseteq orders /\ UNCHANGED <<ctx, row, customers, audit, written>>
    BY <1>11 DEF RemoveDelete
  <2>3. r \notin audit /\ pc'[r] = "audit" /\ \A q \in Requests \ {r} : pc'[q] = pc[q]
    BY <1>11 DEF RemoveDelete
  <2> QED
    BY <2>1, <2>2, <2>3
<1>12. ASSUME NEW r \in Requests, CustomerDelete(r) PROVE AuditInv'
  BY <1>12 DEF CustomerDelete, Cascade
<1>13. ASSUME NEW r \in Requests, AuditLog(r) PROVE AuditInv'
  BY <1>13 DEF AuditLog
<1>14. ASSUME NEW r \in Requests, Crash(r) PROVE AuditInv'
  BY <1>14 DEF Crash
<1>15. CASE UNCHANGED vars
  BY <1>15 DEF vars
<1> QED
  BY <1>1, <1>2, <1>3, <1>4, <1>5, <1>6, <1>7, <1>8,
     <1>9, <1>10, <1>11, <1>12, <1>13, <1>14, <1>15
  DEF Next, Arrive, Continue

-----------------------------------------------------------------------------
\* The inductive invariant.
IInv == Shape /\ TenantInv /\ TotalFollowsColumns /\ DenseInv /\ AuditInv

\* A store without orders, and handlers not yet begun, satisfy every part.
LEMMA InitIInv == Init => IInv
<1> SUFFICES ASSUME Init PROVE IInv
  OBVIOUS
<1> USE OrderConstants DEF Init, Blank, Locals
<1>1. NoRow \in RowType /\ Blank \in Context
  BY DEF NoRow, Row, RowType, Context, Ops, Bodies
<1>2. TypeOK
  BY <1>1, FS_EmptySet DEF TypeOK, Labels
<1>3. LabelsOK /\ ContextOK
  BY DEF LabelsOK, ContextOK
<1>4. TenantInv /\ TotalFollowsColumns /\ AuditInv
  BY DEF TenantInv, OrdersStayInTenant, TotalFollowsColumns, AuditInv
<1>5. DenseInv
  <2>1. \A g : OrgOrders(g) = {}
    BY DEF OrgOrders
  <2>2. ASSUME NEW g \in Orgs
        PROVE  {row[o].number : o \in OrgOrders(g)} = 1..Cardinality(OrgOrders(g))
    <3>1. Cardinality(OrgOrders(g)) = 0 /\ 1..0 = {}
      <4>1. OrgOrders(g) = {}
        BY <2>1
      <4>2. Cardinality({}) = 0
        BY FS_EmptySet
      <4> QED
        BY <4>1, <4>2
    <3>2. {row[o].number : o \in OrgOrders(g)} = {}
      BY <2>1
    <3> QED
      BY <3>1, <3>2
  <2>3. NumbersAreDense
    BY <2>2 DEF NumbersAreDense
  <2> QED
    BY <2>3 DEF DenseInv
<1> QED
  BY <1>2, <1>3, <1>4, <1>5 DEF IInv, Shape

\* Every statement of every handler preserves the inductive invariant.
LEMMA StepIInv == IInv /\ [Next]_vars => IInv'
BY TypeOKStep, LabelsOKStep, ContextOKStep, TenantInvStep, TotalFollowsColumnsStep,
   DenseInvStep, AuditInvStep DEF IInv, Shape

\* IInv holds in every reachable state: what the theorems below rest on.
THEOREM Invariance == Spec => []IInv
BY InitIInv, StepIInv, PTL DEF Spec

\* The columns stay typed; in particular no total is ever negative.
THEOREM TypeCorrect == Spec => []TypeOK
<1>1. IInv => TypeOK
  BY DEF IInv, Shape
<1> QED
  BY <1>1, Invariance, PTL

\* No order is ever left without a customer of its own tenant, although handlers check
\* the customer one statement before they use it and nothing in the schema compares.
THEOREM OrdersAreTenantSafe == Spec => []OrdersStayInTenant
<1>1. IInv => OrdersStayInTenant
  BY DEF IInv, TenantInv
<1> QED
  BY <1>1, Invariance, PTL

\* Whatever patches interleave, and whatever decimals their bodies name, an order whose
\* last patch met the row it had read has the total computeTotal gives for its columns:
\* exactly, when the body that fixed it was of whole cents, and within the rounding of
\* its columns otherwise.
THEOREM TotalsAreConsistent == Spec => []TotalFollowsColumns
<1>1. IInv => TotalFollowsColumns
  BY DEF IInv
<1> QED
  BY <1>1, Invariance, PTL

\* Counting rows numbers the orders of a tenant 1, 2, 3... under any interleaving of
\* creates, as long as none of them is deleted.
THEOREM NumbersHaveNoHoles == Spec => []NumbersAreDense
<1>1. IInv => NumbersAreDense
  BY DEF IInv, DenseInv
<1> QED
  BY <1>1, Invariance, PTL

\* What the audit log says of orders has happened: creations, removals, and updates of
\* every order not deleted meanwhile.
THEOREM AuditIsTrue == Spec => []AuditTellsTruth
<1>1. IInv => AuditTellsTruth
  BY DEF IInv, Shape, TypeOK, AuditInv, AuditTellsTruth
<1> QED
  BY <1>1, Invariance, PTL

\* A step that changes or deletes an order is a step of the order's own tenant.
THEOREM TenantsAreSeparate == Spec => TenantsAreIsolated
<1> DEFINE Isolated == \A o \in Requests :
               (o \in orders /\ (o \notin orders' \/ row'[o] # row[o])) =>
                   \E r \in Requests : pc'[r] # pc[r] /\ ctx[r].org = row[o].org
<1>1. ASSUME IInv, [Next]_vars PROVE Isolated
  <2> SUFFICES ASSUME NEW o \in Requests, o \in orders, o \notin orders' \/ row'[o] # row[o]
               PROVE  \E r \in Requests : pc'[r] # pc[r] /\ ctx[r].org = row[o].org
    OBVIOUS
  <2> USE DEF At, Goto, IInv, Shape, TypeOK, Owns, OrgOrders
  <2>1. PICK r \in Requests : \/ CreateInsert(r) \/ PatchWrite(r) \/ StatusWrite(r)
                              \/ RemoveDelete(r) \/ CustomerDelete(r)
    BY <1>1 DEF Next, Arrive, Continue, CreateArrive, PatchArrive, StatusArrive, RemoveArrive,
       CustomerRemoveArrive, Admit, CreateCount, PatchCheckCustomer, AuditLog, Crash, store, vars
  <2>2. CASE CreateInsert(r)
    <3>1. r \notin orders
      BY <1>1, <2>2 DEF CreateInsert, ContextOK, Created
    <3> QED
      BY <1>1, <2>2, <3>1 DEF CreateInsert
  <2>3. CASE PatchWrite(r)
    BY <1>1, <2>3 DEF PatchWrite
  <2>4. CASE StatusWrite(r)
    BY <1>1, <2>4 DEF StatusWrite
  <2>5. CASE RemoveDelete(r)
    BY <1>1, <2>5 DEF RemoveDelete
  <2>6. CASE CustomerDelete(r)
    <3>1. row[o].customer = ctx[r].customer /\ pc'[r] # pc[r]
      BY <1>1, <2>6 DEF CustomerDelete, Cascade
    <3>2. CustomerOrg[ctx[r].customer] = ctx[r].org
      BY <1>1, <2>6 DEF CustomerDelete, LabelsOK, TenantInv
    <3>3. CustomerOrg[row[o].customer] = row[o].org
      BY <1>1 DEF TenantInv, OrdersStayInTenant
    <3> QED
      BY <3>1, <3>2, <3>3
  <2> QED
    BY <2>1, <2>2, <2>3, <2>4, <2>5, <2>6
<1> QED
  BY <1>1, Invariance, PTL DEF Spec, TenantsAreIsolated

-----------------------------------------------------------------------------
\* OrderBook implements Ledger under the mapping Promise: of the statements of all
\* handlers, each that writes an order or deletes a customer is one step of the ledger,
\* and every other is a stutter.

\* The ids whose row was written, as Promise has them.
Spent == {r \in Requests : row[r] # NoRow}

\* A row is written by the request it is named after, which is past its insert: so
\* an id about to be entered is not spent.
SpentInv == \A r \in Requests : row[r] # NoRow => Created(r)

LInv == IInv /\ SpentInv

-----------------------------------------------------------------------------
\* A request that has created its order is only going to log it.
LEMMA CreatedStays ==
    ASSUME Shape, Next, NEW o \in Requests, Created(o)
    PROVE  Created(o)'
<1>1. PICK r \in Requests : Arrive(r) \/ Continue(r) \/ Crash(r)
  BY DEF Next
<1> USE DEF Created, Shape, TypeOK, At, Goto
<1>2. CASE Arrive(r)
  BY <1>2 DEF Arrive, CreateArrive, PatchArrive, StatusArrive, RemoveArrive,
     CustomerRemoveArrive, Admit, store, history
<1>3. CASE Continue(r)
  BY <1>3 DEF Continue, CreateCount, CreateInsert, PatchCheckCustomer, PatchWrite,
     StatusWrite, RemoveDelete, CustomerDelete, AuditLog, store, history
<1>4. CASE Crash(r)
  BY <1>4 DEF Crash
<1> QED
  BY <1>1, <1>2, <1>3, <1>4

\* Only an insert, a PATCH or a change of status writes a row, and the last two write
\* rows that were inserted.
LEMMA SpentInvStep == Shape /\ SpentInv /\ Next => SpentInv'
<1> SUFFICES ASSUME Shape, SpentInv, Next, NEW o \in Requests, row'[o] # NoRow
             PROVE  Created(o)'
  BY DEF SpentInv
<1>1. CASE row[o] # NoRow
  BY <1>1, CreatedStays DEF SpentInv
<1>2. CASE row[o] = NoRow
  <2> USE DEF Shape, TypeOK, At, Goto
  <2>1. PICK r \in Requests : CreateInsert(r) \/ PatchWrite(r) \/ StatusWrite(r)
    BY <1>2 DEF Next, Arrive, Continue, CreateArrive, PatchArrive, StatusArrive, RemoveArrive,
       CustomerRemoveArrive, Admit, CreateCount, PatchCheckCustomer, RemoveDelete,
       CustomerDelete, AuditLog, Crash, store
  <2>2. CASE CreateInsert(r)
    BY <1>2, <2>2 DEF CreateInsert, LabelsOK, Created
  <2>3. CASE PatchWrite(r) \/ StatusWrite(r)
    <3>1. o = ctx[r].order /\ ctx[r].op \in {"patch", "status"}
      BY <1>2, <2>3 DEF PatchWrite, StatusWrite, LabelsOK
    <3>2. Created(o)
      BY <3>1 DEF ContextOK
    <3> QED
      BY <3>2, CreatedStays
  <2> QED
    BY <2>1, <2>2, <2>3
<1> QED
  BY <1>1, <1>2

LEMMA LInvariance == Spec => []LInv
<1>1. Init => SpentInv
  BY DEF Init, SpentInv
<1>2. IInv /\ SpentInv /\ [Next]_vars => SpentInv'
  <2>1. CASE Next
    BY <2>1, SpentInvStep DEF IInv
  <2>2. CASE UNCHANGED vars
    BY <2>2 DEF vars, store, SpentInv, Created
  <2> QED
    BY <2>1, <2>2
<1> QED
  BY <1>1, <1>2, Invariance, PTL DEF Spec, LInv

-----------------------------------------------------------------------------
\* An insert that the unique index and the foreign key let through enters the order.
LEMMA InsertEnters ==
    ASSUME LInv, NEW r \in Requests, CreateInsert(r)
    PROVE  Promise!Enter(r) \/ UNCHANGED <<customers, orders, row>>
<1> USE DEF At, Goto
<1> SUFFICES ASSUME ~NumberTaken(ctx[r].org, ctx[r].number), ctx[r].customer \in customers,
                    orders' = orders \cup {r},
                    NEW t, row' = [row EXCEPT ![r] = NewRow(ctx[r], t)]
             PROVE  Promise!Enter(r)
  BY DEF CreateInsert
<1>1. /\ ctx[r].op = "create" /\ ctx[r].org \in Orgs /\ pc[r] = "insert"
      /\ CustomerOrg[ctx[r].customer] = ctx[r].org /\ UNCHANGED customers
      /\ row \in [Requests -> RowType] /\ orders \subseteq Requests
  BY DEF CreateInsert, LInv, IInv, Shape, LabelsOK, ContextOK, TenantInv, TypeOK
<1>2. row[r] = NoRow
  BY <1>1 DEF LInv, SpentInv, Created
<1>3. r \notin orders
  BY <1>1 DEF LInv, IInv, Shape, ContextOK, Created
<1>4. /\ row'[r].org = ctx[r].org /\ row'[r].customer = ctx[r].customer
      /\ row'[r].number = ctx[r].number
  BY <1>1 DEF NewRow, Row
<1>5. \A o \in Requests \ {r} : row'[o] = row[o]
  BY <1>1
<1>6. row'[r] # NoRow
  BY <1>1, <1>4, OrderConstants DEF NoRow, Row
<1>7. Spent' = Spent \cup {r}
  BY <1>5, <1>6 DEF Spent
<1>8. \A o \in orders : row[o].org = ctx[r].org => row[o].number # ctx[r].number
  BY DEF NumberTaken, OrgOrders
<1> QED
  BY <1>1, <1>2, <1>3, <1>4, <1>5, <1>7, <1>8
     DEF Promise!Enter, Promise!KeepsBut, Promise!Sound, Promise!OfTenant, Spent

\* A write to a row of the request's tenant amends it: tenant, number and the other
\* orders stay, and so does the row's being of a client of the tenant.
LEMMA WriteAmends ==
    ASSUME LInv, NEW o \in orders, NEW x \in RowType,
           x.org = row[o].org, x.number = row[o].number,
           x.customer \in customers, CustomerOrg[x.customer] = x.org,
           row' = [row EXCEPT ![o] = x], UNCHANGED <<customers, orders>>
    PROVE  Promise!Amend(o)
<1>1. /\ row \in [Requests -> RowType] /\ orders \subseteq Requests /\ row[o].org \in Orgs
  BY DEF LInv, IInv, Shape, TypeOK, ContextOK
<1>2. \A p \in Requests \ {o} : row'[p] = row[p]
  BY <1>1
<1>3. row'[o] = x
  BY <1>1
<1>4. Spent' = Spent
  BY <1>1, <1>2, <1>3, OrderConstants DEF Spent, NoRow, Row
<1> QED
  BY <1>1, <1>2, <1>3, <1>4 DEF Promise!Amend, Promise!KeepsBut, Promise!Sound, Spent

LEMMA PatchAmends ==
    ASSUME LInv, NEW r \in Requests, PatchWrite(r)
    PROVE  (\E o \in Requests : Promise!Amend(o)) \/ UNCHANGED <<customers, orders, row>>
<1> DEFINE o == ctx[r].order
           d == ctx[r].dto
<1> USE DEF At, Goto
<1> SUFFICES ASSUME Owns(ctx[r].org, o), "customer" \in DOMAIN d => d["customer"] \in customers,
                    NEW t \in PatchTotals(r), row' = [row EXCEPT ![o] = Merge(row[o], d, t)],
                    UNCHANGED <<customers, orders>>
             PROVE  \E p \in Requests : Promise!Amend(p)
  BY DEF PatchWrite
<1> DEFINE x == Merge(row[o], d, t)
<1>1. o \in orders /\ o \in Requests /\ row[o] \in RowType /\ row[o].org = ctx[r].org
  BY DEF Owns, OrgOrders, LInv, IInv, Shape, TypeOK
<1>2. PICK b \in PatchDtos : d = Bind(b)
  BY DEF PatchWrite, LInv, IInv, Shape, LabelsOK, ContextOK
<1>3. t \in Nat
  BY PatchTotalTyped DEF PatchWrite, LInv, IInv
<1>4. x \in RowType
  BY <1>1, <1>2, <1>3, MergeTyped
<1>5. x.org = row[o].org /\ x.number = row[o].number /\ x.customer = Pick(row[o], d, "customer")
  BY DEF Merge, Row
<1>6. x.customer \in customers /\ CustomerOrg[x.customer] = x.org
  BY <1>1, <1>5 DEF Pick, Stored, Amounts, PatchWrite, LInv, IInv, TenantInv, OrdersStayInTenant
<1>7. row' = [row EXCEPT ![o] = x]
  OBVIOUS
<1> HIDE DEF x, o
<1> QED
  BY <1>1, <1>4, <1>5, <1>6, <1>7, WriteAmends

LEMMA StatusAmends ==
    ASSUME LInv, NEW r \in Requests, StatusWrite(r)
    PROVE  (\E o \in Requests : Promise!Amend(o)) \/ UNCHANGED <<customers, orders, row>>
<1> DEFINE o == ctx[r].order
           x == [row[o] EXCEPT !.status = ctx[r].dto.status]
<1> USE DEF At, Goto
<1>0. CASE ~Owns(ctx[r].org, o)
  BY <1>0 DEF StatusWrite
<1>1. CASE Owns(ctx[r].org, o)
  <2>1. row' = [row EXCEPT ![o] = x] /\ UNCHANGED <<customers, orders>>
    BY <1>1 DEF StatusWrite
  <2>2. o \in orders /\ o \in Requests /\ row[o] \in RowType
    BY <1>1 DEF Owns, OrgOrders, LInv, IInv, Shape, TypeOK
  <2>3. ctx[r].dto.status \in Statuses
    BY DEF StatusWrite, LInv, IInv, Shape, LabelsOK, ContextOK
  <2>4. /\ x \in RowType /\ x.org = row[o].org /\ x.number = row[o].number
        /\ x.customer = row[o].customer
    BY <2>2, <2>3 DEF RowType
  <2>5. x.customer \in customers /\ CustomerOrg[x.customer] = x.org
    BY <2>2, <2>4 DEF LInv, IInv, TenantInv, OrdersStayInTenant
  <2> HIDE DEF x
  <2> QED
    BY <2>1, <2>2, <2>4, <2>5, WriteAmends
<1> QED
  BY <1>0, <1>1

\* A removal strikes one order, or none when it has gone meanwhile.
LEMMA RemovalStrikes ==
    ASSUME LInv, NEW r \in Requests, RemoveDelete(r)
    PROVE  (\E o \in Requests : Promise!Strike(o)) \/ UNCHANGED <<customers, orders, row>>
<1>1. UNCHANGED <<customers, row>> /\ Spent' = Spent
  BY DEF RemoveDelete, Spent
<1>2. CASE Owns(ctx[r].org, ctx[r].order)
  <2>0. PICK o \in Requests : o = ctx[r].order
    BY <1>2 DEF Owns, OrgOrders, LInv, IInv, Shape, TypeOK
  <2>1. orders' = orders \ {o} /\ o \in orders
    BY <1>2, <2>0 DEF RemoveDelete, Owns, OrgOrders
  <2>2. Promise!Strike(o)
    BY <1>1, <2>1 DEF Promise!Strike, Promise!KeepsBut, Spent
  <2> QED
    BY <2>1, <2>2
<1>3. CASE ~Owns(ctx[r].org, ctx[r].order)
  BY <1>1, <1>3 DEF RemoveDelete
<1> QED
  BY <1>2, <1>3

\* The cascade of a customer takes its orders and no others; a customer that has gone
\* meanwhile has left none.
LEMMA DeletionDismisses ==
    ASSUME LInv, NEW r \in Requests, CustomerDelete(r)
    PROVE  (\E c \in Customers : Promise!Dismiss(c)) \/ UNCHANGED <<customers, orders, row>>
<1> DEFINE c == ctx[r].customer
<1>1. /\ customers' = customers \ {c} /\ orders' = orders \ Cascade(c) /\ UNCHANGED row
      /\ Spent' = Spent
  BY DEF CustomerDelete, Spent
<1>2. CASE c \in customers
  <2>0. PICK k \in Customers : k = c
    BY <1>2 DEF LInv, IInv, Shape, TypeOK
  <2>1. orders' = {o \in orders : row[o].customer # k}
    BY <1>1, <2>0 DEF Cascade
  <2>2. Promise!Dismiss(k)
    BY <1>1, <1>2, <2>0, <2>1 DEF Promise!Dismiss, Spent
  <2> QED
    BY <2>1, <2>2
<1>3. CASE c \notin customers
  <2>1. Cascade(c) = {}
    BY <1>3 DEF Cascade, LInv, IInv, TenantInv, OrdersStayInTenant
  <2> QED
    BY <1>1, <1>3, <2>1
<1> QED
  BY <1>2, <1>3

-----------------------------------------------------------------------------
\* Every statement is a step of the ledger or none.
LEMMA StepMaps == LInv /\ [Next]_vars => [Promise!Next]_(Promise!vars)
<1> SUFFICES ASSUME LInv, [Next]_vars PROVE Promise!Next \/ UNCHANGED Promise!vars
  OBVIOUS
<1>1. UNCHANGED <<customers, orders, row>> => UNCHANGED Promise!vars
  BY DEF Promise!vars
<1>2. CASE UNCHANGED <<customers, orders, row>>
  BY <1>1, <1>2
<1>3. ASSUME NEW r \in Requests, CreateInsert(r) PROVE Promise!Next \/ UNCHANGED Promise!vars
  BY <1>1, <1>3, InsertEnters DEF Promise!Next
<1>4. ASSUME NEW r \in Requests, PatchWrite(r) PROVE Promise!Next \/ UNCHANGED Promise!vars
  BY <1>1, <1>4, PatchAmends DEF Promise!Next
<1>5. ASSUME NEW r \in Requests, StatusWrite(r) PROVE Promise!Next \/ UNCHANGED Promise!vars
  BY <1>1, <1>5, StatusAmends DEF Promise!Next
<1>6. ASSUME NEW r \in Requests, RemoveDelete(r) PROVE Promise!Next \/ UNCHANGED Promise!vars
  BY <1>1, <1>6, RemovalStrikes DEF Promise!Next
<1>7. ASSUME NEW r \in Requests, CustomerDelete(r) PROVE Promise!Next \/ UNCHANGED Promise!vars
  BY <1>1, <1>7, DeletionDismisses DEF Promise!Next
<1>8. \/ UNCHANGED <<customers, orders, row>>
      \/ \E r \in Requests : \/ CreateInsert(r) \/ PatchWrite(r) \/ StatusWrite(r)
                             \/ RemoveDelete(r) \/ CustomerDelete(r)
  <2>1. CASE UNCHANGED vars
    BY <2>1 DEF vars, store
  <2>2. ASSUME NEW r \in Requests, Arrive(r) PROVE UNCHANGED <<customers, orders, row>>
    BY <2>2 DEF Arrive, CreateArrive, PatchArrive, StatusArrive, RemoveArrive,
       CustomerRemoveArrive, Admit, store
  <2>3. ASSUME NEW r \in Requests, Crash(r) PROVE UNCHANGED <<customers, orders, row>>
    BY <2>3 DEF Crash, store
  <2>4. ASSUME NEW r \in Requests, Continue(r)
        PROVE  \/ UNCHANGED <<customers, orders, row>>
               \/ CreateInsert(r) \/ PatchWrite(r) \/ StatusWrite(r)
               \/ RemoveDelete(r) \/ CustomerDelete(r)
    BY <2>4 DEF Continue, CreateCount, PatchCheckCustomer, AuditLog, store
  <2> QED
    BY <2>1, <2>2, <2>3, <2>4 DEF Next
<1> QED
  BY <1>2, <1>3, <1>4, <1>5, <1>6, <1>7, <1>8

\* Handlers that read, decide and write in several statements implement the ledger, for
\* any number of them, in any order, dying anywhere.
THEOREM OrderBookKeepsItsPromise == Spec => PromiseKept
<1>1. Init => Promise!Init
  BY DEF Init, Promise!Init
<1> QED
  BY <1>1, StepMaps, LInvariance, PTL DEF Spec, PromiseKept, Promise!Spec
=============================================================================
