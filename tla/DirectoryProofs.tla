-------------------------- MODULE DirectoryProofs --------------------------
(***************************************************************************)
(* Proofs about Directory, for any tenants, people, rows to begin with,    *)
(* bodies and requests.                                                    *)
(***************************************************************************)
EXTENDS Directory, TLAPS

\* The customer, or the item, was inserted, and may have gone again; what it was
\* inserted with never changes.
WasCustomer(c, g) == c \in CustomerIds /\ row[c].org = g /\ g \in Orgs
WasItem(i, g) == i \in ItemIds /\ item[i].kind # "none" /\ item[i].org = g /\ g \in Orgs

\* What a body may set.
BodyOK(d) ==
    /\ "facebookId" \in DOMAIN d => d["facebookId"] \in People \cup {None}
    /\ "agent" \in DOMAIN d => d["agent"] \in Users \cup {None}

\* The statement l a handler stands at tells its operation, and its locals c what was
\* checked before.
OpFits(c, l) ==
    /\ l = "new" => c = Blank
    /\ l # "new" => c.op # "none" /\ c.org \in Orgs
    /\ l \in {"write", "reread"} => c.op \in {"update", "assign"}
    /\ l = "setStatus" => c.op = "status"
    /\ l = "delete" => c.op = "remove"
    /\ l \in {"upsert", "checkCustomer"} => c.op \in {"extNote", "extOrder"}
    /\ l = "upsert" => c.person \in People
    /\ l = "insertNote" => c.op \in {"extNote", "createNote"}
    /\ l = "insertOrder" => c.op = "extOrder"
    /\ l \in {"editItem", "deleteItem"} => c.op \in {"edit", "removeItem"}
    /\ l \in {"checkTagged", "insertPivot"} => c.op = "attach"
    /\ l = "deletePivot" => c.op = "detach"
    /\ l = "write" => BodyOK(c.dto)
                      /\ ("agent" \in DOMAIN c.dto => AgentInOrg(c.org, c.dto["agent"]))

ContextFits(c, l) ==
    /\ c.op \in {"update", "assign", "status", "remove"} => WasCustomer(c.customer, c.org)
    /\ l \in {"insertNote", "insertOrder", "insertPivot"} => WasCustomer(c.customer, c.org)
    /\ c.op \in {"edit", "removeItem", "attach", "detach"} => WasItem(c.item, c.org)
    /\ c.op \in {"attach", "detach"} => item[c.item].kind = "tag"

\* Before a request inserts its customer or its item there is none of its name.
Fresh(r, l) ==
    /\ l \in {"new", "upsert"} => row[r].org = None
    /\ l \in {"new", "upsert", "checkCustomer", "insertNote", "insertOrder"}
          => item[r].kind = "none"

\* AuditTellsTruth, already before the audit row is written.
Truthful(r, c, l) ==
    /\ r \in audit => l = "done"
    /\ c.op \in {"update", "assign"} =>
          /\ l \in {"audit", "done"} => r \in written
          /\ l = "reread" => r \in written \/ c.customer \notin customers
    /\ l \in {"audit", "done"} =>
          /\ c.op = "create" => row[r].org = c.org
          /\ c.op = "status" => r \in written \/ c.customer \notin customers
          /\ c.op = "remove" => c.customer \notin customers
          /\ c.op = "extOrder" => item[r].kind = "order"

\* Whoever found nobody and has not been overtaken would still find nobody.
Alone(r, c, l) == l = "upsert" => r \in overtaken \/ Person(c.org, c.person) = {}

\* A request that has not begun has written no column.
Unsigned(r, l) == l = "new" => \A c \in CustomerIds : row[c].facebookName # r

RequestOK(r, c, l) ==
    /\ OpFits(c, l) /\ ContextFits(c, l) /\ Fresh(r, l)
    /\ Truthful(r, c, l) /\ Alone(r, c, l) /\ Unsigned(r, l)

RequestsOK == \A r \in Requests : RequestOK(r, ctx[r], pc[r])

RowsOK ==
    /\ \A c \in customers : row[c].org \in Orgs
    /\ \A i \in items : item[i].kind # "none" /\ item[i].org \in Orgs
    /\ \A i \in ItemIds : item[i].kind = "tag" => item[i].customer = None

Shape == TypeOK /\ RowsOK
IInv == Shape /\ ReferencesStayInTenant /\ RequestsOK /\ PlaceholdersRace

-----------------------------------------------------------------------------
\* What any step of request r does at most to what the invariant says of others: it
\* inserts under its own name what was not there, keeps tenants and kinds, signs with
\* its own name, and whoever it overtakes is noted.
Gentle(r) ==
    /\ \A q \in Requests \ {r} : pc'[q] = pc[q] /\ ctx'[q] = ctx[q]
    /\ \A c \in customers' : c \in customers \/ (c = r /\ row[r].org = None)
    /\ \A c \in CustomerIds : row'[c].org = row[c].org \/ (c = r /\ row[r].org = None)
    /\ \A c \in CustomerIds : row'[c].facebookName \in {row[c].facebookName, r}
    /\ \A i \in ItemIds : \/ item'[i].kind = item[i].kind /\ item'[i].org = item[i].org
                          \/ i = r /\ item[r].kind = "none"
    /\ audit' \subseteq audit \cup {r}
    /\ written \subseteq written' /\ overtaken \subseteq overtaken'
    /\ \A q \in Requests \ {r} : pc[q] = "upsert" /\ q \notin overtaken' =>
          Person(ctx[q].org, ctx[q].person)' \subseteq Person(ctx[q].org, ctx[q].person)

LEMMA NoneIsNoId == \A g \in Orgs : g # None
BY DirectoryConstants

\* What was inserted stays inserted, and a customer that has gone does not come back.
LEMMA WasStays ==
    ASSUME NEW r \in Requests, Gentle(r)
    PROVE  /\ \A c, g : WasCustomer(c, g) => WasCustomer(c, g)' /\ (c \in customers' => c \in customers)
           /\ \A i, g : WasItem(i, g) => WasItem(i, g)' /\ item'[i].kind = item[i].kind
BY NoneIsNoId DEF Gentle, WasCustomer, WasItem, CustomerIds, ItemIds

LEMMA OthersStayOK ==
    ASSUME RequestsOK, NEW r \in Requests, Gentle(r), NEW q \in Requests, q # r
    PROVE  RequestOK(q, ctx[q], pc[q])'
<1>1. pc'[q] = pc[q] /\ ctx'[q] = ctx[q] /\ RequestOK(q, ctx[q], pc[q])
  BY DEF Gentle, RequestsOK
<1>2. OpFits(ctx[q], pc[q])'
  BY <1>1 DEF RequestOK, OpFits
<1>3. ContextFits(ctx[q], pc[q])'
  BY <1>1, WasStays DEF RequestOK, ContextFits
<1>4. Fresh(q, pc[q])'
  BY <1>1 DEF RequestOK, Fresh, Gentle, CustomerIds, ItemIds
<1>5. Truthful(q, ctx[q], pc[q])'
  <2>1. ctx[q].op \in {"update", "assign", "status", "remove"} =>
            (ctx[q].customer \in customers' => ctx[q].customer \in customers)
    BY <1>1, WasStays DEF RequestOK, ContextFits
  <2>2. q \in audit' => q \in audit
    BY DEF Gentle
  <2>3. q \in written => q \in written'
    BY DEF Gentle
  <2>4. pc[q] \in {"audit", "done"} /\ ctx[q].op = "extOrder" => item'[q].kind = item[q].kind
    BY DEF Gentle, ItemIds
  <2>5. row'[q].org = row[q].org
    BY DEF Gentle, CustomerIds
  <2> QED
    BY <1>1, <2>1, <2>2, <2>3, <2>4, <2>5 DEF RequestOK, Truthful
<1>6. Alone(q, ctx[q], pc[q])'
  BY <1>1 DEF RequestOK, Alone, Gentle
<1>7. Unsigned(q, pc[q])'
  BY <1>1 DEF RequestOK, Unsigned, Gentle
<1> QED
  BY <1>2, <1>3, <1>4, <1>5, <1>6, <1>7 DEF RequestOK

LEMMA RequestsStayOK ==
    ASSUME RequestsOK, NEW r \in Requests, Gentle(r), RequestOK(r, ctx[r], pc[r])'
    PROVE  RequestsOK'
BY OthersStayOK DEF RequestsOK

-----------------------------------------------------------------------------
LEMMA InitInv == Init => IInv
<1> SUFFICES ASSUME Init PROVE IInv
  OBVIOUS
<1>1. TypeOK
  BY DirectoryConstants DEF Init, TypeOK, Labels, Context, Blank, Locals, Ops, RowType,
     ItemType, Customer, Item, CustomerIds, ItemIds
<1>2. RowsOK
  BY DirectoryConstants DEF Init, RowsOK, Customer, Item, CustomerIds, ItemIds
<1>3. ReferencesStayInTenant
  BY DirectoryConstants DEF Init, ReferencesStayInTenant, Customer, Item, CustomerIds, ItemIds
<1>4. RequestsOK
  BY DirectoryConstants DEF Init, RequestsOK, RequestOK, OpFits, ContextFits, Fresh, Truthful,
     Alone, Unsigned, Blank, Locals, Customer, Item, CustomerIds, ItemIds
<1>5. PlaceholdersRace
  BY DEF Init, PlaceholdersRace, Blank, Locals
<1> QED
  BY <1>1, <1>2, <1>3, <1>4, <1>5 DEF IInv, Shape

\* A step that writes no table, of a request that arrives or stays at its locals.
LEMMA QuietInv ==
    ASSUME IInv, NEW r \in Requests, NEW c \in Context, NEW l \in Labels,
           pc' = [pc EXCEPT ![r] = l], ctx' = [ctx EXCEPT ![r] = c],
           pc[r] = "new" \/ c = ctx[r],
           UNCHANGED <<tables, history>>, audit' \subseteq audit \cup {r},
           RequestOK(r, ctx[r], pc[r])'
    PROVE  IInv'
<1>1. TypeOK /\ RowsOK /\ ReferencesStayInTenant /\ RequestsOK /\ PlaceholdersRace
  BY DEF IInv, Shape
<1>2. pc'[r] = l /\ ctx'[r] = c /\ \A q \in Requests \ {r} : pc'[q] = pc[q] /\ ctx'[q] = ctx[q]
  BY <1>1 DEF TypeOK
<1>3. TypeOK'
  BY <1>1 DEF TypeOK, tables, history
<1>4. RowsOK' /\ ReferencesStayInTenant'
  BY <1>1 DEF RowsOK, ReferencesStayInTenant, tables
<1>5. Gentle(r)
  BY <1>2 DEF Gentle, Person, tables, history
<1>6. RequestsOK'
  BY <1>1, <1>5, RequestsStayOK
<1>7. PlaceholdersRace'
  <2>1. ctx'[r].op = ctx[r].op \/ \A k \in CustomerIds : row[k].facebookName # r
    BY <1>1, <1>2 DEF RequestsOK, RequestOK, Unsigned
  <2> QED
    BY <1>1, <1>2, <2>1 DEF PlaceholdersRace, TypeOK, tables, history
<1> QED
  BY <1>3, <1>4, <1>6, <1>7 DEF IInv, Shape

\* A step that only moves customers: what it must show.
LEMMA CustomersInv ==
    ASSUME IInv, NEW r \in Requests, Gentle(r), RequestOK(r, ctx[r], pc[r])',
           TypeOK', UNCHANGED <<items, item, pivots>>,
           \A c \in customers' : row'[c].org \in Orgs,
           \A c \in customers' : row'[c].agent # None => UserOrg[row'[c].agent] = row'[c].org,
           customers \subseteq customers', PlaceholdersRace'
    PROVE  IInv'
<1>1. RowsOK /\ ReferencesStayInTenant /\ RequestsOK /\ TypeOK
  BY DEF IInv, Shape
<1>2. RequestsOK'
  BY <1>1, RequestsStayOK
<1>3. RowsOK'
  BY <1>1 DEF RowsOK
<1>4. \A c \in customers : row'[c].org = row[c].org
  BY <1>1, NoneIsNoId DEF RowsOK, Gentle, TypeOK
<1>5. ReferencesStayInTenant'
  <2>1. \A p \in pivots : p[1] \in customers
    BY <1>1 DEF TypeOK
  <2>2. \A p \in pivots : item[p[2]].kind = "tag" /\ item[p[2]].org = row'[p[1]].org
    BY <1>1, <1>4, <2>1 DEF ReferencesStayInTenant
  <2>3. \A i \in items : item[i].kind \in {"note", "order"} =>
            item[i].customer \in customers' /\ row'[item[i].customer].org = item[i].org
    BY <1>1, <1>4 DEF ReferencesStayInTenant
  <2> QED
    BY <2>2, <2>3 DEF ReferencesStayInTenant
<1> QED
  BY <1>2, <1>3, <1>5 DEF IInv, Shape

\* A request that inserts its customer: g's person f, seen by everybody who looks.
LEMMA InsertCustomerInv ==
    ASSUME IInv, NEW r \in Requests, NEW g \in Orgs, NEW f \in People \cup {None},
           NEW a \in Users \cup {None}, AgentInOrg(g, a),
           NEW c \in Context, NEW l \in Labels,
           pc[r] = "new" \/ pc[r] = "upsert", pc[r] = "new" \/ c.op = ctx[r].op,
           pc' = [pc EXCEPT ![r] = l], ctx' = [ctx EXCEPT ![r] = c],
           customers' = customers \cup {r}, row' = [row EXCEPT ![r] = Customer(g, f, a, r, r)],
           overtaken \subseteq overtaken', overtaken' \subseteq Requests,
           \A q \in Unsynced(g, f) \ {r} : q \in overtaken',
           UNCHANGED <<items, item, pivots, audit, written>>,
           RequestOK(r, ctx[r], pc[r])'
    PROVE  IInv'
<1>1. TypeOK /\ RowsOK /\ ReferencesStayInTenant /\ RequestsOK /\ PlaceholdersRace
  BY DEF IInv, Shape
<1>2. /\ pc'[r] = l /\ ctx'[r] = c /\ \A q \in Requests \ {r} : pc'[q] = pc[q] /\ ctx'[q] = ctx[q]
      /\ row'[r] = Customer(g, f, a, r, r) /\ \A k \in CustomerIds \ {r} : row'[k] = row[k]
      /\ r \in CustomerIds /\ row[r].org = None
  BY <1>1 DEF TypeOK, CustomerIds, RequestsOK, RequestOK, Fresh
<1>3. row'[r].org = g /\ row'[r].facebookId = f /\ row'[r].agent = a /\ row'[r].facebookName = r
  BY <1>2 DEF Customer
<1>4. TypeOK'
  <2>1. Customer(g, f, a, r, r) \in RowType
    BY <1>2 DEF Customer, RowType
  <2>2. row' \in [CustomerIds -> RowType] /\ pc' \in [Requests -> Labels] /\ ctx' \in [Requests -> Context]
    BY <1>1, <2>1 DEF TypeOK
  <2> QED
    BY <1>1, <1>2, <2>2 DEF TypeOK
<1>5. Gentle(r)
  <2>1. \A q \in Requests \ {r} : pc[q] = "upsert" /\ q \notin overtaken' =>
          Person(ctx[q].org, ctx[q].person)' \subseteq Person(ctx[q].org, ctx[q].person)
    <3> SUFFICES ASSUME NEW q \in Requests \ {r}, pc[q] = "upsert", q \notin overtaken',
                        NEW k \in Person(ctx[q].org, ctx[q].person)'
                 PROVE  k \in Person(ctx[q].org, ctx[q].person)
      OBVIOUS
    <3>1. ctx[q].org # g \/ ctx[q].person # f
      BY DEF Unsynced
    <3>2. k # r
      BY <1>2, <1>3, <3>1 DEF Person
    <3>3. k \in customers /\ row'[k] = row[k]
      BY <1>1, <1>2, <3>2 DEF Person, TypeOK
    <3> QED
      BY <1>2, <3>3 DEF Person
  <2> QED
    BY <1>1, <1>2, <1>3, <2>1 DEF Gentle
<1>6. \A k \in customers' : row'[k].org \in Orgs
  BY <1>1, <1>2, <1>3 DEF RowsOK, TypeOK
<1>7. \A k \in customers' : row'[k].agent # None => UserOrg[row'[k].agent] = row'[k].org
  BY <1>1, <1>2, <1>3 DEF ReferencesStayInTenant, TypeOK, AgentInOrg
<1>8. PlaceholdersRace'
  <2> SUFFICES ASSUME NEW k \in customers', NEW q \in Requests, q = row'[k].facebookName, q # k,
                      ctx'[q].op \in {"extNote", "extOrder"}
               PROVE  q \in overtaken'
    BY DEF PlaceholdersRace
  <2>1. k # r /\ k \in customers /\ row'[k] = row[k] /\ k \in CustomerIds
    BY <1>1, <1>2, <1>3 DEF TypeOK
  <2>2. CASE q = r
    BY <1>1, <1>2, <2>1, <2>2 DEF RequestsOK, RequestOK, Unsigned, PlaceholdersRace
  <2>3. CASE q # r
    BY <1>1, <1>2, <2>1, <2>3 DEF PlaceholdersRace
  <2> QED
    BY <2>2, <2>3
<1> QED
  BY <1>4, <1>5, <1>6, <1>7, <1>8, CustomersInv

LEMMA CreateCustomerInv ==
    ASSUME IInv, NEW r \in Requests, NEW g \in Orgs, NEW f \in People \cup {None},
           NEW a \in Users \cup {None}, CreateCustomer(r, g, f, a)
    PROVE  IInv'
<1> DEFINE c == Locals("create", g, r, None, None, f)
<1>1. /\ pc[r] = "new" /\ pc' = [pc EXCEPT ![r] = "audit"] /\ ctx' = [ctx EXCEPT ![r] = c]
      /\ AgentInOrg(g, a) /\ customers' = customers \cup {r}
      /\ row' = [row EXCEPT ![r] = Customer(g, f, a, r, r)]
      /\ overtaken' = overtaken \cup Unsynced(g, f)
      /\ UNCHANGED <<items, item, pivots, audit, written>>
  BY DEF CreateCustomer, Begin, Goto
<1>2. c \in Context /\ c.op = "create" /\ c.org = g
  BY DEF Locals, Context, Ops, CustomerIds
<1>3. TypeOK /\ RequestOK(r, ctx[r], pc[r])
  BY DEF IInv, Shape, RequestsOK
<1>4. ctx'[r] = c /\ pc'[r] = "audit" /\ row'[r].org = g
  BY <1>1, <1>3 DEF TypeOK, Customer, CustomerIds
<1>5. RequestOK(r, ctx[r], pc[r])'
  BY <1>1, <1>2, <1>3, <1>4 DEF RequestOK, OpFits, ContextFits, Fresh, Truthful, Alone, Unsigned
<1>6. overtaken' \subseteq Requests
  BY <1>1, <1>3 DEF TypeOK, Unsynced
<1> HIDE DEF c
<1> QED
  BY <1>1, <1>2, <1>5, <1>6, InsertCustomerInv DEF Labels

\* A request that amends rows of customers, and moves on with its own locals.
LEMMA AmendCustomersInv ==
    ASSUME IInv, NEW r \in Requests, NEW l \in Labels, NEW c \in Context,
           c.op = ctx[r].op \/ pc[r] = "new",
           pc' = [pc EXCEPT ![r] = l], ctx' = [ctx EXCEPT ![r] = c],
           row' \in [CustomerIds -> RowType],
           \A k \in CustomerIds : row'[k].org = row[k].org /\ row'[k].facebookName \in {row[k].facebookName, r},
           \A k \in customers : row'[k].agent # None => UserOrg[row'[k].agent] = row'[k].org,
           \A k \in customers : row'[k].facebookName = r /\ ctx'[r].op \in {"extNote", "extOrder"} =>
               r \in overtaken' \/ row'[k].facebookName = row[k].facebookName,
           \A q \in Requests \ {r} : pc[q] = "upsert" /\ q \notin overtaken' =>
               Person(ctx[q].org, ctx[q].person)' \subseteq Person(ctx[q].org, ctx[q].person),
           overtaken \subseteq overtaken', overtaken' \subseteq Requests,
           written \subseteq written', written' \subseteq Requests,
           UNCHANGED <<customers, items, item, pivots, audit>>,
           RequestOK(r, ctx[r], pc[r])'
    PROVE  IInv'
<1>1. TypeOK /\ RowsOK /\ ReferencesStayInTenant /\ RequestsOK /\ PlaceholdersRace
  BY DEF IInv, Shape
<1>2. pc'[r] = l /\ ctx'[r] = c /\ \A q \in Requests \ {r} : pc'[q] = pc[q] /\ ctx'[q] = ctx[q]
  BY <1>1 DEF TypeOK
<1>3. TypeOK'
  BY <1>1 DEF TypeOK
<1>4. Gentle(r)
  BY <1>2 DEF Gentle
<1>5. \A k \in customers' : row'[k].org \in Orgs
  BY <1>1 DEF RowsOK, TypeOK
<1>6. PlaceholdersRace'
  <2> SUFFICES ASSUME NEW k \in customers, NEW q \in Requests, q = row'[k].facebookName, q # k,
                      ctx'[q].op \in {"extNote", "extOrder"}
               PROVE  q \in overtaken'
    BY DEF PlaceholdersRace
  <2>0. k \in CustomerIds
    BY <1>1 DEF TypeOK
  <2>1. CASE q # r
    BY <1>1, <1>2, <2>0, <2>1 DEF PlaceholdersRace
  <2>2. CASE q = r /\ row'[k].facebookName = row[k].facebookName
    <3>1. row[k].facebookName = r
      BY <2>2
    <3>2. pc[r] # "new"
      BY <1>1, <2>0, <3>1 DEF RequestsOK, RequestOK, Unsigned
    <3>3. ctx[r].op = ctx'[r].op
      BY <1>2, <3>2
    <3>4. r \in overtaken
      BY <1>1, <2>2, <3>1, <3>3 DEF PlaceholdersRace
    <3> QED
      BY <2>2, <3>4
  <2>3. CASE q = r /\ row'[k].facebookName # row[k].facebookName
    BY <1>2, <2>0, <2>3
  <2> QED
    BY <2>1, <2>2, <2>3
<1> QED
  BY <1>3, <1>4, <1>5, <1>6, CustomersInv

\* The columns of a body over a row of the tenant.
LEMMA PatchedTyped ==
    ASSUME NEW x \in RowType, NEW d, BodyOK(d), NEW r \in Requests
    PROVE  /\ Patched(x, d, r) \in RowType
           /\ Patched(x, d, r).org = x.org
           /\ Patched(x, d, r).agent = (IF "agent" \in DOMAIN d THEN d["agent"] ELSE x.agent)
           /\ Patched(x, d, r).facebookId = (IF "facebookId" \in DOMAIN d THEN d["facebookId"]
                                             ELSE x.facebookId)
           /\ Patched(x, d, r).facebookName \in {x.facebookName, r}
BY DEF Patched, Customer, RowType, BodyOK, CustomerIds

LEMMA CustomerWriteInv ==
    ASSUME IInv, NEW r \in Requests, CustomerWrite(r)
    PROVE  IInv'
<1> DEFINE c == ctx[r].customer
           g == ctx[r].org
           d == ctx[r].dto
           f == IF "facebookId" \in DOMAIN d THEN d["facebookId"] ELSE None
<1>1. TypeOK /\ RowsOK /\ ReferencesStayInTenant /\ RequestOK(r, ctx[r], pc[r])
  BY DEF IInv, Shape, RequestsOK
<1>2. /\ pc[r] = "write" /\ ctx[r].op \in {"update", "assign"} /\ BodyOK(d)
      /\ "agent" \in DOMAIN d => AgentInOrg(g, d["agent"])
      /\ WasCustomer(c, g) /\ ctx[r] \in Context /\ ctx' = [ctx EXCEPT ![r] = ctx[r]]
      /\ UNCHANGED <<customers, items, item, pivots, audit>>
  BY <1>1 DEF CustomerWrite, At, RequestOK, OpFits, ContextFits, TypeOK
<1>3. CASE /\ ~CustomerInOrg(g, c) /\ Goto(r, "reread") /\ UNCHANGED <<row, history>>
  <2>1. c \notin customers
    BY <1>2, <1>3 DEF CustomerInOrg, WasCustomer
  <2>2. pc'[r] = "reread" /\ ctx'[r] = ctx[r]
    BY <1>1, <1>2, <1>3 DEF TypeOK, Goto
  <2>3. RequestOK(r, ctx[r], pc[r])'
    BY <1>1, <1>2, <1>3, <2>1, <2>2 DEF RequestOK, OpFits, ContextFits, Fresh, Truthful, Alone,
       Unsigned, WasCustomer, WasItem, history
  <2> QED
    BY <1>2, <1>3, <2>3, QuietInv DEF Goto, Labels, tables
<1>4. CASE /\ Goto(r, "refused") /\ UNCHANGED <<row, history>>
  <2>1. pc'[r] = "refused" /\ ctx'[r] = ctx[r]
    BY <1>1, <1>2, <1>4 DEF TypeOK, Goto
  <2>2. RequestOK(r, ctx[r], pc[r])'
    BY <1>1, <1>2, <1>4, <2>1 DEF RequestOK, OpFits, ContextFits, Fresh, Truthful, Alone,
       Unsigned, WasCustomer, WasItem, history
  <2> QED
    BY <1>2, <1>4, <2>2, QuietInv DEF Goto, Labels, tables
<1>5. CASE /\ CustomerInOrg(g, c)
           /\ f # None => Person(g, f) \subseteq {c}
           /\ row' = [row EXCEPT ![c] = Patched(row[c], d, r)]
           /\ written' = written \cup {r}
           /\ overtaken' = overtaken \cup Unsynced(g, f)
           /\ Goto(r, "reread")
  <2>1. /\ c \in customers /\ c \in CustomerIds /\ row[c] \in RowType /\ row[c].org = g
        /\ row'[c] = Patched(row[c], d, r) /\ \A k \in CustomerIds \ {c} : row'[k] = row[k]
    BY <1>1, <1>5 DEF CustomerInOrg, TypeOK
  <2>2. /\ row' \in [CustomerIds -> RowType]
        /\ \A k \in CustomerIds : row'[k].org = row[k].org /\ row'[k].facebookName \in {row[k].facebookName, r}
    BY <1>1, <1>2, <1>5, <2>1, PatchedTyped DEF TypeOK
  <2>3. \A k \in customers : row'[k].agent # None => UserOrg[row'[k].agent] = row'[k].org
    <3>1. row'[c].agent # None => UserOrg[row'[c].agent] = row'[c].org
      BY <1>1, <1>2, <2>1, PatchedTyped DEF ReferencesStayInTenant, AgentInOrg
    <3> QED
      BY <1>1, <2>1, <3>1 DEF ReferencesStayInTenant, TypeOK
  <2>4. \A q \in Requests \ {r} : pc[q] = "upsert" /\ q \notin overtaken' =>
            Person(ctx[q].org, ctx[q].person)' \subseteq Person(ctx[q].org, ctx[q].person)
    <3> SUFFICES ASSUME NEW q \in Requests \ {r}, pc[q] = "upsert", q \notin overtaken',
                        NEW k \in Person(ctx[q].org, ctx[q].person)'
                 PROVE  k \in Person(ctx[q].org, ctx[q].person)
      OBVIOUS
    <3>1. /\ ctx'[q] = ctx[q] /\ k \in customers /\ k \in CustomerIds
          /\ row'[k].org = ctx[q].org /\ row'[k].facebookId = ctx[q].person
      BY <1>1, <1>2 DEF Person, TypeOK
    <3>2. ctx[q].org # g \/ ctx[q].person # f
      BY <1>5 DEF Unsynced
    <3>3. CASE k = c
      BY <1>2, <2>1, <3>1, <3>2, <3>3, PatchedTyped DEF Person
    <3>4. CASE k # c
      BY <2>1, <3>1, <3>4 DEF Person
    <3> QED
      BY <3>3, <3>4
  <2>5. overtaken' \subseteq Requests
    BY <1>1, <1>5 DEF TypeOK, Unsynced
  <2>6. pc'[r] = "reread" /\ ctx'[r] = ctx[r]
    BY <1>1, <1>2, <1>5 DEF TypeOK, Goto
  <2>7. RequestOK(r, ctx[r], pc[r])'
    BY <1>1, <1>2, <1>5, <2>2, <2>6 DEF RequestOK, OpFits, ContextFits, Fresh, Truthful, Alone,
       Unsigned, WasCustomer, WasItem
  <2> HIDE DEF d, f, g, c
  <2>8. written' \subseteq Requests /\ written \subseteq written' /\ overtaken \subseteq overtaken'
    BY <1>1, <1>5 DEF TypeOK
  <2> QED
    BY <1>2, <1>5, <2>2, <2>3, <2>4, <2>5, <2>6, <2>7, <2>8, AmendCustomersInv DEF Goto, Labels
<1> QED
  BY <1>3, <1>4, <1>5 DEF CustomerWrite

LEMMA StatusWriteInv ==
    ASSUME IInv, NEW r \in Requests, StatusWrite(r)
    PROVE  IInv'
<1> DEFINE c == ctx[r].customer
           g == ctx[r].org
<1>1. TypeOK /\ RowsOK /\ ReferencesStayInTenant /\ RequestOK(r, ctx[r], pc[r])
  BY DEF IInv, Shape, RequestsOK
<1>2. /\ pc[r] = "setStatus" /\ ctx[r].op = "status" /\ WasCustomer(c, g)
      /\ ctx[r] \in Context /\ ctx' = [ctx EXCEPT ![r] = ctx[r]] /\ pc' = [pc EXCEPT ![r] = "audit"]
      /\ UNCHANGED <<customers, items, item, pivots, audit, overtaken>>
      /\ row' = row \/ row' = [row EXCEPT ![c].crm = r]
      /\ written' \in {written, written \cup {r}} /\ (r \in written' \/ c \notin customers)
  <2>1. /\ pc[r] = "setStatus" /\ ctx[r].op = "status" /\ WasCustomer(c, g)
        /\ ctx[r] \in Context /\ ctx' = [ctx EXCEPT ![r] = ctx[r]]
    BY <1>1 DEF StatusWrite, At, RequestOK, OpFits, ContextFits, TypeOK
  <2>2. ~CustomerInOrg(g, c) => c \notin customers
    BY <2>1 DEF CustomerInOrg, WasCustomer
  <2> QED
    BY <2>1, <2>2 DEF StatusWrite, At, Goto
<1>3. /\ row' \in [CustomerIds -> RowType]
      /\ \A k \in CustomerIds : /\ row'[k].org = row[k].org /\ row'[k].agent = row[k].agent
                                /\ row'[k].facebookName = row[k].facebookName
                                /\ row'[k].facebookId = row[k].facebookId
  BY <1>1, <1>2 DEF TypeOK, RowType, WasCustomer, CustomerIds
<1>4. pc'[r] = "audit" /\ ctx'[r] = ctx[r] /\ \A q \in Requests : ctx'[q] = ctx[q]
  BY <1>1, <1>2 DEF TypeOK
<1>5. RequestOK(r, ctx[r], pc[r])'
  BY <1>1, <1>2, <1>3, <1>4 DEF RequestOK, OpFits, ContextFits, Fresh, Truthful, Alone, Unsigned,
     WasCustomer, WasItem
<1>6. \A q \in Requests : Person(ctx[q].org, ctx[q].person)' \subseteq Person(ctx[q].org, ctx[q].person)
  BY <1>1, <1>2, <1>3, <1>4 DEF Person, TypeOK
<1>7. \A k \in customers : row'[k].agent # None => UserOrg[row'[k].agent] = row'[k].org
  BY <1>1, <1>3 DEF ReferencesStayInTenant, TypeOK
<1>8. overtaken' \subseteq Requests /\ written' \subseteq Requests
      /\ \A k \in customers : row'[k].facebookName = row[k].facebookName
  BY <1>1, <1>2, <1>3 DEF TypeOK, history
<1> HIDE DEF c, g
<1> QED
  BY <1>2, <1>3, <1>5, <1>6, <1>7, <1>8, AmendCustomersInv DEF Labels

\* The update branch of an upsert refreshes the live fields of one person.
LEMMA RefreshInv ==
    ASSUME IInv, NEW r \in Requests, NEW c \in Context, NEW l \in Labels,
           NEW found \in SUBSET customers,
           c.op = ctx[r].op \/ pc[r] = "new",
           c.op \in {"extNote", "extOrder"} => r \in overtaken,
           pc' = [pc EXCEPT ![r] = l], ctx' = [ctx EXCEPT ![r] = c],
           row' = [k \in CustomerIds |-> IF k \in found THEN Refreshed(row[k], r) ELSE row[k]],
           UNCHANGED <<customers, items, item, pivots, audit, history>>,
           RequestOK(r, ctx[r], pc[r])'
    PROVE  IInv'
<1>1. TypeOK /\ ReferencesStayInTenant
  BY DEF IInv, Shape
<1>2. /\ row' \in [CustomerIds -> RowType]
      /\ \A k \in CustomerIds : /\ row'[k].org = row[k].org /\ row'[k].agent = row[k].agent
                                /\ row'[k].facebookId = row[k].facebookId
                                /\ row'[k].facebookName \in {row[k].facebookName, r}
  BY <1>1 DEF TypeOK, RowType, Refreshed, CustomerIds
<1>3. \A q \in Requests \ {r} : ctx'[q] = ctx[q]
  BY <1>1 DEF TypeOK
<1>4. \A q \in Requests \ {r} : Person(ctx[q].org, ctx[q].person)' \subseteq Person(ctx[q].org, ctx[q].person)
  BY <1>1, <1>2, <1>3 DEF Person, TypeOK
<1>5. \A k \in customers : row'[k].agent # None => UserOrg[row'[k].agent] = row'[k].org
  BY <1>1, <1>2 DEF ReferencesStayInTenant, TypeOK
<1>6. overtaken' \subseteq Requests /\ written' \subseteq Requests /\ ctx'[r] = c
  BY <1>1 DEF TypeOK, history
<1> QED
  BY <1>2, <1>4, <1>5, <1>6, AmendCustomersInv DEF history

LEMMA SyncInv ==
    ASSUME IInv, NEW r \in Requests, NEW g \in Orgs, NEW f \in People, Sync(r, g, f)
    PROVE  IInv'
<1> DEFINE c == Locals("sync", g, None, None, None, f)
<1>1. /\ pc[r] = "new" /\ pc' = [pc EXCEPT ![r] = "done"] /\ ctx' = [ctx EXCEPT ![r] = c]
      /\ UpsertPerson(r, g, f) /\ UNCHANGED <<items, item, pivots, audit, written>>
  BY DEF Sync, Begin, Goto, UpsertPerson
<1>2. c \in Context /\ c.op = "sync" /\ c.org = g
  BY DEF Locals, Context, Ops, CustomerIds
<1>3. TypeOK /\ RequestOK(r, ctx[r], pc[r])
  BY DEF IInv, Shape, RequestsOK
<1>4. ctx'[r] = c /\ pc'[r] = "done"
  BY <1>1, <1>3 DEF TypeOK
<1>5. RequestOK(r, ctx[r], pc[r])'
  BY <1>1, <1>2, <1>3, <1>4 DEF RequestOK, OpFits, ContextFits, Fresh, Truthful, Alone, Unsigned
<1> HIDE DEF c
<1>6. CASE /\ customers' = customers \cup {r} /\ row' = [row EXCEPT ![r] = Customer(g, f, None, r, r)]
           /\ overtaken' = overtaken \cup (Unsynced(g, f) \ {r})
  <2>1. overtaken' \subseteq Requests /\ AgentInOrg(g, None)
    BY <1>3, <1>6 DEF TypeOK, Unsynced, AgentInOrg
  <2> QED
    BY <1>1, <1>2, <1>5, <1>6, <2>1, InsertCustomerInv DEF Labels
<1>7. CASE /\ row' = [k \in CustomerIds |-> IF k \in Person(g, f) THEN Refreshed(row[k], r) ELSE row[k]]
           /\ UNCHANGED <<customers, overtaken>>
  <2>1. Person(g, f) \in SUBSET customers
    BY DEF Person
  <2> QED
    BY <1>1, <1>2, <1>5, <1>7, <2>1, RefreshInv DEF Labels, history
<1> QED
  BY <1>1, <1>6, <1>7 DEF UpsertPerson

LEMMA ResolveUpsertInv ==
    ASSUME IInv, NEW r \in Requests, ResolveUpsert(r)
    PROVE  IInv'
<1> DEFINE g == ctx[r].org
           f == ctx[r].person
<1>1. TypeOK /\ RequestOK(r, ctx[r], pc[r])
  BY DEF IInv, Shape, RequestsOK
<1>2. /\ pc[r] = "upsert" /\ ctx[r].op \in {"extNote", "extOrder"} /\ g \in Orgs /\ f \in People
      /\ (r \in overtaken \/ Person(g, f) = {}) /\ r \notin audit
  BY <1>1 DEF ResolveUpsert, At, RequestOK, OpFits, Alone, Truthful
<1>3. PICK k \in (IF Person(g, f) = {} THEN {r} ELSE Person(g, f)) : ctx' = [ctx EXCEPT ![r].customer = k]
  BY DEF ResolveUpsert
<1> DEFINE c == [ctx[r] EXCEPT !.customer = k]
<1>4. k \in CustomerIds
  BY <1>1, <1>3 DEF Person, TypeOK, CustomerIds
<1>5. c \in Context /\ c.op = ctx[r].op /\ c.org = g /\ ctx' = [ctx EXCEPT ![r] = c]
  BY <1>1, <1>3, <1>4 DEF TypeOK, Context
<1>6. /\ pc' = [pc EXCEPT ![r] = "checkCustomer"] /\ UpsertPerson(r, g, f)
      /\ UNCHANGED <<items, item, pivots, audit, written>>
  BY DEF ResolveUpsert, Goto, UpsertPerson
<1>7. ctx'[r] = c /\ pc'[r] = "checkCustomer"
  BY <1>1, <1>5, <1>6 DEF TypeOK
<1> HIDE DEF c
<1>8. RequestOK(r, ctx[r], pc[r])'
  BY <1>1, <1>2, <1>5, <1>6, <1>7 DEF RequestOK, OpFits, ContextFits, Fresh, Truthful, Alone, Unsigned
<1>9. CASE /\ customers' = customers \cup {r} /\ row' = [row EXCEPT ![r] = Customer(g, f, None, r, r)]
           /\ overtaken' = overtaken \cup (Unsynced(g, f) \ {r})
  <2>1. overtaken' \subseteq Requests /\ AgentInOrg(g, None)
    BY <1>1, <1>9 DEF TypeOK, Unsynced, AgentInOrg
  <2> QED
    BY <1>2, <1>5, <1>6, <1>8, <1>9, <2>1, InsertCustomerInv DEF Labels
<1>10. CASE /\ Person(g, f) # {}
            /\ row' = [m \in CustomerIds |-> IF m \in Person(g, f) THEN Refreshed(row[m], r) ELSE row[m]]
            /\ UNCHANGED <<customers, overtaken>>
  <2>1. Person(g, f) \in SUBSET customers
    BY DEF Person
  <2> QED
    BY <1>2, <1>5, <1>6, <1>8, <1>10, <2>1, RefreshInv DEF Labels, history
<1> QED
  BY <1>6, <1>9, <1>10 DEF UpsertPerson

\* A removal takes along what the customer's tenant has of it.
LEMMA RemoveDeleteInv ==
    ASSUME IInv, NEW r \in Requests, RemoveDelete(r)
    PROVE  IInv'
<1> DEFINE gone == {c \in {ctx[r].customer} : CustomerInOrg(ctx[r].org, c)}
<1>1. TypeOK /\ RowsOK /\ ReferencesStayInTenant /\ RequestsOK /\ PlaceholdersRace
      /\ RequestOK(r, ctx[r], pc[r])
  BY DEF IInv, Shape, RequestsOK
<1>2. /\ pc[r] = "delete" /\ pc' = [pc EXCEPT ![r] = "audit"]
      /\ customers' = customers \ gone /\ items' = items \ CascadeItems(gone)
      /\ pivots' = pivots \ CascadePivots(gone)
      /\ UNCHANGED <<ctx, row, item, audit, history>>
  BY DEF RemoveDelete, At, Goto
<1>3. /\ ctx[r].op = "remove" /\ WasCustomer(ctx[r].customer, ctx[r].org) /\ pc'[r] = "audit"
      /\ ctx[r].customer \notin customers' /\ \A q \in Requests \ {r} : pc'[q] = pc[q]
  BY <1>1, <1>2 DEF RequestOK, OpFits, ContextFits, WasCustomer, CustomerInOrg, TypeOK
<1> HIDE DEF gone
<1>4. TypeOK'
  <2>1. pc' \in [Requests -> Labels]
    BY <1>1, <1>2 DEF TypeOK, Labels
  <2>2. ASSUME NEW p \in pivots' PROVE p \in customers' \X items'
    <3>1. p \in customers \X items /\ p[1] \notin gone
      BY <1>1, <1>2 DEF TypeOK, CascadePivots
    <3>2. item[p[2]].kind = "tag" /\ p[2] \in ItemIds
      BY <1>1, <1>2, <3>1 DEF ReferencesStayInTenant, TypeOK
    <3>3. item[p[2]].customer = None
      BY <1>1, <3>2 DEF RowsOK
    <3>4. None \notin gone
      BY <1>1, <1>3, DirectoryConstants DEF gone, WasCustomer, CustomerIds
    <3> QED
      BY <1>2, <3>1, <3>3, <3>4 DEF CascadeItems
  <2>3. pivots' \subseteq customers' \X items'
    BY <2>2
  <2> QED
    BY <1>1, <1>2, <2>1, <2>3 DEF TypeOK, history
<1>5. RowsOK'
  BY <1>1, <1>2 DEF RowsOK
<1>6. ReferencesStayInTenant'
  BY <1>1, <1>2 DEF ReferencesStayInTenant, CascadeItems
<1>7. Gentle(r)
  BY <1>1, <1>2, <1>3 DEF Gentle, Person, TypeOK, history
<1>8. RequestOK(r, ctx[r], pc[r])'
  BY <1>1, <1>2, <1>3 DEF RequestOK, OpFits, ContextFits, Fresh, Truthful, Alone, Unsigned,
     WasCustomer, WasItem, history
<1>9. PlaceholdersRace'
  BY <1>1, <1>2 DEF PlaceholdersRace, history
<1> QED
  BY <1>1, <1>4, <1>5, <1>6, <1>7, <1>8, <1>9, RequestsStayOK DEF IInv, Shape

-----------------------------------------------------------------------------
\* A step that leaves customers and histories alone and goes on with locals c.
LEMMA ItemsInv ==
    ASSUME IInv, NEW r \in Requests, NEW c \in Context, NEW l \in Labels,
           pc[r] = "new" \/ c = ctx[r],
           pc' = [pc EXCEPT ![r] = l], ctx' = [ctx EXCEPT ![r] = c],
           UNCHANGED <<customers, row, audit, history>>,
           items' \subseteq ItemIds, item' \in [ItemIds -> ItemType], pivots' \subseteq customers \X items',
           \A i \in ItemIds : \/ item'[i].kind = item[i].kind /\ item'[i].org = item[i].org
                              \/ i = r /\ item[r].kind = "none",
           RowsOK', ReferencesStayInTenant', RequestOK(r, ctx[r], pc[r])'
    PROVE  IInv'
<1>1. TypeOK /\ RequestsOK /\ PlaceholdersRace
  BY DEF IInv, Shape
<1>2. pc'[r] = l /\ ctx'[r] = c /\ \A q \in Requests \ {r} : pc'[q] = pc[q] /\ ctx'[q] = ctx[q]
  BY <1>1 DEF TypeOK
<1>3. TypeOK'
  BY <1>1 DEF TypeOK, history
<1>4. Gentle(r)
  BY <1>2 DEF Gentle, Person, history
<1>5. RequestsOK'
  BY <1>1, <1>4, RequestsStayOK
<1>6. PlaceholdersRace'
  <2>1. ctx'[r].op = ctx[r].op \/ \A k \in CustomerIds : row[k].facebookName # r
    BY <1>1, <1>2 DEF RequestsOK, RequestOK, Unsigned
  <2> QED
    BY <1>1, <1>2, <2>1 DEF PlaceholdersRace, TypeOK, history
<1> QED
  BY <1>3, <1>5, <1>6 DEF IInv, Shape

\* A request inserts its item, of its tenant and, but for a tag, of a customer there.
LEMMA InsertItemInv ==
    ASSUME IInv, NEW r \in Requests, NEW c \in Context, NEW l \in Labels,
           NEW g \in Orgs, NEW kind \in {"tag", "note", "order"}, NEW k \in CustomerIds \cup {None},
           kind = "tag" => k = None,
           kind # "tag" => k \in customers /\ row[k].org = g,
           pc[r] = "new" \/ c = ctx[r], item[r].kind = "none",
           pc' = [pc EXCEPT ![r] = l], ctx' = [ctx EXCEPT ![r] = c],
           items' = items \cup {r}, item' = [item EXCEPT ![r] = Item(kind, g, k, r)],
           UNCHANGED <<customers, row, pivots, audit, history>>,
           RequestOK(r, ctx[r], pc[r])'
    PROVE  IInv'
<1>1. TypeOK /\ RowsOK /\ ReferencesStayInTenant
  BY DEF IInv, Shape
<1>2. /\ r \in ItemIds /\ item'[r] = Item(kind, g, k, r) /\ \A i \in ItemIds \ {r} : item'[i] = item[i]
      /\ item' \in [ItemIds -> ItemType] /\ r \notin items
  BY <1>1 DEF TypeOK, ItemIds, Item, ItemType, RowsOK
<1>3. /\ items' \subseteq ItemIds /\ pivots' \subseteq customers \X items'
      /\ \A i \in ItemIds : \/ item'[i].kind = item[i].kind /\ item'[i].org = item[i].org
                            \/ i = r /\ item[r].kind = "none"
  BY <1>1, <1>2 DEF TypeOK
<1>4. RowsOK'
  BY <1>1, <1>2 DEF RowsOK, TypeOK, Item
<1>5. ReferencesStayInTenant'
  <2>1. \A p \in pivots : item'[p[2]] = item[p[2]]
    BY <1>1, <1>2 DEF TypeOK
  <2>2. \A i \in items' : item'[i].kind \in {"note", "order"} =>
            item'[i].customer \in customers /\ row[item'[i].customer].org = item'[i].org
    BY <1>1, <1>2 DEF ReferencesStayInTenant, TypeOK, Item
  <2> QED
    BY <1>1, <2>1, <2>2 DEF ReferencesStayInTenant
<1> QED
  BY <1>2, <1>3, <1>4, <1>5, ItemsInv

LEMMA InsertsInv ==
    ASSUME IInv, NEW r \in Requests, NoteInsert(r) \/ OrderInsert(r)
    PROVE  IInv'
<1> DEFINE c == ctx[r].customer
           g == ctx[r].org
<1>1. TypeOK /\ RequestOK(r, ctx[r], pc[r])
  BY DEF IInv, Shape, RequestsOK
<1>2. /\ pc[r] \in {"insertNote", "insertOrder"} /\ ctx[r].op \in {"extNote", "createNote", "extOrder"}
      /\ pc[r] = "insertOrder" <=> ctx[r].op = "extOrder"
      /\ WasCustomer(c, g) /\ item[r].kind = "none" /\ r \notin audit /\ r \in ItemIds
      /\ ctx[r] \in Context /\ ctx' = [ctx EXCEPT ![r] = ctx[r]]
      /\ UNCHANGED <<customers, row, pivots, audit, history>>
  BY <1>1 DEF NoteInsert, OrderInsert, At, RequestOK, OpFits, ContextFits, Fresh, Truthful,
     TypeOK, ItemIds
<1>3. CASE Goto(r, "refused") /\ UNCHANGED <<items, item>>
  <2>1. pc'[r] = "refused" /\ ctx'[r] = ctx[r]
    BY <1>1, <1>2, <1>3 DEF Goto, TypeOK
  <2>2. RequestOK(r, ctx[r], pc[r])'
    BY <1>1, <1>2, <1>3, <2>1 DEF RequestOK, OpFits, ContextFits, Fresh, Truthful, Alone, Unsigned,
       WasCustomer, WasItem, history
  <2> QED
    BY <1>2, <1>3, <2>2, QuietInv DEF Goto, Labels, tables
<1>4. CASE \E kind \in {"note", "order"}, l \in {"done", "audit"} :
              /\ c \in customers /\ Insert(r, Item(kind, g, c, r), l)
              /\ kind = "order" <=> pc[r] = "insertOrder"
  <2>1. PICK kind \in {"note", "order"}, l \in {"done", "audit"} :
              /\ c \in customers /\ Insert(r, Item(kind, g, c, r), l)
              /\ kind = "order" <=> pc[r] = "insertOrder"
    BY <1>4
  <2>2. pc'[r] = l /\ ctx'[r] = ctx[r] /\ item'[r].kind = kind
    BY <1>1, <1>2, <2>1 DEF Insert, Goto, TypeOK, Item
  <2>3. RequestOK(r, ctx[r], pc[r])'
    BY <1>1, <1>2, <2>1, <2>2 DEF RequestOK, OpFits, ContextFits, Fresh, Truthful, Alone, Unsigned,
       WasCustomer, WasItem, history
  <2>4. row[c].org = g /\ g \in Orgs /\ c \in CustomerIds
    BY <1>2 DEF WasCustomer
  <2> HIDE DEF c, g
  <2> QED
    BY <1>2, <2>1, <2>3, <2>4, InsertItemInv DEF Insert, Goto, Labels
<1> QED
  BY <1>3, <1>4 DEF NoteInsert, OrderInsert, At

LEMMA CreateTagInv ==
    ASSUME IInv, NEW r \in Requests, NEW g \in Orgs, CreateTag(r, g)
    PROVE  IInv'
<1> DEFINE c == Locals("createTag", g, None, r, None, None)
<1>1. TypeOK /\ RequestOK(r, ctx[r], pc[r])
  BY DEF IInv, Shape, RequestsOK
<1>2. /\ pc[r] = "new" /\ pc' = [pc EXCEPT ![r] = "done"] /\ ctx' = [ctx EXCEPT ![r] = c]
      /\ items' = items \cup {r} /\ item' = [item EXCEPT ![r] = Item("tag", g, None, r)]
      /\ UNCHANGED <<customers, row, pivots, audit, history>>
  BY DEF CreateTag, Begin, Goto
<1>3. c \in Context /\ c.op = "createTag" /\ c.org = g
  BY DEF Locals, Context, Ops, ItemIds
<1>4. ctx'[r] = c /\ pc'[r] = "done" /\ item[r].kind = "none"
  BY <1>1, <1>2 DEF TypeOK, RequestOK, Fresh
<1>5. RequestOK(r, ctx[r], pc[r])'
  BY <1>1, <1>2, <1>3, <1>4 DEF RequestOK, OpFits, ContextFits, Fresh, Truthful, Alone, Unsigned
<1> HIDE DEF c
<1> QED
  BY <1>2, <1>3, <1>4, <1>5, InsertItemInv DEF Labels

LEMMA ItemEditInv ==
    ASSUME IInv, NEW r \in Requests, ItemEdit(r)
    PROVE  IInv'
<1> DEFINE i == ctx[r].item
<1>1. TypeOK /\ RowsOK /\ ReferencesStayInTenant /\ RequestOK(r, ctx[r], pc[r])
  BY DEF IInv, Shape, RequestsOK
<1>2. PICK l \in {"done", "refused"} :
          /\ pc' = [pc EXCEPT ![r] = l]
          /\ item' = item \/ item' = [item EXCEPT ![i].body = r]
  BY DEF ItemEdit, Goto
<1>3. /\ pc[r] = "editItem" /\ ctx[r].op \in {"edit", "removeItem"} /\ i \in ItemIds
      /\ ctx[r] \in Context /\ ctx' = [ctx EXCEPT ![r] = ctx[r]] /\ r \in ItemIds
      /\ UNCHANGED <<customers, row, items, pivots, audit, history>>
  BY <1>1 DEF ItemEdit, At, RequestOK, OpFits, ContextFits, WasItem, TypeOK, ItemIds
<1>4. /\ item' \in [ItemIds -> ItemType]
      /\ \A k \in ItemIds : item'[k].kind = item[k].kind /\ item'[k].org = item[k].org
                            /\ item'[k].customer = item[k].customer
  BY <1>1, <1>2, <1>3 DEF TypeOK, ItemType
<1>5. pc'[r] = l /\ ctx'[r] = ctx[r]
  BY <1>1, <1>2, <1>3 DEF TypeOK
<1>6. RequestOK(r, ctx[r], pc[r])'
  BY <1>1, <1>3, <1>4, <1>5 DEF RequestOK, OpFits, ContextFits, Fresh, Truthful, Alone, Unsigned,
     WasCustomer, WasItem
<1>7. RowsOK'
  BY <1>1, <1>3, <1>4 DEF RowsOK, TypeOK
<1>8. ReferencesStayInTenant'
  BY <1>1, <1>3, <1>4 DEF ReferencesStayInTenant, TypeOK
<1>9. items' \subseteq ItemIds /\ pivots' \subseteq customers \X items'
  BY <1>1, <1>3 DEF TypeOK
<1> QED
  BY <1>2, <1>3, <1>4, <1>6, <1>7, <1>8, <1>9, ItemsInv DEF Labels

LEMMA ItemDeleteInv ==
    ASSUME IInv, NEW r \in Requests, ItemDelete(r)
    PROVE  IInv'
<1> DEFINE gone == {i \in {ctx[r].item} : Owns(ctx[r].org, i, item[i].kind)}
<1>1. TypeOK /\ RowsOK /\ ReferencesStayInTenant /\ RequestOK(r, ctx[r], pc[r])
  BY DEF IInv, Shape, RequestsOK
<1>2. /\ pc[r] = "deleteItem" /\ pc' = [pc EXCEPT ![r] = "done"]
      /\ items' = items \ gone /\ pivots' = {p \in pivots : p[2] \notin gone}
      /\ UNCHANGED <<ctx, customers, row, item, audit, history>>
  BY DEF ItemDelete, At, Goto
<1> HIDE DEF gone
<1>3. /\ ctx[r].op \in {"edit", "removeItem"} /\ ctx[r] \in Context
      /\ ctx' = [ctx EXCEPT ![r] = ctx[r]] /\ pc'[r] = "done" /\ r \in ItemIds
  BY <1>1, <1>2 DEF RequestOK, OpFits, TypeOK, ItemIds
<1>4. RequestOK(r, ctx[r], pc[r])'
  BY <1>1, <1>2, <1>3 DEF RequestOK, OpFits, ContextFits, Fresh, Truthful, Alone, Unsigned,
     WasCustomer, WasItem
<1>5. RowsOK' /\ ReferencesStayInTenant'
  BY <1>1, <1>2 DEF RowsOK, ReferencesStayInTenant
<1>6. items' \subseteq ItemIds /\ pivots' \subseteq customers \X items'
  BY <1>1, <1>2 DEF TypeOK
<1>7. item' \in [ItemIds -> ItemType] /\ item' = item
  BY <1>1, <1>2 DEF TypeOK
<1> QED
  BY <1>2, <1>3, <1>4, <1>5, <1>6, <1>7, ItemsInv DEF Labels

\* A pair is written by its ids alone, which the handler knows to be of one tenant.
LEMMA AttachInsertInv ==
    ASSUME IInv, NEW r \in Requests, AttachInsert(r)
    PROVE  IInv'
<1> DEFINE c == ctx[r].customer
           t == ctx[r].item
<1>1. TypeOK /\ RowsOK /\ ReferencesStayInTenant /\ RequestOK(r, ctx[r], pc[r])
  BY DEF IInv, Shape, RequestsOK
<1>2. PICK l \in {"done", "refused"} :
          /\ pc' = [pc EXCEPT ![r] = l]
          /\ pivots' = pivots \/ (c \in customers /\ t \in items /\ pivots' = pivots \cup {<<c, t>>})
  BY DEF AttachInsert, Goto
<1>3. /\ pc[r] = "insertPivot" /\ ctx[r].op = "attach" /\ WasCustomer(c, ctx[r].org)
      /\ WasItem(t, ctx[r].org) /\ item[t].kind = "tag"
      /\ ctx[r] \in Context /\ ctx' = [ctx EXCEPT ![r] = ctx[r]]
      /\ UNCHANGED <<customers, row, items, item, audit, history>>
  BY <1>1 DEF AttachInsert, At, RequestOK, OpFits, ContextFits, TypeOK
<1>4. pc'[r] = l /\ ctx'[r] = ctx[r]
  BY <1>1, <1>2, <1>3 DEF TypeOK
<1>5. RequestOK(r, ctx[r], pc[r])'
  BY <1>1, <1>3, <1>4 DEF RequestOK, OpFits, ContextFits, Fresh, Truthful, Alone, Unsigned,
     WasCustomer, WasItem
<1>6. RowsOK'
  BY <1>1, <1>3 DEF RowsOK
<1>7. ReferencesStayInTenant'
  <2>1. \A p \in pivots' : item[p[2]].kind = "tag" /\ item[p[2]].org = row[p[1]].org
    BY <1>1, <1>2, <1>3 DEF ReferencesStayInTenant, WasCustomer, WasItem
  <2> QED
    BY <1>1, <1>3, <2>1 DEF ReferencesStayInTenant
<1>8. items' \subseteq ItemIds /\ pivots' \subseteq customers \X items' /\ item' \in [ItemIds -> ItemType]
  BY <1>1, <1>2, <1>3 DEF TypeOK
<1> QED
  BY <1>2, <1>3, <1>5, <1>6, <1>7, <1>8, ItemsInv DEF Labels

LEMMA DetachDeleteInv ==
    ASSUME IInv, NEW r \in Requests, DetachDelete(r)
    PROVE  IInv'
<1>1. TypeOK /\ RowsOK /\ ReferencesStayInTenant /\ RequestOK(r, ctx[r], pc[r])
  BY DEF IInv, Shape, RequestsOK
<1>2. /\ pc[r] = "deletePivot" /\ pc' = [pc EXCEPT ![r] = "done"] /\ pivots' \subseteq pivots
      /\ ctx[r].op = "detach" /\ ctx[r] \in Context /\ ctx' = [ctx EXCEPT ![r] = ctx[r]]
      /\ UNCHANGED <<customers, row, items, item, audit, history>>
  BY <1>1 DEF DetachDelete, At, Goto, RequestOK, OpFits, TypeOK
<1>3. pc'[r] = "done" /\ ctx'[r] = ctx[r]
  BY <1>1, <1>2 DEF TypeOK
<1>4. RequestOK(r, ctx[r], pc[r])'
  BY <1>1, <1>2, <1>3 DEF RequestOK, OpFits, ContextFits, Fresh, Truthful, Alone, Unsigned,
     WasCustomer, WasItem
<1>5. RowsOK' /\ ReferencesStayInTenant'
  BY <1>1, <1>2 DEF RowsOK, ReferencesStayInTenant
<1>6. items' \subseteq ItemIds /\ pivots' \subseteq customers \X items' /\ item' \in [ItemIds -> ItemType]
  BY <1>1, <1>2 DEF TypeOK
<1> QED
  BY <1>2, <1>4, <1>5, <1>6, ItemsInv DEF Labels

-----------------------------------------------------------------------------
\* A request that arrives at statement l knowing what c says.
LEMMA AdmitInv ==
    ASSUME IInv, NEW r \in Requests, NEW c \in Context, NEW l \in Labels, Admit(r, c, l),
           l \notin {"new", "reread", "audit", "done"}, OpFits(c, l), ContextFits(c, l),
           l = "upsert" => Person(c.org, c.person) = {}
    PROVE  IInv'
<1>1. TypeOK /\ RequestOK(r, ctx[r], pc[r])
  BY DEF IInv, Shape, RequestsOK
<1>2. /\ pc[r] = "new" /\ pc' = [pc EXCEPT ![r] = l] /\ ctx' = [ctx EXCEPT ![r] = c]
      /\ UNCHANGED <<tables, audit, history>>
  BY DEF Admit, Begin, Goto
<1>3. pc'[r] = l /\ ctx'[r] = c /\ audit' \subseteq audit \cup {r}
  BY <1>1, <1>2 DEF TypeOK
<1>4. OpFits(c, l)' /\ ContextFits(c, l)' /\ Fresh(r, l)' /\ Alone(r, c, l)' /\ Unsigned(r, l)'
  BY <1>1, <1>2 DEF OpFits, ContextFits, WasCustomer, WasItem, RequestOK, Fresh, Alone, Unsigned,
     Person, tables, history
<1>5. Truthful(r, c, l)'
  BY <1>1, <1>2 DEF RequestOK, Truthful, tables, history
<1>6. RequestOK(r, ctx[r], pc[r])'
  BY <1>3, <1>4, <1>5 DEF RequestOK
<1> QED
  BY <1>2, <1>3, <1>6, QuietInv

\* What the lookups of a route find was inserted for its tenant.
LEMMA LookupsFind ==
    ASSUME IInv, NEW g \in Orgs
    PROVE  /\ \A c : CustomerInOrg(g, c) => WasCustomer(c, g)
           /\ \A i, kind : kind # "none" /\ Owns(g, i, kind) => WasItem(i, g)
           /\ \A f, c : c \in Person(g, f) => WasCustomer(c, g)
BY DEF IInv, Shape, TypeOK, CustomerInOrg, Owns, Person, WasCustomer, WasItem

LEMMA CustomerArrivals ==
    ASSUME IInv, NEW r \in Requests, NEW g \in Orgs, NEW c \in CustomerIds,
           \/ \E d \in Bodies : UpdateArrive(r, g, c, d)
           \/ \E a \in Users \cup {None} : AssignArrive(r, g, c, a)
           \/ StatusArrive(r, g, c) \/ RemoveArrive(r, g, c) \/ NoteArrive(r, g, c)
    PROVE  IInv'
<1>1. CASE \E d \in Bodies : UpdateArrive(r, g, c, d)
  <2>1. PICK d \in Bodies : UpdateArrive(r, g, c, d)
    BY <1>1
  <2> DEFINE l == Locals("update", g, c, None, d, None)
  <2>2. /\ l \in Context /\ l.op = "update" /\ l.org = g /\ l.customer = c /\ l.dto = d
    BY DEF Locals, Context, Ops
  <2>3. Admit(r, l, "write") /\ WasCustomer(c, g)
    BY <2>1, LookupsFind DEF UpdateArrive
  <2>4. BodyOK(d) /\ ("agent" \in DOMAIN d => AgentInOrg(g, d["agent"]))
    BY <2>1, DirectoryConstants DEF UpdateArrive, BodyOK
  <2> HIDE DEF l
  <2>5. OpFits(l, "write") /\ ContextFits(l, "write")
    BY <2>2, <2>3, <2>4 DEF OpFits, ContextFits
  <2> QED
    BY <2>2, <2>3, <2>5, AdmitInv DEF Labels
<1>2. CASE \E a \in Users \cup {None} : AssignArrive(r, g, c, a)
  <2>1. PICK a \in Users \cup {None} : AssignArrive(r, g, c, a)
    BY <1>2
  <2> DEFINE d == [agent |-> a]
             l == Locals("assign", g, c, None, d, None)
  <2>2. /\ l \in Context /\ l.op = "assign" /\ l.org = g /\ l.customer = c /\ l.dto = d
    BY DEF Locals, Context, Ops
  <2>3. Admit(r, l, "write") /\ WasCustomer(c, g)
    BY <2>1, LookupsFind DEF AssignArrive
  <2>4. BodyOK(d) /\ ("agent" \in DOMAIN d => AgentInOrg(g, d["agent"]))
    BY <2>1 DEF AssignArrive, BodyOK
  <2> HIDE DEF l, d
  <2>5. OpFits(l, "write") /\ ContextFits(l, "write")
    BY <2>2, <2>3, <2>4 DEF OpFits, ContextFits
  <2> QED
    BY <2>2, <2>3, <2>5, AdmitInv DEF Labels
<1>3. ASSUME NEW op \in {"status", "remove", "createNote"}, NEW label \in Labels,
             Admit(r, Locals(op, g, c, None, None, None), label), CustomerInOrg(g, c),
             \/ op = "status" /\ label = "setStatus"
             \/ op = "remove" /\ label = "delete"
             \/ op = "createNote" /\ label = "insertNote"
      PROVE  IInv'
  <2> DEFINE l == Locals(op, g, c, None, None, None)
  <2>1. l \in Context /\ l.op = op /\ l.org = g /\ l.customer = c
    BY DEF Locals, Context, Ops
  <2>2. Admit(r, l, label) /\ WasCustomer(c, g)
    BY <1>3, LookupsFind
  <2> HIDE DEF l
  <2>3. OpFits(l, label) /\ ContextFits(l, label)
    BY <1>3, <2>1, <2>2 DEF OpFits, ContextFits
  <2> QED
    BY <1>3, <2>1, <2>2, <2>3, AdmitInv
<1> QED
  BY <1>1, <1>2, <1>3 DEF StatusArrive, RemoveArrive, NoteArrive, Labels

LEMMA ItemArrivals ==
    ASSUME IInv, NEW r \in Requests, NEW g \in Orgs, NEW i \in ItemIds,
           \/ TagEditArrive(r, g, i) \/ TagRemoveArrive(r, g, i)
           \/ NoteEditArrive(r, g, i) \/ NoteRemoveArrive(r, g, i)
           \/ \E c \in customers : AttachArrive(r, g, i, c) \/ DetachArrive(r, g, i, c)
    PROVE  IInv'
<1>1. ASSUME NEW c \in customers \cup {None}, NEW op \in {"edit", "removeItem", "attach", "detach"},
             NEW label \in Labels, NEW kind \in {"tag", "note"},
             Owns(g, i, kind), Admit(r, Locals(op, g, c, i, None, None), label),
             \/ op = "edit" /\ label = "editItem"
             \/ op = "removeItem" /\ label = "deleteItem"
             \/ op = "attach" /\ label = "checkTagged" /\ kind = "tag"
             \/ op = "detach" /\ label = "deletePivot" /\ kind = "tag"
      PROVE  IInv'
  <2> DEFINE l == Locals(op, g, c, i, None, None)
  <2>1. c \in CustomerIds \cup {None}
    BY DEF IInv, Shape, TypeOK
  <2>2. l \in Context /\ l.op = op /\ l.org = g /\ l.item = i
    BY <2>1 DEF Locals, Context, Ops
  <2>3. Admit(r, l, label) /\ WasItem(i, g) /\ item[i].kind = kind
    BY <1>1, LookupsFind DEF Owns
  <2> HIDE DEF l
  <2>4. OpFits(l, label) /\ ContextFits(l, label)
    BY <1>1, <2>2, <2>3 DEF OpFits, ContextFits
  <2> QED
    BY <1>1, <2>2, <2>3, <2>4, AdmitInv
<1> QED
  BY <1>1 DEF TagEditArrive, TagRemoveArrive, NoteEditArrive, NoteRemoveArrive, AttachArrive,
     DetachArrive, Labels

LEMMA ResolveFindInv ==
    ASSUME IInv, NEW r \in Requests, NEW g \in Orgs, NEW f \in People,
           NEW op \in {"extNote", "extOrder"}, ResolveFind(r, g, f, op)
    PROVE  IInv'
<1>1. PICK c \in CustomerIds \cup {None}, label \in {"checkCustomer", "upsert"} :
          /\ Admit(r, Locals(op, g, c, None, None, f), label)
          /\ label = "upsert" => Person(g, f) = {}
  BY DEF ResolveFind, FindPerson, Person, IInv, Shape, TypeOK
<1> DEFINE l == Locals(op, g, c, None, None, f)
<1>2. l \in Context /\ l.op = op /\ l.org = g /\ l.person = f
  BY DEF Locals, Context, Ops
<1>3. Admit(r, l, label)
  BY <1>1
<1> HIDE DEF l
<1>4. OpFits(l, label) /\ ContextFits(l, label)
  BY <1>2 DEF OpFits, ContextFits
<1> QED
  BY <1>1, <1>2, <1>3, <1>4, AdmitInv DEF Labels

\* The statements of a handler that only read, and the audit row, which nobody reads.
LEMMA ReadsInv ==
    ASSUME IInv, NEW r \in Requests,
           CustomerReread(r) \/ ResolveCheck(r) \/ AttachCheck(r) \/ AuditLog(r)
    PROVE  IInv'
<1>1. TypeOK /\ RequestOK(r, ctx[r], pc[r])
  BY DEF IInv, Shape, RequestsOK
<1>2. PICK l \in {"audit", "refused", "insertNote", "insertOrder", "insertPivot", "done"} :
          pc' = [pc EXCEPT ![r] = l]
  BY DEF CustomerReread, ResolveCheck, AttachCheck, AuditLog, Goto
<1>3. /\ ctx[r] \in Context /\ ctx' = [ctx EXCEPT ![r] = ctx[r]]
      /\ audit' \subseteq audit \cup {r} /\ UNCHANGED <<tables, history>>
  BY <1>1 DEF CustomerReread, ResolveCheck, AttachCheck, AuditLog, TypeOK
<1>4. pc'[r] = l /\ ctx'[r] = ctx[r]
  BY <1>1, <1>2, <1>3 DEF TypeOK
<1>5. RequestOK(r, ctx[r], pc[r])'
  <2>1. CASE CustomerReread(r)
    BY <1>1, <1>3, <1>4, <2>1 DEF CustomerReread, At, Goto, TypeOK, RequestOK, OpFits, ContextFits,
       Fresh, Truthful, Alone, Unsigned, WasCustomer, WasItem, tables, history
  <2>2. CASE ResolveCheck(r)
    BY <1>1, <1>3, <1>4, <2>2 DEF ResolveCheck, CustomerInOrg, At, Goto, TypeOK, RequestOK, OpFits, ContextFits,
       Fresh, Truthful, Alone, Unsigned, WasCustomer, WasItem, tables, history
  <2>3. CASE AttachCheck(r)
    BY <1>1, <1>3, <1>4, <2>3 DEF AttachCheck, CustomerInOrg, At, Goto, TypeOK, RequestOK, OpFits, ContextFits,
       Fresh, Truthful, Alone, Unsigned, WasCustomer, WasItem, tables, history
  <2>4. CASE AuditLog(r)
    BY <1>1, <1>3, <1>4, <2>4 DEF AuditLog, At, Goto, TypeOK, RequestOK, OpFits, ContextFits,
       Fresh, Truthful, Alone, Unsigned, WasCustomer, WasItem, tables, history
  <2> QED
    BY <2>1, <2>2, <2>3, <2>4
<1> QED
  BY <1>2, <1>3, <1>5, QuietInv DEF Labels

LEMMA ArriveInv ==
    ASSUME IInv, NEW r \in Requests, Arrive(r)
    PROVE  IInv'
<1>1. PICK g \in Orgs :
          CustomerRoutes(r, g) \/ ExtensionRoutes(r, g) \/ TagRoutes(r, g) \/ NoteRoutes(r, g)
  BY DEF Arrive
<1>2. CASE CustomerRoutes(r, g)
  BY <1>2, CreateCustomerInv, CustomerArrivals DEF CustomerRoutes
<1>3. CASE ExtensionRoutes(r, g)
  BY <1>3, SyncInv, ResolveFindInv DEF ExtensionRoutes
<1>4. CASE TagRoutes(r, g)
  BY <1>4, CreateTagInv, ItemArrivals DEF TagRoutes
<1>5. CASE NoteRoutes(r, g)
  BY <1>5, CustomerArrivals, ItemArrivals DEF NoteRoutes
<1> QED
  BY <1>1, <1>2, <1>3, <1>4, <1>5

LEMMA NextInv == IInv /\ [Next]_vars => IInv'
<1> SUFFICES ASSUME IInv, [Next]_vars PROVE IInv'
  OBVIOUS
<1>1. ASSUME NEW r \in Requests, Arrive(r) PROVE IInv'
  BY <1>1, ArriveInv
<1>2. ASSUME NEW r \in Requests, Continue(r) PROVE IInv'
  BY <1>2, CustomerWriteInv, StatusWriteInv, RemoveDeleteInv, ResolveUpsertInv, InsertsInv,
     ItemEditInv, ItemDeleteInv, AttachInsertInv, DetachDeleteInv, ReadsInv DEF Continue
<1>3. CASE UNCHANGED vars
  BY <1>3 DEF vars, tables, history, IInv, Shape, TypeOK, RowsOK, ReferencesStayInTenant,
     RequestsOK, RequestOK, OpFits, ContextFits, WasCustomer, WasItem, Fresh, Truthful, Alone,
     Unsigned, Person, PlaceholdersRace
<1> QED
  BY <1>1, <1>2, <1>3 DEF Next

\* The inductive invariant of Directory holds in every reachable state.
THEOREM Invariance == Spec => []IInv
BY InitInv, NextInv, PTL DEF Spec

\* Every column keeps its type and no tagged pair outlives its customer or its tag,
\* whichever of the two is deleted and whichever way (schema.prisma's cascades).
THEOREM TypeCorrect == Spec => []TypeOK
<1>1. IInv => TypeOK
  BY DEF IInv, Shape
<1> QED
  BY <1>1, Invariance, PTL

\* Agents, tagged pairs, notes and orders never refer across tenants, though the pair
\* is upserted by its ids and the tenant was checked statements before
\* (customer.service.ts:74-80, tag.service.ts:30-33).
THEOREM ReferencesAreTenantSafe == Spec => []ReferencesStayInTenant
<1>1. IInv => ReferencesStayInTenant
  BY DEF IInv
<1> QED
  BY <1>1, Invariance, PTL

\* Whatever is deleted meanwhile, the audit log shows no removal of a customer that is
\* there and no update or assignment that met no row, and a change of status that met
\* none only of a customer that has gone (customer.service.ts:27-72).
THEOREM AuditIsTrue == Spec => []AuditTellsTruth
<1>1. IInv => AuditTellsTruth
  BY DEF IInv, Shape, TypeOK, RequestsOK, RequestOK, Truthful, AuditTellsTruth
<1> QED
  BY <1>1, Invariance, PTL

\* The extension's placeholder clobbers live fields only in the race it cannot avoid,
\* never on a customer its own lookup could have found (extension.service.ts:53-62).
THEOREM PlaceholdersOnlyRace == Spec => []PlaceholdersRace
<1>1. IInv => PlaceholdersRace
  BY DEF IInv
<1> QED
  BY <1>1, Invariance, PTL

-----------------------------------------------------------------------------
\* The steps that write a table.
Writes(r) ==
    \/ \E g \in Orgs :
           \/ \E f \in People \cup {None}, a \in Users \cup {None} : CreateCustomer(r, g, f, a)
           \/ \E f \in People : Sync(r, g, f)
           \/ CreateTag(r, g)
    \/ CustomerWrite(r) \/ StatusWrite(r) \/ RemoveDelete(r) \/ ResolveUpsert(r)
    \/ NoteInsert(r) \/ OrderInsert(r) \/ ItemEdit(r) \/ ItemDelete(r)
    \/ AttachInsert(r) \/ DetachDelete(r)

LEMMA OthersOnlyRead ==
    ASSUME NEW r \in Requests, Arrive(r) \/ Continue(r)
    PROVE  Writes(r) \/ UNCHANGED tables
<1>1. CASE Arrive(r)
  BY <1>1 DEF Arrive, CustomerRoutes, ExtensionRoutes, TagRoutes, NoteRoutes, Writes, UpdateArrive,
     AssignArrive, StatusArrive, RemoveArrive, ResolveFind, NoteArrive, TagEditArrive,
     NoteEditArrive, TagRemoveArrive, NoteRemoveArrive, AttachArrive, DetachArrive, Admit
<1>2. CASE Continue(r)
  BY <1>2 DEF Continue, Writes, CustomerReread, AuditLog, ResolveCheck, AttachCheck
<1> QED
  BY <1>1, <1>2

LEMMA OneMoves ==
    ASSUME TypeOK, NEW r \in Requests, Arrive(r) \/ Continue(r)
    PROVE  \A q \in Requests \ {r} : pc'[q] = pc[q]
<1>1. \E l \in Labels : pc' = [pc EXCEPT ![r] = l]
  <2>1. CASE Arrive(r)
    BY <2>1 DEF Arrive, CustomerRoutes, ExtensionRoutes, TagRoutes, NoteRoutes, CreateCustomer,
       Sync, CreateTag, UpdateArrive, AssignArrive, StatusArrive, RemoveArrive, ResolveFind,
       NoteArrive, TagEditArrive, NoteEditArrive, TagRemoveArrive, NoteRemoveArrive, AttachArrive,
       DetachArrive, Admit, Begin, Goto, Labels
  <2>2. CASE Continue(r)
    BY <2>2 DEF Continue, CustomerWrite, CustomerReread, StatusWrite, RemoveDelete, AuditLog,
       ResolveUpsert, ResolveCheck, NoteInsert, OrderInsert, ItemEdit, ItemDelete, AttachCheck,
       AttachInsert, DetachDelete, Insert, Goto, Labels
  <2> QED
    BY <2>1, <2>2
<1> QED
  BY <1>1 DEF TypeOK

\* An upsert inserts a row that was not there, or renews only live fields, of the one
\* tenant.
LEMMA UpsertIsMild ==
    ASSUME IInv, NEW r \in Requests, row[r].org = None, NEW g \in Orgs, NEW f, UpsertPerson(r, g, f)
    PROVE  \A c \in customers : /\ c \in customers'
                                /\ row'[c].crm = row[c].crm /\ row'[c].agent = row[c].agent
                                /\ row'[c] = row[c] \/ row[c].org = g
<1>1. TypeOK /\ RowsOK
  BY DEF IInv, Shape
<1> SUFFICES ASSUME NEW c \in customers
             PROVE  /\ c \in customers'
                    /\ row'[c].crm = row[c].crm /\ row'[c].agent = row[c].agent
                    /\ row'[c] = row[c] \/ row[c].org = g
  OBVIOUS
<1>2. c \in CustomerIds /\ c # r /\ row[c] \in RowType
  BY <1>1, NoneIsNoId DEF TypeOK, RowsOK
<1>3. CASE Person(g, f) = {}
  BY <1>1, <1>2, <1>3 DEF UpsertPerson, TypeOK
<1>4. CASE Person(g, f) # {}
  <2>1. customers' = customers /\ row'[c] = IF c \in Person(g, f) THEN Refreshed(row[c], r) ELSE row[c]
    BY <1>2, <1>4 DEF UpsertPerson
  <2> QED
    BY <1>2, <2>1 DEF Refreshed, Person, RowType
<1> QED
  BY <1>3, <1>4

OwnedStep ==
    \A c \in customers \cap customers' :
        (row'[c].crm # row[c].crm \/ row'[c].agent # row[c].agent) =>
            \E r \in Requests : /\ pc'[r] # pc[r]
                                /\ ctx[r].op \in {"update", "assign", "status"}
                                /\ ctx[r].customer = c /\ ctx[r].org = row[c].org

LEMMA OwnedWrites ==
    ASSUME IInv, NEW r \in Requests, Writes(r)
    PROVE  OwnedStep
<1>1. TypeOK /\ RowsOK /\ RequestOK(r, ctx[r], pc[r])
  BY DEF IInv, Shape, RequestsOK
<1>2. ASSUME NEW g \in Orgs, NEW f \in People \cup {None}, NEW a \in Users \cup {None},
             CreateCustomer(r, g, f, a)
      PROVE  OwnedStep
  <2>1. pc[r] = "new" /\ row' = [row EXCEPT ![r] = Customer(g, f, a, r, r)]
    BY <1>2 DEF CreateCustomer, Begin
  <2>2. r \notin customers
    BY <1>1, <2>1, NoneIsNoId DEF RequestOK, Fresh, RowsOK
  <2> QED
    BY <1>1, <2>1, <2>2 DEF OwnedStep, TypeOK
<1>3. ASSUME NEW g \in Orgs, NEW f \in People, Sync(r, g, f) PROVE OwnedStep
  BY <1>1, <1>3, UpsertIsMild DEF Sync, Begin, RequestOK, Fresh, OwnedStep
<1>4. CASE ResolveUpsert(r)
  BY <1>1, <1>4, UpsertIsMild DEF ResolveUpsert, At, RequestOK, OpFits, Fresh, OwnedStep
<1>5. CASE CustomerWrite(r)
  <2>1. /\ pc[r] = "write" /\ ctx[r].op \in {"update", "assign"} /\ pc'[r] # pc[r]
        /\ UNCHANGED customers
    BY <1>1, <1>5 DEF CustomerWrite, At, Goto, RequestOK, OpFits, TypeOK
  <2>2. \/ row' = row
        \/ /\ CustomerInOrg(ctx[r].org, ctx[r].customer)
           /\ \A c \in CustomerIds \ {ctx[r].customer} : row'[c] = row[c]
    BY <1>1, <1>5 DEF CustomerWrite, TypeOK
  <2> QED
    BY <1>1, <2>1, <2>2 DEF OwnedStep, CustomerInOrg, TypeOK
<1>6. CASE StatusWrite(r)
  <2>1. pc[r] = "setStatus" /\ ctx[r].op = "status" /\ pc'[r] # pc[r]
    BY <1>1, <1>6 DEF StatusWrite, At, Goto, RequestOK, OpFits, TypeOK
  <2>2. \/ row' = row
        \/ /\ CustomerInOrg(ctx[r].org, ctx[r].customer)
           /\ \A c \in CustomerIds \ {ctx[r].customer} : row'[c] = row[c]
    BY <1>1, <1>6 DEF StatusWrite, TypeOK
  <2> QED
    BY <1>1, <2>1, <2>2 DEF OwnedStep, CustomerInOrg, TypeOK
<1>7. row' = row => OwnedStep
  BY DEF OwnedStep
<1> QED
  BY <1>2, <1>3, <1>4, <1>5, <1>6, <1>7 DEF Writes, CreateTag, RemoveDelete, NoteInsert, OrderInsert,
     ItemEdit, ItemDelete, AttachInsert, DetachDelete

\* Status, name, phone and agent of a customer change only by a request of the CRM that
\* names it, of its own tenant: no message that the extension syncs, before, between or
\* after, can undo what an agent has entered (customer.repository.ts:101-107).
THEOREM CrmColumnsAreOwned == Spec => CrmDataIsOwned
<1>1. IInv /\ [Next]_vars => [OwnedStep]_vars
  BY OwnedWrites, OthersOnlyRead DEF Next, OwnedStep, tables
<1> QED
  BY <1>1, Invariance, PTL DEF Spec, CrmDataIsOwned, OwnedStep

-----------------------------------------------------------------------------
\* What TenantsAreIsolated says of a step of request r.
Isolated(r) ==
    /\ \A c \in customers : row[c].org # ctx'[r].org => c \in customers' /\ row'[c] = row[c]
    /\ \A i \in items : item[i].org # ctx'[r].org => i \in items' /\ item'[i] = item[i]
    /\ \A p \in pivots : item[p[2]].org # ctx'[r].org => p \in pivots'
    /\ \A p \in pivots' \ pivots : item[p[2]].org = ctx'[r].org

LEMMA IsolatedWrites ==
    ASSUME IInv, NEW r \in Requests, Writes(r)
    PROVE  Isolated(r)
<1>1. TypeOK /\ RowsOK /\ ReferencesStayInTenant /\ RequestOK(r, ctx[r], pc[r])
  BY DEF IInv, Shape, RequestsOK
<1>2. ASSUME NEW g \in Orgs, NEW f \in People \cup {None}, NEW a \in Users \cup {None},
             CreateCustomer(r, g, f, a)
      PROVE  Isolated(r)
  <2>1. /\ pc[r] = "new" /\ row' = [row EXCEPT ![r] = Customer(g, f, a, r, r)]
        /\ customers \subseteq customers' /\ UNCHANGED <<items, item, pivots>>
    BY <1>2 DEF CreateCustomer, Begin
  <2>2. r \notin customers
    BY <1>1, <2>1, NoneIsNoId DEF RequestOK, Fresh, RowsOK
  <2> QED
    BY <1>1, <2>1, <2>2 DEF Isolated, TypeOK
<1>3. ASSUME NEW g \in Orgs, NEW f \in People, Sync(r, g, f) PROVE Isolated(r)
  <2>1. ctx'[r].org = g /\ row[r].org = None /\ UpsertPerson(r, g, f)
    BY <1>1, <1>3 DEF Sync, Begin, Locals, TypeOK, RequestOK, Fresh
  <2> QED
    BY <2>1, UpsertIsMild DEF Isolated, UpsertPerson
<1>4. CASE ResolveUpsert(r)
  <2>1. /\ ctx'[r].org = ctx[r].org /\ row[r].org = None /\ ctx[r].org \in Orgs
        /\ UpsertPerson(r, ctx[r].org, ctx[r].person)
    BY <1>1, <1>4 DEF ResolveUpsert, At, TypeOK, Context, RequestOK, OpFits, Fresh
  <2> QED
    BY <2>1, UpsertIsMild DEF Isolated, UpsertPerson
<1>5. CASE CustomerWrite(r) \/ StatusWrite(r)
  <2>1. \/ row' = row
        \/ /\ CustomerInOrg(ctx[r].org, ctx[r].customer)
           /\ \A c \in CustomerIds \ {ctx[r].customer} : row'[c] = row[c]
    BY <1>1, <1>5 DEF CustomerWrite, StatusWrite, TypeOK
  <2>2. UNCHANGED <<ctx, customers, items, item, pivots>>
    BY <1>5 DEF CustomerWrite, StatusWrite
  <2> QED
    BY <1>1, <2>1, <2>2 DEF Isolated, CustomerInOrg, TypeOK
<1>6. CASE RemoveDelete(r)
  <2> DEFINE gone == {c \in {ctx[r].customer} : CustomerInOrg(ctx[r].org, c)}
  <2>1. /\ customers' = customers \ gone /\ items' = items \ CascadeItems(gone)
        /\ pivots' = pivots \ CascadePivots(gone) /\ UNCHANGED <<ctx, row, item>>
    BY <1>6 DEF RemoveDelete
  <2>2. \A c \in gone : c \in CustomerIds /\ c # None /\ row[c].org = ctx[r].org
    BY <1>1, DirectoryConstants DEF CustomerInOrg, TypeOK, CustomerIds
  <2> HIDE DEF gone
  <2>3. \A i \in CascadeItems(gone) : item[i].org = ctx[r].org
    <3> SUFFICES ASSUME NEW i \in CascadeItems(gone) PROVE item[i].org = ctx[r].org
      OBVIOUS
    <3>1. i \in items /\ i \in ItemIds /\ item[i].customer \in gone /\ item[i] \in ItemType
      BY <1>1 DEF CascadeItems, TypeOK
    <3>2. item[i].kind \in {"note", "order"}
      BY <1>1, <2>2, <3>1 DEF RowsOK, ItemType
    <3> QED
      BY <1>1, <2>2, <3>1, <3>2 DEF ReferencesStayInTenant
  <2>4. \A p \in CascadePivots(gone) : item[p[2]].org = ctx[r].org
    BY <1>1, <2>2 DEF CascadePivots, ReferencesStayInTenant
  <2> QED
    BY <2>1, <2>2, <2>3, <2>4 DEF Isolated
<1>7. CASE \/ NoteInsert(r) \/ OrderInsert(r) \/ \E g \in Orgs : CreateTag(r, g)
  <2>1. pc[r] \in {"new", "insertNote", "insertOrder"}
    BY <1>7 DEF NoteInsert, OrderInsert, CreateTag, Begin, At
  <2>2. r \notin items
    BY <1>1, <2>1 DEF RequestOK, Fresh, RowsOK
  <2>3. /\ UNCHANGED <<customers, row, pivots>> /\ items \subseteq items'
        /\ \A i \in ItemIds \ {r} : item'[i] = item[i]
    BY <1>1, <1>7 DEF NoteInsert, OrderInsert, CreateTag, Insert, TypeOK
  <2> QED
    BY <1>1, <2>2, <2>3 DEF Isolated, TypeOK
<1>8. CASE ItemEdit(r)
  <2>1. /\ UNCHANGED <<ctx, customers, row, items, pivots>>
        /\ \/ item' = item
           \/ /\ Owns(ctx[r].org, ctx[r].item, item[ctx[r].item].kind)
              /\ \A i \in ItemIds \ {ctx[r].item} : item'[i] = item[i]
    BY <1>1, <1>8 DEF ItemEdit, TypeOK
  <2> QED
    BY <1>1, <2>1 DEF Isolated, Owns, TypeOK
<1>9. CASE ItemDelete(r)
  BY <1>9 DEF ItemDelete, Isolated, Owns
<1>10. CASE AttachInsert(r)
  <2>1. item[ctx[r].item].org = ctx[r].org /\ ctx' = ctx
    BY <1>1, <1>10 DEF AttachInsert, At, RequestOK, OpFits, ContextFits, WasItem
  <2>2. pivots' = pivots \/ pivots' = pivots \cup {<<ctx[r].customer, ctx[r].item>>}
    BY <1>10 DEF AttachInsert
  <2> QED
    BY <1>10, <2>1, <2>2 DEF AttachInsert, Isolated
<1>11. CASE DetachDelete(r)
  <2>1. item[ctx[r].item].org = ctx[r].org /\ ctx' = ctx
    BY <1>1, <1>11 DEF DetachDelete, At, RequestOK, OpFits, ContextFits, WasItem
  <2> QED
    BY <1>11, <2>1 DEF DetachDelete, Isolated
<1> QED
  BY <1>2, <1>3, <1>4, <1>5, <1>6, <1>7, <1>8, <1>9, <1>10, <1>11 DEF Writes

\* No request of a tenant changes or removes a row or a pair of another, by any write,
\* cascade or late statement of a handler, though pairs are written and deleted by their
\* ids alone and detach() never asks whose the customer is (tag.repository.ts:48-58).
THEOREM TenantsStayApart == Spec => TenantsAreIsolated
<1> DEFINE A == \A r \in Requests : pc'[r] # pc[r] => Isolated(r)
<1>1. ASSUME IInv, [Next]_vars PROVE [A]_vars
  <2>1. ASSUME NEW r \in Requests, Arrive(r) \/ Continue(r) PROVE A
    <3>1. Isolated(r)
      BY <1>1, <2>1, OthersOnlyRead, IsolatedWrites DEF Isolated, tables
    <3>2. \A q \in Requests \ {r} : pc'[q] = pc[q]
      BY <1>1, <2>1, OneMoves DEF IInv, Shape
    <3> QED
      BY <3>1, <3>2
  <2> HIDE DEF A
  <2> QED
    BY <1>1, <2>1 DEF Next
<1>2. IInv /\ [Next]_vars => [A]_vars
  BY <1>1
<1> QED
  BY <1>2, Invariance, PTL DEF Spec, TenantsAreIsolated, Isolated
=============================================================================
