----------------------------- MODULE Directory -----------------------------
(***************************************************************************)
(* The customers of the tenants and what hangs on them: tags, notes, and   *)
(* the notes and orders that the browser extension adds knowing only a     *)
(* Facebook id (modules/customer, tag, note, extension).                   *)
(*                                                                         *)
(* As in OrderBook a statement is an action and ids are named after the    *)
(* request that draws them.  Columns are abstracted to who wrote them:     *)
(* crm stands for the data the CRM owns (name, phone, status...),          *)
(* facebookName for the live fields of a conversation, body for a tag's    *)
(* name or a note's text, and each holds the id of the last writer.        *)
(* Postgres adds foreign keys with their cascades and the unique           *)
(* (organization, facebookId); an upsert is one statement.                 *)
(*                                                                         *)
(* Users are never moved or deleted, so assertAgentInOrg reads what cannot *)
(* change and is part of the action before it.  The number an order of the *)
(* extension draws is OrderBook's; here it may be taken or not, and so may *)
(* a tag's name.  A request refused before its first statement is over is  *)
(* no step.  A handler that dies is one that takes no further step: Spec   *)
(* asks no fairness, so every behaviour with crashes is one of it.         *)
(***************************************************************************)
EXTENDS FiniteSets

CONSTANTS
    Orgs, Users, People,  \* People: Facebook ids
    UserOrg,              \* the organization of each user
    Customers, Tags,      \* the rows there are to begin with
    RowOrg,               \* ... and the organization of each
    Bodies,               \* bodies of PATCH /customers/:id: functions from some columns,
                          \* of which a Facebook id and an agent may be cleared
    Requests,
    None

Columns == {"crm", "facebookName", "facebookId", "agent"}

ASSUME DirectoryConstants ==
    /\ UserOrg \in [Users -> Orgs]
    /\ RowOrg \in [Customers \cup Tags -> Orgs]
    /\ Customers \cap Tags = {} /\ (Customers \cup Tags) \cap Requests = {}
    /\ \A d \in Bodies : /\ DOMAIN d \subseteq Columns
                         /\ "facebookId" \in DOMAIN d => d["facebookId"] \in People \cup {None}
                         /\ "agent" \in DOMAIN d => d["agent"] \in Users \cup {None}
    /\ None \notin Orgs \cup Users \cup People \cup Customers \cup Tags \cup Requests

VARIABLES
    pc,         \* the next statement of each request's handler
    ctx,        \* its locals
    customers,  \* customers: the rows that exist
    row,        \* ... and their columns; of a deleted customer, the last ones
    items,      \* tags, notes and orders: the rows that exist
    item,       \* ... and their columns
    pivots,     \* customer_tags: pairs of a customer and a tag
    audit,      \* audit_logs: the requests that left a row
    written,    \* history: updates of a customer that met a row
    overtaken   \* history: handlers that looked a person up before its row was there

tables == <<customers, row, items, item, pivots>>
history == <<written, overtaken>>
vars == <<pc, ctx, tables, audit, history>>

CustomerIds == Customers \cup Requests
ItemIds == Tags \cup Requests

Ops == {"none", "create", "update", "assign", "status", "remove", "sync", "extNote",
        "extOrder", "createTag", "createNote", "edit", "removeItem", "attach", "detach"}
Labels == {"new", "write", "reread", "setStatus", "delete", "upsert", "checkCustomer",
           "checkTagged", "insertNote", "insertOrder", "editItem", "deleteItem",
           "insertPivot", "deletePivot", "audit", "done", "refused"}

\* The tenant, and what the request names: a customer, an item, a body, a person.
Locals(op, org, customer, i, dto, person) ==
    [op |-> op, org |-> org, customer |-> customer, item |-> i, dto |-> dto, person |-> person]

Blank == Locals("none", None, None, None, None, None)

Customer(org, facebookId, agent, crm, facebookName) ==
    [org |-> org, facebookId |-> facebookId, agent |-> agent, crm |-> crm,
     facebookName |-> facebookName]

Item(kind, org, customer, body) ==
    [kind |-> kind, org |-> org, customer |-> customer, body |-> body]

Init ==
    /\ pc = [r \in Requests |-> "new"]
    /\ ctx = [r \in Requests |-> Blank]
    /\ customers = Customers /\ items = Tags
    /\ row = [c \in CustomerIds |-> IF c \in Customers
                THEN Customer(RowOrg[c], None, None, c, None)
                ELSE Customer(None, None, None, c, None)]
    /\ item = [i \in ItemIds |-> IF i \in Tags THEN Item("tag", RowOrg[i], None, i)
                                 ELSE Item("none", None, None, i)]
    /\ pivots = {}
    /\ audit = {} /\ written = {} /\ overtaken = {}

-----------------------------------------------------------------------------
\* where: { id, organizationId } on customers (mutant: id alone).
CustomerInOrg_Any(g, c) == c \in customers
CustomerInOrg(g, c) == c \in customers /\ row[c].org = g

\* ... and on tags and notes (mutant: id alone).
Owns_Any(g, i, kind) == i \in items /\ item[i].kind = kind
Owns(g, i, kind) == i \in items /\ item[i].kind = kind /\ item[i].org = g

\* assertAgentInOrg; an absent agent is not asserted.
AgentInOrg(g, a) == a # None => UserOrg[a] = g

\* @@unique([organizationId, facebookId]): the one customer, if any.
Person(g, f) == {c \in customers : row[c].org = g /\ row[c].facebookId = f}

\* findByFacebookId (mutant: it finds nobody).
FindPerson_Nobody(g, f) == {}
FindPerson(g, f) == Person(g, f)

\* The update branch of the upsert (mutant: it writes the CRM's columns as well).
Refreshed_Clobbers(x, r) == [x EXCEPT !.facebookName = r, !.crm = r]
Refreshed(x, r) == [x EXCEPT !.facebookName = r]

\* Handlers that found nobody and have not yet upserted the person of g and f.
Unsynced(g, f) == {s \in Requests : /\ pc[s] = "upsert"
                                    /\ ctx[s].org = g /\ ctx[s].person = f}

\* ON DELETE CASCADE of a customer: notes, orders and pairs (mutant: the pairs stay).
CascadePivots_None(cs) == {}
CascadePivots(cs) == {p \in pivots : p[1] \in cs}
CascadeItems(cs) == {i \in items : item[i].customer \in cs}

At(r, label) == pc[r] = label
Goto(r, label) == pc' = [pc EXCEPT ![r] = label]

Begin(r, c, label) ==
    /\ pc[r] = "new"
    /\ ctx' = [ctx EXCEPT ![r] = c]
    /\ Goto(r, label)

Admit(r, c, label) ==
    /\ Begin(r, c, label)
    /\ UNCHANGED <<tables, audit, history>>

-----------------------------------------------------------------------------
\* create(): assertAgentInOrg and the insert; a Facebook id in use is a P2002.
CreateCustomer(r, g, f, a) ==
    /\ AgentInOrg(g, a)
    /\ f # None => Person(g, f) = {}
    /\ Begin(r, Locals("create", g, r, None, None, f), "audit")
    /\ customers' = customers \cup {r}
    /\ row' = [row EXCEPT ![r] = Customer(g, f, a, r, r)]
    /\ overtaken' = overtaken \cup Unsynced(g, f)
    /\ UNCHANGED <<items, item, pivots, audit, written>>

\* update(): findOne and assertAgentInOrg.
UpdateArrive(r, g, c, d) ==
    /\ CustomerInOrg(g, c)
    /\ "agent" \in DOMAIN d => AgentInOrg(g, d["agent"])
    /\ Admit(r, Locals("update", g, c, None, d, None), "write")

\* assign(): the same with one column, which may be cleared.
AssignArrive(r, g, c, a) ==
    /\ CustomerInOrg(g, c)
    /\ AgentInOrg(g, a)
    /\ Admit(r, Locals("assign", g, c, None, [agent |-> a], None), "write")

\* The columns of the body over the row's.
Patched(x, d, r) ==
    Customer(x.org,
             IF "facebookId" \in DOMAIN d THEN d["facebookId"] ELSE x.facebookId,
             IF "agent" \in DOMAIN d THEN d["agent"] ELSE x.agent,
             IF "crm" \in DOMAIN d THEN r ELSE x.crm,
             IF "facebookName" \in DOMAIN d THEN r ELSE x.facebookName)

\* repo.update: updateMany within the tenant.  No row may be left to update; a
\* Facebook id that another customer has is refused.
CustomerWrite(r) ==
    /\ At(r, "write")
    /\ LET c == ctx[r].customer
           g == ctx[r].org
           d == ctx[r].dto
           f == IF "facebookId" \in DOMAIN d THEN d["facebookId"] ELSE None
       IN
       \/ /\ ~CustomerInOrg(g, c)
          /\ Goto(r, "reread")
          /\ UNCHANGED <<row, history>>
       \/ /\ CustomerInOrg(g, c)
          /\ f # None /\ Person(g, f) \ {c} # {}
          /\ Goto(r, "refused")
          /\ UNCHANGED <<row, history>>
       \/ /\ CustomerInOrg(g, c)
          /\ f # None => Person(g, f) \subseteq {c}
          /\ row' = [row EXCEPT ![c] = Patched(row[c], d, r)]
          /\ written' = written \cup {r}
          /\ overtaken' = overtaken \cup Unsynced(g, f)
          /\ Goto(r, "reread")
    /\ UNCHANGED <<ctx, customers, items, item, pivots, audit>>

\* repo.update: findUniqueOrThrow (mutant: a missing row is not an error).
CustomerReread_Lenient(r) ==
    /\ At(r, "reread")
    /\ Goto(r, "audit")
    /\ UNCHANGED <<ctx, tables, audit, history>>

CustomerReread(r) ==
    /\ At(r, "reread")
    /\ Goto(r, IF ctx[r].customer \in customers THEN "audit" ELSE "refused")
    /\ UNCHANGED <<ctx, tables, audit, history>>

\* changeStatus(): findOne, setStatus within the tenant.
StatusArrive(r, g, c) ==
    /\ CustomerInOrg(g, c)
    /\ Admit(r, Locals("status", g, c, None, None, None), "setStatus")

StatusWrite(r) ==
    /\ At(r, "setStatus")
    /\ LET c == ctx[r].customer IN
       \/ /\ CustomerInOrg(ctx[r].org, c)
          /\ row' = [row EXCEPT ![c].crm = r]
          /\ written' = written \cup {r}
       \/ /\ ~CustomerInOrg(ctx[r].org, c)
          /\ UNCHANGED <<row, written>>
    /\ Goto(r, "audit")
    /\ UNCHANGED <<ctx, customers, items, item, pivots, audit, overtaken>>

\* remove(): findOne, deleteMany within the tenant and what cascades.
RemoveArrive(r, g, c) ==
    /\ CustomerInOrg(g, c)
    /\ Admit(r, Locals("remove", g, c, None, None, None), "delete")

RemoveDelete(r) ==
    /\ At(r, "delete")
    /\ LET gone == {c \in {ctx[r].customer} : CustomerInOrg(ctx[r].org, c)} IN
       /\ customers' = customers \ gone
       /\ items' = items \ CascadeItems(gone)
       /\ pivots' = pivots \ CascadePivots(gone)
    /\ Goto(r, "audit")
    /\ UNCHANGED <<ctx, row, item, audit, history>>

\* audit.log, the last write of a handler that has one; its errors are swallowed.
AuditLog(r) ==
    /\ At(r, "audit")
    /\ audit' \in {audit, audit \cup {r}}
    /\ Goto(r, "done")
    /\ UNCHANGED <<ctx, tables, history>>

-----------------------------------------------------------------------------
\* upsertByFacebookId: insert, or refresh the live fields of the row there is.
UpsertPerson(r, g, f) ==
    LET found == Person(g, f) IN
    /\ \/ /\ found = {}
          /\ customers' = customers \cup {r}
          /\ row' = [row EXCEPT ![r] = Customer(g, f, None, r, r)]
          /\ overtaken' = overtaken \cup (Unsynced(g, f) \ {r})
       \/ /\ found # {}
          /\ row' = [c \in CustomerIds |-> IF c \in found THEN Refreshed(row[c], r) ELSE row[c]]
          /\ UNCHANGED <<customers, overtaken>>
    /\ UNCHANGED <<items, item, pivots, audit, written>>

\* syncCustomer(): one upsert with what Messenger shows.
Sync(r, g, f) ==
    /\ Begin(r, Locals("sync", g, None, None, None, f), "done")
    /\ UpsertPerson(r, g, f)

\* addNote(), createOrder(): resolveCustomer looks the person up.
ResolveFind(r, g, f, op) ==
    \/ \E c \in FindPerson(g, f) :
           Admit(r, Locals(op, g, c, None, None, f), "checkCustomer")
    \/ /\ FindPerson(g, f) = {}
       /\ Admit(r, Locals(op, g, None, None, None, f), "upsert")

\* resolveCustomer(): nobody was found, so a placeholder named by its id is upserted.
ResolveUpsert(r) ==
    /\ At(r, "upsert")
    /\ LET g == ctx[r].org
           f == ctx[r].person
       IN
       /\ UpsertPerson(r, g, f)
       /\ \E c \in IF Person(g, f) = {} THEN {r} ELSE Person(g, f) :
              ctx' = [ctx EXCEPT ![r].customer = c]
    /\ Goto(r, "checkCustomer")

\* notes.create(), orders.create(): customerInOrg.
ResolveCheck(r) ==
    /\ At(r, "checkCustomer")
    /\ \/ /\ ~CustomerInOrg(ctx[r].org, ctx[r].customer)
          /\ Goto(r, "refused")
       \/ /\ CustomerInOrg(ctx[r].org, ctx[r].customer)
          /\ Goto(r, IF ctx[r].op = "extNote" THEN "insertNote" ELSE "insertOrder")
    /\ UNCHANGED <<ctx, tables, audit, history>>

\* NoteService.create(): customerInOrg.
NoteArrive(r, g, c) ==
    /\ CustomerInOrg(g, c)
    /\ Admit(r, Locals("createNote", g, c, None, None, None), "insertNote")

Insert(r, i, label) ==
    /\ items' = items \cup {r}
    /\ item' = [item EXCEPT ![r] = i]
    /\ Goto(r, label)

\* notes.create: refused by the foreign key when the customer has gone meanwhile.
NoteInsert(r) ==
    /\ At(r, "insertNote")
    /\ LET c == ctx[r].customer IN
       \/ /\ c \in customers
          /\ Insert(r, Item("note", ctx[r].org, c, r), "done")
       \/ /\ c \notin customers
          /\ Goto(r, "refused")
          /\ UNCHANGED <<items, item>>
    /\ UNCHANGED <<ctx, customers, row, pivots, audit, history>>

\* orders.create: as for a note; its number may be taken.
OrderInsert(r) ==
    /\ At(r, "insertOrder")
    /\ LET c == ctx[r].customer IN
       \/ /\ c \in customers
          /\ Insert(r, Item("order", ctx[r].org, c, r), "audit")
       \/ /\ Goto(r, "refused")
          /\ UNCHANGED <<items, item>>
    /\ UNCHANGED <<ctx, customers, row, pivots, audit, history>>

-----------------------------------------------------------------------------
\* TagService.create(): one insert.
CreateTag(r, g) ==
    /\ Begin(r, Locals("createTag", g, None, r, None, None), "done")
    /\ items' = items \cup {r}
    /\ item' = [item EXCEPT ![r] = Item("tag", g, None, r)]
    /\ UNCHANGED <<customers, row, pivots, audit, history>>

\* update() of a tag or a note: getOrThrow, updateMany within the tenant.
TagEditArrive(r, g, t) ==
    /\ Owns(g, t, "tag")
    /\ Admit(r, Locals("edit", g, None, t, None, None), "editItem")

NoteEditArrive(r, g, n) ==
    /\ Owns(g, n, "note")
    /\ Admit(r, Locals("edit", g, None, n, None, None), "editItem")

ItemEdit(r) ==
    /\ At(r, "editItem")
    /\ LET i == ctx[r].item IN
       \/ /\ item' = IF Owns(ctx[r].org, i, item[i].kind) THEN [item EXCEPT ![i].body = r]
                     ELSE item
          /\ Goto(r, "done")
       \/ /\ item[i].kind = "tag"  \* the name is taken
          /\ Goto(r, "refused")
          /\ UNCHANGED item
    /\ UNCHANGED <<ctx, customers, row, items, pivots, audit, history>>

\* remove() of a tag or a note: getOrThrow, deleteMany within the tenant; the
\* pairs of a tag go with it.
TagRemoveArrive(r, g, t) ==
    /\ Owns(g, t, "tag")
    /\ Admit(r, Locals("removeItem", g, None, t, None, None), "deleteItem")

NoteRemoveArrive(r, g, n) ==
    /\ Owns(g, n, "note")
    /\ Admit(r, Locals("removeItem", g, None, n, None, None), "deleteItem")

ItemDelete(r) ==
    /\ At(r, "deleteItem")
    /\ LET gone == {i \in {ctx[r].item} : Owns(ctx[r].org, i, item[i].kind)} IN
       /\ items' = items \ gone
       /\ pivots' = {p \in pivots : p[2] \notin gone}
    /\ Goto(r, "done")
    /\ UNCHANGED <<ctx, customers, row, item, audit, history>>

\* attach(): getOrThrow, then customerInOrg.
AttachArrive(r, g, t, c) ==
    /\ Owns(g, t, "tag")
    /\ Admit(r, Locals("attach", g, c, t, None, None), "checkTagged")

AttachCheck(r) ==
    /\ At(r, "checkTagged")
    /\ Goto(r, IF CustomerInOrg(ctx[r].org, ctx[r].customer) THEN "insertPivot" ELSE "refused")
    /\ UNCHANGED <<ctx, tables, audit, history>>

\* attach(): the pair is upserted by its two ids alone; a foreign key refuses it
\* when either has gone.
AttachInsert(r) ==
    /\ At(r, "insertPivot")
    /\ LET c == ctx[r].customer
           t == ctx[r].item
       IN
       \/ /\ c \in customers /\ t \in items
          /\ pivots' = pivots \cup {<<c, t>>}
          /\ Goto(r, "done")
       \/ /\ ~(c \in customers /\ t \in items)
          /\ Goto(r, "refused")
          /\ UNCHANGED pivots
    /\ UNCHANGED <<ctx, customers, row, items, item, audit, history>>

\* detach(): getOrThrow, then deleteMany of the pair; the customer is not asked for.
DetachArrive(r, g, t, c) ==
    /\ Owns(g, t, "tag")
    /\ Admit(r, Locals("detach", g, c, t, None, None), "deletePivot")

DetachDelete(r) ==
    /\ At(r, "deletePivot")
    /\ pivots' = pivots \ {<<ctx[r].customer, ctx[r].item>>}
    /\ Goto(r, "done")
    /\ UNCHANGED <<ctx, customers, row, items, item, audit, history>>

-----------------------------------------------------------------------------
\* The routes of each controller, called by somebody of tenant g.
CustomerRoutes(r, g) ==
    \/ \E f \in People \cup {None}, a \in Users \cup {None} : CreateCustomer(r, g, f, a)
    \/ \E c \in CustomerIds :
           \/ \E d \in Bodies : UpdateArrive(r, g, c, d)
           \/ \E a \in Users \cup {None} : AssignArrive(r, g, c, a)
           \/ StatusArrive(r, g, c) \/ RemoveArrive(r, g, c)

ExtensionRoutes(r, g) ==
    \E f \in People :
        Sync(r, g, f) \/ \E op \in {"extNote", "extOrder"} : ResolveFind(r, g, f, op)

TagRoutes(r, g) ==
    \/ CreateTag(r, g)
    \/ \E t \in ItemIds :
           \/ TagEditArrive(r, g, t) \/ TagRemoveArrive(r, g, t)
           \/ \E c \in customers : AttachArrive(r, g, t, c) \/ DetachArrive(r, g, t, c)

NoteRoutes(r, g) ==
    \/ \E c \in CustomerIds : NoteArrive(r, g, c)
    \/ \E n \in ItemIds : NoteEditArrive(r, g, n) \/ NoteRemoveArrive(r, g, n)

Arrive(r) ==
    \E g \in Orgs :
        CustomerRoutes(r, g) \/ ExtensionRoutes(r, g) \/ TagRoutes(r, g) \/ NoteRoutes(r, g)

Continue(r) ==
    \/ CustomerWrite(r) \/ CustomerReread(r) \/ StatusWrite(r) \/ RemoveDelete(r)
    \/ AuditLog(r)
    \/ ResolveUpsert(r) \/ ResolveCheck(r) \/ NoteInsert(r) \/ OrderInsert(r)
    \/ ItemEdit(r) \/ ItemDelete(r)
    \/ AttachCheck(r) \/ AttachInsert(r) \/ DetachDelete(r)

Next == \E r \in Requests : Arrive(r) \/ Continue(r)

Spec == Init /\ [][Next]_vars

-----------------------------------------------------------------------------
RowType == [org: Orgs \cup {None}, facebookId: People \cup {None}, agent: Users \cup {None},
            crm: CustomerIds, facebookName: CustomerIds \cup {None}]

ItemType == [kind: {"none", "tag", "note", "order"}, org: Orgs \cup {None},
             customer: CustomerIds \cup {None}, body: ItemIds]

Context == [op: Ops, org: Orgs \cup {None}, customer: CustomerIds \cup {None},
            item: ItemIds \cup {None}, dto: {None} \cup Bodies \cup [agent: Users \cup {None}],
            person: People \cup {None}]

\* Every column keeps its type, and no row refers to one that is gone.
TypeOK ==
    /\ pc \in [Requests -> Labels]
    /\ ctx \in [Requests -> Context]
    /\ customers \subseteq CustomerIds /\ row \in [CustomerIds -> RowType]
    /\ items \subseteq ItemIds /\ item \in [ItemIds -> ItemType]
    /\ pivots \subseteq customers \X items
    /\ audit \subseteq Requests
    /\ written \subseteq Requests /\ overtaken \subseteq Requests

\* Whatever refers across tables stays in its tenant: a customer's agent, a tagged
\* pair (which has no organization of its own), the customer of a note or an
\* order, though each was checked statements before it was written
\* (customer.service.ts:74-80, tag.service.ts:30-33, note.service.ts:15-21).
ReferencesStayInTenant ==
    /\ \A c \in customers : row[c].agent # None => UserOrg[row[c].agent] = row[c].org
    /\ \A p \in pivots : item[p[2]].kind = "tag" /\ item[p[2]].org = row[p[1]].org
    /\ \A i \in items : item[i].kind \in {"note", "order"} =>
           item[i].customer \in customers /\ row[item[i].customer].org = item[i].org

\* What the audit log says of customers and of the extension's orders happened: a
\* customer it shows created was inserted for its tenant, an update or an assignment
\* it shows met its row, also when the customer is deleted under it, a removed customer
\* is gone.  A change of status it shows met its row or came after the removal of the
\* customer: changeStatus logs CUSTOMER_UPDATE whether its updateMany met a row or not
\* (customer.service.ts:27-72, customer.repository.ts:36-41, 78-83).
AuditTellsTruth ==
    \A r \in audit : LET c == ctx[r].customer IN
        /\ ctx[r].op = "create" => row[r].org = ctx[r].org
        /\ ctx[r].op \in {"update", "assign"} => r \in written
        /\ ctx[r].op = "status" => r \in written \/ c \notin customers
        /\ ctx[r].op = "remove" => c \notin customers
        /\ ctx[r].op = "extOrder" => item[r].kind = "order"

\* A note or an order of the extension overwrites the live fields of a customer it
\* did not create only if that customer appeared after it had looked the person up
\* and found nobody (extension.service.ts:53-62).
PlaceholdersRace ==
    \A c \in customers : LET r == row[c].facebookName IN
        r # c /\ r \in Requests /\ ctx[r].op \in {"extNote", "extOrder"} => r \in overtaken

\* The columns the CRM owns change only by a request of the CRM that names the
\* customer, never by the extension (customer.repository.ts:101-107).
CrmDataIsOwned ==
    [][\A c \in customers \cap customers' :
           (row'[c].crm # row[c].crm \/ row'[c].agent # row[c].agent) =>
               \E r \in Requests : /\ pc'[r] # pc[r]
                                   /\ ctx[r].op \in {"update", "assign", "status"}
                                   /\ ctx[r].customer = c /\ ctx[r].org = row[c].org]_vars

\* A step of one tenant's request leaves the rows and the pairs of another alone,
\* though pairs are written and deleted by their ids only (tag.repository.ts:48-58).
TenantsAreIsolated ==
    [][\A r \in Requests : pc'[r] # pc[r] =>
           /\ \A c \in customers : row[c].org # ctx'[r].org => c \in customers' /\ row'[c] = row[c]
           /\ \A i \in items : item[i].org # ctx'[r].org => i \in items' /\ item'[i] = item[i]
           /\ \A p \in pivots : item[p[2]].org # ctx'[r].org => p \in pivots'
           /\ \A p \in pivots' \ pivots : item[p[2]].org = ctx'[r].org]_vars
=============================================================================
