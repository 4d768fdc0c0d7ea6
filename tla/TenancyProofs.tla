--------------------------- MODULE TenancyProofs ---------------------------
(***************************************************************************)
(* Proofs about Tenancy, for any requests, slugs and draws of them,        *)
(* credentials, plans, configured lifetimes and bounds on the draws.       *)
(***************************************************************************)
EXTENDS Tenancy, TLAPS

\* The statements of a registration before its transaction has run, and its end without.
Uncommitted == {"new", "lookup", "commit", "refused"}

\* What the handler of r has behind it, told by the statement l it stands at and its
\* locals c.
HandlerOK(r, c, l) ==
    /\ l = "new" => c = Blank
    /\ l # "new" => c.op # "none"
    /\ l \in {"lookup", "commit", "ticket", "mail"} => c.op = "register"
    /\ l \in {"session", "reply"} => c.op \in {"register", "login"}
    /\ l = "patchOrg" => c.op = "patch"
    /\ c.op = "register" => c.name \in Names /\ c.slug \in {c.name} \cup Draws[c.name]

\* A tenant is there, with all its rows, once its registration is past the
\* transaction; tickets and mails come after.
RegisteredOK(r, c, l) ==
    /\ r \in users <=> c.op = "register" /\ l \notin Uncommitted
    /\ r \in users => c.user = r /\ org[r].slug = c.slug
    /\ l = "mail" => r \in tickets
    /\ r \in tickets => r \in users
    /\ r \in mailed => r \in tickets

\* Whoever c claims to be, its credentials are those of the owner it acts for.
Authentic(c) == c.user \in users /\ Knows(c.user, c.email, c.password)

SessionOK(r, c, l) ==
    /\ l \in {"session", "reply"} => Authentic(c)
    /\ r \in delivered => l = "done" /\ c.op \in {"register", "login"} /\ Authentic(c)
    /\ c.op = "patch" => c.caller \in delivered /\ c.user = ctx[c.caller].user
    /\ session[r] # NoSession => session[r] = Issue

RequestOK(r, c, l) == HandlerOK(r, c, l) /\ RegisteredOK(r, c, l) /\ SessionOK(r, c, l)

RequestsOK == \A r \in Requests : RequestOK(r, ctx[r], pc[r])

OneRowEach ==
    /\ orgs = users /\ subs = users
    /\ \A g, h \in orgs : org[g].slug = org[h].slug => g = h

IInv == TypeOK /\ OneRowEach /\ RequestsOK /\ SettingsAreTheOwners

-----------------------------------------------------------------------------
\* What any step of request r does at most to what the invariant says of others: its
\* credentials are told once, rows carry its name, and a slug that is there stays.
Mild(r) ==
    /\ pc[r] \notin {"done", "refused"} /\ config' = config
    /\ \A q \in Requests \ {r} : /\ pc'[q] = pc[q] /\ ctx'[q] = ctx[q]
                                 /\ session'[q] = session[q]
                                 /\ q \in users' <=> q \in users
                                 /\ q \in tickets' <=> q \in tickets
                                 /\ q \in mailed' <=> q \in mailed
                                 /\ q \in delivered' <=> q \in delivered
    /\ \A g \in users : g \in users' /\ org'[g].slug = org[g].slug
    /\ delivered \subseteq delivered'
    /\ pc[r] # "new" => /\ ctx'[r].email = ctx[r].email /\ ctx'[r].password = ctx[r].password
                        /\ ctx'[r].op = ctx[r].op /\ ctx'[r].caller = ctx[r].caller

\* The credentials of an owner are never told anew, nor those of a session.
LEMMA CredentialsStay ==
    ASSUME IInv, NEW r \in Requests, Mild(r), NEW q \in Requests, q \in users \cup delivered
    PROVE  /\ ctx'[q].email = ctx[q].email /\ ctx'[q].password = ctx[q].password
           /\ q \in delivered => ctx'[q].user = ctx[q].user
<1>1. RequestOK(q, ctx[q], pc[q])
  BY DEF IInv, RequestsOK
<1>2. pc[q] # "new" /\ (q \in delivered => q # r)
  BY <1>1 DEF RequestOK, RegisteredOK, SessionOK, Uncommitted, Mild
<1> QED
  BY <1>2 DEF Mild

LEMMA OthersStayOK ==
    ASSUME IInv, NEW r \in Requests, Mild(r), NEW q \in Requests, q # r
    PROVE  RequestOK(q, ctx[q], pc[q])'
<1>1. RequestOK(q, ctx[q], pc[q]) /\ pc'[q] = pc[q] /\ ctx'[q] = ctx[q]
  BY DEF IInv, RequestsOK, Mild
<1>2. HandlerOK(q, ctx[q], pc[q])'
  BY <1>1 DEF RequestOK, HandlerOK
<1>3. RegisteredOK(q, ctx[q], pc[q])'
  BY <1>1 DEF RequestOK, RegisteredOK, Mild
<1>4. SessionOK(q, ctx[q], pc[q])'
  <2>1. Authentic(ctx[q]) => Authentic(ctx[q])'
    <3>1. Authentic(ctx[q]) => ctx[q].user \in Requests /\ ctx[q].user \in users
      BY DEF IInv, TypeOK, Authentic
    <3> QED
      BY <1>1, <3>1, CredentialsStay DEF Authentic, Knows, Mild
  <2>2. ctx[q].op = "patch" => ctx[q].caller \in delivered' /\ ctx[q].user = ctx'[ctx[q].caller].user
    <3>1. ctx[q].op = "patch" => ctx[q].caller \in Requests /\ ctx[q].caller \in delivered
      BY <1>1 DEF RequestOK, SessionOK, IInv, TypeOK
    <3> QED
      BY <1>1, <3>1, CredentialsStay DEF RequestOK, SessionOK, Mild
  <2>3. Issue' = Issue
    BY DEF Mild, Issue
  <2> QED
    BY <1>1, <2>1, <2>2, <2>3 DEF RequestOK, SessionOK, Mild
<1> QED
  BY <1>2, <1>3, <1>4 DEF RequestOK

\* Request q was a PATCH of a caller who had presented the credentials of g's owner.
OwnersHand(g, q) ==
    ctx[q].op = "patch" /\ LET s == ctx[q].caller IN Knows(g, ctx[s].email, ctx[s].password)

\* What the owner of g has changed, or whoever knew its credentials, stays so.
LEMMA HandsStay ==
    ASSUME IInv, NEW r \in Requests, Mild(r), NEW g \in orgs, NEW q \in Requests, OwnersHand(g, q)
    PROVE  OwnersHand(g, q)'
<1>1. g \in Requests /\ g \in users
  BY DEF IInv, TypeOK, OneRowEach
<1>2. RequestOK(q, ctx[q], pc[q])
  BY DEF IInv, RequestsOK
<1>3. pc[q] # "new"
  BY <1>2 DEF RequestOK, HandlerOK, Blank, Locals, OwnersHand
<1>4. ctx'[q].op = ctx[q].op /\ ctx'[q].caller = ctx[q].caller
  BY <1>3 DEF Mild
<1>5. ctx[q].caller \in delivered /\ ctx[q].caller \in Requests
  BY <1>2 DEF RequestOK, SessionOK, IInv, TypeOK, OwnersHand
<1> QED
  BY <1>1, <1>4, <1>5, CredentialsStay DEF Knows, OwnersHand

LEMMA StepInv ==
    ASSUME IInv, NEW r \in Requests, Mild(r), TypeOK', OneRowEach', RequestOK(r, ctx[r], pc[r])',
           \A g \in orgs', f \in Columns :
               \/ org'[g][f] \in {g, None}
               \/ g \in orgs /\ org'[g][f] = org[g][f]
               \/ org'[g][f] = r /\ pc[r] = "patchOrg" /\ g = ctx[r].user
    PROVE  IInv'
<1>1. RequestsOK'
  BY OthersStayOK DEF RequestsOK
<1>2. SettingsAreTheOwners'
  <2> SUFFICES ASSUME NEW g \in orgs', NEW f \in Columns, org'[g][f] \notin {g, None}
               PROVE  \E q \in Requests : org'[g][f] = q /\ OwnersHand(g, q)'
    BY DEF SettingsAreTheOwners, OwnersHand
  <2>1. CASE g \in orgs /\ org'[g][f] = org[g][f]
    <3>1. PICK q \in Requests : org[g][f] = q /\ OwnersHand(g, q)
      BY <2>1 DEF IInv, SettingsAreTheOwners, OwnersHand
    <3> QED
      BY <2>1, <3>1, HandsStay
  <2>2. CASE org'[g][f] = r /\ pc[r] = "patchOrg" /\ g = ctx[r].user
    <3> DEFINE s == ctx[r].caller
    <3>1. /\ ctx[r].op = "patch" /\ ctx'[r].op = "patch" /\ ctx'[r].caller = s
          /\ s \in delivered /\ ctx[s].user = g
      BY <2>2 DEF IInv, RequestsOK, RequestOK, HandlerOK, SessionOK, Mild
    <3>2. s \in Requests /\ Authentic(ctx[s])
      BY <3>1 DEF IInv, RequestsOK, RequestOK, SessionOK, TypeOK
    <3>3. g \in users /\ g \in Requests /\ Knows(g, ctx[s].email, ctx[s].password)
      BY <3>1, <3>2 DEF Authentic, IInv, TypeOK
    <3>4. Knows(g, ctx[s].email, ctx[s].password)'
      BY <3>1, <3>2, <3>3, CredentialsStay DEF Knows
    <3> QED
      BY <2>2, <3>1, <3>4 DEF OwnersHand
  <2> QED
    BY <2>1, <2>2
<1> QED
  BY <1>1, <1>2 DEF IInv

-----------------------------------------------------------------------------
LEMMA InitInv == Init => IInv
<1> SUFFICES ASSUME Init PROVE IInv
  OBVIOUS
<1>1. TypeOK
  BY TenancyConstants DEF Init, TypeOK, Labels, Context, Blank, Locals, NoOrg, NewSub, NoSession
<1>2. OneRowEach
  BY DEF Init, OneRowEach
<1>3. RequestsOK
  BY DEF Init, RequestsOK, RequestOK, HandlerOK, RegisteredOK, SessionOK, Uncommitted, Blank, Locals
<1>4. SettingsAreTheOwners
  BY DEF Init, SettingsAreTheOwners
<1> QED
  BY <1>1, <1>2, <1>3, <1>4 DEF IInv

\* A step that changes nothing but the handler's own place and locals.
LEMMA LocalInv ==
    ASSUME IInv, NEW r \in Requests, NEW c \in Context, NEW l \in Labels,
           pc[r] \notin {"done", "refused"},
           pc' = [pc EXCEPT ![r] = l], ctx' = [ctx EXCEPT ![r] = c],
           UNCHANGED <<config, tenants, logins, crashed>>,
           pc[r] # "new" => /\ c.email = ctx[r].email /\ c.password = ctx[r].password
                            /\ c.op = ctx[r].op /\ c.caller = ctx[r].caller,
           HandlerOK(r, c, l), RegisteredOK(r, c, l),
           l \in {"session", "reply"} => Authentic(c),
           c.op = "patch" => c.caller \in delivered /\ c.user = ctx[c.caller].user
    PROVE  IInv'
<1>1. TypeOK /\ OneRowEach /\ RequestOK(r, ctx[r], pc[r])
  BY DEF IInv, RequestsOK
<1>2. pc'[r] = l /\ ctx'[r] = c /\ \A q \in Requests \ {r} : pc'[q] = pc[q] /\ ctx'[q] = ctx[q]
  BY <1>1 DEF TypeOK
<1>3. Mild(r)
  BY <1>2 DEF Mild, tenants, logins
<1>4. TypeOK'
  BY <1>1 DEF TypeOK, tenants, logins
<1>5. OneRowEach'
  BY <1>1 DEF OneRowEach, tenants
<1>6. RequestOK(r, ctx[r], pc[r])'
  <2>1. HandlerOK(r, c, l)' /\ RegisteredOK(r, c, l)'
    BY DEF HandlerOK, RegisteredOK, tenants, logins
  <2>2. l \in {"session", "reply"} => Authentic(c)'
    <3>1. Authentic(c) => c.user \in Requests
      BY <1>1 DEF TypeOK, Authentic
    <3> QED
      BY <1>3, <3>1, CredentialsStay DEF Authentic, Knows, tenants
  <2>3. r \notin delivered
    BY <1>1 DEF RequestOK, SessionOK
  <2>4. c.op = "patch" => c.caller \in delivered' /\ c.user = ctx'[c.caller].user
    <3>1. c.op = "patch" => c.caller \in Requests
      BY <1>1 DEF TypeOK
    <3> QED
      BY <1>3, <3>1, CredentialsStay DEF logins
  <2>5. session'[r] # NoSession => session'[r] = Issue'
    BY <1>1 DEF RequestOK, SessionOK, Issue, logins
  <2>6. SessionOK(r, c, l)'
    BY <2>2, <2>3, <2>4, <2>5 DEF SessionOK, logins
  <2> QED
    BY <1>2, <2>1, <2>6 DEF RequestOK
<1> QED
  BY <1>3, <1>4, <1>5, <1>6, StepInv DEF tenants

\* A request that has not begun is nobody's owner and has no ticket.
LEMMA NewIsNobody ==
    ASSUME IInv, NEW r \in Requests, pc[r] \in Uncommitted
    PROVE  r \notin users \cup tickets \cup mailed \cup delivered
BY DEF IInv, RequestsOK, RequestOK, RegisteredOK, SessionOK, Uncommitted

LEMMA RegisterArriveInv ==
    ASSUME IInv, NEW r \in Requests, NEW n \in Names, NEW e \in Emails, NEW p \in Passwords,
           RegisterArrive(r, n, e, p)
    PROVE  IInv'
<1> DEFINE c == Locals("register", n, e, p, None, None, {})
<1>1. /\ pc[r] = "new" /\ pc' = [pc EXCEPT ![r] = "lookup"] /\ ctx' = [ctx EXCEPT ![r] = c]
      /\ UNCHANGED <<config, tenants, logins, crashed>>
  BY DEF RegisterArrive, Goto
<1>2. c \in Context /\ c.op = "register" /\ c.name = n /\ c.slug = n
  BY TenancyConstants DEF Locals, Context
<1>3. r \notin users \cup tickets \cup mailed
  BY <1>1, NewIsNobody DEF Uncommitted
<1> HIDE DEF c
<1>4. HandlerOK(r, c, "lookup") /\ RegisteredOK(r, c, "lookup")
  BY <1>2, <1>3 DEF HandlerOK, RegisteredOK, Uncommitted
<1> QED
  BY <1>1, <1>2, <1>4, LocalInv DEF Labels

LEMMA LoginInv ==
    ASSUME IInv, NEW r \in Requests, NEW e \in Emails, NEW p \in Passwords, Login(r, e, p)
    PROVE  IInv'
<1>1. PICK u \in users \cup {None}, l \in {"session", "refused"} :
          /\ ctx' = [ctx EXCEPT ![r] = Locals("login", None, e, p, u, None, {})]
          /\ pc' = [pc EXCEPT ![r] = l]
          /\ l = "session" => u \in users /\ Knows(u, e, p)
  <2>1. CASE ctx' = [ctx EXCEPT ![r] = Locals("login", None, e, p, None, None, {})]
             /\ Goto(r, "refused")
    BY <2>1 DEF Goto
  <2>2. CASE \E u \in WithEmail(e) :
                 /\ ctx' = [ctx EXCEPT ![r] = Locals("login", None, e, p, u, None, {})]
                 /\ Goto(r, IF Knows(u, e, p) THEN "session" ELSE "refused")
    BY <2>2 DEF WithEmail, Goto
  <2> QED
    BY <2>1, <2>2 DEF Login
<1> DEFINE c == Locals("login", None, e, p, u, None, {})
<1>2. u \in Requests \cup {None}
  BY DEF IInv, TypeOK
<1>3. c \in Context /\ c.op = "login" /\ c.email = e /\ c.password = p /\ c.user = u
  BY <1>2, TenancyConstants DEF Locals, Context
<1>4. pc[r] = "new" /\ UNCHANGED <<config, tenants, logins, crashed>>
  BY DEF Login
<1>5. r \notin users \cup tickets \cup mailed
  BY <1>4, NewIsNobody DEF Uncommitted
<1>6. ctx' = [ctx EXCEPT ![r] = c]
  BY <1>1
<1> HIDE DEF c
<1>7. HandlerOK(r, c, l) /\ RegisteredOK(r, c, l)
  BY <1>1, <1>3, <1>5 DEF HandlerOK, RegisteredOK, Uncommitted
<1>8. l \in {"session", "reply"} => Authentic(c)
  BY <1>1, <1>3 DEF Authentic
<1>9. l \in Labels /\ pc' = [pc EXCEPT ![r] = l] /\ c.op # "patch"
  BY <1>1, <1>3 DEF Labels
<1> QED
  BY <1>3, <1>4, <1>6, <1>7, <1>8, <1>9, LocalInv

LEMMA PatchOrgArriveInv ==
    ASSUME IInv, NEW r \in Requests, NEW s \in Requests, NEW columns \in SUBSET Columns,
           PatchOrgArrive(r, s, columns)
    PROVE  IInv'
<1> DEFINE c == Locals("patch", None, None, None, TenantOf(s), s, columns)
<1>1. /\ pc[r] = "new" /\ s \in delivered /\ TenantOf(s) \in orgs
      /\ pc' = [pc EXCEPT ![r] = "patchOrg"] /\ ctx' = [ctx EXCEPT ![r] = c]
      /\ UNCHANGED <<config, tenants, logins, crashed>>
  BY DEF PatchOrgArrive, Goto
<1>2. TenantOf(s) \in Requests
  BY <1>1 DEF IInv, TypeOK
<1>3. c \in Context /\ c.op = "patch" /\ c.user = TenantOf(s) /\ c.caller = s
  BY <1>2, TenancyConstants DEF Locals, Context
<1>4. r \notin users \cup tickets \cup mailed
  BY <1>1, NewIsNobody DEF Uncommitted
<1> HIDE DEF c
<1>5. HandlerOK(r, c, "patchOrg") /\ RegisteredOK(r, c, "patchOrg")
  BY <1>3, <1>4 DEF HandlerOK, RegisteredOK
<1>6. c.caller \in delivered /\ c.user = ctx[c.caller].user
  BY <1>1, <1>3 DEF TenantOf
<1> QED
  BY <1>1, <1>3, <1>5, <1>6, LocalInv DEF Labels

\* However often a name is drawn for, the slug in hand is one of its own.
LEMMA SlugLookupInv ==
    ASSUME IInv, NEW r \in Requests, SlugLookup(r)
    PROVE  IInv'
<1>1. TypeOK /\ RequestOK(r, ctx[r], pc[r])
  BY DEF IInv, RequestsOK
<1>2. /\ pc[r] = "lookup" /\ ctx[r].op = "register" /\ ctx[r] \in Context
      /\ ctx[r].name \in Names /\ ctx[r].slug \in {ctx[r].name} \cup Draws[ctx[r].name]
      /\ UNCHANGED <<config, tenants, logins, crashed>>
  BY <1>1 DEF SlugLookup, At, RequestOK, HandlerOK, TypeOK
<1>3. r \notin users \cup tickets \cup mailed
  BY <1>2, NewIsNobody DEF Uncommitted
<1>4. CASE \E l \in {"commit", "refused"} : Goto(r, l) /\ UNCHANGED ctx
  <2>1. PICK l \in {"commit", "refused"} : Goto(r, l) /\ UNCHANGED ctx
    BY <1>4
  <2>2. ctx' = [ctx EXCEPT ![r] = ctx[r]] /\ pc' = [pc EXCEPT ![r] = l] /\ l \in Labels
    BY <1>1, <2>1 DEF TypeOK, Goto, Labels
  <2>3. HandlerOK(r, ctx[r], l) /\ RegisteredOK(r, ctx[r], l)
    BY <1>2, <1>3 DEF HandlerOK, RegisteredOK, Uncommitted
  <2> QED
    BY <1>2, <2>2, <2>3, LocalInv
<1>5. CASE /\ MayDraw(r) /\ UNCHANGED pc
           /\ \E s \in Draws[ctx[r].name] : ctx' = [ctx EXCEPT ![r].slug = s, ![r].attempt = @ + 1]
  <2>1. PICK s \in Draws[ctx[r].name] : ctx' = [ctx EXCEPT ![r].slug = s, ![r].attempt = @ + 1]
    BY <1>5
  <2> DEFINE c == [ctx[r] EXCEPT !.slug = s, !.attempt = ctx[r].attempt + 1]
  <2>2. ctx' = [ctx EXCEPT ![r] = c] /\ pc' = [pc EXCEPT ![r] = "lookup"]
    BY <1>1, <1>2, <1>5, <2>1 DEF TypeOK
  <2>3. s \in Slugs /\ s \in Draws[ctx[r].name]
    BY <1>2, TenancyConstants
  <2>4. ctx[r].attempt + 1 \in 0..MaxAttempts
    BY <1>2, <1>5, TenancyConstants DEF Context, MayDraw
  <2>5. /\ c \in Context /\ c.op = "register" /\ c.name = ctx[r].name /\ c.slug = s
        /\ c.email = ctx[r].email /\ c.password = ctx[r].password /\ c.caller = ctx[r].caller
    BY <1>2, <2>3, <2>4 DEF Context
  <2> HIDE DEF c
  <2>6. HandlerOK(r, c, "lookup") /\ RegisteredOK(r, c, "lookup")
    BY <1>2, <1>3, <2>3, <2>5 DEF HandlerOK, RegisteredOK, Uncommitted
  <2> QED
    BY <1>2, <2>2, <2>5, <2>6, LocalInv DEF Labels
<1> QED
  BY <1>4, <1>5 DEF SlugLookup

\* The transaction: the slug was free when it ran, and three rows were written at once.
LEMMA RegisterCommitInv ==
    ASSUME IInv, NEW r \in Requests, RegisterCommit(r)
    PROVE  IInv'
<1>1. TypeOK /\ OneRowEach /\ RequestOK(r, ctx[r], pc[r])
  BY DEF IInv, RequestsOK
<1>2. /\ pc[r] = "commit" /\ ctx[r].op = "register" /\ ctx[r] \in Context
      /\ ctx[r].name \in Names /\ ctx[r].slug \in {ctx[r].name} \cup Draws[ctx[r].name]
      /\ UNCHANGED <<config, logins, crashed>>
  BY <1>1 DEF RegisterCommit, At, RequestOK, HandlerOK, TypeOK
<1>3. r \notin users \cup tickets \cup mailed \cup delivered
  BY <1>2, NewIsNobody DEF Uncommitted
<1>4. CASE Goto(r, "refused") /\ UNCHANGED <<ctx, tenants>>
  <2>1. ctx' = [ctx EXCEPT ![r] = ctx[r]] /\ pc' = [pc EXCEPT ![r] = "refused"]
    BY <1>1, <1>4 DEF TypeOK, Goto
  <2>2. HandlerOK(r, ctx[r], "refused") /\ RegisteredOK(r, ctx[r], "refused")
    BY <1>2, <1>3 DEF HandlerOK, RegisteredOK, Uncommitted
  <2> QED
    BY <1>2, <1>4, <2>1, <2>2, LocalInv DEF Labels
<1>5. CASE /\ ~SlugTaken(ctx[r].slug)
           /\ orgs' = orgs \cup {r} /\ org' = [org EXCEPT ![r] = NewOrg(r)]
           /\ subs' = subs \cup {r} /\ users' = users \cup {r}
           /\ ctx' = [ctx EXCEPT ![r].user = r]
           /\ Goto(r, "ticket")
           /\ UNCHANGED sub
  <2> DEFINE c == [ctx[r] EXCEPT !.user = r]
  <2>1. /\ pc' = [pc EXCEPT ![r] = "ticket"] /\ ctx' = [ctx EXCEPT ![r] = c]
    BY <1>1, <1>5 DEF TypeOK, Goto
  <2>2. /\ c \in Context /\ c.op = "register" /\ c.name = ctx[r].name /\ c.slug = ctx[r].slug
        /\ c.email = ctx[r].email /\ c.password = ctx[r].password /\ c.caller = ctx[r].caller
        /\ c.user = r
    BY <1>2 DEF Context
  <2> HIDE DEF c
  <2>3. pc'[r] = "ticket" /\ ctx'[r] = c /\ \A q \in Requests \ {r} : pc'[q] = pc[q] /\ ctx'[q] = ctx[q]
    BY <1>1, <2>1 DEF TypeOK
  <2>4. NewOrg(r) \in [slug : Slugs \cup {None}, name : Requests \cup {None}, logo : Requests \cup {None}]
    BY <1>2 DEF Context, NewOrg
  <2>5. /\ org'[r] = NewOrg(r) /\ \A g \in Requests \ {r} : org'[g] = org[g]
        /\ org' \in [Requests -> [slug : Slugs \cup {None}, name : Requests \cup {None},
                                  logo : Requests \cup {None}]]
    BY <1>1, <1>5, <2>4 DEF TypeOK
  <2>6. org'[r].slug = ctx[r].slug /\ org'[r]["name"] = r /\ org'[r]["logo"] = None
    BY <2>5 DEF NewOrg
  <2>7. TypeOK'
    <3>1. pc' \in [Requests -> Labels] /\ ctx' \in [Requests -> Context]
      BY <1>1, <2>1, <2>2 DEF TypeOK, Labels
    <3>2. orgs' \cup subs' \cup users' \cup tickets' \cup mailed' \subseteq Requests
      BY <1>1, <1>2, <1>5 DEF TypeOK, logins
    <3> QED
      BY <1>1, <1>2, <1>5, <2>5, <3>1, <3>2 DEF TypeOK, logins
  <2>8. OneRowEach'
    <3>1. \A g \in orgs : g # r /\ g \in Requests /\ org[g].slug # ctx[r].slug
      BY <1>1, <1>3, <1>5 DEF OneRowEach, SlugTaken, TypeOK
    <3> QED
      BY <1>1, <1>5, <2>5, <2>6, <3>1 DEF OneRowEach
  <2>9. Mild(r)
    BY <1>1, <1>2, <1>3, <1>5, <2>2, <2>3, <2>5 DEF Mild, logins, TypeOK
  <2>10. RequestOK(r, ctx[r], pc[r])'
    <3>1. HandlerOK(r, ctx[r], pc[r])'
      BY <1>2, <2>2, <2>3 DEF HandlerOK
    <3>2. RegisteredOK(r, ctx[r], pc[r])'
      BY <1>2, <1>3, <1>5, <2>2, <2>3, <2>6 DEF RegisteredOK, Uncommitted, logins
    <3>3. SessionOK(r, ctx[r], pc[r])'
      BY <1>1, <1>2, <1>3, <2>2, <2>3 DEF RequestOK, SessionOK, Issue, logins
    <3> QED
      BY <3>1, <3>2, <3>3 DEF RequestOK
  <2>11. \A g \in orgs', f \in Columns :
             org'[g][f] \in {g, None} \/ (g \in orgs /\ org'[g][f] = org[g][f])
    BY <1>1, <1>5, <2>5, <2>6 DEF Columns, OneRowEach, TypeOK
  <2> QED
    BY <2>7, <2>8, <2>9, <2>10, <2>11, StepInv
<1> QED
  BY <1>4, <1>5 DEF RegisterCommit

\* A statement that goes on with the same locals and leaves the tenants alone.
LEMMA LoginsInv ==
    ASSUME IInv, NEW r \in Requests, NEW l \in Labels, pc[r] \notin {"done", "refused"},
           pc' = [pc EXCEPT ![r] = l],
           UNCHANGED <<ctx, config, tenants, crashed>>,
           tickets' \subseteq tickets \cup {r}, tickets \subseteq tickets',
           mailed' \subseteq mailed \cup {r}, mailed \subseteq mailed',
           delivered' \subseteq delivered \cup {r}, delivered \subseteq delivered',
           session' = session \/ session' = [session EXCEPT ![r] = Issue],
           Issue \in [announced : Nat, access : Nat, refresh : Nat, row : Nat],
           HandlerOK(r, ctx[r], l), RegisteredOK(r, ctx[r], l)',
           (l \in {"session", "reply"} \/ r \in delivered') => Authentic(ctx[r]),
           r \in delivered' => l = "done" /\ ctx[r].op \in {"register", "login"}
    PROVE  IInv'
<1>1. TypeOK /\ OneRowEach /\ RequestOK(r, ctx[r], pc[r])
  BY DEF IInv, RequestsOK
<1>2. /\ pc'[r] = l /\ ctx' = ctx /\ \A q \in Requests \ {r} : pc'[q] = pc[q]
      /\ \A q \in Requests \ {r} : session'[q] = session[q]
      /\ session'[r] \in {session[r], Issue}
      /\ session' \in [Requests -> [announced : Nat, access : Nat, refresh : Nat, row : Nat]]
  BY <1>1 DEF TypeOK
<1>3. Mild(r)
  BY <1>2 DEF Mild, tenants
<1>4. TypeOK'
  <2>1. orgs' \cup subs' \cup users' \cup tickets' \cup mailed' \subseteq Requests
    BY <1>1 DEF TypeOK, tenants
  <2>2. pc' \in [Requests -> Labels] /\ delivered' \subseteq Requests
    BY <1>1 DEF TypeOK
  <2> QED
    BY <1>1, <1>2, <2>1, <2>2 DEF TypeOK, tenants
<1>5. OneRowEach'
  BY <1>1 DEF OneRowEach, tenants
<1>6. RequestOK(r, ctx[r], pc[r])'
  <2>1. HandlerOK(r, ctx[r], pc[r])' /\ RegisteredOK(r, ctx[r], pc[r])'
    BY <1>2 DEF HandlerOK, RegisteredOK
  <2>2. Authentic(ctx[r]) => Authentic(ctx[r])'
    BY <1>2 DEF Authentic, Knows, tenants
  <2>3. ctx[r].op = "patch" => ctx[r].caller \in delivered'
    BY <1>1 DEF RequestOK, SessionOK
  <2>4. session'[r] # NoSession => session'[r] = Issue'
    BY <1>1, <1>2 DEF RequestOK, SessionOK, Issue
  <2>5. SessionOK(r, ctx[r], pc[r])'
    BY <1>1, <1>2, <2>2, <2>3, <2>4 DEF RequestOK, SessionOK
  <2> QED
    BY <2>1, <2>5 DEF RequestOK
<1> QED
  BY <1>3, <1>4, <1>5, <1>6, StepInv DEF tenants

\* Every configured lifetime is a number of seconds, by either grammar.
LEMMA LifetimesAreSeconds ==
    ASSUME NEW v \in Lifetimes
    PROVE  ParseTtl(v) \in Nat /\ JwtSeconds(v) \in Nat
<1>1. v.n \in Nat
  BY DEF Lifetimes
<1>2. Scale(v.unit) \in {1, 60, 3600, 86400}
  BY DEF Scale
<1>3. v.n * Scale(v.unit) \in Nat /\ v.n * 604800 \in Nat /\ v.n \div 1000 \in Nat
  BY <1>1, <1>2
<1>4. ParseTtl(v) \in Nat
  BY <1>3 DEF ParseTtl
<1>5. JwtSeconds(v) \in Nat
  <2>1. CASE v.unit \in Units
    BY <1>3, <2>1 DEF JwtSeconds, Units
  <2>2. CASE v.unit = "none"
    BY <1>3, <2>2 DEF JwtSeconds, Units
  <2>3. CASE v.unit \notin Units /\ v.unit # "none"
    BY <1>3, <2>3 DEF JwtSeconds
  <2> QED
    BY <2>1, <2>2, <2>3
<1> QED
  BY <1>4, <1>5

LEMMA IssueTyped ==
    ASSUME IInv
    PROVE  Issue \in [announced : Nat, access : Nat, refresh : Nat, row : Nat]
<1>1. config.access \in Lifetimes /\ config.refresh \in Lifetimes
  BY TenancyConstants DEF IInv, TypeOK
<1> QED
  BY <1>1, LifetimesAreSeconds DEF Issue

\* The statements of a registration or a login that lead to its reply.
LEMMA LoginStepsInv ==
    ASSUME IInv, NEW r \in Requests,
           CreateTicket(r) \/ SendVerification(r) \/ StartSession(r) \/ Reply(r)
    PROVE  IInv'
<1>1. TypeOK /\ RequestOK(r, ctx[r], pc[r])
  BY DEF IInv, RequestsOK
<1>2. pc[r] \in {"ticket", "mail"} => r \in users /\ Authentic(ctx[r])
  BY <1>1 DEF RequestOK, HandlerOK, RegisteredOK, Uncommitted, Authentic, Knows
<1>3. r \in delivered => pc[r] = "done"
  BY <1>1 DEF RequestOK, SessionOK
<1>4. CASE CreateTicket(r)
  <2>1. /\ pc[r] = "ticket" /\ pc' = [pc EXCEPT ![r] = "mail"] /\ tickets' = tickets \cup {r}
        /\ UNCHANGED <<ctx, config, tenants, mailed, session, delivered, crashed>>
    BY <1>4 DEF CreateTicket, At, Goto
  <2>2. HandlerOK(r, ctx[r], "mail") /\ RegisteredOK(r, ctx[r], "mail")'
    BY <1>1, <1>2, <2>1 DEF RequestOK, HandlerOK, RegisteredOK, Uncommitted, tenants
  <2> QED
    BY <1>3, <2>1, <2>2, IssueTyped, LoginsInv DEF Labels
<1>5. CASE SendVerification(r)
  <2>1. /\ pc[r] = "mail" /\ pc' = [pc EXCEPT ![r] = "session"] /\ mailed' = mailed \cup {r}
        /\ UNCHANGED <<ctx, config, tenants, tickets, session, delivered, crashed>>
    BY <1>5 DEF SendVerification, At, Goto
  <2>2. HandlerOK(r, ctx[r], "session") /\ RegisteredOK(r, ctx[r], "session")'
    BY <1>1, <1>2, <2>1 DEF RequestOK, HandlerOK, RegisteredOK, Uncommitted, tenants
  <2> QED
    BY <1>2, <1>3, <2>1, <2>2, IssueTyped, LoginsInv DEF Labels
<1>6. CASE StartSession(r)
  <2>1. /\ pc[r] = "session" /\ pc' = [pc EXCEPT ![r] = "reply"]
        /\ session' = [session EXCEPT ![r] = Issue]
        /\ UNCHANGED <<ctx, config, tenants, tickets, mailed, delivered, crashed>>
    BY <1>6 DEF StartSession, At, Goto
  <2>2. /\ HandlerOK(r, ctx[r], "reply") /\ RegisteredOK(r, ctx[r], "reply")'
        /\ Authentic(ctx[r])
    BY <1>1, <2>1 DEF RequestOK, HandlerOK, RegisteredOK, SessionOK, Uncommitted, tenants
  <2> QED
    BY <1>3, <2>1, <2>2, IssueTyped, LoginsInv DEF Labels
<1>7. CASE Reply(r)
  <2>1. /\ pc[r] = "reply" /\ pc' = [pc EXCEPT ![r] = "done"]
        /\ delivered' \in {delivered, delivered \cup {r}}
        /\ UNCHANGED <<ctx, config, tenants, tickets, mailed, session, crashed>>
    BY <1>7 DEF Reply, At, Goto
  <2>2. /\ HandlerOK(r, ctx[r], "done") /\ RegisteredOK(r, ctx[r], "done")'
        /\ Authentic(ctx[r]) /\ ctx[r].op \in {"register", "login"}
    BY <1>1, <2>1 DEF RequestOK, HandlerOK, RegisteredOK, SessionOK, Uncommitted, tenants
  <2> QED
    BY <2>1, <2>2, IssueTyped, LoginsInv DEF Labels
<1> QED
  BY <1>4, <1>5, <1>6, <1>7

\* A PATCH writes the columns it names of the tenant its session is of, and no other.
LEMMA PatchOrgWriteInv ==
    ASSUME IInv, NEW r \in Requests, PatchOrgWrite(r)
    PROVE  IInv'
<1> DEFINE g == ctx[r].user
<1>1. TypeOK /\ OneRowEach /\ RequestOK(r, ctx[r], pc[r])
  BY DEF IInv, RequestsOK
<1>2. /\ pc[r] = "patchOrg" /\ pc' = [pc EXCEPT ![r] = "done"] /\ ctx[r].op = "patch"
      /\ org' = [org EXCEPT ![g] = [f \in DOMAIN org[g] |-> IF f \in ctx[r].columns THEN r ELSE org[g][f]]]
      /\ UNCHANGED <<ctx, config, orgs, subs, sub, users, logins, crashed>>
  BY <1>1 DEF PatchOrgWrite, At, Goto, RequestOK, HandlerOK
<1>3. /\ pc'[r] = "done" /\ \A q \in Requests \ {r} : pc'[q] = pc[q]
      /\ r \notin delivered /\ ctx[r].caller \in delivered /\ g = ctx[ctx[r].caller].user
  BY <1>1, <1>2 DEF TypeOK, RequestOK, SessionOK
<1>4. g \in Requests /\ g \in users
  <2>1. ctx[r].caller \in Requests
    BY <1>1, <1>3 DEF TypeOK
  <2> QED
    BY <1>1, <1>3, <2>1 DEF IInv, TypeOK, RequestsOK, RequestOK, SessionOK, Authentic
<1>5. /\ DOMAIN org[g] = {"slug", "name", "logo"} /\ org[g].slug \in Slugs \cup {None}
      /\ org[g].name \in Requests \cup {None} /\ org[g].logo \in Requests \cup {None}
      /\ ctx[r].columns \subseteq Columns
  BY <1>1, <1>4 DEF TypeOK, Context
<1>6. /\ \A h \in Requests \ {g} : org'[h] = org[h]
      /\ org'[g] = [f \in {"slug", "name", "logo"} |-> IF f \in ctx[r].columns THEN r ELSE org[g][f]]
  BY <1>1, <1>2, <1>4, <1>5 DEF TypeOK
<1>7. org'[g].slug = org[g].slug /\ \A f \in Columns : org'[g][f] \in {r, org[g][f]}
  BY <1>5, <1>6 DEF Columns
<1>8. TypeOK'
  BY <1>1, <1>2, <1>4, <1>5, <1>6 DEF TypeOK, Labels, logins, Columns
<1>9. OneRowEach'
  BY <1>1, <1>2, <1>4, <1>6, <1>7 DEF OneRowEach, TypeOK
<1>10. Mild(r)
  BY <1>1, <1>2, <1>3, <1>6, <1>7 DEF Mild, TypeOK, logins
<1>11. RequestOK(r, ctx[r], pc[r])'
  <2>1. HandlerOK(r, ctx[r], pc[r])' /\ RegisteredOK(r, ctx[r], pc[r])'
    BY <1>1, <1>2, <1>3 DEF RequestOK, HandlerOK, RegisteredOK, Uncommitted, logins
  <2>2. SessionOK(r, ctx[r], pc[r])'
    BY <1>1, <1>2, <1>3 DEF RequestOK, SessionOK, Issue, logins
  <2> QED
    BY <2>1, <2>2 DEF RequestOK
<1>12. \A h \in orgs', f \in Columns :
           \/ h \in orgs /\ org'[h][f] = org[h][f]
           \/ org'[h][f] = r /\ pc[r] = "patchOrg" /\ h = ctx[r].user
  BY <1>1, <1>2, <1>6, <1>7 DEF TypeOK
<1> QED
  BY <1>8, <1>9, <1>10, <1>11, <1>12, StepInv

\* The upsert of a subscription meets a row that is there: its session's user is an
\* owner, whose tenant has one.
LEMMA PatchSubscriptionInv ==
    ASSUME IInv, NEW r \in Requests, NEW s \in Requests, NEW plan \in Plans,
           NEW seats \in Seats \cup {Default}, PatchSubscription(r, s, plan, seats)
    PROVE  IInv'
<1> DEFINE g == TenantOf(s)
           c == Locals("patch", None, None, None, g, s, {})
           kept == IF g \in subs THEN sub[g].seats ELSE 3
           new == [plan |-> plan, active |-> TRUE, seats |-> IF seats = Default THEN kept ELSE seats]
<1>1. TypeOK /\ OneRowEach /\ RequestOK(r, ctx[r], pc[r]) /\ RequestOK(s, ctx[s], pc[s])
  BY DEF IInv, RequestsOK
<1>2. /\ pc[r] = "new" /\ s \in delivered /\ pc' = [pc EXCEPT ![r] = "done"]
      /\ ctx' = [ctx EXCEPT ![r] = c] /\ subs' = subs \cup {g} /\ sub' = [sub EXCEPT ![g] = new]
      /\ UNCHANGED <<config, orgs, org, users, logins, crashed>>
  BY DEF PatchSubscription, Goto
<1>3. g \in users /\ g \in Requests /\ g \in subs /\ s # r /\ ctx[s].user = g
  BY <1>1, <1>2 DEF RequestOK, SessionOK, Authentic, TenantOf, OneRowEach, TypeOK
<1>4. c \in Context /\ c.op = "patch" /\ c.user = g /\ c.caller = s
  BY <1>3, TenancyConstants DEF Locals, Context
<1>5. new \in [plan : Plans, seats : Nat, active : BOOLEAN]
  <2>1. sub[g].seats \in Nat /\ seats \in Nat
    BY <1>1, <1>3, TenancyConstants DEF TypeOK, Default
  <2> QED
    BY <2>1
<1> HIDE DEF c, new, g
<1>6. /\ pc'[r] = "done" /\ ctx'[r] = c /\ ctx'[s] = ctx[s]
      /\ \A q \in Requests \ {r} : pc'[q] = pc[q] /\ ctx'[q] = ctx[q]
  BY <1>1, <1>2, <1>3 DEF TypeOK
<1>7. r \notin users \cup tickets \cup mailed \cup delivered
  BY <1>2, NewIsNobody DEF Uncommitted
<1>8. Mild(r)
  BY <1>2, <1>6 DEF Mild, logins
<1>9. TypeOK'
  <2>1. orgs' \cup subs' \cup users' \cup tickets' \cup mailed' \subseteq Requests
    BY <1>1, <1>2, <1>3 DEF TypeOK, logins
  <2>2. /\ pc' \in [Requests -> Labels] /\ ctx' \in [Requests -> Context]
        /\ sub' \in [Requests -> [plan : Plans, seats : Nat, active : BOOLEAN]]
    BY <1>1, <1>2, <1>4, <1>5 DEF TypeOK, Labels
  <2> QED
    BY <1>1, <1>2, <2>1, <2>2 DEF TypeOK, logins
<1>10. OneRowEach'
  BY <1>1, <1>2, <1>3 DEF OneRowEach
<1>11. RequestOK(r, ctx[r], pc[r])'
  <2>1. HandlerOK(r, ctx[r], pc[r])' /\ RegisteredOK(r, ctx[r], pc[r])'
    BY <1>2, <1>4, <1>6, <1>7 DEF HandlerOK, RegisteredOK, logins
  <2>2. SessionOK(r, ctx[r], pc[r])'
    BY <1>1, <1>2, <1>3, <1>4, <1>6, <1>7 DEF RequestOK, SessionOK, Issue, logins
  <2> QED
    BY <2>1, <2>2 DEF RequestOK
<1> QED
  BY <1>2, <1>8, <1>9, <1>10, <1>11, StepInv

LEMMA CrashInv ==
    ASSUME IInv, NEW r \in Requests, Crash(r)
    PROVE  IInv'
<1>1. UNCHANGED <<pc, ctx, config, tenants, logins>> /\ crashed' = crashed \cup {r}
  BY DEF Crash
<1>2. TypeOK'
  BY <1>1 DEF IInv, TypeOK, tenants, logins
<1> QED
  BY <1>1, <1>2 DEF IInv, OneRowEach, RequestsOK, RequestOK, HandlerOK, RegisteredOK, SessionOK,
     Authentic, Knows, Issue, SettingsAreTheOwners, tenants, logins

LEMMA NextInv == IInv /\ [Next]_vars => IInv'
<1> SUFFICES ASSUME IInv, [Next]_vars PROVE IInv'
  OBVIOUS
<1>1. ASSUME NEW r \in Requests, Arrive(r) PROVE IInv'
  BY <1>1, LoginInv, RegisterArriveInv, PatchOrgArriveInv, PatchSubscriptionInv DEF Arrive
<1>2. ASSUME NEW r \in Requests, Continue(r) PROVE IInv'
  BY <1>2, SlugLookupInv, RegisterCommitInv, LoginStepsInv, PatchOrgWriteInv DEF Continue
<1>3. ASSUME NEW r \in Requests, Crash(r) PROVE IInv'
  BY <1>3, CrashInv
<1>4. CASE UNCHANGED vars
  BY <1>4 DEF vars, tenants, logins, IInv, TypeOK, OneRowEach, RequestsOK, RequestOK, HandlerOK,
     RegisteredOK, SessionOK, Authentic, Knows, Issue, SettingsAreTheOwners
<1> QED
  BY <1>1, <1>2, <1>3, <1>4 DEF Next

\* The inductive invariant of Tenancy holds in every reachable state.
THEOREM Invariance == Spec => []IInv
BY InitInv, NextInv, PTL DEF Spec

\* Every column keeps its type, every lifetime is a number of seconds, and no
\* registration draws more slugs than it may, whoever takes them before it
\* (auth.service.ts:263-269).
THEOREM TypeCorrect == Spec => []TypeOK
<1>1. IInv => TypeOK
  BY DEF IInv
<1> QED
  BY <1>1, Invariance, PTL

\* However many registrations race for a slug and wherever each dies, tenants are there
\* with subscription and owner or not at all, slugs are unique, and a refused
\* registration leaves no ticket and no mail (auth.service.ts:55-74).
THEOREM TenantsComeWhole == Spec => []TenantsAreWhole
<1>1. IInv => TenantsAreWhole
  <2> SUFFICES ASSUME IInv PROVE TenantsAreWhole
    OBVIOUS
  <2>1. OneRowEach /\ tickets \subseteq Requests /\ mailed \subseteq Requests /\ orgs \subseteq Requests
    BY DEF IInv, TypeOK
  <2>2. \A r \in Requests : RegisteredOK(r, ctx[r], pc[r]) /\ HandlerOK(r, ctx[r], pc[r])
    BY DEF IInv, RequestsOK, RequestOK
  <2>3. \A g \in orgs : org[g].slug \in {ctx[g].name} \cup Draws[ctx[g].name]
    BY <2>1, <2>2 DEF OneRowEach, RegisteredOK, HandlerOK
  <2>4. \A r \in Requests :
            (ctx[r].op = "register" /\ pc[r] = "refused") => r \notin orgs \cup tickets \cup mailed
    BY <2>1, <2>2 DEF OneRowEach, RegisteredOK, Uncommitted
  <2>5. mailed \subseteq tickets /\ tickets \subseteq users
    BY <2>1, <2>2 DEF RegisteredOK
  <2> QED
    BY <2>1, <2>3, <2>4, <2>5 DEF OneRowEach, TenantsAreWhole
<1> QED
  BY <1>1, Invariance, PTL

\* Only a session whose login presented the e-mail and the password of a tenant's owner
\* ever changes its settings, also among tenants whose owners share one e-mail
\* (auth.service.ts:81-95, organization.service.ts:20-23).
THEOREM SettingsStayWithOwners == Spec => []SettingsAreTheOwners
<1>1. IInv => SettingsAreTheOwners
  BY DEF IInv
<1> QED
  BY <1>1, Invariance, PTL

\* For every configuration: where both grammars know the unit, what is announced, what
\* is signed and what is stored agree, and a blacklist entry outlasts the access token
\* it is for (token.service.ts:25-31, 89-104).
THEOREM LifetimesAgree == Spec => []SessionsLiveAsAnnounced
<1>1. IInv => SessionsLiveAsAnnounced
  <2> SUFFICES ASSUME IInv, NEW r \in Requests, session[r] # NoSession
               PROVE  /\ config.access.unit \in Units => session[r].announced = session[r].access
                      /\ config.refresh.unit \in Units => session[r].row = session[r].refresh
                      /\ (config.access.unit \in Units /\ ParseTtl(config.access) <= ParseTtl(config.refresh))
                            => session[r].access <= session[r].row
    BY DEF SessionsLiveAsAnnounced
  <2>1. session[r] = Issue
    BY DEF IInv, RequestsOK, RequestOK, SessionOK
  <2>2. ASSUME NEW v, v.unit \in Units PROVE ParseTtl(v) = JwtSeconds(v)
    <3>1. ParseTtl(v) = v.n * Scale(v.unit)
      BY <2>2 DEF ParseTtl
    <3>2. v.unit # "none"
      BY <2>2 DEF Units
    <3>3. JwtSeconds(v) = v.n * Scale(v.unit)
      BY <2>2, <3>2 DEF JwtSeconds
    <3> QED
      BY <3>1, <3>3
  <2>3. /\ session[r].announced = ParseTtl(config.access) /\ session[r].row = ParseTtl(config.refresh)
        /\ session[r].access = JwtSeconds(config.access) /\ session[r].refresh = JwtSeconds(config.refresh)
    BY <2>1 DEF Issue
  <2> QED
    BY <2>2, <2>3
<1> QED
  BY <1>1, Invariance, PTL
=============================================================================
