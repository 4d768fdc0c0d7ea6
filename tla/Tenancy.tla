------------------------------ MODULE Tenancy ------------------------------
(***************************************************************************)
(* How tenants come to be and how their owners find them again: register() *)
(* with its search for a free slug and its transaction (auth.service.ts),  *)
(* login by e-mail, the lifetimes of the session both start                *)
(* (token.service.ts), and the settings of an organization and its         *)
(* subscription (modules/organization, modules/subscription).              *)
(*                                                                         *)
(* A statement is an action and ids are named after the request that draws *)
(* them, as in AuthSession: organization r, its subscription and its owner *)
(* are those of registration r, session s the one request s started.  What *)
(* becomes of a session later (rotation, revocation, passwords) and what   *)
(* login notes beside it is the matter of AuthSession, roles that of       *)
(* Staff: every user here is an owner with the password it registered.     *)
(* Postgres adds the unique slug, the transaction and the atomic upsert.   *)
(***************************************************************************)
EXTENDS Integers, FiniteSets

CONSTANTS
    Requests,
    Slugs, Names,   \* names of organizations stand for the slug made of them
    Draws,          \* the slugs that a random suffix can make of a name
    Emails, Passwords,
    Plans, Seats,   \* what a subscription may be changed to
    Configs,        \* lifetimes the server may be configured with
    MaxAttempts,    \* slugs drawn before register() gives up; 5 in the code
    MaxCrashes,     \* how many handlers may die or fail half way
    None

Units == {"s", "m", "h", "d"}

\* A configured lifetime: a number and its unit; "none" is a bare number, any other
\* string a unit that only jsonwebtoken understands.
Lifetimes == [n : Nat, unit : STRING]

\* A subscription is changed without naming seats, or with a number of them.
Default == 0

ASSUME TenancyConstants ==
    /\ Names \subseteq Slugs
    /\ Draws \in [Names -> SUBSET Slugs] /\ \A n \in Names : Draws[n] # {}
    /\ Configs \subseteq [access : Lifetimes, refresh : Lifetimes]
    /\ Seats \subseteq Nat \ {Default} /\ "FREE" \in Plans
    /\ MaxAttempts \in Nat /\ MaxCrashes \in Nat
    /\ None \notin Requests \cup Slugs \cup Names \cup Emails \cup Passwords \cup Plans

VARIABLES
    pc, ctx,        \* the next statement of each request's handler, and its locals
    config,         \* jwt.accessExpiresIn and jwt.refreshExpiresIn
    orgs, org,      \* organizations: the rows, and their columns
    subs, sub,      \* subscriptions, by organization
    users,          \* users: each the owner of its organization
    tickets,        \* verification_tokens of type EMAIL_VERIFY
    mailed,         \* ... those handed to the mail queue
    session,        \* refresh_tokens and the tokens that go with them: their lifetimes
    delivered,      \* sessions whose tokens have reached a client
    crashed

tenants == <<orgs, org, subs, sub, users>>
logins == <<tickets, mailed, session, delivered>>
vars == <<pc, ctx, config, tenants, logins, crashed>>

Labels == {"new", "lookup", "commit", "ticket", "mail", "session", "reply",
           "patchOrg", "done", "refused"}
Columns == {"name", "logo"}

\* A handler's locals: the body of register or login (name, email, password), the slug
\* in hand, how many were drawn, the user found, and of a PATCH its caller's session
\* and the columns it names.
Locals(op, name, email, password, user, caller, columns) ==
    [op |-> op, name |-> name, email |-> email, password |-> password, user |-> user,
     caller |-> caller, columns |-> columns, slug |-> name, attempt |-> 0]

Blank == Locals("none", None, None, None, None, None, {})
NoOrg == [slug |-> None, name |-> None, logo |-> None]
NewSub == [plan |-> "FREE", seats |-> 3, active |-> FALSE]
NoSession == [announced |-> 0, access |-> 0, refresh |-> 0, row |-> 0]

Init ==
    /\ pc = [r \in Requests |-> "new"]
    /\ ctx = [r \in Requests |-> Blank]
    /\ config \in Configs
    /\ orgs = {} /\ org = [r \in Requests |-> NoOrg]
    /\ subs = {} /\ sub = [r \in Requests |-> NewSub]
    /\ users = {} /\ tickets = {} /\ mailed = {}
    /\ session = [r \in Requests |-> NoSession]
    /\ delivered = {} /\ crashed = {}

-----------------------------------------------------------------------------
\* parseTtl, in seconds.
Scale(unit) == CASE unit = "m" -> 60 [] unit = "h" -> 3600 [] unit = "d" -> 86400
                 [] OTHER -> 1

ParseTtl(v) == IF v.unit \in Units \cup {"none"} THEN v.n * Scale(v.unit) ELSE 900

\* How jsonwebtoken reads the same string as expiresIn: of a bare number it makes
\* milliseconds, and it knows weeks.
JwtSeconds(v) ==
    CASE v.unit \in Units -> v.n * Scale(v.unit)
      [] v.unit = "none" -> v.n \div 1000
      [] OTHER -> v.n * 604800

\* '15m' and '7d'
DefaultConfig == [access |-> [n |-> 15, unit |-> "m"], refresh |-> [n |-> 7, unit |-> "d"]]

\* issueTokens and the row persisted with them (mutant: the row gets the lifetime of
\* the access token).
Issue_AccessRow ==
    [announced |-> ParseTtl(config.access), access |-> JwtSeconds(config.access),
     refresh |-> JwtSeconds(config.refresh), row |-> ParseTtl(config.access)]

Issue ==
    [announced |-> ParseTtl(config.access), access |-> JwtSeconds(config.access),
     refresh |-> JwtSeconds(config.refresh), row |-> ParseTtl(config.refresh)]

\* May another slug be drawn (mutant: one too many)?
MayDraw_OneMore(r) == ctx[r].attempt <= MaxAttempts
MayDraw(r) == ctx[r].attempt < MaxAttempts

SlugTaken(s) == \E g \in orgs : org[g].slug = s

At(r, label) == pc[r] = label /\ r \notin crashed
Goto(r, label) == pc' = [pc EXCEPT ![r] = label]

-----------------------------------------------------------------------------
\* register(): what arrives.
RegisterArrive(r, name, email, password) ==
    /\ pc[r] = "new"
    /\ ctx' = [ctx EXCEPT ![r] = Locals("register", name, email, password, None, None, {})]
    /\ Goto(r, "lookup")
    /\ UNCHANGED <<config, tenants, logins, crashed>>

\* One turn of uniqueSlug's loop: a free slug is taken along, for a taken one another
\* is drawn, until too many were (mutant: draws without end).
SlugLookup_Endless(r) ==
    /\ At(r, "lookup")
    /\ \/ /\ ~SlugTaken(ctx[r].slug)
          /\ Goto(r, "commit")
          /\ UNCHANGED ctx
       \/ /\ SlugTaken(ctx[r].slug)
          /\ \E s \in Draws[ctx[r].name] : ctx' = [ctx EXCEPT ![r].slug = s]
          /\ UNCHANGED pc
    /\ UNCHANGED <<config, tenants, logins, crashed>>

SlugLookup(r) ==
    /\ At(r, "lookup")
    /\ \/ /\ ~SlugTaken(ctx[r].slug)
          /\ Goto(r, "commit")
          /\ UNCHANGED ctx
       \/ /\ SlugTaken(ctx[r].slug) /\ MayDraw(r)
          /\ \E s \in Draws[ctx[r].name] :
                ctx' = [ctx EXCEPT ![r].slug = s, ![r].attempt = @ + 1]
          /\ UNCHANGED pc
       \/ /\ SlugTaken(ctx[r].slug) /\ ~MayDraw(r)
          /\ Goto(r, "refused")
          /\ UNCHANGED ctx
    /\ UNCHANGED <<config, tenants, logins, crashed>>

NewOrg(r) == [slug |-> ctx[r].slug, name |-> r, logo |-> None]

\* The transaction: organization, subscription and owner, or nothing when the slug has
\* been taken since (mutant: three statements, of which the last two may not happen).
RegisterCommit_Torn(r) ==
    /\ At(r, "commit")
    /\ ~SlugTaken(ctx[r].slug)
    /\ orgs' = orgs \cup {r} /\ org' = [org EXCEPT ![r] = NewOrg(r)]
    /\ subs' \in {subs, subs \cup {r}}
    /\ users' = IF subs' = subs THEN users ELSE users \cup {r}
    /\ ctx' = [ctx EXCEPT ![r].user = r]
    /\ Goto(r, "ticket")
    /\ UNCHANGED <<config, sub, logins, crashed>>

RegisterCommit(r) ==
    /\ At(r, "commit")
    /\ \/ /\ SlugTaken(ctx[r].slug)
          /\ Goto(r, "refused")
          /\ UNCHANGED <<ctx, tenants>>
       \/ /\ ~SlugTaken(ctx[r].slug)
          /\ orgs' = orgs \cup {r} /\ org' = [org EXCEPT ![r] = NewOrg(r)]
          /\ subs' = subs \cup {r} /\ users' = users \cup {r}
          /\ ctx' = [ctx EXCEPT ![r].user = r]
          /\ Goto(r, "ticket")
          /\ UNCHANGED sub
    /\ UNCHANGED <<config, logins, crashed>>

\* sendVerification: the ticket, then the mail; nothing sends either again.
CreateTicket(r) ==
    /\ At(r, "ticket")
    /\ tickets' = tickets \cup {r}
    /\ Goto(r, "mail")
    /\ UNCHANGED <<ctx, config, tenants, mailed, session, delivered, crashed>>

SendVerification(r) ==
    /\ At(r, "mail")
    /\ mailed' = mailed \cup {r}
    /\ Goto(r, "session")
    /\ UNCHANGED <<ctx, config, tenants, tickets, session, delivered, crashed>>

\* startSession, for registrations and logins.
StartSession(r) ==
    /\ At(r, "session")
    /\ session' = [session EXCEPT ![r] = Issue]
    /\ Goto(r, "reply")
    /\ UNCHANGED <<ctx, config, tenants, tickets, mailed, delivered, crashed>>

\* The reply, which may be lost on its way.
Reply(r) ==
    /\ At(r, "reply")
    /\ delivered' \in {delivered, delivered \cup {r}}
    /\ Goto(r, "done")
    /\ UNCHANGED <<ctx, config, tenants, tickets, mailed, session, crashed>>

-----------------------------------------------------------------------------
\* findFirstByEmail: any row with the e-mail, in no order.
WithEmail(email) == {u \in users : ctx[u].email = email}
Knows(u, email, password) == ctx[u].email = email /\ ctx[u].password = password

\* login(): the user, then the password (mutant: the password is not compared).
Login_AnyPassword(r, email, password) ==
    /\ pc[r] = "new" /\ WithEmail(email) # {}
    /\ \E u \in WithEmail(email) :
          ctx' = [ctx EXCEPT ![r] = Locals("login", None, email, password, u, None, {})]
    /\ Goto(r, "session")
    /\ UNCHANGED <<config, tenants, logins, crashed>>

Login(r, email, password) ==
    /\ pc[r] = "new"
    /\ \/ /\ WithEmail(email) = {}
          /\ ctx' = [ctx EXCEPT ![r] = Locals("login", None, email, password, None, None, {})]
          /\ Goto(r, "refused")
       \/ \E u \in WithEmail(email) :
             /\ ctx' = [ctx EXCEPT ![r] = Locals("login", None, email, password, u, None, {})]
             /\ Goto(r, IF Knows(u, email, password) THEN "session" ELSE "refused")
    /\ UNCHANGED <<config, tenants, logins, crashed>>

\* The tenant of a session is that of its user, frozen in the token.
TenantOf(s) == ctx[s].user

\* updateCurrent(): getCurrent, then the columns the body names.
PatchOrgArrive(r, s, columns) ==
    /\ pc[r] = "new" /\ s \in delivered /\ TenantOf(s) \in orgs
    /\ ctx' = [ctx EXCEPT ![r] = Locals("patch", None, None, None, TenantOf(s), s, columns)]
    /\ Goto(r, "patchOrg")
    /\ UNCHANGED <<config, tenants, logins, crashed>>

PatchOrgWrite(r) ==
    /\ At(r, "patchOrg")
    /\ LET g == ctx[r].user IN
       org' = [org EXCEPT ![g] = [f \in DOMAIN @ |-> IF f \in ctx[r].columns THEN r ELSE @[f]]]
    /\ Goto(r, "done")
    /\ UNCHANGED <<ctx, config, orgs, subs, sub, users, logins, crashed>>

\* SubscriptionService.update: one upsert of plan, seats if named, and status.
PatchSubscription(r, s, plan, seats) ==
    /\ pc[r] = "new" /\ s \in delivered
    /\ LET g == TenantOf(s)
           kept == IF g \in subs THEN sub[g].seats ELSE 3
       IN  /\ subs' = subs \cup {g}
           /\ sub' = [sub EXCEPT ![g] = [plan |-> plan, active |-> TRUE,
                                         seats |-> IF seats = Default THEN kept ELSE seats]]
           /\ ctx' = [ctx EXCEPT ![r] = Locals("patch", None, None, None, g, s, {})]
    /\ Goto(r, "done")
    /\ UNCHANGED <<config, orgs, org, users, logins, crashed>>

-----------------------------------------------------------------------------
\* A handler dies, or its next statement fails; those already run stay.
Crash(r) ==
    /\ pc[r] \notin {"new", "done", "refused"} /\ r \notin crashed
    /\ Cardinality(crashed) < MaxCrashes
    /\ crashed' = crashed \cup {r}
    /\ UNCHANGED <<pc, ctx, config, tenants, logins>>

Arrive(r) ==
    \/ \E e \in Emails, p \in Passwords :
          \/ Login(r, e, p)
          \/ \E n \in Names : RegisterArrive(r, n, e, p)
    \/ \E s \in Requests :
          \/ \E columns \in SUBSET Columns : PatchOrgArrive(r, s, columns)
          \/ \E plan \in Plans, seats \in Seats \cup {Default} : PatchSubscription(r, s, plan, seats)

Continue(r) ==
    \/ SlugLookup(r) \/ RegisterCommit(r)
    \/ CreateTicket(r) \/ SendVerification(r)
    \/ StartSession(r) \/ Reply(r)
    \/ PatchOrgWrite(r)

Next == \E r \in Requests : Arrive(r) \/ Continue(r) \/ Crash(r)

Spec == Init /\ [][Next]_vars

\* The event loop resumes every handler whose statement has been answered.
FairSpec == Spec /\ \A r \in Requests : WF_vars(Continue(r))

-----------------------------------------------------------------------------
Context ==
    [op : {"none", "register", "login", "patch"}, name : Names \cup {None},
     email : Emails \cup {None}, password : Passwords \cup {None},
     user : Requests \cup {None}, caller : Requests \cup {None},
     columns : SUBSET Columns, slug : Slugs \cup {None}, attempt : 0..MaxAttempts]

\* Every column keeps its type; a registration never draws more slugs than it may
\* (auth.service.ts:266-269).
TypeOK ==
    /\ pc \in [Requests -> Labels]
    /\ ctx \in [Requests -> Context]
    /\ config \in Configs
    /\ orgs \cup subs \cup users \cup tickets \cup mailed \subseteq Requests
    /\ org \in [Requests -> [slug : Slugs \cup {None}, name : Requests \cup {None},
                             logo : Requests \cup {None}]]
    /\ sub \in [Requests -> [plan : Plans, seats : Nat, active : BOOLEAN]]
    /\ session \in [Requests -> [announced : Nat, access : Nat, refresh : Nat, row : Nat]]
    /\ delivered \subseteq Requests /\ crashed \subseteq Requests

\* Whatever registrations race for a slug, fail or die half way, a tenant is there as a
\* whole, with its subscription and an owner whose credentials are those of its
\* registration, or not at all; no two tenants share a slug; and a refused
\* registration has left nothing, neither rows nor mails (auth.service.ts:55-74).
TenantsAreWhole ==
    /\ orgs = subs /\ orgs = users
    /\ \A g, h \in orgs : org[g].slug = org[h].slug => g = h
    /\ \A g \in orgs : org[g].slug \in {ctx[g].name} \cup Draws[ctx[g].name]
    /\ \A r \in Requests :
          (ctx[r].op = "register" /\ pc[r] = "refused") => r \notin orgs \cup tickets \cup mailed
    /\ mailed \subseteq tickets /\ tickets \subseteq users

\* The settings of a tenant are as registered or as somebody left them who had
\* presented the e-mail and password of its owner, however many tenants share that
\* e-mail (organization.service.ts:20-23 over the session of auth.service.ts:81-95).
SettingsAreTheOwners ==
    \A g \in orgs : \A f \in Columns :
        org[g][f] \in {g, None} \cup
            {r \in Requests : LET s == ctx[r].caller IN
                ctx[r].op = "patch" /\ Knows(g, ctx[s].email, ctx[s].password)}

\* A lifetime in a unit of both grammars is the same everywhere: the one announced to
\* the client is that of its access token, the row ends with the refresh token it
\* stands for, and a blacklist entry, which lives as long as a row, outlasts an access
\* token that was to live no longer than a row (token.service.ts:25-31, 89-104).
SessionsLiveAsAnnounced ==
    \A r \in Requests : session[r] # NoSession =>
        /\ config.access.unit \in Units => session[r].announced = session[r].access
        /\ config.refresh.unit \in Units => session[r].row = session[r].refresh
        /\ (config.access.unit \in Units /\ ParseTtl(config.access) <= ParseTtl(config.refresh))
              => session[r].access <= session[r].row

\* Every registration, login and PATCH is answered, unless it dies: the search for a
\* slug ends even when every slug is taken (auth.service.ts:263-269).
EveryRequestAnswers ==
    \A r \in Requests : pc[r] # "new" ~> (pc[r] \in {"done", "refused"} \/ r \in crashed)
=============================================================================
