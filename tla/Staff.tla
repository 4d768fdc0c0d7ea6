------------------------------- MODULE Staff -------------------------------
(***************************************************************************)
(* The users of the tenants, their roles, and the access tokens that carry *)
(* a role to the guards (modules/user, common/guards, the permission       *)
(* matrix; signing in as in AuthSession).                                  *)
(*                                                                         *)
(* No guard reads the user's row: PermissionsGuard and changeRole trust    *)
(* the role in the token, which is the one the row had when login or       *)
(* refresh read it.  Users sign in again and again; a request changes one  *)
(* role.  What else a guarded request does is in the other modules.        *)
(***************************************************************************)
EXTENDS Naturals

CONSTANTS
    Orgs, Users,
    UserOrg,   \* the organization of each user
    FirstRole, \* the role each begins with
    Grants,    \* the roles requests ask for
    Requests,
    None

Roles == {"OWNER", "ADMIN", "MANAGER", "AGENT"}

ASSUME StaffConstants ==
    /\ UserOrg \in [Users -> Orgs]
    /\ FirstRole \in [Users -> Roles]
    /\ Grants \subseteq Roles
    /\ None \notin Users \cup Roles

VARIABLES
    pc,       \* the next statement of each PATCH /users/:id/role
    ctx,      \* its token, and the user and role it names
    role,     \* users.role
    signing,  \* of a user signing in: the role read from the row, not yet in a token
    tokens    \* access tokens that have not run out: their user and role

vars == <<pc, ctx, role, signing, tokens>>

Token == [user: Users, role: Roles]
Labels == {"new", "write", "done"}
Context == [by: Token \cup {None}, target: Users \cup {None}, role: Roles \cup {None}]

Init ==
    /\ pc = [r \in Requests |-> "new"]
    /\ ctx = [r \in Requests |-> [by |-> None, target |-> None, role |-> None]]
    /\ role = FirstRole
    /\ signing = [u \in Users |-> None]
    /\ tokens = {}

-----------------------------------------------------------------------------
\* The permissions beyond those every role has, which are CUSTOMER_CREATE, _READ and
\* _UPDATE, ORDER_CREATE and _READ, and NOTE_MANAGE.
Supervising == {"ORDER_UPDATE", "TAG_MANAGE", "ANALYTICS_READ"}
Administering == Supervising \cup {"CUSTOMER_DELETE", "ORDER_DELETE", "USER_MANAGE", "AUDIT_READ"}
Owning == Administering \cup {"ORG_MANAGE", "BILLING_MANAGE"}

\* permissionsForRole
Permissions(ro) == CASE ro = "OWNER"   -> Owning
                     [] ro = "ADMIN"   -> Administering
                     [] ro = "MANAGER" -> Supervising
                     [] OTHER          -> {}

\* ROLE_WEIGHT
Weight(ro) == CASE ro = "OWNER" -> 40 [] ro = "ADMIN" -> 30 [] ro = "MANAGER" -> 20 [] OTHER -> 10

\* The tenant of a request: the organization in its token.
Tenant(t) == UserOrg[t.user]

\* getInOrg.
InOrg(t, u) == UserOrg[u] = Tenant(t)

\* The guard of changeRole on the OWNER role (mutant: there is none).
MayGrant_All(t, ro) == TRUE
MayGrant(t, ro) == ro = "OWNER" => t.role = "OWNER"

-----------------------------------------------------------------------------
\* login() and refresh() read the user's row (mutant: a refresh copies the role of a
\* token there is).
SignInRead_Copies(u) ==
    /\ signing[u] = None
    /\ \/ \E t \in tokens : t.user = u /\ signing' = [signing EXCEPT ![u] = t.role]
       \/ signing' = [signing EXCEPT ![u] = role[u]]
    /\ UNCHANGED <<pc, ctx, role, tokens>>

SignInRead(u) ==
    /\ signing[u] = None
    /\ signing' = [signing EXCEPT ![u] = role[u]]
    /\ UNCHANGED <<pc, ctx, role, tokens>>

\* issueAndPersist(): the token carries the role that was read.
SignInIssue(u) ==
    /\ signing[u] # None
    /\ tokens' = tokens \cup {[user |-> u, role |-> signing[u]]}
    /\ signing' = [signing EXCEPT ![u] = None]
    /\ UNCHANGED <<pc, ctx, role>>

\* The lifetime of the tokens of one user and role passes.
RunOut(t) ==
    /\ t \in tokens
    /\ tokens' = tokens \ {t}
    /\ UNCHANGED <<pc, ctx, role, signing>>

\* changeRole(): past the guards with token t; getInOrg; the OWNER guard.
ChangeRoleArrive(r, t, u, ro) ==
    /\ pc[r] = "new"
    /\ "USER_MANAGE" \in Permissions(t.role)
    /\ InOrg(t, u)
    /\ MayGrant(t, ro)
    /\ ctx' = [ctx EXCEPT ![r] = [by |-> t, target |-> u, role |-> ro]]
    /\ pc' = [pc EXCEPT ![r] = "write"]
    /\ UNCHANGED <<role, signing, tokens>>

\* changeRole(): updateRole.
ChangeRoleWrite(r) ==
    /\ pc[r] = "write"
    /\ role' = [role EXCEPT ![ctx[r].target] = ctx[r].role]
    /\ pc' = [pc EXCEPT ![r] = "done"]
    /\ UNCHANGED <<ctx, signing, tokens>>

Next ==
    \/ \E u \in Users : SignInRead(u) \/ SignInIssue(u)
    \/ \E t \in tokens : RunOut(t)
    \/ \E r \in Requests :
           \/ \E t \in tokens, u \in Users, ro \in Grants : ChangeRoleArrive(r, t, u, ro)
           \/ ChangeRoleWrite(r)

Spec == Init /\ [][Next]_vars

\* A handler whose statement has completed goes on, and time passes; nobody has to
\* sign in or to change a role.
FairSpec ==
    /\ Spec
    /\ \A u \in Users : WF_vars(SignInIssue(u))
    /\ \A t \in Token : WF_vars(RunOut(t))
    /\ \A r \in Requests : WF_vars(ChangeRoleWrite(r))

-----------------------------------------------------------------------------
\* Every variable stays in its domain; a token has a role.
TypeOK ==
    /\ pc \in [Requests -> Labels]
    /\ ctx \in [Requests -> Context]
    /\ role \in [Users -> Roles]
    /\ signing \in [Users -> Roles \cup {None}]
    /\ tokens \subseteq Token

\* Ownership is only ever passed on: an owner's organization had one to begin with,
\* through however many grants, stale tokens and sign-ins (user.service.ts:56-64).
OwnershipIsInherited ==
    \A u \in Users : role[u] = "OWNER" =>
        \E v \in Users : UserOrg[v] = UserOrg[u] /\ FirstRole[v] = "OWNER"

\* No user of g is an owner, or about to be one, or holds a token of one.
Ownerless(g) ==
    /\ \A u \in Users : UserOrg[u] = g => role[u] # "OWNER" /\ signing[u] # "OWNER"
    /\ \A t \in tokens : Tenant(t) = g => t.role # "OWNER"
    /\ \A r \in Requests : pc[r] = "write" /\ UserOrg[ctx[r].target] = g => ctx[r].role # "OWNER"

\* An organization that has lost its last owner, and whose owners' tokens have run
\* out, stays without one for good: the OWNER guard leaves nobody who could appoint
\* one (user.service.ts:59; nothing keeps the last owner from being demoted).
OwnerlessForGood == [][\A g \in Orgs : Ownerless(g) => Ownerless(g)']_vars

\* A role changes only by a request whose token is of the same organization
\* (user.service.ts:67-73; updateRole itself is by id alone).
RolesChangeInTenant ==
    [][\A u \in Users : role'[u] # role[u] =>
           \E r \in Requests : /\ pc[r] = "write" /\ pc'[r] = "done"
                               /\ Tenant(ctx[r].by) = UserOrg[u]]_vars

\* A role once taken away takes effect: if u never has role ro again, the tokens that
\* say so run out and no sign-in renews them (auth.service.ts:129, user re-read).
DemotionTakesEffect ==
    \A t \in Token : <>[](role[t.user] # t.role) => <>[](t \notin tokens)
=============================================================================
