---------------------------- MODULE StaffProofs ----------------------------
(***************************************************************************)
(* Proofs about Staff, for any number of tenants, users and requests.  The *)
(* invariant follows ownership along the way a role takes: from the row to *)
(* a sign-in, to a token, to a request past its guards, and to the row of  *)
(* another user of the same tenant.                                        *)
(***************************************************************************)
EXTENDS Staff, TLAPS

\* The organization g had an owner to begin with.
HadOwner(g) == \E v \in Users : UserOrg[v] = g /\ FirstRole[v] = "OWNER"

\* A request past its guards has a token, a target in the token's tenant, and a role.
PendingOK ==
    \A r \in Requests : pc[r] = "write" =>
        /\ ctx[r].by \in Token /\ ctx[r].target \in Users /\ ctx[r].role \in Roles
        /\ Tenant(ctx[r].by) = UserOrg[ctx[r].target]

\* Wherever the OWNER role is on its way, its organization had an owner.
RowsInherit == \A u \in Users : role[u] = "OWNER" => HadOwner(UserOrg[u])
SigningInherits == \A u \in Users : signing[u] = "OWNER" => HadOwner(UserOrg[u])
TokensInherit == \A t \in tokens : t.role = "OWNER" => HadOwner(Tenant(t))
PendingInherits ==
    \A r \in Requests : pc[r] = "write" /\ ctx[r].role = "OWNER" =>
        HadOwner(UserOrg[ctx[r].target])

IInv == TypeOK /\ PendingOK /\ RowsInherit /\ SigningInherits /\ TokensInherit /\ PendingInherits

-----------------------------------------------------------------------------
\* The permission matrix is nested by weight: a role of at least the weight of another
\* may do whatever the other may (permission.enum.ts:39, role.enum.ts:10).
THEOREM RolesAreNested ==
    \A a, b \in Roles : Weight(a) >= Weight(b) => Permissions(b) \subseteq Permissions(a)
<1>1. Permissions("OWNER") = Owning /\ Weight("OWNER") = 40
  BY DEF Permissions, Weight
<1>2. Permissions("ADMIN") = Administering /\ Weight("ADMIN") = 30
  BY DEF Permissions, Weight
<1>3. Permissions("MANAGER") = Supervising /\ Weight("MANAGER") = 20
  BY DEF Permissions, Weight
<1>4. Permissions("AGENT") = {} /\ Weight("AGENT") = 10
  BY DEF Permissions, Weight
<1>5. Supervising \subseteq Administering /\ Administering \subseteq Owning
  BY DEF Administering, Owning
<1> QED
  BY <1>1, <1>2, <1>3, <1>4, <1>5 DEF Roles

\* Who may change a role is who may appoint: no token below ADMIN gets past the guard of
\* PATCH /users/:id/role (user.controller.ts:41-47).
LEMMA ManagersOfUsers ==
    ASSUME NEW ro \in Roles, "USER_MANAGE" \in Permissions(ro)
    PROVE  ro \in {"OWNER", "ADMIN"}
BY DEF Roles, Permissions, Supervising

-----------------------------------------------------------------------------
LEMMA InitInv == Init => IInv
<1> SUFFICES ASSUME Init PROVE IInv
  OBVIOUS
<1>1. TypeOK
  BY StaffConstants DEF Init, TypeOK, Labels, Context
<1>2. PendingOK /\ PendingInherits /\ TokensInherit
  BY DEF Init, PendingOK, PendingInherits, TokensInherit
<1>3. RowsInherit
  BY DEF Init, RowsInherit, HadOwner
<1>4. SigningInherits
  BY StaffConstants DEF Init, SigningInherits, Roles
<1> QED
  BY <1>1, <1>2, <1>3, <1>4 DEF IInv

LEMMA SignInReadInv ==
    ASSUME IInv, NEW u \in Users, SignInRead(u)
    PROVE  IInv'
<1>1. TypeOK' /\ PendingOK'
  BY DEF IInv, TypeOK, PendingOK, SignInRead
<1>2. RowsInherit' /\ SigningInherits' /\ TokensInherit' /\ PendingInherits'
  BY DEF IInv, TypeOK, SignInRead, RowsInherit, SigningInherits, TokensInherit,
     PendingInherits, HadOwner
<1> QED
  BY <1>1, <1>2 DEF IInv

LEMMA SignInIssueInv ==
    ASSUME IInv, NEW u \in Users, SignInIssue(u)
    PROVE  IInv'
<1> DEFINE t == [user |-> u, role |-> signing[u]]
<1>1. t \in Token /\ tokens' = tokens \cup {t}
  BY DEF IInv, TypeOK, SignInIssue, Token
<1>2. TypeOK' /\ PendingOK'
  BY <1>1 DEF IInv, TypeOK, PendingOK, SignInIssue
<1>3. RowsInherit' /\ PendingInherits'
  BY DEF IInv, SignInIssue, RowsInherit, PendingInherits, HadOwner
<1>4. SigningInherits'
  BY StaffConstants DEF IInv, TypeOK, SignInIssue, SigningInherits, HadOwner, Roles
<1>5. TokensInherit'
  BY <1>1 DEF IInv, SigningInherits, TokensInherit, HadOwner, Tenant
<1> QED
  BY <1>2, <1>3, <1>4, <1>5 DEF IInv

LEMMA RunOutInv ==
    ASSUME IInv, NEW t \in tokens, RunOut(t)
    PROVE  IInv'
BY DEF IInv, TypeOK, PendingOK, RunOut, RowsInherit, SigningInherits, TokensInherit,
   PendingInherits, HadOwner

\* The guards: the target is in the token's tenant, and OWNER is granted by an owner's
\* token only.
LEMMA ArriveInv ==
    ASSUME IInv, NEW r \in Requests, NEW t \in tokens, NEW u \in Users, NEW ro \in Grants,
           ChangeRoleArrive(r, t, u, ro)
    PROVE  IInv'
<1> DEFINE c == [by |-> t, target |-> u, role |-> ro]
<1>1. t \in Token /\ ro \in Roles /\ c \in Context
  BY StaffConstants DEF IInv, TypeOK, Context
<1>2. /\ pc \in [Requests -> Labels] /\ pc' = [pc EXCEPT ![r] = "write"]
      /\ ctx \in [Requests -> Context] /\ ctx' = [ctx EXCEPT ![r] = c]
      /\ UNCHANGED <<role, signing, tokens>>
  BY DEF IInv, TypeOK, ChangeRoleArrive
<1>3. TypeOK'
  BY <1>1, <1>2 DEF IInv, TypeOK, Labels
<1>4. PendingOK'
  <2>1. UserOrg[u] = Tenant(t)
    BY DEF ChangeRoleArrive, InOrg
  <2> QED
    BY <1>1, <1>2, <2>1 DEF IInv, PendingOK
<1>5. RowsInherit' /\ SigningInherits' /\ TokensInherit'
  BY <1>2 DEF IInv, RowsInherit, SigningInherits, TokensInherit, HadOwner
<1>6. PendingInherits'
  <2>1. ro = "OWNER" => HadOwner(UserOrg[u])
    BY DEF ChangeRoleArrive, InOrg, MayGrant, IInv, TokensInherit
  <2> QED
    BY <1>2, <2>1 DEF IInv, PendingInherits, HadOwner
<1> QED
  BY <1>3, <1>4, <1>5, <1>6 DEF IInv

LEMMA WriteInv ==
    ASSUME IInv, NEW r \in Requests, ChangeRoleWrite(r)
    PROVE  IInv'
<1>1. /\ pc[r] = "write" /\ pc' = [pc EXCEPT ![r] = "done"]
      /\ role' = [role EXCEPT ![ctx[r].target] = ctx[r].role]
      /\ UNCHANGED <<ctx, signing, tokens>>
  BY DEF ChangeRoleWrite
<1>2. ctx[r].target \in Users /\ ctx[r].role \in Roles
  BY <1>1 DEF IInv, PendingOK
<1>3. TypeOK'
  BY <1>1, <1>2 DEF IInv, TypeOK, Labels
<1>4. PendingOK' /\ PendingInherits'
  BY <1>1 DEF IInv, TypeOK, PendingOK, PendingInherits, HadOwner
<1>5. RowsInherit'
  BY <1>1, <1>2 DEF IInv, TypeOK, RowsInherit, PendingInherits, HadOwner
<1>6. SigningInherits' /\ TokensInherit'
  BY <1>1 DEF IInv, SigningInherits, TokensInherit, HadOwner
<1> QED
  BY <1>3, <1>4, <1>5, <1>6 DEF IInv

LEMMA StepInv == IInv /\ [Next]_vars => IInv'
<1> SUFFICES ASSUME IInv, [Next]_vars PROVE IInv'
  OBVIOUS
<1>1. ASSUME NEW u \in Users, SignInRead(u) PROVE IInv'
  BY <1>1, SignInReadInv
<1>2. ASSUME NEW u \in Users, SignInIssue(u) PROVE IInv'
  BY <1>2, SignInIssueInv
<1>3. ASSUME NEW t \in tokens, RunOut(t) PROVE IInv'
  BY <1>3, RunOutInv
<1>4. ASSUME NEW r \in Requests, NEW t \in tokens, NEW u \in Users, NEW ro \in Grants,
             ChangeRoleArrive(r, t, u, ro)
      PROVE  IInv'
  BY <1>4, ArriveInv
<1>5. ASSUME NEW r \in Requests, ChangeRoleWrite(r) PROVE IInv'
  BY <1>5, WriteInv
<1>6. CASE UNCHANGED vars
  BY <1>6 DEF vars, IInv, TypeOK, PendingOK, RowsInherit, SigningInherits, TokensInherit,
     PendingInherits, HadOwner
<1> QED
  BY <1>1, <1>2, <1>3, <1>4, <1>5, <1>6 DEF Next

\* The inductive invariant of Staff holds in every reachable state.
THEOREM Invariance == Spec => []IInv
BY InitInv, StepInv, PTL DEF Spec

\* Every variable stays in its domain, whatever signs in and whoever is promoted.
THEOREM TypeCorrect == Spec => []TypeOK
<1>1. IInv => TypeOK
  BY DEF IInv
<1> QED
  BY <1>1, Invariance, PTL

\* Nobody comes to own an organization that never had an owner, through any chain of
\* grants, stale tokens and sign-ins (user.service.ts:56-64).
THEOREM OwnershipHasSource == Spec => []OwnershipIsInherited
<1>1. IInv => OwnershipIsInherited
  BY DEF IInv, RowsInherit, HadOwner, OwnershipIsInherited
<1> QED
  BY <1>1, Invariance, PTL

-----------------------------------------------------------------------------
\* No step gives an ownerless organization an owner, or the start of one.
LEMMA OwnerlessStep ==
    ASSUME IInv, [Next]_vars, NEW g \in Orgs, Ownerless(g)
    PROVE  Ownerless(g)'
<1>1. ASSUME NEW u \in Users, SignInRead(u) PROVE Ownerless(g)'
  BY <1>1 DEF IInv, TypeOK, SignInRead, Ownerless
<1>2. ASSUME NEW u \in Users, SignInIssue(u) PROVE Ownerless(g)'
  <2> DEFINE t == [user |-> u, role |-> signing[u]]
  <2>1. tokens' = tokens \cup {t} /\ (Tenant(t) = g => t.role # "OWNER")
    BY <1>2 DEF SignInIssue, Ownerless, Tenant
  <2>2. \A s \in tokens' : Tenant(s) = g => s.role # "OWNER"
    BY <2>1 DEF Ownerless
  <2>3. \A v \in Users : UserOrg[v] = g => signing'[v] # "OWNER"
    BY <1>2, StaffConstants DEF IInv, TypeOK, SignInIssue, Ownerless, Roles
  <2> QED
    BY <1>2, <2>2, <2>3 DEF SignInIssue, Ownerless
<1>3. ASSUME NEW t \in tokens, RunOut(t) PROVE Ownerless(g)'
  BY <1>3 DEF RunOut, Ownerless
<1>4. ASSUME NEW r \in Requests, NEW t \in tokens, NEW u \in Users, NEW ro \in Grants,
             ChangeRoleArrive(r, t, u, ro)
      PROVE  Ownerless(g)'
  <2>1. UserOrg[u] = g => ro # "OWNER"
    BY <1>4 DEF ChangeRoleArrive, InOrg, MayGrant, Ownerless
  <2>2. /\ pc \in [Requests -> Labels] /\ pc' = [pc EXCEPT ![r] = "write"]
        /\ ctx \in [Requests -> Context]
        /\ ctx' = [ctx EXCEPT ![r] = [by |-> t, target |-> u, role |-> ro]]
        /\ UNCHANGED <<role, signing, tokens>>
    BY <1>4 DEF IInv, TypeOK, ChangeRoleArrive
  <2> QED
    BY <2>1, <2>2 DEF Ownerless
<1>5. ASSUME NEW r \in Requests, ChangeRoleWrite(r) PROVE Ownerless(g)'
  <2>1. pc[r] = "write" /\ (UserOrg[ctx[r].target] = g => ctx[r].role # "OWNER")
    BY <1>5 DEF ChangeRoleWrite, Ownerless
  <2>2. \A u \in Users : UserOrg[u] = g => role'[u] # "OWNER"
    BY <1>5, <2>1 DEF IInv, TypeOK, ChangeRoleWrite, Ownerless
  <2>3. \A q \in Requests : pc'[q] = "write" => pc[q] = "write"
    BY <1>5 DEF IInv, TypeOK, ChangeRoleWrite
  <2> QED
    BY <1>5, <2>2, <2>3 DEF ChangeRoleWrite, Ownerless
<1>6. CASE UNCHANGED vars
  BY <1>6 DEF vars, Ownerless
<1> QED
  BY <1>1, <1>2, <1>3, <1>4, <1>5, <1>6 DEF Next

\* An organization without an owner, and without tokens of one, stays so for good: the
\* guard leaves nobody who could appoint one (user.service.ts:59).
THEOREM OwnerlessStays == Spec => OwnerlessForGood
<1>1. IInv /\ [Next]_vars => [\A g \in Orgs : Ownerless(g) => Ownerless(g)']_vars
  BY OwnerlessStep
<1> QED
  BY <1>1, Invariance, PTL DEF Spec, OwnerlessForGood

\* A role changes only by a request of the user's own tenant (user.service.ts:67-73).
THEOREM RolesAreTenantSafe == Spec => RolesChangeInTenant
<1> DEFINE A == \A u \in Users : role'[u] # role[u] =>
                    \E r \in Requests : /\ pc[r] = "write" /\ pc'[r] = "done"
                                        /\ Tenant(ctx[r].by) = UserOrg[u]
<1>1. IInv /\ [Next]_vars => [A]_vars
  <2> SUFFICES ASSUME IInv, Next PROVE A
    OBVIOUS
  <2>1. ASSUME NEW r \in Requests, ChangeRoleWrite(r) PROVE A
    <3>1. pc[r] = "write" /\ pc'[r] = "done"
      BY <2>1 DEF IInv, TypeOK, ChangeRoleWrite
    <3>2. Tenant(ctx[r].by) = UserOrg[ctx[r].target]
      BY <3>1 DEF IInv, PendingOK
    <3>3. \A u \in Users : role'[u] # role[u] => u = ctx[r].target
      BY <2>1 DEF IInv, TypeOK, ChangeRoleWrite
    <3> QED
      BY <3>1, <3>2, <3>3
  <2>2. role' = role => A
    OBVIOUS
  <2> QED
    BY <2>1, <2>2 DEF Next, SignInRead, SignInIssue, RunOut, ChangeRoleArrive
<1> QED
  BY <1>1, Invariance, PTL DEF Spec, RolesChangeInTenant
=============================================================================
