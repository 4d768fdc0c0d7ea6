------------------------- MODULE AuthSessionProofs -------------------------
(***************************************************************************)
(* Proofs about AuthSession, for every set of users and requests, every    *)
(* choice of mortal tokens and any number of crashes.                      *)
(***************************************************************************)
EXTENDS AuthSession, TLAPS

\* The statement a handler stands at tells its operation.
LabelsOK ==
    \A r \in Requests :
        /\ pc[r] = "new" => ctx[r] = Blank
        /\ pc[r] # "new" => ctx[r].user \in Users
        /\ pc[r] \in {"findToken", "burnFamily", "revokeToken", "refused"} => ctx[r].op = "refresh"
        /\ pc[r] \in {"createToken", "reply"} => ctx[r].op \in {"login", "refresh"}
        /\ pc[r] \in {"findLogout", "revokeLogout", "blacklistJti"} => ctx[r].op = "logout"
        /\ pc[r] = "sendMail" => ctx[r].op = "forgot"
        /\ pc[r] = "updatePassword" => ctx[r].op \in {"reset", "change"}
        /\ pc[r] = "markUsed" => ctx[r].op = "reset"
        /\ pc[r] = "revokeAll" => ctx[r].op \in {"reset", "change"}
        /\ pc[r] \in {"setVerified", "markVerified"} => ctx[r].op = "verify"

\* What the locals of each operation, and the rows written from them, are made of.
ContextOK ==
    /\ \A u \in Users : ctx[u] = Registered(u) /\ pc[u] = "done" /\ u \in rows
    /\ \A r \in Requests :
        /\ r \in rows <=> pc[r] \in {"reply", "done"} /\ ctx[r].op \in {"login", "refresh"}
        /\ ctx[r].op = "refresh" =>
              /\ ctx[r].token \in delivered
              /\ ctx[r].user = ctx[ctx[r].token].user
              /\ ctx[r].family = ctx[ctx[r].token].family
              /\ ctx[r].birth = ctx[ctx[r].token].birth
        /\ ctx[r].op \in {"login", "refresh"} => ctx[r].family \in Names
        /\ ctx[r].op = "logout" =>
              ctx[r].token \in delivered \cup {None} /\ ctx[r].access \in delivered
        /\ pc[r] \in {"findLogout", "revokeLogout"} => ctx[r].token \in delivered
        /\ ctx[r].op = "reset" =>
              /\ ctx[r].token \in Requests
              /\ ctx[ctx[r].token].op = "forgot"
              /\ ctx[r].user = ctx[ctx[r].token].user
        /\ ctx[r].op = "verify" => ctx[r].token = ctx[r].user

\* A family is named by a user or by a login that has begun.
FamilyOK ==
    /\ \A r \in Requests :
        ctx[r].op \in {"login", "refresh"} => pc[ctx[r].family] # "new"
    /\ \A f \in burned : pc[f] # "new"

Shape == TypeOK /\ LabelsOK /\ ContextOK /\ FamilyOK

\* A refresh creates its row only when the presented token is revoked.
RotationInv ==
    \A r \in Requests :
        ctx[r].op = "refresh" /\ (pc[r] = "createToken" \/ r \in rows)
            => ctx[r].token \in revoked

\* The sessions there are and the ones on their way.
Pending == Live \cup Issuing

\* PasswordEndsSessions and BurnEndsFamily, of the sessions on their way as well.
PasswordInv ==
    \A n \in Pending :
        ctx[n].birth # password[ctx[n].user] => Changing(ctx[n].user) \/ n \in raced

BurnInv ==
    /\ \A n \in Pending : ctx[n].family \in burned => n \in raced
    /\ \A r \in Requests : pc[r] = "burnFamily" => ctx[r].token \in revoked

\* The ends of rotation chains: live rows, and rows about to be created for a
\* token that is revoked already.
Tips == Live \cup {r \in Requests : pc[r] = "createToken"}

\* Two tips of one family are there by a race.  A refresh that has yet to revoke
\* its token replaces that token as the tip of the family, unless it has raced.
OneLiveInv ==
    /\ \A s, t \in Tips :
          s # t /\ ctx[s].family = ctx[t].family => s \in raced \/ t \in raced
    /\ \A r \in Requests : pc[r] = "revokeToken" =>
          /\ \A t \in Tips : t # ctx[r].token /\ ctx[t].family = ctx[r].family
                => r \in raced \/ t \in raced
          /\ ctx[r].token \in raced => r \in raced
          /\ ctx[r].token \in revoked => r \in raced

\* A reset past its mark has used its ticket; of two resets of a used ticket one raced.
ResetInv ==
    /\ \A r \in Requests :
          ctx[r].op = "reset" /\ pc[r] \in {"revokeAll", "done"} => ctx[r].token \in used
    /\ \A r, s \in Requests :
          /\ r # s /\ ctx[r].op = "reset" /\ ctx[s].op = "reset"
          /\ ctx[r].token = ctx[s].token /\ ctx[r].token \in used
          => r \in raced \/ s \in raced

\* A password was set by its user's registration, or by a request of that user; a
\* change about to write knows the password it replaces, or has been overtaken.
AuthorityInv ==
    /\ \A u \in Users :
          /\ ctx[password[u]].user = u
          /\ \/ password[u] = u
             \/ /\ password[u] \in Requests
                /\ pc[password[u]] \in {"markUsed", "revokeAll", "done"}
    /\ \A r \in Requests : ctx[r].op = "change" /\ pc[r] = "updatePassword" =>
           ctx[r].birth = password[ctx[r].user] \/ r \in raced

\* A logout that has come to its second half has found or made its token revoked.
LogoutInv ==
    \A r \in Requests : ctx[r].op = "logout" =>
        /\ pc[r] \in {"blacklistJti", "done"} => ctx[r].token \in revoked \cup {None}
        /\ pc[r] = "done" => ctx[r].access \in blacklist

-----------------------------------------------------------------------------
\* Every statement writes values of the columns' types.
LEMMA TypeOKStep == Shape /\ [Next]_vars => TypeOK'
<1> SUFFICES ASSUME Shape, [Next]_vars PROVE TypeOK'
  OBVIOUS
<1> USE NamesDistinct
    DEF Shape, TypeOK, LabelsOK, ContextOK, FamilyOK, Names, Context, Ops, Labels, Blank, Registered, Locals,
             Live, Admit, At, Goto, sessionVars, accountVars, clientVars
<1>1. ASSUME NEW r \in Requests, NEW u \in Users, LoginCheck(r, u) PROVE TypeOK'
  BY <1>1 DEF LoginCheck
<1>2. ASSUME NEW r \in Requests, NEW u \in Users, ForgotCreate(r, u) PROVE TypeOK'
  BY <1>2 DEF ForgotCreate
<1>3. ASSUME NEW r \in Requests, NEW t \in Names, RefreshArrive(r, t) PROVE TypeOK'
  BY <1>3 DEF RefreshArrive
<1>4. ASSUME NEW r \in Requests, NEW t \in Names \cup {None}, NEW a \in Names, LogoutArrive(r, t, a) PROVE TypeOK'
  BY <1>4 DEF LogoutArrive, Authorized
<1>5. ASSUME NEW r \in Requests, NEW k \in Names, ResetFind(r, k) PROVE TypeOK'
  BY <1>5 DEF ResetFind, IsReset, Redeemable
<1>6. ASSUME NEW r \in Requests, NEW k \in Names, VerifyFind(r, k) PROVE TypeOK'
  BY <1>6 DEF VerifyFind, IsVerify, Redeemable
<1>7. ASSUME NEW r \in Requests, NEW a \in Names, ChangeFind(r, a) PROVE TypeOK'
  BY <1>7 DEF ChangeFind, Authorized
<1>8. ASSUME NEW r \in Requests, RefreshFind(r) PROVE TypeOK'
  BY <1>8 DEF RefreshFind, Reused
<1>9. ASSUME NEW r \in Requests, RefreshBurn(r) PROVE TypeOK'
  BY <1>9 DEF RefreshBurn, FamilyRows, Issuing
<1>10. ASSUME NEW r \in Requests, RefreshRevoke(r) PROVE TypeOK'
  BY <1>10 DEF RefreshRevoke, Holding
<1>11. ASSUME NEW r \in Requests, CreateToken(r) PROVE TypeOK'
  BY <1>11 DEF CreateToken
<1>12. ASSUME NEW r \in Requests, Reply(r) PROVE TypeOK'
  BY <1>12 DEF Reply
<1>13. ASSUME NEW r \in Requests, LogoutFind(r) PROVE TypeOK'
  BY <1>13 DEF LogoutFind
<1>14. ASSUME NEW r \in Requests, LogoutRevoke(r) PROVE TypeOK'
  BY <1>14 DEF LogoutRevoke, Holding
<1>15. ASSUME NEW r \in Requests, LogoutBlacklist(r) PROVE TypeOK'
  <2>1. ctx[r].access \in delivered
    BY <1>15 DEF LogoutBlacklist
  <2> QED
    BY <1>15, <2>1 DEF LogoutBlacklist
<1>16. ASSUME NEW r \in Requests, ForgotMail(r) PROVE TypeOK'
  BY <1>16 DEF ForgotMail
<1>17. ASSUME NEW r \in Requests, UpdatePassword(r) PROVE TypeOK'
  BY <1>17 DEF UpdatePassword, Verified, AfterUpdate
<1>18. ASSUME NEW r \in Requests, ResetMark(r) PROVE TypeOK'
  BY <1>18 DEF ResetMark, Resetting
<1>19. ASSUME NEW r \in Requests, RevokeAll(r) PROVE TypeOK'
  BY <1>19 DEF RevokeAll, UserRows, Issuing
<1>20. ASSUME NEW r \in Requests, VerifySet(r) PROVE TypeOK'
  BY <1>20 DEF VerifySet
<1>21. ASSUME NEW r \in Requests, VerifyMark(r) PROVE TypeOK'
  BY <1>21 DEF VerifyMark
<1>22. ASSUME NEW r \in Requests, Crash(r) PROVE TypeOK'
  BY <1>22 DEF Crash
<1>23. ASSUME NEW n \in Names, Expire(n) PROVE TypeOK'
  BY <1>23 DEF Expire, IsReset
<1>24. CASE UNCHANGED vars
  BY <1>24 DEF vars
<1> QED
  BY <1>1, <1>2, <1>3, <1>4, <1>5, <1>6, <1>7, <1>8, <1>9, <1>10, <1>11, <1>12,
     <1>13, <1>14, <1>15, <1>16, <1>17, <1>18, <1>19, <1>20, <1>21, <1>22, <1>23, <1>24
  DEF Next, Arrive, Continue

\* Every handler follows the statements of its own operation.
LEMMA LabelsOKStep == Shape /\ [Next]_vars => LabelsOK'
<1> SUFFICES ASSUME Shape, [Next]_vars PROVE LabelsOK'
  OBVIOUS
<1> USE NamesDistinct
    DEF Shape, TypeOK, LabelsOK, ContextOK, FamilyOK, Names, Context, Ops, Labels, Blank, Registered, Locals,
             Live, Admit, At, Goto, sessionVars, accountVars, clientVars
<1>1. ASSUME NEW r \in Requests, NEW u \in Users, LoginCheck(r, u) PROVE LabelsOK'
  BY <1>1 DEF LoginCheck
<1>2. ASSUME NEW r \in Requests, NEW u \in Users, ForgotCreate(r, u) PROVE LabelsOK'
  BY <1>2 DEF ForgotCreate
<1>3. ASSUME NEW r \in Requests, NEW t \in Names, RefreshArrive(r, t) PROVE LabelsOK'
  BY <1>3 DEF RefreshArrive
<1>4. ASSUME NEW r \in Requests, NEW t \in Names \cup {None}, NEW a \in Names, LogoutArrive(r, t, a) PROVE LabelsOK'
  BY <1>4 DEF LogoutArrive, Authorized
<1>5. ASSUME NEW r \in Requests, NEW k \in Names, ResetFind(r, k) PROVE LabelsOK'
  BY <1>5 DEF ResetFind, IsReset, Redeemable
<1>6. ASSUME NEW r \in Requests, NEW k \in Names, VerifyFind(r, k) PROVE LabelsOK'
  BY <1>6 DEF VerifyFind, IsVerify, Redeemable
<1>7. ASSUME NEW r \in Requests, NEW a \in Names, ChangeFind(r, a) PROVE LabelsOK'
  BY <1>7 DEF ChangeFind, Authorized
<1>8. ASSUME NEW r \in Requests, RefreshFind(r) PROVE LabelsOK'
  BY <1>8 DEF RefreshFind, Reused
<1>9. ASSUME NEW r \in Requests, RefreshBurn(r) PROVE LabelsOK'
  BY <1>9 DEF RefreshBurn, FamilyRows, Issuing
<1>10. ASSUME NEW r \in Requests, RefreshRevoke(r) PROVE LabelsOK'
  BY <1>10 DEF RefreshRevoke, Holding
<1>11. ASSUME NEW r \in Requests, CreateToken(r) PROVE LabelsOK'
  BY <1>11 DEF CreateToken
<1>12. ASSUME NEW r \in Requests, Reply(r) PROVE LabelsOK'
  BY <1>12 DEF Reply
<1>13. ASSUME NEW r \in Requests, LogoutFind(r) PROVE LabelsOK'
  BY <1>13 DEF LogoutFind
<1>14. ASSUME NEW r \in Requests, LogoutRevoke(r) PROVE LabelsOK'
  BY <1>14 DEF LogoutRevoke, Holding
<1>15. ASSUME NEW r \in Requests, LogoutBlacklist(r) PROVE LabelsOK'
  BY <1>15 DEF LogoutBlacklist
<1>16. ASSUME NEW r \in Requests, ForgotMail(r) PROVE LabelsOK'
  BY <1>16 DEF ForgotMail
<1>17. ASSUME NEW r \in Requests, UpdatePassword(r) PROVE LabelsOK'
  BY <1>17 DEF UpdatePassword, Verified, AfterUpdate
<1>18. ASSUME NEW r \in Requests, ResetMark(r) PROVE LabelsOK'
  BY <1>18 DEF ResetMark, Resetting
<1>19. ASSUME NEW r \in Requests, RevokeAll(r) PROVE LabelsOK'
  BY <1>19 DEF RevokeAll, UserRows, Issuing
<1>20. ASSUME NEW r \in Requests, VerifySet(r) PROVE LabelsOK'
  BY <1>20 DEF VerifySet
<1>21. ASSUME NEW r \in Requests, VerifyMark(r) PROVE LabelsOK'
  BY <1>21 DEF VerifyMark
<1>22. ASSUME NEW r \in Requests, Crash(r) PROVE LabelsOK'
  BY <1>22 DEF Crash
<1>23. ASSUME NEW n \in Names, Expire(n) PROVE LabelsOK'
  BY <1>23 DEF Expire, IsReset
<1>24. CASE UNCHANGED vars
  BY <1>24 DEF vars
<1> QED
  BY <1>1, <1>2, <1>3, <1>4, <1>5, <1>6, <1>7, <1>8, <1>9, <1>10, <1>11, <1>12,
     <1>13, <1>14, <1>15, <1>16, <1>17, <1>18, <1>19, <1>20, <1>21, <1>22, <1>23, <1>24
  DEF Next, Arrive, Continue

\* The rows and tickets a handler was given keep saying what its locals say of them.
LEMMA ContextOKStep == Shape /\ [Next]_vars => ContextOK'
<1> SUFFICES ASSUME Shape, [Next]_vars PROVE ContextOK'
  OBVIOUS
<1> USE NamesDistinct
    DEF Shape, TypeOK, LabelsOK, ContextOK, FamilyOK, Names, Context, Ops, Labels, Blank, Registered, Locals,
             Live, Admit, At, Goto, sessionVars, accountVars, clientVars
<1>1. ASSUME NEW r \in Requests, NEW u \in Users, LoginCheck(r, u) PROVE ContextOK'
  BY <1>1 DEF LoginCheck
<1>2. ASSUME NEW r \in Requests, NEW u \in Users, ForgotCreate(r, u) PROVE ContextOK'
  BY <1>2 DEF ForgotCreate
<1>3. ASSUME NEW r \in Requests, NEW t \in Names, RefreshArrive(r, t) PROVE ContextOK'
  BY <1>3 DEF RefreshArrive
<1>4. ASSUME NEW r \in Requests, NEW t \in Names \cup {None}, NEW a \in Names, LogoutArrive(r, t, a) PROVE ContextOK'
  BY <1>4 DEF LogoutArrive, Authorized
<1>5. ASSUME NEW r \in Requests, NEW k \in Names, ResetFind(r, k) PROVE ContextOK'
  BY <1>5 DEF ResetFind, IsReset, Redeemable
<1>6. ASSUME NEW r \in Requests, NEW k \in Names, VerifyFind(r, k) PROVE ContextOK'
  BY <1>6 DEF VerifyFind, IsVerify, Redeemable
<1>7. ASSUME NEW r \in Requests, NEW a \in Names, ChangeFind(r, a) PROVE ContextOK'
  BY <1>7 DEF ChangeFind, Authorized
<1>8. ASSUME NEW r \in Requests, RefreshFind(r) PROVE ContextOK'
  BY <1>8 DEF RefreshFind, Reused
<1>9. ASSUME NEW r \in Requests, RefreshBurn(r) PROVE ContextOK'
  BY <1>9 DEF RefreshBurn, FamilyRows, Issuing
<1>10. ASSUME NEW r \in Requests, RefreshRevoke(r) PROVE ContextOK'
  BY <1>10 DEF RefreshRevoke, Holding
<1>11. ASSUME NEW r \in Requests, CreateToken(r) PROVE ContextOK'
  BY <1>11 DEF CreateToken
<1>12. ASSUME NEW r \in Requests, Reply(r) PROVE ContextOK'
  BY <1>12 DEF Reply
<1>13. ASSUME NEW r \in Requests, LogoutFind(r) PROVE ContextOK'
  BY <1>13 DEF LogoutFind
<1>14. ASSUME NEW r \in Requests, LogoutRevoke(r) PROVE ContextOK'
  BY <1>14 DEF LogoutRevoke, Holding
<1>15. ASSUME NEW r \in Requests, LogoutBlacklist(r) PROVE ContextOK'
  BY <1>15 DEF LogoutBlacklist
<1>16. ASSUME NEW r \in Requests, ForgotMail(r) PROVE ContextOK'
  BY <1>16 DEF ForgotMail
<1>17. ASSUME NEW r \in Requests, UpdatePassword(r) PROVE ContextOK'
  BY <1>17 DEF UpdatePassword, Verified, AfterUpdate
<1>18. ASSUME NEW r \in Requests, ResetMark(r) PROVE ContextOK'
  BY <1>18 DEF ResetMark, Resetting
<1>19. ASSUME NEW r \in Requests, RevokeAll(r) PROVE ContextOK'
  BY <1>19 DEF RevokeAll, UserRows, Issuing
<1>20. ASSUME NEW r \in Requests, VerifySet(r) PROVE ContextOK'
  BY <1>20 DEF VerifySet
<1>21. ASSUME NEW r \in Requests, VerifyMark(r) PROVE ContextOK'
  BY <1>21 DEF VerifyMark
<1>22. ASSUME NEW r \in Requests, Crash(r) PROVE ContextOK'
  BY <1>22 DEF Crash
<1>23. ASSUME NEW n \in Names, Expire(n) PROVE ContextOK'
  BY <1>23 DEF Expire, IsReset
<1>24. CASE UNCHANGED vars
  BY <1>24 DEF vars
<1> QED
  BY <1>1, <1>2, <1>3, <1>4, <1>5, <1>6, <1>7, <1>8, <1>9, <1>10, <1>11, <1>12,
     <1>13, <1>14, <1>15, <1>16, <1>17, <1>18, <1>19, <1>20, <1>21, <1>22, <1>23, <1>24
  DEF Next, Arrive, Continue

\* A family in use was opened by a login that has begun.
LEMMA FamilyOKStep == Shape /\ [Next]_vars => FamilyOK'
<1> SUFFICES ASSUME Shape, [Next]_vars PROVE FamilyOK'
  OBVIOUS
<1> USE NamesDistinct
    DEF Shape, TypeOK, LabelsOK, ContextOK, FamilyOK, Names, Context, Ops, Labels, Blank, Registered, Locals,
             Live, Admit, At, Goto, sessionVars, accountVars, clientVars
<1>1. ASSUME NEW r \in Requests, NEW u \in Users, LoginCheck(r, u) PROVE FamilyOK'
  BY <1>1 DEF LoginCheck
<1>2. ASSUME NEW r \in Requests, NEW u \in Users, ForgotCreate(r, u) PROVE FamilyOK'
  BY <1>2 DEF ForgotCreate
<1>3. ASSUME NEW r \in Requests, NEW t \in Names, RefreshArrive(r, t) PROVE FamilyOK'
  BY <1>3 DEF RefreshArrive
<1>4. ASSUME NEW r \in Requests, NEW t \in Names \cup {None}, NEW a \in Names, LogoutArrive(r, t, a) PROVE FamilyOK'
  BY <1>4 DEF LogoutArrive, Authorized
<1>5. ASSUME NEW r \in Requests, NEW k \in Names, ResetFind(r, k) PROVE FamilyOK'
  BY <1>5 DEF ResetFind, IsReset, Redeemable
<1>6. ASSUME NEW r \in Requests, NEW k \in Names, VerifyFind(r, k) PROVE FamilyOK'
  BY <1>6 DEF VerifyFind, IsVerify, Redeemable
<1>7. ASSUME NEW r \in Requests, NEW a \in Names, ChangeFind(r, a) PROVE FamilyOK'
  BY <1>7 DEF ChangeFind, Authorized
<1>8. ASSUME NEW r \in Requests, RefreshFind(r) PROVE FamilyOK'
  BY <1>8 DEF RefreshFind, Reused
<1>9. ASSUME NEW r \in Requests, RefreshBurn(r) PROVE FamilyOK'
  BY <1>9 DEF RefreshBurn, FamilyRows, Issuing
<1>10. ASSUME NEW r \in Requests, RefreshRevoke(r) PROVE FamilyOK'
  BY <1>10 DEF RefreshRevoke, Holding
<1>11. ASSUME NEW r \in Requests, CreateToken(r) PROVE FamilyOK'
  BY <1>11 DEF CreateToken
<1>12. ASSUME NEW r \in Requests, Reply(r) PROVE FamilyOK'
  BY <1>12 DEF Reply
<1>13. ASSUME NEW r \in Requests, LogoutFind(r) PROVE FamilyOK'
  BY <1>13 DEF LogoutFind
<1>14. ASSUME NEW r \in Requests, LogoutRevoke(r) PROVE FamilyOK'
  BY <1>14 DEF LogoutRevoke, Holding
<1>15. ASSUME NEW r \in Requests, LogoutBlacklist(r) PROVE FamilyOK'
  BY <1>15 DEF LogoutBlacklist
<1>16. ASSUME NEW r \in Requests, ForgotMail(r) PROVE FamilyOK'
  BY <1>16 DEF ForgotMail
<1>17. ASSUME NEW r \in Requests, UpdatePassword(r) PROVE FamilyOK'
  BY <1>17 DEF UpdatePassword, Verified, AfterUpdate
<1>18. ASSUME NEW r \in Requests, ResetMark(r) PROVE FamilyOK'
  BY <1>18 DEF ResetMark, Resetting
<1>19. ASSUME NEW r \in Requests, RevokeAll(r) PROVE FamilyOK'
  BY <1>19 DEF RevokeAll, UserRows, Issuing
<1>20. ASSUME NEW r \in Requests, VerifySet(r) PROVE FamilyOK'
  BY <1>20 DEF VerifySet
<1>21. ASSUME NEW r \in Requests, VerifyMark(r) PROVE FamilyOK'
  BY <1>21 DEF VerifyMark
<1>22. ASSUME NEW r \in Requests, Crash(r) PROVE FamilyOK'
  BY <1>22 DEF Crash
<1>23. ASSUME NEW n \in Names, Expire(n) PROVE FamilyOK'
  BY <1>23 DEF Expire, IsReset
<1>24. CASE UNCHANGED vars
  BY <1>24 DEF vars
<1> QED
  BY <1>1, <1>2, <1>3, <1>4, <1>5, <1>6, <1>7, <1>8, <1>9, <1>10, <1>11, <1>12,
     <1>13, <1>14, <1>15, <1>16, <1>17, <1>18, <1>19, <1>20, <1>21, <1>22, <1>23, <1>24
  DEF Next, Arrive, Continue

\* refresh() reaches its insert only over the revocation of the presented token.
LEMMA RotationInvStep == Shape /\ RotationInv /\ [Next]_vars => RotationInv'
<1> SUFFICES ASSUME Shape /\ RotationInv, [Next]_vars PROVE RotationInv'
  OBVIOUS
<1> USE NamesDistinct
    DEF Shape, TypeOK, LabelsOK, ContextOK, FamilyOK, Names, Context, Ops, Labels, Blank, Registered, Locals,
             Live, Admit, At, Goto, sessionVars, accountVars, clientVars, RotationInv
<1>1. ASSUME NEW r \in Requests, NEW u \in Users, LoginCheck(r, u) PROVE RotationInv'
  BY <1>1 DEF LoginCheck
<1>2. ASSUME NEW r \in Requests, NEW u \in Users, ForgotCreate(r, u) PROVE RotationInv'
  BY <1>2 DEF ForgotCreate
<1>3. ASSUME NEW r \in Requests, NEW t \in Names, RefreshArrive(r, t) PROVE RotationInv'
  BY <1>3 DEF RefreshArrive
<1>4. ASSUME NEW r \in Requests, NEW t \in Names \cup {None}, NEW a \in Names, LogoutArrive(r, t, a) PROVE RotationInv'
  BY <1>4 DEF LogoutArrive, Authorized
<1>5. ASSUME NEW r \in Requests, NEW k \in Names, ResetFind(r, k) PROVE RotationInv'
  BY <1>5 DEF ResetFind, IsReset, Redeemable
<1>6. ASSUME NEW r \in Requests, NEW k \in Names, VerifyFind(r, k) PROVE RotationInv'
  BY <1>6 DEF VerifyFind, IsVerify, Redeemable
<1>7. ASSUME NEW r \in Requests, NEW a \in Names, ChangeFind(r, a) PROVE RotationInv'
  BY <1>7 DEF ChangeFind, Authorized
<1>8. ASSUME NEW r \in Requests, RefreshFind(r) PROVE RotationInv'
  BY <1>8 DEF RefreshFind, Reused
<1>9. ASSUME NEW r \in Requests, RefreshBurn(r) PROVE RotationInv'
  BY <1>9 DEF RefreshBurn, FamilyRows, Issuing
<1>10. ASSUME NEW r \in Requests, RefreshRevoke(r) PROVE RotationInv'
  BY <1>10 DEF RefreshRevoke, Holding
<1>11. ASSUME NEW r \in Requests, CreateToken(r) PROVE RotationInv'
  BY <1>11 DEF CreateToken
<1>12. ASSUME NEW r \in Requests, Reply(r) PROVE RotationInv'
  BY <1>12 DEF Reply
<1>13. ASSUME NEW r \in Requests, LogoutFind(r) PROVE RotationInv'
  BY <1>13 DEF LogoutFind
<1>14. ASSUME NEW r \in Requests, LogoutRevoke(r) PROVE RotationInv'
  BY <1>14 DEF LogoutRevoke, Holding
<1>15. ASSUME NEW r \in Requests, LogoutBlacklist(r) PROVE RotationInv'
  BY <1>15 DEF LogoutBlacklist
<1>16. ASSUME NEW r \in Requests, ForgotMail(r) PROVE RotationInv'
  BY <1>16 DEF ForgotMail
<1>17. ASSUME NEW r \in Requests, UpdatePassword(r) PROVE RotationInv'
  BY <1>17 DEF UpdatePassword, Verified, AfterUpdate
<1>18. ASSUME NEW r \in Requests, ResetMark(r) PROVE RotationInv'
  BY <1>18 DEF ResetMark, Resetting
<1>19. ASSUME NEW r \in Requests, RevokeAll(r) PROVE RotationInv'
  BY <1>19 DEF RevokeAll, UserRows, Issuing
<1>20. ASSUME NEW r \in Requests, VerifySet(r) PROVE RotationInv'
  BY <1>20 DEF VerifySet
<1>21. ASSUME NEW r \in Requests, VerifyMark(r) PROVE RotationInv'
  BY <1>21 DEF VerifyMark
<1>22. ASSUME NEW r \in Requests, Crash(r) PROVE RotationInv'
  BY <1>22 DEF Crash
<1>23. ASSUME NEW n \in Names, Expire(n) PROVE RotationInv'
  BY <1>23 DEF Expire, IsReset
<1>24. CASE UNCHANGED vars
  BY <1>24 DEF vars
<1> QED
  BY <1>1, <1>2, <1>3, <1>4, <1>5, <1>6, <1>7, <1>8, <1>9, <1>10, <1>11, <1>12,
     <1>13, <1>14, <1>15, <1>16, <1>17, <1>18, <1>19, <1>20, <1>21, <1>22, <1>23, <1>24
  DEF Next, Arrive, Continue

\* A change of the hash, a revocation and an insert each keep sessions of an older
\* password covered: by the unfinished change, or by raced.
LEMMA PasswordInvStep == Shape /\ AuthorityInv /\ PasswordInv /\ [Next]_vars => PasswordInv'
<1> SUFFICES ASSUME Shape /\ AuthorityInv /\ PasswordInv, [Next]_vars PROVE PasswordInv'
  OBVIOUS
<1> USE NamesDistinct
    DEF Shape, TypeOK, LabelsOK, ContextOK, FamilyOK, Names, Context, Ops, Labels, Blank, Registered, Locals,
             Live, Admit, At, Goto, sessionVars, accountVars, clientVars, PasswordInv, Pending, Issuing, Changing
<1>1. ASSUME NEW r \in Requests, NEW u \in Users, LoginCheck(r, u) PROVE PasswordInv'
  BY <1>1 DEF LoginCheck
<1>2. ASSUME NEW r \in Requests, NEW u \in Users, ForgotCreate(r, u) PROVE PasswordInv'
  <2>1. \A n \in Pending' : n \in Pending /\ ctx'[n] = ctx[n]
    BY <1>2 DEF ForgotCreate
  <2>2. \A v \in Users : Changing(v) => Changing(v)'
    BY <1>2 DEF ForgotCreate
  <2>3. \A n \in Pending : ctx[n].user \in Users
    OBVIOUS
  <2> QED
    BY <1>2, <2>1, <2>2, <2>3 DEF ForgotCreate
<1>3. ASSUME NEW r \in Requests, NEW t \in Names, RefreshArrive(r, t) PROVE PasswordInv'
  <2>1. \A n \in Pending' : n \in Pending /\ ctx'[n] = ctx[n]
    BY <1>3 DEF RefreshArrive
  <2>2. \A v \in Users : Changing(v) => Changing(v)'
    BY <1>3 DEF RefreshArrive
  <2>3. \A n \in Pending : ctx[n].user \in Users
    OBVIOUS
  <2> QED
    BY <1>3, <2>1, <2>2, <2>3 DEF RefreshArrive
<1>4. ASSUME NEW r \in Requests, NEW t \in Names \cup {None}, NEW a \in Names, LogoutArrive(r, t, a) PROVE PasswordInv'
  <2>1. \A n \in Pending' : n \in Pending /\ ctx'[n] = ctx[n]
    BY <1>4 DEF LogoutArrive, Authorized
  <2>2. \A v \in Users : Changing(v) => Changing(v)'
    BY <1>4 DEF LogoutArrive
  <2>3. \A n \in Pending : ctx[n].user \in Users
    OBVIOUS
  <2> QED
    BY <1>4, <2>1, <2>2, <2>3 DEF LogoutArrive
<1>5. ASSUME NEW r \in Requests, NEW k \in Names, ResetFind(r, k) PROVE PasswordInv'
  <2>1. \A n \in Pending' : n \in Pending /\ ctx'[n] = ctx[n]
    BY <1>5 DEF ResetFind, IsReset, Redeemable
  <2>2. \A v \in Users : Changing(v) => Changing(v)'
    BY <1>5 DEF ResetFind
  <2>3. \A n \in Pending : ctx[n].user \in Users
    OBVIOUS
  <2> QED
    BY <1>5, <2>1, <2>2, <2>3 DEF ResetFind
<1>6. ASSUME NEW r \in Requests, NEW k \in Names, VerifyFind(r, k) PROVE PasswordInv'
  <2>1. \A n \in Pending' : n \in Pending /\ ctx'[n] = ctx[n]
    BY <1>6 DEF VerifyFind, IsVerify, Redeemable
  <2>2. \A v \in Users : Changing(v) => Changing(v)'
    BY <1>6 DEF VerifyFind
  <2>3. \A n \in Pending : ctx[n].user \in Users
    OBVIOUS
  <2> QED
    BY <1>6, <2>1, <2>2, <2>3 DEF VerifyFind
<1>7. ASSUME NEW r \in Requests, NEW a \in Names, ChangeFind(r, a) PROVE PasswordInv'
  <2>1. \A n \in Pending' : n \in Pending /\ ctx'[n] = ctx[n]
    BY <1>7 DEF ChangeFind, Authorized
  <2>2. \A v \in Users : Changing(v) => Changing(v)'
    BY <1>7 DEF ChangeFind
  <2>3. \A n \in Pending : ctx[n].user \in Users
    OBVIOUS
  <2> QED
    BY <1>7, <2>1, <2>2, <2>3 DEF ChangeFind
<1>8. ASSUME NEW r \in Requests, RefreshFind(r) PROVE PasswordInv'
  BY <1>8 DEF RefreshFind, Reused
<1>9. ASSUME NEW r \in Requests, RefreshBurn(r) PROVE PasswordInv'
  BY <1>9 DEF RefreshBurn, FamilyRows, Issuing
<1>10. ASSUME NEW r \in Requests, RefreshRevoke(r) PROVE PasswordInv'
  BY <1>10 DEF RefreshRevoke, Holding
<1>11. ASSUME NEW r \in Requests, CreateToken(r) PROVE PasswordInv'
  BY <1>11 DEF CreateToken
<1>12. ASSUME NEW r \in Requests, Reply(r) PROVE PasswordInv'
  BY <1>12 DEF Reply
<1>13. ASSUME NEW r \in Requests, LogoutFind(r) PROVE PasswordInv'
  BY <1>13 DEF LogoutFind
<1>14. ASSUME NEW r \in Requests, LogoutRevoke(r) PROVE PasswordInv'
  BY <1>14 DEF LogoutRevoke, Holding
<1>15. ASSUME NEW r \in Requests, LogoutBlacklist(r) PROVE PasswordInv'
  BY <1>15 DEF LogoutBlacklist
<1>16. ASSUME NEW r \in Requests, ForgotMail(r) PROVE PasswordInv'
  BY <1>16 DEF ForgotMail
<1>17. ASSUME NEW r \in Requests, UpdatePassword(r) PROVE PasswordInv'
  BY <1>17 DEF UpdatePassword, Verified, AfterUpdate
<1>18. ASSUME NEW r \in Requests, ResetMark(r) PROVE PasswordInv'
  BY <1>18 DEF ResetMark, Resetting
<1>19. ASSUME NEW r \in Requests, RevokeAll(r) PROVE PasswordInv'
  <2>1. ASSUME NEW n \in Pending'
        PROVE  n \in Pending /\ ctx[n].user \in Users /\ (ctx[n].user # ctx[r].user \/ n \in raced')
    BY <1>19, <2>1 DEF RevokeAll, UserRows
  <2>2. \A v \in Users : v # ctx[r].user => password[v] # r
    BY DEF AuthorityInv
  <2>3. \A v \in Users : v # ctx[r].user /\ Changing(v) => Changing(v)'
    BY <1>19, <2>2 DEF RevokeAll
  <2> QED
    BY <1>19, <2>1, <2>3 DEF RevokeAll
<1>20. ASSUME NEW r \in Requests, VerifySet(r) PROVE PasswordInv'
  BY <1>20 DEF VerifySet
<1>21. ASSUME NEW r \in Requests, VerifyMark(r) PROVE PasswordInv'
  BY <1>21 DEF VerifyMark
<1>22. ASSUME NEW r \in Requests, Crash(r) PROVE PasswordInv'
  BY <1>22 DEF Crash
<1>23. ASSUME NEW n \in Names, Expire(n) PROVE PasswordInv'
  BY <1>23 DEF Expire, IsReset
<1>24. CASE UNCHANGED vars
  BY <1>24 DEF vars
<1> QED
  BY <1>1, <1>2, <1>3, <1>4, <1>5, <1>6, <1>7, <1>8, <1>9, <1>10, <1>11, <1>12,
     <1>13, <1>14, <1>15, <1>16, <1>17, <1>18, <1>19, <1>20, <1>21, <1>22, <1>23, <1>24
  DEF Next, Arrive, Continue

\* revokeFamily ends the live rows and marks those it cannot see.
LEMMA BurnInvStep == Shape /\ BurnInv /\ [Next]_vars => BurnInv'
<1> SUFFICES ASSUME Shape /\ BurnInv, [Next]_vars PROVE BurnInv'
  OBVIOUS
<1> USE NamesDistinct
    DEF Shape, TypeOK, LabelsOK, ContextOK, FamilyOK, Names, Context, Ops, Labels, Blank, Registered, Locals,
             Live, Admit, At, Goto, sessionVars, accountVars, clientVars, BurnInv, Pending, Issuing
<1>1. ASSUME NEW r \in Requests, NEW u \in Users, LoginCheck(r, u) PROVE BurnInv'
  BY <1>1 DEF LoginCheck
<1>2. ASSUME NEW r \in Requests, NEW u \in Users, ForgotCreate(r, u) PROVE BurnInv'
  BY <1>2 DEF ForgotCreate
<1>3. ASSUME NEW r \in Requests, NEW t \in Names, RefreshArrive(r, t) PROVE BurnInv'
  BY <1>3 DEF RefreshArrive
<1>4. ASSUME NEW r \in Requests, NEW t \in Names \cup {None}, NEW a \in Names, LogoutArrive(r, t, a) PROVE BurnInv'
  BY <1>4 DEF LogoutArrive, Authorized
<1>5. ASSUME NEW r \in Requests, NEW k \in Names, ResetFind(r, k) PROVE BurnInv'
  BY <1>5 DEF ResetFind, IsReset, Redeemable
<1>6. ASSUME NEW r \in Requests, NEW k \in Names, VerifyFind(r, k) PROVE BurnInv'
  BY <1>6 DEF VerifyFind, IsVerify, Redeemable
<1>7. ASSUME NEW r \in Requests, NEW a \in Names, ChangeFind(r, a) PROVE BurnInv'
  BY <1>7 DEF ChangeFind, Authorized
<1>8. ASSUME NEW r \in Requests, RefreshFind(r) PROVE BurnInv'
  BY <1>8 DEF RefreshFind, Reused
<1>9. ASSUME NEW r \in Requests, RefreshBurn(r) PROVE BurnInv'
  BY <1>9 DEF RefreshBurn, FamilyRows, Issuing
<1>10. ASSUME NEW r \in Requests, RefreshRevoke(r) PROVE BurnInv'
  BY <1>10 DEF RefreshRevoke, Holding
<1>11. ASSUME NEW r \in Requests, CreateToken(r) PROVE BurnInv'
  BY <1>11 DEF CreateToken
<1>12. ASSUME NEW r \in Requests, Reply(r) PROVE BurnInv'
  BY <1>12 DEF Reply
<1>13. ASSUME NEW r \in Requests, LogoutFind(r) PROVE BurnInv'
  BY <1>13 DEF LogoutFind
<1>14. ASSUME NEW r \in Requests, LogoutRevoke(r) PROVE BurnInv'
  BY <1>14 DEF LogoutRevoke, Holding
<1>15. ASSUME NEW r \in Requests, LogoutBlacklist(r) PROVE BurnInv'
  BY <1>15 DEF LogoutBlacklist
<1>16. ASSUME NEW r \in Requests, ForgotMail(r) PROVE BurnInv'
  BY <1>16 DEF ForgotMail
<1>17. ASSUME NEW r \in Requests, UpdatePassword(r) PROVE BurnInv'
  BY <1>17 DEF UpdatePassword, Verified, AfterUpdate
<1>18. ASSUME NEW r \in Requests, ResetMark(r) PROVE BurnInv'
  BY <1>18 DEF ResetMark, Resetting
<1>19. ASSUME NEW r \in Requests, RevokeAll(r) PROVE BurnInv'
  BY <1>19 DEF RevokeAll, UserRows, Issuing
<1>20. ASSUME NEW r \in Requests, VerifySet(r) PROVE BurnInv'
  BY <1>20 DEF VerifySet
<1>21. ASSUME NEW r \in Requests, VerifyMark(r) PROVE BurnInv'
  BY <1>21 DEF VerifyMark
<1>22. ASSUME NEW r \in Requests, Crash(r) PROVE BurnInv'
  BY <1>22 DEF Crash
<1>23. ASSUME NEW n \in Names, Expire(n) PROVE BurnInv'
  BY <1>23 DEF Expire, IsReset
<1>24. CASE UNCHANGED vars
  BY <1>24 DEF vars
<1> QED
  BY <1>1, <1>2, <1>3, <1>4, <1>5, <1>6, <1>7, <1>8, <1>9, <1>10, <1>11, <1>12,
     <1>13, <1>14, <1>15, <1>16, <1>17, <1>18, <1>19, <1>20, <1>21, <1>22, <1>23, <1>24
  DEF Next, Arrive, Continue

\* A rotation replaces the tip of its family, or has raced.
LEMMA OneLiveInvStep == Shape /\ OneLiveInv /\ [Next]_vars => OneLiveInv'
<1> SUFFICES ASSUME Shape /\ OneLiveInv, [Next]_vars PROVE OneLiveInv'
  OBVIOUS
<1> USE NamesDistinct
    DEF Shape, TypeOK, LabelsOK, ContextOK, FamilyOK, Names, Context, Ops, Labels, Blank, Registered, Locals,
             Live, Admit, At, Goto, sessionVars, accountVars, clientVars, OneLiveInv, Tips, Issuing
<1>1. ASSUME NEW r \in Requests, NEW u \in Users, LoginCheck(r, u) PROVE OneLiveInv'
  BY <1>1 DEF LoginCheck
<1>2. ASSUME NEW r \in Requests, NEW u \in Users, ForgotCreate(r, u) PROVE OneLiveInv'
  BY <1>2 DEF ForgotCreate
<1>3. ASSUME NEW r \in Requests, NEW t \in Names, RefreshArrive(r, t) PROVE OneLiveInv'
  BY <1>3 DEF RefreshArrive
<1>4. ASSUME NEW r \in Requests, NEW t \in Names \cup {None}, NEW a \in Names, LogoutArrive(r, t, a) PROVE OneLiveInv'
  BY <1>4 DEF LogoutArrive, Authorized
<1>5. ASSUME NEW r \in Requests, NEW k \in Names, ResetFind(r, k) PROVE OneLiveInv'
  BY <1>5 DEF ResetFind, IsReset, Redeemable
<1>6. ASSUME NEW r \in Requests, NEW k \in Names, VerifyFind(r, k) PROVE OneLiveInv'
  BY <1>6 DEF VerifyFind, IsVerify, Redeemable
<1>7. ASSUME NEW r \in Requests, NEW a \in Names, ChangeFind(r, a) PROVE OneLiveInv'
  BY <1>7 DEF ChangeFind, Authorized
<1>8. ASSUME NEW r \in Requests, RefreshFind(r) PROVE OneLiveInv'
  BY <1>8 DEF RefreshFind, Reused
<1>9. ASSUME NEW r \in Requests, RefreshBurn(r) PROVE OneLiveInv'
  BY <1>9 DEF RefreshBurn, FamilyRows, Issuing
<1>10. ASSUME NEW r \in Requests, RefreshRevoke(r) PROVE OneLiveInv'
  BY <1>10 DEF RefreshRevoke, Holding
<1>11. ASSUME NEW r \in Requests, CreateToken(r) PROVE OneLiveInv'
  BY <1>11 DEF CreateToken
<1>12. ASSUME NEW r \in Requests, Reply(r) PROVE OneLiveInv'
  BY <1>12 DEF Reply
<1>13. ASSUME NEW r \in Requests, LogoutFind(r) PROVE OneLiveInv'
  BY <1>13 DEF LogoutFind
<1>14. ASSUME NEW r \in Requests, LogoutRevoke(r) PROVE OneLiveInv'
  BY <1>14 DEF LogoutRevoke, Holding
<1>15. ASSUME NEW r \in Requests, LogoutBlacklist(r) PROVE OneLiveInv'
  BY <1>15 DEF LogoutBlacklist
<1>16. ASSUME NEW r \in Requests, ForgotMail(r) PROVE OneLiveInv'
  BY <1>16 DEF ForgotMail
<1>17. ASSUME NEW r \in Requests, UpdatePassword(r) PROVE OneLiveInv'
  BY <1>17 DEF UpdatePassword, Verified, AfterUpdate
<1>18. ASSUME NEW r \in Requests, ResetMark(r) PROVE OneLiveInv'
  BY <1>18 DEF ResetMark, Resetting
<1>19. ASSUME NEW r \in Requests, RevokeAll(r) PROVE OneLiveInv'
  BY <1>19 DEF RevokeAll, UserRows, Issuing
<1>20. ASSUME NEW r \in Requests, VerifySet(r) PROVE OneLiveInv'
  BY <1>20 DEF VerifySet
<1>21. ASSUME NEW r \in Requests, VerifyMark(r) PROVE OneLiveInv'
  BY <1>21 DEF VerifyMark
<1>22. ASSUME NEW r \in Requests, Crash(r) PROVE OneLiveInv'
  BY <1>22 DEF Crash
<1>23. ASSUME NEW n \in Names, Expire(n) PROVE OneLiveInv'
  BY <1>23 DEF Expire, IsReset
<1>24. CASE UNCHANGED vars
  BY <1>24 DEF vars
<1> QED
  BY <1>1, <1>2, <1>3, <1>4, <1>5, <1>6, <1>7, <1>8, <1>9, <1>10, <1>11, <1>12,
     <1>13, <1>14, <1>15, <1>16, <1>17, <1>18, <1>19, <1>20, <1>21, <1>22, <1>23, <1>24
  DEF Next, Arrive, Continue

\* markVerificationUsed marks the resets of the ticket that it cannot stop.
LEMMA ResetInvStep == Shape /\ ResetInv /\ [Next]_vars => ResetInv'
<1> SUFFICES ASSUME Shape /\ ResetInv, [Next]_vars PROVE ResetInv'
  OBVIOUS
<1> USE NamesDistinct
    DEF Shape, TypeOK, LabelsOK, ContextOK, FamilyOK, Names, Context, Ops, Labels, Blank, Registered, Locals,
             Live, Admit, At, Goto, sessionVars, accountVars, clientVars, ResetInv
<1>1. ASSUME NEW r \in Requests, NEW u \in Users, LoginCheck(r, u) PROVE ResetInv'
  BY <1>1 DEF LoginCheck
<1>2. ASSUME NEW r \in Requests, NEW u \in Users, ForgotCreate(r, u) PROVE ResetInv'
  BY <1>2 DEF ForgotCreate
<1>3. ASSUME NEW r \in Requests, NEW t \in Names, RefreshArrive(r, t) PROVE ResetInv'
  BY <1>3 DEF RefreshArrive
<1>4. ASSUME NEW r \in Requests, NEW t \in Names \cup {None}, NEW a \in Names, LogoutArrive(r, t, a) PROVE ResetInv'
  BY <1>4 DEF LogoutArrive, Authorized
<1>5. ASSUME NEW r \in Requests, NEW k \in Names, ResetFind(r, k) PROVE ResetInv'
  BY <1>5 DEF ResetFind, IsReset, Redeemable
<1>6. ASSUME NEW r \in Requests, NEW k \in Names, VerifyFind(r, k) PROVE ResetInv'
  BY <1>6 DEF VerifyFind, IsVerify, Redeemable
<1>7. ASSUME NEW r \in Requests, NEW a \in Names, ChangeFind(r, a) PROVE ResetInv'
  BY <1>7 DEF ChangeFind, Authorized
<1>8. ASSUME NEW r \in Requests, RefreshFind(r) PROVE ResetInv'
  BY <1>8 DEF RefreshFind, Reused
<1>9. ASSUME NEW r \in Requests, RefreshBurn(r) PROVE ResetInv'
  BY <1>9 DEF RefreshBurn, FamilyRows, Issuing
<1>10. ASSUME NEW r \in Requests, RefreshRevoke(r) PROVE ResetInv'
  BY <1>10 DEF RefreshRevoke, Holding
<1>11. ASSUME NEW r \in Requests, CreateToken(r) PROVE ResetInv'
  BY <1>11 DEF CreateToken
<1>12. ASSUME NEW r \in Requests, Reply(r) PROVE ResetInv'
  BY <1>12 DEF Reply
<1>13. ASSUME NEW r \in Requests, LogoutFind(r) PROVE ResetInv'
  BY <1>13 DEF LogoutFind
<1>14. ASSUME NEW r \in Requests, LogoutRevoke(r) PROVE ResetInv'
  BY <1>14 DEF LogoutRevoke, Holding
<1>15. ASSUME NEW r \in Requests, LogoutBlacklist(r) PROVE ResetInv'
  BY <1>15 DEF LogoutBlacklist
<1>16. ASSUME NEW r \in Requests, ForgotMail(r) PROVE ResetInv'
  BY <1>16 DEF ForgotMail
<1>17. ASSUME NEW r \in Requests, UpdatePassword(r) PROVE ResetInv'
  BY <1>17 DEF UpdatePassword, Verified, AfterUpdate
<1>18. ASSUME NEW r \in Requests, ResetMark(r) PROVE ResetInv'
  <2> DEFINE k == ctx[r].token
  <2>1. \A x \in Requests : /\ ctx[x].op = "reset" /\ ctx[x].token = k /\ k \notin used
                            => x = r \/ x \in raced'
    BY <1>18 DEF ResetMark, Resetting
  <2>2. raced \subseteq raced' /\ used' = used \cup {k} /\ ctx' = ctx
    BY <1>18 DEF ResetMark
  <2>3. ASSUME NEW x \in Requests, ctx[x].op = "reset", pc'[x] \in {"revokeAll", "done"}
        PROVE  ctx[x].token \in used'
    <3>1. CASE x = r
      BY <2>2, <2>3, <3>1
    <3>2. CASE x # r
      BY <1>18, <2>2, <2>3, <3>2 DEF ResetMark
    <3> QED
      BY <3>1, <3>2
  <2>4. ASSUME NEW x \in Requests, NEW y \in Requests, x # y,
               ctx[x].op = "reset", ctx[y].op = "reset",
               ctx[x].token = ctx[y].token, ctx[x].token \in used'
        PROVE  x \in raced' \/ y \in raced'
    <3>1. CASE ctx[x].token \in used
      BY <2>2, <2>4, <3>1
    <3>2. CASE ctx[x].token = k /\ k \notin used
      <4>1. x = r \/ x \in raced'
        BY <2>1, <2>4, <3>2
      <4>2. y = r \/ y \in raced'
        BY <2>1, <2>4, <3>2
      <4> QED
        BY <2>4, <4>1, <4>2
    <3>3. ctx[x].token \in used \/ ctx[x].token = k
      BY <2>2, <2>4
    <3> QED
      BY <3>1, <3>2, <3>3
  <2> QED
    BY <2>2, <2>3, <2>4
<1>19. ASSUME NEW r \in Requests, RevokeAll(r) PROVE ResetInv'
  BY <1>19 DEF RevokeAll, UserRows, Issuing
<1>20. ASSUME NEW r \in Requests, VerifySet(r) PROVE ResetInv'
  BY <1>20 DEF VerifySet
<1>21. ASSUME NEW r \in Requests, VerifyMark(r) PROVE ResetInv'
  BY <1>21 DEF VerifyMark
<1>22. ASSUME NEW r \in Requests, Crash(r) PROVE ResetInv'
  BY <1>22 DEF Crash
<1>23. ASSUME NEW n \in Names, Expire(n) PROVE ResetInv'
  BY <1>23 DEF Expire, IsReset
<1>24. CASE UNCHANGED vars
  BY <1>24 DEF vars
<1> QED
  BY <1>1, <1>2, <1>3, <1>4, <1>5, <1>6, <1>7, <1>8, <1>9, <1>10, <1>11, <1>12,
     <1>13, <1>14, <1>15, <1>16, <1>17, <1>18, <1>19, <1>20, <1>21, <1>22, <1>23, <1>24
  DEF Next, Arrive, Continue

\* Only a reset or a change of the user's own writes the hash.
LEMMA AuthorityInvStep == Shape /\ AuthorityInv /\ [Next]_vars => AuthorityInv'
<1> SUFFICES ASSUME Shape /\ AuthorityInv, [Next]_vars PROVE AuthorityInv'
  OBVIOUS
<1> USE NamesDistinct
    DEF Shape, TypeOK, LabelsOK, ContextOK, FamilyOK, Names, Context, Ops, Labels, Blank, Registered, Locals,
             Live, Admit, At, Goto, sessionVars, accountVars, clientVars, AuthorityInv
<1>1. ASSUME NEW r \in Requests, NEW u \in Users, LoginCheck(r, u) PROVE AuthorityInv'
  BY <1>1 DEF LoginCheck
<1>2. ASSUME NEW r \in Requests, NEW u \in Users, ForgotCreate(r, u) PROVE AuthorityInv'
  BY <1>2 DEF ForgotCreate
<1>3. ASSUME NEW r \in Requests, NEW t \in Names, RefreshArrive(r, t) PROVE AuthorityInv'
  BY <1>3 DEF RefreshArrive
<1>4. ASSUME NEW r \in Requests, NEW t \in Names \cup {None}, NEW a \in Names, LogoutArrive(r, t, a) PROVE AuthorityInv'
  BY <1>4 DEF LogoutArrive, Authorized
<1>5. ASSUME NEW r \in Requests, NEW k \in Names, ResetFind(r, k) PROVE AuthorityInv'
  BY <1>5 DEF ResetFind, IsReset, Redeemable
<1>6. ASSUME NEW r \in Requests, NEW k \in Names, VerifyFind(r, k) PROVE AuthorityInv'
  BY <1>6 DEF VerifyFind, IsVerify, Redeemable
<1>7. ASSUME NEW r \in Requests, NEW a \in Names, ChangeFind(r, a) PROVE AuthorityInv'
  BY <1>7 DEF ChangeFind, Authorized
<1>8. ASSUME NEW r \in Requests, RefreshFind(r) PROVE AuthorityInv'
  BY <1>8 DEF RefreshFind, Reused
<1>9. ASSUME NEW r \in Requests, RefreshBurn(r) PROVE AuthorityInv'
  BY <1>9 DEF RefreshBurn, FamilyRows, Issuing
<1>10. ASSUME NEW r \in Requests, RefreshRevoke(r) PROVE AuthorityInv'
  BY <1>10 DEF RefreshRevoke, Holding
<1>11. ASSUME NEW r \in Requests, CreateToken(r) PROVE AuthorityInv'
  BY <1>11 DEF CreateToken
<1>12. ASSUME NEW r \in Requests, Reply(r) PROVE AuthorityInv'
  BY <1>12 DEF Reply
<1>13. ASSUME NEW r \in Requests, LogoutFind(r) PROVE AuthorityInv'
  BY <1>13 DEF LogoutFind
<1>14. ASSUME NEW r \in Requests, LogoutRevoke(r) PROVE AuthorityInv'
  BY <1>14 DEF LogoutRevoke, Holding
<1>15. ASSUME NEW r \in Requests, LogoutBlacklist(r) PROVE AuthorityInv'
  BY <1>15 DEF LogoutBlacklist
<1>16. ASSUME NEW r \in Requests, ForgotMail(r) PROVE AuthorityInv'
  BY <1>16 DEF ForgotMail
<1>17. ASSUME NEW r \in Requests, UpdatePassword(r) PROVE AuthorityInv'
  BY <1>17 DEF UpdatePassword, Verified, AfterUpdate
<1>18. ASSUME NEW r \in Requests, ResetMark(r) PROVE AuthorityInv'
  BY <1>18 DEF ResetMark, Resetting
<1>19. ASSUME NEW r \in Requests, RevokeAll(r) PROVE AuthorityInv'
  BY <1>19 DEF RevokeAll, UserRows, Issuing
<1>20. ASSUME NEW r \in Requests, VerifySet(r) PROVE AuthorityInv'
  BY <1>20 DEF VerifySet
<1>21. ASSUME NEW r \in Requests, VerifyMark(r) PROVE AuthorityInv'
  BY <1>21 DEF VerifyMark
<1>22. ASSUME NEW r \in Requests, Crash(r) PROVE AuthorityInv'
  BY <1>22 DEF Crash
<1>23. ASSUME NEW n \in Names, Expire(n) PROVE AuthorityInv'
  BY <1>23 DEF Expire, IsReset
<1>24. CASE UNCHANGED vars
  BY <1>24 DEF vars
<1> QED
  BY <1>1, <1>2, <1>3, <1>4, <1>5, <1>6, <1>7, <1>8, <1>9, <1>10, <1>11, <1>12,
     <1>13, <1>14, <1>15, <1>16, <1>17, <1>18, <1>19, <1>20, <1>21, <1>22, <1>23, <1>24
  DEF Next, Arrive, Continue

\* logout() reaches each statement over the effect of the one before.
LEMMA LogoutInvStep == Shape /\ LogoutInv /\ [Next]_vars => LogoutInv'
<1> SUFFICES ASSUME Shape /\ LogoutInv, [Next]_vars PROVE LogoutInv'
  OBVIOUS
<1> USE NamesDistinct
    DEF Shape, TypeOK, LabelsOK, ContextOK, FamilyOK, Names, Context, Ops, Labels, Blank, Registered, Locals,
             Live, Admit, At, Goto, sessionVars, accountVars, clientVars, LogoutInv
<1>1. ASSUME NEW r \in Requests, NEW u \in Users, LoginCheck(r, u) PROVE LogoutInv'
  BY <1>1 DEF LoginCheck
<1>2. ASSUME NEW r \in Requests, NEW u \in Users, ForgotCreate(r, u) PROVE LogoutInv'
  BY <1>2 DEF ForgotCreate
<1>3. ASSUME NEW r \in Requests, NEW t \in Names, RefreshArrive(r, t) PROVE LogoutInv'
  BY <1>3 DEF RefreshArrive
<1>4. ASSUME NEW r \in Requests, NEW t \in Names \cup {None}, NEW a \in Names, LogoutArrive(r, t, a) PROVE LogoutInv'
  BY <1>4 DEF LogoutArrive, Authorized
<1>5. ASSUME NEW r \in Requests, NEW k \in Names, ResetFind(r, k) PROVE LogoutInv'
  BY <1>5 DEF ResetFind, IsReset, Redeemable
<1>6. ASSUME NEW r \in Requests, NEW k \in Names, VerifyFind(r, k) PROVE LogoutInv'
  BY <1>6 DEF VerifyFind, IsVerify, Redeemable
<1>7. ASSUME NEW r \in Requests, NEW a \in Names, ChangeFind(r, a) PROVE LogoutInv'
  BY <1>7 DEF ChangeFind, Authorized
<1>8. ASSUME NEW r \in Requests, RefreshFind(r) PROVE LogoutInv'
  BY <1>8 DEF RefreshFind, Reused
<1>9. ASSUME NEW r \in Requests, RefreshBurn(r) PROVE LogoutInv'
  BY <1>9 DEF RefreshBurn, FamilyRows, Issuing
<1>10. ASSUME NEW r \in Requests, RefreshRevoke(r) PROVE LogoutInv'
  BY <1>10 DEF RefreshRevoke, Holding
<1>11. ASSUME NEW r \in Requests, CreateToken(r) PROVE LogoutInv'
  BY <1>11 DEF CreateToken
<1>12. ASSUME NEW r \in Requests, Reply(r) PROVE LogoutInv'
  BY <1>12 DEF Reply
<1>13. ASSUME NEW r \in Requests, LogoutFind(r) PROVE LogoutInv'
  BY <1>13 DEF LogoutFind
<1>14. ASSUME NEW r \in Requests, LogoutRevoke(r) PROVE LogoutInv'
  BY <1>14 DEF LogoutRevoke, Holding
<1>15. ASSUME NEW r \in Requests, LogoutBlacklist(r) PROVE LogoutInv'
  BY <1>15 DEF LogoutBlacklist
<1>16. ASSUME NEW r \in Requests, ForgotMail(r) PROVE LogoutInv'
  BY <1>16 DEF ForgotMail
<1>17. ASSUME NEW r \in Requests, UpdatePassword(r) PROVE LogoutInv'
  BY <1>17 DEF UpdatePassword, Verified, AfterUpdate
<1>18. ASSUME NEW r \in Requests, ResetMark(r) PROVE LogoutInv'
  BY <1>18 DEF ResetMark, Resetting
<1>19. ASSUME NEW r \in Requests, RevokeAll(r) PROVE LogoutInv'
  BY <1>19 DEF RevokeAll, UserRows, Issuing
<1>20. ASSUME NEW r \in Requests, VerifySet(r) PROVE LogoutInv'
  BY <1>20 DEF VerifySet
<1>21. ASSUME NEW r \in Requests, VerifyMark(r) PROVE LogoutInv'
  BY <1>21 DEF VerifyMark
<1>22. ASSUME NEW r \in Requests, Crash(r) PROVE LogoutInv'
  BY <1>22 DEF Crash
<1>23. ASSUME NEW n \in Names, Expire(n) PROVE LogoutInv'
  BY <1>23 DEF Expire, IsReset
<1>24. CASE UNCHANGED vars
  BY <1>24 DEF vars
<1> QED
  BY <1>1, <1>2, <1>3, <1>4, <1>5, <1>6, <1>7, <1>8, <1>9, <1>10, <1>11, <1>12,
     <1>13, <1>14, <1>15, <1>16, <1>17, <1>18, <1>19, <1>20, <1>21, <1>22, <1>23, <1>24
  DEF Next, Arrive, Continue

-----------------------------------------------------------------------------
\* The inductive invariant.
IInv ==
    /\ Shape
    /\ RotationInv /\ PasswordInv /\ BurnInv /\ OneLiveInv
    /\ ResetInv /\ AuthorityInv /\ LogoutInv

\* Users who have just registered satisfy every part of the invariant.
LEMMA InitIInv == Init => IInv
<1> SUFFICES ASSUME Init PROVE IInv
  OBVIOUS
<1> USE NamesDistinct DEF Init, Names, Registered, Blank, Locals, Live
<1>1. TypeOK
  BY DEF TypeOK, Context, Ops, Labels
<1>2. LabelsOK /\ ContextOK
  BY DEF LabelsOK, ContextOK
<1>3. FamilyOK
  BY DEF FamilyOK
<1>4. RotationInv /\ LogoutInv /\ ResetInv
  BY DEF RotationInv, LogoutInv, ResetInv
<1>5. PasswordInv /\ BurnInv
  BY DEF PasswordInv, BurnInv, Pending, Issuing
<1>6. OneLiveInv
  BY DEF OneLiveInv, Tips
<1>7. AuthorityInv
  BY DEF AuthorityInv
<1> QED
  BY <1>1, <1>2, <1>3, <1>4, <1>5, <1>6, <1>7 DEF IInv, Shape

\* Every statement of every handler preserves the inductive invariant.
LEMMA StepIInv == IInv /\ [Next]_vars => IInv'
BY TypeOKStep, LabelsOKStep, ContextOKStep, FamilyOKStep, RotationInvStep, PasswordInvStep,
   BurnInvStep, OneLiveInvStep, ResetInvStep, AuthorityInvStep, LogoutInvStep
   DEF IInv, Shape

\* IInv holds in every reachable state: what all theorems below rest on.
THEOREM Invariance == Spec => []IInv
BY InitIInv, StepIInv, PTL DEF Spec

\* Every variable of the session store stays in its domain.
THEOREM TypeCorrect == Spec => []TypeOK
<1>1. IInv => TypeOK
  BY DEF IInv, Shape
<1> QED
  BY <1>1, Invariance, PTL

\* However requests interleave and die, refresh() revokes the token it was given
\* before it writes the next row of the same user and family.
THEOREM RotationIsOrdered == Spec => []RotationOrder
<1>1. IInv => RotationOrder
  BY NamesDistinct DEF IInv, Shape, ContextOK, TypeOK, RotationInv, RotationOrder, Names, Registered, Locals
<1> QED
  BY <1>1, Invariance, PTL

\* Reuse detection leaves a family one live token, but for refreshes that held
\* the same live token at once or outran a revocation.
THEOREM SessionsAreLinear == Spec => []OneLivePerFamily
<1>1. IInv => OneLivePerFamily
  BY DEF IInv, OneLiveInv, Tips, OneLivePerFamily
<1> QED
  BY <1>1, Invariance, PTL

\* After resetPassword and changePassword no live session stems from an earlier
\* password, but for those whose handler the revocation overtook.
THEOREM PasswordChangeEndsSessions == Spec => []PasswordEndsSessions
<1>1. IInv => PasswordEndsSessions
  BY DEF IInv, PasswordInv, Pending, PasswordEndsSessions
<1> QED
  BY <1>1, Invariance, PTL

\* After revokeFamily the family is dead, but for a rotation already in flight.
THEOREM ReuseEndsFamily == Spec => []BurnEndsFamily
<1>1. IInv => BurnEndsFamily
  BY DEF IInv, BurnInv, Pending, BurnEndsFamily
<1> QED
  BY <1>1, Invariance, PTL

\* A reset ticket sets one password, but for resets in flight at its mark.
THEOREM ResetTicketsAreSpent == Spec => []ResetOnce
<1>1. IInv => ResetOnce
  BY DEF IInv, ResetInv, Applied, ResetOnce
<1> QED
  BY <1>1, Invariance, PTL

\* Only a request entitled to it has set a user's password.
THEOREM PasswordsAreAuthorized == Spec => []ResetAuthority
<1>1. ASSUME IInv, NEW u \in Users
      PROVE  LET r == password[u] IN
               /\ ctx[r].user = u
               /\ ctx[r].op = "reset" =>
                     /\ ctx[ctx[r].token].op = "forgot" /\ ctx[ctx[r].token].user = u
                     /\ ctx[r].token \in used \/ pc[r] = "markUsed"
  <2> USE <1>1 DEF IInv, Shape
  <2>1. CASE password[u] = u
    <3>1. ctx[u].user = u /\ ctx[u].op = "none"
      BY DEF TypeOK, Names, ContextOK, Registered, Locals
    <3> QED
      BY <2>1, <3>1
  <2>2. CASE password[u] \in Requests /\ pc[password[u]] \in {"markUsed", "revokeAll", "done"}
    <3>1. ctx[password[u]].user = u
      BY DEF AuthorityInv
    <3>2. ASSUME ctx[password[u]].op = "reset"
          PROVE  /\ ctx[ctx[password[u]].token].op = "forgot"
                 /\ ctx[ctx[password[u]].token].user = u
      BY <2>2, <3>1, <3>2 DEF ContextOK
    <3>3. ASSUME ctx[password[u]].op = "reset"
          PROVE  ctx[password[u]].token \in used \/ pc[password[u]] = "markUsed"
      BY <2>2, <3>3 DEF ResetInv
    <3> QED
      BY <3>1, <3>2, <3>3
  <2> QED
    BY <2>1, <2>2 DEF AuthorityInv
<1>2. IInv => ResetAuthority
  BY <1>1 DEF IInv, AuthorityInv, ResetAuthority
<1> QED
  BY <1>2, Invariance, PTL

\* A completed logout has revoked the refresh token and blacklisted the access token.
THEOREM LogoutIsComplete == Spec => []LogoutHolds
<1>1. IInv => LogoutHolds
  BY DEF IInv, LogoutInv, LogoutHolds
<1> QED
  BY <1>1, Invariance, PTL

\* A request revokes tokens of its own user, family or presented token only.
THEOREM RevocationsAreOwn == Spec => RevocationIsOwn
<1> DEFINE Own == \A t \in revoked' \ revoked : \E r \in Requests :
                      /\ pc'[r] # pc[r]
                      /\ CASE ctx[r].op = "refresh" -> ctx[r].family = ctx[t].family
                           [] ctx[r].op = "logout" -> ctx[r].token = t
                           [] OTHER -> ctx[r].user = ctx[t].user
<1>1. ASSUME IInv, Next PROVE Own
  <2>1. CASE revoked' = revoked
    BY <2>1
  <2>2. CASE revoked' # revoked
    <3>1. PICK r \in Requests : \/ RefreshBurn(r) \/ RefreshRevoke(r)
                                \/ LogoutRevoke(r) \/ RevokeAll(r)
      BY <1>1, <2>2 DEF Next, Arrive, Continue, LoginCheck, ForgotCreate, RefreshArrive,
         LogoutArrive, ResetFind, VerifyFind, ChangeFind, RefreshFind, CreateToken, Reply,
         LogoutFind, LogoutBlacklist, ForgotMail, UpdatePassword, ResetMark, VerifySet,
         VerifyMark, Crash, Expire, sessionVars
    <3> USE <1>1 DEF IInv, Shape, TypeOK, LabelsOK, Names, At, Goto
    <3>2. CASE RefreshBurn(r)
      BY <3>2 DEF RefreshBurn, FamilyRows
    <3>3. CASE RefreshRevoke(r)
      BY <3>3 DEF RefreshRevoke, ContextOK
    <3>4. CASE LogoutRevoke(r)
      BY <3>4 DEF LogoutRevoke
    <3>5. CASE RevokeAll(r)
      BY <3>5 DEF RevokeAll, UserRows
    <3> QED
      BY <3>1, <3>2, <3>3, <3>4, <3>5
  <2> QED
    BY <2>1, <2>2
<1>2. IInv /\ [Next]_vars => [Own]_vars
  BY <1>1
<1> QED
  BY <1>2, Invariance, PTL DEF Spec, RevocationIsOwn

=============================================================================
