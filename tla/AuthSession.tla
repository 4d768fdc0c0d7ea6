---------------------------- MODULE AuthSession ----------------------------
(***************************************************************************)
(* Sessions, refresh-token rotation and password changes of the auth       *)
(* module (modules/auth/auth.service.ts over auth.repository.ts).          *)
(*                                                                         *)
(* Every HTTP request is an asynchronous handler; several replicas run     *)
(* them against one Postgres and one Redis.  A statement sent to either is *)
(* atomic, anything may happen between two statements of one handler, so a *)
(* statement is an action here and pc names the next one.                  *)
(*                                                                         *)
(* The ids the code draws with randomUUID/randomBytes are named after the  *)
(* request that draws them: row r is the refresh token (and access jti)    *)
(* issued by request r, ticket r the PASSWORD_RESET token of request r,    *)
(* family r the rotation family of login r, password r the one request r   *)
(* set.  A user u arrives here just registered: register() has left row u, *)
(* family u, password u and the EMAIL_VERIFY ticket u, and has replied.    *)
(*                                                                         *)
(* Left out: a request refused before its first write (wrong password, bad *)
(* signature, no such user) leaves no trace and is no step; isActive is    *)
(* never cleared and users are never deleted by the code, so those checks  *)
(* always pass; hashing and signing touch no shared state.                 *)
(***************************************************************************)
EXTENDS FiniteSets, Naturals

CONSTANTS
    Users,       \* registered accounts
    Requests,    \* the HTTP requests of a behaviour, one handler each
    Mortal,      \* the tokens whose lifetime may run out within a behaviour
    MaxCrashes,  \* how many handlers may die half way
    None

Names == Users \cup Requests

ASSUME NamesDistinct ==
    /\ Users \cap Requests = {}
    /\ None \notin Names
    /\ Mortal \subseteq Names
    /\ MaxCrashes \in Nat

VARIABLES
    pc,             \* the next statement of each request's handler
    ctx,            \* its locals; rows and tickets are written from them
    rows,           \* refresh_tokens: the rows that exist
    revoked,        \* ... those with revoked_at set
    expired,        \* tokens and tickets whose expires_at has passed
    used,           \* verification_tokens with used_at set
    password,       \* users.password_hash: who set it
    emailVerified,  \* users.email_verified
    lastLogin,      \* users with last_login_at set
    loginAudit,     \* logins that left a LOGIN audit row
    blacklist,      \* Redis: access jtis revoked by logout
    delivered,      \* token pairs a client has received
    mailed,         \* tickets handed to the mail queue
    crashed,        \* handlers that died: process crash or failed statement
    burned,         \* history: families revoked for reuse
    raced           \* history: handlers a statement of another one overtook, see Issuing

sessionVars == <<rows, revoked, burned, raced>>
accountVars == <<used, password, emailVerified, lastLogin, loginAudit>>
clientVars  == <<expired, blacklist, delivered, mailed>>
vars == <<pc, ctx, sessionVars, accountVars, clientVars, crashed>>

Ops == {"none", "login", "refresh", "logout", "forgot", "reset", "verify", "change"}

Context == [op: Ops, user: Users \cup {None}, family: Names \cup {None},
            token: Names \cup {None}, access: Names \cup {None},
            birth: Names \cup {None}]

Labels == {"new", "findToken", "burnFamily", "revokeToken", "createToken", "reply",
           "findLogout", "revokeLogout", "blacklistJti", "sendMail",
           "updatePassword", "markUsed", "revokeAll", "setVerified", "markVerified",
           "done", "refused"}

Locals(o, u, f, t, a, b) ==
    [op |-> o, user |-> u, family |-> f, token |-> t, access |-> a, birth |-> b]

Blank == Locals("none", None, None, None, None, None)

\* What register() leaves of user u: one delivered session under the first password.
Registered(u) == Locals("none", u, u, None, None, u)

Init ==
    /\ pc = [n \in Names |-> IF n \in Users THEN "done" ELSE "new"]
    /\ ctx = [n \in Names |-> IF n \in Users THEN Registered(n) ELSE Blank]
    /\ rows = Users /\ delivered = Users /\ mailed = Users
    /\ password = [u \in Users |-> u]
    /\ revoked = {} /\ expired = {} /\ used = {} /\ emailVerified = {}
    /\ lastLogin = {} /\ loginAudit = {} /\ blacklist = {}
    /\ crashed = {} /\ burned = {} /\ raced = {}

-----------------------------------------------------------------------------
Live == rows \ revoked

\* type = 'PASSWORD_RESET' (mutant: the type is not asked for)
IsReset_AnyType(k) == k \in Users \/ ctx[k].op = "forgot"
IsReset(k) == k \in Requests /\ ctx[k].op = "forgot"

\* type = 'EMAIL_VERIFY'
IsVerify(k) == k \in Users

\* findVerification asks for used_at null (mutant: it does not), its callers for expires_at.
Redeemable_Again(k) == k \in mailed \ expired
Redeemable(k) == k \in mailed \ (used \cup expired)

\* refresh(): !stored || stored.revokedAt (mutants: only !stored; expired rows too).
Reused_Unknown(t) == t \notin rows
Reused_Expired(t) == t \notin Live \/ t \in expired
Reused(t) == t \notin Live

\* The rows of revokeFamily (mutant: the presented token's) and revokeAllForUser (everybody's).
FamilyRows_One(r) == {ctx[r].token}
FamilyRows(r) == {t \in rows : ctx[t].family = ctx[r].family}
UserRows_All(r) == rows
UserRows(r) == {t \in rows : ctx[t].user = ctx[r].user}

\* What follows the update of the hash (mutant: changePassword ends there).
AfterUpdate_Forgets(r) == IF ctx[r].op = "reset" THEN "markUsed" ELSE "done"
AfterUpdate(r) == IF ctx[r].op = "reset" THEN "markUsed" ELSE "revokeAll"

\* Handlers that passed their checks and have not yet created the session's row.
\* A revocation cannot see them: raced collects those that were Issuing at a
\* revocation meant for them, and every session later refreshed from theirs; and the
\* resets and changes that another one's write overtook.
Issuing == {r \in Requests : pc[r] \in {"revokeToken", "createToken"}}

\* Refreshes that found token t live and have yet to revoke it.
Holding(t) == {r \in Requests : pc[r] = "revokeToken" /\ ctx[r].token = t}

At(r, label) == pc[r] = label /\ r \notin crashed

Goto(r, label) == pc' = [pc EXCEPT ![r] = label]

Admit(r, c, label) ==
    /\ pc[r] = "new"
    /\ ctx' = [ctx EXCEPT ![r] = c]
    /\ Goto(r, label)

\* JwtStrategy.validate: the access token of pair a opens a protected route.
Authorized(a) == a \in delivered /\ a \notin expired /\ a \notin blacklist

-----------------------------------------------------------------------------
\* login(): findFirstByEmail, verify against that hash, setLastLogin.
LoginCheck(r, u) ==
    /\ Admit(r, Locals("login", u, r, None, None, password[u]), "createToken")
    /\ lastLogin' = lastLogin \cup {u}
    /\ UNCHANGED <<used, password, emailVerified, loginAudit, sessionVars, clientVars, crashed>>

\* refresh(): verifyRefreshToken, sub and family come from the signed payload.
RefreshArrive(r, t) ==
    /\ t \in delivered \ expired
    /\ Admit(r, Locals("refresh", ctx[t].user, ctx[t].family, t, None, ctx[t].birth),
             "findToken")
    /\ UNCHANGED <<sessionVars, accountVars, clientVars, crashed>>

\* refresh(): findRefreshByHash and the three ways on from it.
RefreshFind(r) ==
    /\ At(r, "findToken")
    /\ LET t == ctx[r].token IN
       \/ /\ Reused(t)
          /\ Goto(r, "burnFamily")
          /\ UNCHANGED raced
       \/ /\ ~Reused(t) /\ t \in expired
          /\ Goto(r, "refused")
          /\ UNCHANGED raced
       \/ /\ ~Reused(t) /\ t \notin expired
          /\ Goto(r, "revokeToken")
          /\ raced' = IF t \in raced THEN raced \cup {r} ELSE raced
    /\ UNCHANGED <<ctx, rows, revoked, burned, accountVars, clientVars, crashed>>

\* refresh(): revokeFamily, then 401 "reuse detected".
RefreshBurn(r) ==
    /\ At(r, "burnFamily")
    /\ revoked' = revoked \cup FamilyRows(r)
    /\ burned' = burned \cup {ctx[r].family}
    /\ raced' = raced \cup {s \in Issuing : ctx[s].family = ctx[r].family}
    /\ Goto(r, "refused")
    /\ UNCHANGED <<ctx, rows, accountVars, clientVars, crashed>>

\* Mutant: the presented token stays usable.
RefreshRevoke_Keeps(r) ==
    /\ At(r, "revokeToken")
    /\ Goto(r, "createToken")
    /\ UNCHANGED <<ctx, sessionVars, accountVars, clientVars, crashed>>

\* refresh(): revokeRefreshToken, an update by id that does not look at revoked_at.
RefreshRevoke(r) ==
    /\ At(r, "revokeToken")
    /\ revoked' = revoked \cup {ctx[r].token}
    /\ raced' = raced \cup (Holding(ctx[r].token) \ {r})
    /\ Goto(r, "createToken")
    /\ UNCHANGED <<ctx, rows, burned, accountVars, clientVars, crashed>>

\* Mutant: the insert is not awaited, and may have failed when the handler goes on.
CreateToken_Unawaited(r) ==
    /\ At(r, "createToken")
    /\ rows' \in {rows, rows \cup {r}}
    /\ Goto(r, "reply")
    /\ UNCHANGED <<ctx, revoked, burned, raced, accountVars, clientVars, crashed>>

\* issueAndPersist(): the row of the new pair, for login and refresh.
CreateToken(r) ==
    /\ At(r, "createToken")
    /\ rows' = rows \cup {r}
    /\ Goto(r, "reply")
    /\ UNCHANGED <<ctx, revoked, burned, raced, accountVars, clientVars, crashed>>

\* The pair reaches the client.  login() first records the audit row, and a
\* failing record is swallowed (audit-log.service.ts).
Reply(r) ==
    /\ At(r, "reply")
    /\ delivered' = delivered \cup {r}
    /\ \/ ctx[r].op = "login" /\ loginAudit' = loginAudit \cup {r}
       \/ UNCHANGED loginAudit
    /\ Goto(r, "done")
    /\ UNCHANGED <<ctx, used, password, emailVerified, lastLogin, sessionVars,
                   expired, blacklist, mailed, crashed>>

-----------------------------------------------------------------------------
\* logout(): any refresh token t, or None, a string no row has the hash of, which like no
\* token at all leads on to the blacklist; authorized by the access token of pair a.
LogoutArrive(r, t, a) ==
    /\ t \in delivered \cup {None}
    /\ Authorized(a)
    /\ Admit(r, Locals("logout", ctx[a].user, None, t, a, None),
             IF t = None THEN "blacklistJti" ELSE "findLogout")
    /\ UNCHANGED <<sessionVars, accountVars, clientVars, crashed>>

\* Mutant: a rotated token ends the logout early.
LogoutFind_Early(r) ==
    /\ At(r, "findLogout")
    /\ Goto(r, IF ctx[r].token \in Live THEN "revokeLogout" ELSE "done")
    /\ UNCHANGED <<ctx, sessionVars, accountVars, clientVars, crashed>>

\* logout(): findRefreshByHash; a token already revoked is left alone.
LogoutFind(r) ==
    /\ At(r, "findLogout")
    /\ \/ ctx[r].token \in Live /\ Goto(r, "revokeLogout")
       \/ ctx[r].token \notin Live /\ Goto(r, "blacklistJti")
    /\ UNCHANGED <<ctx, sessionVars, accountVars, clientVars, crashed>>

LogoutRevoke(r) ==
    /\ At(r, "revokeLogout")
    /\ revoked' = revoked \cup {ctx[r].token}
    /\ raced' = raced \cup Holding(ctx[r].token)
    /\ Goto(r, "blacklistJti")
    /\ UNCHANGED <<ctx, rows, burned, accountVars, clientVars, crashed>>

\* redis.blacklistToken, kept for the refresh lifetime: longer than the access token's.
LogoutBlacklist(r) ==
    /\ At(r, "blacklistJti")
    /\ blacklist' = blacklist \cup {ctx[r].access}
    /\ Goto(r, "done")
    /\ UNCHANGED <<ctx, sessionVars, accountVars, expired, delivered, mailed, crashed>>

-----------------------------------------------------------------------------
\* forgotPassword(): creates ticket r, then queues the mail that carries it.
ForgotCreate(r, u) ==
    /\ Admit(r, Locals("forgot", u, None, None, None, None), "sendMail")
    /\ UNCHANGED <<sessionVars, accountVars, clientVars, crashed>>

ForgotMail(r) ==
    /\ At(r, "sendMail")
    /\ mailed' = mailed \cup {r}
    /\ Goto(r, "done")
    /\ UNCHANGED <<ctx, sessionVars, accountVars, expired, blacklist, delivered, crashed>>

\* resetPassword(): findVerification(hash, 'PASSWORD_RESET') with used_at null.
ResetFind(r, k) ==
    /\ IsReset(k) /\ Redeemable(k)
    /\ Admit(r, Locals("reset", ctx[k].user, None, k, None, None), "updatePassword")
    /\ UNCHANGED <<sessionVars, accountVars, clientVars, crashed>>

\* Mutant: the current password is not compared with the stored hash.
ChangeFind_Unverified(r, a) ==
    /\ Authorized(a)
    /\ Admit(r, Locals("change", ctx[a].user, None, None, a, None), "updatePassword")
    /\ UNCHANGED <<sessionVars, accountVars, clientVars, crashed>>

\* changePassword(): findById and verify the current password against that hash,
\* which birth records.  The guard Authorized is JwtAuthGuard's.
ChangeFind(r, a) ==
    /\ Authorized(a)
    /\ Admit(r, Locals("change", ctx[a].user, None, None, a, password[ctx[a].user]),
             "updatePassword")
    /\ UNCHANGED <<sessionVars, accountVars, clientVars, crashed>>

\* Changes of u's password that have verified the current one and not written theirs.
Verified(u) == {r \in Requests : /\ ctx[r].op = "change" /\ ctx[r].user = u
                                 /\ pc[r] = "updatePassword"}

\* users.update(passwordHash), in resetPassword and in changePassword: an update by
\* id that does not look at the hash verified before.
UpdatePassword(r) ==
    /\ At(r, "updatePassword")
    /\ password' = [password EXCEPT ![ctx[r].user] = r]
    /\ raced' = raced \cup (Verified(ctx[r].user) \ {r})
    /\ Goto(r, AfterUpdate(r))
    /\ UNCHANGED <<ctx, used, emailVerified, lastLogin, loginAudit, rows, revoked, burned,
                   clientVars, crashed>>

\* Resets of ticket k that passed findVerification and have not marked it.
Resetting(k) == {r \in Requests : /\ ctx[r].op = "reset" /\ ctx[r].token = k
                                  /\ pc[r] \in {"updatePassword", "markUsed"}}

\* resetPassword(): markVerificationUsed.
ResetMark(r) ==
    /\ At(r, "markUsed")
    /\ used' = used \cup {ctx[r].token}
    /\ raced' = raced \cup (Resetting(ctx[r].token) \ {r})
    /\ Goto(r, "revokeAll")
    /\ UNCHANGED <<ctx, password, emailVerified, lastLogin, loginAudit,
                   rows, revoked, burned, clientVars, crashed>>

\* revokeAllForUser(), the last statement of resetPassword and changePassword.
RevokeAll(r) ==
    /\ At(r, "revokeAll")
    /\ revoked' = revoked \cup UserRows(r)
    /\ raced' = raced \cup {s \in Issuing : ctx[s].user = ctx[r].user}
    /\ Goto(r, "done")
    /\ UNCHANGED <<ctx, rows, burned, accountVars, clientVars, crashed>>

\* verifyEmail(): findVerification(hash, 'EMAIL_VERIFY'), update, mark used.
VerifyFind(r, k) ==
    /\ IsVerify(k) /\ Redeemable(k)
    /\ Admit(r, Locals("verify", k, None, k, None, None), "setVerified")
    /\ UNCHANGED <<sessionVars, accountVars, clientVars, crashed>>

VerifySet(r) ==
    /\ At(r, "setVerified")
    /\ emailVerified' = emailVerified \cup {ctx[r].user}
    /\ Goto(r, "markVerified")
    /\ UNCHANGED <<ctx, used, password, lastLogin, loginAudit, sessionVars, clientVars, crashed>>

VerifyMark(r) ==
    /\ At(r, "markVerified")
    /\ used' = used \cup {ctx[r].token}
    /\ Goto(r, "done")
    /\ UNCHANGED <<ctx, password, emailVerified, lastLogin, loginAudit, sessionVars,
                   clientVars, crashed>>

-----------------------------------------------------------------------------
\* Time passes the expires_at of a token or ticket.
Expire(n) ==
    /\ n \in Mortal \ expired
    /\ n \in rows \/ IsReset(n)
    /\ expired' = expired \cup {n}
    /\ UNCHANGED <<pc, ctx, sessionVars, accountVars, blacklist, delivered, mailed, crashed>>

\* A handler dies between two statements: the replica stops, or a statement
\* fails and the filter answers 500.  Statements already run stay.
Crash(r) ==
    /\ pc[r] \notin {"new", "done", "refused"}
    /\ r \notin crashed
    /\ Cardinality(crashed) < MaxCrashes
    /\ crashed' = crashed \cup {r}
    /\ UNCHANGED <<pc, ctx, sessionVars, accountVars, clientVars>>

Arrive(r) ==
    \/ \E u \in Users : LoginCheck(r, u) \/ ForgotCreate(r, u)
    \/ \E t \in Names : RefreshArrive(r, t)
    \/ \E t \in Names \cup {None}, a \in Names : LogoutArrive(r, t, a)
    \/ \E k \in Names : ResetFind(r, k) \/ VerifyFind(r, k)
    \/ \E a \in Names : ChangeFind(r, a)

\* The statements a running handler still has to execute.
Continue(r) ==
    \/ RefreshFind(r) \/ RefreshBurn(r) \/ RefreshRevoke(r)
    \/ CreateToken(r) \/ Reply(r)
    \/ LogoutFind(r) \/ LogoutRevoke(r) \/ LogoutBlacklist(r)
    \/ ForgotMail(r)
    \/ UpdatePassword(r) \/ ResetMark(r) \/ RevokeAll(r)
    \/ VerifySet(r) \/ VerifyMark(r)

Next ==
    \/ \E r \in Requests : Arrive(r) \/ Continue(r) \/ Crash(r)
    \/ \E n \in Names : Expire(n)

Spec == Init /\ [][Next]_vars

\* The event loop runs a handler whose statement has completed; nothing makes a
\* client send a request, a handler crash or a lifetime run out.
FairSpec == Spec /\ \A r \in Requests : WF_vars(Continue(r))
-----------------------------------------------------------------------------
\* Every variable stays in its domain, every row and ticket belongs to a user, and
\* the context of a request carries what its handler will use.
TypeOK ==
    /\ pc \in [Names -> Labels]
    /\ ctx \in [Names -> Context]
    /\ rows \subseteq Names /\ revoked \subseteq rows /\ delivered \subseteq rows
    /\ expired \subseteq Mortal
    /\ used \subseteq Names /\ mailed \subseteq Names
    /\ password \in [Users -> Names]
    /\ emailVerified \subseteq Users /\ lastLogin \subseteq Users
    /\ loginAudit \subseteq Requests /\ blacklist \subseteq delivered
    /\ crashed \subseteq Requests
    /\ burned \subseteq Names /\ raced \subseteq Requests

\* Rotation revokes before it issues, and stays in its session: however handlers
\* interleave or die, a refreshed row has a revoked parent of the same user and
\* family, so a token and the one issued for it are never both usable
\* (auth.service.ts:132-134).
RotationOrder ==
    \A t \in rows : ctx[t].op = "refresh" =>
        LET p == ctx[t].token IN
        /\ p \in revoked
        /\ ctx[p].user = ctx[t].user
        /\ ctx[p].family = ctx[t].family

\* Reuse detection keeps a session linear: two live tokens of one family exist
\* only if one of them descends from a refresh that was past its check when its
\* token was revoked under it (auth.service.ts:121).
OneLivePerFamily ==
    \A s, t \in Live :
        s # t /\ ctx[s].family = ctx[t].family => s \in raced \/ t \in raced

\* The change that set u's password has yet to revoke the sessions (or died before it).
Changing(u) == pc[password[u]] \in {"markUsed", "revokeAll"}

\* A password change ends every session opened under an earlier password: a live
\* session whose login knew another password is left only while the very change
\* that set the present one is unfinished, or to a handler the revocation overtook.
\* A change that died excuses nothing once a later one has been completed
\* (auth.service.ts:178-181, 209-210).
PasswordEndsSessions ==
    \A t \in Live :
        ctx[t].birth # password[ctx[t].user] => Changing(ctx[t].user) \/ t \in raced

\* Reuse burns the session, and nothing else does: a live token of a burned family
\* descends from a rotation that was already past its check at the burn, and a burn
\* is only for a token that had been revoked, never for one whose lifetime merely ran
\* out between the signature check and the lookup (auth.service.ts:121-127).
BurnEndsFamily ==
    /\ \A t \in Live : ctx[t].family \in burned => t \in raced
    /\ \A r \in Requests : pc[r] = "burnFamily" => ctx[r].token \in revoked

\* Resets that have written the password.
Applied == {r \in Requests : /\ ctx[r].op = "reset"
                             /\ pc[r] \in {"markUsed", "revokeAll", "done"}}

\* A used ticket has set one password, except for resets that were in flight
\* together when the first of them marked it (auth.service.ts:170-179).
ResetOnce ==
    \A r, s \in Applied :
        r # s /\ ctx[r].token = ctx[s].token /\ ctx[r].token \in used
            => r \in raced \/ s \in raced

\* A password is set only from a ticket a forgotPassword of that very user
\* mailed, or by a request authorized as that user; an applied reset leaves its
\* ticket used unless it stands (or died) between the two statements; and a change
\* that is about to write has verified the password it replaces, unless another
\* write came in between (auth.service.ts:170-179, 203-209).
ResetAuthority ==
    /\ \A u \in Users : LET r == password[u] IN
        /\ ctx[r].user = u
        /\ ctx[r].op = "reset" =>
               /\ ctx[ctx[r].token].op = "forgot" /\ ctx[ctx[r].token].user = u
               /\ ctx[r].token \in used \/ pc[r] = "markUsed"
    /\ \A r \in Requests : ctx[r].op = "change" /\ pc[r] = "updatePassword" =>
           ctx[r].birth = password[ctx[r].user] \/ r \in raced

\* A completed logout leaves nothing of what it was given usable, also when
\* the refresh token was already rotated (auth.service.ts:141-149).
LogoutHolds ==
    \A r \in Requests : ctx[r].op = "logout" /\ pc[r] = "done" =>
        /\ ctx[r].token \in revoked \cup {None}
        /\ ctx[r].access \in blacklist

\* Nobody loses a session to somebody else's request: a row is revoked by its own
\* user's password change, by a refresh of its own family, or by a logout that
\* presents it.
RevocationIsOwn ==
    [][\A t \in revoked' \ revoked : \E r \in Requests :
           /\ pc'[r] # pc[r]
           /\ CASE ctx[r].op = "refresh" -> ctx[r].family = ctx[t].family
                [] ctx[r].op = "logout" -> ctx[r].token = t
                [] OTHER -> ctx[r].user = ctx[t].user]_vars

\* A session alive when its user's new password is about to be written ends up
\* revoked, unless the handler dies first (auth.service.ts:178-181, 209-210).
OldSessionsEnd ==
    \A r \in Requests, t \in Names :
        (/\ pc[r] = "updatePassword"
         /\ t \in Live /\ ctx[t].user = ctx[r].user) ~> (t \in revoked \/ r \in crashed)

\* What auth.service.ts:120 and :132 say of rotation: a token is redeemed once.
RotatedOnce ==
    \A s, t \in rows :
        ctx[s].op = "refresh" /\ ctx[t].op = "refresh" /\ ctx[s].token = ctx[t].token
            => s = t
=============================================================================
