# Messenger CRM: a verification of its server

The repository is a multi-tenant CRM behind a browser extension: a NestJS API
(`api/src`) over one Postgres (Prisma), one Redis and an S3-compatible object
store. This directory holds TLA+ models of it, the TLC configurations that check
them on small instances, and proofs of their main properties for every instance.

| file | what it is |
|---|---|
| `AuthSession.tla` | sessions: login, refresh rotation, logout, passwords, tickets |
| `AuthSessionProofs.tla` | its inductive invariant and the safety theorems |
| `MCAuthSession.tla`, `Auth*.cfg` | its small instances |
| `OrderBook.tla` | orders, their numbers, totals and tenants, and the cascade from customers |
| `OrderBookProofs.tla` | its inductive invariant, the safety theorems, and that it implements `Ledger` |
| `MCOrderBook.tla`, `Order*.cfg` | its small instances |
| `Ledger.tla` | what the order service promises: the abstract specification `OrderBook` implements |
| `Directory.tla` | customers, tags, notes and the extension's rows, and what refers to what |
| `DirectoryProofs.tla` | its inductive invariant, the safety theorems and the two action properties |
| `MCDirectory.tla`, `Directory.cfg` | its small instance |
| `Staff.tla` | users, roles and the access tokens that carry a role |
| `StaffProofs.tla` | its inductive invariant, the safety theorems and the nesting of the role matrix |
| `MCStaff.tla`, `Staff.cfg` | its small instance |
| `Files.tla` | uploaded files: rows, the bucket, presigned URLs |
| `FilesProofs.tla` | its inductive invariant and the safety theorems |
| `MCFiles.tla`, `Files.cfg` | its small instance |
| `Tenancy.tla` | registration, login by e-mail, lifetimes, settings of a tenant |
| `TenancyProofs.tla` | its inductive invariant and the safety theorems |
| `MCTenancy.tla`, `Tenancy.cfg` | its small instance |
| `Dashboard.tla` | the reports, over a changing `OrderBook`, and their cache |
| `DashboardProofs.tla` | its inductive invariant and the safety theorems, over those of `OrderBook` |
| `MCDashboard.tla`, `Dashboard.cfg` | its small instance |
| `Listing.tla` | paging through a list that changes |
| `ListingProofs.tla` | its inductive invariant and the safety theorems |
| `MCListing.tla`, `Listing.cfg` | its small instance |
| `PROJECT.json` | the index: components, runs, mutants, source map, hazards, theorems |

## 1. The system

### Components, state, operations

| component | state | operations that change it |
|---|---|---|
| auth (`modules/auth`) | `refresh_tokens`, `verification_tokens`, `users.password_hash / email_verified / last_login_at`, Redis blacklist | register, login, refresh, logout, forgotPassword, resetPassword, verifyEmail, changePassword |
| orders (`modules/order`) | `orders` | create, update, changeStatus, remove |
| customers (`modules/customer`) | `customers` | create, update, changeStatus, assign, remove; upsertByFacebookId for the extension |
| users (`modules/user`) | `users` | update, changeRole |
| tags, notes | `tags`, `customer_tags`, `notes` | create, update, remove; attach, detach |
| extension (`modules/extension`) | none of its own | syncCustomer, addNote, createOrder, each after resolveCustomer |
| files (`modules/file`, `infra/storage`) | `file_objects`, the bucket | presignUpload, the client's PUT, confirmUpload, remove |
| notifications | `notifications` | markRead, markAllRead (nothing calls create) |
| dashboard, analytics | two stored reports per organization in Redis, 30 s and 60 s | stats, sales (fill the cache); orders, customers |
| organizations, subscriptions | one row each per tenant, created by register | updateCurrent; update (an upsert) |
| audit log | `audit_logs` | record, the last write of a mutation; its errors are swallowed |
| mail and queues | BullMQ queues in Redis | add; the processor only logs |
| lists (`paginate` of orders, customers, users, audit log, notifications) | none: a client pages through rows that others write | none |
| request pipeline | none (request-scoped tenant context) | throttler, JWT, tenant, roles and permissions guards, response envelope, exception filter |

### How they interact

A request passes the guards (`app.module.ts`), which put the user and the
organization of the *token* into a request-scoped context. The controller calls a
service, the service its repository, the repository Prisma. Services call each
other directly (the extension calls notes and orders) and every mutation of
customers and orders ends with `audit.log`. There is no in-memory state shared by
requests, no lock, and one transaction that writes (register's). What requests share
is the database, the blacklist and the queue.

### What is hard

* **Interleaving.** A handler is `async`; between two awaited statements any other
  request of any replica runs. Nearly every handler reads, decides and then
  writes: a check can be stale at the write.
* **Partial failure.** A sequence of statements is not a transaction. A process
  that stops, or a statement that fails (the filter answers with an error and
  undoes nothing), leaves the statements before it.
* **Order of writes.** Rotation revokes before it issues, a reset writes the hash
  before it marks the ticket and revokes the sessions.
* **Lost replies and retries.** A client that did not get the reply of a rotation
  presents the old token again, and this is what reuse detection burns.
* **Time.** Tokens and tickets run out at any moment.
* **Unique within what?** Slugs are unique, e-mails only within a tenant, and login
  asks for an e-mail before it knows the tenant.
* **Pages.** A list is read in several requests, each of two statements, while its
  rows come, go and change places.
* **Copies.** A report is counted by separate statements and stored for a minute; no
  write takes it back.

### What makes each component correct

* *Sessions.* One live token per session; a token is never usable beside the one
  issued for it; reuse ends the session; a new password ends the older sessions; a
  ticket sets one password, of its own user; a logout ends what it was given;
  nobody's request ends another's session.
* *Orders.* An order hangs on a customer of its own tenant; its total is the
  formula over its columns, but for rounding; numbers are distinct and without holes; no tenant's
  request touches another's order; the audit log does not claim what did not
  happen.
* *Customers, tags, notes, extension.* References stay in the tenant, agents
  belong to it, an upsert does not overwrite what the CRM owns.
* *Users.* Roles are given by those who may, and the role of an owner only along a chain
  that begins with an owner. An organization may lose its last owner: nothing in the code
  prevents that, and once the tokens of its former owners have run out it never has one
  again.
* *Files.* An upload stays until its file is removed; a removal leaves nothing behind.
* *Tenants.* A tenant is there whole or not at all, under a slug of its own; only its
  owner's credentials open it; lifetimes mean the same to all who read them; every
  request is answered.
* *Lists.* What a client misses or reads twice on its way through the pages has left,
  come or moved meanwhile; no page it is offered is empty for another reason.
* *Reports.* Each figure was true of the tenant during the reading it comes from, and
  a stored report becomes true again when nothing changes.

## 2. The models

### Conventions common to all

* A request is a process. `pc[r]` names the next statement of its handler, `ctx[r]`
  holds its local variables. One Prisma, Redis or queue statement is one action,
  because each is atomic and the handler yields after it. Pure computation is part
  of the action before or after it.
* The first read of a handler and the arrival of the request are one action, for
  nothing the handler does earlier can be observed. A request refused by that read
  writes nothing and is not a step.
* Ids that the code draws at random are the name of the request that drew them.
  `order r` is the order created by request `r`, `row r` the refresh token it
  issued. So ids never collide, as with UUIDs, and creation is bounded by the number
  of requests: the one bound on behaviours besides `MaxCrashes`.
* `Crash(r)` stops a handler between two statements, in the models where liveness
  or a history depends on it. It stands for a replica that dies and for a statement
  that fails. The statements already run stay.
  `Directory`, `Staff` and `Files` have no such action: safety asks no fairness, so a
  handler that stops anywhere is among their behaviours already.
* Names ending in `_Something` after an operator's name (`Reused_Unknown`) are
  mutants of that operator: never used by the model, they document which plausible
  mistake each property would reveal.

### AuthSession

`rows` and `revoked` are `refresh_tokens` and those with `revoked_at`; user, family
and parent of a row are the locals of the request that wrote it (`ctx[t].user`,
`.family`, `.token`). `used` and `mailed` are the tickets, `password[u]` names the
request that set the hash (or `u`, at registration), `blacklist` is Redis,
`delivered` says which token pairs a client has received, hence can present. A user
arrives registered, with the session and the verification ticket register() leaves.

| actions | code |
|---|---|
| `LoginCheck`, `CreateToken`, `Reply` | `login`, `startSession`, `issueAndPersist`, audit |
| `RefreshArrive`, `RefreshFind`, `RefreshBurn`, `RefreshRevoke`, `CreateToken`, `Reply` | `refresh` |
| `LogoutArrive`, `LogoutFind`, `LogoutRevoke`, `LogoutBlacklist` | `logout` behind the JWT strategy |
| `ForgotCreate`, `ForgotMail` | `forgotPassword` |
| `ResetFind`, `UpdatePassword`, `ResetMark`, `RevokeAll` | `resetPassword` |
| `ChangeFind`, `UpdatePassword`, `RevokeAll` | `changePassword` |
| `VerifyFind`, `VerifySet`, `VerifyMark` | `verifyEmail` |
| `Expire`, `Crash` | `expires_at` passes; a handler dies |

The code as it stands does not keep the plain forms of several promises: "Token
unknown or already rotated/revoked → possible theft. Burn family." (section 4), or
"Invalidate all existing sessions after a password reset." (`auth.service.ts:180`,
which a refresh in flight survives by inserting its row after the revocation). The
interesting question is what it does keep. Two history variables answer it. `burned`
collects the families burned for reuse. `raced` collects the requests
that another one *overtook*: those past their check and before their insert when a
revocation meant for them ran (`Issuing`, `Holding`), the sessions refreshed from theirs,
and the resets and changes of password in flight when another one wrote (`Resetting`,
`Verified`). The properties state that the promise holds for everything
else: `OneLivePerFamily`, `PasswordEndsSessions`, `BurnEndsFamily`, `ResetOnce`. An
overtaken handler is thus the only way any of them can fail, for whatever number of
requests (it is proved), and closing that window is all a repair needs.

Two promises are about what a handler has looked at. `ChangeFind` keeps the hash against
which changePassword verified the current password, and `ResetAuthority` asks that a change
about to write still meets that hash, unless it was overtaken: two changes may both verify
against the old one. `BurnEndsFamily` asks that only a token that had been revoked leads to
a burn, not one that ran out between the two checks of `refresh`.

A handler may die between its writes. A reset that died after the hash leaves its ticket
redeemable and the old sessions alive, and no property could ask otherwise of this code.
What is excepted is exactly that: `Changing` is the change that set the *present* password
standing (or dead) before its revocation, and once a later change is completed no old
session is left, whoever died before. A logout may come with a string that no row has the
hash of: it goes on to the blacklist, as the others do (`LogoutArrive` with `None`).

### OrderBook

`orders` is the set of rows, `row[o]` their columns. `CreateDtos`
and `PatchDtos` are the bodies clients send; a PATCH body is a function from the
columns it names, and `Bind` is what the validation pipe makes of it. Each action
names the code in its comment: `CreateArrive`, `CreateCount`, `CreateInsert`;
`PatchArrive`, `PatchCheckCustomer`, `PatchWrite`; `StatusArrive`, `StatusWrite`;
`RemoveArrive`, `RemoveDelete`; `CustomerRemoveArrive`, `CustomerDelete` with its
cascade; `AuditLog`; `Crash`. Postgres contributes the unique order number, the
foreign key and the cascade. Histories: `gaps`, the organizations that lost an
order; `torn`, the orders whose last PATCH wrote over a newer row than it read;
`rough`, those whose last total came of a body with fractions of a cent; `written`, the
updates whose statement met a row. For a torn order the comment "total = amount *
quantity - discount + shippingFee (never negative)" (`order.service.ts:17`) is not true,
since two PATCHes of different factors leave the columns of both and the total of one.

*Money.* The columns are `Decimal(12,2)`, whole cents here; the DTO accepts any number of
decimals, so bodies name money in fractions of a cent, `Cent` of which make one. Price and
total are computed from what the body says (`Price`, `Totals`), the columns are rounded one
by one (`Cents`, `Stored`), and a PATCH takes what its body does not name from the columns
(`Full`). So total and columns may disagree by rounding: three units of 0.333 are stored as
0.33 with a total of 1.00. `TotalFollowsColumns` bounds this: the difference is zero after
whole cents, and never more than half a cent for each unit and for discount, fee and total.
`toFixed(2)` rounds the binary number, which for half a cent lies on either side of it, so
`Nearest` leaves the direction of a tie open; Postgres rounds a tie up. The order that
`prisma/seed.ts:79-97` writes (a total of 1160 where the formula gives 2360) does not come
through the API, and the model begins without it.

*The audit log.* `update` and `changeStatus` log ORDER_UPDATE whether or not their
`updateMany` met a row. `AuditTellsTruth` says that it did, or that the order has been
deleted; creations and removals are without exception.

**Ledger, and how OrderBook implements it.** `Ledger` is the book a tenant may rely
on: an order is entered once, under a number its tenant has not in use and for one of
the tenant's clients; it is amended in place, keeping tenant and number; it leaves
alone or with its client; and no step touches two orders, but the last. The
refinement mapping (`Promise` in `OrderBook`) reads `clients` from the customers,
`book` from the rows that exist (tenant, client, number, and the whole row) and
`spent` from the ids whose row was written. `CreateInsert` is `Enter`, `PatchWrite`
and `StatusWrite` are `Amend`, `RemoveDelete` is `Strike`, `CustomerDelete` is
`Dismiss`; every other statement is a stutter, and so are those that meet no row.
`Enter` asks of the new entry that its number is free and its client is there and of
the tenant. No statement of a create asks this, it follows from three of them, the
unique index and the foreign key.

### Directory

`customers`, `items` (tags, notes and the extension's orders) and `pivots` (the
tagged pairs) are the rows that exist; `row` and `item` hold their columns, also of
those deleted. What a text says matters to no statement, but who wrote it last does,
so a column holds the request that wrote it: `crm` for what the CRM owns (name,
phone, status, city...), `facebookName` for the live fields of the conversation,
`body` for a tag's name or a note's text. Only `facebookId` and `agent` keep their
values, being unique and a reference. Postgres contributes the foreign keys, the
cascades, the unique Facebook id per organization; an upsert is one statement. An
order's number and a tag's name may or may not be taken, nondeterministically.

| actions | code |
|---|---|
| `CreateCustomer`, `UpdateArrive`, `AssignArrive`, `CustomerWrite`, `CustomerReread`, `StatusArrive`, `StatusWrite`, `RemoveArrive`, `RemoveDelete`, `AuditLog` | `customer.service.ts`, `customer.repository.ts` |
| `Sync`; `ResolveFind`, `ResolveUpsert`, `ResolveCheck`, `NoteInsert`, `OrderInsert` | `extension.service.ts` and the notes and orders it calls |
| `CreateTag`, `TagEditArrive`, `TagRemoveArrive`, `ItemEdit`, `ItemDelete`, `AttachArrive`, `AttachCheck`, `AttachInsert`, `DetachArrive`, `DetachDelete` | `tag.service.ts`, `tag.repository.ts` |
| `NoteArrive`, `NoteEditArrive`, `NoteRemoveArrive`, with `NoteInsert`, `ItemEdit`, `ItemDelete` | `note.service.ts`, `note.repository.ts` |

A PATCH may clear a Facebook id or an agent. Histories: `written`, the updates that met a row; `overtaken`, the requests that
looked a person up and found nobody just before the person's row was created. As in
AuthSession the plain promise fails: "Auto-create a lightweight customer if the
extension didn't sync first." (`extension.service.ts:56`) ends with the id in place of
the name a sync wrote between the lookup and the upsert. `PlaceholdersRace` states what
holds: a placeholder takes the place of a name only in an overtaken request.
`AuditTellsTruth` holds of creations, updates, assignments and removals; `changeStatus` does
not reread its row as `update` does and logs CUSTOMER_UPDATE also when its customer was
deleted under it, which is the one exception the property makes.

### Staff

`role` is the column, `tokens` the access tokens in use, with the role each froze;
`signing[u]` is the role login or refresh has read and not yet signed. A role change
is the guard, the tenant check and the OWNER guard (`ChangeRoleArrive`), then the
update by id (`ChangeRoleWrite`). `Permissions` is the matrix without what every role
has. Sign-ins are not bounded, since nothing counts them; the refresh tokens behind
them are AuthSession's.

### Files

`files` and `row` are the table, `bucket` maps each key to the file by whose URL
its object was put, `urls` are the presigned URLs that still work. A key is the
tenant, the name and the second (`BuildKey`), as in `r2.service.ts`.

| actions | code |
|---|---|
| `PresignArrive`, `PresignInsert` | `presignUpload`; the unique key may refuse the row |
| `Put`, `UrlExpires`, `Tick` | the client, and time |
| `ConfirmFind`, `ConfirmMark` | `confirmUpload`: by key, then by id |
| `RemoveFind`, `RemoveObject`, `RemoveRow` | `remove`: the object, then the row |

What cannot hold shapes the properties. Nothing asks whether an object is there
when it is confirmed, so UPLOADED says only that somebody confirmed. A URL works for
15 minutes, also after its file was removed, and an object it puts then has no row:
`late` collects these, and `NoOrphans` says there are no others. A name used again
in the second in which its file was removed gets the same key, which a URL of the earlier
file used late and a second removal of it still reach. `Haunted` marks the files under such
a key only when one of these two has happened or is in flight, and `UploadsSurvive` excepts
no others. `RemovalsFinish` is about each removal: of two of one file the second finds no
object and no row, and ends all the same.

### Tenancy

Organization, subscription and owner made by registration `r` are called `r`, and so is
the session request `r` starts. `orgs`/`org`, `subs`/`sub`, `users` are the rows,
`tickets` and `mailed` the verification ticket and its mail, `session` the lifetimes of
what `issueTokens` and `createRefreshToken` made, `delivered` the sessions whose
tokens a client has. Names of organizations stand for the slugs made of them, `Draws`
for what a random suffix can make.

| actions | code |
|---|---|
| `RegisterArrive`, `SlugLookup` | `register`, each turn of `uniqueSlug` |
| `RegisterCommit` | the transaction: three rows, or none when the slug was taken meanwhile |
| `CreateTicket`, `SendVerification`, `StartSession`, `Reply` | the rest of `register`; the reply may be lost |
| `Login`, `StartSession`, `Reply` | `login`, by any row with the e-mail |
| `PatchOrgArrive`, `PatchOrgWrite` | `updateCurrent` |
| `PatchSubscription` | `SubscriptionService.update`, one upsert |
| `Crash` | a handler dies or its next statement fails |

`ParseTtl` is `parseTtl` and `JwtSeconds` what jsonwebtoken makes of the same string;
a lifetime is a number and a unit. They differ on purpose: a bare number is
milliseconds to the library when it is a string, as a value of the environment is, and
"2w" is 900 seconds to `parseTtl`. `SessionsLiveAsAnnounced` therefore asks for
agreement where the unit is one both know, as in the defaults.

An e-mail is unique within a tenant only and `register` makes a new tenant for any, so
several users may have it; `login` takes whichever row `findFirst` returns
(`user.repository.ts:25-28`, "email is globally findable") and refuses the password of
the others, who then cannot log in. That a user with the right credentials always can
is therefore not a property here; that whoever gets in writes only where these
credentials are the owner's is `SettingsAreTheOwners`.

### Dashboard

`OrderBook` is instantiated as it is, `BookStep` is any of its steps; beside it a
customer changes status (`MoveCustomer`). A viewer opens a report (`Open`), its
statements are answered one by one in any order within a batch (`Count`), then the
report is stored and delivered (`Deliver`), or a statement fails (`Fail`); `Expire` is
the end of a lifetime in Redis. `Batches` is the four reports: which figures each
counts, and that `customers` counts the last one after the others. The history `truth`
collects, for each figure of a report being read, the values it has had since the
reading began. What it collects is not what the statements count: `Figure` has their where
clauses, over the `organization_id` of each table, and `TrueFigure` goes by the tenant's
customers and the orders that hang on them. That the two agree is part of the property, and
for orders it needs that no order is in another tenant than its customer.

`revenueByMonth` and `growth` are statements of their own, over rows of the last twelve
months, with a bucket for each month that has any (`ByMonth`, `Young`). `now` is the time,
`placed` and `Joined` when a row was created, `Tick` lets time pass.

What cannot hold: the figures of one report need not fit together when the tables
change under it. In `customers` the ORDERED are counted after the others, so a customer
moved from DELIVERED to ORDERED meanwhile is counted twice and the conversion rate can
exceed 100 %. The sum of the months need not be the revenue, read by another statement. What
holds is `FiguresWereTrue`, figure by figure, and that all is exact in the end.

### Listing

`value` maps the rows a `where` clause admits to the column they are sorted by, so its
domain is the list. `limit` and `page` are the query, `asked` the statements answered,
`found` and `total` their results.

| actions | code |
|---|---|
| `Find`, `Count` | the two statements of every `paginate`, in the order of the `$transaction` array; of users, in any order (`Promise.all`) |
| `Deliver` | `findAll` with `buildPaginationMeta`; the client follows `hasNextPage` |
| `Fail` | a statement fails or the reply is lost, the client asks again |
| `Enter`, `Leave`, `Move` | another request creates, deletes or updates a row; of users, a PATCH of a name moves one in or out of a search |

`$transaction` gives no common snapshot at Postgres' default isolation, so others
commit between the two statements. Rows with one value come in any order, another each
time, as the code sorts by one column and adds no key; `IsPage` admits every such
answer. So the pages of a list at rest already repeat and miss tied rows, and
`PagesCoverTheList` excepts them (`tied`). For all others it says that only a row that
left or moved down can hide one, and only one that came or moved up can repeat one.
This rests on the order of the statements: were the rows counted first, one entering
between would hide the last page. The list of users asks for both at once, and there it can
happen: `hidden` is the history of a row that entered between the count of the page and its
rows, and the only further excuse `PagesCoverTheList` gives that list.

## 3. Runs that pass

| run | instance | distinct states | shows |
|---|---|---|---|
| `auth_sessions` | 1 user, 4 requests, 1 crash, the first session may expire | 865,768 | the eight invariants |
| `auth_live` | 2 users, 2 requests, 1 crash, fairness | 20,597 | isolation of revocations, old sessions end |
| `order_book` | 2 tenants, 3 customers, 3 requests, 2 bodies and 4 PATCHes in half cents, 1 crash | 167,220 | five invariants, the isolation of tenants, and that `Ledger` is implemented |
| `directory` | 2 mirrored tenants, one Facebook id, 3 requests | 495,489 | four invariants; the extension leaves the CRM's columns, tenants are isolated |
| `staff` | 3 users of 2 tenants, 2 role changes, any number of sign-ins | 50,464 | the loss of ownership is final; under fairness a demotion takes effect |
| `files` | 1 tenant, one name, 2 seconds, 4 requests, fairness | 173,001 | uploads survive, no orphans, each removal finishes |
| `tenancy` | 3 requests, 1 e-mail, 2 passwords, 1 name with 2 slugs, 2 configurations, 1 crash, fairness | 237,578 | tenants are whole, settings are their owners', lifetimes agree, every request answers |
| `dashboard` | 2 tenants, 1 customer, 1 request on the book, 1 move or tick, 2 viewers, fairness | 256,059 | figures were true; stored reports converge |
| `listing` | 4 rows, 3 values, pages of 1 or 2, any number of changes | 1,981,848 | what is missed or repeated has a reason, no page offered is empty without one |

*Why the bounds are enough.* Every known failure needs at most three requests: a
forked rotation is two refreshes, a session surviving a burn two refreshes and the
reuse, a session surviving a reset a refresh, a forgotPassword and a reset. Four
requests add one successor to each. Order numbers go wrong with three creates and a
removal; totals with a create and two PATCHes. A reference is
torn by at most three (a check, a deletion under it, a write), and a placeholder
race is a lookup and a sync. Two role changes make a chain of grants, the second by
the user the first promoted. A key is used twice by two uploads and a removal
between them. In `tenancy` the third registration finds both slugs taken, after two
have raced for one; the code's five attempts are a constant, two here, so that giving
up is reached; two tenants of one e-mail and a login are the least that login can
confuse. In `files` four requests are two uploads under one key with two removals of the
first, whose second one reaches the second upload; no statement leads from one tenant's key
to another's, so one tenant is enough, and that tenants are separate is proved. In
`dashboard` both viewers fill the sales report, so a slow fill may come after a newer one;
the book has an order created and a customer deleted with it, an order that counts as
revenue or one that does not, and a customer who grows too old for the series. The second
tenant has nothing, so a figure of customers that counts both tenants' shows there; orders
of two tenants side by side are in `order_book`, and the proof covers both. The report of
`stats` has only figures that others have too and is not opened in the run; the proof is of
all four.
In `listing` four rows are two full pages of two, an exact multiple, and three values
let a row move past another; changes are not bounded.
Two tenants suffice since no statement names more
than one; in `directory` each has the same rows, and swapping them is part of the
symmetry. Requests are interchangeable, so they are a
symmetry set in the safety runs (not in the liveness run, nor in the run of an
action property over particular bodies). What a bound cannot show is proved.

*Deadlock* is not checked: a behaviour in which every request has been answered
ends there. That a handler with a loop gets there is `EveryRequestAnswers`.

*Fairness.* `FairSpec` asks weak fairness of `Continue(r)` for each request: the
event loop runs a handler whose awaited statement has completed, and Postgres and
Redis answer every statement. No fairness is asked of arrivals, crashes or expiry.
`Continue(r)` is a sequence without loops and nothing disables a handler's next
statement, so weak fairness is enough. In `Staff` it is weak fairness of `SignInIssue` and
`ChangeRoleWrite` for the same reason, and of `RunOut` for each user and role, since
time passes: an access token lives 15 minutes. In `Files` it is weak fairness of
`Continue(r)` again: Postgres and the bucket answer. Nobody is obliged to sign in or to
change a role. In `Tenancy` it is weak fairness of `Continue(r)`, and here the loop of
`uniqueSlug` does turn: that it ends is a matter of its counter, not of fairness. In
`Dashboard` statements of readers are answered (`Continue(v)`) and lifetimes in Redis
end (`Expire(k)`); nobody has to look, and no change of the book has to happen.

## 4. Runs that find a disagreement

Each checks one sentence of the source, as it stands there.

| run | sentence | what the code does |
|---|---|---|
| `auth_rotated_once` | "Token unknown or already rotated/revoked → possible theft. Burn family." (`auth.service.ts:120`) | two refreshes that both look the token up before either revokes it both rotate it |
| `order_numbering` | "Atomic, gap-tolerant per-tenant order number generator." (`order.repository.ts:82`) | count + 1 is taken after an order in the middle was deleted |
| `order_patch` | "Recompute total if any monetary field changed." (`order.service.ts:66`) | a PATCH without `quantity` carries the initializer's 1 |

## 5. Proofs

The proof modules follow one scheme: a conjunction `IInv` of named parts, a lemma
per action (or group of actions) that it preserves `IInv`, the theorem `Invariance`
(`Spec => []IInv`), and from it one theorem per property. Assumptions are those of
the ASSUMEs of the models and nothing else. `Invariance` covers crashes, expiry and
any number of users, requests, tenants, customers and bodies.

**AuthSession.** `IInv` is `Shape` (the type invariant; which labels a handler of
which kind can be at; which locals it holds there; that a token's user and family
are its session's) and one part per property. The parts are needed because none of
the properties is inductive alone: that a refreshed row's parent is revoked
(`RotationOrder`) is kept by `CreateToken` only if it holds *of the handler* before
the insert, so `RotationInv` states it for handlers at `createToken` too. In the
same way `OneLiveInv`, `PasswordInv` and `BurnInv` extend each property from live
rows to the handlers that are going to insert one, with `raced` as the escape, and
`ResetInv`, `AuthorityInv`, `LogoutInv` follow the locals from the arrival of a
request to the statement that uses them, the hash a change has verified among them. Theorems: `TypeCorrect`,
`RotationIsOrdered`, `SessionsAreLinear`, `PasswordChangeEndsSessions`,
`ReuseEndsFamily`, `ResetTicketsAreSpent`, `PasswordsAreAuthorized`,
`LogoutIsComplete` and, for the action property, `RevocationsAreOwn`.

**OrderBook.** `TenantInv` extends `OrdersStayInTenant` to the customers handlers
have checked and not yet written: they may be gone by the write, and then the
foreign key refuses it, but a customer never changes organization. `DenseInv`
bounds the number a create holds by the number of its organization's orders plus
one while nothing was lost: then an insert that the unique index lets through
takes exactly the next number; this needs the cardinality facts of finite sets.
`AuditInv` follows a removal or an update from its write to its audit row, and needs that
an id is inserted by one request only. `TotalFollowsColumns` is inductive as it stands,
for `torn` records exactly the PATCHes that read another row than they met; what an insert
or a PATCH writes satisfies it by the arithmetic of rounding, stated apart: `CentsRounds`
(a column is within half a cent of its body), `TotalExact` (whole cents give the formula)
and `TotalNear` (otherwise the halves add up, the amount's as often as there are units).
Theorems: `TypeCorrect`, `OrdersAreTenantSafe`, `TotalsAreConsistent`,
`NumbersHaveNoHoles`, `AuditIsTrue`, `TenantsAreSeparate`.

**OrderBook implements Ledger** (the end of `OrderBookProofs`). `OrderBookKeepsItsPromise` maps each
step to a step of `Ledger` or a stutter (`StepMaps`), with one lemma per action that
writes: `InsertEnters`, `PatchAmends`, `StatusAmends`, `RemovalStrikes`,
`DeletionDismisses`. To `IInv` it adds `SpentInv`: a row is written only by the request
it is named after and by later writes to it, so an id about to be entered is not spent.
`TenantInv` gives that an amended order stays with a client of its tenant, and that a
customer gone before its deletion has left no orders.

**Staff.** `OwnershipIsInherited` is a fact about rows, but a row gets its role from
a request in flight, which was let through by a token, which was signed from an
earlier reading of another row. `IInv` says of all four places that an OWNER role in
them belongs to a tenant that had an owner (`RowsInherit`, `SigningInherits`,
`TokensInherit`, `PendingInherits`), and that a request past its guards has a target
in its token's tenant (`PendingOK`). Theorems: `TypeCorrect`, `OwnershipHasSource`,
`OwnerlessStays`, `RolesAreTenantSafe` (no request changes a role in
another tenant, `RolesChangeInTenant`; no run checks this one and `OwnershipIsInherited`
separately); and of the permission matrix alone,
`RolesAreNested`: along `ROLE_WEIGHT` every role may do what a lower one may.

**Files.** `IInv` knows that a row belongs to its request and a handler past its
lookup to a row (`RowsOK`), that an object lies under the key of the file that put
it (`BucketOK`), and follows a removal (`RemovalInv`): while it stands between the
bucket and the row, whatever is under the key was put late or by another file, and
every other object's file has its row. `UploadsSurvive` is inductive beside these,
since a PUT or a delete under f's key by another file means that the file has gone
before f came, through a removal that ended (`Ended`), and so that the PUT was late or the
delete a second removal's. Theorems: `TypeCorrect`, `UploadsAreKept`, `NothingIsLeftBehind`,
`TenantsAreSeparate`.

**Directory.** `IInv` joins what the rows satisfy (`TypeOK`, `RowsOK`,
`ReferencesStayInTenant`, `PlaceholdersRace`) to `RequestsOK`, which says of each
request what its handler has behind it: the operation its statement belongs to
(`OpFits`); that the rows it looked up once were there and of its tenant
(`ContextFits`), which stays true when they are deleted, since a row's tenant and an
item's kind are never written again; that nothing under its own name is there before
its insert (`Fresh`); that its audit row is still true when it comes to write it
(`Truthful`); that a lookup which found nobody would find nobody now, unless it was
overtaken (`Alone`). That no step of `r` disturbs what is said of the others is one
frame condition, `Gentle(r)`, which every action is shown to satisfy. A pivot row has no tenant, so that a tagged pair stays in one rests on
the handler's two checks (`ContextFits`) and on the foreign keys at the insert.
Theorems: `TypeCorrect`, `ReferencesAreTenantSafe`, `AuditIsTrue`,
`PlaceholdersOnlyRace`, and the action properties `CrmColumnsAreOwned` and
`TenantsStayApart`.

**Tenancy.** `SettingsAreTheOwners` is about rows and the credentials a session once
presented, so `SessionOK` follows the credentials: `login` leaves them `Authentic` for
the row it picked, `Authentic` is kept by every step since credentials are told once
and no user is removed, and a PATCH acts for the user of a delivered session.
`RegisteredOK` ties the three rows of a tenant, its ticket and its mail to the
statement its registration stands at, so that before the transaction nothing of it is
there, and `OneRowEach` is the transaction and the unique slug. `Mild(r)` is the frame
condition. Theorems: `TypeCorrect`, `TenantsComeWhole`, `SettingsStayWithOwners`,
`LifetimesAgree` (for any configuration, from what `Issue` computes).

**Listing.** `PagesCoverTheList` speaks of the end, so the invariant says where a row
that kept its place is on the way there. Not yet seen, it is `Awaited`: its place is not
before the page asked for, and once the statements are answered it is on the page or
the count leaves room for another. Seen, it is `Passed`: its place is before the page.
The first holds while nothing left or moved down, the second while nothing came or
moved up (`Shift` is all that the three changes of a list have in common). What is on a
page follows from `IsPage` by induction over the beginnings of the list
(`PageOfBeginning`); the induction is stated as the existence of a least set
(`LeastSet`, from the well-foundedness of inclusion on finite sets), which needs no
operator as a parameter. `NextPage` is the arithmetic of `buildPaginationMeta`: there is
a next page exactly if `skip + limit < total`. That the rows are read before they are
counted is used in `CountInv`, where the count must be of a list that has the row
awaited; in the list of users, which may be counted first, it still has room for that row
unless another enters before the rows are read, and this is `Excused`. Theorems: `TypeCorrect`, `PagesAreComplete`, `NextPagesHaveRows`, for any rows,
values, page sizes and any number of changes.

**Dashboard.** The book in it is an instance of `OrderBook`, and so is what is proved
of it: `DashboardProofs` instantiates `OrderBookProofs`, shows the two instances to have
the same steps (`SameInit`, `SameNext`) and gets the invariant of the book for every
behaviour with readers (`BookInvariance`). On top of it `IInv` says of each reader that
`truth` has the present value of every figure it may still read (`ReaderOK`), which is
what makes the value counted next a true one, and of a stored report that it is complete
and one tenant's (`StoredOK`). That a statement counts the true figure is `FigureTrue`: the
orders a where clause admits are those of the tenant's customers, by `OrdersStayInTenant`,
which `OrderBookProofs` proves of the book. That revenue is a number is an induction over the orders
it adds up: `SumsExist` shows that the recursion of the sum defines a function, by the
least number of rows for which it would not, and `TotalTyped` that its values are natural
numbers. Theorems: `TypeCorrect`, `FiguresAreTrue`. They assume what the model says of
its constants, that the table of customers is finite among it.

**Only model-checked**: the liveness properties `EveryRequestAnswers`,
`OldSessionsEnd`, `DemotionTakesEffect`, `RemovalsFinish` and `ReportsConverge` (the prover does
not reason about fairness); and the disagreements of section 4, which are
counterexamples. Every invariant and every other action property that a passing run
checks is also proved.

## 6. Not modelled, and why

* *Notifications*: nothing in the code creates one, so the table is empty in every
  reachable state, and marking as read meets no row.
* *Averages and rates of the reports*: arithmetic over figures that are modelled, and that
  may have been read at different moments.
* *The subscription's columns*: `SettingsAreTheOwners` is about the columns of the
  organization. Plan and seats are written by one upsert for the organization of the token,
  behind a permission that only the owner's role has as well.
* *A mail that was never queued*: when register() fails after its transaction nothing
  sends the verification again, and no property asks for it.
* *When exactly a token runs out*: `AuthSession` lets it happen at any moment,
  `Tenancy` compares the lengths.
* *Disabled users and organizations*: `is_active` is set by no code.
* *Mail processor*: it logs. Its retries resend a mail and touch no other state.
* *Throttler, RolesGuard, response envelope, bootstrap, health, logging*: no state
  that requests share, or presentation.
* *Reads of single rows*: they change nothing. Their where clauses carry the tenant
  through `scope()` as those of the writes do.

## 7. Plan

`Session.tla`, an abstract specification of a session: a line of tokens, each
superseded by its successor, ended by logout, reuse or a new password. `AuthSession`
without overtaken handlers is to implement it, as `OrderBook` implements `Ledger`.
