------------------------------- MODULE Files -------------------------------
(***************************************************************************)
(* Files: rows in Postgres, objects in a bucket that clients write to by   *)
(* presigned URLs, and nothing that keeps the two together but the order   *)
(* in which handlers write (modules/file, infra/storage).                  *)
(*                                                                         *)
(* A statement is an action; a file is named after the request that        *)
(* created its row, and an object after the file whose URL it was put by.  *)
(* A key is the tenant, the name and the second of its making, so a name   *)
(* used twice in a second gives a key twice.  Postgres adds the unique     *)
(* key.  The bucket takes any PUT by a URL that has not run out and        *)
(* deletes an object whether or not it is there.  A handler that dies is   *)
(* one that takes no further step.                                         *)
(***************************************************************************)
EXTENDS Naturals

CONSTANTS
    Orgs, Names,
    MaxSecond,  \* bound: the seconds that pass
    Requests,
    None

ASSUME FilesConstants == MaxSecond \in Nat /\ None \notin Orgs \cup Requests

VARIABLES
    pc,        \* the next statement of each request's handler
    ctx,       \* its locals
    now,       \* Date.now(), in seconds
    files,     \* files: the rows that exist
    row,       \* ... and their columns; of a deleted file, the last ones
    bucket,    \* the object under each key: by whose URL it was put
    urls,      \* the files whose presigned PUT URL a client can use
    uploaded,  \* history: files whose URL was used
    late       \* history: ... after a removal of them had begun

rows == <<files, row>>
history == <<uploaded, late>>
vars == <<pc, ctx, now, rows, bucket, urls, history>>

Keys == [org: Orgs, name: Names, second: 0..MaxSecond]
Ops == {"none", "presign", "confirm", "remove"}
Labels == {"new", "insert", "mark", "deleteObject", "deleteRow", "done", "refused"}
Statuses == {"PENDING", "UPLOADED"}

Locals(op, org, key, file) == [op |-> op, org |-> org, key |-> key, file |-> file]
FileObject(org, key, status) == [org |-> org, key |-> key, status |-> status]

\* The key no object has; what a request without a key holds.
NoKey == [org |-> None]

Init ==
    /\ pc = [r \in Requests |-> "new"]
    /\ ctx = [r \in Requests |-> Locals("none", None, NoKey, None)]
    /\ now = 0
    /\ files = {} /\ row = [f \in Requests |-> FileObject(None, NoKey, "PENDING")]
    /\ bucket = [k \in Keys |-> None]
    /\ urls = {}
    /\ uploaded = {} /\ late = {}

-----------------------------------------------------------------------------
\* where: { ..., organizationId } on files.
Owns(g, f) == f \in files /\ row[f].org = g

\* The row that has a key.
WithKey(k) == {f \in files : row[f].key = k}

\* A removal of f got past its findById.
Removing(f) == \E r \in Requests : ctx[r].op = "remove" /\ ctx[r].file = f

At(r, label) == pc[r] = label
Goto(r, label) == pc' = [pc EXCEPT ![r] = label]

Admit(r, locals, label) ==
    /\ At(r, "new")
    /\ ctx' = [ctx EXCEPT ![r] = locals]
    /\ Goto(r, label)

\* buildKey
BuildKey(g, n) == [org |-> g, name |-> n, second |-> now]

-----------------------------------------------------------------------------
\* presignUpload(): the key; signing its URL asks nobody.
PresignArrive(r, g, n) ==
    /\ Admit(r, Locals("presign", g, BuildKey(g, n), r), "insert")
    /\ UNCHANGED <<now, rows, bucket, urls, history>>

\* presignUpload(): the row and the reply with the URL; a key in use is refused (mutant:
\* the schema lets it pass).
PresignInsert_Twice(r) ==
    /\ At(r, "insert")
    /\ files' = files \cup {r}
    /\ row' = [row EXCEPT ![r] = FileObject(ctx[r].org, ctx[r].key, "PENDING")]
    /\ urls' = urls \cup {r}
    /\ Goto(r, "done")
    /\ UNCHANGED <<ctx, now, bucket, history>>

PresignInsert(r) ==
    /\ At(r, "insert")
    /\ \/ /\ WithKey(ctx[r].key) = {}
          /\ files' = files \cup {r}
          /\ row' = [row EXCEPT ![r] = FileObject(ctx[r].org, ctx[r].key, "PENDING")]
          /\ urls' = urls \cup {r}
          /\ Goto(r, "done")
       \/ /\ WithKey(ctx[r].key) # {}
          /\ Goto(r, "refused")
          /\ UNCHANGED <<rows, urls>>
    /\ UNCHANGED <<ctx, now, bucket, history>>

\* A client uses its URL, in time or not, as often as it likes.
Put(f) ==
    /\ f \in urls
    /\ bucket' = [bucket EXCEPT ![ctx[f].key] = f]
    /\ uploaded' = uploaded \cup {f}
    /\ late' = IF Removing(f) THEN late \cup {f} ELSE late
    /\ UNCHANGED <<pc, ctx, now, rows, urls>>

UrlExpires(f) ==
    /\ f \in urls
    /\ urls' = urls \ {f}
    /\ UNCHANGED <<pc, ctx, now, rows, bucket, history>>

Tick ==
    /\ now < MaxSecond
    /\ now' = now + 1
    /\ UNCHANGED <<pc, ctx, rows, bucket, urls, history>>

\* confirmUpload(): findByKey within the tenant.
ConfirmFind(r, g, f) ==
    /\ Owns(g, f)
    /\ Admit(r, Locals("confirm", g, row[f].key, f), "mark")
    /\ UNCHANGED <<now, rows, bucket, urls, history>>

\* confirmUpload(): markStatus by id; the row may have gone.
ConfirmMark(r) ==
    /\ At(r, "mark")
    /\ LET f == ctx[r].file IN
       \/ /\ f \in files
          /\ row' = [row EXCEPT ![f].status = "UPLOADED"]
          /\ Goto(r, "done")
       \/ /\ f \notin files
          /\ Goto(r, "refused")
          /\ UNCHANGED row
    /\ UNCHANGED <<ctx, now, files, bucket, urls, history>>

\* remove(): findById within the tenant (mutant: on to the row, the object is forgotten).
RemoveFind_RowOnly(r, g, f) ==
    /\ Owns(g, f)
    /\ Admit(r, Locals("remove", g, row[f].key, f), "deleteRow")
    /\ UNCHANGED <<now, rows, bucket, urls, history>>

RemoveFind(r, g, f) ==
    /\ Owns(g, f)
    /\ Admit(r, Locals("remove", g, row[f].key, f), "deleteObject")
    /\ UNCHANGED <<now, rows, bucket, urls, history>>

\* Mutant: all objects of the name are deleted, whatever second their keys were made in.
RemoveObject_Prefix(r) ==
    /\ At(r, "deleteObject")
    /\ bucket' = [k \in Keys |-> IF [k EXCEPT !.second = 0] = [ctx[r].key EXCEPT !.second = 0]
                                 THEN None ELSE bucket[k]]
    /\ Goto(r, "deleteRow")
    /\ UNCHANGED <<ctx, now, rows, urls, history>>

\* remove(): the object of the key, whether or not there is one (mutant: there must be).
RemoveObject_Strict(r) ==
    /\ At(r, "deleteObject")
    /\ bucket[ctx[r].key] # None
    /\ bucket' = [bucket EXCEPT ![ctx[r].key] = None]
    /\ Goto(r, "deleteRow")
    /\ UNCHANGED <<ctx, now, rows, urls, history>>

RemoveObject(r) ==
    /\ At(r, "deleteObject")
    /\ bucket' = [bucket EXCEPT ![ctx[r].key] = None]
    /\ Goto(r, "deleteRow")
    /\ UNCHANGED <<ctx, now, rows, urls, history>>

\* remove(): deleteMany within the tenant.
RemoveRow(r) ==
    /\ At(r, "deleteRow")
    /\ files' = files \ {f \in {ctx[r].file} : Owns(ctx[r].org, f)}
    /\ Goto(r, "done")
    /\ UNCHANGED <<ctx, now, row, bucket, urls, history>>

-----------------------------------------------------------------------------
Arrive(r) ==
    \E g \in Orgs :
        \/ \E n \in Names : PresignArrive(r, g, n)
        \/ \E f \in files : ConfirmFind(r, g, f) \/ RemoveFind(r, g, f)

Continue(r) == PresignInsert(r) \/ ConfirmMark(r) \/ RemoveObject(r) \/ RemoveRow(r)

Next ==
    \/ \E r \in Requests : Arrive(r) \/ Continue(r)
    \/ \E f \in urls : Put(f) \/ UrlExpires(f)
    \/ Tick

Spec == Init /\ [][Next]_vars

\* Postgres and the bucket answer, and a handler whose statement has completed goes on.
\* Clients and callers need do nothing.
FairSpec == Spec /\ \A r \in Requests : WF_vars(Continue(r))

-----------------------------------------------------------------------------
Context == [op: Ops, org: Orgs \cup {None}, key: Keys \cup {NoKey}, file: Requests \cup {None}]
RowType == [org: Orgs \cup {None}, key: Keys \cup {NoKey}, status: Statuses]

\* Every variable stays in its domain, and no two rows have one key.
TypeOK ==
    /\ pc \in [Requests -> Labels] /\ ctx \in [Requests -> Context]
    /\ now \in 0..MaxSecond
    /\ files \subseteq Requests /\ row \in [Requests -> RowType]
    /\ \A f, h \in files : row[f].key = row[h].key => f = h
    /\ bucket \in [Keys -> Requests \cup {None}]
    /\ urls \subseteq Requests /\ uploaded \subseteq Requests /\ late \subseteq uploaded

\* Two removals of f got past their findById; the object of f's key is deleted twice.
Twice(f) == \E q, r \in Requests : /\ q # r
                                   /\ ctx[q].op = "remove" /\ ctx[q].file = f
                                   /\ ctx[r].op = "remove" /\ ctx[r].file = f

\* f took over the key of a file that has gone, and is in reach of what was left of
\* that one: a URL used late, or a removal besides the one that took its row.
Haunted(f) == \E h \in Requests \ files : row[h].key = row[f].key /\ (h \in late \/ Twice(h))

\* What a client uploaded stays there for its file's row until a removal of that file
\* begins.  Keys have a granularity of one second: under a key used before, a late PUT
\* of the earlier file or a second removal of it may take the object, nothing else may
\* (r2.service.ts:47-51, schema.prisma:395).
UploadsSurvive ==
    \A f \in files \cap uploaded :
        ~Removing(f) /\ ~Haunted(f) => bucket[row[f].key] = f

\* An object without a row was put by a URL that outlived its file: the object is
\* deleted before its row, so a removal that dies half way leaves a row, which can be
\* removed again, and no object out of reach (file.service.ts:56-57).
NoOrphans ==
    \A k \in Keys : bucket[k] # None /\ WithKey(k) = {} => bucket[k] \in late

\* A step of one tenant's request leaves rows and objects of another alone, though
\* markStatus is by id and the bucket's delete by key (file.repository.ts:28-30).
TenantsAreIsolated ==
    [][\A r \in Requests : pc'[r] # pc[r] =>
           /\ \A f \in files : row[f].org # ctx'[r].org => f \in files' /\ row'[f] = row[f]
           /\ \A k \in Keys : k.org # ctx'[r].org => bucket'[k] = bucket[k]]_vars

\* Every removal that has begun ends with its file gone, also of a file that was never
\* uploaded, and each of two removals of one file (file.service.ts:53-58).
RemovalsFinish ==
    \A r \in Requests : ctx[r].op = "remove" ~> pc[r] = "done" /\ ctx[r].file \notin files
=============================================================================
