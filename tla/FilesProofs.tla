---------------------------- MODULE FilesProofs ----------------------------
(***************************************************************************)
(* Proofs about Files, for any tenants, names and requests and however     *)
(* many seconds pass.                                                      *)
(***************************************************************************)
EXTENDS Files, TLAPS

\* The row of f was created, and may have gone again.
Inserted(f) == row[f].key # NoKey

\* The statement a handler stands at tells its operation; before it has created its
\* row, a request is nobody's file.
LabelsOK ==
    \A r \in Requests :
        /\ pc[r] = "new" => ctx[r].op = "none"
        /\ pc[r] = "insert" => /\ ctx[r].op = "presign" /\ ctx[r].key \in Keys
                               /\ ctx[r].org \in Orgs /\ ctx[r].key.org = ctx[r].org
        /\ pc[r] = "mark" => ctx[r].op = "confirm"
        /\ pc[r] \in {"deleteObject", "deleteRow"} => ctx[r].op = "remove"

\* The row of a file is its request's, and whoever is going to change a file knows its
\* key and its tenant.
RowsOK ==
    /\ \A f \in Requests : Inserted(f) =>
          /\ pc[f] = "done" /\ ctx[f].op = "presign"
          /\ row[f].key = ctx[f].key /\ ctx[f].key \in Keys
          /\ row[f].org = ctx[f].org /\ ctx[f].org \in Orgs /\ ctx[f].key.org = ctx[f].org
    /\ \A f \in files \cup urls \cup uploaded : Inserted(f)
    /\ \A r \in Requests : ctx[r].op \in {"confirm", "remove"} =>
          /\ ctx[r].file \in Requests /\ Inserted(ctx[r].file)
          /\ ctx[r].key = row[ctx[r].file].key /\ ctx[r].org = row[ctx[r].file].org

\* An object was put by a URL of its key.
BucketOK == \A k \in Keys : bucket[k] # None => bucket[k] \in uploaded /\ row[bucket[k]].key = k

\* A removal of f has run to its end.
Ended(f) == \E q \in Requests : ctx[q].op = "remove" /\ ctx[q].file = f /\ pc[q] = "done"

\* Rows go only by removals; while one stands at the row, what it left under the key
\* was put late; and an object not put late has its row.
RemovalInv ==
    /\ \A f \in Requests : Inserted(f) /\ f \notin files => Ended(f)
    /\ \A r \in Requests : pc[r] = "deleteRow" /\ bucket[ctx[r].key] = ctx[r].file
          => ctx[r].file \in late
    /\ \A k \in Keys : bucket[k] # None => bucket[k] \in files \cup late

Shape == TypeOK /\ LabelsOK /\ RowsOK /\ BucketOK
IInv == Shape /\ UploadsSurvive /\ RemovalInv

-----------------------------------------------------------------------------
\* NoKey is no object's key, and no request's name is None.
LEMMA NoKeyFact == NoKey \notin Keys /\ None \notin Requests /\ None \notin Orgs
<1>1. \A k \in Keys : k.org \in Orgs
  BY DEF Keys
<1>2. NoKey.org = None
  BY DEF NoKey
<1> QED
  BY <1>1, <1>2, FilesConstants

LEMMA InitInv == Init => IInv
<1> SUFFICES ASSUME Init PROVE IInv
  OBVIOUS
<1>1. TypeOK
  BY FilesConstants DEF Init, TypeOK, Labels, Context, Locals, Ops, RowType, FileObject, Statuses
<1>2. LabelsOK
  BY DEF Init, LabelsOK, Locals
<1>3. ~(\E f \in Requests : Inserted(f))
  BY DEF Init, Inserted, FileObject
<1>4. RowsOK /\ BucketOK
  BY <1>3 DEF Init, RowsOK, BucketOK, Locals
<1>5. UploadsSurvive /\ RemovalInv
  BY <1>3 DEF Init, UploadsSurvive, RemovalInv
<1> QED
  BY <1>1, <1>2, <1>4, <1>5 DEF IInv, Shape

-----------------------------------------------------------------------------
LEMMA PresignArriveInv ==
    ASSUME IInv, NEW r \in Requests, NEW g \in Orgs, NEW n \in Names, PresignArrive(r, g, n)
    PROVE  IInv'
<1> DEFINE c == Locals("presign", g, BuildKey(g, n), r)
<1>1. /\ pc[r] = "new" /\ pc' = [pc EXCEPT ![r] = "insert"] /\ ctx' = [ctx EXCEPT ![r] = c]
      /\ UNCHANGED <<now, files, row, bucket, urls, uploaded, late>>
  BY DEF PresignArrive, Admit, At, Goto, rows, history
<1>2. BuildKey(g, n) \in Keys /\ BuildKey(g, n).org = g
  BY DEF BuildKey, Keys, IInv, Shape, TypeOK
<1>3. c \in Context /\ c.op = "presign" /\ c.org = g /\ c.key = BuildKey(g, n) /\ c.file = r
  BY <1>2 DEF Locals, Context, Ops
<1>4. TypeOK /\ LabelsOK /\ RowsOK /\ BucketOK /\ UploadsSurvive /\ RemovalInv
  BY DEF IInv, Shape
<1>5. ctx[r].op = "none" /\ ~Inserted(r)
  BY <1>1, <1>4 DEF LabelsOK, RowsOK
<1>6. TypeOK'
  BY <1>1, <1>3, <1>4 DEF TypeOK, Labels
<1>7. LabelsOK'
  BY <1>1, <1>2, <1>3, <1>4 DEF LabelsOK, TypeOK
<1>8. \A q \in Requests : q # r => ctx'[q] = ctx[q] /\ pc'[q] = pc[q]
  BY <1>1, <1>4 DEF TypeOK
<1>9. ctx'[r] = c /\ pc'[r] = "insert"
  BY <1>1, <1>4 DEF TypeOK
<1>10. \A f : Inserted(f)' <=> Inserted(f)
  BY <1>1 DEF Inserted
<1>11. RowsOK' /\ BucketOK'
  BY <1>1, <1>3, <1>4, <1>5, <1>8, <1>9, <1>10 DEF RowsOK, BucketOK
<1>12. \A f : /\ Removing(f)' <=> Removing(f)
              /\ Twice(f)' <=> Twice(f)
              /\ Ended(f) => Ended(f)'
  <2>1. \A f : Removing(f)' <=> Removing(f)
    BY <1>3, <1>5, <1>8, <1>9 DEF Removing
  <2>2. \A f : Twice(f)' <=> Twice(f)
    BY <1>3, <1>5, <1>8, <1>9 DEF Twice
  <2>3. \A f : Ended(f) => Ended(f)'
    BY <1>3, <1>5, <1>8, <1>9 DEF Ended
  <2> QED
    BY <2>1, <2>2, <2>3
<1>13. UploadsSurvive' /\ RemovalInv'
  BY <1>1, <1>4, <1>8, <1>9, <1>10, <1>12 DEF UploadsSurvive, RemovalInv, Haunted
<1> QED
  BY <1>6, <1>7, <1>11, <1>13 DEF IInv, Shape

LEMMA PresignInsertInv ==
    ASSUME IInv, NEW r \in Requests, PresignInsert(r)
    PROVE  IInv'
<1>1. TypeOK /\ LabelsOK /\ RowsOK /\ BucketOK /\ UploadsSurvive /\ RemovalInv
  BY DEF IInv, Shape
<1>2. /\ pc[r] = "insert" /\ ctx[r].op = "presign" /\ ctx[r].key \in Keys
      /\ ctx[r].org \in Orgs /\ ctx[r].key.org = ctx[r].org /\ ~Inserted(r)
      /\ UNCHANGED <<ctx, now, bucket, uploaded, late>>
  BY <1>1 DEF PresignInsert, At, LabelsOK, RowsOK, history
<1>3. \A f : (Removing(f)' <=> Removing(f)) /\ (Twice(f)' <=> Twice(f))
  BY <1>2 DEF Removing, Twice
<1>4. CASE /\ WithKey(ctx[r].key) = {} /\ files' = files \cup {r}
           /\ row' = [row EXCEPT ![r] = FileObject(ctx[r].org, ctx[r].key, "PENDING")]
           /\ urls' = urls \cup {r} /\ Goto(r, "done")
  <2> DEFINE x == FileObject(ctx[r].org, ctx[r].key, "PENDING")
  <2>1. x \in RowType /\ x.key = ctx[r].key /\ x.org = ctx[r].org
    BY <1>2 DEF FileObject, RowType, Statuses
  <2>2. row'[r] = x /\ \A f \in Requests : f # r => row'[f] = row[f]
    BY <1>1, <1>4 DEF TypeOK
  <2>3. pc'[r] = "done" /\ \A f \in Requests : f # r => pc'[f] = pc[f]
    BY <1>1, <1>4 DEF TypeOK, Goto
  <2>4. \A f \in Requests : Inserted(f)' <=> (Inserted(f) \/ f = r)
    BY <1>2, <2>1, <2>2, NoKeyFact DEF Inserted
  <2>5. r \notin files /\ r \notin uploaded /\ \A f \in files : row[f].key # ctx[r].key
    BY <1>1, <1>2, <1>4 DEF RowsOK, WithKey
  <2>6. TypeOK'
    <3>1. \A f, h \in files' : row'[f].key = row'[h].key => f = h
      BY <1>1, <1>4, <2>1, <2>2, <2>5 DEF TypeOK
    <3>2. pc' \in [Requests -> Labels] /\ row' \in [Requests -> RowType]
      BY <1>1, <1>4, <2>1 DEF TypeOK, Goto, Labels
    <3> QED
      BY <1>1, <1>2, <1>4, <3>1, <3>2 DEF TypeOK
  <2>7. LabelsOK'
    BY <1>1, <1>2, <2>3 DEF LabelsOK
  <2>8. RowsOK'
    <3>1. \A f \in Requests : Inserted(f)' =>
              /\ pc'[f] = "done" /\ ctx[f].op = "presign"
              /\ row'[f].key = ctx[f].key /\ ctx[f].key \in Keys
              /\ row'[f].org = ctx[f].org /\ ctx[f].org \in Orgs /\ ctx[f].key.org = ctx[f].org
      BY <1>1, <1>2, <2>1, <2>2, <2>3, <2>4 DEF RowsOK
    <3>2. \A f \in files' \cup urls' \cup uploaded : Inserted(f)'
      BY <1>1, <1>4, <2>4 DEF RowsOK, TypeOK
    <3>3. \A q \in Requests : ctx[q].op \in {"confirm", "remove"} =>
              /\ ctx[q].file \in Requests /\ Inserted(ctx[q].file)'
              /\ ctx[q].key = row'[ctx[q].file].key /\ ctx[q].org = row'[ctx[q].file].org
      BY <1>1, <1>2, <2>2, <2>4 DEF RowsOK
    <3> QED
      BY <1>2, <3>1, <3>2, <3>3 DEF RowsOK
  <2>9. BucketOK'
    BY <1>1, <1>2, <2>2, <2>5 DEF BucketOK, TypeOK
  <2>10. UploadsSurvive'
    <3> SUFFICES ASSUME NEW f \in files', f \in uploaded, ~Removing(f)', ~Haunted(f)'
                 PROVE  bucket[row'[f].key] = f
      BY <1>2 DEF UploadsSurvive
    <3>1. f # r /\ f \in files /\ f \in Requests /\ Inserted(f)
      BY <1>1, <1>4, <2>5 DEF TypeOK, RowsOK
    <3>2. ~Haunted(f)
      <4>1. row[r].key # row[f].key
        BY <1>2, <3>1 DEF Inserted
      <4>2. \A h \in Requests \ files : h # r /\ row[h].key = row[f].key => h \notin late /\ ~Twice(h)
        BY <1>2, <1>3, <1>4, <2>2, <3>1 DEF Haunted
      <4> QED
        BY <4>1, <4>2 DEF Haunted
    <3> QED
      BY <1>1, <1>3, <2>2, <3>1, <3>2 DEF UploadsSurvive
  <2>11. RemovalInv'
    <3>1. \A f : Ended(f) => Ended(f)'
      BY <1>2, <2>3 DEF Ended
    <3> QED
      BY <1>1, <1>2, <1>4, <2>3, <2>4, <3>1 DEF RemovalInv
  <2> QED
    BY <2>6, <2>7, <2>8, <2>9, <2>10, <2>11 DEF IInv, Shape
<1>5. CASE Goto(r, "refused") /\ UNCHANGED <<files, row, urls>>
  <2>1. pc'[r] = "refused" /\ \A f \in Requests : f # r => pc'[f] = pc[f]
    BY <1>1, <1>5 DEF TypeOK, Goto
  <2>2. \A f : Inserted(f)' <=> Inserted(f)
    BY <1>5 DEF Inserted
  <2>3. TypeOK' /\ LabelsOK'
    BY <1>1, <1>2, <1>5, <2>1 DEF TypeOK, LabelsOK, Goto, Labels
  <2>4. RowsOK' /\ BucketOK'
    BY <1>1, <1>2, <1>5, <2>1, <2>2 DEF RowsOK, BucketOK
  <2>5. \A f : Ended(f) => Ended(f)'
    BY <1>2, <2>1 DEF Ended
  <2>6. UploadsSurvive' /\ RemovalInv'
    BY <1>1, <1>2, <1>3, <1>5, <2>1, <2>2, <2>5 DEF UploadsSurvive, RemovalInv, Haunted
  <2> QED
    BY <2>3, <2>4, <2>6 DEF IInv, Shape
<1> QED
  BY <1>4, <1>5 DEF PresignInsert, rows

\* A client's PUT reaches the object of another file only late, under a key used before.
LEMMA PutInv ==
    ASSUME IInv, NEW h \in urls, Put(h)
    PROVE  IInv'
<1>1. TypeOK /\ LabelsOK /\ RowsOK /\ BucketOK /\ UploadsSurvive /\ RemovalInv
  BY DEF IInv, Shape
<1>2. /\ bucket' = [bucket EXCEPT ![ctx[h].key] = h] /\ uploaded' = uploaded \cup {h}
      /\ late' = (IF Removing(h) THEN late \cup {h} ELSE late)
      /\ UNCHANGED <<pc, ctx, now, files, row, urls>>
  BY DEF Put, rows
<1>3. h \in Requests /\ Inserted(h) /\ row[h].key = ctx[h].key /\ ctx[h].key \in Keys
  BY <1>1 DEF TypeOK, RowsOK
<1>4. \A f : /\ Removing(f)' <=> Removing(f)
             /\ Twice(f)' <=> Twice(f)
             /\ Ended(f)' <=> Ended(f)
             /\ Inserted(f)' <=> Inserted(f)
  BY <1>2 DEF Removing, Twice, Ended, Inserted
<1>5. /\ bucket'[ctx[h].key] = h
      /\ \A k \in Keys : k # ctx[h].key => bucket'[k] = bucket[k]
  BY <1>1, <1>2, <1>3 DEF TypeOK
<1>6. TypeOK' /\ LabelsOK'
  BY <1>1, <1>2, <1>3 DEF TypeOK, LabelsOK
<1>7. RowsOK'
  BY <1>1, <1>2, <1>3, <1>4 DEF RowsOK
<1>8. BucketOK'
  BY <1>1, <1>2, <1>3, <1>5 DEF BucketOK
<1>9. UploadsSurvive'
  <2> SUFFICES ASSUME NEW f \in files, f \in uploaded \cup {h}, ~Removing(f), ~Haunted(f)'
               PROVE  bucket'[row[f].key] = f
    BY <1>2, <1>4 DEF UploadsSurvive
  <2>0. \A q \in Requests \ files : row[q].key = row[f].key => q \notin late' /\ ~Twice(q)
    BY <1>2, <1>4 DEF Haunted
  <2>1. f \in Requests /\ row[f].key \in Keys
    BY <1>1 DEF TypeOK, RowsOK
  <2>2. CASE f = h
    BY <1>3, <1>5, <2>2
  <2>3. CASE f # h
    <3>1. row[h].key # row[f].key
      <4>1. CASE h \in files
        BY <1>1, <2>3, <4>1 DEF TypeOK
      <4>2. CASE h \notin files
        <5>1. Removing(h)
          BY <1>1, <1>3, <4>2 DEF RemovalInv, Ended, Removing
        <5> QED
          BY <1>2, <1>3, <2>0, <4>2, <5>1
      <4> QED
        BY <4>1, <4>2
    <3>2. ~Haunted(f)
      BY <1>2, <2>0 DEF Haunted
    <3> QED
      BY <1>1, <1>3, <1>5, <2>1, <2>3, <3>1, <3>2 DEF UploadsSurvive
  <2> QED
    BY <2>2, <2>3
<1>10. RemovalInv'
  <2>1. \A f \in Requests : Inserted(f)' /\ f \notin files' => Ended(f)'
    BY <1>1, <1>2, <1>4 DEF RemovalInv
  <2>2. \A r \in Requests : pc'[r] = "deleteRow" /\ bucket'[ctx'[r].key] = ctx'[r].file
            => ctx'[r].file \in late'
    <3> SUFFICES ASSUME NEW r \in Requests, pc[r] = "deleteRow",
                        bucket'[ctx[r].key] = ctx[r].file
                 PROVE  ctx[r].file \in late'
      BY <1>2
    <3>1. ctx[r].op = "remove" /\ ctx[r].file \in Requests /\ ctx[r].key \in Keys
      BY <1>1 DEF LabelsOK, RowsOK
    <3>2. CASE ctx[r].file = h
      BY <1>2, <3>1, <3>2 DEF Removing
    <3>3. CASE ctx[r].file # h
      BY <1>1, <1>2, <1>5, <3>1, <3>3 DEF RemovalInv
    <3> QED
      BY <3>2, <3>3
  <2>3. h \in files \cup late'
    <3>1. h \notin files => Removing(h)
      BY <1>1, <1>3 DEF RemovalInv, Ended, Removing
    <3> QED
      BY <1>2, <3>1
  <2>4. \A k \in Keys : bucket'[k] # None => bucket'[k] \in files' \cup late'
    BY <1>1, <1>2, <1>5, <2>3 DEF RemovalInv
  <2> QED
    BY <2>1, <2>2, <2>4 DEF RemovalInv
<1> QED
  BY <1>6, <1>7, <1>8, <1>9, <1>10 DEF IInv, Shape

\* Time passes, a URL runs out: nothing the invariant speaks of gets worse.
LEMMA TimeInv ==
    ASSUME IInv, Tick \/ \E f \in urls : UrlExpires(f)
    PROVE  IInv'
<1>1. TypeOK /\ LabelsOK /\ RowsOK /\ BucketOK /\ UploadsSurvive /\ RemovalInv
  BY DEF IInv, Shape
<1>2. /\ now' \in 0..MaxSecond /\ urls' \subseteq urls
      /\ UNCHANGED <<pc, ctx, files, row, bucket, uploaded, late>>
  BY <1>1, FilesConstants DEF Tick, UrlExpires, rows, history, TypeOK
<1>3. TypeOK' /\ LabelsOK'
  BY <1>1, <1>2 DEF TypeOK, LabelsOK
<1>4. RowsOK' /\ BucketOK' /\ UploadsSurvive' /\ RemovalInv'
  BY <1>1, <1>2 DEF RowsOK, BucketOK, UploadsSurvive, RemovalInv, Inserted, Removing,
     Twice, Ended, Haunted
<1> QED
  BY <1>3, <1>4 DEF IInv, Shape

\* A request that has found its file knows the key and the tenant of the row.
LEMMA FindInv ==
    ASSUME IInv, NEW r \in Requests, NEW g \in Orgs, NEW f \in files,
           ConfirmFind(r, g, f) \/ RemoveFind(r, g, f)
    PROVE  IInv'
<1>1. TypeOK /\ LabelsOK /\ RowsOK /\ BucketOK /\ UploadsSurvive /\ RemovalInv
  BY DEF IInv, Shape
<1>2. PICK op \in {"confirm", "remove"}, label \in {"mark", "deleteObject"} :
        /\ op = "confirm" <=> label = "mark"
        /\ pc[r] = "new" /\ pc' = [pc EXCEPT ![r] = label]
        /\ ctx' = [ctx EXCEPT ![r] = Locals(op, g, row[f].key, f)]
  BY DEF ConfirmFind, RemoveFind, Admit, At, Goto
<1>3. /\ row[f].org = g
      /\ UNCHANGED <<now, files, row, bucket, urls, uploaded, late>>
  BY DEF ConfirmFind, RemoveFind, Owns, rows, history
<1> DEFINE c == Locals(op, g, row[f].key, f)
<1>4. f \in Requests /\ Inserted(f) /\ row[f].key \in Keys
  BY <1>1 DEF TypeOK, RowsOK
<1>5. c \in Context /\ c.op = op /\ c.org = g /\ c.key = row[f].key /\ c.file = f
  BY <1>4 DEF Locals, Context, Ops
<1>6. ctx[r].op = "none" /\ ~Inserted(r)
  BY <1>1, <1>2 DEF LabelsOK, RowsOK
<1>7. /\ ctx'[r] = c /\ pc'[r] = label
      /\ \A q \in Requests : q # r => ctx'[q] = ctx[q] /\ pc'[q] = pc[q]
  BY <1>1, <1>2 DEF TypeOK
<1>8. \A h : Inserted(h)' <=> Inserted(h)
  BY <1>3 DEF Inserted
<1>9. TypeOK'
  BY <1>1, <1>2, <1>3, <1>5 DEF TypeOK, Labels
<1>10. LabelsOK'
  BY <1>1, <1>2, <1>5, <1>7 DEF LabelsOK
<1>11. RowsOK'
  BY <1>1, <1>3, <1>4, <1>5, <1>6, <1>7, <1>8 DEF RowsOK
<1>12. BucketOK'
  BY <1>1, <1>3 DEF BucketOK
<1>13. \A h : /\ Removing(h) => Removing(h)'
              /\ Twice(h) => Twice(h)'
              /\ Ended(h) => Ended(h)'
  <2>1. \A h : Removing(h) => Removing(h)'
    BY <1>6, <1>7 DEF Removing
  <2>2. \A h : Twice(h) => Twice(h)'
    BY <1>6, <1>7 DEF Twice
  <2>3. \A h : Ended(h) => Ended(h)'
    BY <1>6, <1>7 DEF Ended
  <2> QED
    BY <2>1, <2>2, <2>3
<1>14. UploadsSurvive' /\ RemovalInv'
  BY <1>1, <1>2, <1>3, <1>7, <1>8, <1>13 DEF UploadsSurvive, RemovalInv, Haunted
<1> QED
  BY <1>9, <1>10, <1>11, <1>12, <1>14 DEF IInv, Shape

LEMMA ConfirmMarkInv ==
    ASSUME IInv, NEW r \in Requests, ConfirmMark(r)
    PROVE  IInv'
<1>1. TypeOK /\ LabelsOK /\ RowsOK /\ BucketOK /\ UploadsSurvive /\ RemovalInv
  BY DEF IInv, Shape
<1> DEFINE f == ctx[r].file
<1>2. /\ pc[r] = "mark" /\ f \in Requests
      /\ UNCHANGED <<ctx, now, files, bucket, urls, uploaded, late>>
      /\ row' \in {row, [row EXCEPT ![f].status = "UPLOADED"]}
      /\ pc' \in {[pc EXCEPT ![r] = "done"], [pc EXCEPT ![r] = "refused"]}
  BY <1>1 DEF ConfirmMark, At, Goto, LabelsOK, RowsOK, history
<1>3. /\ row' \in [Requests -> RowType]
      /\ \A h \in Requests : row'[h].key = row[h].key /\ row'[h].org = row[h].org
  <2>1. CASE row' = row
    BY <1>1, <2>1 DEF TypeOK
  <2>2. CASE row' = [row EXCEPT ![f].status = "UPLOADED"]
    BY <1>1, <1>2, <2>2 DEF TypeOK, RowType, Statuses
  <2> QED
    BY <1>2, <2>1, <2>2
<1>4. pc'[r] \in {"done", "refused"} /\ \A q \in Requests : q # r => pc'[q] = pc[q]
  BY <1>1, <1>2 DEF TypeOK
<1>5. \A h \in Requests : /\ Inserted(h)' <=> Inserted(h)
                          /\ Removing(h)' <=> Removing(h)
                          /\ Haunted(h)' <=> Haunted(h)
  BY <1>1, <1>2, <1>3 DEF Inserted, Removing, Twice, Haunted, TypeOK
<1>6. ctx[r].op = "confirm" /\ ~Inserted(r)
  BY <1>1, <1>2 DEF LabelsOK, RowsOK
<1>12. \A h : Ended(h) => Ended(h)'
  BY <1>2, <1>4, <1>6 DEF Ended
<1>7. TypeOK'
  BY <1>1, <1>2, <1>3 DEF TypeOK, Labels
<1>8. LabelsOK'
  BY <1>1, <1>2, <1>4 DEF LabelsOK
<1>9. RowsOK'
  BY <1>1, <1>2, <1>3, <1>4, <1>5, <1>6 DEF RowsOK, TypeOK
<1>10. BucketOK'
  BY <1>1, <1>2, <1>3 DEF BucketOK, TypeOK
<1>11. UploadsSurvive' /\ RemovalInv'
  BY <1>1, <1>2, <1>3, <1>4, <1>5, <1>12 DEF UploadsSurvive, RemovalInv, TypeOK
<1> QED
  BY <1>7, <1>8, <1>9, <1>10, <1>11 DEF IInv, Shape

\* The bucket's delete takes the object of another file only under a key used before.
LEMMA RemoveObjectInv ==
    ASSUME IInv, NEW r \in Requests, RemoveObject(r)
    PROVE  IInv'
<1>1. TypeOK /\ LabelsOK /\ RowsOK /\ BucketOK /\ UploadsSurvive /\ RemovalInv
  BY DEF IInv, Shape
<1> DEFINE h == ctx[r].file
<1>2. /\ pc[r] = "deleteObject" /\ pc' = [pc EXCEPT ![r] = "deleteRow"]
      /\ bucket' = [bucket EXCEPT ![ctx[r].key] = None]
      /\ UNCHANGED <<ctx, now, files, row, urls, uploaded, late>>
  BY DEF RemoveObject, At, Goto, rows, history
<1>3. ctx[r].op = "remove" /\ h \in Requests /\ Inserted(h) /\ ctx[r].key = row[h].key
      /\ ctx[r].key \in Keys
  BY <1>1, <1>2 DEF LabelsOK, RowsOK
<1>4. /\ bucket'[ctx[r].key] = None
      /\ \A k \in Keys : k # ctx[r].key => bucket'[k] = bucket[k]
  BY <1>1, <1>2, <1>3 DEF TypeOK
<1>5. pc'[r] = "deleteRow" /\ \A q \in Requests : q # r => pc'[q] = pc[q]
  BY <1>1, <1>2 DEF TypeOK
<1>6. \A f : /\ Inserted(f)' <=> Inserted(f)
             /\ Removing(f)' <=> Removing(f)
             /\ Haunted(f)' <=> Haunted(f)
             /\ Ended(f) => Ended(f)'
  <2>1. \A f : Ended(f) => Ended(f)'
    BY <1>2, <1>5 DEF Ended
  <2> QED
    BY <1>2, <2>1 DEF Inserted, Removing, Twice, Haunted
<1>7. TypeOK' /\ LabelsOK'
  BY <1>1, <1>2, <1>3, <1>5 DEF TypeOK, LabelsOK, Labels
<1>8. RowsOK'
  BY <1>1, <1>2, <1>3, <1>5, <1>6 DEF RowsOK
<1>9. BucketOK'
  BY <1>1, <1>2, <1>3, <1>4 DEF BucketOK
<1>10. UploadsSurvive'
  <2> SUFFICES ASSUME NEW f \in files \cap uploaded, ~Removing(f), ~Haunted(f)
               PROVE  bucket'[row[f].key] = f
    BY <1>2, <1>6 DEF UploadsSurvive
  <2>1. f # h
    BY <1>3 DEF Removing
  <2>2. row[h].key # row[f].key
    <3>1. CASE h \in files
      BY <1>1, <2>1, <3>1 DEF TypeOK
    <3>2. CASE h \notin files
      <4>1. PICK q \in Requests : ctx[q].op = "remove" /\ ctx[q].file = h /\ pc[q] = "done"
        BY <1>1, <1>3, <3>2 DEF RemovalInv, Ended
      <4>2. Twice(h)
        BY <1>2, <1>3, <4>1 DEF Twice
      <4> QED
        BY <1>3, <3>2, <4>2 DEF Haunted
    <3> QED
      BY <3>1, <3>2
  <2>3. f \in Requests /\ row[f].key \in Keys
    BY <1>1 DEF TypeOK, RowsOK
  <2> QED
    BY <1>1, <1>3, <1>4, <2>2, <2>3 DEF UploadsSurvive
<1>11. RemovalInv'
  <2>1. \A q \in Requests : pc'[q] = "deleteRow" /\ bucket'[ctx[q].key] = ctx[q].file
            => ctx[q].file \in late
    <3> SUFFICES ASSUME NEW q \in Requests, pc'[q] = "deleteRow",
                        bucket'[ctx[q].key] = ctx[q].file
                 PROVE  ctx[q].file \in late
      OBVIOUS
    <3>1. ctx[q].op = "remove" /\ ctx[q].file \in Requests /\ ctx[q].key \in Keys
      BY <1>1, <1>3, <1>5 DEF LabelsOK, RowsOK
    <3>2. ctx[q].key # ctx[r].key
      BY <1>4, <3>1, NoKeyFact
    <3>3. q # r
      BY <3>2
    <3> QED
      BY <1>1, <1>4, <1>5, <3>1, <3>2, <3>3 DEF RemovalInv
  <2> QED
    BY <1>1, <1>2, <1>4, <1>6, <2>1 DEF RemovalInv
<1> QED
  BY <1>7, <1>8, <1>9, <1>10, <1>11 DEF IInv, Shape

\* A row goes when what is left under its key, if it is the file's, was put late.
LEMMA RemoveRowInv ==
    ASSUME IInv, NEW r \in Requests, RemoveRow(r)
    PROVE  IInv'
<1>1. TypeOK /\ LabelsOK /\ RowsOK /\ BucketOK /\ UploadsSurvive /\ RemovalInv
  BY DEF IInv, Shape
<1> DEFINE h == ctx[r].file
<1>2. /\ pc[r] = "deleteRow" /\ pc' = [pc EXCEPT ![r] = "done"]
      /\ files' \in {files, files \ {h}}
      /\ UNCHANGED <<ctx, now, row, bucket, urls, uploaded, late>>
  BY DEF RemoveRow, At, Goto, history
<1>3. ctx[r].op = "remove" /\ h \in Requests /\ Inserted(h) /\ ctx[r].key = row[h].key
      /\ ctx[r].key \in Keys
  BY <1>1, <1>2 DEF LabelsOK, RowsOK
<1>4. pc'[r] = "done" /\ \A q \in Requests : q # r => pc'[q] = pc[q]
  BY <1>1, <1>2 DEF TypeOK
<1>5. \A f : /\ Inserted(f)' <=> Inserted(f)
             /\ Removing(f)' <=> Removing(f)
             /\ Twice(f)' <=> Twice(f)
             /\ Ended(f) => Ended(f)'
  <2>1. \A f : Ended(f) => Ended(f)'
    BY <1>2, <1>4 DEF Ended
  <2> QED
    BY <1>2, <2>1 DEF Inserted, Removing, Twice
<1>6. Ended(h)'
  BY <1>2, <1>3, <1>4 DEF Ended
<1>7. TypeOK' /\ LabelsOK'
  BY <1>1, <1>2, <1>4 DEF TypeOK, LabelsOK, Labels
<1>8. RowsOK' /\ BucketOK'
  BY <1>1, <1>2, <1>3, <1>4, <1>5 DEF RowsOK, BucketOK
<1>9. UploadsSurvive'
  <2>1. \A f \in files' : f \in files /\ (Haunted(f) => Haunted(f)')
    BY <1>2, <1>5 DEF Haunted
  <2> QED
    BY <1>1, <1>2, <1>5, <2>1 DEF UploadsSurvive
<1>10. RemovalInv'
  <2>1. \A f \in Requests : Inserted(f) /\ f \notin files' => Ended(f)'
    BY <1>1, <1>2, <1>5, <1>6 DEF RemovalInv
  <2>2. \A k \in Keys : bucket[k] # None => bucket[k] \in files' \cup late
    <3> SUFFICES ASSUME NEW k \in Keys, bucket[k] # None
                 PROVE  bucket[k] \in files' \cup late
      OBVIOUS
    <3>1. CASE bucket[k] = h
      <4>1. k = ctx[r].key
        BY <1>1, <1>3, <3>1 DEF BucketOK
      <4> QED
        BY <1>1, <1>2, <3>1, <4>1 DEF RemovalInv
    <3>2. CASE bucket[k] # h
      BY <1>1, <1>2, <3>2 DEF RemovalInv
    <3> QED
      BY <3>1, <3>2
  <2> QED
    BY <1>1, <1>2, <1>4, <1>5, <2>1, <2>2 DEF RemovalInv
<1> QED
  BY <1>7, <1>8, <1>9, <1>10 DEF IInv, Shape

-----------------------------------------------------------------------------
LEMMA StepInv == IInv /\ [Next]_vars => IInv'
<1> SUFFICES ASSUME IInv, [Next]_vars PROVE IInv'
  OBVIOUS
<1>1. ASSUME NEW r \in Requests, Arrive(r) PROVE IInv'
  BY <1>1, PresignArriveInv, FindInv DEF Arrive
<1>2. ASSUME NEW r \in Requests, Continue(r) PROVE IInv'
  BY <1>2, PresignInsertInv, ConfirmMarkInv, RemoveObjectInv, RemoveRowInv DEF Continue
<1>3. ASSUME NEW f \in urls, Put(f) PROVE IInv'
  BY <1>3, PutInv
<1>4. CASE Tick \/ \E f \in urls : UrlExpires(f)
  BY <1>4, TimeInv
<1>5. CASE UNCHANGED vars
  BY <1>5 DEF vars, rows, history, IInv, Shape, TypeOK, LabelsOK, RowsOK, BucketOK,
     UploadsSurvive, RemovalInv, Inserted, Removing, Twice, Ended, Haunted
<1> QED
  BY <1>1, <1>2, <1>3, <1>4, <1>5 DEF Next

\* The inductive invariant of Files holds in every reachable state.
THEOREM Invariance == Spec => []IInv
BY InitInv, StepInv, PTL DEF Spec

\* Every variable stays in its domain and keys stay unique.
THEOREM TypeCorrect == Spec => []TypeOK
<1>1. IInv => TypeOK
  BY DEF IInv, Shape
<1> QED
  BY <1>1, Invariance, PTL

\* What was uploaded stays until a removal begins: under a key used before, only a late
\* PUT of the earlier file or a second removal of it takes the object (r2.service.ts:47-51).
THEOREM UploadsAreKept == Spec => []UploadsSurvive
<1>1. IInv => UploadsSurvive
  BY DEF IInv
<1> QED
  BY <1>1, Invariance, PTL

\* Removals, whole or torn, leave no object without a row but what a URL put late
\* (file.service.ts:53-58).
THEOREM NothingIsLeftBehind == Spec => []NoOrphans
<1>1. IInv => NoOrphans
  <2> SUFFICES ASSUME IInv, NEW k \in Keys, bucket[k] # None, bucket[k] \notin late
               PROVE  WithKey(k) # {}
    BY DEF NoOrphans
  <2>1. bucket[k] \in files /\ row[bucket[k]].key = k
    BY DEF IInv, Shape, RemovalInv, BucketOK
  <2> QED
    BY <2>1 DEF WithKey
<1> QED
  BY <1>1, Invariance, PTL

\* No request touches the rows or the objects of another tenant (file.repository.ts).
THEOREM TenantsAreSeparate == Spec => TenantsAreIsolated
<1> DEFINE A == \A r \in Requests : pc'[r] # pc[r] =>
               /\ \A f \in files : row[f].org # ctx'[r].org => f \in files' /\ row'[f] = row[f]
               /\ \A k \in Keys : k.org # ctx'[r].org => bucket'[k] = bucket[k]
<1>1. IInv /\ [Next]_vars => [A]_vars
  <2> SUFFICES ASSUME IInv, Next PROVE A
    OBVIOUS
  <2>1. TypeOK /\ LabelsOK /\ RowsOK
    BY DEF IInv, Shape
  <2>2. ASSUME NEW r \in Requests, Arrive(r) PROVE A
    BY <2>2 DEF Arrive, PresignArrive, ConfirmFind, RemoveFind, rows
  <2>3. ASSUME NEW r \in Requests, PresignInsert(r) PROVE A
    <3>1. files \subseteq files' /\ bucket' = bucket
      BY <2>3 DEF PresignInsert, rows
    <3>2. r \notin files
      BY <2>1, <2>3 DEF PresignInsert, At, RowsOK
    <3>3. \A f \in Requests : f # r => row'[f] = row[f]
      BY <2>1, <2>3 DEF PresignInsert, rows, TypeOK
    <3> QED
      BY <2>1, <3>1, <3>2, <3>3 DEF TypeOK
  <2>4. ASSUME NEW r \in Requests, ConfirmMark(r) PROVE A
    <3>1. ctx[r].org = row[ctx[r].file].org /\ ctx' = ctx /\ files' = files /\ bucket' = bucket
      BY <2>1, <2>4 DEF ConfirmMark, At, LabelsOK, RowsOK
    <3>2. \A f \in Requests : f # ctx[r].file => row'[f] = row[f]
      BY <2>1, <2>4 DEF ConfirmMark, TypeOK
    <3>3. \A q \in Requests : pc'[q] # pc[q] => q = r
      BY <2>1, <2>4 DEF ConfirmMark, Goto, TypeOK
    <3> QED
      BY <2>1, <3>1, <3>2, <3>3 DEF TypeOK
  <2>5. ASSUME NEW r \in Requests, RemoveObject(r) PROVE A
    <3>1. ctx[r].key.org = ctx[r].org /\ ctx' = ctx /\ files' = files /\ row' = row
      BY <2>1, <2>5 DEF RemoveObject, At, LabelsOK, RowsOK, rows
    <3>2. \A k \in Keys : k # ctx[r].key => bucket'[k] = bucket[k]
      BY <2>1, <2>5 DEF RemoveObject, TypeOK
    <3>3. \A q \in Requests : pc'[q] # pc[q] => q = r
      BY <2>1, <2>5 DEF RemoveObject, Goto, TypeOK
    <3> QED
      BY <3>1, <3>2, <3>3
  <2>6. ASSUME NEW r \in Requests, RemoveRow(r) PROVE A
    <3>1. ctx' = ctx /\ row' = row /\ bucket' = bucket
      BY <2>6 DEF RemoveRow
    <3>2. \A f \in files : row[f].org # ctx[r].org => f \in files'
      BY <2>6 DEF RemoveRow, Owns
    <3>3. \A q \in Requests : pc'[q] # pc[q] => q = r
      BY <2>1, <2>6 DEF RemoveRow, Goto, TypeOK
    <3> QED
      BY <3>1, <3>2, <3>3
  <2>7. ASSUME NEW f \in urls, Put(f) \/ UrlExpires(f) PROVE A
    BY <2>7 DEF Put, UrlExpires
  <2>8. CASE Tick
    BY <2>8 DEF Tick
  <2> QED
    BY <2>2, <2>3, <2>4, <2>5, <2>6, <2>7, <2>8 DEF Next, Continue
<1> QED
  BY <1>1, Invariance, PTL DEF Spec, TenantsAreIsolated
=============================================================================
