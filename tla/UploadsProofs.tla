--------------------------- MODULE UploadsProofs ---------------------------
(***************************************************************************)
(* Proofs about Uploads for any number of requests, replicas, users, keys  *)
(* and posts, and any durations with PresignTTL <= GCAfter.                *)
(*                                                                         *)
(* NoFanOut is not inductive: a request between its claim and its write    *)
(* will add a use, so Attaching says it is the only holder of its key.     *)
(* TrackedImageKept needs the order of the janitor's two deletes           *)
(* (Sweeping), and NoUntrackedObject that a released key's URL is dead     *)
(* (UrlsExpire).                                                           *)
(***************************************************************************)
EXTENDS Uploads, TLAPS

\* The empty system satisfies the invariant.
LEMMA InitUploads == Init => UploadInv
BY KeyAssumption, DurationAssumption
DEF Init, UploadInv, TypeOK, Presigning, Attaching, ShownIsAttached, UrlsExpire,
    Sweeping, NoFanOut, ImageOwned, TrackedImageKept, NoUntrackedObject,
    Request, Idle, Asleep, At, InUse

\* A fresh key: nobody presigned, claimed or released it.
LEMMA PresignUploads ==
    ASSUME UploadInv, NEW r \in Requests, NEW u \in Users, NEW pur \in Purposes,
           Presign(r, u, pur)
    PROVE  UploadInv'
<1> USE KeyAssumption, ContentsAssumption, DurationAssumption
    DEF UploadInv, Presign, At, table, storage, resources, history
<1>1. TypeOK'
  BY DEF TypeOK, Request, Purposes
<1>2. Presigning'
  <2>1. PICK k \in Keys \ generated :
            /\ generated' = generated \cup {k}
            /\ urlUntil' = [urlUntil EXCEPT ![k] = clock + PresignTTL]
            /\ req' = [req EXCEPT ![r] = [pc |-> "reserve", user |-> u,
                                          key |-> k, purpose |-> pur]]
    OBVIOUS
  <2>2. /\ req'[r].pc = "reserve" /\ req'[r].key = k
        /\ \A s \in Requests : s # r => req'[s] = req[s]
    BY <2>1 DEF TypeOK
  <2>3. \A s \in Requests :
            req[s].pc \in {"reserve", "answer"} => req[s].key \in generated
    BY DEF Presigning
  <2>4. /\ urlUntil'[k] = clock + PresignTTL
        /\ \A l \in Keys \ {k} : urlUntil'[l] = urlUntil[l]
    BY <2>1 DEF TypeOK
  <2>5. object[k] = "none"
    BY <2>1 DEF NoUntrackedObject, TypeOK, Sweeping
  <2> QED
    BY <2>1, <2>2, <2>3, <2>4, <2>5 DEF Presigning, TypeOK, Sweeping
<1>3. Attaching'
  BY DEF Attaching, TypeOK, Request, Idle, Presigning, ShownIsAttached
<1>4. UrlsExpire'
  BY DEF UrlsExpire, TypeOK, Presigning, Attaching, Sweeping, Request, Idle
<1>5. Sweeping'
  BY DEF Sweeping, TypeOK, Presigning
<1>6. TrackedImageKept'
  BY DEF TrackedImageKept, TypeOK, Attaching, InUse, Presigning, Sweeping,
       ShownIsAttached, Request, Idle
<1>7. (ShownIsAttached /\ NoFanOut /\ ImageOwned /\ NoUntrackedObject)'
  BY DEF ShownIsAttached, NoFanOut, ImageOwned, NoUntrackedObject
<1> QED
  BY <1>1, <1>2, <1>3, <1>4, <1>5, <1>6, <1>7

\* The row starts unattached, its URL expiring before its grace does.
LEMMA ReserveUploads ==
    ASSUME UploadInv, NEW r \in Requests, Reserve(r)
    PROVE  UploadInv'
<1> USE KeyAssumption, ContentsAssumption, DurationAssumption
    DEF UploadInv, Reserve, Goto, At, table, storage, resources, history
<1>1. TypeOK'
  BY DEF TypeOK, Request, Purposes, Presigning
<1>2. Presigning'
  BY DEF Presigning, TypeOK, Request, Idle, Attaching, Sweeping
<1>3. Attaching'
  BY DEF Attaching, TypeOK, Request, Idle, Presigning, ShownIsAttached
<1>4. UrlsExpire'
  BY DEF UrlsExpire, TypeOK, Presigning, Attaching, Sweeping, Request, Idle
<1>5. Sweeping'
  BY DEF Sweeping, TypeOK, Presigning
<1>6. ImageOwned'
  BY DEF ImageOwned, TypeOK, Attaching, Presigning, ShownIsAttached
<1>7. TrackedImageKept'
  BY DEF TrackedImageKept, TypeOK, Attaching, InUse, Presigning, Sweeping,
       ShownIsAttached, Request, Idle
<1>8. NoUntrackedObject'
  BY DEF NoUntrackedObject, TypeOK, UrlsExpire, Sweeping, Presigning
<1>9. (ShownIsAttached /\ NoFanOut)'
  BY DEF ShownIsAttached, NoFanOut
<1> QED
  BY <1>1, <1>2, <1>3, <1>4, <1>5, <1>6, <1>7, <1>8, <1>9

\* The client learns a key only after its row exists.
LEMMA AnswerUploads ==
    ASSUME UploadInv, NEW r \in Requests, Answer(r)
    PROVE  UploadInv'
<1> USE KeyAssumption, ContentsAssumption, DurationAssumption
    DEF UploadInv, Answer, Return, At, table, storage, resources, history
<1>1. TypeOK'
  BY DEF TypeOK, Request, Idle, Presigning
<1>2. Presigning'
  BY DEF Presigning, TypeOK, Request, Idle, Attaching, Sweeping
<1>3. Attaching'
  BY DEF Attaching, TypeOK, Request, Idle, Presigning, ShownIsAttached
<1>4. UrlsExpire'
  BY DEF UrlsExpire, TypeOK, Presigning, Attaching, Sweeping, Request, Idle
<1>5. TrackedImageKept'
  BY DEF TrackedImageKept, TypeOK, Attaching, InUse, Presigning, Sweeping,
       ShownIsAttached, Request, Idle
<1>6. (ShownIsAttached /\ Sweeping /\ NoFanOut /\ ImageOwned /\
       NoUntrackedObject)'
  BY DEF ShownIsAttached, Sweeping, NoFanOut, ImageOwned, NoUntrackedObject
<1> QED
  BY <1>1, <1>2, <1>3, <1>4, <1>5, <1>6

\* A PUT is accepted only while the row is there.
LEMMA PutUploads ==
    ASSUME UploadInv, NEW k \in Keys, NEW c \in Contents, Put(k, c)
    PROVE  UploadInv'
<1> USE KeyAssumption, ContentsAssumption, DurationAssumption
    DEF UploadInv, Put, At, table, storage, resources, history
<1>1. TypeOK'
  BY DEF TypeOK
<1>2. Presigning'
  BY DEF Presigning, TypeOK, Request, Idle, Attaching, Sweeping
<1>3. Attaching'
  BY DEF Attaching, TypeOK, Request, Idle, Presigning, ShownIsAttached
<1>4. TrackedImageKept'
  BY DEF TrackedImageKept, TypeOK, Attaching, InUse, Presigning, Sweeping,
       ShownIsAttached, Request, Idle
<1>5. NoUntrackedObject'
  BY DEF NoUntrackedObject, TypeOK, UrlsExpire, Sweeping, Presigning
<1>6. (ShownIsAttached /\ UrlsExpire /\ Sweeping /\ NoFanOut /\ ImageOwned)'
  BY DEF ShownIsAttached, UrlsExpire, Sweeping, NoFanOut, ImageOwned
<1> QED
  BY <1>1, <1>2, <1>3, <1>4, <1>5, <1>6

\* A new attach request holds no claim yet.
LEMMA AttachUploads ==
    ASSUME UploadInv, NEW r \in Requests, NEW u \in Users, NEW k \in known,
           NEW pur \in Purposes, Attach(r, u, k, pur)
    PROVE  UploadInv'
<1> USE KeyAssumption, ContentsAssumption, DurationAssumption
    DEF UploadInv, Attach, At, table, storage, resources, history
<1>1. TypeOK'
  BY DEF TypeOK, Request, Purposes
<1>2. Presigning'
  BY DEF Presigning, TypeOK, Request, Idle, Attaching, Sweeping
<1>3. Attaching'
  BY DEF Attaching, TypeOK, Request, Idle, Presigning, ShownIsAttached
<1>4. UrlsExpire'
  BY DEF UrlsExpire, TypeOK, Presigning, Attaching, Sweeping, Request, Idle
<1>5. TrackedImageKept'
  BY DEF TrackedImageKept, TypeOK, Attaching, InUse, Presigning, Sweeping,
       ShownIsAttached, Request, Idle
<1>6. (ShownIsAttached /\ Sweeping /\ NoFanOut /\ ImageOwned /\
       NoUntrackedObject)'
  BY DEF ShownIsAttached, Sweeping, NoFanOut, ImageOwned, NoUntrackedObject
<1> QED
  BY <1>1, <1>2, <1>3, <1>4, <1>5, <1>6

\* Inspection establishes that the object exists.
LEMMA InspectUploads ==
    ASSUME UploadInv, NEW r \in Requests, Inspect(r)
    PROVE  UploadInv'
<1> USE KeyAssumption, ContentsAssumption, DurationAssumption
    DEF UploadInv, Inspect, Return, Goto, Meets, At, table, storage,
        resources, history
<1>1. TypeOK'
  <2>1. \/ req' = [req EXCEPT ![r].pc = "claim"]
        \/ req' = [req EXCEPT ![r] = Idle]
    OBVIOUS
  <2>2. req' \in [Requests -> Request]
    BY <2>1 DEF TypeOK, Request, Idle
  <2> QED
    BY <2>2 DEF TypeOK
<1>2. Presigning'
  BY DEF Presigning, TypeOK, Request, Idle, Attaching, Sweeping
<1>3. Attaching'
  <2>1. \/ /\ req' = [req EXCEPT ![r].pc = "claim"]
           /\ object[req[r].key] # "none"
        \/ req' = [req EXCEPT ![r] = Idle]
    OBVIOUS
  <2>2. /\ req'[r].pc = "idle" \/ /\ req'[r].pc = "claim"
                                  /\ req'[r].key = req[r].key
                                  /\ object[req[r].key] # "none"
        /\ \A s \in Requests : s # r => req'[s] = req[s]
    BY <2>1 DEF TypeOK, Request, Idle
  <2> QED
    BY <2>2 DEF Attaching
<1>4. UrlsExpire'
  BY DEF UrlsExpire, TypeOK, Presigning, Attaching, Sweeping, Request, Idle
<1>5. TrackedImageKept'
  BY DEF TrackedImageKept, TypeOK, Attaching, InUse, Presigning, Sweeping,
       ShownIsAttached, Request, Idle
<1>6. (ShownIsAttached /\ Sweeping /\ NoFanOut /\ ImageOwned /\
       NoUntrackedObject)'
  BY DEF ShownIsAttached, Sweeping, NoFanOut, ImageOwned, NoUntrackedObject
<1> QED
  BY <1>1, <1>2, <1>3, <1>4, <1>5, <1>6

\* The guard of Claim lets one request through per key, ever: whoever passes
\* finds the key unattached, hence in no resource and in no other request.
LEMMA ClaimUploads ==
    ASSUME UploadInv, NEW r \in Requests, Claim(r)
    PROVE  UploadInv'
<1> USE KeyAssumption DEF UploadInv, At
<1> DEFINE k == req[r].key
<1>0. /\ UNCHANGED <<clock, rows, presigner, purpose, created, storage,
                     resources, generated, known, jan, history>>
      /\ req[r] \in Request /\ req[r].pc = "claim"
  BY DEF Claim, TypeOK
<1>1. \/ /\ Claimable(k, req[r].user, req[r].purpose)
         /\ attached' = attached \cup {k}
         /\ req' = [req EXCEPT ![r] = [req[r] EXCEPT !.pc = "write"]]
      \/ attached' = attached /\ req' = [req EXCEPT ![r] = Idle]
  BY DEF Claim, Goto, Return, TypeOK
<1>2. \A s \in Requests : s # r => req'[s] = req[s]
  BY <1>1 DEF TypeOK
<1>3. \/ /\ Claimable(k, req[r].user, req[r].purpose)
         /\ attached' = attached \cup {k}
         /\ req'[r].pc = "write" /\ req'[r].key = k
         /\ req'[r].user = req[r].user /\ req'[r].purpose = req[r].purpose
      \/ attached' = attached /\ req'[r].pc = "idle"
  BY <1>0, <1>1 DEF TypeOK, Request, Idle
<1>4. TypeOK'
  <2>1. Idle \in Request /\ [req[r] EXCEPT !.pc = "write"] \in Request
    BY <1>0 DEF Request, Idle
  <2> QED
    BY <1>0, <1>1, <2>1
    DEF TypeOK, Claimable, storage, resources, history
<1>5. Presigning'
  BY <1>0, <1>2, <1>3 DEF Presigning, Claimable, storage
<1>6. Attaching'
  <2>1. CASE attached' = attached /\ req'[r].pc = "idle"
    BY <1>0, <1>2, <2>1 DEF Attaching, storage, resources
  <2>2. CASE /\ Claimable(k, req[r].user, req[r].purpose)
             /\ attached' = attached \cup {k}
             /\ req'[r].pc = "write" /\ req'[r].key = k
             /\ req'[r].user = req[r].user /\ req'[r].purpose = req[r].purpose
    <3>1. k \notin attached /\ k # NoKey
      BY <2>2 DEF Claimable, TypeOK
    <3>2. /\ \A p \in posts : image[p] # k
          /\ \A u \in Users : avatar[u] # k
          /\ \A s \in Requests : At(s, "write") => req[s].key # k
      BY <3>1 DEF ShownIsAttached, Attaching
    <3> QED
      BY <1>0, <1>2, <2>2, <3>2 DEF Attaching, Claimable, storage, resources
  <2> QED
    BY <1>3, <2>1, <2>2
<1>7. UrlsExpire'
  BY <1>0, <1>2, <1>3 DEF UrlsExpire, storage
<1>8. TrackedImageKept'
  <2>1. \A l \in rows : InUse(l)' => InUse(l) \/ (l = k /\ At(r, "claim"))
    BY <1>0, <1>2, <1>3 DEF InUse, resources
  <2> QED
    BY <1>0, <2>1 DEF TrackedImageKept, Attaching, storage
<1>9. (ShownIsAttached /\ Sweeping /\ NoFanOut /\ ImageOwned
       /\ NoUntrackedObject)'
  BY <1>0, <1>3 DEF ShownIsAttached, Sweeping, NoFanOut, ImageOwned,
     NoUntrackedObject, storage, resources, history
<1> QED
  BY <1>4, <1>5, <1>6, <1>7, <1>8, <1>9

\* The writer's key was nowhere else, so it is shown once.
LEMMA CreatePostUploads ==
    ASSUME UploadInv, NEW r \in Requests, CreatePost(r)
    PROVE  UploadInv'
<1> USE KeyAssumption, ContentsAssumption, DurationAssumption
    DEF UploadInv, CreatePost, Return, At, table, storage, resources, history
<1>1. TypeOK'
  BY DEF TypeOK, Request, Idle, Attaching
<1>2. Presigning'
  BY DEF Presigning, TypeOK, Request, Idle, Attaching, Sweeping
<1>3. Attaching'
  BY DEF Attaching, TypeOK, Request, Idle, Presigning, ShownIsAttached
<1>4. ShownIsAttached'
  BY DEF ShownIsAttached, TypeOK, Attaching
<1>5. UrlsExpire'
  BY DEF UrlsExpire, TypeOK, Presigning, Attaching, Sweeping, Request, Idle
<1>6. NoFanOut'
  BY DEF NoFanOut, TypeOK, Attaching, ImageOwned, ShownIsAttached
<1>7. ImageOwned'
  BY DEF ImageOwned, TypeOK, Attaching, Presigning, ShownIsAttached
<1>8. TrackedImageKept'
  BY DEF TrackedImageKept, TypeOK, Attaching, InUse, Presigning, Sweeping,
       ShownIsAttached, Request, Idle
<1>9. (Sweeping /\ NoUntrackedObject)'
  BY DEF Sweeping, NoUntrackedObject
<1> QED
  BY <1>1, <1>2, <1>3, <1>4, <1>5, <1>6, <1>7, <1>8, <1>9

\* The same for a profile; the replaced key is simply dropped.
LEMMA SetAvatarUploads ==
    ASSUME UploadInv, NEW r \in Requests, SetAvatar(r)
    PROVE  UploadInv'
<1> USE KeyAssumption, ContentsAssumption, DurationAssumption
    DEF UploadInv, SetAvatar, Return, At, table, storage, resources, history
<1>1. TypeOK'
  BY DEF TypeOK, Request, Idle, Attaching
<1>2. Presigning'
  BY DEF Presigning, TypeOK, Request, Idle, Attaching, Sweeping
<1>3. Attaching'
  BY DEF Attaching, TypeOK, Request, Idle, Presigning, ShownIsAttached
<1>4. ShownIsAttached'
  BY DEF ShownIsAttached, TypeOK, Attaching
<1>5. UrlsExpire'
  BY DEF UrlsExpire, TypeOK, Presigning, Attaching, Sweeping, Request, Idle
<1>6. NoFanOut'
  BY DEF NoFanOut, TypeOK, Attaching, ImageOwned, ShownIsAttached
<1>7. ImageOwned'
  BY DEF ImageOwned, TypeOK, Attaching, Presigning, ShownIsAttached
<1>8. TrackedImageKept'
  BY DEF TrackedImageKept, TypeOK, Attaching, InUse, Presigning, Sweeping,
       ShownIsAttached, Request, Idle
<1>9. (Sweeping /\ NoUntrackedObject)'
  BY DEF Sweeping, NoUntrackedObject
<1> QED
  BY <1>1, <1>2, <1>3, <1>4, <1>5, <1>6, <1>7, <1>8, <1>9

\* A failing request forgets its key.
LEMMA FailUploads ==
    ASSUME UploadInv, NEW r \in Requests, Fail(r)
    PROVE  UploadInv'
<1> USE KeyAssumption, ContentsAssumption, DurationAssumption
    DEF UploadInv, Fail, Return, At, table, storage, resources, history
<1>1. TypeOK'
  BY DEF TypeOK, Request, Idle
<1>2. Presigning'
  BY DEF Presigning, TypeOK, Request, Idle, Attaching, Sweeping
<1>3. Attaching'
  BY DEF Attaching, TypeOK, Request, Idle, Presigning, ShownIsAttached
<1>4. UrlsExpire'
  BY DEF UrlsExpire, TypeOK, Presigning, Attaching, Sweeping, Request, Idle
<1>5. TrackedImageKept'
  BY DEF TrackedImageKept, TypeOK, Attaching, InUse, Presigning, Sweeping,
       ShownIsAttached, Request, Idle
<1>6. (ShownIsAttached /\ Sweeping /\ NoFanOut /\ ImageOwned /\
       NoUntrackedObject)'
  BY DEF ShownIsAttached, Sweeping, NoFanOut, ImageOwned, NoUntrackedObject
<1> QED
  BY <1>1, <1>2, <1>3, <1>4, <1>5, <1>6

\* Removing an avatar removes a use.
LEMMA ClearAvatarUploads ==
    ASSUME UploadInv, NEW u \in Users, ClearAvatar(u)
    PROVE  UploadInv'
<1> USE KeyAssumption, ContentsAssumption, DurationAssumption
    DEF UploadInv, ClearAvatar, At, table, storage, resources, history
<1>1. TypeOK'
  BY DEF TypeOK
<1>2. Attaching'
  BY DEF Attaching, TypeOK, Request, Idle, Presigning, ShownIsAttached
<1>3. ShownIsAttached'
  BY DEF ShownIsAttached, TypeOK, Attaching
<1>4. NoFanOut'
  BY DEF NoFanOut, TypeOK, Attaching, ImageOwned, ShownIsAttached
<1>5. ImageOwned'
  BY DEF ImageOwned, TypeOK, Attaching, Presigning, ShownIsAttached
<1>6. TrackedImageKept'
  BY DEF TrackedImageKept, TypeOK, Attaching, InUse, Presigning, Sweeping,
       ShownIsAttached, Request, Idle
<1>7. (Presigning /\ UrlsExpire /\ Sweeping /\ NoUntrackedObject)'
  BY DEF Presigning, UrlsExpire, Sweeping, NoUntrackedObject
<1> QED
  BY <1>1, <1>2, <1>3, <1>4, <1>5, <1>6, <1>7

\* So does deleting a post.
LEMMA DeletePostUploads ==
    ASSUME UploadInv, NEW u \in Users, NEW p \in Posts, DeletePost(u, p)
    PROVE  UploadInv'
<1> USE KeyAssumption, ContentsAssumption, DurationAssumption
    DEF UploadInv, DeletePost, At, table, storage, resources, history
<1>1. TypeOK'
  BY DEF TypeOK
<1>2. Attaching'
  BY DEF Attaching, TypeOK, Request, Idle, Presigning, ShownIsAttached
<1>3. ShownIsAttached'
  BY DEF ShownIsAttached, TypeOK, Attaching
<1>4. NoFanOut'
  BY DEF NoFanOut, TypeOK, Attaching, ImageOwned, ShownIsAttached
<1>5. ImageOwned'
  BY DEF ImageOwned, TypeOK, Attaching, Presigning, ShownIsAttached
<1>6. TrackedImageKept'
  BY DEF TrackedImageKept, TypeOK, Attaching, InUse, Presigning, Sweeping,
       ShownIsAttached, Request, Idle
<1>7. (Presigning /\ UrlsExpire /\ Sweeping /\ NoUntrackedObject)'
  BY DEF Presigning, UrlsExpire, Sweeping, NoUntrackedObject
<1> QED
  BY <1>1, <1>2, <1>3, <1>4, <1>5, <1>6, <1>7

\* A batch is old enough for its URLs to be dead; under the mutex its rows go
\* at once.
LEMMA SelectAbandonedUploads ==
    ASSUME UploadInv, NEW j \in Janitors, SelectAbandoned(j)
    PROVE  UploadInv'
<1> USE KeyAssumption, ContentsAssumption, DurationAssumption
    DEF UploadInv, SelectAbandoned, Abandoned, At, table, storage, resources,
        history
<1>1. TypeOK'
  BY DEF TypeOK
<1>2. Presigning'
  BY DEF Presigning, TypeOK, Request, Idle, Attaching, Sweeping
<1>3. Attaching'
  BY DEF Attaching, TypeOK, Request, Idle, Presigning, ShownIsAttached
<1>4. UrlsExpire'
  BY DEF UrlsExpire, TypeOK, Presigning, Attaching, Sweeping, Request, Idle
<1>5. Sweeping'
  BY DEF Sweeping, TypeOK, Presigning
<1>6. TrackedImageKept'
  BY DEF TrackedImageKept, TypeOK, Attaching, InUse, Presigning, Sweeping,
       ShownIsAttached, Request, Idle
<1>7. NoUntrackedObject'
  BY DEF NoUntrackedObject, TypeOK, UrlsExpire, Sweeping, Presigning
<1>8. (ShownIsAttached /\ NoFanOut /\ ImageOwned)'
  BY DEF ShownIsAttached, NoFanOut, ImageOwned
<1> QED
  BY <1>1, <1>2, <1>3, <1>4, <1>5, <1>6, <1>7, <1>8

\* On PostgreSQL the rows go now, even one claimed since.
LEMMA DeleteRowsUploads ==
    ASSUME UploadInv, NEW j \in Janitors, DeleteRows(j)
    PROVE  UploadInv'
<1> USE KeyAssumption, ContentsAssumption, DurationAssumption
    DEF UploadInv, DeleteRows, Doomed, At, table, storage, resources, history
<1>1. TypeOK'
  BY DEF TypeOK
<1>2. Presigning'
  BY DEF Presigning, TypeOK, Request, Idle, Attaching, Sweeping
<1>3. Attaching'
  BY DEF Attaching, TypeOK, Request, Idle, Presigning, ShownIsAttached
<1>4. UrlsExpire'
  BY DEF UrlsExpire, TypeOK, Presigning, Attaching, Sweeping, Request, Idle
<1>5. Sweeping'
  BY DEF Sweeping, TypeOK, Presigning
<1>6. TrackedImageKept'
  BY DEF TrackedImageKept, TypeOK, Attaching, InUse, Presigning, Sweeping,
       ShownIsAttached, Request, Idle
<1>7. NoUntrackedObject'
  BY DEF NoUntrackedObject, TypeOK, UrlsExpire, Sweeping, Presigning
<1>8. (ShownIsAttached /\ NoFanOut /\ ImageOwned)'
  BY DEF ShownIsAttached, NoFanOut, ImageOwned
<1> QED
  BY <1>1, <1>2, <1>3, <1>4, <1>5, <1>6, <1>7, <1>8

\* Only objects without a row are deleted.
LEMMA DeleteObjectsUploads ==
    ASSUME UploadInv, NEW j \in Janitors, DeleteObjects(j)
    PROVE  UploadInv'
<1> USE KeyAssumption, ContentsAssumption, DurationAssumption
    DEF UploadInv, Asleep, At, table, storage, resources, history
<1>0. PICK gone \in SUBSET jan[j].keys :
        /\ jan[j].pc = "objects"
        /\ object' = [k \in Keys |-> IF k \in gone THEN "none" ELSE object[k]]
        /\ leaked' = leaked \cup (jan[j].keys \ gone)
        /\ jan' = [jan EXCEPT ![j] = Asleep]
        /\ UNCHANGED <<clock, table, urlUntil, resources, generated, known,
                       req, shown>>
  BY DEF DeleteObjects
<1>1. TypeOK'
  BY <1>0 DEF TypeOK, Sweeping
<1>2. Presigning'
  BY <1>0 DEF Presigning, TypeOK, Request, Idle, Attaching, Sweeping
<1>3. Attaching'
  BY <1>0 DEF Attaching, TypeOK, Sweeping
<1>4. Sweeping'
  BY <1>0 DEF Sweeping, TypeOK, Presigning
<1>5. TrackedImageKept'
  BY <1>0 DEF TrackedImageKept, TypeOK, Attaching, InUse, Presigning,
       Sweeping, ShownIsAttached, Request, Idle
<1>6. NoUntrackedObject'
  BY <1>0 DEF NoUntrackedObject, TypeOK, UrlsExpire, Sweeping, Presigning
<1>7. (ShownIsAttached /\ UrlsExpire /\ NoFanOut /\ ImageOwned)'
  BY <1>0 DEF ShownIsAttached, UrlsExpire, NoFanOut, ImageOwned
<1> QED
  BY <1>1, <1>2, <1>3, <1>4, <1>5, <1>6, <1>7

\* A failed sweep leaks the objects of rows already gone.
LEMMA SweepFailsUploads ==
    ASSUME UploadInv, NEW j \in Janitors, SweepFails(j)
    PROVE  UploadInv'
<1> USE KeyAssumption, ContentsAssumption, DurationAssumption
    DEF UploadInv, SweepFails, Asleep, At, table, storage, resources, history
<1>1. TypeOK'
  BY DEF TypeOK, Sweeping
<1>2. Presigning'
  BY DEF Presigning, TypeOK, Request, Idle, Attaching, Sweeping
<1>3. Sweeping'
  BY DEF Sweeping, TypeOK, Presigning
<1>4. NoUntrackedObject'
  BY DEF NoUntrackedObject, TypeOK, UrlsExpire, Sweeping, Presigning
<1>5. (Attaching /\ ShownIsAttached /\ UrlsExpire /\ NoFanOut /\ ImageOwned /\
       TrackedImageKept)'
  BY DEF Attaching, ShownIsAttached, UrlsExpire, NoFanOut, ImageOwned,
       TrackedImageKept, InUse
<1> QED
  BY <1>1, <1>2, <1>3, <1>4, <1>5

\* Time only makes URLs older.
LEMMA TickUploads ==
    ASSUME UploadInv, Tick
    PROVE  UploadInv'
<1> USE KeyAssumption, ContentsAssumption, DurationAssumption
    DEF UploadInv, Tick, At, table, storage, resources, history
<1>1. TypeOK'
  BY DEF TypeOK
<1>2. Presigning'
  BY DEF Presigning, TypeOK, Request, Idle, Attaching, Sweeping
<1>3. UrlsExpire'
  BY DEF UrlsExpire, TypeOK, Presigning, Attaching, Sweeping, Request, Idle
<1>4. Sweeping'
  BY DEF Sweeping, TypeOK, Presigning
<1>5. (Attaching /\ ShownIsAttached /\ NoFanOut /\ ImageOwned /\
       TrackedImageKept /\ NoUntrackedObject)'
  BY DEF Attaching, ShownIsAttached, NoFanOut, ImageOwned, TrackedImageKept,
       NoUntrackedObject, InUse
<1> QED
  BY <1>1, <1>2, <1>3, <1>4, <1>5

\* Every step preserves the invariant.
LEMMA NextUploads == UploadInv /\ [Next]_vars => UploadInv'
<1> SUFFICES ASSUME UploadInv, [Next]_vars PROVE UploadInv'
  OBVIOUS
<1>1. CASE \E r \in Requests, u \in Users, pur \in Purposes : Presign(r, u, pur)
  BY <1>1, PresignUploads
<1>2. CASE \E r \in Requests, u \in Users, k \in known, pur \in Purposes :
              Attach(r, u, k, pur)
  BY <1>2, AttachUploads
<1>3. CASE \E r \in Requests : Handle(r) \/ Fail(r)
  BY <1>3, ReserveUploads, AnswerUploads, InspectUploads, ClaimUploads,
     CreatePostUploads, SetAvatarUploads, FailUploads DEF Handle
<1>4. CASE \E k \in Keys, c \in Contents : Put(k, c)
  BY <1>4, PutUploads
<1>5. CASE \/ \E u \in Users : ClearAvatar(u)
           \/ \E u \in Users, p \in Posts : DeletePost(u, p)
  BY <1>5, ClearAvatarUploads, DeletePostUploads
<1>6. CASE \E j \in Janitors : Sweep(j) \/ SweepFails(j)
  BY <1>6, SelectAbandonedUploads, DeleteRowsUploads, DeleteObjectsUploads,
     SweepFailsUploads DEF Sweep
<1>7. CASE Tick
  BY <1>7, TickUploads
<1>8. CASE UNCHANGED vars
  BY <1>8 DEF vars, table, storage, resources, history, UploadInv, TypeOK,
     Presigning, Attaching, ShownIsAttached, UrlsExpire, Sweeping, NoFanOut,
     ImageOwned, TrackedImageKept, NoUntrackedObject, At, InUse
<1> QED
  BY <1>1, <1>2, <1>3, <1>4, <1>5, <1>6, <1>7, <1>8 DEF Next

\* The invariant holds in every reachable state, for either store.
THEOREM UploadSafety == Spec => []UploadInv
<1>1. Init => UploadInv
  BY InitUploads
<1>2. UploadInv /\ [Next]_vars => UploadInv'
  BY NextUploads
<1> QED
  BY <1>1, <1>2, PTL DEF Spec

\* No upload is shown in two places.
THEOREM FanOutSafety == Spec => []NoFanOut
BY UploadSafety, PTL DEF UploadInv

\* Everything shown was presigned by its owner for that purpose.
THEOREM OwnershipSafety == Spec => []ImageOwned
BY UploadSafety, PTL DEF UploadInv

\* An image in use keeps its object as long as its row exists.
THEOREM TrackedSafety == Spec => []TrackedImageKept
BY UploadSafety, PTL DEF UploadInv

\* Only a failed delete leaves an object that no row tracks.
THEOREM StorageSafety == Spec => []NoUntrackedObject
BY UploadSafety, PTL DEF UploadInv

-----------------------------------------------------------------------------
\* The implementation of ImageStore.

\* An invariant about keys written for the first time; the empty system has
\* none.
LEMMA InitFirstUse == Init => FirstUse
BY DEF Init, FirstUse, Idle, At

\* Steps that move no request to "reserve" or "write", name no key and show
\* nothing keep it.
LEMMA SameFirstUse ==
    ASSUME FirstUse, UNCHANGED <<generated, presigner, shown>>,
           attached \subseteq attached',
           \A r \in Requests : \/ req'[r] = req[r]
                               \/ req'[r].pc \notin {"reserve", "write"}
    PROVE  FirstUse'
BY DEF FirstUse, At

\* A request that goes idle, or on to another point, leaves the others alone.
LEMMA OneRequest ==
    ASSUME TypeOK, NEW r \in Requests,
           NEW pc \in {"answer", "claim"},
           Goto(r, pc) \/ Return(r)
    PROVE  /\ \A s \in Requests \ {r} : req'[s] = req[s]
           /\ req'[r].pc \in {"idle", pc}
BY DEF TypeOK, Goto, Return, Idle, Request

\* Presign takes a key that is nobody's.
LEMMA PresignFirstUse ==
    ASSUME ImageInv, NEW r \in Requests, NEW u \in Users, NEW pur \in Purposes,
           Presign(r, u, pur)
    PROVE  FirstUse'
<1>1. PICK k \in Keys \ generated :
        /\ generated' = generated \cup {k}
        /\ req' = [req EXCEPT ![r] = [pc |-> "reserve", user |-> u,
                                      key |-> k, purpose |-> pur]]
  BY DEF Presign
<1>2. UNCHANGED <<presigner, attached, shown>>
  BY DEF Presign, table, history
<1>3. /\ req'[r].pc = "reserve" /\ req'[r].key = k
      /\ \A s \in Requests \ {r} : req'[s] = req[s]
  BY <1>1 DEF ImageInv, UploadInv, TypeOK
<1> QED
  BY <1>1, <1>2, <1>3 DEF ImageInv, FirstUse, At

\* Reserve names the presigner of a key no other request is reserving.
LEMMA ReserveFirstUse ==
    ASSUME ImageInv, NEW r \in Requests, Reserve(r)
    PROVE  FirstUse'
<1>1. PICK k \in Keys : k = req[r].key /\ k \in generated
  BY DEF ImageInv, UploadInv, TypeOK, Presigning, Reserve, At
<1>2. /\ At(r, "reserve") /\ UNCHANGED <<generated, attached, shown>>
      /\ presigner' = [presigner EXCEPT ![k] = req[r].user]
  BY <1>1 DEF Reserve, history
<1>3. /\ \A s \in Requests \ {r} : req'[s] = req[s]
      /\ req'[r].pc \in {"idle", "answer"}
  BY OneRequest DEF Reserve, ImageInv, UploadInv
<1>4. \A s \in Requests \ {r} : At(s, "reserve") => req[s].key # k
  BY <1>1, <1>2 DEF ImageInv, UploadInv, Presigning, At
<1> QED
  BY <1>1, <1>2, <1>3, <1>4 DEF ImageInv, UploadInv, TypeOK, FirstUse, At,
     Presigning

\* The key of a successful Claim was unattached, hence never shown.
LEMMA ClaimFirstUse ==
    ASSUME ImageInv, NEW r \in Requests, Claim(r)
    PROVE  FirstUse'
<1>1. UNCHANGED <<generated, presigner, shown>>
  BY DEF Claim, history
<1>2. req[r] \in Request /\ req \in [Requests -> Request]
  BY DEF ImageInv, UploadInv, TypeOK
<1>3. \/ /\ req[r].key \notin attached
         /\ attached' = attached \cup {req[r].key}
         /\ req'[r].key = req[r].key /\ req'[r].pc = "write"
      \/ attached' = attached /\ req'[r].pc = "idle"
  BY <1>2 DEF Claim, Claimable, Goto, Return, Idle, Request
<1>4. \A s \in Requests \ {r} : req'[s] = req[s]
  BY <1>2 DEF Claim, Goto, Return
<1> QED
  BY <1>1, <1>3, <1>4 DEF ImageInv, FirstUse, At

\* A write shows a key no other request is about to write.
LEMMA WriteFirstUse ==
    ASSUME ImageInv, NEW r \in Requests, CreatePost(r) \/ SetAvatar(r)
    PROVE  FirstUse'
<1>1. /\ At(r, "write") /\ shown' = shown \cup {req[r].key}
      /\ UNCHANGED <<generated, presigner, attached>>
  BY DEF CreatePost, SetAvatar, table
<1>2. /\ \A s \in Requests \ {r} : req'[s] = req[s]
      /\ req'[r].pc = "idle"
  BY DEF CreatePost, SetAvatar, Return, Idle, ImageInv, UploadInv, TypeOK
<1>3. /\ req[r].key \in attached
      /\ \A s \in Requests \ {r} : At(s, "write") => req[s].key # req[r].key
  BY <1>1 DEF ImageInv, UploadInv, Attaching
<1> QED
  BY <1>1, <1>2, <1>3 DEF ImageInv, FirstUse, At

\* Every step keeps it.
LEMMA NextFirstUse == ImageInv /\ [Next]_vars => FirstUse'
<1> SUFFICES ASSUME ImageInv, [Next]_vars PROVE FirstUse'
  OBVIOUS
<1>1. CASE \E r \in Requests, u \in Users, pur \in Purposes : Presign(r, u, pur)
  BY <1>1, PresignFirstUse
<1>2. ASSUME NEW r \in Requests, NEW u \in Users, NEW k \in known,
             NEW pur \in Purposes, Attach(r, u, k, pur)
      PROVE  FirstUse'
  BY <1>2, SameFirstUse
     DEF Attach, ImageInv, UploadInv, TypeOK, table, history
<1>3. ASSUME NEW r \in Requests, Handle(r) \/ Fail(r)
      PROVE  FirstUse'
  <2>1. CASE Answer(r) \/ Inspect(r) \/ Fail(r)
    <3>1. Goto(r, "claim") \/ Return(r)
      BY <2>1 DEF Answer, Inspect, Fail
    <3>2. UNCHANGED <<generated, presigner, shown, attached>>
      BY <2>1 DEF Answer, Inspect, Fail, table, history
    <3> QED
      BY <3>1, <3>2, OneRequest, SameFirstUse DEF ImageInv, UploadInv
  <2> QED
    BY <1>3, <2>1, ReserveFirstUse, ClaimFirstUse, WriteFirstUse DEF Handle
<1>4. CASE UNCHANGED <<generated, presigner, shown, attached, req>>
  BY <1>4, SameFirstUse DEF ImageInv
<1>5. \/ \E r \in Requests, u \in Users, pur \in Purposes : Presign(r, u, pur)
      \/ \E r \in Requests, u \in Users, k \in known, pur \in Purposes :
            Attach(r, u, k, pur)
      \/ \E r \in Requests : Handle(r) \/ Fail(r)
      \/ UNCHANGED <<generated, presigner, shown, attached, req>>
  BY DEF Next, Put, ClearAvatar, DeletePost, Sweep, SelectAbandoned,
     DeleteRows, DeleteObjects, SweepFails, Tick, vars, table, history
<1> QED
  BY <1>1, <1>2, <1>3, <1>4, <1>5

\* Requests start for a user and keep it until they return.
LEMMA NextOnBehalf == ImageInv /\ [Next]_vars => OnBehalf'
<1> SUFFICES ASSUME ImageInv, [Next]_vars PROVE OnBehalf'
  OBVIOUS
<1>0. req \in [Requests -> Request]
  BY DEF ImageInv, UploadInv, TypeOK
<1>1. ASSUME NEW r \in Requests, NEW u \in Users, NEW k \in Keys,
             NEW pur \in Purposes, NEW pc,
             req' = [req EXCEPT ![r] = [pc |-> pc, user |-> u, key |-> k,
                                        purpose |-> pur]]
      PROVE  OnBehalf'
  BY <1>0, <1>1 DEF ImageInv, OnBehalf, At
<1>2. ASSUME NEW r \in Requests, ~At(r, "idle"),
             NEW pc \in {"answer", "claim", "write"},
             Goto(r, pc) \/ Return(r)
      PROVE  OnBehalf'
  <2>1. req[r] \in Request /\ req[r].user \in Users /\ req[r].purpose \in Purposes
    BY <1>0, <1>2 DEF ImageInv, OnBehalf
  <2>2. \/ req'[r].pc = "idle"
        \/ req'[r].user = req[r].user /\ req'[r].purpose = req[r].purpose
    BY <1>0, <1>2, <2>1 DEF Goto, Return, Idle, Request
  <2>3. \A s \in Requests \ {r} : req'[s] = req[s]
    BY <1>0, <1>2 DEF Goto, Return
  <2> QED
    BY <2>1, <2>2, <2>3 DEF ImageInv, OnBehalf, At
<1>3. CASE UNCHANGED req
  BY <1>3 DEF ImageInv, OnBehalf, At
<1>4. ASSUME NEW r \in Requests, Handle(r) \/ Fail(r)
      PROVE  OnBehalf'
  <2>1. /\ ~At(r, "idle")
        /\ \/ Goto(r, "answer") \/ Goto(r, "claim") \/ Goto(r, "write")
           \/ Return(r)
    BY <1>4 DEF Handle, Fail, Reserve, Answer, Inspect, Claim, CreatePost,
       SetAvatar, At
  <2> QED
    BY <1>2, <2>1
<1>5. CASE \E r \in Requests, u \in Users, pur \in Purposes : Presign(r, u, pur)
  BY <1>1, <1>5 DEF Presign
<1>6. CASE \E r \in Requests, u \in Users, k \in known, pur \in Purposes :
              Attach(r, u, k, pur)
  BY <1>1, <1>6 DEF Attach, ImageInv, UploadInv, TypeOK
<1>7. \/ \E r \in Requests, u \in Users, pur \in Purposes : Presign(r, u, pur)
      \/ \E r \in Requests, u \in Users, k \in known, pur \in Purposes :
            Attach(r, u, k, pur)
      \/ \E r \in Requests : Handle(r) \/ Fail(r)
      \/ UNCHANGED req
  BY DEF Next, Put, ClearAvatar, DeletePost, Sweep, SelectAbandoned,
     DeleteRows, DeleteObjects, SweepFails, Tick, vars
<1> QED
  BY <1>3, <1>4, <1>5, <1>6, <1>7

\* A key is reserved once and written once, whatever requests are retried.
THEOREM ImageSafety == Spec => []ImageInv
<1>1. Init => ImageInv
  BY InitUploads, InitFirstUse DEF ImageInv, OnBehalf, Init, Idle, At
<1>2. ImageInv /\ [Next]_vars => ImageInv'
  BY NextUploads, NextFirstUse, NextOnBehalf DEF ImageInv
<1> QED
  BY <1>1, <1>2, PTL DEF Spec

\* The empty system is an empty store.
LEMMA InitImages == Init => Images!Init
<1> SUFFICES ASSUME Init PROVE Images!Init
  OBVIOUS
<1>1. Posted = [u \in Users |-> {}]
  BY DEF Init, Posted
<1>2. Condemned = {}
  BY DEF Init, Condemned, Asleep
<1>3. Stored = {}
  BY DEF Init, Stored
<1> QED
  BY <1>1, <1>2, <1>3 DEF Init, Images!Init

\* Steps of requests that touch neither table, storage nor resources.
LEMMA SameImages ==
    ASSUME UNCHANGED <<rows, attached, presigner, purpose, object, resources,
                       shown, jan>>
    PROVE  UNCHANGED Images!store
<1>1. UNCHANGED <<posts, author, image, avatar>>
  BY DEF resources
<1>2. UNCHANGED <<Posted, Condemned, Stored>>
  BY <1>1 DEF Posted, Condemned, Stored
<1> QED
  BY <1>1, <1>2 DEF Images!store, Images!upload, Images!sweep, Images!display

\* The INSERT of Reserve issues a key that was nobody's.
LEMMA ReserveImages ==
    ASSUME ImageInv, NEW r \in Requests, Reserve(r)
    PROVE  Images!Next
<1>1. PICK k \in Keys, u \in Users, pur \in Purposes :
        k = req[r].key /\ u = req[r].user /\ pur = req[r].purpose
  BY DEF ImageInv, UploadInv, TypeOK, Presigning, OnBehalf, Reserve, At
<1>2. /\ presigner' = [presigner EXCEPT ![k] = u]
      /\ purpose' = [purpose EXCEPT ![k] = pur]
      /\ rows' = rows \cup {k}
      /\ UNCHANGED <<attached, object, posts, author, image, avatar, shown, jan>>
  BY <1>1 DEF Reserve, storage, resources, history
<1>3. presigner[k] = NoUser
  BY <1>1 DEF ImageInv, FirstUse, Reserve
<1>4. UNCHANGED <<Posted, Condemned, Stored>>
  BY <1>2 DEF Posted, Condemned, Stored
<1>5. Images!Issue(k, u, pur)
  BY <1>2, <1>3, <1>4 DEF Images!Issue, Images!display
<1> QED
  BY <1>5 DEF Images!Next, Purposes

\* A PUT fills an upload whose row is there: its URL would have expired.
LEMMA PutImages ==
    ASSUME ImageInv, NEW k \in Keys, NEW c \in Contents, Put(k, c)
    PROVE  Images!Next
<1>1. k \in rows
  BY DEF Put, ImageInv, UploadInv, UrlsExpire, TypeOK
<1>2. /\ object' = [object EXCEPT ![k] = c]
      /\ UNCHANGED <<rows, attached, presigner, purpose, posts, author, image,
                     avatar, shown, jan>>
  BY DEF Put, table, resources, history
<1>3. Stored' = Stored \cup {k}
  BY <1>2, ContentsAssumption DEF Stored, ImageInv, UploadInv, TypeOK
<1>4. UNCHANGED <<Posted, Condemned>>
  BY <1>2 DEF Posted, Condemned
<1>5. Images!Fill(k)
  BY <1>1, <1>2, <1>3, <1>4
  DEF Images!Fill, Images!upload, Images!sweep, Images!display
<1> QED
  BY <1>5 DEF Images!Next

\* The UPDATE of Claim spends an upload that is stored and was not spent.
LEMMA ClaimImages ==
    ASSUME ImageInv, NEW r \in Requests, Claim(r)
    PROVE  [Images!Next]_(Images!store)
<1>1. PICK k \in Keys : k = req[r].key
  BY DEF ImageInv, UploadInv, Attaching, TypeOK, Claim, At
<1>2. UNCHANGED <<rows, presigner, purpose, object, resources, shown, jan>>
  BY DEF Claim, storage, history
<1>3. CASE UNCHANGED attached
  BY <1>2, <1>3, SameImages
<1>4. CASE Claimable(k, req[r].user, req[r].purpose) /\ attached' = attached \cup {k}
  <2>1. k \in rows /\ k \notin attached
    BY <1>4 DEF Claimable
  <2>2. k \in Stored
    BY <1>1, <2>1 DEF Claim, ImageInv, UploadInv, Attaching, Stored
  <2>3. UNCHANGED <<Posted, Condemned, Stored, avatar>>
    BY <1>2 DEF Posted, Condemned, Stored, resources
  <2>4. Images!Spend(k)
    BY <1>2, <1>4, <2>1, <2>2, <2>3
    DEF Images!Spend, Images!upload, Images!sweep, Images!display
  <2> QED
    BY <2>4 DEF Images!Next
<1> QED
  BY <1>1, <1>3, <1>4 DEF Claim

\* Posts().Create shows a spent upload for the first time, in its owner's post.
LEMMA CreatePostImages ==
    ASSUME ImageInv, NEW r \in Requests, CreatePost(r)
    PROVE  Images!Next
<1>1. PICK k \in Keys, u \in Users : k = req[r].key /\ u = req[r].user
  BY DEF ImageInv, UploadInv, Attaching, TypeOK, OnBehalf, CreatePost, At
<1>2. PICK p \in Posts \ posts :
        /\ posts' = posts \cup {p}
        /\ author' = [author EXCEPT ![p] = u]
        /\ image' = [image EXCEPT ![p] = k]
  BY <1>1 DEF CreatePost
<1>3. /\ shown' = shown \cup {k}
      /\ UNCHANGED <<rows, attached, presigner, purpose, object, avatar, jan>>
  BY <1>1 DEF CreatePost, table, storage
<1>4. k \in attached /\ presigner[k] = u /\ purpose[k] = "post" /\ k \notin shown
  BY <1>1 DEF CreatePost, ImageInv, UploadInv, Attaching, FirstUse
<1>5. /\ posts \subseteq Posts
      /\ author \in [Posts -> Users \cup {NoUser}]
      /\ image \in [Posts -> Keys \cup {NoKey}]
  BY DEF ImageInv, UploadInv, TypeOK
<1>6. /\ author'[p] = u /\ image'[p] = k
      /\ \A q \in posts : author'[q] = author[q] /\ image'[q] = image[q]
  BY <1>2, <1>5
<1>7. Posted' = [Posted EXCEPT ![u] = @ \cup {k}]
  <2>1. ASSUME NEW v \in Users
        PROVE  {image'[q] : q \in {s \in posts' : author'[s] = v}} =
                  IF v = u
                  THEN {image[q] : q \in {s \in posts : author[s] = v}} \cup {k}
                  ELSE {image[q] : q \in {s \in posts : author[s] = v}}
    BY <1>2, <1>6
  <2> QED
    BY <2>1 DEF Posted
<1>8. UNCHANGED <<Condemned, Stored>>
  BY <1>3 DEF Condemned, Stored
<1>9. Images!ShowInPost(k)
  BY <1>3, <1>4, <1>7, <1>8
  DEF Images!ShowInPost, Images!upload, Images!sweep
<1> QED
  BY <1>9 DEF Images!Next

\* Users().Update shows it in its owner's profile.
LEMMA SetAvatarImages ==
    ASSUME ImageInv, NEW r \in Requests, SetAvatar(r)
    PROVE  Images!Next
<1>1. PICK k \in Keys, u \in Users : k = req[r].key /\ u = req[r].user
  BY DEF ImageInv, UploadInv, Attaching, TypeOK, OnBehalf, SetAvatar, At
<1>2. /\ shown' = shown \cup {k} /\ avatar' = [avatar EXCEPT ![u] = k]
      /\ UNCHANGED <<rows, attached, presigner, purpose, object, posts, author,
                     image, jan>>
  BY <1>1 DEF SetAvatar, table, storage
<1>3. /\ k \in attached /\ presigner[k] = u /\ purpose[k] = "avatar"
      /\ k \notin shown
  BY <1>1 DEF SetAvatar, ImageInv, UploadInv, Attaching, FirstUse
<1>4. UNCHANGED <<Posted, Condemned, Stored>>
  BY <1>2 DEF Posted, Condemned, Stored
<1>5. Images!ShowInProfile(k)
  BY <1>2, <1>3, <1>4
  DEF Images!ShowInProfile, Images!upload, Images!sweep
<1> QED
  BY <1>5 DEF Images!Next

\* Deleting a post withdraws its image, which no other post shows.
LEMMA DeletePostImages ==
    ASSUME ImageInv, NEW u \in Users, NEW p \in Posts, DeletePost(u, p)
    PROVE  Images!Next
<1>1. /\ p \in posts /\ author[p] = u
      /\ posts' = posts \ {p}
      /\ author' = [author EXCEPT ![p] = NoUser]
      /\ image' = [image EXCEPT ![p] = NoKey]
      /\ UNCHANGED <<rows, attached, presigner, purpose, object, avatar, shown,
                     jan>>
  BY DEF DeletePost, table, storage, history
<1>2. PICK k : k = image[p]
  OBVIOUS
<1>3. /\ posts \subseteq Posts
      /\ author \in [Posts -> Users \cup {NoUser}]
      /\ image \in [Posts -> Keys \cup {NoKey}]
  BY DEF ImageInv, UploadInv, TypeOK
<1>4. \A q \in posts' : author'[q] = author[q] /\ image'[q] = image[q]
  BY <1>1, <1>3
<1>5. \A q \in posts' : image[q] # k
  BY <1>1, <1>2 DEF ImageInv, UploadInv, NoFanOut
<1>6. Posted' = [Posted EXCEPT ![u] = @ \ {k}]
  <2>1. ASSUME NEW v \in Users
        PROVE  {image'[q] : q \in {s \in posts' : author'[s] = v}} =
                  IF v = u
                  THEN {image[q] : q \in {s \in posts : author[s] = v}} \ {k}
                  ELSE {image[q] : q \in {s \in posts : author[s] = v}}
    BY <1>1, <1>2, <1>4, <1>5
  <2> QED
    BY <2>1 DEF Posted
<1>7. k \in Posted[u]
  BY <1>1, <1>2 DEF Posted
<1>8. UNCHANGED <<Condemned, Stored>>
  BY <1>1 DEF Condemned, Stored
<1>9. Images!RemovePost(u, k)
  BY <1>1, <1>6, <1>8 DEF Images!RemovePost, Images!upload, Images!sweep
<1> QED
  BY <1>7, <1>9 DEF Images!Next

\* So does clearing a profile.
LEMMA ClearAvatarImages ==
    ASSUME NEW u \in Users, ClearAvatar(u)
    PROVE  Images!Next
<1>1. /\ avatar' = [avatar EXCEPT ![u] = NoKey]
      /\ UNCHANGED <<rows, attached, presigner, purpose, object, posts, author,
                     image, shown, jan>>
  BY DEF ClearAvatar, table, storage, history
<1>2. UNCHANGED <<Posted, Condemned, Stored>>
  BY <1>1 DEF Posted, Condemned, Stored
<1>3. Images!ClearProfile(u)
  BY <1>1, <1>2 DEF Images!ClearProfile, Images!upload, Images!sweep
<1> QED
  BY <1>3 DEF Images!Next

\* The subselect of ReleaseAbandoned condemns unspent uploads only.
LEMMA SelectImages ==
    ASSUME ImageInv, NEW j \in Janitors, SelectAbandoned(j)
    PROVE  Images!Next
<1>1. PICK S \in SUBSET rows :
        /\ S \cap attached = {}
        /\ jan' = [jan EXCEPT ![j] = [pc |-> "rows", keys |-> S]]
  BY DEF SelectAbandoned, Abandoned
<1>2. /\ jan[j].pc = "asleep"
      /\ UNCHANGED <<rows, attached, presigner, purpose, object, posts, author,
                     image, avatar, shown>>
  BY DEF SelectAbandoned, table, storage, resources, history
<1>3. /\ jan'[j].pc = "rows" /\ jan'[j].keys = S
      /\ \A i \in Janitors \ {j} : jan'[i] = jan[i]
  BY <1>1 DEF ImageInv, UploadInv, TypeOK
<1>4. Condemned' = Condemned \cup S
  <2>1. \A k : k \in Condemned <=>
                \E i \in Janitors : jan[i].pc = "rows" /\ k \in jan[i].keys
    BY DEF Condemned
  <2>2. \A k : k \in Condemned' <=>
                \E i \in Janitors : jan'[i].pc = "rows" /\ k \in jan'[i].keys
    BY DEF Condemned
  <2>3. \A k : k \in Condemned' <=> k \in Condemned \/ k \in S
    BY <1>2, <1>3, <2>1, <2>2
  <2> QED
    BY <2>3
<1>5. S \in SUBSET Keys
  BY DEF ImageInv, UploadInv, TypeOK
<1>6. UNCHANGED <<Posted, Stored>>
  BY <1>2 DEF Posted, Stored
<1>7. Images!Condemn(S)
  BY <1>1, <1>2, <1>4, <1>6 DEF Images!Condemn, Images!upload, Images!display
<1> QED
  BY <1>5, <1>7 DEF Images!Next

\* A janitor that leaves "rows" only shortens the list of condemned keys.
LEMMA CondemnedShrinks ==
    ASSUME TypeOK, NEW j \in Janitors, jan'[j].pc # "rows",
           \A i \in Janitors \ {j} : jan'[i] = jan[i]
    PROVE  Condemned' \subseteq Condemned
<1>1. \A k : k \in Condemned <=>
              \E i \in Janitors : jan[i].pc = "rows" /\ k \in jan[i].keys
  BY DEF Condemned
<1>2. \A k : k \in Condemned' <=>
              \E i \in Janitors : jan'[i].pc = "rows" /\ k \in jan'[i].keys
  BY DEF Condemned
<1> QED
  BY <1>1, <1>2

\* The DELETE untracks condemned keys.
LEMMA DeleteRowsImages ==
    ASSUME ImageInv, NEW j \in Janitors, DeleteRows(j)
    PROVE  Images!Next
<1>1. PICK K : K = rows \cap jan[j].keys
  OBVIOUS
<1>2. /\ jan[j].pc = "rows" /\ rows' = rows \ K
      /\ jan' = [jan EXCEPT ![j] = [pc |-> "objects",
                                    keys |-> jan[j].keys \cap rows]]
      /\ UNCHANGED <<attached, presigner, purpose, object, posts, author,
                     image, avatar, shown>>
  BY <1>1 DEF DeleteRows, Doomed, storage, resources, history
<1>3. /\ jan'[j].pc = "objects"
      /\ \A i \in Janitors \ {j} : jan'[i] = jan[i]
  BY <1>2 DEF ImageInv, UploadInv, TypeOK
<1>4. Condemned' \subseteq Condemned
  BY <1>3, CondemnedShrinks DEF ImageInv, UploadInv
<1>5. PICK C \in SUBSET Condemned : Condemned' = Condemned \ C
  <2>1. Condemned \ Condemned' \in SUBSET Condemned
    OBVIOUS
  <2>2. Condemned' = Condemned \ (Condemned \ Condemned')
    BY <1>4
  <2> QED
    BY <2>1, <2>2
<1>6. K \in SUBSET Condemned
  BY <1>1, <1>2 DEF Condemned
<1>7. UNCHANGED <<Posted, Stored>>
  BY <1>2 DEF Posted, Stored
<1>8. Images!Release(K, C)
  BY <1>2, <1>5, <1>7 DEF Images!Release, Images!upload, Images!display
<1> QED
  BY <1>5, <1>6, <1>8 DEF Images!Next

\* The objects that go are those of keys no longer tracked.
LEMMA DeleteObjectsImages ==
    ASSUME ImageInv, NEW j \in Janitors, DeleteObjects(j)
    PROVE  Images!Next
<1>1. PICK gone \in SUBSET jan[j].keys :
        object' = [k \in Keys |-> IF k \in gone THEN "none" ELSE object[k]]
  BY DEF DeleteObjects
<1>2. /\ jan[j].pc = "objects" /\ jan' = [jan EXCEPT ![j] = Asleep]
      /\ UNCHANGED <<rows, attached, presigner, purpose, posts, author, image,
                     avatar, shown>>
  BY DEF DeleteObjects, table, resources
<1>3. gone \cap rows = {} /\ gone \in SUBSET Keys
  BY <1>1, <1>2 DEF ImageInv, UploadInv, Sweeping, TypeOK
<1>4. Stored' = Stored \ gone
  BY <1>1 DEF Stored
<1>5. UNCHANGED Condemned
  <2>1. \A i \in Janitors : \/ jan'[i] = jan[i]
                            \/ jan[i].pc # "rows" /\ jan'[i].pc # "rows"
    BY <1>2 DEF Asleep, ImageInv, UploadInv, TypeOK
  <2>2. {i \in Janitors : jan'[i].pc = "rows"} =
            {i \in Janitors : jan[i].pc = "rows"}
    BY <2>1
  <2>3. \A i \in Janitors : jan[i].pc = "rows" => jan'[i].keys = jan[i].keys
    BY <2>1
  <2> QED
    BY <2>2, <2>3 DEF Condemned
<1>6. UNCHANGED Posted
  BY <1>2 DEF Posted
<1>7. Images!Delete(gone)
  BY <1>2, <1>3, <1>4, <1>5, <1>6
  DEF Images!Delete, Images!upload, Images!sweep, Images!display
<1> QED
  BY <1>3, <1>7 DEF Images!Next

\* A failed sweep spares what it had not untracked.
LEMMA SweepFailsImages ==
    ASSUME ImageInv, NEW j \in Janitors, SweepFails(j)
    PROVE  Images!Next
<1>1. /\ jan' = [jan EXCEPT ![j] = Asleep]
      /\ UNCHANGED <<rows, attached, presigner, purpose, object, posts, author,
                     image, avatar, shown>>
  BY DEF SweepFails, table, storage, resources
<1>2. jan'[j].pc = "asleep" /\ \A i \in Janitors \ {j} : jan'[i] = jan[i]
  BY <1>1 DEF Asleep, ImageInv, UploadInv, TypeOK
<1>3. Condemned' \subseteq Condemned
  BY <1>2, CondemnedShrinks DEF ImageInv, UploadInv
<1>4. PICK C \in SUBSET Condemned : Condemned' = Condemned \ C
  <2>1. Condemned' = Condemned \ (Condemned \ Condemned')
    BY <1>3
  <2> QED
    BY <2>1
<1>5. UNCHANGED <<Posted, Stored>>
  BY <1>1 DEF Posted, Stored
<1>6. Images!Release({}, C)
  BY <1>1, <1>4, <1>5 DEF Images!Release, Images!upload, Images!display
<1> QED
  BY <1>4, <1>6 DEF Images!Next

\* Every step of Uploads is a step of the store or changes nothing of it.
LEMMA NextImages == ImageInv /\ [Next]_vars => [Images!Next]_(Images!store)
<1> SUFFICES ASSUME ImageInv, [Next]_vars
             PROVE  [Images!Next]_(Images!store)
  OBVIOUS
<1>1. CASE \E r \in Requests : Handle(r) \/ Fail(r)
  <2>1. ASSUME NEW r \in Requests, Answer(r) \/ Inspect(r) \/ Fail(r)
        PROVE  UNCHANGED Images!store
    BY <2>1, SameImages DEF Answer, Inspect, Fail, table, storage, history
  <2> QED
    BY <1>1, <2>1, ReserveImages, ClaimImages, CreatePostImages,
       SetAvatarImages DEF Handle
<1>2. CASE \E k \in Keys, c \in Contents : Put(k, c)
  BY <1>2, PutImages
<1>3. CASE \/ \E u \in Users : ClearAvatar(u)
           \/ \E u \in Users, p \in Posts : DeletePost(u, p)
  BY <1>3, ClearAvatarImages, DeletePostImages
<1>4. CASE \E j \in Janitors : Sweep(j) \/ SweepFails(j)
  BY <1>4, SelectImages, DeleteRowsImages, DeleteObjectsImages,
     SweepFailsImages DEF Sweep
<1>5. CASE \/ \E r \in Requests, u \in Users, pur \in Purposes :
                Presign(r, u, pur)
           \/ \E r \in Requests, u \in Users, k \in known, pur \in Purposes :
                Attach(r, u, k, pur)
           \/ Tick \/ UNCHANGED vars
  BY <1>5, SameImages DEF Presign, Attach, Tick, vars, table, storage, history
<1> QED
  BY <1>1, <1>2, <1>3, <1>4, <1>5 DEF Next

\* Handlers, clients and janitors implement the store: each key is issued to
\* one user, filled, spent and shown in this order and at most once, and a
\* sweep takes only what it picked while it was unspent.
THEOREM ImageStoreImplemented == Spec => ImplementsImageStore
<1>1. Init => Images!Init
  BY InitImages
<1>2. ImageInv /\ [Next]_vars => [Images!Next]_(Images!store)
  BY NextImages
<1> QED
  BY <1>1, <1>2, ImageSafety, PTL DEF Spec, Images!Spec, ImplementsImageStore
=============================================================================
