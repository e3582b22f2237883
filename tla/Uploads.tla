------------------------------- MODULE Uploads -------------------------------
(***************************************************************************)
(* The life of an uploaded image: presigned (handlePresign), PUT straight  *)
(* to object storage by the client, inspected and claimed (claimUpload),   *)
(* written to a post or an avatar, or collected by the janitor when it was *)
(* never attached.                                                         *)
(*                                                                         *)
(* Every HTTP request is a process whose store and storage calls are       *)
(* separate atomic steps; so is every janitor, one per replica.  Storage   *)
(* is external: an object is whatever was last PUT under its key.          *)
(***************************************************************************)
EXTENDS Integers, FiniteSets

CONSTANTS
    Requests,    \* concurrent HTTP requests
    Janitors,    \* one per replica
    Users,
    Keys,        \* storage keys newKey may generate
    Posts,       \* slots for posts with an image that exist at one time
    Contents,    \* what a client may PUT: subset of {"junk", "medium", "large"}
    NoKey, NoUser, NoPurpose,
    PresignTTL,  \* validity of an upload URL
    GCAfter,     \* grace of an unattached upload
    BatchSize,   \* keys released per sweep
    MaxTime      \* bound on the clock

ASSUME KeyAssumption == NoKey \notin Keys
ASSUME UserAssumption == NoUser \notin Users
ASSUME ContentsAssumption == "none" \notin Contents
ASSUME DurationAssumption ==
    /\ PresignTTL \in Nat /\ GCAfter \in Nat /\ MaxTime \in Nat
    /\ BatchSize \in Nat \ {0}
    /\ PresignTTL <= GCAfter    \* 15 minutes and 24 hours by default

VARIABLES
    clock,
    \* the uploads table
    rows,        \* keys with a row
    attached,    \* keys whose attached_at was set
    presigner,   \* user_id
    purpose,     \* purpose
    created,     \* created_at
    \* object storage and the URLs for it
    urlUntil,    \* last instant the upload URL of a key is accepted
    object,      \* key -> contents, "none" when there is no object
    \* resources that point at images
    posts,       \* posts with an image (one without touches nothing here)
    author,      \* author_id
    image,       \* image_key
    avatar,      \* users.avatar_key
    \* processes
    generated,   \* keys newKey has returned
    known,       \* keys some client was told
    req,         \* request -> program counter and locals
    jan,         \* janitor -> program counter and the keys it is releasing
    \* history
    shown,       \* keys that were once written to a resource
    leaked       \* released keys whose object delete failed

table == <<rows, attached, presigner, purpose, created>>
storage == <<urlUntil, object>>
resources == <<posts, author, image, avatar>>
history == <<shown, leaked>>
vars == <<clock, table, storage, resources, generated, known, req, jan,
          history>>

-----------------------------------------------------------------------------
Purposes == {"avatar", "post"}

Request == [pc : {"idle", "reserve", "answer", "inspect", "claim", "write"},
            user : Users \cup {NoUser}, key : Keys \cup {NoKey},
            purpose : Purposes \cup {NoPurpose}]

Idle == [pc |-> "idle", user |-> NoUser, key |-> NoKey,
         purpose |-> NoPurpose]

Asleep == [pc |-> "asleep", keys |-> {}]

At(r, pc) == req[r].pc = pc
Goto(r, pc) == req' = [req EXCEPT ![r].pc = pc]
Return(r) == req' = [req EXCEPT ![r] = Idle]

Init ==
    /\ clock = 0
    /\ rows = {} /\ attached = {}
    /\ presigner = [k \in Keys |-> NoUser]
    /\ purpose = [k \in Keys |-> NoPurpose]
    /\ created = [k \in Keys |-> 0]
    /\ urlUntil = [k \in Keys |-> 0]
    /\ object = [k \in Keys |-> "none"]
    /\ posts = {}
    /\ author = [p \in Posts |-> NoUser]
    /\ image = [p \in Posts |-> NoKey]
    /\ avatar = [u \in Users |-> NoKey]
    /\ generated = {} /\ known = {}
    /\ req = [r \in Requests |-> Idle]
    /\ jan = [j \in Janitors |-> Asleep]
    /\ shown = {} /\ leaked = {}

-----------------------------------------------------------------------------
\* Predicates of the code.

\* DecodeHeader and Check: "junk" is not an image of its declared type,
\* "medium" is at least 200x200 but below 320x320, "large" meets both minima.
Meets(content, pur) ==
    content = "large" \/ (content = "medium" /\ pur = "avatar")

\* Claim's WHERE key, user_id, purpose, attached_at IS NULL.
ClaimableTwice(k, u, pur) ==
    k \in rows /\ presigner[k] = u /\ purpose[k] = pur
ClaimableByAnyone(k, u, pur) ==
    k \in rows /\ purpose[k] = pur /\ k \notin attached
Claimable(k, u, pur) ==
    k \in rows /\ presigner[k] = u /\ purpose[k] = pur /\ k \notin attached

\* ReleaseAbandoned's attached_at IS NULL AND created_at < now - gcAfter.
AbandonedWithObject(k, now) ==
    k \notin attached /\ object[k] # "none" /\ created[k] + GCAfter < now
AbandonedAttached(k, now) == created[k] + GCAfter < now
AbandonedAtOnce(k, now) == k \notin attached /\ created[k] <= now
Abandoned(k, now) == k \notin attached /\ created[k] + GCAfter < now

\* ... ORDER BY created_at LIMIT batchSize.
IsBatch(S, A) ==
    /\ S \subseteq A
    /\ Cardinality(S) = IF Cardinality(A) < BatchSize
                        THEN Cardinality(A) ELSE BatchSize
    /\ \A k \in S, l \in A \ S : created[k] <= created[l]

-----------------------------------------------------------------------------
\* POST /v1/uploads/presign.

\* The purpose, type and length are valid; Presign names a key and signs a
\* URL for it.
Presign(r, u, pur) ==
    /\ At(r, "idle")
    /\ \E k \in Keys \ generated :
        /\ generated' = generated \cup {k}
        /\ urlUntil' = [urlUntil EXCEPT ![k] = clock + PresignTTL]
        /\ req' = [req EXCEPT ![r] = [pc |-> "reserve", user |-> u,
                                      key |-> k, purpose |-> pur]]
    /\ UNCHANGED <<clock, table, object, resources, known, jan, history>>

\* Uploads().Reserve inserts the row; created_at is the database's now().
Reserve(r) ==
    /\ At(r, "reserve")
    /\ LET k == req[r].key
       IN /\ rows' = rows \cup {k}
          /\ presigner' = [presigner EXCEPT ![k] = req[r].user]
          /\ purpose' = [purpose EXCEPT ![k] = req[r].purpose]
          /\ created' = [created EXCEPT ![k] = clock]
    /\ Goto(r, "answer")
    /\ UNCHANGED <<clock, attached, storage, resources, generated, known,
                   jan, history>>

\* The client receives the key and its URL.
Answer(r) ==
    /\ At(r, "answer")
    /\ known' = known \cup {req[r].key}
    /\ Return(r)
    /\ UNCHANGED <<clock, table, storage, resources, generated, jan, history>>

\* A client PUTs bytes, as often as it likes while the URL is valid.
Put(k, c) ==
    /\ k \in known
    /\ clock <= urlUntil[k]
    /\ object' = [object EXCEPT ![k] = c]
    /\ UNCHANGED <<clock, table, urlUntil, resources, generated, known, req,
                   jan, history>>

-----------------------------------------------------------------------------
\* POST /v1/posts with an imageKey and PATCH /v1/users/me with an avatarKey.
\* A key anybody was told may be sent by anybody: keys are in public URLs.

Attach(r, u, k, pur) ==
    /\ At(r, "idle")
    /\ req' = [req EXCEPT ![r] = [pc |-> "inspect", user |-> u, key |-> k,
                                  purpose |-> pur]]
    /\ UNCHANGED <<clock, table, storage, resources, generated, known, jan,
                   history>>

\* inspectUpload: GetObject, DecodeHeader, Check.  The handler stops when the
\* object is missing or not acceptable.
Inspect(r) ==
    /\ At(r, "inspect")
    /\ IF Meets(object[req[r].key], req[r].purpose)
       THEN Goto(r, "claim")
       ELSE Return(r)
    /\ UNCHANGED <<clock, table, storage, resources, generated, known, jan,
                   history>>

\* Uploads().Claim: one UPDATE decides; otherwise not found or forbidden.
Claim(r) ==
    /\ At(r, "claim")
    /\ LET k == req[r].key
       IN \/ /\ Claimable(k, req[r].user, req[r].purpose)
             /\ attached' = attached \cup {k}
             /\ Goto(r, "write")
          \/ /\ ~Claimable(k, req[r].user, req[r].purpose)
             /\ attached' = attached
             /\ Return(r)
    /\ UNCHANGED <<clock, rows, presigner, purpose, created, storage,
                   resources, generated, known, jan, history>>

\* Posts().Create.
CreatePost(r) ==
    /\ At(r, "write")
    /\ req[r].purpose = "post"
    /\ \E p \in Posts \ posts :
        /\ posts' = posts \cup {p}
        /\ author' = [author EXCEPT ![p] = req[r].user]
        /\ image' = [image EXCEPT ![p] = req[r].key]
    /\ shown' = shown \cup {req[r].key}
    /\ Return(r)
    /\ UNCHANGED <<clock, table, storage, avatar, generated, known, jan,
                   leaked>>

\* Users().Update with the new avatar_key, replacing the old one.
SetAvatar(r) ==
    /\ At(r, "write")
    /\ req[r].purpose = "avatar"
    /\ avatar' = [avatar EXCEPT ![req[r].user] = req[r].key]
    /\ shown' = shown \cup {req[r].key}
    /\ Return(r)
    /\ UNCHANGED <<clock, table, storage, posts, author, image, generated,
                   known, jan, leaked>>

\* A request stops anywhere: store or storage error, cancelled context,
\* crash, lost response.
Fail(r) ==
    /\ ~At(r, "idle")
    /\ Return(r)
    /\ UNCHANGED <<clock, table, storage, resources, generated, known, jan,
                   history>>

\* PATCH /v1/users/me with "avatarKey": null.
ClearAvatar(u) ==
    /\ avatar' = [avatar EXCEPT ![u] = NoKey]
    /\ UNCHANGED <<clock, table, storage, posts, author, image, generated,
                   known, req, jan, history>>

\* DELETE /v1/posts/{id} by its author.
DeletePost(u, p) ==
    /\ p \in posts
    /\ author[p] = u
    /\ posts' = posts \ {p}
    /\ image' = [image EXCEPT ![p] = NoKey]
    /\ author' = [author EXCEPT ![p] = NoUser]
    /\ UNCHANGED <<clock, table, storage, avatar, generated, known, req, jan,
                   history>>

-----------------------------------------------------------------------------
\* The janitor's collectAbandonedUploads.

\* The subselect of ReleaseAbandoned picks keys from the statement's snapshot.
SelectAbandoned(j) ==
    /\ jan[j].pc = "asleep"
    /\ \E now \in 0..clock :
        LET A == {k \in rows : Abandoned(k, now)}
        IN \E S \in SUBSET A :
            /\ S # {} /\ IsBatch(S, A)
            /\ jan' = [jan EXCEPT ![j] = [pc |-> "rows", keys |-> S]]
    /\ UNCHANGED <<clock, table, storage, resources, generated, known, req,
                   history>>

\* The rows the DELETE removes: those whose key is in the list.  A row changed
\* meanwhile is re-checked against key IN (...) only, which does not read
\* attached_at again.
NoneDeleted(j) == {}
Doomed(j) == rows \cap jan[j].keys

\* PostgreSQL locks and deletes them; RETURNING lists the ones really deleted.
DeleteRows(j) ==
    /\ jan[j].pc = "rows"
    /\ rows' = rows \ Doomed(j)
    /\ jan' = [jan EXCEPT ![j] = [pc |-> "objects",
                                  keys |-> jan[j].keys \cap rows]]
    /\ UNCHANGED <<clock, attached, presigner, purpose, created, storage,
                   resources, generated, known, req, history>>

\* Presigner.Delete.  Storage may refuse some of the keys: DeleteObjects
\* reports that in its output, which the code discards.
DeleteObjects(j) ==
    /\ jan[j].pc = "objects"
    /\ \E gone \in SUBSET jan[j].keys :
        /\ object' = [k \in Keys |-> IF k \in gone THEN "none" ELSE object[k]]
        /\ leaked' = leaked \cup (jan[j].keys \ gone)
    /\ jan' = [jan EXCEPT ![j] = Asleep]
    /\ UNCHANGED <<clock, table, urlUntil, resources, generated, known, req,
                   shown>>

\* The statement or the object delete fails, or the process dies: the batch is
\* dropped and, if its rows are gone, nothing remembers the objects.
SweepFails(j) ==
    /\ jan[j].pc # "asleep"
    /\ leaked' = IF jan[j].pc = "objects" THEN leaked \cup jan[j].keys
                                          ELSE leaked
    /\ jan' = [jan EXCEPT ![j] = Asleep]
    /\ UNCHANGED <<clock, table, storage, resources, generated, known, req,
                   shown>>

Tick ==
    /\ clock < MaxTime
    /\ clock' = clock + 1
    /\ UNCHANGED <<table, storage, resources, generated, known, req, jan,
                   history>>

Handle(r) ==
    \/ Reserve(r) \/ Answer(r) \/ Inspect(r) \/ Claim(r)
    \/ CreatePost(r) \/ SetAvatar(r)

Sweep(j) == SelectAbandoned(j) \/ DeleteRows(j) \/ DeleteObjects(j)

Next ==
    \/ \E r \in Requests, u \in Users, pur \in Purposes : Presign(r, u, pur)
    \/ \E r \in Requests, u \in Users, k \in known, pur \in Purposes :
        Attach(r, u, k, pur)
    \/ \E r \in Requests : Handle(r) \/ Fail(r)
    \/ \E k \in Keys, c \in Contents : Put(k, c)
    \/ \E u \in Users : ClearAvatar(u)
    \/ \E u \in Users, p \in Posts : DeletePost(u, p)
    \/ \E j \in Janitors : Sweep(j) \/ SweepFails(j)
    \/ Tick

Spec == Init /\ [][Next]_vars

\* janitor.Run sweeps on every tick of its ticker; a statement that could
\* succeed again and again is not failed for ever.
FairSpec ==
    /\ Spec
    /\ \A j \in Janitors : /\ WF_vars(SelectAbandoned(j))
                           /\ SF_vars(DeleteRows(j))
                           /\ WF_vars(DeleteObjects(j))

-----------------------------------------------------------------------------
\* Properties.

\* Every variable keeps its type; rows and answers concern generated keys.
TypeOK ==
    /\ clock \in Nat
    /\ generated \subseteq Keys
    /\ rows \subseteq generated /\ attached \subseteq generated
    /\ known \subseteq generated
    /\ presigner \in [Keys -> Users \cup {NoUser}]
    /\ purpose \in [Keys -> Purposes \cup {NoPurpose}]
    /\ created \in [Keys -> Nat] /\ urlUntil \in [Keys -> Nat]
    /\ object \in [Keys -> Contents \cup {"none"}]
    /\ posts \subseteq Posts
    /\ author \in [Posts -> Users \cup {NoUser}]
    /\ image \in [Posts -> Keys \cup {NoKey}]
    /\ avatar \in [Users -> Keys \cup {NoKey}]
    /\ req \in [Requests -> Request]
    /\ jan \in [Janitors -> [pc : {"asleep", "rows", "objects"},
                             keys : SUBSET Keys]]
    /\ shown \subseteq Keys /\ leaked \subseteq generated

\* An upload is shown in one place: concurrent attach requests, retries and
\* failures never put one key in two posts, two profiles, or both.
NoFanOut ==
    /\ \A p, q \in posts : image[p] = image[q] => p = q
    /\ \A u, v \in Users : avatar[u] = avatar[v] /\ avatar[u] # NoKey => u = v
    /\ \A p \in posts, u \in Users : image[p] # avatar[u]

\* What a post or a profile shows was presigned by that user, for that purpose.
ImageOwned ==
    /\ \A p \in posts : /\ presigner[image[p]] = author[p]
                        /\ purpose[image[p]] = "post"
    /\ \A u \in Users : avatar[u] # NoKey =>
                            /\ presigner[avatar[u]] = u
                            /\ purpose[avatar[u]] = "avatar"

\* A key a post or a profile shows, or a request is about to write there.
InUse(k) ==
    \/ \E p \in posts : image[p] = k
    \/ \E u \in Users : avatar[u] = k
    \/ \E r \in Requests : At(r, "write") /\ req[r].key = k

\* An image in use whose row is still there keeps its object, whatever the
\* janitors on the other replicas are in the middle of.
TrackedImageKept ==
    \A k \in rows : InUse(k) => object[k] # "none"

\* The janitor never deletes an image in use: every key shown by a post or a
\* profile still has its object.
NoDanglingImage ==
    \A k \in Keys : InUse(k) => object[k] # "none"

\* An object without a row is one the janitor is deleting or failed to delete:
\* no other order of presign, PUT and sweep leaves storage untracked.
NoUntrackedObject ==
    \A k \in Keys : object[k] # "none" /\ k \notin rows =>
        \/ k \in leaked
        \/ \E j \in Janitors : jan[j].pc = "objects" /\ k \in jan[j].keys

\* A key being presigned belongs to one request, which has told nobody.
Presigning ==
    \A r \in Requests :
        /\ At(r, "reserve") =>
            /\ req[r].key \in generated \ (rows \cup attached \cup known)
            /\ object[req[r].key] = "none"
            /\ urlUntil[req[r].key] <= clock + PresignTTL
            /\ \A j \in Janitors : req[r].key \notin jan[j].keys
        /\ At(r, "answer") => req[r].key \in generated
        /\ req[r].pc \in {"reserve", "answer"} =>
            \A s \in Requests : /\ req[s].pc \in {"reserve", "answer"}
                               /\ req[s].key = req[r].key => s = r

\* A request between its claim and its write holds a key nobody else has.
Attaching ==
    \A r \in Requests :
        /\ req[r].pc \in {"inspect", "claim", "write"} => req[r].key \in known
        /\ At(r, "claim") /\ req[r].key \in rows => object[req[r].key] # "none"
        /\ At(r, "write") =>
            /\ req[r].key \in attached
            /\ presigner[req[r].key] = req[r].user
            /\ purpose[req[r].key] = req[r].purpose
            /\ \A p \in posts : image[p] # req[r].key
            /\ \A u \in Users : avatar[u] # req[r].key
            /\ \A s \in Requests :
                At(s, "write") /\ req[s].key = req[r].key => s = r

\* Whatever a resource shows was claimed.
ShownIsAttached ==
    /\ \A p \in posts : image[p] \in attached
    /\ \A u \in Users : avatar[u] # NoKey => avatar[u] \in attached

\* By the time a row is released its URL no longer accepts a PUT.
UrlsExpire ==
    /\ \A k \in rows : urlUntil[k] <= created[k] + PresignTTL
    /\ \A k \in known \ rows : clock > urlUntil[k]
    /\ \A r \in Requests : At(r, "answer") /\ req[r].key \notin rows =>
            clock > urlUntil[req[r].key]

\* A janitor deletes rows first and the objects of those rows afterwards.
Sweeping ==
    \A j \in Janitors :
        /\ jan[j].keys \subseteq generated
        /\ jan[j].pc = "objects" => jan[j].keys \cap rows = {}
        /\ jan[j].pc = "rows" => \A k \in jan[j].keys : created[k] + GCAfter < clock

\* The inductive invariant.
UploadInv ==
    /\ TypeOK /\ Presigning /\ Attaching /\ ShownIsAttached /\ UrlsExpire
    /\ Sweeping /\ NoFanOut /\ ImageOwned /\ TrackedImageKept
    /\ NoUntrackedObject

\* A key is presigned once and written once: what is being reserved was never
\* anybody's, what is being written was never shown.
FirstUse ==
    /\ \A k \in Keys \ generated : presigner[k] = NoUser
    /\ \A r \in Requests : At(r, "reserve") => presigner[req[r].key] = NoUser
    /\ shown \subseteq attached
    /\ \A r \in Requests : At(r, "write") => req[r].key \notin shown

\* A request that is running acts for a user, with a purpose.
OnBehalf ==
    \A r \in Requests : ~At(r, "idle") =>
        req[r].user \in Users /\ req[r].purpose \in Purposes

ImageInv == UploadInv /\ FirstUse /\ OnBehalf

\* The images in a user's posts.
Posted == [u \in Users |-> {image[p] : p \in {q \in posts : author[q] = u}}]

\* The keys on the list of a ReleaseAbandoned that has not deleted yet.
Condemned == UNION {jan[j].keys : j \in {i \in Janitors : jan[i].pc = "rows"}}

\* The keys with an object in storage.
Stored == {k \in Keys : object[k] # "none"}

Images == INSTANCE ImageStore WITH
    owner <- presigner, use <- purpose, tracked <- rows, spent <- attached,
    stored <- Stored, posted <- Posted, profile <- avatar,
    condemned <- Condemned

\* Handlers, clients and janitors together are such a store: an upload is
\* issued, filled, spent and shown at most once each and in that order, by one
\* user, and only one that was picked before it was spent can be swept away.
ImplementsImageStore == Images!Spec

\* An upload nobody attaches is collected: its row goes, and its object too
\* unless a delete failed.
AbandonedCollected ==
    \A k \in Keys :
        (k \in rows /\ k \notin attached /\ created[k] + GCAfter < clock) ~>
            \/ k \in attached
            \/ k \notin rows /\ (object[k] = "none" \/ k \in leaked)

\* The contract: a key that is never attached to a resource is collected.  So
\* a key past the reach of the janitor (attached) and of every request must
\* have been written to a resource.
NeverAttachedIsCollectable ==
    \A k \in attached : k \in shown \/ InUse(k)

\* The comment on Constraints: minimum dimensions are enforced when the key is
\* attached.  So what storage holds at the instant of the claim meets the
\* purpose it is claimed for.
AttachedImageMeetsContract ==
    [][\A r \in Requests : At(r, "claim") /\ req'[r].pc = "write" =>
            Meets(object[req[r].key], req[r].purpose)]_vars
=============================================================================
