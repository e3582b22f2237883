# Verification of domieface-server

TLA+ models of the server's stateful parts, TLC runs that check them on small
instances, and TLAPS proofs of their safety properties for every instance.

## The system

domieface-server is a Go HTTP API for a small photo-sharing application. It may
run as several replicas over one PostgreSQL database and one S3 bucket. A
request is a goroutine; it calls the store with single SQL statements outside
any transaction, and object storage with single S3 calls. So between any two
calls of a request anything else may happen, and a request may die between any
two of them. A second store, in memory behind one mutex, serves the tests.

| part | state | operations | interacts with | hard about it |
|---|---|---|---|---|
| refresh-token sessions (`auth/session.go`, `store/postgres/tokens.go`) | `refresh_tokens` rows: family, owner, expiry, used, revoked | start, rotate, revoke, revoke all | janitor deletes rows; login and register start sessions | check-then-act over three statements, replays, lost responses |
| accounts (`api/auth_handlers.go`, `api/user_handlers.go`, `store/postgres/users.go`) | `users` rows | register, login, refresh, patch profile | starts and continues sessions; the avatar comes from uploads | racing registrations, three ways to a token, stale copy of the row in a patch |
| access tokens (`auth/tokens.go`, `api/middleware.go`) | none in the server; signed tokens held by clients | issue, authenticate | every protected route | dates cut to the second; two refusals that mean opposite things to the client |
| uploads (`api/upload_handlers.go`, `claimUpload`, `store/postgres/uploads.go`, `uploads/`) | `uploads` rows, objects in the bucket, `posts.image_key`, `users.avatar_key` | presign, PUT (by the client), inspect, claim, write, clear, delete | janitor; posts and profiles | a check on an object the client may replace, claim and write as two statements |
| janitor (`janitor/janitor.go`) | none | delete expired tokens, collect abandoned uploads | both tables and the bucket; one per replica | snapshot of a statement against concurrent claims, partial deletes |
| rate limiter and routing (`httpx/ratelimit.go`, `httpx/middleware.go`, `api/api.go`) | two limiters, a bucket per claimed address in each, in process | allow, reap | one in front of every route, `/healthz` included, a tighter one in front of the credential endpoints | rounding, forgetting a bucket, an address the client may choose, requests that overtake each other between the two |
| feed (`store/postgres/posts.go`, `store/cursor.go`) | `posts` rows; the cursor is the client's | page of the feed, page of a profile, create, delete | reads what posts and users write | pages of a list that changes meanwhile, equal timestamps |
| migrations (`store/postgres/postgres.go`) | `schema_migrations` rows and the schema | look, run and record each script | every replica at its start, on one database | check-then-act between replicas, crashes, lost commit answers, releases side by side |
| process lifecycle and keep-alive (`main.go`, `keepalive/`) | one process: main goroutine, listener, kept-alive connections, background goroutines, connection pool | start, serve, drain, stop | the platform restarts and probes it | ordering of the shutdown, timeouts, failures during start-up, requests that go on when the listener has died |
| health (`api/health.go`) | none | `/healthz`, `/readyz` | the platform's probes | an outage must not become a restart storm |
| configuration, JSON plumbing, docs | see "Not modelled" | | | |

What makes the parts correct: a refresh token is exchanged once and a session
that ended stays ended; identities are unique and rightful logins succeed; an
expired token is never taken for an invalid one; an upload is shown in one place,
by its owner, and is not collected while in use; what is abandoned is collected;
a client never exceeds its budget and can rely on `Retry-After`; scrolling
neither repeats nor skips; a migration takes effect once and before anyone serves
who needs it; a process that is told to stop stops, closes its store last, and
says so when it cut somebody off; the fleet comes back after faults.

## Modules

Each component module has its state as variables, one action per statement or
handler step, and its properties at the end. `MC*` modules add a symmetry set,
the `.cfg` files the constants. `*Proofs` modules hold the theorems. The
operators that stand directly before a definition and change it slightly
(`UnguardedMarkUsed` before `Consumable`, say) are deliberate mistakes:
substituting one for the definition must break the property `PROJECT.json` lists
with it.

**Sessions.** `stored` is the set of rows; `fam`, `owner`, `expires`, `used`,
`revoked` are their columns. `req[r]` is the program counter and the locals of a
request. `LookupMiss`/`LookupHit` are `ByHash` and the tests Rotate makes on the
copy it returns, `CheckExpiry` the expiry test (its clock is read after `ByHash`),
`MarkUsed` the guarded UPDATE, `RevokeFamily` what a replay, a lost race and a
logout have in common, `Mint` and `Insert` the two halves of `issue`, `Reply` the
arrival of the response, `Fail` the end of a request anywhere. `DeleteExpired`
is the janitor with a cutoff computed at any earlier instant. A token is
identified with its row: IDs, hashes and families are random and do not repeat.
`RevokeAllForUser` is an operation of the service no route calls yet. The logout
route also needs a valid access token; the model lets any holder of the refresh
token log out, which only adds behaviours.

**Rotation** is what Sessions promises: sessions that are opened and end, each with
a chain of tokens that grows only when its last token is spent, and nothing of
either once it is over. `Sessions!Chain` is the mapping: a session is open when its
family exists, over when it is `Dead` (no exchangeable row, no exchange in flight),
its chain is the family's minted tokens. Expiry, purging, lookups and revocations
are stutters or the end of a session.

**Accounts.** `users` is the set of rows, `email`, `username`, `hash`, `profile` their
columns; a profile is display name and bio. An address is a mailbox and a spelling (lower
case, mixed, malformed); `Email` normalises as `validate.Email` does. A password is a
secret and a size class, because 8–128 bytes are valid and bcrypt hashes at most 72;
passwords that bcrypt cannot tell apart (one of exactly 72 bytes and its extensions) count
as one. `Register` validates and hashes, `Create` is the INSERT with the two unique
indexes, `Lookup` the credentials query with the comparison (`Matches`), `Refresh` and
`Exchange` the refresh route, `StartSession` the signing of the access token in
`Service.issue`, which all three routes reach. The server keeps no access token: `known`
is what clients hold, and each stands for the refresh token of the same response too.
`Exchange` may accept or refuse any refresh token a client received (which of the two, and
that only once, is what Sessions is about) and refuses everything else, `Authenticate` the
middleware followed by the validation of the patch, `UpdateMe` the UPDATE of the columns
the body carried. Time is in ticks, several to a second, because `jwt.NewNumericDate`
keeps whole seconds; `Clocks` are what the replicas' clocks may show, at most `Skew`
apart, and signing and judging read any of them. `VerdictsApart` says what is left of
"kept strictly apart" (`README.md:322`) then: without skew a token we issued is never
called invalid, with skew at most for that long after its `nbf`, because the parser is
given no leeway. Nothing in the code deletes an account, so no action does.

**Uploads.** The table is `rows`, `attached`, `presigner`, `purpose`, `created`;
storage is `object`, what was last PUT under a key ("none", "junk", "medium" – big
enough for an avatar only – or "large"), and `urlUntil`. A request goes
`Presign`–`Reserve`–`Answer`, or `Attach`–`Inspect`–`Claim`–`CreatePost` or
`SetAvatar`. A janitor goes `SelectAbandoned`–`DeleteRows`–`DeleteObjects`: the
subselect of the DELETE reads its snapshot first, and rows changed meanwhile are
re-checked against `key IN (...)` only (READ COMMITTED). The memory store does
both in one step under its mutex, which is the special case in which nothing
happens between them. `DeleteObjects` may delete a part only. Posts without an
image touch nothing here and are left out.

**ImageStore** is what Uploads promises about an image, without requests, URLs or time: it
is issued to one user for one purpose, filled while it is tracked, spent once, shown once
by its owner and never again after it was withdrawn; a sweep condemns what is not spent,
untracks what it condemned, deletes what is not tracked. `Uploads!Images` is the mapping;
a claim that falls between the two halves of a sweep (finding 3) is a `Spend` of a
condemned image there, so the abstract store shows where that loss comes from.

**RateLimiter.** Buckets are pairs of a limiter and a client. A bucket counts in
units: a request costs 60, a second yields `PerMinute`, so the refill of
`perMinute/60` tokens per second is exact. `Grant` and `Refuse` are the two outcomes
of `Allow`. `OpenWindow` is an observer that starts counting, so that a bound on the
count is a bound over every window.

**TokenBucket** is a limiter without its map: every key has a bucket that was always there
and gains a little each second; a client sent away is told the first second that can pay.
`RateLimiter!Level` maps the level to what `Allow` would find now (`Refilled`), so
creating, refilling on demand and reaping are stutters.

**Gateway** extends it with the way of a request: `Arrive` (the chain up to the
limiter), `Limit` (the limiter around every route), `LimitCredentials` (the one
around register, login and refresh), `Respond`. Each `Allow` is a step of its own.
`ClientKey` is `ClientIP`: if `TRUST_PROXY_HEADER` says so the first entry of
X-Forwarded-For, otherwise or without one the peer's, which is the router for everybody.
A router appends to the header, so the first entry is what the client sent if it sent
any: a request has an owner (`client`) and an address it claims (`fwd`), and only for
probers are the two the same. All budgets are per claimed address; one client may have
many. Probers ask for `/healthz`, one request at a time, and rest for `Interval` after
each answer. They are assumed to have addresses of their own (which takes
`TRUST_PROXY_HEADER`, as `render.yaml` demands) and to rest for at least one request's
refill; nothing is assumed of the other clients. `ProbeServed` speaks of the probers
whose address nobody else has claimed (`borrowed`): whoever claims it shares the bucket.
`attempts`, `promise` and `borrowed` are history.

**Migrations** is `Store.Migrate` on several replicas, statement by statement. `step`
is the position in the sorted list of files; `work` is what the open transaction
has done; `booked`, `recorded` and `applied` are the database: whether
`schema_migrations` exists, its rows, and how often each script took effect. CREATE
TABLE IF NOT EXISTS is a look and an insertion into the catalogue, which fails if
another session was faster. The INSERT of the version waits for another's
uncommitted row and fails on a committed one. Locks the scripts themselves take
only remove interleavings and are left out. `Release` says how many files a
replica's binary embeds.

**Deployment** extends it with `run()`: `Main` is the main goroutine (`Start`, `Connect`,
Migrate's steps, `Wire`, the select, Shutdown, Wait, Close, `Exit`), and the listener, the
workers of the WaitGroup and the connections of clients have actions of their own. A
connection is accepted by the listener (`Accept`), brings one request after another
(`BeginRequest`, `Query`, `QueryAnswered`, `Respond`) and is kept alive between them until
somebody hangs up; a request on it needs neither the listener nor `run`. So when the
listener dies and `run` returns without `Shutdown`, requests go on beginning on the
connections that are left until the process is gone. `http.Server` is external and taken
at its documentation: `Shutdown` closes the socket and idle connections (`HungUp`), waits
until no connection is left and for Serve to have returned, and a server that is shutting
down closes a connection after its answer. A connection that slips in while Shutdown runs
is one of those it waits for. A worker in `Sweepers` (the janitor) and a handler may hold
a connection of the pool; `pool.Close` waits for those. `Fault` is at most `MaxFaults`
signals, crashes, outages, failing start-up steps, failing listeners and lost commit
answers; the platform that restarts processes and probes `/healthz` is external.

**Fleet** is what Deployment promises: a schema that advances one version at a time, each
script taking effect once; replicas that join when the schema holds all they need, accept
connections until they begin to leave, begin requests only on connections they hold, come
back only as new processes, and leave in peace only when they hold none, so that no request
is open and none can begin. `Deployment!Service` maps a replica's phase to its listener:
it is leaving once Serve has returned, whether through Shutdown or a failure.

**Feed.** A post is its position (created_at, id) and its author; a page is a set,
ordered by `Newer`. `NextPage` is one query for `limit + 1` rows. The reader's
`owed` and `got` are history: what was there when it began and was not deleted
since, and what it was shown.

Deployment's handlers and workers are what Sessions, Accounts, Uploads and Feed
detail: there a request or a sweep may end between any two statements, which is
what a crash, a closed pool or a cancelled context does to it. The components
share no table except `users` (of which Uploads keeps the avatar
column and Accounts the rest) and interact by identifiers only: a login ends in
`Sessions!Start`, a patch with an avatar in `Uploads!Attach`. So they are checked
side by side.

## Runs

| run | instance | shows |
|---|---|---|
| `sessions` | 2 requests, 3 tokens of 1 login, clock past expiry and retention, fair janitor | Sessions implements Rotation; one exchange per token; a revocation nobody overtakes ends the session; ended sessions stay ended; rows are kept until their retention is over, and go eventually |
| `sessions_revocation` (violation) | 2 requests | finding 1 |
| `accounts` | 2 requests, 2 mailboxes × 3 spellings, 2 usernames, 3 password sizes, clock past expiry, clocks a tick apart | unique identities, rightful logins accepted, nobody acts for another, no lost patch, verdicts apart |
| `accounts_long_password` (violation) | 1 request | finding 5 |
| `uploads_sweeps` | 2 requests, 2 users, 2 keys, 2 posts, 2 janitors, batches of 2 | no fan-out, owner and purpose respected, a row in the table keeps its object, no untracked object; Uploads implements ImageStore |
| `uploads_collect` | fair janitor, 2 keys, batches of 1 | abandoned keys are collected, batch after batch |
| `uploads_claim_lost`, `uploads_read_committed`, `uploads_overwrite` (violations) | 1 request, 1 key | findings 2, 3, 4 |
| `gateway` | 2 requests, a client and a probe behind the router, the client under the router's address or the probe's, 60 and 40 per minute, burst 1, reaping after 2 s | the budget of every window, once per budget for the credential handlers, Retry-After of either limiter kept by both, probes served unless their address was claimed; the limiters implement TokenBucket |
| `deployment` | 2 replicas of releases 1 and 2, 2 migrations, a janitor, a connection each, any 2 faults | migrations once and in order, schema before service, store closed last, honest exit status, outages restart nobody; signalled processes exit and the fleet ends up serving; Deployment implements Fleet |
| `feed_scroll` | 4 posts on 2 instants, pages of 1 and 2 | no repeat, no skip, pages only go down |

Bounds. Two requests are enough for every race between two handlers, and the proofs cover
more. Three tokens are a chain with a middle. In `sessions` fresh tokens are taken in one
fixed order (`TokensInOrder`): they are interchangeable, and unlike symmetry this is sound
for liveness. Durations are 0 to 2 ticks: only their order matters, and the clock passes
each of them (in `uploads_sweeps` both are 0: a URL lives for the tick it was signed in
and the grace is over in the next; `uploads_collect` has 1). In `gateway` the refill of
40/60 per second makes every credential wait inexact, so rounding matters, and with burst
1 every bucket empties; windows are opened on the credential budget of the client only
(`WindowsOfWatched`), and behaviours in which the client claimed the probe's address are
followed for one second (`Headers`); the theorems have windows, addresses and times
without bound; three seconds are enough to empty a bucket, be sent away, be reaped and
come back. In `deployment` two faults are one against each replica, or one during the
recovery from another; one worker that sweeps and one connection that queries have every
state the theorem's many have; two releases make an older replica start beside a newer and
after it. Two instants with four posts put a page boundary between posts of one instant.
With one text in `accounts` a bio still changes between that text and empty, which a lost
patch shows; the theorem covers the rest. Identifiers are finite sets, so a model stops
issuing when they run out; no run ends in a deadlock because the janitor, the clock or the
clients can still move. In `gateway` alone deadlock is impossible for another reason: an
observer may always open a window. Symmetry is used in the safety runs only: the permuted
sets are compared by equality and nothing else.

Fairness. `Sessions!FairSpec` asks that the janitor's delete happens if it has
something to do: `Run` sweeps once an hour for as long as the process lives.
`Uploads!FairSpec` asks the same of the selection, and strong fairness of the row
delete because a failing statement drops the batch and the next sweep selects it
again: a database that answers infinitely often deletes eventually. Of the object
delete only that it is tried; it may fail, then the key counts as leaked, which
is what the code accepts. Nothing is asked of clients or requests there.
`Deployment!Fairness` asks that goroutines that can run do run (the Go scheduler), that
statements end (sweeps have a deadline of two minutes, the database answers or its
connection breaks), that outages end and processes are started again. It is weak
except for a worker's `case <-ctx.Done()`: the ticker may be ready as well, Go's select
chooses at random among ready cases, and a choice open infinitely often is taken. It
asks nothing of clients, and not that a handler ever returns: `SignalledExits` holds
because Shutdown has a deadline. `FleetServes` is not vacuous: faults are bounded, but
they may come at any point of any start-up.

## Findings

1. *Revocation* (`sessions_revocation`): a refresh already past its lookup survives
   the revocation of its family, because `MarkUsed` does not read `revoked_at` and
   the successor is inserted afterwards. It stays exchangeable after a detected
   replay, although the contract (`openapi.yaml:29`) says every descendant is
   revoked, and after a logout, although the comment at `session.go:110` says
   logging out ends the session.
2. *Lost claim* (`uploads_claim_lost`): if the write after a claim fails, the key is
   attached to nothing and out of the janitor's reach (`openapi.yaml:313`).
3. *Read committed* (`uploads_read_committed`): an upload claimed while
   `ReleaseAbandoned` runs is deleted although it is in use (`store.go:179`). It
   needs an upload claimed at the end of its grace of 24 hours.
4. *Overwrite* (`uploads_overwrite`): the inspected object can be replaced before
   the claim, so the dimensions are not enforced at attachment
   (`constraints.go:23`).
5. *Long passwords* (`accounts_long_password`): 73 to 128 bytes pass validation and
   end in INTERNAL_ERROR (`openapi.yaml:819`).

Met on the way, outside any run: `README.md:129` and `openapi.yaml:469` say `/healthz`
is always 200, but it is behind the first limiter and answers 429 to a prober over its
budget or sharing a bucket; `ProbeServed` states when it does not. `middleware.go:140` says
`ClientIP` consults X-Forwarded-For only behind a proxy we control, "otherwise a client could
forge the header and dodge rate limiting"; behind a proxy that appends a client can too,
because the first entry is taken and not the one the proxy added. `keepalive.go:5`
says the self-ping runs a database ping; the default URL is `/healthz`, which touches no
dependency. `config.go:75` says anything but development is treated as production, but
`IsProduction` (used for logging) tests for that very word.

`RevocationEndsSession` and `DeadStaysDead` bound the first: it needs an exchange in flight.
Without one a revocation ends the session, and a session that ended stays ended.

## Proofs

Proved with TLAPS for every value of the constants that satisfies the named
assumptions (identifiers differ from the null values, durations are naturals,
`PresignTTL <= GCAfter`, a bucket idle long enough to be reaped has refilled, the API
budget is at least a request a second, probers rest).

**SessionsProofs.** `ChainInv` is inductive. `OneSpendable` alone is not: a request
about to mint could add a second unspent token. The strengthening `IssuerAlone`
says whoever is at `issue` has its family to itself – every token of it spent,
no other request at `issue` for it, no successor of the consumed token – and
`LocalsAgree` that the family a request carries is that of its token. `MarkUsed`
establishes it from `OneSpendable`: the token just consumed was the only unspent
one. `NoDoubleExchange`, `RetentionHolds` (`RetentionSafety`) and `DeadStaysDead`
(`NoRevival`, an action property proved per step) follow from the same invariant.
`RevocationEffective`: a logout, a detected replay or `RevokeAllForUser` that no pending
exchange overtakes leaves no exchangeable row of the session, because the UPDATE takes
every row of the family and nobody is about to insert one.

**SessionsRefinement.** `RotationImplemented`: Init maps to Init, and under `ChainInv` every
step maps to `Open`, `Spend`, `Extend`, `End` or a stutter. `MarkUsed` spends the one
unspent token of a session that is not over, `Mint` extends a chain whose tokens are all
spent (`IssuerAlone`), and no step takes a session out of `over` (`DeadStaysDead`).

**UploadsProofs.** `UploadInv` is inductive. `NoFanOut` needs
`Attaching` (a key between claim and write is in no resource and held by no other
request) and `ShownIsAttached`; `NoUntrackedObject` needs `UrlsExpire` (no URL
outlives the row, from `PresignTTL <= GCAfter`) and `Presigning`;
`TrackedImageKept` needs `Sweeping` (objects are deleted after their rows).
`ImageStoreImplemented`: every step maps to a step of ImageStore or to none. It needs two
more facts (`ImageInv`): what is being reserved was never anybody's and what is being
written was never shown (`FirstUse`), and a running request acts for a user, with a
purpose (`OnBehalf`).

**RateLimiterProofs.** `BudgetInv` adds to what was granted what the bucket now
offers; a grant moves units from one to the other, time adds to both sides, and
reaping changes nothing because of `ReapAssumption`. `PromiseInv` says that at the
instant a Retry-After named the bucket holds a request's worth. `BucketsImplemented`: the
limiters implement TokenBucket. A second adds the rate to what `Allow` would find, up to
the capacity (`TickFills`); an idle bucket is full, so dropping it changes nothing
(`ReapFull`); the wait is enough (`WaitSuffices`) and one second less is not (`WaitLeast`).

**GatewayProofs.** `LimitersImplemented`: every step of the gateway is one of the limiters
or leaves them alone, so each bucket keeps its budget there too and to a client it is one
that is always there (`GatewayBuckets`). `GatewayInv` adds that
the credential handlers ran once per grant of the second limiter (`AttemptsGranted`),
that its promises are covered by the first (`PromiseCovered`, from the assumption that
the first refills a request a second), and that the bucket of a prober whose address nobody
claimed was last used an `Interval` before its next probe (`Spaced`, which also says that
only the prober's own request in flight carries that address). `CredentialBudget`, `ProbeServed` and
`PatientServed` follow.

**DeploymentProofs.** `DeployInv`. `AppliedOnce` alone is not inductive: two replicas could
both be about to commit one version. `InTransaction` says that an uncommitted row is held by
one replica and is of a version not yet recorded, that a transaction contains what its
program counter says, and that everything before a replica's position is recorded, which
gives `InOrder` and, at the end of the loop, `SchemaReady`. `InStep` ties the main goroutine
to what it launched and to what they reported, from which `ClosedLast` and `CleanExit`
follow. `OutageSafety` is an action property. `FleetImplemented`: a commit is the only step that
advances the schema, the launch of the listener is `Join`, its return `Leave`, and a process
that is gone takes its connections with it; status 0 is in peace because `InStep` knows that
Shutdown waited for the listener and for every connection, and that none was accepted since.

**FeedProofs.** `ScrollInv`: the cursor separates what was given from what is owed
(`CursorSeparates`); the newest `n` rows after it, with the oldest of them as the
new cursor, keep it so because `Newer` is a total order. `DescentSafety` is an action
property from it: what matches is older than the cursor, and nothing given is.

**AccountsProofs.** `AccountInv`: stored addresses are lower case, so equal
mailboxes are equal columns and the unique index speaks of every spelling; a
rightful login has its row at the lookup; tokens name accounts and their dates
are cut by less than a second. `VerdictSafety` is an action property from it, and so is
`OwnerSafety`: whom `StartSession` signs for was settled by the address and password or by
the refresh token of the same request (`Sound`), whom `UpdateMe` writes by its access token,
whatever happened in between.

Only model-checked: the liveness properties (`ExpiredEventuallyPurged`,
`AbandonedCollected`, `SignalledExits`, `FleetServes`), out of the prover's reach, and
the refutations.

## Not modelled

- Configuration: a pure function of the environment, read once; its defaults are
  assumptions on constants, its failure is a start that fails. It does not reject
  `PRESIGN_TTL > UPLOAD_GC_AFTER`, `RATE_LIMIT_PER_MIN < 60` or `SELF_PING_INTERVAL <= 0`
  (which makes `time.NewTicker` panic in the goroutine at every start).
- Request ids, logging, JSON shapes, docs, build information: stateless. Preflights
  are answered before any limiter.
- `/readyz` is a handler that queries; taking an instance out of rotation is the load
  balancer's part. What the migration scripts do inside their transactions.
- A limiter is per process: with several replicas a client has a budget at each.
- Cryptography (bcrypt, JWT signatures, hashes), SQL and S3 themselves: external,
  as the code uses them. Identifiers are fresh.
- Clock skew outside Accounts: refresh tokens, sweeps and limiters have one clock.
- Floating-point error in the rate limiter; milliseconds in `jsontime`.

## Plan

Done: Sessions with Rotation, Uploads, RateLimiter with Gateway, Feed, Accounts,
Migrations with Deployment; runs; proofs of every safety property; Rotation,
ImageStore, TokenBucket and Fleet implemented, and LimiterSpec by the gateway.

Left: a composition of Accounts and Sessions (logout with both tokens, what an access token
still allows after logout).
