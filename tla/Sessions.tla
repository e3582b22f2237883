------------------------------ MODULE Sessions ------------------------------
(***************************************************************************)
(* The refresh-token lifecycle of auth.Service (internal/auth/session.go)  *)
(* over the refresh_tokens table (internal/store/postgres/tokens.go), as   *)
(* driven by the /v1/auth handlers and the janitor.                        *)
(*                                                                         *)
(* Every HTTP request is a process.  Each store call is one SQL statement  *)
(* outside any transaction, hence one atomic step; between two calls any   *)
(* other request, the janitor or the clock may move, and the request may   *)
(* fail (database error, cancelled context, crash, lost response).         *)
(***************************************************************************)
EXTENDS Integers

CONSTANTS
    Requests,    \* concurrent HTTP requests, on any replica
    Users,       \* accounts whose credentials log in successfully
    Tokens,      \* refresh tokens NewRefreshToken may generate
    Families,    \* family IDs store.NewID may generate
    NoToken,     \* a presented string no row matches; also "no token yet"
    NoFamily,    \* local family ID before it is known
    NoUser,      \* local user ID before it is known
    RefreshTTL,  \* Service.refreshTTL
    Retention,   \* how long past expiry the janitor keeps a row (7 days)
    MaxTime      \* bound on the clock

ASSUME TokenAssumption == NoToken \notin Tokens
ASSUME FamilyAssumption == NoFamily \notin Families
ASSUME TimeAssumption ==
    RefreshTTL \in Nat /\ Retention \in Nat /\ MaxTime \in Nat

VARIABLES
    clock,       \* time.Now() of every replica
    \* the refresh_tokens table
    stored,      \* the rows present, identified with their tokens
    fam,         \* family_id
    owner,       \* user_id
    expires,     \* expires_at
    used,        \* tokens whose used_at was set
    revoked,     \* tokens whose revoked_at was set
    \* identifiers handed out, never repeated
    minted,      \* tokens NewRefreshToken has returned
    families,    \* family IDs Start has allocated
    \* the handlers in flight and what clients know
    req,         \* request -> its program counter and locals
    delivered,   \* tokens that reached a client (and whoever copied them)
    \* history, read by properties only
    parent,      \* the token whose exchange minted this one
    ended        \* families a completed replay detection or logout revoked

table == <<stored, fam, owner, expires, used, revoked>>
ids == <<minted, families>>
history == <<parent, ended>>
vars == <<clock, table, ids, req, delivered, history>>

-----------------------------------------------------------------------------
\* The local state of a request.

Steps == {"idle", "lookup", "check", "consume", "revoke",
          "issue", "insert", "reply"}
Ops == {"none", "start", "refresh", "logout"}

Request == [pc : Steps, op : Ops, tok : Tokens \cup {NoToken},
            fam : Families \cup {NoFamily}, user : Users \cup {NoUser},
            out : Tokens \cup {NoToken}]

Idle == [pc |-> "idle", op |-> "none", tok |-> NoToken,
         fam |-> NoFamily, user |-> NoUser, out |-> NoToken]

At(r, pc) == req[r].pc = pc
Goto(r, pc) == req' = [req EXCEPT ![r].pc = pc]
Return(r) == req' = [req EXCEPT ![r] = Idle]

Init ==
    /\ clock = 0
    /\ stored = {} /\ used = {} /\ revoked = {}
    /\ fam = [t \in Tokens |-> NoFamily]
    /\ owner = [t \in Tokens |-> NoUser]
    /\ expires = [t \in Tokens |-> 0]
    /\ minted = {} /\ families = {}
    /\ req = [r \in Requests |-> Idle]
    /\ delivered = {}
    /\ parent = [t \in Tokens |-> NoToken]
    /\ ended = {}

-----------------------------------------------------------------------------
\* Predicates of the table.

\* MarkUsed's WHERE id = $1 AND used_at IS NULL: revoked_at is not read.
UnguardedMarkUsed(t) == t \in stored
Consumable(t) == t \in stored /\ t \notin used

\* Rotate's RevokedAt test, made on the row ByHash returned.
ForgottenRevocation(t) == FALSE
SeenRevoked(t) == t \in revoked

\* Rotate's !now.Before(token.ExpiresAt).
Expired(t) == clock >= expires[t]

\* RevokeFamily's WHERE family_id = $1.
UsedRows(f) == {t \in stored \cap used : fam[t] = f}
FamilyRows(f) == {t \in stored : fam[t] = f}

\* DeleteExpired's WHERE expires_at < now - 7 days.
PurgedAtExpiry(t, now) == expires[t] < now
PurgedOnlyIfUsed(t, now) == t \in used /\ expires[t] + Retention < now
Purgeable(t, now) == expires[t] + Retention < now

\* RefreshToken.Active, on a row of the table.
Active(t) == t \in stored /\ t \notin used /\ t \notin revoked /\ ~Expired(t)

-----------------------------------------------------------------------------
\* Requests arrive.

\* Register or login got as far as Service.Start: a new family for user u.
Start(r, u) ==
    /\ At(r, "idle")
    /\ \E f \in Families \ families :
        /\ families' = families \cup {f}
        /\ req' = [req EXCEPT ![r] = [Idle EXCEPT !.pc = "issue",
                        !.op = "start", !.fam = f, !.user = u]]
    /\ UNCHANGED <<clock, table, minted, delivered, history>>

\* POST /v1/auth/refresh or /logout with a token some client once received,
\* or with a string that was never a token.
Present(r, t, op) ==
    /\ At(r, "idle")
    /\ req' = [req EXCEPT ![r] =
                    [Idle EXCEPT !.pc = "lookup", !.op = op, !.tok = t]]
    /\ UNCHANGED <<clock, table, ids, delivered, history>>

-----------------------------------------------------------------------------
\* The body of Rotate and Revoke, one store call per step.

\* ByHash finds no row: ErrTokenInvalid for refresh, success for logout.
LookupMiss(r) ==
    /\ At(r, "lookup")
    /\ req[r].tok \notin stored
    /\ Return(r)
    /\ UNCHANGED <<clock, table, ids, delivered, history>>

\* ByHash returns the row.  Rotate then tests used_at, then revoked_at, of
\* that copy; Revoke goes on to RevokeFamily whatever they say.
LookupHit(r) ==
    /\ At(r, "lookup")
    /\ LET t == req[r].tok
           row(pc) == [req[r] EXCEPT !.pc = pc, !.fam = fam[t],
                                     !.user = owner[t]]
       IN /\ t \in stored
          /\ \/ /\ req[r].op = "logout" \/ t \in used
                /\ req' = [req EXCEPT ![r] = row("revoke")]
             \/ /\ req[r].op = "refresh" /\ t \notin used
                /\ SeenRevoked(t)
                /\ Return(r)
             \/ /\ req[r].op = "refresh" /\ t \notin used
                /\ ~SeenRevoked(t)
                /\ req' = [req EXCEPT ![r] = row("check")]
    /\ UNCHANGED <<clock, table, ids, delivered, history>>

\* The expiry test, against the clock read after ByHash returned.
CheckExpiry(r) ==
    /\ At(r, "check")
    /\ IF Expired(req[r].tok) THEN Return(r) ELSE Goto(r, "consume")
    /\ UNCHANGED <<clock, table, ids, delivered, history>>

\* MarkUsed: the winner goes on to issue; whoever finds no row left to
\* update is treated as a replay.
MarkUsed(r) ==
    /\ At(r, "consume")
    /\ \/ /\ Consumable(req[r].tok)
          /\ used' = used \cup {req[r].tok}
          /\ Goto(r, "issue")
       \/ /\ ~Consumable(req[r].tok)
          /\ used' = used
          /\ Goto(r, "revoke")
    /\ UNCHANGED <<clock, stored, fam, owner, expires, revoked, ids,
                   delivered, history>>

\* RevokeFamily, for a replay or a logout; then the handler answers.
RevokeFamily(r) ==
    /\ At(r, "revoke")
    /\ revoked' = revoked \cup FamilyRows(req[r].fam)
    /\ ended' = ended \cup {req[r].fam}
    /\ Return(r)
    /\ UNCHANGED <<clock, stored, fam, owner, expires, used, ids, delivered,
                   parent>>

\* issue: generate the token and fix its expiry from the clock ...
Mint(r) ==
    /\ At(r, "issue")
    /\ \E t \in Tokens \ minted :
        /\ minted' = minted \cup {t}
        /\ fam' = [fam EXCEPT ![t] = req[r].fam]
        /\ owner' = [owner EXCEPT ![t] = req[r].user]
        /\ expires' = [expires EXCEPT ![t] = clock + RefreshTTL]
        /\ parent' = [parent EXCEPT ![t] = req[r].tok]
        /\ req' = [req EXCEPT ![r].pc = "insert", ![r].out = t]
    /\ UNCHANGED <<clock, stored, used, revoked, families, delivered,
                   ended>>

\* ... then INSERT the row, with used_at and revoked_at null.
Insert(r) ==
    /\ At(r, "insert")
    /\ stored' = stored \cup {req[r].out}
    /\ Goto(r, "reply")
    /\ UNCHANGED <<clock, fam, owner, expires, used, revoked, ids, delivered,
                   history>>

\* The refresh token toAuthResponse puts in the body.
Answer(r) == req[r].out

\* The handler's last read of the user succeeds and the client receives the
\* response.
Reply(r) ==
    /\ At(r, "reply")
    /\ delivered' = delivered \cup {Answer(r)}
    /\ Return(r)
    /\ UNCHANGED <<clock, table, ids, history>>

\* A request stops anywhere: a store error, a cancelled context, a crashed
\* replica, a response that never arrives.  What it wrote stays written.
Fail(r) ==
    /\ ~At(r, "idle")
    /\ Return(r)
    /\ UNCHANGED <<clock, table, ids, delivered, history>>

-----------------------------------------------------------------------------
\* Everything else that touches the table, and time.

\* The janitor's deleteExpiredTokens.  The cutoff is computed before the
\* statement runs, so it may be older than the clock.
DeleteExpired ==
    /\ \E now \in 0..clock :
        stored' = stored \ {t \in stored : Purgeable(t, now)}
    /\ UNCHANGED <<clock, fam, owner, expires, used, revoked, ids, req,
                   delivered, history>>

\* Service.RevokeAllForUser.
RevokeAllForUser(u) ==
    /\ revoked' = revoked \cup {t \in stored : owner[t] = u}
    /\ UNCHANGED <<clock, stored, fam, owner, expires, used, ids, req,
                   delivered, history>>

Tick ==
    /\ clock < MaxTime
    /\ clock' = clock + 1
    /\ UNCHANGED <<table, ids, req, delivered, history>>

Handle(r) ==
    \/ LookupMiss(r) \/ LookupHit(r) \/ CheckExpiry(r) \/ MarkUsed(r)
    \/ RevokeFamily(r) \/ Mint(r) \/ Insert(r) \/ Reply(r)

Next ==
    \/ \E r \in Requests, u \in Users : Start(r, u)
    \/ \E r \in Requests, t \in delivered \cup {NoToken} :
        Present(r, t, "refresh") \/ Present(r, t, "logout")
    \/ \E r \in Requests : Handle(r) \/ Fail(r)
    \/ \E u \in Users : RevokeAllForUser(u)
    \/ DeleteExpired
    \/ Tick

Spec == Init /\ [][Next]_vars

\* janitor.Run sweeps on a ticker for as long as the process lives.
FairSpec == Spec /\ WF_vars(DeleteExpired)

-----------------------------------------------------------------------------
\* Properties.

\* Every variable keeps its type; rows, marks and deliveries concern only
\* tokens that were generated.
TypeOK ==
    /\ clock \in Nat
    /\ minted \subseteq Tokens
    /\ stored \subseteq minted
    /\ used \subseteq minted
    /\ revoked \subseteq minted
    /\ delivered \subseteq minted
    /\ families \subseteq Families
    /\ fam \in [Tokens -> Families \cup {NoFamily}]
    /\ owner \in [Tokens -> Users \cup {NoUser}]
    /\ expires \in [Tokens -> Nat]
    /\ parent \in [Tokens -> Tokens \cup {NoToken}]
    /\ ended \subseteq Families \cup {NoFamily}
    /\ req \in [Requests -> Request]

\* However refreshes, retries and failures interleave, at most one token of a
\* login's family was never consumed: the head of the rotation chain.
OneSpendable ==
    \A s, t \in minted :
        fam[s] = fam[t] /\ s \notin used /\ t \notin used => s = t

\* A refresh token is exchanged at most once: of the requests that race on it
\* only one obtains a successor.
NoDoubleExchange ==
    \A s, t \in minted : parent[s] = parent[t] /\ parent[s] # NoToken => s = t

\* A token some client received is still a row until a week past its expiry,
\* so replaying it meets the family check and not an unknown-token answer.
RetentionHolds ==
    \A t \in delivered : clock <= expires[t] + Retention => t \in stored

\* What the requests in flight know is still true: the family they carry is
\* the one of the token they looked up, and of the token they generated.
LocalsAgree ==
    \A r \in Requests :
        /\ req[r].pc \in {"check", "consume", "issue"} /\ req[r].tok # NoToken
            => req[r].tok \in minted /\ req[r].fam = fam[req[r].tok]
        /\ req[r].pc \in {"check", "consume"} => req[r].tok # NoToken
        /\ At(r, "issue") => req[r].fam \in families
        /\ At(r, "insert") => /\ req[r].out \in minted
                              /\ req[r].fam = fam[req[r].out]
        /\ At(r, "reply") =>
            /\ req[r].out \in minted
            /\ \/ req[r].out \in stored
               \/ clock > expires[req[r].out] + Retention

\* Every generated token is in an allocated family and its parent was spent.
Lineage ==
    \A t \in minted :
        /\ fam[t] \in families
        /\ parent[t] # NoToken => parent[t] \in used

\* A request about to generate a token has its family to itself: every token
\* of it is spent, nobody else is generating one, and the token it consumed
\* has no successor yet.
IssuerAlone ==
    \A r \in Requests : At(r, "issue") =>
        /\ \A t \in minted : fam[t] = req[r].fam => t \in used
        /\ \A s \in Requests :
            At(s, "issue") /\ req[s].fam = req[r].fam => s = r
        /\ req[r].tok # NoToken =>
            req[r].tok \in used /\ \A t \in minted : parent[t] # req[r].tok

\* The inductive invariant: one statement of who may extend a rotation chain,
\* from which single use, single successor and retention follow.
ChainInv ==
    /\ TypeOK /\ LocalsAgree /\ Lineage /\ IssuerAlone
    /\ OneSpendable /\ NoDoubleExchange /\ RetentionHolds

\* A request holds an earlier look at family f and may still extend it.
Pending(r, f) ==
    /\ req[r].fam = f
    /\ \/ req[r].pc \in {"consume", "issue", "insert"}
       \/ At(r, "check") /\ ~Expired(req[r].tok)

\* The session of family f is over: nothing can be exchanged, nothing is on
\* its way.
Dead(f) ==
    /\ f \in families
    /\ \A t \in minted : fam[t] = f => ~Active(t)
    /\ \A r \in Requests : ~Pending(r, f)

\* Nothing revives a session: once a family has no exchangeable token and no
\* exchange in flight, no sequence of refreshes, replays, logouts and sweeps
\* produces another token in it.
DeadStaysDead ==
    [][\A f \in Families : Dead(f) => Dead(f)']_vars

\* A revocation of family f completes while no exchange of it is in flight.
QuietlyRevoked(f) ==
    /\ f \in families
    /\ \A r \in Requests : ~Pending(r, f)
    /\ \/ \E r \in Requests : req[r].fam = f /\ RevokeFamily(r)
       \/ \E u \in Users : /\ \A t \in minted : fam[t] = f => owner[t] = u
                          /\ RevokeAllForUser(u)

\* Logout, replay detection and RevokeAllForUser end the session they are
\* about, all of it: only an exchange already past its look at the row can
\* carry a session over its revocation.
RevocationEndsSession ==
    [][\A f \in Families : QuietlyRevoked(f) => Dead(f)']_vars

Chain == INSTANCE Rotation WITH
    opened <- families,
    over <- {f \in families : Dead(f)},
    chain <- [f \in Families |-> {t \in minted : fam[t] = f}],
    spent <- used

\* The statements of all requests, interleaved and failing, implement the
\* rotation chain: every step is one of Rotation's or changes nothing of it.
ImplementsRotation == Chain!Spec

\* Rows do not accumulate: once past expiry and retention a token leaves the
\* table, although the janitor's cutoff may lag behind the clock.
ExpiredEventuallyPurged ==
    \A t \in Tokens :
        (t \in stored /\ clock > expires[t] + Retention) ~> (t \notin stored)

\* The contract: presenting an already-used refresh token revokes every token
\* descended from that login; and the comment in Revoke: logging out ends the
\* session, not just the credential presented.  So once RevokeFamily has
\* answered, no row of that family can be exchanged.
RevocationIsFinal ==
    \A t \in stored : fam[t] \in ended => ~Active(t)
=============================================================================
