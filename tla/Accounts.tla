------------------------------ MODULE Accounts ------------------------------
(***************************************************************************)
(* Accounts and who may act for them: registration, login and refresh      *)
(* (internal/api/auth_handlers.go), the users table, the access tokens of  *)
(* internal/auth/tokens.go as the authenticate middleware judges them, and *)
(* the partial profile update of PATCH /v1/users/me.  When a refresh token *)
(* can be exchanged is in Sessions, the avatar of the update in Uploads.   *)
(*                                                                         *)
(* Requests are processes; each store call is one statement, one step.     *)
(* Time is in ticks, several to the second, because a JWT keeps whole      *)
(* seconds while the response announces the expiry more finely.  Replicas  *)
(* have clocks of their own: one signs a token, another judges it.         *)
(***************************************************************************)
EXTENDS Integers

CONSTANTS
    Requests,
    Ids,                 \* user IDs store.NewID may generate
    Mailboxes, Forms,    \* an address, and how a client spells it
    Usernames,           \* well-formed usernames
    Secrets, Sizes,      \* a password, and how long it is
    Texts,               \* display names and bios clients send
    Absent, Null,        \* a JSON field left out, and one that is null
    Empty,               \* the empty bio
    None,                \* a local or column not set yet
    TicksPerSecond, AccessTTL,
    Skew,                \* how far the clocks of replicas are apart at most
    MaxTime              \* bound on the clock

\* "mixed" differs from the stored address in case or spaces only.  "fits" is
\* 8 to 72 bytes, "long" 73 to 128, "outside" shorter or longer than that.
\* Passwords bcrypt cannot tell apart, equal in their first 72 bytes, are one.
Address == [box : Mailboxes, form : {"lower", "mixed", "malformed"}]
Password == [secret : Secrets, size : {"outside", "fits", "long"}]
Optional == Texts \cup {Absent, Null}
Patch == [name : Optional, bio : Optional]
Profile == [name : Texts, bio : Texts \cup {Empty}]
AccessToken == [user : Ids, nbf : Nat, exp : Nat, announced : Nat]

ASSUME InputAssumption ==
    /\ Forms \subseteq {"lower", "mixed", "malformed"}
    /\ Sizes \subseteq {"outside", "fits", "long"}
    /\ Absent \notin Texts /\ Null \notin Texts /\ Absent # Null
ASSUME NoneAssumption == None \notin Ids /\ None \notin AccessToken
ASSUME TickAssumption ==
    /\ TicksPerSecond \in Nat \ {0} /\ AccessTTL \in Nat
    /\ Skew \in Nat /\ MaxTime \in Nat

VARIABLES
    clock,       \* the fastest replica's
    \* the users table
    users,       \* IDs with a row
    email, username, hash, profile,
    known,       \* access tokens clients received, each with the refresh
                 \* token of the same response; the server keeps none
    req,         \* request -> program counter, locals and answer
    \* history
    sent         \* what the last request carrying a profile field gave it

table == <<users, email, username, hash, profile>>
vars == <<clock, table, known, req, sent>>

-----------------------------------------------------------------------------
\* The local state of a request; at "exchange" its token stands for the refresh
\* token received with it.  The field entitled is history: the credentials
\* were those of an account when the request arrived.
Codes == {"none", "OK", "VALIDATION_FAILED", "CONFLICT",
          "INVALID_CREDENTIALS", "TOKEN_EXPIRED", "TOKEN_INVALID", "INTERNAL_ERROR"}

Request == [pc : {"idle", "create", "lookup", "exchange", "start", "auth",
                  "update", "reply"},
            code : Codes, user : Ids \cup {None},
            email : Address \cup {None}, username : Usernames \cup {None},
            password : Password \cup {None}, patch : Patch,
            me : Profile \cup {None}, token : AccessToken \cup {None},
            entitled : BOOLEAN]

NoPatch == [name |-> Absent, bio |-> Absent]

Idle == [pc |-> "idle", code |-> "none", user |-> None, email |-> None,
         username |-> None, password |-> None, patch |-> NoPatch,
         me |-> None, token |-> None, entitled |-> FALSE]

At(r, pc) == req[r].pc = pc
Answer(r, code) ==
    req' = [req EXCEPT ![r] = [Idle EXCEPT !.pc = "reply", !.code = code,
                                           !.entitled = req[r].entitled]]

Init ==
    /\ clock = 0
    /\ users = {}
    /\ email = [i \in Ids |-> None]
    /\ username = [i \in Ids |-> None]
    /\ hash = [i \in Ids |-> None]
    /\ profile = [i \in Ids |-> None]
    /\ known = {}
    /\ req = [r \in Requests |-> Idle]
    /\ sent = [i \in Ids |-> None]

-----------------------------------------------------------------------------
\* What the code computes.

\* validate.Email: trimmed and lower-cased, whether or not it is an address.
CaseKept(a) == a
Email(a) == [box |-> a.box, form |-> IF a.form = "mixed" THEN "lower" ELSE a.form]

\* The checks of handleRegister; username and display name are well formed.
ValidRegistration(a, p) ==
    Email(a).form = "lower" /\ p.size \in {"fits", "long"}

\* bcrypt.GenerateFromPassword refuses more than 72 bytes.
Hashable(p) == p.size # "long"

\* The unique indexes of the users table.
EmailTaken(a) == \E i \in users : email[i] = a
UsernameFree(n) == FALSE
UsernameTaken(n) == \E i \in users : username[i] = n

\* VerifyPassword of what a request sent against the row its address finds.
AnyPassword(i, q) == email[i] = q.email
Matches(i, q) == email[i] = q.email /\ hash[i] = q.password

\* JWT dates are whole seconds.
Truncated(t) == t - (t % TicksPerSecond)

\* What time.Now may return to the replica that runs a step.
Clocks == {now \in 0..clock : now + Skew >= clock}

\* IssueAccess.
Signed(u, now) == [user |-> u, nbf |-> Truncated(now),
                   exp |-> Truncated(now + AccessTTL),
                   announced |-> now + AccessTTL]

\* authenticate: a header that is no token of ours, ParseAccess, and a token
\* whose account does not exist.
InvalidOnceExpired(t, now) ==
    IF t = None \/ now >= t.exp \/ now < t.nbf THEN "TOKEN_INVALID" ELSE "OK"
Verdict(t, now) ==
    IF t = None THEN "TOKEN_INVALID"
    ELSE IF now >= t.exp THEN "TOKEN_EXPIRED"
    ELSE IF now < t.nbf \/ t.user \notin users THEN "TOKEN_INVALID"
    ELSE "OK"

\* The row after Users().Update: only the columns the body carried.  me is the
\* copy authenticate loaded, which the update does not use.
WholeRow(row, me, p) ==
    [name |-> IF p.name = Absent THEN me.name ELSE p.name,
     bio |-> IF p.bio = Absent THEN me.bio
             ELSE IF p.bio = Null THEN Empty ELSE p.bio]
Updated(row, me, p) ==
    [name |-> IF p.name = Absent THEN row.name ELSE p.name,
     bio |-> IF p.bio = Absent THEN row.bio
             ELSE IF p.bio = Null THEN Empty ELSE p.bio]

-----------------------------------------------------------------------------
\* POST /v1/auth/register.

\* Validation, then HashPassword.
Register(r, a, n, p, text) ==
    /\ At(r, "idle")
    /\ \/ /\ ~ValidRegistration(a, p)
          /\ Answer(r, "VALIDATION_FAILED")
       \/ /\ ValidRegistration(a, p) /\ ~Hashable(p)
          /\ Answer(r, "INTERNAL_ERROR")
       \/ /\ ValidRegistration(a, p) /\ Hashable(p)
          /\ req' = [req EXCEPT ![r] =
                [Idle EXCEPT !.pc = "create", !.email = Email(a),
                   !.username = n, !.password = p,
                   !.patch = [name |-> text, bio |-> Absent]]]
    /\ UNCHANGED <<clock, table, known, sent>>

\* Users().Create: the insert succeeds or violates a unique index.
Create(r) ==
    /\ At(r, "create")
    /\ \/ /\ EmailTaken(req[r].email) \/ UsernameTaken(req[r].username)
          /\ Answer(r, "CONFLICT")
          /\ UNCHANGED <<table, sent>>
       \/ /\ ~EmailTaken(req[r].email) /\ ~UsernameTaken(req[r].username)
          /\ \E i \in Ids \ users :
              LET new == [name |-> req[r].patch.name, bio |-> Empty]
              IN /\ users' = users \cup {i}
                 /\ email' = [email EXCEPT ![i] = req[r].email]
                 /\ username' = [username EXCEPT ![i] = req[r].username]
                 /\ hash' = [hash EXCEPT ![i] = req[r].password]
                 /\ profile' = [profile EXCEPT ![i] = new]
                 /\ sent' = [sent EXCEPT ![i] = new]
                 /\ req' = [req EXCEPT ![r].pc = "start", ![r].user = i]
    /\ UNCHANGED <<clock, known>>

-----------------------------------------------------------------------------
\* POST /v1/auth/login.

Login(r, a, p) ==
    /\ At(r, "idle")
    /\ req' = [req EXCEPT ![r] =
          [Idle EXCEPT !.pc = "lookup", !.email = Email(a), !.password = p,
             !.entitled = /\ a.form # "malformed"
                          /\ \E i \in users : /\ email[i].box = a.box
                                              /\ hash[i] = p]]
    /\ UNCHANGED <<clock, table, known, sent>>

\* CredentialsByEmail, then VerifyPassword against what it returned; an
\* unknown address answers as a wrong password does.
Lookup(r) ==
    /\ At(r, "lookup")
    /\ \/ \E i \in users :
            /\ Matches(i, req[r])
            /\ req' = [req EXCEPT ![r].pc = "start", ![r].user = i]
       \/ /\ \A i \in users : ~Matches(i, req[r])
          /\ Answer(r, "INVALID_CREDENTIALS")
    /\ UNCHANGED <<clock, table, known, sent>>

-----------------------------------------------------------------------------
\* POST /v1/auth/refresh.

\* A refresh token a client received, some other string, or none at all.
Refresh(r, t) ==
    /\ At(r, "idle")
    /\ \/ t = None /\ Answer(r, "VALIDATION_FAILED")
       \/ req' = [req EXCEPT ![r] = [Idle EXCEPT !.pc = "exchange", !.token = t]]
    /\ UNCHANGED <<clock, table, known, sent>>

\* Rotate, statement by statement in Sessions: the token is unknown, used,
\* revoked or expired, or consumed for the account in its row.
Exchange(r) ==
    /\ At(r, "exchange")
    /\ \/ Answer(r, "TOKEN_INVALID")
       \/ /\ req[r].token # None
          /\ req' = [req EXCEPT ![r].pc = "start", ![r].user = req[r].token.user]
    /\ UNCHANGED <<clock, table, known, sent>>

\* Service.issue, reached from all three: sign an access token.
StartSession(r) ==
    /\ At(r, "start")
    /\ \E now \in Clocks :
        req' = [req EXCEPT ![r] = [Idle EXCEPT !.pc = "reply", !.code = "OK",
                                     !.token = Signed(req[r].user, now)]]
    /\ UNCHANGED <<clock, table, known, sent>>

-----------------------------------------------------------------------------
\* A protected route; a patch without fields stands for every one that leaves
\* the profile alone.

Call(r, t, p) ==
    /\ At(r, "idle")
    /\ req' = [req EXCEPT ![r] =
                 [Idle EXCEPT !.pc = "auth", !.token = t, !.patch = p]]
    /\ UNCHANGED <<clock, table, known, sent>>

\* authenticate: judge the token and load the user behind it; then
\* handleUpdateMe validates the body: a display name cannot be null.
Authenticate(r) ==
    /\ At(r, "auth")
    /\ \E now \in Clocks :
        LET t == req[r].token
            v == Verdict(t, now)
        IN \/ v # "OK" /\ Answer(r, v)
           \/ v = "OK" /\ req[r].patch.name = Null /\ Answer(r, "VALIDATION_FAILED")
           \/ /\ v = "OK" /\ req[r].patch.name # Null
              /\ req' = [req EXCEPT ![r].pc = "update", ![r].user = t.user,
                                    ![r].me = profile[t.user]]
    /\ UNCHANGED <<clock, table, known, sent>>

\* Users().Update on the row as it is now.
UpdateMe(r) ==
    /\ At(r, "update")
    /\ LET u == req[r].user
           p == req[r].patch
       IN /\ profile' = [profile EXCEPT ![u] = Updated(@, req[r].me, p)]
          /\ sent' = [sent EXCEPT
                ![u].name = IF p.name \in Texts THEN p.name ELSE @,
                ![u].bio = IF p.bio \in Texts THEN p.bio
                           ELSE IF p.bio = Null THEN Empty ELSE @]
    /\ Answer(r, "OK")
    /\ UNCHANGED <<clock, users, email, username, hash, known>>

-----------------------------------------------------------------------------
\* The client receives the answer, and the token if there is one.
Reply(r) ==
    /\ At(r, "reply")
    /\ known' = known \cup ({req[r].token} \ {None})
    /\ req' = [req EXCEPT ![r] = Idle]
    /\ UNCHANGED <<clock, table, sent>>

\* A request stops anywhere: store error, cancelled context, crash, lost
\* response.
Fail(r) ==
    /\ ~At(r, "idle")
    /\ req' = [req EXCEPT ![r] = Idle]
    /\ UNCHANGED <<clock, table, known, sent>>

Tick ==
    /\ clock < MaxTime
    /\ clock' = clock + 1
    /\ UNCHANGED <<table, known, req, sent>>

Handle(r) ==
    \/ Create(r) \/ Lookup(r) \/ Exchange(r) \/ StartSession(r)
    \/ Authenticate(r) \/ UpdateMe(r) \/ Reply(r)

Next ==
    \/ \E r \in Requests, b \in Mailboxes, f \in Forms, s \in Secrets, z \in Sizes :
        LET a == [box |-> b, form |-> f]
            p == [secret |-> s, size |-> z]
        IN \/ Login(r, a, p)
           \/ \E n \in Usernames, t \in Texts : Register(r, a, n, p, t)
    \/ \E r \in Requests, t \in known \cup {None} :
        Refresh(r, t) \/ \E p \in Patch : Call(r, t, p)
    \/ \E r \in Requests : Handle(r) \/ Fail(r)
    \/ Tick

Spec == Init /\ [][Next]_vars

-----------------------------------------------------------------------------
\* Properties.

\* Every variable keeps its type.
TypeOK ==
    /\ clock \in Nat
    /\ users \subseteq Ids
    /\ email \in [Ids -> Address \cup {None}]
    /\ username \in [Ids -> Usernames \cup {None}]
    /\ hash \in [Ids -> Password \cup {None}]
    /\ profile \in [Ids -> Profile \cup {None}]
    /\ sent \in [Ids -> Profile \cup {None}]
    /\ known \subseteq AccessToken
    /\ req \in [Requests -> Request]

\* However registrations race, no two accounts share an address, whatever its
\* spelling, or a username.
UniqueIdentity ==
    \A i, j \in users :
        email[i].box = email[j].box \/ username[i] = username[j] => i = j

\* Somebody who registered can log in, with any spelling of the address: such
\* a login is never answered INVALID_CREDENTIALS.
RightfulLoginAccepted ==
    \A r \in Requests : req[r].entitled => req[r].code # "INVALID_CREDENTIALS"

\* A profile field holds what the last request that carried it said: a patch
\* never undoes a concurrent patch of the other field.
NoLostPatch == \A i \in users : profile[i] = sent[i]

\* The two refusals are kept apart: a token we issued is refused as expired at
\* the earliest in the second before its announced expiry, and is accepted
\* after it, or answered TOKEN_INVALID at the start of its life, for no longer
\* than the replicas' clocks are apart.
VerdictsApart ==
    [][\A r \in Requests : At(r, "auth") /\ req[r].token # None =>
        /\ req'[r].code = "TOKEN_INVALID" => clock < req[r].token.nbf + Skew
        /\ req'[r].code = "TOKEN_EXPIRED" =>
                clock > req[r].token.announced - TicksPerSecond
        /\ req'[r].pc = "update" => clock < req[r].token.announced + Skew]_vars

\* Nobody acts for another, however requests overlap: a profile changes only in
\* a request that came with a token of that account, and a request gets hold of
\* a token only by presenting one a client had received, or is given one for
\* the very account whose address and password are in the row it was compared
\* with, or whose refresh token it presented.
OwnersOnly ==
    [][/\ \A i \in users : profile'[i] # profile[i] =>
            \E r \in Requests : /\ At(r, "update")
                                /\ req[r].token \in known /\ req[r].token.user = i
       /\ \A r \in Requests : LET t == req'[r].token IN
            t \notin {None, req[r].token} =>
                \/ At(r, "idle") /\ t \in known
                \/ /\ At(r, "start")
                   /\ \/ /\ email[t.user] = req[r].email
                         /\ hash[t.user] = req[r].password
                      \/ req[r].token \in known /\ req[r].token.user = t.user]_vars

\* Every stored address is lower case, every profile complete.
RowsComplete ==
    \A i \in users : /\ email[i] \in Address /\ email[i].form = "lower"
                     /\ username[i] \in Usernames
                     /\ hash[i] \in Password
                     /\ profile[i] \in Profile

\* A token names an account, is not from the future, and carries its announced
\* expiry cut to the second; whether a client or a request has it.
SoundToken(t) ==
    /\ t \in AccessToken
    /\ t.user \in users
    /\ t.nbf <= clock
    /\ t.exp <= t.announced
    /\ t.announced < t.exp + TicksPerSecond

TokensSound == \A t \in known : SoundToken(t)

\* What a request carries is what its next step needs.
Sound(q) ==
    /\ q.pc # "reply" => q.code = "none"
    /\ q.pc = "create" => /\ q.email \in Address /\ q.email.form = "lower"
                          /\ q.username \in Usernames
                          /\ q.password \in Password
                          /\ q.patch.name \in Texts
    /\ q.pc \in {"start", "update"} => q.user \in users
    /\ q.pc = "start" =>
            \/ email[q.user] = q.email /\ hash[q.user] = q.password
            \/ q.token \in known /\ q.token.user = q.user
    /\ q.pc \in {"exchange", "auth", "update"} => q.token \in known \cup {None}
    /\ q.pc = "update" => /\ q.patch.name # Null
                          /\ q.token # None /\ q.user = q.token.user
    /\ q.token # None => SoundToken(q.token)
    /\ q.pc = "lookup" /\ q.entitled =>
            \E i \in users : email[i] = q.email /\ hash[i] = q.password

LocalsSound == \A r \in Requests : Sound(req[r])

\* The inductive invariant.
AccountInv ==
    /\ TypeOK /\ RowsComplete /\ TokensSound /\ LocalsSound
    /\ UniqueIdentity /\ RightfulLoginAccepted /\ NoLostPatch

\* The contract: a password of 8 to 128 characters is acceptable.  So a
\* registration that passes validation is not an internal error.
ValidRegistrationServed ==
    [][\A r \in Requests, b \in Mailboxes, f \in Forms, s \in Secrets, z \in Sizes,
            n \in Usernames, t \in Texts :
        LET a == [box |-> b, form |-> f]
            p == [secret |-> s, size |-> z]
        IN Register(r, a, n, p, t) /\ ValidRegistration(a, p) =>
                req'[r].code # "INTERNAL_ERROR"]_vars
=============================================================================
