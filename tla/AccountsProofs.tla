---------------------------- MODULE AccountsProofs ----------------------------
(***************************************************************************)
(* Proofs about Accounts for any requests, addresses, passwords, profile   *)
(* texts and lifetimes.                                                    *)
(*                                                                         *)
(* Most steps only move one request on; RequestStep says once what such a  *)
(* step needs.  The rest are the insert, the update, the signing of a      *)
(* token and the clock.                                                    *)
(***************************************************************************)
EXTENDS Accounts, TLAPS

\* A date cut to the second is at most a second early.
LEMMA TruncatedClose ==
    ASSUME NEW t \in Nat
    PROVE  /\ Truncated(t) \in Nat /\ Truncated(t) <= t
           /\ t < Truncated(t) + TicksPerSecond
<1>1. t % TicksPerSecond \in 0..(TicksPerSecond - 1) /\ t % TicksPerSecond <= t
  BY TickAssumption
<1> QED
  BY <1>1, TickAssumption DEF Truncated

\* The idle request is a request that needs nothing.
LEMMA IdleSound == Idle \in Request /\ Sound(Idle) /\ ~Idle.entitled
BY InputAssumption DEF Idle, NoPatch, Request, Codes, Patch, Optional, Sound

\* Writing both fields of a profile leaves nothing of the old one.
LEMMA BothFields ==
    ASSUME NEW row \in Profile, NEW n \in Texts, NEW b \in Texts \cup {Empty}
    PROVE  [row EXCEPT !.name = n, !.bio = b] = [name |-> n, bio |-> b]
<1> DEFINE x == [row EXCEPT !.name = n, !.bio = b]
           y == [name |-> n, bio |-> b]
<1>1. x \in Profile /\ x.name = n /\ x.bio = b
  BY DEF Profile
<1>2. y \in Profile /\ y.name = n /\ y.bio = b
  BY DEF Profile
<1> HIDE DEF x, y
<1>3. x = y
  BY <1>1, <1>2 DEF Profile
<1> QED
  BY <1>3 DEF x, y

\* Nothing is there at first.
LEMMA InitAccounts == Init => AccountInv
<1> SUFFICES ASSUME Init PROVE AccountInv
  OBVIOUS
<1>1. TypeOK
  BY IdleSound DEF Init, TypeOK
<1>2. LocalsSound /\ RightfulLoginAccepted
  BY IdleSound DEF Init, LocalsSound, RightfulLoginAccepted
<1>3. RowsComplete /\ TokensSound /\ UniqueIdentity /\ NoLostPatch
  BY DEF Init, RowsComplete, TokensSound, UniqueIdentity, NoLostPatch
<1> QED
  BY <1>1, <1>2, <1>3 DEF AccountInv

\* A step that only moves one request to a sound state.
LEMMA RequestStep ==
    ASSUME AccountInv, NEW r \in Requests, NEW q \in Request, Sound(q),
           q.entitled => q.code # "INVALID_CREDENTIALS",
           req' = [req EXCEPT ![r] = q],
           known \subseteq known', \A k \in known' : SoundToken(k),
           UNCHANGED <<clock, table, sent>>
    PROVE  AccountInv'
<1> USE DEF AccountInv
<1>1. TypeOK'
  BY DEF TypeOK, table, SoundToken
<1>2. \A s \in Requests : req'[s] = IF s = r THEN q ELSE req[s]
  BY DEF TypeOK
<1>3. LocalsSound'
  BY <1>2 DEF LocalsSound, Sound, SoundToken, table
<1>4. RightfulLoginAccepted'
  BY <1>2 DEF RightfulLoginAccepted
<1>5. (RowsComplete /\ TokensSound /\ UniqueIdentity /\ NoLostPatch)'
  BY DEF RowsComplete, TokensSound, SoundToken, UniqueIdentity, NoLostPatch, table
<1> QED
  BY <1>1, <1>3, <1>4, <1>5

\* An answer other than the refusal of a rightful login.
LEMMA AnswerStep ==
    ASSUME AccountInv, NEW r \in Requests, NEW c \in Codes, Answer(r, c),
           req[r].entitled => c # "INVALID_CREDENTIALS",
           UNCHANGED <<clock, table, known, sent>>
    PROVE  AccountInv'
<1> DEFINE q == [Idle EXCEPT !.pc = "reply", !.code = c,
                             !.entitled = req[r].entitled]
<1>1. req[r] \in Request
  BY DEF AccountInv, TypeOK
<1>2. q \in Request /\ q.entitled = req[r].entitled /\ q.code = c
  BY <1>1, IdleSound DEF Request, Idle
<1>3. Sound(q)
  BY DEF Sound, Idle
<1>4. req' = [req EXCEPT ![r] = q] /\ (\A k \in known' : SoundToken(k)) /\ known \subseteq known'
  BY DEF Answer, AccountInv, TokensSound
<1> HIDE DEF q
<1> QED
  BY <1>2, <1>3, <1>4, RequestStep

\* Registration validates and hashes.
LEMMA RegisterAccounts ==
    ASSUME AccountInv, NEW r \in Requests, NEW a \in Address,
           NEW n \in Usernames, NEW p \in Password, NEW t \in Texts,
           Register(r, a, n, p, t)
    PROVE  AccountInv'
<1>1. CASE Answer(r, "VALIDATION_FAILED") \/ Answer(r, "INTERNAL_ERROR")
  BY <1>1, AnswerStep DEF Register, Codes
<1>2. CASE /\ ValidRegistration(a, p)
           /\ req' = [req EXCEPT ![r] =
                [Idle EXCEPT !.pc = "create", !.email = Email(a),
                   !.username = n, !.password = p,
                   !.patch = [name |-> t, bio |-> Absent]]]
  <2> DEFINE q == [Idle EXCEPT !.pc = "create", !.email = Email(a),
                     !.username = n, !.password = p,
                     !.patch = [name |-> t, bio |-> Absent]]
  <2>1. Email(a) \in Address /\ Email(a).form = "lower"
    BY <1>2 DEF ValidRegistration, Email, Address
  <2>2. [name |-> t, bio |-> Absent] \in Patch
    BY DEF Patch, Optional
  <2>3. q \in Request /\ ~q.entitled
    BY <2>1, <2>2 DEF Idle, Request, Codes
  <2>4. Sound(q)
    BY <2>1 DEF Sound, Idle
  <2>5. (\A k \in known' : SoundToken(k)) /\ known \subseteq known' /\ UNCHANGED <<clock, table, sent>>
    BY DEF Register, AccountInv, TokensSound
  <2>6. req' = [req EXCEPT ![r] = q]
    BY <1>2
  <2> HIDE DEF q
  <2> QED
    BY <2>3, <2>4, <2>5, <2>6, RequestStep
<1> QED
  BY <1>1, <1>2 DEF Register

\* The insert gives the unique indexes a row they accept.
LEMMA CreateAccounts ==
    ASSUME AccountInv, NEW r \in Requests, Create(r)
    PROVE  AccountInv'
<1> USE DEF AccountInv
<1>1. req[r] \in Request /\ Sound(req[r])
  BY DEF TypeOK, LocalsSound
<1>2. CASE Answer(r, "CONFLICT") /\ UNCHANGED <<table, sent>>
  BY <1>2, AnswerStep DEF Create, Codes
<1>3. ASSUME ~EmailTaken(req[r].email), ~UsernameTaken(req[r].username),
             NEW i \in Ids \ users,
             users' = users \cup {i},
             email' = [email EXCEPT ![i] = req[r].email],
             username' = [username EXCEPT ![i] = req[r].username],
             hash' = [hash EXCEPT ![i] = req[r].password],
             profile' = [profile EXCEPT ![i] =
                            [name |-> req[r].patch.name, bio |-> Empty]],
             sent' = [sent EXCEPT ![i] =
                            [name |-> req[r].patch.name, bio |-> Empty]],
             req' = [req EXCEPT ![r].pc = "start", ![r].user = i],
             UNCHANGED <<clock, known>>
      PROVE  AccountInv'
  <2> DEFINE new == [name |-> req[r].patch.name, bio |-> Empty]
  <2>0. At(r, "create")
    BY DEF Create
  <2>1. /\ req[r].email \in Address /\ req[r].email.form = "lower"
        /\ req[r].username \in Usernames /\ req[r].password \in Password
        /\ new \in Profile
    BY <1>1, <2>0 DEF Sound, At, Profile
  <2>2. \A s \in Requests :
            /\ req'[s].email = req[s].email
            /\ req'[s].password = req[s].password
            /\ req'[s].username = req[s].username
            /\ req'[s].patch = req[s].patch
            /\ req'[s].token = req[s].token
            /\ req'[s].entitled = req[s].entitled
            /\ req'[s].code = req[s].code
            /\ s # r => req'[s].pc = req[s].pc /\ req'[s].user = req[s].user
            /\ s = r => req'[s].pc = "start" /\ req'[s].user = i
    BY <1>3 DEF TypeOK, Request
  <2>3. \A j \in users : /\ email'[j] = email[j] /\ username'[j] = username[j]
                         /\ hash'[j] = hash[j] /\ profile'[j] = profile[j]
                         /\ sent'[j] = sent[j]
    BY <1>3 DEF TypeOK
  <2>4. /\ email'[i] = req[r].email /\ username'[i] = req[r].username
        /\ hash'[i] = req[r].password /\ profile'[i] = new /\ sent'[i] = new
    BY <1>3 DEF TypeOK
  <2> HIDE DEF new
  <2>5. TypeOK'
    <3> DEFINE q == [req[r] EXCEPT !.pc = "start", !.user = i]
    <3>3. q \in Request
      BY <1>1, <1>3 DEF Request
    <3>4. req' = [req EXCEPT ![r] = q]
      BY <1>3 DEF TypeOK
    <3> HIDE DEF q
    <3>1. req' \in [Requests -> Request]
      BY <3>3, <3>4 DEF TypeOK
    <3>2. profile' = [profile EXCEPT ![i] = new] /\ sent' = [sent EXCEPT ![i] = new]
      BY <1>3 DEF new
    <3> QED
      BY <1>3, <2>1, <3>1, <3>2 DEF TypeOK
  <2>6. RowsComplete'
    BY <1>3, <2>1, <2>3, <2>4 DEF RowsComplete
  <2>7. TokensSound'
    BY <1>3 DEF TokensSound, SoundToken
  <2>8. LocalsSound'
    <3> SUFFICES ASSUME NEW s \in Requests PROVE Sound(req[s])'
      BY DEF LocalsSound
    <3>1. Sound(req[s])
      BY DEF LocalsSound
    <3>2. /\ clock' = clock /\ known' = known
          /\ users \subseteq users' /\ i \in users'
      BY <1>3
    <3>3. CASE s = r
      BY <2>0, <2>2, <2>4, <3>1, <3>2, <3>3 DEF Sound, SoundToken, At
    <3>4. CASE s # r
      <4>1. /\ req'[s].pc = req[s].pc /\ req'[s].user = req[s].user
            /\ req'[s].email = req[s].email
            /\ req'[s].password = req[s].password
            /\ req'[s].username = req[s].username
            /\ req'[s].patch = req[s].patch /\ req'[s].token = req[s].token
            /\ req'[s].entitled = req[s].entitled /\ req'[s].code = req[s].code
        BY <2>2, <3>4
      <4>2. At(s, "lookup") /\ req[s].entitled =>
                \E j \in users' : email'[j] = req[s].email /\ hash'[j] = req[s].password
        BY <2>3, <3>1, <3>2 DEF Sound, At
      <4>3. At(s, "start") =>
                \/ /\ email'[req[s].user] = req[s].email
                   /\ hash'[req[s].user] = req[s].password
                \/ req[s].token \in known' /\ req[s].token.user = req[s].user
        BY <2>3, <3>1, <3>2 DEF Sound, At
      <4>4. req[s].token # None => SoundToken(req[s].token)'
        BY <3>1, <3>2, <4>1 DEF Sound, SoundToken
      <4> QED
        BY <3>1, <3>2, <4>1, <4>2, <4>3, <4>4 DEF Sound, At
    <3> QED
      BY <3>3, <3>4
  <2>9. UniqueIdentity'
    <3>1. ASSUME NEW j \in users
          PROVE  email[j].box # req[r].email.box /\ username[j] # req[r].username
      <4>1. email[j] # req[r].email /\ username[j] # req[r].username
        BY <1>3 DEF EmailTaken, UsernameTaken
      <4>2. email[j] \in Address /\ email[j].form = "lower"
        BY DEF RowsComplete
      <4> QED
        BY <2>1, <4>1, <4>2 DEF Address
    <3> QED
      BY <1>3, <2>3, <2>4, <3>1 DEF UniqueIdentity
  <2>10. RightfulLoginAccepted'
    BY <2>2 DEF RightfulLoginAccepted
  <2>11. NoLostPatch'
    BY <1>3, <2>3, <2>4 DEF NoLostPatch
  <2> QED
    BY <2>5, <2>6, <2>7, <2>8, <2>9, <2>10, <2>11
<1> QED
  BY <1>2, <1>3 DEF Create

\* A login arrives; whoever is entitled is so by a row with the very address
\* and password the lookup will compare.
LEMMA LoginAccounts ==
    ASSUME AccountInv, NEW r \in Requests, NEW a \in Address, NEW p \in Password,
           Login(r, a, p)
    PROVE  AccountInv'
<1> DEFINE e == /\ a.form # "malformed"
                /\ \E i \in users : email[i].box = a.box /\ hash[i] = p
           q == [Idle EXCEPT !.pc = "lookup", !.email = Email(a),
                             !.password = p, !.entitled = e]
<1>1. Email(a) \in Address
  BY DEF Email, Address
<1>2. e \in BOOLEAN
  OBVIOUS
<1>3. e => \E i \in users : email[i] = Email(a) /\ hash[i] = p
  <2>1. ASSUME e PROVE \E i \in users : email[i] = Email(a) /\ hash[i] = p
    <3>1. PICK i \in users : email[i].box = a.box /\ hash[i] = p
      BY <2>1
    <3>2. email[i] \in Address /\ email[i].form = "lower"
      BY DEF AccountInv, RowsComplete
    <3>3. email[i] = Email(a)
      BY <2>1, <3>1, <3>2 DEF Address, Email
    <3> QED
      BY <3>1, <3>3
  <2> QED
    BY <2>1
<1>4. req' = [req EXCEPT ![r] = q] /\ (\A k \in known' : SoundToken(k)) /\ known \subseteq known'
      /\ UNCHANGED <<clock, table, sent>>
  BY DEF Login, AccountInv, TokensSound
<1> HIDE DEF e
<1>5. q \in Request /\ q.code = "none"
  BY <1>1, <1>2, IdleSound DEF Idle, Request
<1>6. Sound(q)
  BY <1>3 DEF Sound, Idle
<1> HIDE DEF q
<1> QED
  BY <1>4, <1>5, <1>6, RequestStep

\* The lookup refuses nobody it should not.
LEMMA LookupAccounts ==
    ASSUME AccountInv, NEW r \in Requests, Lookup(r)
    PROVE  AccountInv'
<1>1. req[r] \in Request /\ Sound(req[r]) /\ At(r, "lookup")
  BY DEF AccountInv, TypeOK, LocalsSound, Lookup
<1>2. CASE /\ \A i \in users : ~Matches(i, req[r])
           /\ Answer(r, "INVALID_CREDENTIALS")
  <2>1. ~req[r].entitled
    BY <1>1, <1>2 DEF Sound, At, Matches
  <2> QED
    BY <1>2, <2>1, AnswerStep DEF Lookup, Codes
<1>3. ASSUME NEW i \in users, Matches(i, req[r]),
             req' = [req EXCEPT ![r].pc = "start", ![r].user = i]
      PROVE  AccountInv'
  <2> DEFINE q == [req[r] EXCEPT !.pc = "start", !.user = i]
  <2>1. i \in Ids
    BY DEF AccountInv, TypeOK
  <2>2. q \in Request /\ q.entitled = req[r].entitled /\ q.code = req[r].code
    BY <1>1, <2>1 DEF Request
  <2>3. Sound(q)
    BY <1>1, <1>3 DEF Sound, Request, At, Matches
  <2>4. req[r].entitled => req[r].code # "INVALID_CREDENTIALS"
    BY DEF AccountInv, RightfulLoginAccepted
  <2>5. req' = [req EXCEPT ![r] = q] /\ (\A k \in known' : SoundToken(k)) /\ known \subseteq known'
        /\ UNCHANGED <<clock, table, sent>>
    BY <1>3 DEF Lookup, AccountInv, TokensSound
  <2> HIDE DEF q
  <2> QED
    BY <2>2, <2>3, <2>4, <2>5, RequestStep
<1> QED
  BY <1>2, <1>3 DEF Lookup

\* A refresh arrives with what some client received.
LEMMA RefreshAccounts ==
    ASSUME AccountInv, NEW r \in Requests, NEW t \in known \cup {None},
           Refresh(r, t)
    PROVE  AccountInv'
<1> DEFINE q == [Idle EXCEPT !.pc = "exchange", !.token = t]
<1>1. CASE Answer(r, "VALIDATION_FAILED")
  BY <1>1, AnswerStep DEF Refresh, Codes
<1>2. CASE req' = [req EXCEPT ![r] = q]
  <2>1. t \in AccessToken \cup {None} /\ (t # None => SoundToken(t))
    BY DEF AccountInv, TypeOK, TokensSound
  <2>2. q \in Request /\ ~q.entitled
    BY <2>1, IdleSound DEF Idle, Request
  <2>3. Sound(q)
    BY <2>1 DEF Sound, Idle
  <2>4. (\A k \in known' : SoundToken(k)) /\ known \subseteq known'
        /\ UNCHANGED <<clock, table, sent>>
    BY DEF Refresh, AccountInv, TokensSound
  <2> HIDE DEF q
  <2> QED
    BY <1>2, <2>2, <2>3, <2>4, RequestStep
<1> QED
  BY <1>1, <1>2 DEF Refresh

\* An exchange goes on for the account the refresh token is for.
LEMMA ExchangeAccounts ==
    ASSUME AccountInv, NEW r \in Requests, Exchange(r)
    PROVE  AccountInv'
<1>1. /\ req[r] \in Request /\ Sound(req[r]) /\ At(r, "exchange")
      /\ req[r].entitled => req[r].code # "INVALID_CREDENTIALS"
  BY DEF AccountInv, TypeOK, LocalsSound, RightfulLoginAccepted, Exchange
<1>2. CASE Answer(r, "TOKEN_INVALID")
  BY <1>2, AnswerStep DEF Exchange, Codes
<1>3. CASE /\ req[r].token # None
           /\ req' = [req EXCEPT ![r].pc = "start",
                                 ![r].user = req[r].token.user]
  <2>1. PICK i : i = req[r].token.user
    OBVIOUS
  <2>2. req[r].token \in known /\ i \in users /\ i \in Ids
    BY <1>1, <1>3, <2>1 DEF Sound, SoundToken, At, AccountInv, TypeOK
  <2> DEFINE q == [req[r] EXCEPT !.pc = "start", !.user = i]
  <2>3. q \in Request /\ q.entitled = req[r].entitled /\ q.code = req[r].code
    BY <1>1, <2>2 DEF Request
  <2>4. Sound(q)
    BY <1>1, <2>1, <2>2 DEF Sound, Request, At
  <2>5. req' = [req EXCEPT ![r] = q]
    BY <1>3, <2>1 DEF AccountInv, TypeOK
  <2>6. (\A k \in known' : SoundToken(k)) /\ known \subseteq known'
        /\ UNCHANGED <<clock, table, sent>>
    BY DEF Exchange, AccountInv, TokensSound
  <2> HIDE DEF q
  <2> QED
    BY <1>1, <2>3, <2>4, <2>5, <2>6, RequestStep
<1> QED
  BY <1>2, <1>3 DEF Exchange

\* A fresh token is sound.
LEMMA StartSessionAccounts ==
    ASSUME AccountInv, NEW r \in Requests, StartSession(r)
    PROVE  AccountInv'
<1> USE DEF AccountInv
<1>0. PICK now \in Clocks :
        req' = [req EXCEPT ![r] = [Idle EXCEPT !.pc = "reply", !.code = "OK",
                                     !.token = Signed(req[r].user, now)]]
  BY DEF StartSession
<1> DEFINE t == Signed(req[r].user, now)
           q == [Idle EXCEPT !.pc = "reply", !.code = "OK", !.token = t]
<1>1. /\ req[r].user \in users /\ req[r].user \in Ids
      /\ clock \in Nat /\ now \in Nat /\ now <= clock
  BY DEF StartSession, LocalsSound, Sound, At, TypeOK, Clocks
<1>2. /\ Truncated(now) \in Nat /\ Truncated(now) <= now
      /\ now + AccessTTL \in Nat
  BY <1>1, TruncatedClose, TickAssumption
<1>3. /\ Truncated(now + AccessTTL) \in Nat
      /\ Truncated(now + AccessTTL) <= now + AccessTTL
      /\ now + AccessTTL < Truncated(now + AccessTTL) + TicksPerSecond
  BY <1>2, TruncatedClose
<1>4. SoundToken(t)
  BY <1>1, <1>2, <1>3 DEF SoundToken, Signed, AccessToken
<1>5. req' = [req EXCEPT ![r] = q] /\ (\A k \in known' : SoundToken(k)) /\ known \subseteq known'
      /\ UNCHANGED <<clock, table, sent>>
  BY <1>0 DEF StartSession, TokensSound
<1> HIDE DEF t
<1>6. q \in Request /\ ~q.entitled
  BY <1>4, IdleSound DEF Idle, Request, Codes, SoundToken
<1>7. Sound(q)
  BY <1>4 DEF Sound, Idle
<1> HIDE DEF q
<1> QED
  BY <1>5, <1>6, <1>7, RequestStep

\* A protected request arrives with a token some client received.
LEMMA CallAccounts ==
    ASSUME AccountInv, NEW r \in Requests, NEW t \in known \cup {None},
           NEW p \in Patch, Call(r, t, p)
    PROVE  AccountInv'
<1> DEFINE q == [Idle EXCEPT !.pc = "auth", !.token = t, !.patch = p]
<1>1. t \in AccessToken \cup {None} /\ (t # None => SoundToken(t))
  BY DEF AccountInv, TypeOK, TokensSound
<1>2. q \in Request /\ ~q.entitled
  BY <1>1, IdleSound DEF Idle, Request
<1>3. Sound(q)
  BY <1>1 DEF Sound, Idle
<1>4. req' = [req EXCEPT ![r] = q] /\ (\A k \in known' : SoundToken(k)) /\ known \subseteq known'
      /\ UNCHANGED <<clock, table, sent>>
  BY DEF Call, AccountInv, TokensSound
<1> HIDE DEF q
<1> QED
  BY <1>2, <1>3, <1>4, RequestStep

\* The verdict is an answer or lets the request on.
LEMMA AuthenticateAccounts ==
    ASSUME AccountInv, NEW r \in Requests, Authenticate(r)
    PROVE  AccountInv'
<1> DEFINE t == req[r].token
<1>0. PICK now \in Clocks :
        \/ Verdict(t, now) # "OK" /\ Answer(r, Verdict(t, now))
        \/ Answer(r, "VALIDATION_FAILED")
        \/ /\ Verdict(t, now) = "OK" /\ req[r].patch.name # Null
           /\ req' = [req EXCEPT ![r].pc = "update", ![r].user = t.user,
                                 ![r].me = profile[t.user]]
  BY DEF Authenticate
<1>1. /\ req[r] \in Request /\ Sound(req[r])
      /\ req[r].entitled => req[r].code # "INVALID_CREDENTIALS"
  BY DEF AccountInv, TypeOK, LocalsSound, RightfulLoginAccepted
<1>2. Verdict(t, now) \in {"TOKEN_INVALID", "TOKEN_EXPIRED", "OK"}
  BY DEF Verdict
<1>3. UNCHANGED <<clock, table, known, sent>>
  BY DEF Authenticate
<1>4. CASE Verdict(t, now) # "OK" /\ Answer(r, Verdict(t, now))
  BY <1>2, <1>3, <1>4, AnswerStep DEF Codes
<1>5. CASE Answer(r, "VALIDATION_FAILED")
  BY <1>3, <1>5, AnswerStep DEF Codes
<1>6. CASE /\ Verdict(t, now) = "OK" /\ req[r].patch.name # Null
           /\ req' = [req EXCEPT ![r].pc = "update", ![r].user = t.user,
                                 ![r].me = profile[t.user]]
  <2> DEFINE q == [req[r] EXCEPT !.pc = "update", !.user = t.user,
                                 !.me = profile[t.user]]
  <2>1. t # None /\ t.user \in users
    BY <1>6 DEF Verdict
  <2>2. t.user \in Ids /\ profile[t.user] \in Profile
    BY <2>1 DEF AccountInv, TypeOK, RowsComplete
  <2>3. /\ q \in Request /\ q.entitled = req[r].entitled
        /\ q.code = req[r].code
    BY <1>1, <2>2 DEF Request
  <2>4. Sound(q)
    BY <1>1, <1>6, <2>1 DEF Sound, Request, Authenticate, At
  <2>5. req' = [req EXCEPT ![r] = q]
    BY <1>6 DEF AccountInv, TypeOK
  <2>6. (\A k \in known' : SoundToken(k)) /\ known \subseteq known' /\ UNCHANGED <<clock, table, sent>>
    BY <1>3 DEF AccountInv, TokensSound
  <2> HIDE DEF q
  <2> QED
    BY <1>1, <2>3, <2>4, <2>5, <2>6, RequestStep
<1> QED
  BY <1>0, <1>4, <1>5, <1>6

\* The update writes the fields the body carried and no others.
LEMMA UpdateMeAccounts ==
    ASSUME AccountInv, NEW r \in Requests, UpdateMe(r)
    PROVE  AccountInv'
<1> USE DEF AccountInv
<1> DEFINE u == req[r].user
           p == req[r].patch
           new == Updated(profile[u], req[r].me, p)
           q == [Idle EXCEPT !.pc = "reply", !.code = "OK",
                             !.entitled = req[r].entitled]
<1>1. /\ req[r] \in Request /\ u \in users /\ u \in Ids
      /\ p \in Patch /\ p.name # Null
  BY DEF TypeOK, LocalsSound, Sound, UpdateMe, At, Request
<1>2. profile[u] \in Profile /\ sent[u] = profile[u]
  BY <1>1 DEF RowsComplete, NoLostPatch
<1>3. /\ p.name = Absent \/ p.name \in Texts
      /\ p.bio = Absent \/ p.bio = Null \/ p.bio \in Texts
  BY <1>1 DEF Patch, Optional
<1>4. new \in Profile
  BY <1>2, <1>3 DEF Updated, Profile
<1>5. [sent[u] EXCEPT !.name = IF p.name \in Texts THEN p.name ELSE sent[u].name,
                      !.bio = IF p.bio \in Texts THEN p.bio
                              ELSE IF p.bio = Null THEN Empty ELSE sent[u].bio]
        = new
  <2> DEFINE n == IF p.name \in Texts THEN p.name ELSE sent[u].name
             b == IF p.bio \in Texts THEN p.bio
                  ELSE IF p.bio = Null THEN Empty ELSE sent[u].bio
  <2>1. n = new.name /\ b = new.bio /\ n \in Texts /\ b \in Texts \cup {Empty}
    BY <1>2, <1>3, InputAssumption DEF Updated, Profile
  <2>2. new = [name |-> new.name, bio |-> new.bio]
    BY <1>4 DEF Profile
  <2> HIDE DEF n, b, new
  <2>3. [sent[u] EXCEPT !.name = n, !.bio = b] = [name |-> n, bio |-> b]
    BY <1>2, <2>1, BothFields
  <2> QED
    BY <2>1, <2>2, <2>3 DEF n, b
<1>6. sent' = [sent EXCEPT ![u] = new]
  BY <1>1, <1>5 DEF UpdateMe, TypeOK
<1>7. profile' = [profile EXCEPT ![u] = new]
  BY DEF UpdateMe
<1>8. req' = [req EXCEPT ![r] = q]
  BY DEF UpdateMe, Answer
<1>9. UNCHANGED <<clock, users, email, username, hash, known>>
  BY DEF UpdateMe
<1>10. q \in Request /\ q.pc = "reply" /\ q.code = "OK" /\ q.token = None
  BY <1>1, IdleSound DEF Request, Idle, Codes
<1> HIDE DEF q, new
<1>11. TypeOK'
  BY <1>1, <1>4, <1>6, <1>7, <1>8, <1>9, <1>10 DEF TypeOK
<1>12. \A s \in Requests : req'[s] = IF s = r THEN q ELSE req[s]
  BY <1>8 DEF TypeOK
<1>13. LocalsSound'
  BY <1>9, <1>10, <1>12 DEF LocalsSound, Sound, SoundToken
<1>14. RightfulLoginAccepted'
  BY <1>10, <1>12 DEF RightfulLoginAccepted
<1>15. \A i \in users : /\ profile'[i] = IF i = u THEN new ELSE profile[i]
                        /\ sent'[i] = IF i = u THEN new ELSE sent[i]
  BY <1>6, <1>7 DEF TypeOK
<1>16. RowsComplete' /\ NoLostPatch'
  BY <1>4, <1>9, <1>15 DEF RowsComplete, NoLostPatch
<1>17. TokensSound' /\ UniqueIdentity'
  BY <1>9 DEF TokensSound, SoundToken, UniqueIdentity
<1> QED
  BY <1>11, <1>13, <1>14, <1>16, <1>17

\* A request ends, whether its answer arrives or not.
LEMMA EndAccounts ==
    ASSUME AccountInv, NEW r \in Requests, Reply(r) \/ Fail(r)
    PROVE  AccountInv'
<1>1. req[r].token # None => SoundToken(req[r].token)
  BY DEF AccountInv, LocalsSound, Sound
<1>2. \A t \in known : SoundToken(t)
  BY DEF AccountInv, TokensSound
<1>3. (\A k \in known' : SoundToken(k)) /\ known \subseteq known' /\ UNCHANGED <<clock, table, sent>>
  BY <1>1, <1>2 DEF Reply, Fail
<1>4. req' = [req EXCEPT ![r] = Idle]
  BY DEF Reply, Fail
<1> QED
  BY <1>3, <1>4, IdleSound, RequestStep

\* The passing of time makes no token one from the future.
LEMMA TickAccounts == AccountInv /\ Tick => AccountInv'
<1> SUFFICES ASSUME AccountInv, Tick PROVE AccountInv'
  OBVIOUS
<1> USE DEF AccountInv
<1>1. clock' = clock + 1 /\ clock \in Nat
      /\ UNCHANGED <<table, known, req, sent>>
  BY DEF Tick, TypeOK
<1>2. TypeOK'
  BY <1>1 DEF TypeOK, table
<1>3. ASSUME NEW t, SoundToken(t)
      PROVE  /\ t \in AccessToken /\ t.user \in users' /\ t.nbf <= clock'
             /\ t.exp <= t.announced /\ t.announced < t.exp + TicksPerSecond
  <2>1. t.nbf \in Nat
    BY <1>3 DEF SoundToken, AccessToken
  <2> QED
    BY <1>1, <1>3, <2>1 DEF SoundToken, table
<1>4. (RowsComplete /\ UniqueIdentity /\ NoLostPatch)'
  BY <1>1 DEF RowsComplete, UniqueIdentity, NoLostPatch, table
<1>5. TokensSound'
  BY <1>1, <1>3 DEF TokensSound, SoundToken
<1>6. LocalsSound'
  <2> SUFFICES ASSUME NEW r \in Requests PROVE Sound(req[r])'
    BY DEF LocalsSound
  <2>1. /\ Sound(req[r]) /\ req'[r] = req[r]
        /\ UNCHANGED <<users, email, hash, known>>
    BY <1>1 DEF LocalsSound, table
  <2>2. req[r].token # None => SoundToken(req[r].token)'
    BY <1>3, <2>1 DEF Sound, SoundToken
  <2> QED
    BY <2>1, <2>2 DEF Sound
<1>7. RightfulLoginAccepted'
  BY <1>1 DEF RightfulLoginAccepted
<1> QED
  BY <1>2, <1>4, <1>5, <1>6, <1>7

\* The inductive step.
LEMMA NextAccounts == AccountInv /\ [Next]_vars => AccountInv'
<1> SUFFICES ASSUME AccountInv, [Next]_vars PROVE AccountInv'
  OBVIOUS
<1>1. ASSUME NEW r \in Requests, NEW b \in Mailboxes, NEW f \in Forms,
             NEW s \in Secrets, NEW z \in Sizes,
             LET a == [box |-> b, form |-> f]
                 p == [secret |-> s, size |-> z]
             IN \/ Login(r, a, p)
                \/ \E n \in Usernames, t \in Texts : Register(r, a, n, p, t)
      PROVE  AccountInv'
  <2> DEFINE a == [box |-> b, form |-> f]
             p == [secret |-> s, size |-> z]
  <2>1. a \in Address /\ p \in Password
    BY InputAssumption DEF Address, Password
  <2>2. Login(r, a, p) \/ \E n \in Usernames, t \in Texts : Register(r, a, n, p, t)
    BY <1>1
  <2> HIDE DEF a, p
  <2> QED
    BY <2>1, <2>2, LoginAccounts, RegisterAccounts
<1>2. ASSUME NEW r \in Requests, NEW t \in known \cup {None}, NEW p \in Patch,
             Call(r, t, p)
      PROVE  AccountInv'
  BY <1>2, CallAccounts
<1>6. ASSUME NEW r \in Requests, NEW t \in known \cup {None}, Refresh(r, t)
      PROVE  AccountInv'
  BY <1>6, RefreshAccounts
<1>3. ASSUME NEW r \in Requests, Handle(r) \/ Fail(r)
      PROVE  AccountInv'
  BY <1>3, CreateAccounts, LookupAccounts, ExchangeAccounts,
     StartSessionAccounts, AuthenticateAccounts, UpdateMeAccounts, EndAccounts DEF Handle
<1>4. CASE Tick
  BY <1>4, TickAccounts
<1>5. CASE UNCHANGED vars
  BY <1>5 DEF vars, table, AccountInv, TypeOK, RowsComplete, TokensSound, SoundToken,
     LocalsSound, Sound, UniqueIdentity, RightfulLoginAccepted, NoLostPatch
<1> QED
  BY <1>1, <1>2, <1>3, <1>4, <1>5, <1>6 DEF Next

-----------------------------------------------------------------------------
\* The inductive invariant holds of the users table, the access tokens and
\* every request in flight (auth_handlers.go, tokens.go, user_handlers.go).
THEOREM AccountSafety == Spec => []AccountInv
BY InitAccounts, NextAccounts, PTL DEF Spec

\* However registrations interleave, two accounts share neither an address in
\* any spelling nor a username.
THEOREM IdentitySafety == Spec => []UniqueIdentity
<1>1. AccountInv => UniqueIdentity
  BY DEF AccountInv
<1> QED
  BY <1>1, AccountSafety, PTL

\* A login with the address, in any spelling, and the password of an account
\* that exists is never refused for its credentials.
THEOREM LoginSafety == Spec => []RightfulLoginAccepted
<1>1. AccountInv => RightfulLoginAccepted
  BY DEF AccountInv
<1> QED
  BY <1>1, AccountSafety, PTL

\* Concurrent PATCH /v1/users/me requests never undo each other's fields.
THEOREM PatchSafety == Spec => []NoLostPatch
<1>1. AccountInv => NoLostPatch
  BY DEF AccountInv
<1> QED
  BY <1>1, AccountSafety, PTL

\* The middleware keeps TOKEN_EXPIRED and TOKEN_INVALID apart: from the
\* invariant, because only authenticate and a failure move a request that
\* waits for its verdict.
THEOREM VerdictSafety == Spec => VerdictsApart
<1> DEFINE Apart(r) == At(r, "auth") /\ req[r].token # None =>
        /\ req'[r].code = "TOKEN_INVALID" => clock < req[r].token.nbf + Skew
        /\ req'[r].code = "TOKEN_EXPIRED" =>
                clock > req[r].token.announced - TicksPerSecond
        /\ req'[r].pc = "update" => clock < req[r].token.announced + Skew
<1>1. ASSUME AccountInv, [Next]_vars, NEW r \in Requests PROVE Apart(r)
  <2> SUFFICES ASSUME At(r, "auth"), req[r].token # None
               PROVE  /\ req'[r].code = "TOKEN_INVALID" =>
                            clock < req[r].token.nbf + Skew
                      /\ req'[r].code = "TOKEN_EXPIRED" =>
                            clock > req[r].token.announced - TicksPerSecond
                      /\ req'[r].pc = "update" =>
                            clock < req[r].token.announced + Skew
    OBVIOUS
  <2> DEFINE t == req[r].token
  <2>1. /\ SoundToken(t) /\ t \in AccessToken /\ req[r] \in Request
        /\ clock \in Nat /\ t.nbf \in Nat /\ t.exp \in Nat /\ t.announced \in Nat
    BY <1>1 DEF AccountInv, LocalsSound, Sound, SoundToken, TypeOK, AccessToken
  <2>2. /\ t.user \in users /\ t.nbf <= clock /\ t.exp <= t.announced
        /\ t.announced < t.exp + TicksPerSecond
    BY <2>1 DEF SoundToken
  <2>3. CASE req'[r] = req[r]
    BY <1>1, <2>3 DEF AccountInv, LocalsSound, Sound, At
  <2>4. CASE req' = [req EXCEPT ![r] = Idle]
    BY <1>1, <2>4 DEF AccountInv, TypeOK, Idle
  <2>5. CASE Authenticate(r)
    <3>0. PICK now \in Clocks :
            \/ \E c \in {"VALIDATION_FAILED", Verdict(t, now)} : Answer(r, c)
            \/ /\ Verdict(t, now) = "OK"
               /\ req' = [req EXCEPT ![r].pc = "update", ![r].user = t.user,
                                     ![r].me = profile[t.user]]
      BY <2>5 DEF Authenticate
    <3>a. now \in Nat /\ now <= clock /\ clock <= now + Skew /\ Skew \in Nat
      BY <2>1, TickAssumption DEF Clocks
    <3>1. Verdict(t, now) = "TOKEN_INVALID" => now < t.nbf
      BY <2>2 DEF Verdict
    <3>2. Verdict(t, now) = "TOKEN_EXPIRED" => now >= t.exp
      BY DEF Verdict
    <3>3. Verdict(t, now) = "OK" => ~(now >= t.exp)
      BY DEF Verdict
    <3>4. CASE \E c \in {"VALIDATION_FAILED", Verdict(t, now)} : Answer(r, c)
      <4>1. PICK c \in {"VALIDATION_FAILED", Verdict(t, now)} : Answer(r, c)
        BY <3>4
      <4>2. req'[r].code = c /\ req'[r].pc = "reply"
        BY <1>1, <4>1 DEF Answer, Idle, AccountInv, TypeOK
      <4> QED
        BY <2>1, <2>2, <3>a, <3>1, <3>2, <4>2, TickAssumption
    <3>5. CASE /\ Verdict(t, now) = "OK"
               /\ req' = [req EXCEPT ![r].pc = "update", ![r].user = t.user,
                                     ![r].me = profile[t.user]]
      <4>1. req'[r].code = "none"
        BY <1>1, <2>1, <3>5 DEF AccountInv, TypeOK, Request, LocalsSound, Sound, At
      <4> QED
        BY <2>1, <2>2, <3>a, <3>3, <3>5, <4>1
    <3> QED
      BY <3>0, <3>4, <3>5
  <2> DEFINE Moved == \/ req'[r] = req[r] \/ req' = [req EXCEPT ![r] = Idle]
                      \/ Authenticate(r)
  <2>6. Moved
    <3>1. ASSUME NEW s \in Requests, s # r, NEW q, req' = [req EXCEPT ![s] = q]
          PROVE  Moved
      BY <1>1, <3>1 DEF AccountInv, TypeOK
    <3>2. ASSUME NEW s \in Requests, Handle(s) \/ Fail(s)
          PROVE  Moved
      <4>1. CASE s = r
        BY <3>2, <4>1 DEF Handle, Create, Lookup, Exchange, StartSession,
           UpdateMe, Reply, Fail, At
      <4>2. CASE s # r
        BY <1>1, <3>2, <4>2 DEF Handle, Create, Lookup, Exchange, StartSession,
           Authenticate, UpdateMe, Reply, Fail, Answer, AccountInv, TypeOK
      <4> QED
        BY <4>1, <4>2
    <3>3. ASSUME NEW s \in Requests, At(s, "idle"), NEW q,
                 req' = [req EXCEPT ![s] = q]
          PROVE  Moved
      BY <3>1, <3>3 DEF At
    <3>4. ASSUME NEW s \in Requests, NEW a, NEW p, Login(s, a, p)
          PROVE  Moved
      BY <3>3, <3>4 DEF Login
    <3>5. ASSUME NEW s \in Requests, NEW a, NEW n, NEW p, NEW x,
                 Register(s, a, n, p, x)
          PROVE  Moved
      BY <3>3, <3>5 DEF Register, Answer
    <3>6. ASSUME NEW s \in Requests, NEW x, NEW p, Call(s, x, p)
          PROVE  Moved
      BY <3>3, <3>6 DEF Call
    <3>8. ASSUME NEW s \in Requests, NEW x, Refresh(s, x)
          PROVE  Moved
      BY <3>3, <3>8 DEF Refresh, Answer
    <3>7. CASE Tick \/ UNCHANGED vars
      BY <3>7 DEF Tick, vars
    <3> QED
      BY <1>1, <3>2, <3>4, <3>5, <3>6, <3>7, <3>8 DEF Next
  <2> QED
    BY <2>3, <2>4, <2>5, <2>6
<1>2. AccountInv /\ [Next]_vars => [\A r \in Requests : Apart(r)]_vars
  BY <1>1
<1> QED
  BY <1>2, AccountSafety, PTL DEF Spec, VerdictsApart

\* A profile changes only where a request updates the account of its token.
LEMMA ProfileOwned ==
    ASSUME AccountInv, [Next]_vars, NEW i \in users, profile'[i] # profile[i]
    PROVE  \E r \in Requests : /\ At(r, "update")
                               /\ req[r].token \in known /\ req[r].token.user = i
<1>1. ASSUME NEW r \in Requests, Create(r) PROVE profile'[i] = profile[i]
  BY <1>1 DEF Create, table, AccountInv, TypeOK
<1>2. ASSUME NEW r \in Requests, UpdateMe(r)
      PROVE  /\ At(r, "update") /\ req[r].user = i
             /\ req[r].token \in known /\ req[r].token.user = i
  <2>1. At(r, "update") /\ Sound(req[r])
    BY <1>2 DEF UpdateMe, AccountInv, LocalsSound
  <2>2. req[r].user = i
    BY <1>2 DEF UpdateMe, AccountInv, TypeOK
  <2> QED
    BY <2>1, <2>2 DEF Sound, At
<1>3. ASSUME NEW r \in Requests, Handle(r) \/ Fail(r), ~UpdateMe(r)
      PROVE  profile'[i] = profile[i]
  BY <1>1, <1>3 DEF Handle, Lookup, Exchange, StartSession, Authenticate, Reply,
     Fail, table
<1>4. ASSUME NEW r \in Requests, NEW a, NEW p, Login(r, a, p) \/ Call(r, a, p)
      PROVE  profile'[i] = profile[i]
  BY <1>4 DEF Login, Call, table
<1>5. ASSUME NEW r \in Requests, NEW a, NEW n, NEW p, NEW x,
             Register(r, a, n, p, x)
      PROVE  profile'[i] = profile[i]
  BY <1>5 DEF Register, table
<1>8. ASSUME NEW r \in Requests, NEW t, Refresh(r, t)
      PROVE  profile'[i] = profile[i]
  BY <1>8 DEF Refresh, table
<1>6. ~Tick /\ ~UNCHANGED vars
  BY DEF Tick, vars, table
<1>7. PICK r \in Requests : UpdateMe(r)
  <2>1. Next
    BY <1>6
  <2> QED
    BY <1>3, <1>4, <1>5, <1>6, <1>8, <2>1, Zenon DEF Next
<1> QED
  BY <1>2, <1>7

\* A request comes by a token in three ways only.
LEMMA TokenOwned ==
    ASSUME AccountInv, [Next]_vars, NEW r \in Requests,
           req'[r].token \notin {None, req[r].token}
    PROVE  \/ At(r, "idle") /\ req'[r].token \in known
           \/ /\ At(r, "start")
              /\ \/ /\ email[req'[r].token.user] = req[r].email
                    /\ hash[req'[r].token.user] = req[r].password
                 \/ /\ req[r].token \in known
                    /\ req[r].token.user = req'[r].token.user
<1> DEFINE Owned == \/ At(r, "idle") /\ req'[r].token \in known
                    \/ /\ At(r, "start")
                       /\ \/ /\ email[req'[r].token.user] = req[r].email
                             /\ hash[req'[r].token.user] = req[r].password
                          \/ /\ req[r].token \in known
                             /\ req[r].token.user = req'[r].token.user
<1>0. req \in [Requests -> Request] /\ Sound(req[r])
  BY DEF AccountInv, TypeOK, LocalsSound
<1>1. ASSUME NEW s \in Requests, s # r, NEW q, req' = [req EXCEPT ![s] = q]
      PROVE  FALSE
  BY <1>0, <1>1
<1>2. ASSUME NEW s \in Requests, NEW c, Answer(s, c) PROVE FALSE
  <2>1. s = r
    BY <1>1, <1>2 DEF Answer
  <2>2. req'[r].token = None
    BY <1>0, <1>2, <2>1 DEF Answer, Idle
  <2> QED
    BY <2>2
<1>3. ASSUME NEW s \in Requests,
             Lookup(s) \/ Create(s) \/ Exchange(s) \/ Authenticate(s)
      PROVE  FALSE
  <2>1. ASSUME NEW i, req' = [req EXCEPT ![s].pc = "start", ![s].user = i]
        PROVE  FALSE
    BY <1>0, <2>1 DEF Request
  <2>2. ASSUME NEW u, NEW m,
               req' = [req EXCEPT ![s].pc = "update", ![s].user = u, ![s].me = m]
        PROVE  FALSE
    BY <1>0, <2>2 DEF Request
  <2> QED
    BY <1>2, <1>3, <2>1, <2>2 DEF Lookup, Create, Exchange, Authenticate
<1>4. ASSUME NEW s \in Requests, UpdateMe(s) \/ Reply(s) \/ Fail(s) PROVE FALSE
  <2>1. CASE UpdateMe(s)
    BY <1>2, <2>1 DEF UpdateMe
  <2>2. CASE req' = [req EXCEPT ![s] = Idle]
    <3>1. s = r
      BY <1>1, <2>2
    <3> QED
      BY <1>0, <2>2, <3>1 DEF Idle
  <2> QED
    BY <1>4, <2>1, <2>2 DEF Reply, Fail
<1>5. ASSUME NEW s \in Requests, StartSession(s) PROVE Owned
  <2>1. PICK now \in Clocks :
          req' = [req EXCEPT ![s] = [Idle EXCEPT !.pc = "reply", !.code = "OK",
                                       !.token = Signed(req[s].user, now)]]
    BY <1>5 DEF StartSession
  <2>2. s = r
    BY <1>1, <2>1
  <2>3. req'[r].token.user = req[r].user
    BY <1>0, <2>1, <2>2 DEF Idle, Signed
  <2> QED
    BY <1>0, <1>5, <2>2, <2>3 DEF StartSession, Sound, At
<1>6. ASSUME NEW s \in Requests, NEW t \in known \cup {None}, NEW p,
             Call(s, t, p)
      PROVE  Owned
  <2>1. s = r
    BY <1>1, <1>6 DEF Call
  <2>2. req'[r].token = t
    BY <1>0, <1>6, <2>1 DEF Call, Idle
  <2> QED
    BY <1>6, <2>1, <2>2 DEF Call
<1>11. ASSUME NEW s \in Requests, NEW t \in known \cup {None}, Refresh(s, t)
       PROVE  Owned
  <2>1. req' = [req EXCEPT ![s] = [Idle EXCEPT !.pc = "exchange", !.token = t]]
    BY <1>2, <1>11 DEF Refresh
  <2>2. s = r
    BY <1>1, <2>1
  <2>3. req'[r].token = t
    BY <1>0, <2>1, <2>2 DEF Idle
  <2> QED
    BY <1>11, <2>2, <2>3 DEF Refresh
<1>7. ASSUME NEW s \in Requests, NEW a, NEW p, Login(s, a, p) PROVE FALSE
  <2>1. s = r
    BY <1>1, <1>7 DEF Login
  <2> QED
    BY <1>0, <1>7, <2>1 DEF Login, Idle
<1>8. ASSUME NEW s \in Requests, NEW a, NEW n, NEW p, NEW x,
             Register(s, a, n, p, x)
      PROVE  FALSE
  <2> DEFINE q == [Idle EXCEPT !.pc = "create", !.email = Email(a),
                     !.username = n, !.password = p,
                     !.patch = [name |-> x, bio |-> Absent]]
  <2>1. q.token = None
    BY DEF Idle
  <2>2. req' = [req EXCEPT ![s] = q]
    BY <1>2, <1>8 DEF Register
  <2> HIDE DEF q
  <2> QED
    BY <1>0, <1>1, <2>1, <2>2
<1>9. ~UNCHANGED req
  OBVIOUS
<1>10. CASE Next
  <2> HIDE DEF Owned
  <2>1. ~Tick
    BY <1>9 DEF Tick
  <2>2. ASSUME NEW s \in Requests, Handle(s) \/ Fail(s) PROVE Owned
    BY <1>3, <1>4, <1>5, <2>2 DEF Handle
  <2> QED
    <3>1. \/ \E s \in Requests, t \in known \cup {None} :
                Refresh(s, t) \/ \E p \in Patch : Call(s, t, p)
          \/ \E s \in Requests : Handle(s) \/ Fail(s)
      BY <1>7, <1>8, <1>10, <2>1, Zenon DEF Next
    <3>2. Owned
      BY <1>6, <1>11, <2>2, <3>1
    <3> QED
      BY <3>2 DEF Owned
<1> QED
  BY <1>9, <1>10 DEF vars

\* Nobody acts for another: from the invariant, because what start and update
\* work for was settled by the credentials, the refresh token or the access
\* token of the same request.
THEOREM OwnerSafety == Spec => OwnersOnly
<1>1. AccountInv /\ [Next]_vars =>
        [/\ \A i \in users : profile'[i] # profile[i] =>
              \E r \in Requests : /\ At(r, "update")
                                  /\ req[r].token \in known /\ req[r].token.user = i
         /\ \A r \in Requests : LET t == req'[r].token IN
              t \notin {None, req[r].token} =>
                  \/ At(r, "idle") /\ t \in known
                  \/ /\ At(r, "start")
                     /\ \/ /\ email[t.user] = req[r].email
                           /\ hash[t.user] = req[r].password
                        \/ req[r].token \in known /\ req[r].token.user = t.user]_vars
  BY ProfileOwned, TokenOwned
<1> QED
  BY <1>1, AccountSafety, PTL DEF Spec, OwnersOnly
===============================================================================
