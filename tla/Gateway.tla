------------------------------ MODULE Gateway ------------------------------
(***************************************************************************)
(* The way of a request through Server.Handler (internal/api/api.go): the  *)
(* limiter around every route, the tighter limiter around the credential   *)
(* endpoints, the handler.  Allow of each limiter is a step of its own, so *)
(* requests with one key overtake each other between the two.  The key is  *)
(* the first X-Forwarded-For entry as it arrives: a router appends to what *)
(* a client sent, so a client may appear under any address.                *)
(*                                                                         *)
(* /healthz is behind the first limiter like every other route.  A probe   *)
(* with an address of its own that waits for its answer and then rests is  *)
(* modelled beside ordinary clients.  Preflights are answered by WithCORS  *)
(* before any limiter and leave no trace.                                  *)
(***************************************************************************)
EXTENDS RateLimiter

CONSTANTS
    Requests,          \* requests in flight at once
    Routes,            \* routes of the table that are asked for
    Proxy,             \* the address of the platform's router
    TrustProxyHeader,  \* TRUST_PROXY_HEADER
    Probers,           \* clients that probe /healthz and nothing else
    Interval,          \* how long they rest between an answer and a probe
    NoClient

ASSUME LimitersAssumption == Limiters = {"api", "auth"}
ASSUME RoutesAssumption == "healthz" \in Routes
ASSUME ClientAssumption ==
    /\ Proxy \in Clients /\ NoClient \notin Clients
    /\ Probers \subseteq Clients \ {Proxy}
    /\ Interval \in Nat

\* Probes have buckets of their own only if the address the router forwards
\* is believed ("Must be true here", render.yaml), and rest long enough for
\* one request to be refilled.
ASSUME ProbeAssumption ==
    Probers # {} => /\ TrustProxyHeader
                    /\ \A c \in Probers : Rate(<<"api", c>>) * Interval >= Cost

\* RATE_LIMIT_PER_MIN is at least one request a second (120 by default).
ASSUME SustainedAssumption == \A c \in Clients : Rate(<<"api", c>>) >= Cost

VARIABLES
    req,         \* request -> where it is, whose it is, what it asks for
    nextProbe,   \* prober -> when it has rested
    \* history
    borrowed,    \* addresses somebody else has sent as the first entry
    attempts,    \* key -> credential requests handled since the window of its
                 \* "auth" bucket was opened
    promise      \* key -> when the credential limiter told it to come back,
                 \* while no request of it was let in since

requests == <<req, nextProbe, borrowed, attempts, promise>>
vars == <<limiters, requests>>

\* The credential endpoints, "the ones worth brute-forcing".
Credentials == {"register", "login", "refresh"}

Request == [pc : {"idle", "limit", "credentials", "handler", "refused"},
            client : Clients \cup {NoClient}, fwd : Clients \cup {NoClient},
            route : Routes]
NoRequest ==
    [pc |-> "idle", client |-> NoClient, fwd |-> NoClient, route |-> "healthz"]

At(q, pc) == req[q].pc = pc
Goto(q, pc) == req' = [req EXCEPT ![q].pc = pc]

Init ==
    /\ LimiterInit
    /\ req = [q \in Requests |-> NoRequest]
    /\ nextProbe = [c \in Probers |-> 0]
    /\ borrowed = {}
    /\ attempts = [c \in Clients |-> 0]
    /\ promise = [c \in Clients |-> Never]

-----------------------------------------------------------------------------
\* ClientIP: the forwarded address if there is one and it is believed, else
\* the peer's.
PeerAddress(fwd) == Proxy
ClientKey(fwd) == IF TrustProxyHeader /\ fwd # NoClient THEN fwd ELSE Proxy

\* The routes wrapped in credentials(...).
RefreshUnwrapped(route) == route \in {"register", "login"}
Wrapped(route) == route \in {"register", "login", "refresh"}

\* The handler is entered.
Enter(q) ==
    /\ Goto(q, "handler")
    /\ LET k == ClientKey(req[q].fwd)
       IN attempts' = IF req[q].route \in Credentials
                         /\ windowStart[<<"auth", k>>] # Never
                      THEN [attempts EXCEPT ![k] = @ + 1] ELSE attempts

\* A probe follows the previous one's answer at a distance.
Rested(c) ==
    /\ clock >= nextProbe[c]
    /\ \A q \in Requests : req[q].client # c

Arrive(q, c, fwd, route) ==
    /\ At(q, "idle")
    /\ c \in Probers => fwd = c /\ route = "healthz" /\ Rested(c)
    /\ req' = [req EXCEPT ![q] =
                    [pc |-> "limit", client |-> c, fwd |-> fwd, route |-> route]]
    /\ borrowed' = borrowed \cup ({fwd} \ {c, NoClient})
    /\ UNCHANGED <<limiters, nextProbe, attempts, promise>>

\* s.limiter.Middleware.
Limit(q) ==
    /\ At(q, "limit")
    /\ LET k == ClientKey(req[q].fwd)
       IN \/ /\ Grant(<<"api", k>>)
             /\ promise' = [promise EXCEPT ![k] = Never]
             /\ \/ /\ Wrapped(req[q].route)
                   /\ Goto(q, "credentials")
                   /\ UNCHANGED attempts
                \/ ~Wrapped(req[q].route) /\ Enter(q)
          \/ /\ Refuse(<<"api", k>>)
             /\ Goto(q, "refused")
             /\ UNCHANGED <<attempts, promise>>
    /\ UNCHANGED <<nextProbe, borrowed>>

\* s.authLimiter.Middleware.
LimitCredentials(q) ==
    /\ At(q, "credentials")
    /\ LET k == ClientKey(req[q].fwd)
       IN \/ /\ Grant(<<"auth", k>>)
             /\ Enter(q)
             /\ UNCHANGED promise
          \/ /\ Refuse(<<"auth", k>>)
             /\ Goto(q, "refused")
             /\ promise' = [promise EXCEPT ![k] =
                    IF @ = Never THEN clock + RetryAfter(<<"auth", k>>) ELSE @]
             /\ UNCHANGED attempts
    /\ UNCHANGED <<nextProbe, borrowed>>

\* The handler answers, or panics and WithRecovery does; or 429 is written.
Respond(q) ==
    /\ At(q, "handler") \/ At(q, "refused")
    /\ req' = [req EXCEPT ![q] = NoRequest]
    /\ nextProbe' = [c \in Probers |-> IF c = req[q].client
                                       THEN clock + Interval ELSE nextProbe[c]]
    /\ UNCHANGED <<limiters, borrowed, attempts, promise>>

\* Everything that happens without a request.
Observe(b) ==
    /\ OpenWindow(b)
    /\ attempts' = IF b[1] = "auth" THEN [attempts EXCEPT ![b[2]] = 0]
                                    ELSE attempts
    /\ UNCHANGED <<req, nextProbe, borrowed, promise>>

StartReaper(l) == Reap(l) /\ UNCHANGED requests

Elapse == Tick /\ UNCHANGED requests

Next ==
    \/ \E q \in Requests, c \in Clients \ {Proxy},
          fwd \in Clients \cup {NoClient}, route \in Routes :
            Arrive(q, c, fwd, route)
    \/ \E q \in Requests : Limit(q) \/ LimitCredentials(q) \/ Respond(q)
    \/ \E b \in Buckets : Observe(b)
    \/ \E l \in Limiters : StartReaper(l)
    \/ Elapse

Spec == Init /\ [][Next]_vars

-----------------------------------------------------------------------------
\* Properties.

\* Every variable keeps its type; a request past the first limiter is someone's.
TypeOK ==
    /\ LimiterTypeOK
    /\ req \in [Requests -> Request]
    /\ nextProbe \in [Probers -> Nat]
    /\ borrowed \subseteq Clients
    /\ attempts \in [Clients -> Nat]
    /\ promise \in [Clients -> Nat \cup {Never}]
    /\ \A q \in Requests : ~At(q, "idle") => req[q].client \in Clients

\* Brute force is bounded: over any window of time, whatever endpoints are
\* mixed, however requests overlap and whoever sends them, the credential
\* handlers run for requests under one address at most as often as the
\* credential budget allows.
CredentialBudget ==
    \A c \in Clients : windowStart[<<"auth", c>>] # Never =>
        Cost * attempts[c] <= Capacity(<<"auth", c>>) +
            Rate(<<"auth", c>>) * (clock - windowStart[<<"auth", c>>])

\* Whoever is sent away by either limiter and comes back when Retry-After said,
\* while nothing was let in under the same address meanwhile, is served:
\* neither the limiter that sent it away nor the one before it refuses it.
PatientServed ==
    [][/\ \A b \in Buckets :
            retryAt[b] # Never /\ clock >= retryAt[b] => ~Refuse(b)
       /\ \A c \in Clients :
            promise[c] # Never /\ clock >= promise[c]
                => ~Refuse(<<"api", c>>)]_vars

\* A probe is never answered 429 unless somebody else has sent its address as
\* their own: other clients' load alone, whatever else they put into the
\* header, never makes the platform take a busy process for a dead one.
ProbeServed ==
    \A q \in Requests :
        req[q].client \in Probers \ borrowed => ~At(q, "refused")

\* What the handlers ran for is what the credential limiter granted.
AttemptsGranted ==
    /\ \A c \in Clients : attempts[c] = granted[<<"auth", c>>]
    /\ \A q \in Requests : At(q, "credentials") => Wrapped(req[q].route)

\* At the promised instant the first limiter has a request's worth as well.
PromiseCovered ==
    \A c \in Clients : promise[c] # Never => Covers(<<"api", c>>, promise[c])

\* A prober has one probe at a time and nobody else its address, and its bucket
\* was last used no later than Interval before the next one.
Spaced(c) ==
    /\ \A q, s \in Requests :
        req[q].client = c /\ req[s].client = c => q = s
    /\ \A q \in Requests : req[q].fwd = c => req[q].client = c
    /\ \A q \in Requests : req[q].client = c =>
        /\ req[q].route = "healthz" /\ ~At(q, "idle") /\ req[q].fwd = c
        /\ At(q, "limit") => nextProbe[c] <= clock
    /\ (\A q \in Requests : req[q].client = c => At(q, "limit")) =>
        (<<"api", c>> \in buckets => lastSeen[<<"api", c>>] + Interval <= nextProbe[c])

\* The inductive invariant.
GatewayInv ==
    /\ TypeOK /\ BudgetInv /\ PromiseInv
    /\ AttemptsGranted /\ PromiseCovered /\ ProbeServed
    /\ \A c \in Probers \ borrowed : Spaced(c)
=============================================================================
