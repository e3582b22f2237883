--------------------------- MODULE GatewayProofs ---------------------------
(***************************************************************************)
(* Proofs about Gateway for any requests, clients, probers, routes and     *)
(* budgets that satisfy its assumptions.                                   *)
(*                                                                         *)
(* Every step of the gateway is a step of the limiters or leaves them      *)
(* alone, so what RateLimiterProofs shows of each bucket carries over.     *)
(* What is new relates the two limiters: the credential handlers run once  *)
(* per grant, a promise of the second limiter is covered by the first, and *)
(* a prober that rests, and whose address nobody else has sent, finds its  *)
(* bucket refilled.                                                        *)
(***************************************************************************)
EXTENDS Gateway, RateLimiterProofs

\* A client's buckets in the two limiters are two, and its own.
LEMMA BucketsApart ==
    ASSUME NEW c \in Clients, NEW d \in Clients
    PROVE  /\ <<"api", c>> \in Buckets /\ <<"auth", c>> \in Buckets
           /\ <<"api", c>> # <<"auth", d>>
           /\ <<"api", c>> = <<"api", d>> => c = d
           /\ <<"auth", c>> = <<"auth", d>> => c = d
BY LimitersAssumption DEF Buckets

\* ClientIP returns some address, a prober's only if it was sent.
LEMMA KeyOfClient ==
    ASSUME NEW fwd \in Clients \cup {NoClient}
    PROVE  /\ ClientKey(fwd) \in Clients
           /\ \A c \in Probers : ClientKey(fwd) = c <=> fwd = c
BY ClientAssumption, ProbeAssumption DEF ClientKey

\* Grant and Refuse touch one bucket.
LEMMA OtherBuckets ==
    ASSUME LimiterTypeOK, NEW b \in Buckets, Grant(b) \/ Refuse(b)
    PROVE  /\ clock' = clock /\ windowStart' = windowStart
           /\ \A d \in Buckets \ {b} :
                /\ d \in buckets' <=> d \in buckets
                /\ tokens'[d] = tokens[d] /\ lastSeen'[d] = lastSeen[d]
                /\ granted'[d] = granted[d]
BY DEF Grant, Refuse, LimiterTypeOK

\* The gateway moves its buckets only as the limiters do.
LEMMA NextLimiter == TypeOK /\ [Next]_vars => [LimiterNext]_limiters
<1> SUFFICES ASSUME TypeOK, [Next]_vars PROVE [LimiterNext]_limiters
  OBVIOUS
<1>1. ASSUME NEW q \in Requests, Limit(q) \/ LimitCredentials(q)
      PROVE  LimiterNext
  <2> DEFINE k == ClientKey(req[q].fwd)
  <2>1. req[q].fwd \in Clients \cup {NoClient}
    BY DEF TypeOK, Request
  <2>2. k \in Clients /\ <<"api", k>> \in Buckets /\ <<"auth", k>> \in Buckets
    BY <2>1, KeyOfClient, BucketsApart
  <2>3. \/ Grant(<<"api", k>>) \/ Refuse(<<"api", k>>)
        \/ Grant(<<"auth", k>>) \/ Refuse(<<"auth", k>>)
    BY <1>1 DEF Limit, LimitCredentials
  <2> HIDE DEF k
  <2> QED
    BY <2>2, <2>3 DEF LimiterNext
<1>2. CASE \E q \in Requests, c \in Clients \ {Proxy},
              fwd \in Clients \cup {NoClient}, route \in Routes :
                Arrive(q, c, fwd, route)
  BY <1>2 DEF Arrive
<1>3. CASE \E q \in Requests : Respond(q)
  BY <1>3 DEF Respond
<1>4. CASE \E b \in Buckets : Observe(b)
  BY <1>4 DEF Observe, LimiterNext
<1>5. CASE \E l \in Limiters : StartReaper(l)
  BY <1>5 DEF StartReaper, LimiterNext
<1>6. CASE Elapse
  BY <1>6 DEF Elapse, LimiterNext
<1>7. CASE UNCHANGED vars
  BY <1>7 DEF vars
<1> QED
  BY <1>1, <1>2, <1>3, <1>4, <1>5, <1>6, <1>7 DEF Next

\* What a step of either limiter's middleware does to the gateway's own state.
LEMMA Passing ==
    ASSUME TypeOK, NEW q \in Requests, Limit(q) \/ LimitCredentials(q)
    PROVE  /\ req[q].client \in Clients /\ ClientKey(req[q].fwd) \in Clients
           /\ nextProbe' = nextProbe /\ borrowed' = borrowed
           /\ \E pc \in {"credentials", "handler", "refused"} :
                req' = [req EXCEPT ![q].pc = pc]
           /\ req'[q].client = req[q].client /\ req'[q].fwd = req[q].fwd
           /\ req'[q].route = req[q].route
           /\ req'[q].pc \in {"credentials", "handler", "refused"}
           /\ \A s \in Requests : s # q => req'[s] = req[s]
<1>1. req[q].client \in Clients
  BY DEF TypeOK, Limit, LimitCredentials, At
<1>2. /\ nextProbe' = nextProbe /\ borrowed' = borrowed
      /\ \E pc \in {"credentials", "handler", "refused"} :
            req' = [req EXCEPT ![q].pc = pc]
  BY DEF Limit, LimitCredentials, Goto, Enter
<1>3. req[q] \in Request
  BY DEF TypeOK
<1>4. /\ req'[q].client = req[q].client /\ req'[q].fwd = req[q].fwd
      /\ req'[q].route = req[q].route
      /\ req'[q].pc \in {"credentials", "handler", "refused"}
      /\ \A s \in Requests : s # q => req'[s] = req[s]
  BY <1>2, <1>3 DEF TypeOK, Request
<1>5. req[q].fwd \in Clients \cup {NoClient}
  BY <1>3 DEF Request
<1> QED
  BY <1>1, <1>2, <1>4, <1>5, KeyOfClient

\* Goto moves the request.
LEMMA GotoMoves ==
    ASSUME TypeOK, NEW q \in Requests, NEW pc, Goto(q, pc)
    PROVE  req'[q].pc = pc
<1>1. req[q] \in Request /\ req \in [Requests -> Request]
  BY DEF TypeOK
<1> QED
  BY <1>1 DEF Goto, Request

\* Types are kept.
LEMMA NextType ==
    ASSUME TypeOK, BudgetInv', [Next]_vars
    PROVE  TypeOK'
<1>1. LimiterTypeOK'
  BY DEF BudgetInv
<1>2. ASSUME NEW q \in Requests, Limit(q) \/ LimitCredentials(q)
      PROVE  TypeOK'
  <2> DEFINE k == ClientKey(req[q].fwd)
  <2>1. /\ req[q].client \in Clients /\ k \in Clients
        /\ nextProbe' = nextProbe /\ borrowed' = borrowed
        /\ \E pc \in {"credentials", "handler", "refused"} :
                req' = [req EXCEPT ![q].pc = pc]
    BY <1>2, Passing
  <2>2. req' \in [Requests -> Request]
    BY <2>1 DEF TypeOK, Request
  <2>3. \A s \in Requests : ~At(s, "idle")' => req'[s].client \in Clients
    BY <1>2, <2>1, Passing DEF TypeOK, At
  <2>4. attempts' \in [Clients -> Nat]
    <3>1. attempts' = attempts \/ attempts' = [attempts EXCEPT ![k] = @ + 1]
      BY <1>2 DEF Limit, LimitCredentials, Enter
    <3> QED
      BY <2>1, <3>1 DEF TypeOK
  <2>5. promise' \in [Clients -> Nat \cup {Never}]
    <3>1. ASSUME Refuse(<<"auth", k>>)
          PROVE  clock + RetryAfter(<<"auth", k>>) \in Nat
      <4>1. <<"auth", k>> \in Buckets
        BY <2>1, BucketsApart
      <4>2. Refilled(<<"auth", k>>) \in 0..Capacity(<<"auth", k>>)
        BY <4>1, RefillBounded DEF TypeOK
      <4>3. RetryAfter(<<"auth", k>>) \in Nat
        BY <3>1, <4>1, <4>2, WaitSuffices DEF Refuse
      <4> QED
        BY <4>3 DEF TypeOK, LimiterTypeOK
    <3>2. \/ promise' = promise
          \/ promise' = [promise EXCEPT ![k] = Never]
          \/ /\ Refuse(<<"auth", k>>)
             /\ promise' = [promise EXCEPT ![k] =
                    IF @ = Never THEN clock + RetryAfter(<<"auth", k>>) ELSE @]
      BY <1>2 DEF Limit, LimitCredentials
    <3> QED
      BY <2>1, <3>1, <3>2 DEF TypeOK
  <2> QED
    BY <1>1, <2>1, <2>2, <2>3, <2>4, <2>5 DEF TypeOK
<1>3. ASSUME NEW q \in Requests, NEW c \in Clients \ {Proxy},
             NEW fwd \in Clients \cup {NoClient}, NEW route \in Routes,
             Arrive(q, c, fwd, route)
      PROVE  TypeOK'
  BY <1>1, <1>3 DEF TypeOK, Arrive, Request, At
<1>4. ASSUME NEW q \in Requests, Respond(q) PROVE TypeOK'
  <2>1. NoRequest \in Request /\ NoRequest.pc = "idle"
    BY RoutesAssumption DEF NoRequest, Request
  <2>2. clock + Interval \in Nat
    BY ClientAssumption DEF TypeOK, LimiterTypeOK
  <2>3. nextProbe' \in [Probers -> Nat]
    BY <1>4, <2>2 DEF Respond, TypeOK
  <2> QED
    BY <1>1, <1>4, <2>1, <2>3 DEF TypeOK, Respond, At
<1>5. ASSUME NEW b \in Buckets, Observe(b) PROVE TypeOK'
  <2>1. attempts' \in [Clients -> Nat]
    BY <1>5 DEF Observe, TypeOK, Buckets
  <2> QED
    BY <1>1, <1>5, <2>1 DEF TypeOK, Observe, At
<1>6. CASE UNCHANGED requests
  BY <1>1, <1>6 DEF TypeOK, requests, At
<1> QED
  BY <1>2, <1>3, <1>4, <1>5, <1>6 DEF Next, vars, StartReaper, Elapse

\* The credential handlers run once per grant of the credential limiter.
LEMMA NextAttempts ==
    ASSUME TypeOK, AttemptsGranted, [Next]_vars
    PROVE  AttemptsGranted'
<1> USE DEF AttemptsGranted
<1>1. ASSUME NEW q \in Requests, Limit(q) PROVE AttemptsGranted'
  <2> DEFINE k == ClientKey(req[q].fwd)
  <2>1. k \in Clients
    BY <1>1, Passing
  <2>2. \A c \in Clients : granted'[<<"auth", c>>] = granted[<<"auth", c>>]
    <3>1. Grant(<<"api", k>>) \/ Refuse(<<"api", k>>)
      BY <1>1 DEF Limit
    <3> QED
      BY <2>1, <3>1, BucketsApart, OtherBuckets DEF TypeOK
  <2>3. attempts' = attempts
    BY <1>1 DEF Limit, Enter, Wrapped, Credentials
  <2>4. req'[q].pc = "credentials" => Wrapped(req[q].route)
    <3>1. CASE Wrapped(req[q].route)
      BY <3>1
    <3>2. CASE Goto(q, "handler") \/ Goto(q, "refused")
      BY <3>2, GotoMoves
    <3> QED
      BY <1>1, <3>1, <3>2 DEF Limit, Enter
  <2> QED
    BY <1>1, <2>2, <2>3, <2>4, Passing DEF At, Wrapped
<1>2. ASSUME NEW q \in Requests, LimitCredentials(q) PROVE AttemptsGranted'
  <2> DEFINE k == ClientKey(req[q].fwd)
             b == <<"auth", k>>
  <2>1. k \in Clients /\ b \in Buckets
    BY <1>2, Passing, BucketsApart
  <2>2. req[q].route \in Credentials
    BY <1>2 DEF LimitCredentials, Wrapped, Credentials
  <2>3. req'[q].pc # "credentials"
    <3>1. Goto(q, "handler") \/ Goto(q, "refused")
      BY <1>2 DEF LimitCredentials, Enter
    <3> QED
      BY <3>1, GotoMoves
  <2>4. \A c \in Clients \ {k} : granted'[<<"auth", c>>] = granted[<<"auth", c>>]
    <3>1. Grant(b) \/ Refuse(b)
      BY <1>2 DEF LimitCredentials
    <3> QED
      BY <2>1, <3>1, BucketsApart, OtherBuckets DEF TypeOK
  <2>5. CASE Grant(b) /\ Enter(q)
    <3>1. granted'[b] = IF windowStart[b] = Never THEN granted[b] ELSE granted[b] + 1
      BY <2>1, <2>5 DEF Grant, TypeOK, LimiterTypeOK
    <3>2. attempts' = IF windowStart[b] = Never THEN attempts
                      ELSE [attempts EXCEPT ![k] = @ + 1]
      BY <2>2, <2>5 DEF Enter
    <3>3. \A c \in Clients : attempts'[c] = granted'[<<"auth", c>>]
      BY <2>1, <2>4, <3>1, <3>2 DEF TypeOK
    <3> QED
      BY <1>2, <2>3, <3>3, Passing DEF At
  <2>6. CASE Refuse(b) /\ UNCHANGED attempts
    BY <1>2, <2>3, <2>4, <2>6, Passing DEF At, Refuse
  <2> QED
    BY <1>2, <2>5, <2>6 DEF LimitCredentials
<1>3. ASSUME NEW b \in Buckets, Observe(b) PROVE AttemptsGranted'
  <2>1. b = <<b[1], b[2]>> /\ b[1] \in {"api", "auth"} /\ b[2] \in Clients
    BY LimitersAssumption DEF Buckets
  <2>2. granted' = [granted EXCEPT ![b] = 0]
    BY <1>3 DEF Observe, OpenWindow
  <2>3. \A c \in Clients : attempts'[c] = granted'[<<"auth", c>>]
    <3>1. CASE b[1] = "auth"
      <4>1. attempts' = [attempts EXCEPT ![b[2]] = 0]
        BY <1>3, <3>1 DEF Observe
      <4> QED
        BY <2>1, <2>2, <3>1, <4>1, BucketsApart DEF TypeOK, LimiterTypeOK
    <3>2. CASE b[1] = "api"
      <4>1. attempts' = attempts
        BY <1>3, <3>2 DEF Observe
      <4> QED
        BY <2>1, <2>2, <3>2, <4>1, BucketsApart DEF TypeOK, LimiterTypeOK
    <3> QED
      BY <2>1, <3>1, <3>2
  <2> QED
    BY <1>3, <2>3 DEF Observe, At
<1>4. ASSUME UNCHANGED <<attempts, granted>>,
             \A q \in Requests : At(q, "credentials")' =>
                At(q, "credentials") /\ req'[q].route = req[q].route
      PROVE  AttemptsGranted'
  BY <1>4 DEF Wrapped
<1>5. ASSUME NEW q \in Requests, NEW c \in Clients \ {Proxy},
             NEW fwd \in Clients \cup {NoClient}, NEW route \in Routes,
             Arrive(q, c, fwd, route)
      PROVE  AttemptsGranted'
  BY <1>4, <1>5 DEF Arrive, At, TypeOK, limiters
<1>6. ASSUME NEW q \in Requests, Respond(q) PROVE AttemptsGranted'
  BY <1>4, <1>6 DEF Respond, At, TypeOK, limiters, NoRequest
<1>7. CASE \E l \in Limiters : StartReaper(l)
  BY <1>4, <1>7 DEF StartReaper, Reap, requests, At
<1>8. CASE Elapse
  BY <1>4, <1>8 DEF Elapse, Tick, requests, At
<1>9. CASE UNCHANGED vars
  BY <1>4, <1>9 DEF vars, requests, limiters, At
<1> QED
  BY <1>1, <1>2, <1>3, <1>5, <1>6, <1>7, <1>8, <1>9 DEF Next

\* A wait the credential limiter asks for is long enough for the first one.
LEMMA WaitCovers ==
    ASSUME LimiterTypeOK, NEW k \in Clients, Refuse(<<"auth", k>>)
    PROVE  Covers(<<"api", k>>, clock + RetryAfter(<<"auth", k>>))
<1> DEFINE b == <<"api", k>>
           w == RetryAfter(<<"auth", k>>)
<1>1. b \in Buckets /\ <<"auth", k>> \in Buckets
  BY BucketsApart
<1>2. w \in Nat /\ w >= 1
  BY <1>1, RefillBounded, WaitSuffices DEF Refuse
<1>3. /\ clock \in Nat /\ lastSeen[b] \in Nat /\ lastSeen[b] <= clock
      /\ tokens[b] \in Nat
  BY <1>1 DEF LimiterTypeOK
<1>4. Rate(b) \in Nat /\ Rate(b) >= Cost /\ Cost \in Nat
  BY <1>1, Configured, SustainedAssumption
<1> SUFFICES tokens[b] + Rate(b) * ((clock + w) - lastSeen[b]) >= Cost
  BY DEF Covers
<1> HIDE DEF b, w
<1>5. (clock + w) - lastSeen[b] \in Nat /\ (clock + w) - lastSeen[b] >= 1
  BY <1>2, <1>3
<1>6. \A n \in Nat : n >= 1 => Rate(b) * n >= Rate(b) /\ Rate(b) * n \in Nat
  BY <1>4
<1> QED
  BY <1>3, <1>4, <1>5, <1>6

\* Promises of the credential limiter stay covered by the first.
LEMMA NextPromise ==
    ASSUME TypeOK, PromiseCovered, [Next]_vars
    PROVE  PromiseCovered'
<1> USE DEF PromiseCovered
<1>1. ASSUME NEW q \in Requests, Limit(q) PROVE PromiseCovered'
  <2>1. PICK k \in Clients : k = ClientKey(req[q].fwd)
    BY <1>1, Passing
  <2>2. <<"api", k>> \in Buckets
    BY BucketsApart
  <2>3. \/ Grant(<<"api", k>>) /\ promise' = [promise EXCEPT ![k] = Never]
        \/ Refuse(<<"api", k>>) /\ UNCHANGED promise
    BY <1>1, <2>1 DEF Limit
  <2>4. \A c \in Clients \ {k} :
            /\ <<"api", c>> \in buckets' <=> <<"api", c>> \in buckets
            /\ tokens'[<<"api", c>>] = tokens[<<"api", c>>]
            /\ lastSeen'[<<"api", c>>] = lastSeen[<<"api", c>>]
            /\ promise'[c] = promise[c]
    <3>1. \A c \in Clients \ {k} : promise'[c] = promise[c]
      BY <2>3 DEF TypeOK
    <3> QED
      BY <2>2, <2>3, <3>1, BucketsApart, OtherBuckets DEF TypeOK
  <2>5. promise'[k] # Never => Covers(<<"api", k>>, promise[k])'
    <3>1. CASE promise' = [promise EXCEPT ![k] = Never]
      BY <3>1 DEF TypeOK
    <3>2. CASE Refuse(<<"api", k>>) /\ UNCHANGED promise
      <4>1. SUFFICES ASSUME promise[k] # Never
                     PROVE  Covers(<<"api", k>>, promise[k])'
        BY <3>2
      <4>2. PICK at \in Int : at = promise[k] /\ Covers(<<"api", k>>, at)
        <5>1. promise[k] \in Int /\ Covers(<<"api", k>>, promise[k])
          BY <4>1 DEF TypeOK, Covers
        <5> QED
          BY <5>1
      <4>3. Covers(<<"api", k>>, at)'
        BY <2>2, <3>2, <4>2, CoverKept DEF TypeOK
      <4> QED
        BY <3>2, <4>2, <4>3 DEF Covers
    <3> QED
      BY <2>3, <3>1, <3>2
  <2> QED
    BY <2>4, <2>5 DEF Covers
<1>2. ASSUME NEW q \in Requests, LimitCredentials(q) PROVE PromiseCovered'
  <2> DEFINE k == ClientKey(req[q].fwd)
  <2>1. k \in Clients
    BY <1>2, Passing
  <2>2. \A c \in Clients :
            /\ <<"api", c>> \in buckets' <=> <<"api", c>> \in buckets
            /\ tokens'[<<"api", c>>] = tokens[<<"api", c>>]
            /\ lastSeen'[<<"api", c>>] = lastSeen[<<"api", c>>]
    <3>1. Grant(<<"auth", k>>) \/ Refuse(<<"auth", k>>)
      BY <1>2 DEF LimitCredentials
    <3> QED
      BY <2>1, <3>1, BucketsApart, OtherBuckets DEF TypeOK
  <2>3. CASE UNCHANGED promise
    BY <2>2, <2>3 DEF Covers
  <2>4. CASE /\ Refuse(<<"auth", k>>)
             /\ promise' = [promise EXCEPT ![k] =
                    IF @ = Never THEN clock + RetryAfter(<<"auth", k>>) ELSE @]
    <3>1. Covers(<<"api", k>>, clock + RetryAfter(<<"auth", k>>))
      BY <2>1, <2>4, WaitCovers DEF TypeOK
    <3>2. \A c \in Clients : promise'[c] # Never => Covers(<<"api", c>>, promise'[c])
      BY <2>1, <2>4, <3>1 DEF TypeOK
    <3> QED
      BY <2>2, <3>2 DEF Covers
  <2> QED
    BY <1>2, <2>3, <2>4 DEF LimitCredentials
<1>3. ASSUME UNCHANGED <<promise, tokens, lastSeen>>, buckets' \subseteq buckets
      PROVE  PromiseCovered'
  BY <1>3 DEF Covers
<1>4. CASE \E q \in Requests, c \in Clients \ {Proxy},
              fwd \in Clients \cup {NoClient}, route \in Routes :
                Arrive(q, c, fwd, route)
  BY <1>3, <1>4 DEF Arrive, limiters, map
<1>5. CASE \E q \in Requests : Respond(q)
  BY <1>3, <1>5 DEF Respond, limiters, map
<1>6. CASE \E b \in Buckets : Observe(b)
  BY <1>3, <1>6 DEF Observe, OpenWindow, map
<1>7. CASE \E l \in Limiters : StartReaper(l)
  BY <1>3, <1>7 DEF StartReaper, Reap, requests
<1>8. CASE Elapse
  BY <1>3, <1>8 DEF Elapse, Tick, requests, map
<1>9. CASE UNCHANGED vars
  BY <1>3, <1>9 DEF vars, requests, limiters, map
<1> QED
  BY <1>1, <1>2, <1>4, <1>5, <1>6, <1>7, <1>8, <1>9 DEF Next

\* A probe that rested finds a request's worth in its bucket.
LEMMA ProbeCovered ==
    ASSUME TypeOK, NEW c \in Probers, Spaced(c),
           NEW q \in Requests, req[q].client = c, At(q, "limit")
    PROVE  Refilled(<<"api", c>>) >= Cost
<1>1. PICK b \in Buckets : b = <<"api", c>>
  BY ClientAssumption, BucketsApart
<1>2. /\ nextProbe[c] <= clock
      /\ b \in buckets => lastSeen[b] + Interval <= nextProbe[c]
  BY <1>1 DEF Spaced
<1>3. /\ clock \in Int /\ lastSeen[b] \in Int /\ Interval \in Int
      /\ tokens[b] \in Nat /\ nextProbe[c] \in Int
  BY ClientAssumption DEF TypeOK, LimiterTypeOK
<1>4. Rate(b) \in Nat /\ Cost \in Nat /\ Rate(b) * Interval >= Cost
  BY <1>1, Configured, ProbeAssumption
<1>5. b \in buckets => clock - lastSeen[b] >= Interval
  BY <1>2, <1>3
<1>6. \A x \in Int : x >= Interval =>
        Rate(b) * x \in Int /\ Rate(b) * x >= Rate(b) * Interval
  BY <1>3, <1>4
<1>7. Rate(b) * Interval \in Int
  BY <1>3, <1>4
<1>8. b \in buckets => tokens[b] + Rate(b) * (clock - lastSeen[b]) >= Cost
  <2>1. SUFFICES ASSUME b \in buckets
                 PROVE  tokens[b] + Rate(b) * (clock - lastSeen[b]) >= Cost
    OBVIOUS
  <2>2. clock - lastSeen[b] \in Int
    BY <1>3
  <2>3. /\ Rate(b) * (clock - lastSeen[b]) \in Int
        /\ Rate(b) * (clock - lastSeen[b]) >= Rate(b) * Interval
    BY <1>5, <1>6, <2>1, <2>2
  <2> QED
    BY <1>3, <1>4, <1>7, <2>3
<1>9. Covers(b, clock)
  BY <1>8 DEF Covers
<1>10. Refilled(b) >= Cost
  BY <1>3, <1>9, CoveredServed DEF TypeOK
<1> QED
  BY <1>1, <1>10

\* Probes stay apart and are served, as long as their address is theirs.
LEMMA NextProbes ==
    ASSUME TypeOK, AttemptsGranted, ProbeServed,
           \A c \in Probers \ borrowed : Spaced(c), [Next]_vars
    PROVE  ProbeServed' /\ \A c \in Probers \ borrowed' : Spaced(c)'
<1>0. borrowed \subseteq borrowed'
  <2>1. ASSUME NEW q \in Requests, Limit(q) \/ LimitCredentials(q)
        PROVE  borrowed' = borrowed
    BY <2>1, Passing
  <2> QED
    BY <2>1 DEF Next, vars, requests, Arrive, Respond, Observe, StartReaper,
       Elapse
<1> SUFFICES ASSUME NEW c \in Probers, c \notin borrowed'
             PROVE  /\ Spaced(c)'
                    /\ \A q \in Requests :
                        req'[q].client = c => req'[q].pc # "refused"
  BY DEF ProbeServed, At
<1>1. /\ c \in Clients /\ c # NoClient /\ c \notin borrowed /\ Spaced(c)
      /\ \A q \in Requests : ClientKey(req[q].fwd) = c <=> req[q].client = c
  <2>1. c \in Clients /\ c # NoClient /\ c \notin borrowed /\ Spaced(c)
    BY <1>0, ClientAssumption
  <2>2. \A q \in Requests : req[q].fwd \in Clients \cup {NoClient}
    BY DEF TypeOK, Request
  <2>3. \A q \in Requests : req[q].fwd = c <=> req[q].client = c
    BY <2>1 DEF Spaced
  <2> QED
    BY <2>1, <2>2, <2>3, KeyOfClient
<1>2. PICK b \in Buckets : b = <<"api", c>>
  BY <1>1, BucketsApart
\* A step that touches neither the prober's requests nor its bucket.
<1>3. ASSUME \A s \in Requests :
                \/ req'[s] = req[s]
                \/ req'[s].client # c /\ req[s].client # c /\ req'[s].fwd # c,
             nextProbe'[c] = nextProbe[c], clock' >= clock,
             b \in buckets' => b \in buckets /\ lastSeen'[b] = lastSeen[b],
             clock' \in Nat
      PROVE  /\ Spaced(c)'
             /\ \A q \in Requests : req'[q].client = c => req'[q].pc # "refused"
  <2>1. nextProbe[c] \in Nat /\ clock \in Nat
    BY DEF TypeOK, LimiterTypeOK
  <2>2. \A s \in Requests : req'[s].client = c => req'[s] = req[s]
    BY <1>3
  <2>3. \A s \in Requests : req[s].client = c => req'[s] = req[s]
    BY <1>3
  <2>4. \A q \in Requests : req'[q].client = c => req'[q].pc # "refused"
    BY <1>1, <2>2 DEF ProbeServed, At
  <2>5. \A q, s \in Requests : req'[q].client = c /\ req'[s].client = c => q = s
    BY <1>1, <2>2 DEF Spaced
  <2>6. \A q \in Requests : req'[q].client = c =>
            /\ req'[q].route = "healthz" /\ ~At(q, "idle")' /\ req'[q].fwd = c
            /\ At(q, "limit")' => nextProbe'[c] <= clock'
    BY <1>1, <1>3, <2>1, <2>2 DEF Spaced, At
  <2>7. (\A q \in Requests : req'[q].client = c => At(q, "limit")') =>
            (b \in buckets' => lastSeen'[b] + Interval <= nextProbe'[c])
    BY <1>1, <1>2, <1>3, <2>3 DEF Spaced, At
  <2>8. \A q \in Requests : req'[q].fwd = c => req'[q].client = c
    BY <1>1, <1>3 DEF Spaced
  <2> QED
    BY <1>2, <2>4, <2>5, <2>6, <2>7, <2>8 DEF Spaced
<1>4. clock \in Nat
  BY DEF TypeOK, LimiterTypeOK
<1>5. ASSUME NEW q \in Requests, Limit(q) \/ LimitCredentials(q), req[q].client # c
      PROVE  /\ Spaced(c)'
             /\ \A s \in Requests : req'[s].client = c => req'[s].pc # "refused"
  <2>1. PICK k \in Clients : k = ClientKey(req[q].fwd) /\ k # c
    BY <1>1, <1>5, Passing
  <2>2. \/ Grant(<<"api", k>>) \/ Refuse(<<"api", k>>)
        \/ Grant(<<"auth", k>>) \/ Refuse(<<"auth", k>>)
    BY <1>1, <1>5, <2>1 DEF Limit, LimitCredentials
  <2>3. PICK d \in Buckets : d # b /\ (Grant(d) \/ Refuse(d))
    <3>1. /\ <<"api", k>> \in Buckets /\ <<"auth", k>> \in Buckets
          /\ <<"api", k>> # b /\ <<"auth", k>> # b
      BY <1>1, <1>2, <1>5, <2>1, BucketsApart
    <3> QED
      BY <2>2, <3>1
  <2>4. /\ clock' = clock
        /\ b \in buckets' <=> b \in buckets
        /\ lastSeen'[b] = lastSeen[b]
    BY <2>3, OtherBuckets DEF TypeOK
  <2>5. /\ nextProbe' = nextProbe
        /\ \A s \in Requests :
                \/ req'[s] = req[s]
                \/ req'[s].client # c /\ req[s].client # c /\ req'[s].fwd # c
    <3>1. req[q].fwd # c
      BY <1>1, <1>5 DEF Spaced
    <3> QED
      BY <1>5, <3>1, Passing
  <2> QED
    BY <1>3, <1>4, <2>4, <2>5
<1>6. ASSUME NEW q \in Requests, Limit(q), req[q].client = c
      PROVE  /\ Spaced(c)'
             /\ \A s \in Requests : req'[s].client = c => req'[s].pc # "refused"
  <2>1. req[q].route = "healthz" /\ ~Wrapped(req[q].route)
    BY <1>1, <1>6 DEF Spaced, Wrapped
  <2>2. ~Refuse(b)
    <3>1. Refilled(b) >= Cost
      BY <1>1, <1>2, <1>6, ProbeCovered DEF Limit
    <3>2. Refilled(b) \in Int /\ Cost \in Int
      BY RefillBounded, Configured DEF TypeOK
    <3> QED
      BY <3>1, <3>2 DEF Refuse
  <2>3. Goto(q, "handler")
    BY <1>1, <1>2, <1>6, <2>1, <2>2 DEF Limit, Enter
  <2>4. req'[q].pc = "handler"
    BY <2>3, GotoMoves
  <2>5. /\ req'[q].client = c /\ req'[q].route = "healthz" /\ req'[q].fwd = c
        /\ \A s \in Requests : s # q => req'[s] = req[s]
    <3>1. req[q].fwd = c
      BY <1>1, <1>6 DEF Spaced
    <3> QED
      BY <1>6, <2>1, <3>1, Passing
  <2>6. \A s \in Requests : req'[s].client = c => s = q
    BY <1>1, <1>6, <2>5 DEF Spaced
  <2>7. \A s \in Requests : req'[s].fwd = c => req'[s].client = c
    BY <1>1, <2>5 DEF Spaced
  <2> QED
    BY <2>4, <2>5, <2>6, <2>7 DEF Spaced, At
<1>7. ASSUME NEW q \in Requests, LimitCredentials(q) PROVE req[q].client # c
  BY <1>1, <1>7 DEF LimitCredentials, AttemptsGranted, Spaced, Wrapped
<1>8. ASSUME NEW q \in Requests, NEW d \in Clients \ {Proxy},
             NEW fwd \in Clients \cup {NoClient}, NEW route \in Routes,
             Arrive(q, d, fwd, route)
      PROVE  /\ Spaced(c)'
             /\ \A s \in Requests : req'[s].client = c => req'[s].pc # "refused"
  <2>1. /\ req'[q] = [pc |-> "limit", client |-> d, fwd |-> fwd,
                       route |-> route]
        /\ fwd = c => d = c
        /\ \A s \in Requests : s # q => req'[s] = req[s]
        /\ UNCHANGED <<clock, buckets, lastSeen, nextProbe>>
    BY <1>1, <1>8 DEF Arrive, TypeOK, limiters, map
  <2>2. CASE d = c
    <3>1. /\ fwd = c /\ route = "healthz" /\ clock >= nextProbe[c]
          /\ \A s \in Requests : req[s].client # c
      BY <1>8, <2>2 DEF Arrive, Rested
    <3>2. b \in buckets => lastSeen[b] + Interval <= nextProbe[c]
      BY <1>1, <1>2, <3>1 DEF Spaced
    <3>3. nextProbe[c] <= clock
      BY <1>4, <3>1 DEF TypeOK
    <3>4. \A s \in Requests : req'[s].fwd = c => req'[s].client = c
      BY <1>1, <2>1 DEF Spaced
    <3> QED
      BY <1>2, <2>1, <2>2, <3>1, <3>2, <3>3, <3>4 DEF Spaced, At
  <2>3. CASE d # c
    <3>1. req[q].client # c
      BY <1>1, <1>8 DEF Arrive, Spaced
    <3> QED
      BY <1>3, <1>4, <2>1, <2>3, <3>1
  <2> QED
    BY <2>2, <2>3
<1>9. ASSUME NEW q \in Requests, Respond(q)
      PROVE  /\ Spaced(c)'
             /\ \A s \in Requests : req'[s].client = c => req'[s].pc # "refused"
  <2>1. /\ req'[q].client = NoClient /\ req'[q].fwd = NoClient
        /\ \A s \in Requests : s # q => req'[s] = req[s]
        /\ UNCHANGED <<clock, buckets, lastSeen>>
        /\ nextProbe'[c] = IF c = req[q].client THEN clock + Interval
                                                ELSE nextProbe[c]
    BY <1>9 DEF Respond, NoRequest, TypeOK, limiters, map
  <2>2. CASE req[q].client = c
    <3>1. \A s \in Requests : req'[s].client # c
      BY <1>1, <2>1, <2>2 DEF Spaced
    <3>2. lastSeen'[b] + Interval <= nextProbe'[c]
      <4>1. /\ lastSeen[b] \in Nat /\ lastSeen[b] <= clock /\ Interval \in Nat
            /\ clock \in Nat
        BY ClientAssumption DEF TypeOK, LimiterTypeOK
      <4> QED
        BY <2>1, <2>2, <4>1
    <3>3. \A s \in Requests : req'[s].fwd = c => req'[s].client = c
      BY <1>1, <2>1 DEF Spaced
    <3> QED
      BY <1>2, <3>1, <3>2, <3>3 DEF Spaced
  <2>3. CASE req[q].client # c
    BY <1>1, <1>3, <1>4, <2>1, <2>3
  <2> QED
    BY <2>2, <2>3
<1>10. ASSUME NEW d \in Buckets, Observe(d)
       PROVE  /\ Spaced(c)'
              /\ \A s \in Requests : req'[s].client = c => req'[s].pc # "refused"
  BY <1>3, <1>4, <1>10 DEF Observe, OpenWindow, map
<1>11. ASSUME NEW l \in Limiters, StartReaper(l)
       PROVE  /\ Spaced(c)'
              /\ \A s \in Requests : req'[s].client = c => req'[s].pc # "refused"
  BY <1>3, <1>4, <1>11 DEF StartReaper, Reap, requests
<1>12. CASE Elapse
  BY <1>3, <1>4, <1>12 DEF Elapse, Tick, requests, map
<1>13. CASE UNCHANGED vars
  BY <1>3, <1>4, <1>13 DEF vars, requests, limiters, map
<1> QED
  BY <1>5, <1>6, <1>7, <1>8, <1>9, <1>10, <1>11, <1>12, <1>13 DEF Next

-----------------------------------------------------------------------------
\* Nobody has sent anything yet.
LEMMA InitGateway == Init => GatewayInv
<1> SUFFICES ASSUME Init PROVE GatewayInv
  OBVIOUS
<1>1. BudgetInv /\ PromiseInv
  BY InitBudget DEF Init
<1>2. /\ NoRequest \in Request /\ NoRequest.pc = "idle"
      /\ NoRequest.client \notin Clients /\ NoRequest.fwd \notin Clients
  BY RoutesAssumption, ClientAssumption DEF NoRequest, Request
<1>3. TypeOK
  BY <1>1, <1>2 DEF Init, TypeOK, BudgetInv, At
<1>4. AttemptsGranted
  BY <1>2, BucketsApart DEF Init, LimiterInit, AttemptsGranted, At
<1>5. PromiseCovered
  BY DEF Init, PromiseCovered
<1>6. ProbeServed /\ \A c \in Probers \ borrowed : Spaced(c)
  BY <1>2, ClientAssumption DEF Init, LimiterInit, ProbeServed, Spaced, At
<1> QED
  BY <1>1, <1>3, <1>4, <1>5, <1>6 DEF GatewayInv

\* Every step keeps the invariant.
LEMMA NextGateway == GatewayInv /\ [Next]_vars => GatewayInv'
<1> SUFFICES ASSUME GatewayInv, [Next]_vars PROVE GatewayInv'
  OBVIOUS
<1> USE DEF GatewayInv
<1>1. BudgetInv' /\ PromiseInv'
  BY NextLimiter, NextBudget
<1>2. TypeOK'
  BY <1>1, NextType
<1>3. AttemptsGranted' /\ PromiseCovered'
  BY NextAttempts, NextPromise
<1>4. ProbeServed' /\ \A c \in Probers \ borrowed' : Spaced(c)'
  BY NextProbes
<1> QED
  BY <1>1, <1>2, <1>3, <1>4

\* The inductive invariant of the two limiters and the requests between them.
THEOREM GatewaySafety == Spec => []GatewayInv
BY InitGateway, NextGateway, PTL DEF Spec

\* The gateway implements the limiters: each address's budget in each of them
\* is what NewRateLimiter was given, however requests overlap.
THEOREM LimitersImplemented == Spec => LimiterSpec
<1>1. Init => LimiterInit
  BY DEF Init
<1>2. GatewayInv /\ [Next]_vars => [LimiterNext]_limiters
  BY NextLimiter DEF GatewayInv
<1> QED
  BY <1>1, <1>2, GatewaySafety, PTL DEF Spec, LimiterSpec

\* Over any window an address is let through each limiter at most as often as
\* its burst and its rate allow.
THEOREM GatewayBudget == Spec => []WindowBudget
BY LimitersImplemented, WindowSafety, PTL

\* To a client of the gateway each limiter is a bucket that is always there.
THEOREM GatewayBuckets == Spec => ImplementsBuckets
BY LimitersImplemented, BucketsImplemented, PTL

\* Brute force under one address is bounded over any window by the credential
\* budget.
THEOREM CredentialSafety == Spec => []CredentialBudget
<1>1. GatewayInv => CredentialBudget
  BY BudgetBounds, BucketsApart
     DEF GatewayInv, AttemptsGranted, CredentialBudget, WindowBudget
<1> QED
  BY <1>1, GatewaySafety, PTL

\* No probe is answered 429 whose address nobody else has sent as theirs.
THEOREM ProbeSafety == Spec => []ProbeServed
BY GatewaySafety, PTL DEF GatewayInv

\* Whoever waits out a Retry-After of either limiter passes both.
THEOREM PatienceRewarded == Spec => PatientServed
<1>1. GatewayInv /\ [Next]_vars =>
        [/\ \A b \in Buckets :
                retryAt[b] # Never /\ clock >= retryAt[b] => ~Refuse(b)
         /\ \A c \in Clients :
                promise[c] # Never /\ clock >= promise[c]
                    => ~Refuse(<<"api", c>>)]_vars
  <2> SUFFICES ASSUME GatewayInv
               PROVE  /\ \A b \in Buckets :
                            retryAt[b] # Never /\ clock >= retryAt[b] => ~Refuse(b)
                      /\ \A c \in Clients :
                            promise[c] # Never /\ clock >= promise[c]
                                => ~Refuse(<<"api", c>>)
    OBVIOUS
  <2>1. ASSUME NEW b \in Buckets, NEW at \in Int, Covers(b, at), clock >= at
        PROVE  ~Refuse(b)
    <3>1. Refilled(b) >= Cost
      BY <2>1, CoveredServed DEF GatewayInv, TypeOK
    <3>2. Refilled(b) \in Int /\ Cost \in Int
      BY RefillBounded, Configured DEF GatewayInv, TypeOK
    <3> QED
      BY <3>1, <3>2 DEF Refuse
  <2>2. ASSUME NEW b \in Buckets, retryAt[b] # Never, clock >= retryAt[b]
        PROVE  ~Refuse(b)
    <3>1. retryAt[b] \in Int /\ Covers(b, retryAt[b])
      BY <2>2 DEF GatewayInv, TypeOK, LimiterTypeOK, PromiseInv, Covers
    <3> QED
      BY <2>1, <2>2, <3>1
  <2>3. ASSUME NEW c \in Clients, promise[c] # Never, clock >= promise[c]
        PROVE  ~Refuse(<<"api", c>>)
    <3>1. promise[c] \in Int /\ Covers(<<"api", c>>, promise[c])
      BY <2>3 DEF GatewayInv, TypeOK, PromiseCovered, Covers
    <3> QED
      BY <2>1, <2>3, <3>1, BucketsApart
  <2> QED
    BY <2>2, <2>3
<1> QED
  BY <1>1, GatewaySafety, PTL DEF Spec, PatientServed
=============================================================================
