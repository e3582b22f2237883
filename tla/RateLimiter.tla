---------------------------- MODULE RateLimiter ----------------------------
(***************************************************************************)
(* The token buckets of internal/httpx/ratelimit.go, for the two limiters  *)
(* api.New builds and any number of clients, with the reapers that drop    *)
(* idle buckets.  Allow and Reap run under the limiter's mutex and read    *)
(* the clock inside it, so each is one step.                               *)
(*                                                                         *)
(* Whole seconds; a request costs 60 units and a bucket gains PerMinute    *)
(* units per second, so refillPerSecond needs no fractions.                *)
(***************************************************************************)
EXTENDS Integers

CONSTANTS
    Limiters,    \* instances of RateLimiter
    Clients,     \* keys of their bucket maps
    PerMinute,   \* limiter -> NewRateLimiter's perMinute, as configured
    Burst,       \* limiter -> NewRateLimiter's burst, as configured
    IdleFor,     \* Reap's idleFor, in seconds
    MaxTime      \* bound on the clock

Buckets == Limiters \X Clients

Cost == 60
Rate(b) == IF PerMinute[b[1]] <= 0 THEN 60 ELSE PerMinute[b[1]]
Capacity(b) == Cost * (IF Burst[b[1]] <= 0 THEN Rate(b) ELSE Burst[b[1]])

ASSUME ConfigAssumption ==
    /\ PerMinute \in [Limiters -> Int] /\ Burst \in [Limiters -> Int]
    /\ IdleFor \in Nat /\ MaxTime \in Nat

\* A bucket idle long enough to be reaped has had time to refill: 30 minutes
\* against 20 or 30 seconds with the default budgets.
ASSUME ReapAssumption == \A b \in Buckets : Rate(b) * IdleFor >= Capacity(b)

VARIABLES
    clock,
    buckets,     \* the buckets present in the maps
    tokens,      \* units in each
    lastSeen,    \* when it was last refilled
    \* history
    windowStart, \* per bucket, the instant from which an observer counts its
                 \* requests; Never when none does
    granted,     \* requests allowed since then
    retryAt      \* earliest instant a Retry-After promised, while no request
                 \* was allowed since; Never when there is no promise

map == <<buckets, tokens, lastSeen>>
limiters == <<clock, map, windowStart, granted, retryAt>>

Never == -1

Smaller(x, y) == IF x <= y THEN x ELSE y

LimiterInit ==
    /\ clock = 0
    /\ buckets = {}
    /\ tokens = [b \in Buckets |-> 0]
    /\ lastSeen = [b \in Buckets |-> 0]
    /\ windowStart = [b \in Buckets |-> Never]
    /\ granted = [b \in Buckets |-> 0]
    /\ retryAt = [b \in Buckets |-> Never]

-----------------------------------------------------------------------------
\* What Allow finds after creating the bucket or refilling it.
UncappedRefill(b) ==
    IF b \in buckets THEN tokens[b] + Rate(b) * (clock - lastSeen[b])
                     ELSE Capacity(b)
Refilled(b) ==
    IF b \in buckets
    THEN Smaller(Capacity(b), tokens[b] + Rate(b) * (clock - lastSeen[b]))
    ELSE Capacity(b)

\* The Retry-After header: the wait for the missing units, rounded up to whole
\* seconds and never below one.
RoundedDown(b) ==
    LET wait == (Cost - Refilled(b)) \div Rate(b)
    IN IF wait < 1 THEN 1 ELSE wait
RetryAfter(b) ==
    LET wait == (Cost - Refilled(b) + Rate(b) - 1) \div Rate(b)
    IN IF wait < 1 THEN 1 ELSE wait

\* Allow refuses: the refill is kept, nothing is consumed.
Refuse(b) ==
    /\ Refilled(b) < Cost
    /\ buckets' = buckets \cup {b}
    /\ tokens' = [tokens EXCEPT ![b] = Refilled(b)]
    /\ lastSeen' = [lastSeen EXCEPT ![b] = clock]
    /\ retryAt' = [retryAt EXCEPT ![b] =
                    IF @ = Never THEN clock + RetryAfter(b) ELSE @]
    /\ UNCHANGED <<clock, windowStart, granted>>

\* Allow grants.
Grant(b) ==
    /\ Refilled(b) >= Cost
    /\ buckets' = buckets \cup {b}
    /\ tokens' = [tokens EXCEPT ![b] = Refilled(b) - Cost]
    /\ lastSeen' = [lastSeen EXCEPT ![b] = clock]
    /\ granted' = [granted EXCEPT ![b] =
                    IF windowStart[b] = Never THEN @ ELSE @ + 1]
    /\ retryAt' = [retryAt EXCEPT ![b] = Never]
    /\ UNCHANGED <<clock, windowStart>>

\* Reap's lastSeen.Before(now - idleFor).
IdleAtOnce(b) == lastSeen[b] < clock
Idle(b) == lastSeen[b] + IdleFor < clock

\* The reaper goroutine of limiter l.
Reap(l) ==
    /\ buckets' = {b \in buckets : b[1] = l => ~Idle(b)}
    /\ UNCHANGED <<clock, tokens, lastSeen, windowStart, granted, retryAt>>

\* An observer starts counting a client's requests: properties of the count
\* then hold of every window.
OpenWindow(b) ==
    /\ windowStart' = [windowStart EXCEPT ![b] = clock]
    /\ granted' = [granted EXCEPT ![b] = 0]
    /\ UNCHANGED <<clock, map, retryAt>>

Tick ==
    /\ clock < MaxTime
    /\ clock' = clock + 1
    /\ UNCHANGED <<map, windowStart, granted, retryAt>>

LimiterNext ==
    \/ \E b \in Buckets : Refuse(b) \/ Grant(b) \/ OpenWindow(b)
    \/ \E l \in Limiters : Reap(l)
    \/ Tick

LimiterSpec == LimiterInit /\ [][LimiterNext]_limiters

-----------------------------------------------------------------------------
\* Properties.

\* Types; a bucket never holds more than its capacity.
LimiterTypeOK ==
    /\ clock \in Nat
    /\ buckets \subseteq Buckets
    /\ tokens \in [Buckets -> Nat]
    /\ lastSeen \in [Buckets -> Nat]
    /\ windowStart \in [Buckets -> Nat \cup {Never}]
    /\ granted \in [Buckets -> Nat]
    /\ retryAt \in [Buckets -> Nat \cup {Never}]
    /\ \A b \in Buckets : /\ tokens[b] <= Capacity(b)
                          /\ lastSeen[b] <= clock /\ windowStart[b] <= clock

\* The documented budget: over any window a client gets at most the burst plus
\* the sustained rate times the length, even when its bucket is reaped and
\* recreated on the way.
WindowBudget ==
    \A b \in Buckets : windowStart[b] # Never =>
        Cost * granted[b] <= Capacity(b) + Rate(b) * (clock - windowStart[b])

\* The inductive form: what was granted and what the bucket now offers are
\* together within the budget.
BudgetInv ==
    /\ LimiterTypeOK
    /\ \A b \in Buckets : windowStart[b] # Never =>
            Cost * granted[b] + Refilled(b)
                <= Capacity(b) + Rate(b) * (clock - windowStart[b])

\* At the instant at bucket b, left alone until then, holds a request's worth.
Covers(b, at) ==
    b \in buckets => tokens[b] + Rate(b) * (at - lastSeen[b]) >= Cost

\* Every standing promise will be kept.
PromiseInv == \A b \in Buckets : retryAt[b] # Never => Covers(b, retryAt[b])

\* The map is only a saving: refilling on demand, creating buckets when they
\* are first used and dropping idle ones cannot be told from buckets that are
\* always there and refill every second, and Retry-After names the first
\* second that is late enough.
Level == INSTANCE TokenBucket
    WITH Keys <- Buckets,
         Gain <- [b \in Buckets |-> Rate(b)],
         Size <- [b \in Buckets |-> Capacity(b)],
         None <- Never,
         now <- clock,
         level <- [b \in Buckets |-> Refilled(b)],
         promised <- retryAt
ImplementsBuckets == Level!Spec
=============================================================================
