------------------------- MODULE RateLimiterProofs -------------------------
(***************************************************************************)
(* Proofs about RateLimiter for any limiters, clients, budgets and reaping *)
(* interval that satisfy ReapAssumption.                                   *)
(*                                                                         *)
(* WindowBudget is not inductive: a full bucket and a spent budget could   *)
(* coexist.  BudgetInv adds what the bucket now offers to what it has      *)
(* already granted.                                                        *)
(***************************************************************************)
EXTENDS RateLimiter, TLAPS

\* The defaults of NewRateLimiter leave a positive rate and room for at least
\* one request.
LEMMA Configured ==
    ASSUME NEW b \in Buckets
    PROVE  /\ Rate(b) \in Nat /\ Rate(b) > 0
           /\ Capacity(b) \in Nat /\ Capacity(b) >= Cost
           /\ Cost \in Nat
<1>1. PerMinute[b[1]] \in Int /\ Burst[b[1]] \in Int
  BY ConfigAssumption DEF Buckets
<1> QED
  BY <1>1 DEF Rate, Capacity, Cost

\* What a bucket gains over a time span is a number, and not negative.
LEMMA GainTyped ==
    ASSUME NEW b \in Buckets, NEW x \in Int, NEW y \in Int
    PROVE  /\ Rate(b) * (x - y) \in Int
           /\ x >= y => Rate(b) * (x - y) >= 0
           /\ Rate(b) * (x - x) = 0
BY Configured

\* Refilling for a time span is refilling for its parts.
LEMMA GainSplits ==
    ASSUME NEW b \in Buckets, NEW x \in Int, NEW y \in Int, NEW z \in Int
    PROVE  Rate(b) * (x - z) = Rate(b) * (x - y) + Rate(b) * (y - z)
BY Configured

\* One more second gains one second's worth.
LEMMA GainNext ==
    ASSUME NEW b \in Buckets, NEW x \in Int, NEW y \in Int
    PROVE  Rate(b) * ((x + 1) - y) = Rate(b) * (x - y) + Rate(b)
BY Configured

\* Rounding the wait up covers the missing units.
LEMMA WaitSuffices ==
    ASSUME NEW b \in Buckets, Refilled(b) \in 0..Capacity(b), Refilled(b) < Cost
    PROVE  /\ RetryAfter(b) \in Nat /\ RetryAfter(b) >= 1
           /\ Refilled(b) + Rate(b) * RetryAfter(b) >= Cost
<1> DEFINE level == Refilled(b)
           rate == Rate(b)
           n == Cost - level + rate - 1
           wait == n \div rate
<1>0. level \in Nat /\ rate \in Nat /\ rate > 0 /\ Cost \in Nat /\ n \in Nat
  BY Configured
<1>1. RetryAfter(b) = IF wait < 1 THEN 1 ELSE wait
  BY DEF RetryAfter
<1> SUFFICES ASSUME TRUE
             PROVE  /\ RetryAfter(b) \in Nat /\ RetryAfter(b) >= 1
                    /\ level + rate * RetryAfter(b) >= Cost
  OBVIOUS
<1> HIDE DEF rate, level, n
<1>2. wait \in Nat /\ rate * wait + (n % rate) = n /\ n % rate < rate
  BY <1>0
<1>3. rate * wait >= Cost - level
  BY <1>0, <1>2 DEF n
<1>4. CASE wait < 1
  BY <1>0, <1>1, <1>2, <1>3, <1>4
<1>5. CASE ~(wait < 1)
  BY <1>0, <1>1, <1>2, <1>3, <1>5
<1> QED
  BY <1>4, <1>5

\* A refilled bucket is within its capacity.
LEMMA RefillBounded ==
    ASSUME LimiterTypeOK, NEW b \in Buckets
    PROVE  Refilled(b) \in 0..Capacity(b)
<1>1. /\ Rate(b) * (clock - lastSeen[b]) \in Int
      /\ Rate(b) * (clock - lastSeen[b]) >= 0
  <2>1. clock \in Int /\ lastSeen[b] \in Int /\ clock >= lastSeen[b]
    BY DEF LimiterTypeOK
  <2> QED
    BY <2>1, GainTyped
<1> QED
  BY <1>1, Configured DEF LimiterTypeOK, Refilled, Smaller

\* Dropping an idle bucket gives nothing away: it was full again.
LEMMA ReapFull ==
    ASSUME LimiterTypeOK, NEW l \in Limiters, Reap(l), NEW b \in Buckets
    PROVE  Refilled(b)' = Refilled(b)
<1>1. CASE b \in buckets /\ Idle(b)
  <2>1. /\ clock \in Int /\ lastSeen[b] \in Int /\ IdleFor \in Int
        /\ tokens[b] \in Int /\ tokens[b] >= 0
    BY ConfigAssumption, Configured DEF LimiterTypeOK
  <2>2. clock - lastSeen[b] >= IdleFor
    BY <1>1, <2>1 DEF Idle
  <2>3. Rate(b) * (clock - lastSeen[b]) >= Rate(b) * IdleFor
    BY <2>1, <2>2, Configured
  <2>4. Rate(b) * (clock - lastSeen[b]) >= Capacity(b)
    <3>1. Rate(b) * IdleFor \in Int /\ Rate(b) * (clock - lastSeen[b]) \in Int
      BY <2>1, Configured
    <3> QED
      BY <2>3, <3>1, Configured, ReapAssumption
  <2>5. Refilled(b) = Capacity(b)
    <3>1. Rate(b) * (clock - lastSeen[b]) \in Int
      BY <2>1, Configured
    <3> QED
      BY <1>1, <2>1, <2>4, <3>1, Configured DEF Refilled, Smaller
  <2> QED
    BY <1>1, <2>5 DEF Refilled, Reap
<1>2. CASE ~(b \in buckets /\ Idle(b))
  BY <1>2 DEF Refilled, Reap
<1> QED
  BY <1>1, <1>2

\* Rounding up to whole seconds waits no second too many.
LEMMA WaitLeast ==
    ASSUME NEW b \in Buckets, Refilled(b) \in 0..Capacity(b), Refilled(b) < Cost
    PROVE  /\ RetryAfter(b) \in 1..Cost
           /\ Refilled(b) + Rate(b) * (RetryAfter(b) - 1) < Cost
<1> DEFINE level == Refilled(b)
           rate == Rate(b)
           n == Cost - level + rate - 1
           wait == n \div rate
<1>0. /\ level \in Nat /\ rate \in Nat /\ rate > 0 /\ Cost \in Nat /\ n \in Nat
      /\ level < Cost
  BY Configured
<1>1. RetryAfter(b) = IF wait < 1 THEN 1 ELSE wait
  BY DEF RetryAfter
<1> SUFFICES ASSUME TRUE
             PROVE  /\ RetryAfter(b) \in 1..Cost
                    /\ level + rate * (RetryAfter(b) - 1) < Cost
  OBVIOUS
<1> HIDE DEF rate, level, n
<1>2. wait \in Nat /\ rate * wait + (n % rate) = n /\ n % rate >= 0
  BY <1>0
<1> HIDE DEF wait
<1>3. rate * wait <= n /\ n >= rate /\ rate * wait \in Int
  BY <1>0, <1>2 DEF n
<1>4. wait >= 1
  <2>1. rate * wait + (n % rate) = n /\ n % rate < rate
    BY <1>0, <1>2 DEF wait
  <2>2. wait = 0 => rate * wait = 0
    BY <1>0
  <2> QED
    BY <1>0, <1>2, <1>3, <2>1, <2>2
<1>5. rate * (wait - 1) = rate * wait - rate
  BY <1>0, <1>2
<1>6. level + rate * (wait - 1) < Cost
  BY <1>0, <1>3, <1>5 DEF n
<1>7. wait - 1 <= rate * (wait - 1)
  BY <1>0, <1>2, <1>4
<1>8. wait <= Cost
  BY <1>0, <1>2, <1>3, <1>5, <1>6, <1>7
<1> QED
  BY <1>0, <1>1, <1>2, <1>4, <1>6, <1>8

\* A bucket that will hold a request's worth at some instant serves a request
\* from that instant on ...
LEMMA CoveredServed ==
    ASSUME LimiterTypeOK, NEW b \in Buckets, NEW at \in Int, Covers(b, at),
           clock >= at
    PROVE  Refilled(b) >= Cost
<1>1. CASE b \notin buckets
  BY <1>1, Configured DEF Refilled
<1>2. CASE b \in buckets
  <2>1. clock \in Int /\ lastSeen[b] \in Int /\ tokens[b] \in Int
    BY Configured DEF LimiterTypeOK
  <2>2. /\ Rate(b) * (clock - lastSeen[b]) =
             Rate(b) * (clock - at) + Rate(b) * (at - lastSeen[b])
        /\ Rate(b) * (clock - at) >= 0
        /\ Rate(b) * (clock - at) \in Int
        /\ Rate(b) * (at - lastSeen[b]) \in Int
    BY <2>1, GainTyped, GainSplits
  <2>3. tokens[b] + Rate(b) * (clock - lastSeen[b]) >= Cost
    BY <1>2, <2>1, <2>2, Configured DEF Covers
  <2> QED
    BY <1>2, <2>1, <2>2, <2>3, Configured DEF Refilled, Smaller
<1> QED
  BY <1>1, <1>2

\* ... and being refused before it changes nothing about that.
LEMMA CoverKept ==
    ASSUME LimiterTypeOK, NEW b \in Buckets, NEW at \in Int, Covers(b, at),
           Refuse(b)
    PROVE  Covers(b, at)'
<1> DEFINE level == tokens[b] + Rate(b) * (clock - lastSeen[b])
<1>1. clock \in Int /\ lastSeen[b] \in Int /\ tokens[b] \in Int
  BY Configured DEF LimiterTypeOK
<1>2. Rate(b) * (clock - lastSeen[b]) \in Int /\ Rate(b) * (at - clock) \in Int
  BY <1>1, GainTyped
<1>3. b \in buckets /\ Refilled(b) = level
  BY <1>1, <1>2, Configured DEF Refuse, Refilled, Smaller
<1>4. tokens'[b] = level /\ lastSeen'[b] = clock
  BY <1>3 DEF Refuse, LimiterTypeOK
<1>5. Rate(b) * (at - lastSeen[b]) =
        Rate(b) * (at - clock) + Rate(b) * (clock - lastSeen[b])
  BY <1>1, GainSplits, Zenon
<1>6. level + Rate(b) * (at - clock) >= Cost
  BY <1>1, <1>2, <1>3, <1>5, Configured DEF Covers
<1>7. tokens'[b] + Rate(b) * (at - lastSeen'[b]) >= Cost
  BY <1>4, <1>6
<1> QED
  BY <1>7 DEF Covers

\* Nobody was granted anything, and nobody was promised anything.
LEMMA InitBudget == LimiterInit => BudgetInv /\ PromiseInv
<1> SUFFICES ASSUME LimiterInit PROVE BudgetInv /\ PromiseInv
  OBVIOUS
<1>1. \A b \in Buckets : Capacity(b) \in Nat
  BY Configured
<1>2. LimiterTypeOK
  BY <1>1 DEF LimiterInit, LimiterTypeOK, Never
<1> QED
  BY <1>2 DEF LimiterInit, BudgetInv, PromiseInv

\* Allow moves units from the offer to the grants, or leaves both alone.
LEMMA AllowBudget ==
    ASSUME BudgetInv, PromiseInv, NEW b \in Buckets, Refuse(b) \/ Grant(b)
    PROVE  BudgetInv' /\ PromiseInv'
<1> USE DEF BudgetInv
<1>1. Refilled(b) \in 0..Capacity(b) /\ clock \in Nat
  BY RefillBounded DEF LimiterTypeOK
<1>2. LimiterTypeOK'
  <2>1. CASE Grant(b)
    <3>1. Refilled(b) - Cost \in 0..Capacity(b)
      BY <1>1, <2>1, Configured DEF Grant
    <3>2. /\ tokens' = [tokens EXCEPT ![b] = Refilled(b) - Cost]
          /\ Refilled(b) - Cost \in Nat /\ Refilled(b) - Cost <= Capacity(b)
      BY <2>1, <3>1, Configured DEF Grant
    <3> QED
      BY <2>1, <3>2 DEF LimiterTypeOK, Grant
  <2>2. CASE Refuse(b)
    <3>1. clock + RetryAfter(b) \in Nat
      BY <1>1, <2>2, WaitSuffices DEF Refuse
    <3>2. Refilled(b) \in Nat /\ Refilled(b) <= Capacity(b)
      BY <1>1, Configured
    <3> QED
      BY <1>1, <2>2, <3>1, <3>2 DEF LimiterTypeOK, Refuse
  <2> QED
    BY <2>1, <2>2
<1>3. \A d \in Buckets \ {b} :
        /\ Refilled(d)' = Refilled(d) /\ granted'[d] = granted[d]
        /\ windowStart'[d] = windowStart[d] /\ retryAt'[d] = retryAt[d]
        /\ d \in buckets' <=> d \in buckets
        /\ tokens'[d] = tokens[d] /\ lastSeen'[d] = lastSeen[d]
  BY DEF Refuse, Grant, Refilled, LimiterTypeOK
<1>4. clock' = clock /\ windowStart' = windowStart
  BY DEF Refuse, Grant
<1>5. Rate(b) * (clock - clock) = 0
  BY <1>1, GainTyped
<1>6. /\ Cost * granted'[b] + Refilled(b)' <= Cost * granted[b] + Refilled(b)
      /\ Refilled(b)' \in 0..Capacity(b)
  <2>1. CASE Refuse(b)
    <3>1. b \in buckets' /\ tokens'[b] = Refilled(b) /\ lastSeen'[b] = clock
          /\ granted'[b] = granted[b]
      BY <2>1 DEF Refuse, LimiterTypeOK
    <3>2. Refilled(b)' = Refilled(b)
      BY <1>1, <1>4, <1>5, <3>1, Configured DEF Refilled, Smaller
    <3>3. granted[b] \in Nat
      BY DEF LimiterTypeOK
    <3> QED
      BY <1>1, <3>1, <3>2, <3>3, Configured
  <2>2. CASE Grant(b)
    <3>1. b \in buckets' /\ tokens'[b] = Refilled(b) - Cost
          /\ lastSeen'[b] = clock
          /\ granted'[b] \in {granted[b], granted[b] + 1}
      BY <2>2 DEF Grant, LimiterTypeOK
    <3>2. Refilled(b)' = Refilled(b) - Cost
      BY <1>1, <1>4, <1>5, <3>1, Configured DEF Refilled, Smaller
    <3>3. granted[b] \in Nat
      BY DEF LimiterTypeOK
    <3> QED
      BY <1>1, <2>2, <3>1, <3>2, <3>3, Configured DEF Cost, Grant
  <2> QED
    BY <2>1, <2>2
<1>7. BudgetInv'
  <2>1. /\ granted[b] \in Nat /\ granted'[b] \in Nat
        /\ Refilled(b)' \in 0..Capacity(b)
    BY <1>2, <1>6 DEF LimiterTypeOK
  <2>2. windowStart[b] # Never => Rate(b) * (clock - windowStart[b]) \in Int
    <3>1. clock \in Int /\ (windowStart[b] # Never => windowStart[b] \in Int)
      BY DEF LimiterTypeOK
    <3> QED
      BY <3>1, GainTyped
  <2>3. windowStart'[b] # Never =>
            Cost * granted'[b] + Refilled(b)'
                <= Capacity(b) + Rate(b) * (clock' - windowStart'[b])
    BY <1>1, <1>4, <1>6, <2>1, <2>2, Configured
  <2> QED
    BY <1>2, <1>3, <1>4, <2>3
<1>8. PromiseInv'
  <2>1. CASE Grant(b)
    BY <1>3, <2>1 DEF PromiseInv, Covers, Grant, LimiterTypeOK
  <2>2. CASE Refuse(b)
    <3> DEFINE level == tokens[b] + Rate(b) * (clock - lastSeen[b])
    <3>1. Rate(b) * (clock - lastSeen[b]) \in Int /\ tokens[b] \in Int
      BY GainTyped, Configured DEF LimiterTypeOK
    <3>2. b \in buckets /\ Refilled(b) = level
      BY <2>2, <3>1, Configured DEF Refuse, Refilled, Smaller
    <3>3. tokens'[b] = level /\ lastSeen'[b] = clock
      BY <2>2, <3>2 DEF Refuse, LimiterTypeOK
    <3>4. CASE retryAt[b] = Never
      <4>1. retryAt'[b] = clock + RetryAfter(b)
        BY <2>2, <3>2, <3>4 DEF Refuse, LimiterTypeOK
      <4>2. /\ RetryAfter(b) \in Nat
            /\ level + Rate(b) * RetryAfter(b) >= Cost
        BY <1>1, <2>2, <3>2, WaitSuffices DEF Refuse
      <4>3. retryAt'[b] - clock = RetryAfter(b)
        BY <1>1, <4>1, <4>2
      <4>4. tokens'[b] + Rate(b) * (retryAt'[b] - lastSeen'[b]) >= Cost
        BY <3>3, <4>2, <4>3
      <4> QED
        BY <1>3, <4>4 DEF PromiseInv, Covers
    <3>5. CASE retryAt[b] # Never
      <4>1. retryAt'[b] = retryAt[b] /\ retryAt[b] \in Int
        BY <2>2, <3>5 DEF Refuse, LimiterTypeOK
      <4>2. Covers(b, retryAt[b])
        BY <3>5 DEF PromiseInv, Covers
      <4>3. Covers(b, retryAt[b])'
        <5>1. PICK at \in Int : at = retryAt[b]
          BY <4>1
        <5>2. Covers(b, at)'
          BY <2>2, <4>2, <5>1, CoverKept
        <5> QED
          BY <4>1, <5>1, <5>2 DEF Covers
      <4> QED
        BY <1>3, <4>3 DEF PromiseInv, Covers
    <3> QED
      BY <3>4, <3>5
  <2> QED
    BY <2>1, <2>2
<1> QED
  BY <1>7, <1>8

\* So reaping keeps both.
LEMMA ReapBudget ==
    ASSUME BudgetInv, PromiseInv, NEW l \in Limiters, Reap(l)
    PROVE  BudgetInv' /\ PromiseInv'
<1> USE DEF BudgetInv
<1>1. LimiterTypeOK'
  BY DEF LimiterTypeOK, Reap
<1>2. ASSUME NEW b \in Buckets PROVE Refilled(b)' = Refilled(b)
  BY ReapFull
<1>3. BudgetInv'
  BY <1>1, <1>2 DEF Reap
<1>4. PromiseInv'
  BY DEF PromiseInv, Covers, Reap
<1> QED
  BY <1>3, <1>4

\* A second adds as much to the budget as it can add to the bucket.
LEMMA TickBudget ==
    ASSUME BudgetInv, PromiseInv, Tick
    PROVE  BudgetInv' /\ PromiseInv'
<1> USE DEF BudgetInv
<1>1. LimiterTypeOK'
  <2>1. \A b \in Buckets : lastSeen[b] <= clock + 1 /\ windowStart[b] <= clock + 1
    BY DEF LimiterTypeOK, Never
  <2> QED
    BY <2>1 DEF LimiterTypeOK, Tick, map
<1>2. ASSUME NEW b \in Buckets, windowStart'[b] # Never
      PROVE  Cost * granted'[b] + Refilled(b)'
                <= Capacity(b) + Rate(b) * (clock' - windowStart'[b])
  <2>1. /\ clock \in Nat /\ lastSeen[b] \in Nat /\ windowStart[b] \in Nat
        /\ tokens[b] \in 0..Capacity(b) /\ granted[b] \in Nat
    BY <1>2, Configured DEF LimiterTypeOK, Tick
  <2>2. /\ clock' = clock + 1
        /\ UNCHANGED <<buckets, tokens, lastSeen, windowStart, granted>>
    BY DEF Tick, map
  <2>3. /\ Rate(b) * (clock' - lastSeen[b]) = Rate(b) * (clock - lastSeen[b]) + Rate(b)
        /\ Rate(b) * (clock' - windowStart[b])
             = Rate(b) * (clock - windowStart[b]) + Rate(b)
        /\ Rate(b) * (clock - lastSeen[b]) \in Int
        /\ Rate(b) * (clock - windowStart[b]) \in Int
    <3>1. clock \in Int /\ lastSeen[b] \in Int /\ windowStart[b] \in Int
      BY <2>1
    <3>2. /\ Rate(b) * ((clock + 1) - lastSeen[b])
               = Rate(b) * (clock - lastSeen[b]) + Rate(b)
          /\ Rate(b) * ((clock + 1) - windowStart[b])
               = Rate(b) * (clock - windowStart[b]) + Rate(b)
      BY <3>1, GainNext, Zenon
    <3> QED
      BY <2>2, <3>1, <3>2, GainTyped
  <2>4. Refilled(b)' <= Refilled(b) + Rate(b) /\ Refilled(b)' \in Int
    BY <2>1, <2>2, <2>3, Configured DEF Refilled, Smaller
  <2>5. Refilled(b) \in Int /\ Cost * granted[b] \in Int
    BY <2>1, RefillBounded, Configured
  <2>6. Cost * granted[b] + Refilled(b)
            <= Capacity(b) + Rate(b) * (clock - windowStart[b])
    BY <1>2, <2>2
  <2> QED
    BY <2>2, <2>3, <2>4, <2>5, <2>6, Configured
<1>3. PromiseInv'
  BY DEF PromiseInv, Covers, Tick, map
<1> QED
  BY <1>1, <1>2, <1>3

\* A fresh count is within the budget whatever the bucket holds.
LEMMA WindowOpens ==
    ASSUME BudgetInv, PromiseInv, NEW b \in Buckets, OpenWindow(b)
    PROVE  BudgetInv' /\ PromiseInv'
<1> USE DEF BudgetInv
<1>1. LimiterTypeOK'
  BY DEF LimiterTypeOK, OpenWindow, map
<1>2. \A d \in Buckets : Refilled(d)' = Refilled(d)
  BY DEF Refilled, OpenWindow, map
<1>3. Rate(b) * (clock - clock) = 0
  BY GainTyped DEF LimiterTypeOK
<1>4. Cost * granted'[b] + Refilled(b)'
        <= Capacity(b) + Rate(b) * (clock' - windowStart'[b])
  <2>1. granted'[b] = 0 /\ windowStart'[b] = clock /\ clock' = clock
    BY DEF OpenWindow, LimiterTypeOK
  <2>2. Refilled(b) \in 0..Capacity(b)
    BY RefillBounded
  <2> QED
    BY <1>2, <1>3, <2>1, <2>2, Configured
<1>5. \A d \in Buckets \ {b} : /\ granted'[d] = granted[d] /\ clock' = clock
                               /\ windowStart'[d] = windowStart[d]
  BY DEF OpenWindow, LimiterTypeOK
<1>6. PromiseInv'
  BY DEF PromiseInv, Covers, OpenWindow, map
<1> QED
  BY <1>1, <1>2, <1>4, <1>5, <1>6

\* Every step keeps both.
LEMMA NextBudget ==
    BudgetInv /\ PromiseInv /\ [LimiterNext]_limiters => BudgetInv' /\ PromiseInv'
<1>1. CASE UNCHANGED limiters
  BY <1>1 DEF limiters, map, BudgetInv, PromiseInv, Covers, LimiterTypeOK, Refilled
<1> QED
  BY <1>1, AllowBudget, ReapBudget, TickBudget, WindowOpens DEF LimiterNext

\* The invariant holds in every reachable state.
THEOREM BudgetSafety == LimiterSpec => [](BudgetInv /\ PromiseInv)
BY InitBudget, NextBudget, PTL DEF LimiterSpec

\* What was granted alone is within the budget.
LEMMA BudgetBounds == BudgetInv => WindowBudget
<1> SUFFICES ASSUME BudgetInv, NEW b \in Buckets, windowStart[b] # Never
             PROVE  Cost * granted[b]
                      <= Capacity(b) + Rate(b) * (clock - windowStart[b])
  BY DEF WindowBudget
<1>1. Refilled(b) \in 0..Capacity(b)
  BY RefillBounded DEF BudgetInv
<1>2. Rate(b) * (clock - windowStart[b]) \in Int /\ Cost * granted[b] \in Int
  BY GainTyped, Configured DEF BudgetInv, LimiterTypeOK
<1> QED
  BY <1>1, <1>2, Configured DEF BudgetInv

\* Over any window a client is granted at most the burst plus the sustained
\* rate times the window's length, reaping included.
THEOREM WindowSafety == LimiterSpec => []WindowBudget
BY BudgetSafety, BudgetBounds, PTL

-----------------------------------------------------------------------------
\* The buckets as TokenBucket sees them.

\* What Allow leaves in the bucket is what it offers from then on; the others'
\* offers are as they were.
LEMMA AllowLevel ==
    ASSUME LimiterTypeOK, NEW b \in Buckets, Refuse(b) \/ Grant(b)
    PROVE  /\ Refilled(b)' = tokens'[b]
           /\ \A d \in Buckets \ {b} : Refilled(d)' = Refilled(d)
<1>1. Refilled(b) \in 0..Capacity(b) /\ clock \in Nat
  BY RefillBounded DEF LimiterTypeOK
<1>2. /\ b \in buckets' /\ lastSeen'[b] = clock /\ clock' = clock
      /\ tokens'[b] \in {Refilled(b), Refilled(b) - Cost}
  BY DEF Refuse, Grant, LimiterTypeOK
<1>3. Rate(b) * (clock - clock) = 0
  BY <1>1, GainTyped
<1>4. tokens'[b] \in Int /\ tokens'[b] <= Capacity(b)
  BY <1>1, <1>2, Configured
<1>5. Refilled(b)' = tokens'[b]
  BY <1>2, <1>3, <1>4, Configured DEF Refilled, Smaller
<1>6. \A d \in Buckets \ {b} : Refilled(d)' = Refilled(d)
  BY DEF Refuse, Grant, Refilled, LimiterTypeOK
<1> QED
  BY <1>5, <1>6

\* A grant is a request served.
LEMMA GrantServes ==
    ASSUME LimiterTypeOK, NEW b \in Buckets, Grant(b)
    PROVE  Level!Serve(b)
<1> DEFINE lev == [d \in Buckets |-> Refilled(d)]
<1>1. /\ Refilled(b) >= Cost /\ tokens'[b] = Refilled(b) - Cost
      /\ retryAt' = [retryAt EXCEPT ![b] = Never] /\ clock' = clock
  BY DEF Grant, LimiterTypeOK
<1>2. /\ Refilled(b)' = Refilled(b) - Cost
      /\ \A d \in Buckets \ {b} : Refilled(d)' = Refilled(d)
  BY <1>1, AllowLevel
<1>3. /\ lev[b] = Refilled(b) /\ lev'[b] = Refilled(b) - Cost
      /\ lev' = [lev EXCEPT ![b] = lev'[b]]
  BY <1>2
<1> QED
  BY <1>1, <1>3 DEF Level!Serve

\* A refusal sends the client away until the first second that can pay, or
\* repeats what it was told before.
LEMMA RefusalSendsAway ==
    ASSUME LimiterTypeOK, NEW b \in Buckets, Refuse(b)
    PROVE  Level!SendAway(b) \/ UNCHANGED Level!bucket
<1> DEFINE lev == [d \in Buckets |-> Refilled(d)]
<1>1. /\ Refilled(b) < Cost /\ tokens'[b] = Refilled(b) /\ clock' = clock
      /\ retryAt' = [retryAt EXCEPT ![b] =
                        IF @ = Never THEN clock + RetryAfter(b) ELSE @]
  BY DEF Refuse, LimiterTypeOK
<1>2. \A d \in Buckets : Refilled(d)' = Refilled(d)
  BY <1>1, AllowLevel
<1>3. lev' = lev /\ lev[b] = Refilled(b)
  BY <1>2
<1>4. CASE retryAt[b] # Never
  <2>1. retryAt' = retryAt
    BY <1>1, <1>4 DEF LimiterTypeOK
  <2> QED
    BY <1>1, <1>3, <2>1 DEF Level!bucket
<1>5. CASE retryAt[b] = Never
  <2>1. retryAt' = [retryAt EXCEPT ![b] = clock + RetryAfter(b)]
    BY <1>1, <1>5
  <2>2. Refilled(b) \in 0..Capacity(b) /\ clock \in Nat
    BY RefillBounded DEF LimiterTypeOK
  <2>3. /\ RetryAfter(b) \in 1..Cost
        /\ Refilled(b) + Rate(b) * RetryAfter(b) >= Cost
        /\ Refilled(b) + Rate(b) * (RetryAfter(b) - 1) < Cost
    BY <1>1, <2>2, WaitSuffices, WaitLeast
  <2>4. retryAt'[b] # Never
    BY <2>1, <2>2, <2>3 DEF LimiterTypeOK, Never, Cost
  <2> QED
    BY <1>1, <1>3, <1>5, <2>1, <2>3, <2>4 DEF Level!SendAway
<1> QED
  BY <1>4, <1>5

\* A second passes for every bucket, present or not.
LEMMA TickFills ==
    ASSUME LimiterTypeOK, Tick
    PROVE  Level!Second
<1>1. ASSUME NEW b \in Buckets
      PROVE  Refilled(b)' = Level!Least(Capacity(b), Refilled(b) + Rate(b))
  <2>1. /\ clock \in Nat /\ lastSeen[b] \in Nat /\ lastSeen[b] <= clock
        /\ tokens[b] \in 0..Capacity(b)
    BY Configured DEF LimiterTypeOK
  <2>2. clock' = clock + 1 /\ UNCHANGED <<buckets, tokens, lastSeen>>
    BY DEF Tick, map
  <2>3. /\ Rate(b) * ((clock + 1) - lastSeen[b])
             = Rate(b) * (clock - lastSeen[b]) + Rate(b)
        /\ Rate(b) * (clock - lastSeen[b]) \in Int
    <3>1. clock \in Int /\ lastSeen[b] \in Int
      BY <2>1
    <3>2. Rate(b) * ((clock + 1) - lastSeen[b])
            = Rate(b) * (clock - lastSeen[b]) + Rate(b)
      BY <3>1, GainNext, Zenon
    <3> QED
      BY <3>1, <3>2, GainTyped
  <2>4. Rate(b) * (clock' - lastSeen[b]) = Rate(b) * (clock - lastSeen[b]) + Rate(b)
    BY <2>2, <2>3
  <2> QED
    BY <2>1, <2>2, <2>3, <2>4, Configured DEF Refilled, Smaller, Level!Least
<1>2. [b \in Buckets |-> Refilled(b)]' =
        [b \in Buckets |-> Level!Least(Capacity(b), Refilled(b) + Rate(b))]
  BY <1>1
<1>3. clock' = clock + 1 /\ retryAt' = retryAt
  BY DEF Tick
<1> QED
  BY <1>2, <1>3 DEF Level!Second

\* Every step of the limiters is a step of the buckets, or none.
LEMMA NextBuckets ==
    LimiterTypeOK /\ [LimiterNext]_limiters => [Level!Next]_Level!bucket
<1> SUFFICES ASSUME LimiterTypeOK, [LimiterNext]_limiters
             PROVE  [Level!Next]_Level!bucket
  OBVIOUS
<1>1. ASSUME NEW b \in Buckets, Refuse(b) \/ Grant(b)
      PROVE  [Level!Next]_Level!bucket
  BY <1>1, GrantServes, RefusalSendsAway DEF Level!Next
<1>2. ASSUME NEW b \in Buckets, OpenWindow(b) PROVE UNCHANGED Level!bucket
  BY <1>2 DEF OpenWindow, map, Refilled, Level!bucket
<1>3. ASSUME NEW l \in Limiters, Reap(l) PROVE UNCHANGED Level!bucket
  <2>1. \A b \in Buckets : Refilled(b)' = Refilled(b)
    BY <1>3, ReapFull
  <2> QED
    BY <1>3, <2>1 DEF Reap, Level!bucket
<1>4. CASE Tick
  BY <1>4, TickFills DEF Level!Next
<1>5. CASE UNCHANGED limiters
  BY <1>5 DEF limiters, map, Refilled, Level!bucket
<1> QED
  BY <1>1, <1>2, <1>3, <1>4, <1>5 DEF LimiterNext

\* The map, the refill on demand and the reaping of ratelimit.go implement
\* buckets that are always there and fill by themselves, and every Retry-After
\* is the earliest honest one.
THEOREM BucketsImplemented == LimiterSpec => ImplementsBuckets
<1>1. LimiterInit => Level!Init
  BY DEF LimiterInit, Level!Init, Refilled
<1>2. BudgetInv /\ [LimiterNext]_limiters => [Level!Next]_Level!bucket
  BY NextBuckets DEF BudgetInv
<1> QED
  BY <1>1, <1>2, BudgetSafety, PTL DEF LimiterSpec, ImplementsBuckets, Level!Spec
=============================================================================
