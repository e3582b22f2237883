---------------------------- MODULE TokenBucket ----------------------------
(***************************************************************************)
(* What the limiters promise their clients: every key has a bucket that    *)
(* was always there, gains a little each second up to its size, and pays   *)
(* Cost for each request it serves.  A client sent away is told the first  *)
(* second at which its bucket, left alone, can pay.  There is no map, no   *)
(* lazy refill and no reaping.                                             *)
(***************************************************************************)
EXTENDS Integers

CONSTANTS
    Keys,
    Gain,      \* key -> units gained each second
    Size,      \* key -> units its bucket holds at most
    Cost,      \* units a request costs
    None

VARIABLES
    now,
    level,     \* key -> units in its bucket
    promised   \* key -> the instant it was told to come back at, or None

bucket == <<now, level, promised>>

Least(x, y) == IF x <= y THEN x ELSE y

Init ==
    /\ now = 0
    /\ level = [k \in Keys |-> Size[k]]
    /\ promised = [k \in Keys |-> None]

Second ==
    /\ now' = now + 1
    /\ level' = [k \in Keys |-> Least(Size[k], level[k] + Gain[k])]
    /\ UNCHANGED promised

Serve(k) ==
    /\ level[k] >= Cost /\ level'[k] = level[k] - Cost
    /\ level' = [level EXCEPT ![k] = level'[k]]
    /\ promised' = [promised EXCEPT ![k] = None]
    /\ UNCHANGED now

SendAway(k) ==
    /\ promised[k] = None /\ promised'[k] # None
    /\ level[k] < Cost
    /\ \E wait \in 1..Cost :
        /\ level[k] + Gain[k] * wait >= Cost
        /\ level[k] + Gain[k] * (wait - 1) < Cost
        /\ promised' = [promised EXCEPT ![k] = now + wait]
    /\ UNCHANGED <<now, level>>

Next == Second \/ \E k \in Keys : Serve(k) \/ SendAway(k)

Spec == Init /\ [][Next]_bucket
=============================================================================
