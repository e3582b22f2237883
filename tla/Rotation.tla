------------------------------ MODULE Rotation ------------------------------
(***************************************************************************)
(* What refresh-token rotation promises, without tables, requests or time. *)
(* A login opens a session.  While it lasts it owns a chain of tokens, of  *)
(* which at most the last is unspent; the chain grows only when its last   *)
(* token has been spent.  A session that is over has neither an exchange   *)
(* nor a new token ever again.                                             *)
(***************************************************************************)
CONSTANTS Families, Tokens

VARIABLES
    opened,   \* sessions that were started
    over,     \* those that have ended
    chain,    \* session -> the tokens issued in it
    spent     \* tokens that were exchanged

rotation == <<opened, over, chain, spent>>

Init ==
    /\ opened = {} /\ over = {} /\ spent = {}
    /\ chain = [f \in Families |-> {}]

Open(f) ==
    /\ f \notin opened
    /\ opened' = opened \cup {f}
    /\ UNCHANGED <<over, chain, spent>>

Spend(f, t) ==
    /\ f \in opened \ over
    /\ t \in chain[f] \ spent
    /\ spent' = spent \cup {t}
    /\ UNCHANGED <<opened, over, chain>>

Extend(f, t) ==
    /\ f \in opened \ over
    /\ chain[f] \subseteq spent
    /\ \A g \in Families : t \notin chain[g]
    /\ chain' = [chain EXCEPT ![f] = @ \cup {t}]
    /\ UNCHANGED <<opened, over, spent>>

\* Several sessions may end at once: RevokeAllForUser, expiry, a sweep.
End(F) ==
    /\ over' = over \cup F
    /\ UNCHANGED <<opened, chain, spent>>

Next ==
    \/ \E f \in Families : Open(f)
    \/ \E f \in Families, t \in Tokens : Spend(f, t) \/ Extend(f, t)
    \/ \E F \in SUBSET (opened \ over) : End(F)

Spec == Init /\ [][Next]_rotation
=============================================================================
