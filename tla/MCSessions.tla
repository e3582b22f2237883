----------------------------- MODULE MCSessions -----------------------------
(***************************************************************************)
(* Small instances of Sessions for TLC.                                    *)
(***************************************************************************)
EXTENDS Sessions, TLC

\* Requests, users, tokens and families are interchangeable.
Symmetry ==
    Permutations(Requests) \cup Permutations(Users) \cup
    Permutations(Tokens) \cup Permutations(Families)

\* Fresh tokens are interchangeable: taking them in one fixed order loses no
\* behaviour up to renaming, and unlike symmetry is sound for liveness.
TokensInOrder ==
    \A t \in minted' \ minted : t = CHOOSE s \in Tokens : s \notin minted
=============================================================================
