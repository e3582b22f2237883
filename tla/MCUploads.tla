------------------------------ MODULE MCUploads ------------------------------
(***************************************************************************)
(* Small instances of Uploads for TLC.                                     *)
(***************************************************************************)
EXTENDS Uploads, TLC

\* Requests, janitors, users, keys and post slots are interchangeable.
Symmetry ==
    Permutations(Requests) \cup Permutations(Janitors) \cup
    Permutations(Users) \cup Permutations(Keys) \cup Permutations(Posts)
=============================================================================
