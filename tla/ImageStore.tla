----------------------------- MODULE ImageStore -----------------------------
(***************************************************************************)
(* What the upload flow promises about an image, without requests, URLs,   *)
(* time or post slots.  An upload is issued once, to one user and for one  *)
(* purpose; while it is tracked its owner may fill it; it is spent once,   *)
(* when it is filled; a spent upload is shown once, by its owner and for   *)
(* its purpose, and never comes back after it was withdrawn or replaced.   *)
(* A sweep condemns only uploads that are not spent, untracks only what    *)
(* was condemned, and deletes only what is no longer tracked.              *)
(***************************************************************************)
CONSTANTS Keys, Users, NoKey, NoUser, NoPurpose

VARIABLES
    owner,      \* key -> the user it was issued to
    use,        \* key -> the purpose it was issued for
    tracked,    \* uploads the system accounts for
    stored,     \* those that have bytes in storage
    spent,      \* those that were claimed
    shown,      \* those that were ever shown
    posted,     \* user -> images in the user's posts
    profile,    \* user -> image of the user's profile
    condemned   \* those a sweep has picked and not yet untracked

upload == <<owner, use>>
sweep == <<tracked, condemned>>
display == <<shown, posted, profile>>
store == <<upload, sweep, stored, spent, display>>

Init ==
    /\ owner = [k \in Keys |-> NoUser]
    /\ use = [k \in Keys |-> NoPurpose]
    /\ tracked = {} /\ stored = {} /\ spent = {} /\ shown = {}
    /\ posted = [u \in Users |-> {}]
    /\ profile = [u \in Users |-> NoKey]
    /\ condemned = {}

Issue(k, u, pur) ==
    /\ owner[k] = NoUser
    /\ owner' = [owner EXCEPT ![k] = u]
    /\ use' = [use EXCEPT ![k] = pur]
    /\ tracked' = tracked \cup {k}
    /\ UNCHANGED <<condemned, stored, spent, display>>

Fill(k) ==
    /\ k \in tracked
    /\ stored' = stored \cup {k}
    /\ UNCHANGED <<upload, sweep, spent, display>>

Spend(k) ==
    /\ k \in (tracked \cap stored) \ spent
    /\ spent' = spent \cup {k}
    /\ UNCHANGED <<upload, sweep, stored, display>>

ShowInPost(k) ==
    /\ k \in spent \ shown
    /\ use[k] = "post"
    /\ shown' = shown \cup {k}
    /\ posted' = [posted EXCEPT ![owner[k]] = @ \cup {k}]
    /\ UNCHANGED <<upload, sweep, stored, spent, profile>>

ShowInProfile(k) ==
    /\ k \in spent \ shown
    /\ use[k] = "avatar"
    /\ shown' = shown \cup {k}
    /\ profile' = [profile EXCEPT ![owner[k]] = k]
    /\ UNCHANGED <<upload, sweep, stored, spent, posted>>

RemovePost(u, k) ==
    /\ posted' = [posted EXCEPT ![u] = @ \ {k}]
    /\ UNCHANGED <<upload, sweep, stored, spent, shown, profile>>

ClearProfile(u) ==
    /\ profile' = [profile EXCEPT ![u] = NoKey]
    /\ UNCHANGED <<upload, sweep, stored, spent, shown, posted>>

Condemn(K) ==
    /\ K \subseteq tracked \ spent
    /\ condemned' = condemned \cup K
    /\ UNCHANGED <<upload, tracked, stored, spent, display>>

\* A sweep is over: the keys in K are untracked, those in C are no longer
\* threatened by it.
Release(K, C) ==
    /\ tracked' = tracked \ K
    /\ condemned' = condemned \ C
    /\ UNCHANGED <<upload, stored, spent, display>>

Delete(K) ==
    /\ K \cap tracked = {}
    /\ stored' = stored \ K
    /\ UNCHANGED <<upload, sweep, spent, display>>

Next ==
    \/ \E k \in Keys, u \in Users, pur \in {"avatar", "post"} : Issue(k, u, pur)
    \/ \E k \in Keys :
        Fill(k) \/ Spend(k) \/ ShowInPost(k) \/ ShowInProfile(k)
    \/ \E u \in Users : ClearProfile(u) \/ \E k \in posted[u] : RemovePost(u, k)
    \/ \E K \in SUBSET Keys : Condemn(K) \/ Delete(K)
    \/ \E K, C \in SUBSET condemned : Release(K, C)

Spec == Init /\ [][Next]_store
=============================================================================
