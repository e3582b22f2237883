----------------------------- MODULE MCGateway -----------------------------
(***************************************************************************)
(* Small instances of Gateway for TLC.                                     *)
(***************************************************************************)
EXTENDS Gateway, TLC

\* One request a second and no reserve; on credentials 40 a minute, a refill
\* of 2/3 per second, so waits round up.
MCPerMinute == [l \in {"api", "auth"} |-> IF l = "api" THEN 60 ELSE 40]
MCBurst == [l \in {"api", "auth"} |-> 1]

\* Windows are opened on the credential budget ordinary clients use.
Watched == {<<"auth", Proxy>>}
WindowsOfWatched ==
    \A b \in Buckets \ Watched : windowStart'[b] = windowStart[b]

\* An ordinary client comes without a forwarded address, or asks for /healthz
\* with a probe's; behaviours with the latter are followed for one second.
Headers ==
    /\ \A q \in Requests : At(q, "idle") /\ req'[q] # req[q] =>
        \/ req'[q].client \in Probers
        \/ req'[q].fwd = NoClient
        \/ req'[q].fwd \in Probers /\ req'[q].route = "healthz"
    /\ borrowed' # {} => clock' <= 1

Symmetry == Permutations(Requests)
=============================================================================
