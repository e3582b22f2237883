\* A client, a probe and the proxy both come through: both limiters fill,
\* refuse, are reaped and are used again, and the client may send the address
\* of the probe.
SPECIFICATION Spec
CONSTANTS
    Limiters = {"api", "auth"}
    Clients = {c1, probe, proxy}
    PerMinute <- MCPerMinute
    Burst <- MCBurst
    IdleFor = 2
    MaxTime = 3
    Requests = {q1, q2}
    Proxy = proxy
    TrustProxyHeader = TRUE
    Probers = {probe}
    Interval = 1
    NoClient = NoClient
    Routes = {"refresh", "healthz"}
ACTION_CONSTRAINT WindowsOfWatched
ACTION_CONSTRAINT Headers
SYMMETRY Symmetry
INVARIANTS
    GatewayInv
    WindowBudget
    CredentialBudget
    ProbeServed
PROPERTY
    PatientServed
    ImplementsBuckets
