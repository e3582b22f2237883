\* Two replicas of different releases boot, serve, drain and crash.
SPECIFICATION FairSpec
CONSTANTS
    old = old
    new = new
    Replicas = {old, new}
    Latest = 2
    Release <- MCRelease
    Workers = {janitor}
    Sweepers = {janitor}
    Conns = {c1}
    MaxFaults = 2
INVARIANTS
    DeployInv
    AppliedOnce
    InOrder
    SchemaReady
    ClosedLast
    CleanExit
PROPERTIES
    OutageRestartsNobody
    ImplementsFleet
    SignalledExits
    FleetServes
