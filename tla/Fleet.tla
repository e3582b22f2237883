------------------------------- MODULE Fleet -------------------------------
(***************************************************************************)
(* What the deployment promises to clients and to the database, without    *)
(* goroutines, transactions or faults.  The schema advances one version at *)
(* a time and every script takes effect once.  A replica joins only when   *)
(* the schema holds all it needs and takes connections only until it       *)
(* leaves; on a connection it holds it may begin requests until it is      *)
(* gone, and it comes back only as a new process.  One that leaves in      *)
(* peace holds no connection: no request is open and none can begin.       *)
(***************************************************************************)
EXTENDS Integers

CONSTANTS Replicas, Latest, Release, Conns

VARIABLES
    schema,    \* versions the database has
    effects,   \* version -> how often its script took effect
    phase,     \* replica -> "out", "up" or "leaving"
    held,      \* replica -> connections that are open
    open,      \* replica -> those with a request being handled
    peace      \* replicas that left and report success

service == <<phase, held, open, peace>>
fleet == <<schema, effects, service>>

Init ==
    /\ schema = {}
    /\ effects = [v \in 1..Latest |-> 0]
    /\ phase = [r \in Replicas |-> "out"]
    /\ held = [r \in Replicas |-> {}]
    /\ open = [r \in Replicas |-> {}]
    /\ peace = {}

Advance(v) ==
    /\ v \notin schema
    /\ 1..(v - 1) \subseteq schema
    /\ schema' = schema \cup {v}
    /\ effects' = [effects EXCEPT ![v] = @ + 1]
    /\ UNCHANGED service

Join(r) ==
    /\ phase[r] = "out"
    /\ 1..Release[r] \subseteq schema
    /\ phase' = [phase EXCEPT ![r] = "up"]
    /\ UNCHANGED <<schema, effects, held, open, peace>>

Connect(r, c) ==
    /\ phase[r] = "up" /\ c \notin held[r]
    /\ held' = [held EXCEPT ![r] = @ \cup {c}]
    /\ UNCHANGED <<schema, effects, phase, open, peace>>

Admit(r, c) ==
    /\ c \in held[r] \ open[r]
    /\ open' = [open EXCEPT ![r] = @ \cup {c}]
    /\ UNCHANGED <<schema, effects, phase, held, peace>>

\* The connection is kept or closed.
Finish(r, c) ==
    /\ c \in open[r]
    /\ open' = [open EXCEPT ![r] = @ \ {c}]
    /\ held' \in {held, [held EXCEPT ![r] = @ \ {c}]}
    /\ UNCHANGED <<schema, effects, phase, peace>>

\* Connections without a request are closed.
HangUp(r, C) ==
    /\ C \cap open[r] = {}
    /\ held' = [held EXCEPT ![r] = @ \ C]
    /\ UNCHANGED <<schema, effects, phase, open, peace>>

Leave(r) ==
    /\ phase[r] = "up"
    /\ phase' = [phase EXCEPT ![r] = "leaving"]
    /\ UNCHANGED <<schema, effects, held, open, peace>>

LeaveInPeace(r) ==
    /\ phase[r] = "leaving" /\ held[r] = {}
    /\ peace' = peace \cup {r}
    /\ UNCHANGED <<schema, effects, phase, held, open>>

\* The process is gone, and its connections with it.
Vanish(r) ==
    /\ phase[r] # "out"
    /\ phase' = [phase EXCEPT ![r] = "out"]
    /\ held' = [held EXCEPT ![r] = {}]
    /\ open' = [open EXCEPT ![r] = {}]
    /\ peace' = peace \ {r}
    /\ UNCHANGED <<schema, effects>>

Next ==
    \/ \E v \in 1..Latest : Advance(v)
    \/ \E r \in Replicas : Join(r) \/ Leave(r) \/ LeaveInPeace(r) \/ Vanish(r)
    \/ \E r \in Replicas, c \in Conns : Connect(r, c) \/ Admit(r, c) \/ Finish(r, c)
    \/ \E r \in Replicas, C \in SUBSET Conns : HangUp(r, C)

Spec == Init /\ [][Next]_fleet
=============================================================================
