----------------------------- MODULE Deployment -----------------------------
(***************************************************************************)
(* The life of the processes: run() in main.go of every replica, from      *)
(* Connect through Migrate and serving to the exit, with its goroutines:   *)
(* the listener, the background workers (janitor, self-ping, reapers) and  *)
(* one per client connection, which outlives the request it was opened     *)
(* for.  The platform, which starts a process again after an exit and      *)
(* stops one that fails its liveness probe, and http.Server are external.  *)
(*                                                                         *)
(* The pool is open from Connect until st.Close begins; Close refuses new  *)
(* connections at once and returns when the ones in use are given back.    *)
(***************************************************************************)
EXTENDS Migrations

CONSTANTS
    Workers,    \* goroutines of the WaitGroup background
    Sweepers,   \* those of them that use the store (the janitor)
    Conns,      \* client connections per replica
    MaxFaults   \* bound on signals, crashes, outages and other failures

ASSUME SweepersAssumption == Sweepers \subseteq Workers
ASSUME FaultsAssumption == MaxFaults \in Nat

VARIABLES
    cancelled,  \* replicas whose ctx was cancelled by SIGINT or SIGTERM
    listener,   \* the goroutine around ListenAndServe
    serveErr,   \* the buffered channel it reports on
    worker,     \* replica -> worker -> its state
    conn,       \* replica -> client connection -> its state
    drained,    \* what httpServer.Shutdown returned
    status,     \* what run() returns
    dbUp,       \* the database answers
    faults      \* faults so far

lifecycle == <<cancelled, listener, serveErr, worker, conn, drained, status>>
vars == <<migration, lifecycle, dbUp, faults>>

Boot == {"connect", "ensure", "create", "check", "script", "record", "commit",
         "wire"}
Leaving == {"drain", "wait", "result", "close", "closing"}
Listeners == {"off", "starting", "listening", "returned"}
WorkerStates == {"off", "idle", "busy", "query"}
\* A waiting connection is new or kept alive: no request is in progress on it.
ConnStates == {"free", "waiting", "handler", "query"}

NoWorkers == [w \in Workers |-> "off"]
NoConns == [c \in Conns |-> "free"]

Init ==
    /\ MigrationInit
    /\ cancelled = {}
    /\ listener = [r \in Replicas |-> "off"]
    /\ serveErr = [r \in Replicas |-> "empty"]
    /\ worker = [r \in Replicas |-> NoWorkers]
    /\ conn = [r \in Replicas |-> NoConns]
    /\ drained = [r \in Replicas |-> "no"]
    /\ status = [r \in Replicas |-> "error"]
    /\ dbUp = TRUE
    /\ faults = 0

\* The process is gone, and with it its goroutines and its transaction.
Gone(r) ==
    /\ Goto(r, "down")
    /\ step' = [step EXCEPT ![r] = 0]
    /\ work' = [work EXCEPT ![r] = {}]
    /\ cancelled' = cancelled \ {r}
    /\ listener' = [listener EXCEPT ![r] = "off"]
    /\ serveErr' = [serveErr EXCEPT ![r] = "empty"]
    /\ worker' = [worker EXCEPT ![r] = NoWorkers]
    /\ conn' = [conn EXCEPT ![r] = NoConns]
    /\ drained' = [drained EXCEPT ![r] = "no"]
    /\ status' = [status EXCEPT ![r] = "error"]
    /\ UNCHANGED database

-----------------------------------------------------------------------------
\* Conditions run() waits for.

\* background.Wait().
NotAwaited(r) == TRUE
BackgroundDone(r) == \A w \in Workers : worker[r][w] = "off"

\* Shutdown's "no active connections".
NoneActive(r) == \A c \in Conns : conn[r][c] \in {"free", "waiting"}

\* Shutdown closes the connections that wait.
IdleLeft(r) == conn[r]
HungUp(r) ==
    [c \in Conns |-> IF conn[r][c] = "waiting" THEN "free" ELSE conn[r][c]]

\* if shutdownErr != nil { return shutdownErr }.
ErrorDropped(r) == "result"
AfterWait(r) == IF drained[r] = "timeout" THEN "close" ELSE "result"

\* Server.shuttingDown: Shutdown was called.
ShuttingDown(r) == At(r, "drain") \/ drained[r] # "no"

\* pool.Close() has been given back every connection in use.
PoolIdle(r) ==
    /\ \A w \in Workers : worker[r][w] # "query"
    /\ \A c \in Conns : conn[r][c] # "query"

PoolOpen(r) == ~At(r, "closing") /\ ~At(r, "down")

-----------------------------------------------------------------------------
\* The main goroutine.

\* Something starts the process; configuration is loaded.
Start(r) ==
    /\ At(r, "down")
    /\ Goto(r, "connect")
    /\ UNCHANGED <<step, work, database, lifecycle>>

\* postgres.Connect, ping included, succeeds.
Connect(r) ==
    /\ At(r, "connect")
    /\ Goto(r, "ensure")
    /\ UNCHANGED <<step, work, database, lifecycle>>

\* A step of the start-up fails: ctx was cancelled, the database is away, a
\* statement or the storage client gives an error.  A transaction is rolled
\* back; before the store exists there is nothing to close.
BootFails(r) ==
    /\ pc[r] \in Boot
    /\ work' = [work EXCEPT ![r] = {}]
    /\ Goto(r, IF At(r, "connect") THEN "closing" ELSE "close")
    /\ UNCHANGED <<step, database, lifecycle>>

\* The presigner and the server are built and every goroutine is launched:
\* the janitor sweeps at once, the others wait for their first tick.
Wire(r) ==
    /\ At(r, "wire")
    /\ Goto(r, "serve")
    /\ worker' = [worker EXCEPT ![r] =
                    [w \in Workers |-> IF w \in Sweepers THEN "busy" ELSE "idle"]]
    /\ listener' = [listener EXCEPT ![r] = "starting"]
    /\ UNCHANGED <<step, work, database, cancelled, serveErr, conn, drained,
                   status>>

\* select: the listener reported.  run returns without waiting for anyone and
\* without Shutdown: connections stay open and begin requests until the exit.
ServeFailed(r) ==
    /\ At(r, "serve")
    /\ serveErr[r] # "empty"
    /\ Goto(r, "close")
    /\ serveErr' = [serveErr EXCEPT ![r] = "empty"]
    /\ status' = [status EXCEPT ![r] = IF serveErr[r] = "nil" THEN "ok" ELSE "error"]
    /\ UNCHANGED <<step, work, database, cancelled, listener, worker, conn,
                   drained>>

\* select: ctx.Done().  Shutdown begins.
SignalSeen(r) ==
    /\ At(r, "serve")
    /\ r \in cancelled
    /\ Goto(r, "drain")
    /\ UNCHANGED <<step, work, database, lifecycle>>

\* Shutdown waits for a running Serve to return and then returns itself: nil
\* once no connection is active ...
ShutdownReturns(r) ==
    /\ At(r, "drain") /\ listener[r] # "listening"
    /\ NoneActive(r)
    /\ Goto(r, "wait")
    /\ drained' = [drained EXCEPT ![r] = "clean"]
    /\ conn' = [conn EXCEPT ![r] = HungUp(r)]
    /\ UNCHANGED <<step, work, database, cancelled, listener, serveErr, worker,
                   status>>

\* ... or the error of shutdownCtx, after 20 seconds.
NeverTimesOut(r) == FALSE
ShutdownTimesOut(r) ==
    /\ At(r, "drain") /\ listener[r] # "listening"
    /\ ~NoneActive(r)
    /\ Goto(r, "wait")
    /\ drained' = [drained EXCEPT ![r] = "timeout"]
    /\ conn' = [conn EXCEPT ![r] = HungUp(r)]
    /\ UNCHANGED <<step, work, database, cancelled, listener, serveErr, worker,
                   status>>

\* background.Wait() returns.
WaitReturns(r) ==
    /\ At(r, "wait")
    /\ BackgroundDone(r)
    /\ Goto(r, AfterWait(r))
    /\ UNCHANGED <<step, work, database, lifecycle>>

\* return <-serveErr.
Result(r) ==
    /\ At(r, "result")
    /\ serveErr[r] # "empty"
    /\ Goto(r, "close")
    /\ serveErr' = [serveErr EXCEPT ![r] = "empty"]
    /\ status' = [status EXCEPT ![r] = IF serveErr[r] = "nil" THEN "ok" ELSE "error"]
    /\ UNCHANGED <<step, work, database, cancelled, listener, worker, conn,
                   drained>>

\* The deferred st.Close() begins.
Close(r) ==
    /\ At(r, "close")
    /\ Goto(r, "closing")
    /\ UNCHANGED <<step, work, database, lifecycle>>

\* Close returns and main exits, whatever other goroutines are doing.
Exit(r) ==
    /\ At(r, "closing")
    /\ PoolIdle(r)
    /\ Gone(r)

\* A statement that was sent may still succeed after ctx was cancelled, so a
\* signal adds failures to the start-up and forbids nothing.
Main(r) ==
    \/ Start(r)
    \/ dbUp /\ Connect(r)
    \/ dbUp /\ Migrate(r) /\ UNCHANGED lifecycle
    \/ r \in cancelled /\ BootFails(r)
    \/ ~dbUp /\ ~At(r, "wire") /\ BootFails(r)
    \/ Wire(r) \/ ServeFailed(r) \/ SignalSeen(r)
    \/ ShutdownReturns(r) \/ ShutdownTimesOut(r) \/ WaitReturns(r)
    \/ Result(r) \/ Close(r) \/ Exit(r)

-----------------------------------------------------------------------------
\* The listener goroutine.

\* ListenAndServe opens the socket, unless Shutdown was called before.
Listen(r) ==
    /\ listener[r] = "starting"
    /\ IF ShuttingDown(r)
       THEN /\ listener' = [listener EXCEPT ![r] = "returned"]
            /\ serveErr' = [serveErr EXCEPT ![r] = "nil"]
       ELSE /\ listener' = [listener EXCEPT ![r] = "listening"]
            /\ UNCHANGED serveErr
    /\ UNCHANGED <<migration, cancelled, worker, conn, drained, status>>

\* Shutdown closed the socket: ErrServerClosed, reported as nil.
ServerClosed(r) ==
    /\ listener[r] = "listening"
    /\ ShuttingDown(r)
    /\ listener' = [listener EXCEPT ![r] = "returned"]
    /\ serveErr' = [serveErr EXCEPT ![r] = "nil"]
    /\ UNCHANGED <<migration, cancelled, worker, conn, drained, status>>

\* The address is taken, which may come out as late as during the drain, or
\* accepting fails for good.
ListenFails(r) ==
    /\ \/ listener[r] = "starting"
       \/ listener[r] = "listening" /\ ~ShuttingDown(r)
    /\ listener' = [listener EXCEPT ![r] = "returned"]
    /\ serveErr' = [serveErr EXCEPT ![r] = "error"]
    /\ UNCHANGED <<migration, cancelled, worker, conn, drained, status>>

-----------------------------------------------------------------------------
\* The background workers: Janitor.Run, Pinger.Run, StartReaper.

SetWorker(r, w, s) ==
    /\ worker' = [worker EXCEPT ![r][w] = s]
    /\ UNCHANGED <<migration, cancelled, listener, serveErr, conn, drained,
                   status>>

\* The ticker fires; select may prefer it to a cancelled ctx.
WorkerTick(r, w) == worker[r][w] = "idle" /\ SetWorker(r, w, "busy")

\* A statement of the sweep gets a connection of the pool.
WorkerAcquires(r, w) ==
    /\ w \in Sweepers
    /\ worker[r][w] = "busy"
    /\ r \notin cancelled /\ PoolOpen(r)
    /\ SetWorker(r, w, "query")

\* The statement ends: done, failed, cancelled or timed out.
WorkerAnswered(r, w) == worker[r][w] = "query" /\ SetWorker(r, w, "busy")

\* The sweep, ping or reaping is over, successful or not.
WorkerRests(r, w) == worker[r][w] = "busy" /\ SetWorker(r, w, "idle")

\* case <-ctx.Done(): return.
WorkerStops(r, w) ==
    /\ worker[r][w] = "idle"
    /\ r \in cancelled
    /\ SetWorker(r, w, "off")

-----------------------------------------------------------------------------
\* Client connections and the handlers of requests on them.

SetConn(r, c, s) ==
    /\ conn' = [conn EXCEPT ![r][c] = s]
    /\ UNCHANGED <<migration, cancelled, listener, serveErr, worker, drained,
                   status>>

\* Serve accepts until it returns.
Accept(r, c) ==
    /\ listener[r] = "listening"
    /\ conn[r][c] = "free"
    /\ SetConn(r, c, "waiting")

\* The first or a further request on a connection: nothing but the connection
\* is needed, neither the listener nor the store.
BeginRequest(r, c) == conn[r][c] = "waiting" /\ SetConn(r, c, "handler")

\* The client leaves, IdleTimeout is over, or Shutdown finds it idle.
HangUp(r, c) == conn[r][c] = "waiting" /\ SetConn(r, c, "free")

\* A store call gets a connection; on a closed pool it fails and the handler
\* goes on to answer.
Query(r, c) == conn[r][c] = "handler" /\ PoolOpen(r) /\ SetConn(r, c, "query")

QueryAnswered(r, c) == conn[r][c] = "query" /\ SetConn(r, c, "handler")

\* The connection is kept alive, except by a server that is shutting down.
Respond(r, c) ==
    /\ conn[r][c] = "handler"
    /\ SetConn(r, c, IF ShuttingDown(r) THEN "free" ELSE "waiting")

-----------------------------------------------------------------------------
\* The platform's probe.

\* GET /healthz: any process that can answer at all answers 200; the store is
\* not asked.  The route is behind the rate limiter like every other, but a
\* probe that rests is never refused (ProbeServed in Gateway); one that does
\* not rest and is answered 429 is a Signal here.
HealthOfDatabase(r) == listener[r] = "listening" /\ dbUp
Healthy(r) == listener[r] = "listening"

\* After its start a process that fails the probe is told to stop.
Probe(r) ==
    /\ At(r, "serve") /\ listener[r] # "starting"
    /\ r \notin cancelled
    /\ ~Healthy(r)
    /\ cancelled' = cancelled \cup {r}
    /\ UNCHANGED <<migration, listener, serveErr, worker, conn, drained, status>>

-----------------------------------------------------------------------------
\* Faults, at most MaxFaults of them.

Signal(r) ==
    /\ ~At(r, "down") /\ r \notin cancelled
    /\ cancelled' = cancelled \cup {r}
    /\ UNCHANGED <<migration, listener, serveErr, worker, conn, drained, status>>

Crash(r) == ~At(r, "down") /\ Gone(r)

Outage ==
    /\ dbUp
    /\ dbUp' = FALSE
    /\ UNCHANGED <<migration, lifecycle>>

Recovery ==
    /\ ~dbUp
    /\ dbUp' = TRUE
    /\ UNCHANGED <<migration, lifecycle, faults>>

Fault ==
    /\ faults < MaxFaults
    /\ faults' = faults + 1
    /\ \/ Outage
       \/ /\ UNCHANGED dbUp
          /\ \E r \in Replicas :
                \/ Signal(r) \/ Crash(r) \/ BootFails(r) \/ ListenFails(r)
                \/ CommitUnheard(r) /\ UNCHANGED lifecycle

Work(r) ==
    \/ Main(r) \/ Listen(r) \/ ServerClosed(r) \/ Probe(r)
    \/ \E w \in Workers :
        \/ WorkerTick(r, w) \/ WorkerAcquires(r, w) \/ WorkerAnswered(r, w)
        \/ WorkerRests(r, w) \/ WorkerStops(r, w)
    \/ \E c \in Conns :
        \/ Accept(r, c) \/ BeginRequest(r, c) \/ HangUp(r, c)
        \/ Query(r, c) \/ QueryAnswered(r, c) \/ Respond(r, c)

\* No fault happens meanwhile.
Faultless(A) == A /\ UNCHANGED <<dbUp, faults>>

Next ==
    \/ \E r \in Replicas : Faultless(Work(r))
    \/ Fault
    \/ Recovery

Spec == Init /\ [][Next]_vars

\* Goroutines that can run do run; statements end (the sweep has a deadline,
\* the database answers); a select with two ready cases does not prefer one
\* forever; processes are started again and outages end.  Nothing is assumed
\* of clients or of how long handlers take.
Fairness ==
    /\ WF_vars(Recovery)
    /\ \A r \in Replicas :
        /\ WF_vars(Faultless(Main(r)))
        /\ WF_vars(Faultless(Listen(r) \/ ServerClosed(r)))
        /\ \A w \in Workers :
            /\ WF_vars(Faultless(WorkerAnswered(r, w) \/ WorkerRests(r, w)))
            /\ SF_vars(Faultless(WorkerStops(r, w)))
        /\ \A c \in Conns : WF_vars(Faultless(QueryAnswered(r, c)))

FairSpec == Spec /\ Fairness

-----------------------------------------------------------------------------
\* Properties.

\* Every variable keeps its type.
TypeOK ==
    /\ pc \in [Replicas -> {"down"} \cup Boot \cup Leaving \cup {"serve"}]
    /\ step \in [Replicas -> 0..(Latest + 1)]
    /\ work \in [Replicas -> SUBSET {"script", "row"}]
    /\ booked \in BOOLEAN
    /\ recorded \subseteq Versions
    /\ applied \in [Versions -> Nat]
    /\ cancelled \subseteq Replicas
    /\ listener \in [Replicas -> Listeners]
    /\ serveErr \in [Replicas -> {"empty", "nil", "error"}]
    /\ worker \in [Replicas -> [Workers -> WorkerStates]]
    /\ conn \in [Replicas -> [Conns -> ConnStates]]
    /\ drained \in [Replicas -> {"no", "clean", "timeout"}]
    /\ status \in [Replicas -> {"ok", "error"}]
    /\ dbUp \in BOOLEAN
    /\ faults \in Nat

\* A replica that accepts connections or handles requests, be it on its way
\* out after its listener died, runs on a schema that has every
\* migration its binary embeds, whichever replica applied it.
SchemaReady ==
    \A r \in Replicas : listener[r] # "off" =>
        \A v \in 1..Release[r] : v \in recorded

\* After a signal the store is closed last: every background goroutine has
\* stopped before, and unless the drain timed out every connection is closed,
\* so that no request is open and none can begin.
ClosedLast ==
    \A r \in Replicas : At(r, "closing") /\ drained[r] # "no" =>
        /\ \A w \in Workers : worker[r][w] = "off"
        /\ drained[r] = "clean" => \A c \in Conns : conn[r][c] = "free"

\* A process that exits with status 0 cut nobody off: no connection, background
\* goroutine or listener was left when it closed the store.
CleanExit ==
    \A r \in Replicas : status[r] = "ok" =>
        /\ \A c \in Conns : conn[r][c] = "free"
        /\ \A w \in Workers : worker[r][w] = "off"
        /\ listener[r] = "returned"

\* What the point run() has reached says about the goroutines it launched and
\* about what they have reported.
InStep ==
    \A r \in Replicas :
        /\ listener[r] = "off" =>
            /\ \A w \in Workers : worker[r][w] = "off"
            /\ \A c \in Conns : conn[r][c] = "free"
        /\ listener[r] # "off" => pc[r] \in {"serve"} \cup Leaving
        /\ At(r, "wire") => \A v \in 1..Release[r] : v \in recorded
        /\ serveErr[r] # "empty" => listener[r] = "returned"
        /\ serveErr[r] = "nil" => ShuttingDown(r)
        /\ drained[r] # "no" => pc[r] \in {"wait", "result", "close", "closing"}
        /\ drained[r] # "no" => listener[r] # "listening"
        /\ drained[r] = "clean" => \A c \in Conns : conn[r][c] = "free"
        /\ drained[r] # "no" /\ ~At(r, "wait") =>
            \A w \in Workers : worker[r][w] = "off"
        /\ At(r, "wait") => drained[r] # "no"
        /\ At(r, "result") => drained[r] = "clean"
        /\ status[r] = "ok" =>
            drained[r] = "clean" /\ pc[r] \in {"close", "closing"}
        /\ pc[r] \in {"close", "closing"} /\ drained[r] = "no" =>
            listener[r] \in {"off", "returned"}

\* The inductive invariant of the deployment.
DeployInv ==
    /\ TypeOK /\ AppliedOnce /\ InOrder /\ InTransaction
    /\ SchemaReady /\ InStep /\ ClosedLast /\ CleanExit

Serving(r) == listener[r] = "listening" /\ At(r, "serve")

\* Only a signal, a crash or a dead listener takes a serving replica down: an
\* outage of the database restarts nobody, and neither do failing sweeps,
\* pings and requests.
OutageRestartsNobody ==
    [][\A r \in Replicas :
        Serving(r) /\ r \notin cancelled /\ UNCHANGED faults
            => Serving(r)' /\ r \notin cancelled']_vars

\* What a client sees of a replica: it accepts connections, it does not any
\* more, or there is no server.
Phase == [r \in Replicas |-> CASE listener[r] = "off" -> "out"
                                [] listener[r] = "returned" -> "leaving"
                                [] OTHER -> "up"]

Held == [r \in Replicas |-> {c \in Conns : conn[r][c] # "free"}]
Open == [r \in Replicas |-> {c \in Conns : conn[r][c] \in {"handler", "query"}}]

InPeace == {r \in Replicas : status[r] = "ok"}

Service == INSTANCE Fleet WITH
    schema <- recorded, effects <- applied, phase <- Phase, held <- Held,
    open <- Open, peace <- InPeace

\* The replicas together, racing, restarting and failing, are such a fleet:
\* every step they take is one of Fleet's or shows nothing outside.
ImplementsFleet == Service!Spec

\* SIGTERM ends the process, at whatever point of its life it arrives and
\* however long its handlers take.
SignalledExits == \A r \in Replicas : (r \in cancelled) ~> At(r, "down")

\* The fleet does not wedge: when crashes, signals and outages are over, every
\* replica ends up serving for good, those that lost a race for a migration
\* included.
FleetServes == \A r \in Replicas : <>[]Serving(r)
=============================================================================
