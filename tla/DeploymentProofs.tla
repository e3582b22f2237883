-------------------------- MODULE DeploymentProofs --------------------------
(***************************************************************************)
(* Proofs about Deployment for any number of replicas, releases, workers,  *)
(* connections and faults.                                                 *)
(*                                                                         *)
(* AppliedOnce is not inductive by itself: a replica about to commit will  *)
(* add one application and one row, so InTransaction says that nobody else *)
(* is about to commit that version and that it is not recorded.  ClosedLast*)
(* and CleanExit rest on InStep, which ties the goroutines to the point    *)
(* run() has reached.                                                      *)
(***************************************************************************)
EXTENDS Deployment, TLAPS

\* The part of the invariant about the database and Migrate.
MigrationInv == AppliedOnce /\ InOrder /\ InTransaction

\* The part about the goroutines of a process.
LifecycleInv == SchemaReady /\ InStep /\ ClosedLast /\ CleanExit

\* No process runs and the database is empty.
LEMMA InitDeploy == Init => DeployInv
<1> SUFFICES ASSUME Init PROVE DeployInv
  OBVIOUS
<1> USE ReleaseAssumption DEF Init, MigrationInit, NoWorkers, NoConns
<1>1. booked \in BOOLEAN /\ dbUp \in BOOLEAN
  BY Zenon
<1>2. TypeOK
  BY <1>1 DEF TypeOK, Boot, Leaving, Listeners, WorkerStates, ConnStates
<1>3. AppliedOnce /\ InOrder
  BY DEF AppliedOnce, InOrder
<1>4. InTransaction
  BY DEF InTransaction, At
<1>5. SchemaReady /\ InStep /\ ClosedLast /\ CleanExit
  BY DEF SchemaReady, InStep, ClosedLast, CleanExit, At, ShuttingDown
<1> QED
  BY <1>2, <1>3, <1>4, <1>5 DEF DeployInv

-----------------------------------------------------------------------------
\* Migrate.

\* A replica that leaves Migrate, or moves elsewhere, gives up its
\* transaction and disturbs nobody's.
LEMMA LeaveMigration ==
    ASSUME TypeOK, MigrationInv, NEW r \in Replicas, NEW p,
           pc' = [pc EXCEPT ![r] = p],
           p \notin {"check", "script", "record", "commit"},
           work' = [work EXCEPT ![r] = {}],
           \A q \in Replicas \ {r} : step'[q] = step[q],
           UNCHANGED database
    PROVE  MigrationInv'
<1> USE DEF MigrationInv, database
<1>1. (AppliedOnce /\ InOrder)'
  BY DEF AppliedOnce, InOrder
<1>2. InTransaction'
  BY DEF InTransaction, TypeOK, At
<1> QED
  BY <1>1, <1>2

\* A replica outside Migrate has no transaction to give up.
LEMMA MoveElsewhere ==
    ASSUME TypeOK, MigrationInv, NEW r \in Replicas, NEW p,
           pc[r] \notin {"record", "commit"},
           pc' = [pc EXCEPT ![r] = p],
           p \notin {"check", "script", "record", "commit"},
           UNCHANGED <<step, work, database>>
    PROVE  MigrationInv'
<1>1. work[r] = {}
  <2>1. "script" \notin work[r] /\ "row" \notin work[r]
    BY DEF MigrationInv, InTransaction, At
  <2>2. work[r] \subseteq {"script", "row"}
    BY DEF TypeOK
  <2> QED
    BY <2>1, <2>2
<1>2. work' = [work EXCEPT ![r] = {}]
  BY <1>1 DEF TypeOK
<1> QED
  BY <1>2, LeaveMigration

\* Abort is such a move.
LEMMA AbortMigration ==
    ASSUME TypeOK, MigrationInv, NEW r \in Replicas, Abort(r)
    PROVE  MigrationInv'
BY LeaveMigration DEF Abort, Goto

\* The reading statements: a position is passed only when it is recorded.
LEMMA LookMigration ==
    ASSUME TypeOK, MigrationInv, NEW r \in Replicas,
           LookForTable(r) \/ CreateTable(r) \/ Check(r)
    PROVE  MigrationInv'
<1> USE ReleaseAssumption DEF MigrationInv, Goto, At
<1>1. CASE Abort(r)
  BY <1>1, AbortMigration
<1>2. CASE ~Abort(r)
  <2>1. UNCHANGED <<work, recorded, applied>>
    BY <1>2 DEF LookForTable, CreateTable, Check, database
  <2>2. (AppliedOnce /\ InOrder)'
    BY <2>1 DEF AppliedOnce, InOrder
  <2>3. \A q \in Replicas \ {r} : pc'[q] = pc[q] /\ step'[q] = step[q]
    BY <1>2 DEF LookForTable, CreateTable, Check, TypeOK
  <2>4. /\ pc[r] \in {"ensure", "create", "check"}
        /\ pc'[r] \in {"create", "check", "wire", "script"}
    BY <1>2 DEF LookForTable, CreateTable, Check, TypeOK
  <2>5. pc'[r] = "check" => step'[r] > 0 /\
            \A v \in Versions : v < step'[r] => v \in recorded
    BY <1>2 DEF LookForTable, CreateTable, Check, TypeOK, InTransaction,
       Versions, Entry
  <2>6. pc'[r] = "script" =>
            /\ step'[r] > 0 /\ step'[r] <= Release[r]
            /\ \A v \in Versions : v < step'[r] => v \in recorded
    BY <1>2 DEF LookForTable, CreateTable, Check, TypeOK, InTransaction,
       MoreEntries
  <2>7. InTransaction'
    BY <2>1, <2>3, <2>4, <2>5, <2>6 DEF InTransaction
  <2> QED
    BY <2>2, <2>7
<1> QED
  BY <1>1, <1>2

\* The script changes only the transaction.
LEMMA ScriptMigration ==
    ASSUME TypeOK, MigrationInv, NEW r \in Replicas, Script(r)
    PROVE  MigrationInv'
<1> USE DEF MigrationInv, Goto, At, database
<1>1. CASE Abort(r)
  BY <1>1, AbortMigration
<1>2. CASE ~Abort(r)
  <2>1. /\ pc[r] = "script" /\ pc' = [pc EXCEPT ![r] = "record"]
        /\ work' = [work EXCEPT ![r] = {"script"}]
        /\ UNCHANGED <<step, booked, recorded, applied>>
    BY <1>2 DEF Script
  <2>2. (AppliedOnce /\ InOrder)'
    BY <2>1 DEF AppliedOnce, InOrder
  <2>3. InTransaction'
    BY <2>1 DEF InTransaction, TypeOK
  <2> QED
    BY <2>2, <2>3
<1> QED
  BY <1>1, <1>2

\* The primary key lets one replica at a time hold the row of a version.
LEMMA RecordMigration ==
    ASSUME TypeOK, MigrationInv, NEW r \in Replicas, Record(r)
    PROVE  MigrationInv'
<1> USE DEF MigrationInv, Goto, At, database, Entry
<1>1. CASE Abort(r)
  BY <1>1, AbortMigration
<1>2. CASE ~Abort(r)
  <2>1. /\ pc[r] = "record" /\ pc' = [pc EXCEPT ![r] = "commit"]
        /\ work' = [work EXCEPT ![r] = @ \cup {"row"}]
        /\ UNCHANGED <<step, booked, recorded, applied>>
        /\ step[r] \notin recorded
    BY <1>2 DEF Record, DuplicateKey
  <2>2. \A q \in Replicas \ {r} : pc[q] = "commit" => step[q] # step[r]
    BY <1>2 DEF Record, HeldByAnother, InTransaction
  <2>3. (AppliedOnce /\ InOrder)'
    BY <2>1 DEF AppliedOnce, InOrder
  <2>4. InTransaction'
    BY <2>1, <2>2 DEF InTransaction, TypeOK
  <2> QED
    BY <2>3, <2>4
<1> QED
  BY <1>1, <1>2

\* Commit, heard or not: script and row take effect together, next in order.
LEMMA CommitMigration ==
    ASSUME TypeOK, MigrationInv, NEW r \in Replicas,
           Commit(r) \/ CommitUnheard(r)
    PROVE  MigrationInv'
<1> USE ReleaseAssumption DEF MigrationInv, Goto, At, database, Entry
<1> DEFINE v == step[r]
<1>1. /\ pc[r] = "commit" /\ work[r] = {"script", "row"}
      /\ v \in Versions /\ v \notin recorded
      /\ \A u \in Versions : u < v => u \in recorded
  BY DEF Commit, CommitUnheard, InTransaction, TypeOK, Versions
<1>2. /\ applied' = [applied EXCEPT ![v] = @ + 1]
      /\ recorded' = recorded \cup {v}
      /\ work' = [work EXCEPT ![r] = {}]
      /\ UNCHANGED booked
  BY <1>1 DEF Commit, CommitUnheard, CommitWork
<1>3. AppliedOnce'
  BY <1>1, <1>2 DEF AppliedOnce, TypeOK
<1>4. InOrder'
  BY <1>1, <1>2 DEF InOrder
<1>5. \A q \in Replicas \ {r} :
        /\ pc'[q] = pc[q] /\ step'[q] = step[q] /\ work'[q] = work[q]
        /\ pc[q] = "commit" => step[q] # v
  BY <1>1, <1>2 DEF Commit, CommitUnheard, TypeOK, InTransaction
<1>6. /\ work'[r] = {}
      /\ \/ pc'[r] = "close"
         \/ pc'[r] = "check" /\ step'[r] = v + 1
  BY <1>2 DEF Commit, CommitUnheard, TypeOK
<1>7. step'[r] = v + 1 =>
        step'[r] > 0 /\ \A u \in Versions : u < step'[r] => u \in recorded'
  BY <1>1, <1>2 DEF Versions
<1>8. InTransaction'
  BY <1>2, <1>5, <1>6, <1>7 DEF InTransaction
<1> QED
  BY <1>3, <1>4, <1>8

-----------------------------------------------------------------------------
\* Starting up.

PCs == {"down"} \cup Boot \cup Leaving \cup {"serve"}

\* Migrate moves between its own points and the exit.
LEMMA MigrateMoves ==
    ASSUME TypeOK, NEW r \in Replicas, Migrate(r) \/ CommitUnheard(r)
    PROVE  \E p \in {"create", "check", "script", "record", "commit", "wire",
                     "close"} :
            /\ pc' = [pc EXCEPT ![r] = p]
            /\ p = "wire" => Check(r) /\ ~MoreEntries(r)
<1>1. CASE Abort(r)
  BY <1>1 DEF Abort, Goto
<1>2. CASE LookForTable(r) \/ CreateTable(r)
  BY <1>1, <1>2 DEF LookForTable, CreateTable, Goto
<1>3. CASE Check(r)
  <2>1. CASE ~MoreEntries(r)
    BY <1>3, <2>1 DEF Check, Goto
  <2>2. CASE MoreEntries(r) /\ Entry(r, step[r]) \in recorded
    <3>1. pc' = pc /\ pc[r] = "check"
      BY <1>3, <2>2 DEF Check, At
    <3>2. pc' = [pc EXCEPT ![r] = "check"]
      BY <3>1 DEF TypeOK
    <3> QED
      BY <3>2
  <2>3. CASE MoreEntries(r) /\ Entry(r, step[r]) \notin recorded
    BY <1>3, <2>3 DEF Check, Goto
  <2> QED
    BY <2>1, <2>2, <2>3
<1>4. CASE Script(r) \/ Record(r) \/ Commit(r) \/ CommitUnheard(r)
  BY <1>1, <1>4 DEF Script, Record, Commit, CommitUnheard, Goto
<1> QED
  BY <1>2, <1>3, <1>4 DEF Migrate

\* Migrate keeps the types.
LEMMA MigrateTypes ==
    ASSUME TypeOK, MigrationInv, NEW r \in Replicas,
           Migrate(r) \/ CommitUnheard(r),
           UNCHANGED <<lifecycle, dbUp>>, faults' \in Nat
    PROVE  TypeOK'
<1> USE ReleaseAssumption DEF At
<1>1. pc' \in [Replicas -> PCs]
  <2>1. PICK p \in {"create", "check", "script", "record", "commit", "wire",
                     "close"} : pc' = [pc EXCEPT ![r] = p]
    BY MigrateMoves
  <2>2. pc \in [Replicas -> PCs] /\ p \in PCs
    BY DEF TypeOK, PCs, Boot, Leaving
  <2> QED
    BY <2>1, <2>2
<1>2. step' \in [Replicas -> 0..(Latest + 1)]
  <2>0. step \in [Replicas -> 0..(Latest + 1)] /\ 1 \in 0..(Latest + 1)
    BY DEF TypeOK
  <2>1. CASE step' = step
    BY <2>0, <2>1
  <2>2. CASE step' = [step EXCEPT ![r] = 1]
    BY <2>0, <2>2
  <2>3. CASE /\ step' = [step EXCEPT ![r] = @ + 1]
             /\ (Check(r) /\ MoreEntries(r)) \/ Commit(r)
    <3>1. step[r] <= Release[r]
      BY <2>3 DEF MoreEntries, Commit, MigrationInv, InTransaction
    <3>2. step[r] + 1 \in 0..(Latest + 1)
      BY <2>0, <3>1
    <3> QED
      BY <2>0, <2>3, <3>2
  <2> QED
    BY <2>1, <2>2, <2>3 DEF Migrate, CommitUnheard, LookForTable, CreateTable,
       Check, Script, Record, Commit, Abort
<1>3. work' \in [Replicas -> SUBSET {"script", "row"}]
  <2>1. \/ work' = work \/ work' = [work EXCEPT ![r] = {}]
        \/ work' = [work EXCEPT ![r] = {"script"}]
        \/ work' = [work EXCEPT ![r] = @ \cup {"row"}]
    BY DEF Migrate, CommitUnheard, LookForTable, CreateTable, Check, Script,
       Record, Commit, CommitWork, Abort
  <2>2. work \in [Replicas -> SUBSET {"script", "row"}]
    BY DEF TypeOK
  <2> QED
    BY <2>1, <2>2
<1>4. booked' \in BOOLEAN
  <2>1. booked' = booked \/ booked' = TRUE
    BY DEF Migrate, CommitUnheard, LookForTable, CreateTable, Check, Script,
       Record, Commit, CommitWork, Abort, database
  <2>2. booked \in BOOLEAN
    BY DEF TypeOK
  <2> QED
    BY <2>1, <2>2, Zenon
<1>5. recorded' \subseteq Versions /\ applied' \in [Versions -> Nat]
  <2>0. recorded \subseteq Versions /\ applied \in [Versions -> Nat]
    BY DEF TypeOK
  <2>1. CASE UNCHANGED <<recorded, applied>>
    BY <2>0, <2>1
  <2>2. CASE (Commit(r) \/ CommitUnheard(r)) /\ CommitWork(r)
    <3>1. step[r] \in Versions
      BY <2>2 DEF Commit, CommitUnheard, MigrationInv, InTransaction, TypeOK,
         Versions
    <3>2. recorded' = recorded \cup {step[r]} \/ recorded' = recorded
      BY <2>2 DEF CommitWork, Entry
    <3>3. applied' = [applied EXCEPT ![step[r]] = @ + 1] \/ applied' = applied
      BY <2>2 DEF CommitWork, Entry
    <3> QED
      BY <2>0, <3>1, <3>2, <3>3
  <2> QED
    BY <2>1, <2>2 DEF Migrate, CommitUnheard, LookForTable, CreateTable, Check,
       Script, Record, Commit, Abort, database
<1> QED
  BY <1>1, <1>2, <1>3, <1>4, <1>5 DEF TypeOK, PCs, lifecycle

\* Before its goroutines are launched a process may move anywhere but into
\* the middle of a shutdown; wire is reached on a complete schema.
LEMMA BootLifecycle ==
    ASSUME TypeOK, LifecycleInv, NEW r \in Replicas, NEW p,
           pc[r] \in {"down"} \cup Boot, pc' = [pc EXCEPT ![r] = p],
           p \notin {"wait", "result"},
           p = "wire" => \A v \in 1..Release[r] : v \in recorded,
           recorded \subseteq recorded', UNCHANGED lifecycle
    PROVE  LifecycleInv'
<1> USE DEF LifecycleInv, lifecycle, At
<1>1. /\ listener[r] = "off" /\ drained[r] = "no" /\ serveErr[r] = "empty"
      /\ status[r] # "ok"
  BY DEF InStep, Boot, Leaving
<1>2. \A q \in Replicas \ {r} : pc'[q] = pc[q]
  BY DEF TypeOK
<1>3. pc'[r] = p
  BY DEF TypeOK
<1>4. SchemaReady'
  BY DEF SchemaReady
<1>5. InStep'
  <2>1. \A q \in Replicas : ShuttingDown(q) => q # r
    BY <1>1 DEF ShuttingDown, Boot
  <2>2. \A q \in Replicas \ {r} : ShuttingDown(q) => ShuttingDown(q)'
    BY <1>2 DEF ShuttingDown
  <2> QED
    BY <1>1, <1>2, <1>3, <2>1, <2>2 DEF InStep
<1>6. (ClosedLast /\ CleanExit)'
  BY <1>1, <1>2 DEF ClosedLast, CleanExit
<1> QED
  BY <1>4, <1>5, <1>6

\* Migrate, successful or not, is a part of that.
LEMMA MigrateDeploy ==
    ASSUME DeployInv, NEW r \in Replicas, Migrate(r) \/ CommitUnheard(r),
           UNCHANGED <<lifecycle, dbUp>>, faults' \in Nat
    PROVE  DeployInv'
<1> USE DEF DeployInv, MigrationInv, LifecycleInv
<1>1. TypeOK'
  BY MigrateTypes
<1>2. MigrationInv'
  BY LookMigration, ScriptMigration, RecordMigration, CommitMigration
  DEF Migrate
<1>3. LifecycleInv'
  <2>1. pc[r] \in Boot
    BY DEF Migrate, CommitUnheard, LookForTable, CreateTable, Check, Script,
       Record, Commit, At, Boot
  <2>2. recorded \subseteq recorded'
    BY DEF Migrate, CommitUnheard, LookForTable, CreateTable, Check, Script,
       Record, Commit, CommitWork, Abort, database
  <2>3. PICK p \in {"create", "check", "script", "record", "commit", "wire",
                    "close"} :
            /\ pc' = [pc EXCEPT ![r] = p]
            /\ p = "wire" => Check(r) /\ ~MoreEntries(r)
    BY MigrateMoves
  <2>4. p = "wire" => \A v \in 1..Release[r] : v \in recorded
    <3> SUFFICES ASSUME p = "wire", NEW v \in 1..Release[r]
                 PROVE  v \in recorded
      OBVIOUS
    <3>1. pc[r] = "check" /\ ~(step[r] <= Release[r])
      BY <2>3 DEF Check, MoreEntries, At
    <3>2. Release[r] \in 0..Latest /\ step[r] \in 0..(Latest + 1)
      BY ReleaseAssumption DEF TypeOK
    <3>3. v \in Versions /\ v < step[r]
      BY <3>1, <3>2, ReleaseAssumption DEF Versions
    <3> QED
      BY <3>1, <3>3 DEF InTransaction
  <2> QED
    BY <2>1, <2>2, <2>3, <2>4, BootLifecycle
<1> QED
  BY <1>1, <1>2, <1>3

\* Starting, connecting and failing before the goroutines exist.
LEMMA BootDeploy ==
    ASSUME DeployInv, NEW r \in Replicas,
           Start(r) \/ Connect(r) \/ BootFails(r),
           dbUp' = dbUp, faults' \in Nat
    PROVE  DeployInv'
<1> USE DEF DeployInv, MigrationInv, LifecycleInv
<1>1. PICK p \in {"connect", "ensure", "close", "closing"} :
            pc' = [pc EXCEPT ![r] = p]
  BY DEF Start, Connect, BootFails, Goto
<1>2. /\ pc[r] \in {"down"} \cup Boot
      /\ UNCHANGED <<step, database, lifecycle>>
  BY DEF Start, Connect, BootFails, At, Boot
<1>3. work' = [work EXCEPT ![r] = {}] \/ work' = work
  BY DEF Start, Connect, BootFails
<1>4. TypeOK'
  <2>1. pc \in [Replicas -> PCs] /\ p \in PCs
    BY DEF TypeOK, PCs, Boot, Leaving
  <2>2. pc' \in [Replicas -> PCs]
    BY <1>1, <2>1
  <2>3. work' \in [Replicas -> SUBSET {"script", "row"}]
    BY <1>3 DEF TypeOK
  <2> QED
    BY <1>2, <2>2, <2>3 DEF TypeOK, PCs, lifecycle, database
<1>5. MigrationInv'
  <2>1. CASE BootFails(r)
    BY <1>1, <1>2, <2>1, LeaveMigration DEF BootFails
  <2>2. CASE Start(r) \/ Connect(r)
    BY <1>1, <2>2, MoveElsewhere DEF Start, Connect, At
  <2> QED
    BY <2>1, <2>2
<1>6. LifecycleInv'
  BY <1>1, <1>2, BootLifecycle DEF database
<1> QED
  BY <1>4, <1>5, <1>6

\* A process disappears, by exiting or by crashing.
LEMMA GoneDeploy ==
    ASSUME DeployInv, NEW r \in Replicas, Gone(r), dbUp' = dbUp, faults' \in Nat
    PROVE  DeployInv'
<1> USE DEF DeployInv, MigrationInv, LifecycleInv
<1>1. TypeOK'
  <2>1. pc' \in [Replicas -> PCs]
    BY DEF Gone, Goto, TypeOK, PCs
  <2>2. step' \in [Replicas -> 0..(Latest + 1)]
    BY ReleaseAssumption DEF Gone, TypeOK
  <2>3. work' \in [Replicas -> SUBSET {"script", "row"}]
    BY DEF Gone, TypeOK
  <2>4. /\ listener' \in [Replicas -> Listeners]
        /\ serveErr' \in [Replicas -> {"empty", "nil", "error"}]
        /\ drained' \in [Replicas -> {"no", "clean", "timeout"}]
        /\ status' \in [Replicas -> {"ok", "error"}]
        /\ cancelled' \subseteq Replicas
    BY DEF Gone, TypeOK, Listeners
  <2>5. worker' \in [Replicas -> [Workers -> WorkerStates]]
    BY DEF Gone, TypeOK, NoWorkers, WorkerStates
  <2>6. conn' \in [Replicas -> [Conns -> ConnStates]]
    BY DEF Gone, TypeOK, NoConns, ConnStates
  <2> QED
    BY <2>1, <2>2, <2>3, <2>4, <2>5, <2>6 DEF Gone, TypeOK, PCs, database
<1>2. MigrationInv'
  BY LeaveMigration DEF Gone, Goto, TypeOK
<1>3. /\ pc'[r] = "down" /\ listener'[r] = "off" /\ serveErr'[r] = "empty"
      /\ worker'[r] = NoWorkers /\ conn'[r] = NoConns
      /\ drained'[r] = "no" /\ status'[r] = "error"
  BY DEF Gone, Goto, TypeOK
<1>4. \A q \in Replicas \ {r} :
        /\ pc'[q] = pc[q] /\ listener'[q] = listener[q]
        /\ serveErr'[q] = serveErr[q] /\ worker'[q] = worker[q]
        /\ conn'[q] = conn[q] /\ drained'[q] = drained[q]
        /\ status'[q] = status[q]
  BY DEF Gone, Goto, TypeOK
<1>5. recorded' = recorded
  BY DEF Gone, database
<1>6. SchemaReady'
  BY <1>3, <1>4, <1>5 DEF SchemaReady
<1>7. InStep'
  BY <1>3, <1>4, <1>5 DEF InStep, ShuttingDown, At, NoWorkers, NoConns
<1>8. (ClosedLast /\ CleanExit)'
  BY <1>3, <1>4 DEF ClosedLast, CleanExit, At
<1> QED
  BY <1>1, <1>2, <1>6, <1>7, <1>8

-----------------------------------------------------------------------------
\* Serving and shutting down.

\* The goroutines are launched.
LEMMA WireDeploy ==
    ASSUME DeployInv, NEW r \in Replicas, Wire(r), UNCHANGED dbUp, faults' \in Nat
    PROVE  DeployInv'
<1> USE DEF DeployInv, MigrationInv, LifecycleInv
<1>1. TypeOK'
  <2>1. pc' \in [Replicas -> PCs]
    BY DEF Wire, Goto, TypeOK, PCs
  <2>2. worker' \in [Replicas -> [Workers -> WorkerStates]]
    <3>1. [w \in Workers |-> IF w \in Sweepers THEN "busy" ELSE "idle"]
            \in [Workers -> WorkerStates]
      BY DEF WorkerStates
    <3> QED
      BY <3>1 DEF Wire, TypeOK
  <2>3. listener' \in [Replicas -> Listeners]
    BY DEF Wire, TypeOK, Listeners
  <2> QED
    BY <2>1, <2>2, <2>3 DEF Wire, TypeOK, PCs, database
<1>2. MigrationInv'
  BY MoveElsewhere DEF Wire, Goto, At
<1>3. /\ pc[r] = "wire" /\ pc'[r] = "serve" /\ listener'[r] = "starting"
      /\ listener[r] = "off" /\ drained[r] = "no" /\ serveErr[r] = "empty"
      /\ status[r] # "ok" /\ \A v \in 1..Release[r] : v \in recorded
  <2>1. pc[r] = "wire" /\ pc'[r] = "serve" /\ listener'[r] = "starting"
    BY DEF Wire, Goto, At, TypeOK
  <2>2. listener[r] = "off" /\ drained[r] = "no"
    BY <2>1 DEF InStep, Leaving
  <2>3. /\ serveErr[r] = "empty" /\ status[r] # "ok"
        /\ \A v \in 1..Release[r] : v \in recorded
    BY <2>1, <2>2 DEF InStep, At
  <2> QED
    BY <2>1, <2>2, <2>3
<1>4. /\ \A q \in Replicas \ {r} :
            /\ pc'[q] = pc[q] /\ listener'[q] = listener[q]
            /\ worker'[q] = worker[q]
      /\ UNCHANGED <<recorded, serveErr, conn, drained, status>>
  BY DEF Wire, Goto, TypeOK, database
<1>5. SchemaReady'
  BY <1>3, <1>4 DEF SchemaReady
<1>6. InStep'
  BY <1>3, <1>4 DEF InStep, ShuttingDown, At
<1>7. (ClosedLast /\ CleanExit)'
  BY <1>3, <1>4 DEF ClosedLast, CleanExit, At
<1> QED
  BY <1>1, <1>2, <1>5, <1>6, <1>7

\* The main goroutine from the select to the deferred Close: each point is
\* reached with what the next one relies on.
LEMMA LeaveDeploy ==
    ASSUME DeployInv, NEW r \in Replicas,
           \/ ServeFailed(r) \/ SignalSeen(r) \/ ShutdownReturns(r)
           \/ ShutdownTimesOut(r) \/ WaitReturns(r) \/ Result(r) \/ Close(r),
           UNCHANGED dbUp, faults' \in Nat
    PROVE  DeployInv'
<1> USE DEF DeployInv, MigrationInv, LifecycleInv
<1>1. PICK p \in Leaving : pc' = [pc EXCEPT ![r] = p]
  BY DEF ServeFailed, SignalSeen, ShutdownReturns, ShutdownTimesOut,
     WaitReturns, Result, Close, Goto, AfterWait, Leaving
<1>2. /\ pc[r] \in {"serve"} \cup Leaving
      /\ UNCHANGED <<step, work, database, cancelled, listener, worker>>
  BY DEF ServeFailed, SignalSeen, ShutdownReturns, ShutdownTimesOut,
     WaitReturns, Result, Close, At, Leaving, lifecycle
<1>hung. /\ conn' \in [Replicas -> [Conns -> ConnStates]]
         /\ \A q \in Replicas \ {r} : conn'[q] = conn[q]
         /\ \A c \in Conns : conn[r][c] = "free" => conn'[r][c] = "free"
  <2>1. CASE UNCHANGED conn
    BY <2>1 DEF TypeOK
  <2>2. CASE conn' = [conn EXCEPT ![r] = HungUp(r)]
    <3>1. HungUp(r) \in [Conns -> ConnStates]
      BY DEF HungUp, TypeOK, ConnStates
    <3>2. \A c \in Conns : conn[r][c] = "free" => HungUp(r)[c] = "free"
      BY DEF HungUp
    <3> QED
      BY <2>2, <3>1, <3>2 DEF TypeOK
  <2> QED
    BY <2>1, <2>2 DEF ServeFailed, SignalSeen, ShutdownReturns,
       ShutdownTimesOut, WaitReturns, Result, Close, lifecycle
<1>3. TypeOK'
  <2>1. pc' \in [Replicas -> PCs]
    BY <1>1 DEF TypeOK, PCs
  <2>2. /\ serveErr' \in [Replicas -> {"empty", "nil", "error"}]
        /\ status' \in [Replicas -> {"ok", "error"}]
        /\ drained' \in [Replicas -> {"no", "clean", "timeout"}]
    BY DEF TypeOK, ServeFailed, SignalSeen, ShutdownReturns, ShutdownTimesOut,
     WaitReturns, Result, Close, lifecycle
  <2> QED
    BY <1>2, <1>hung, <2>1, <2>2 DEF TypeOK, PCs, database
<1>4. MigrationInv'
  BY <1>1, <1>2, MoveElsewhere DEF Leaving
<1>5. \A q \in Replicas \ {r} :
        /\ pc'[q] = pc[q] /\ serveErr'[q] = serveErr[q]
        /\ drained'[q] = drained[q] /\ status'[q] = status[q]
  BY DEF ServeFailed, SignalSeen, ShutdownReturns, ShutdownTimesOut,
     WaitReturns, Result, Close, lifecycle, Goto, TypeOK
<1>6. SchemaReady'
  BY <1>2 DEF SchemaReady, database
<1>7. \A q \in Replicas \ {r} : ShuttingDown(q)' <=> ShuttingDown(q)
  BY <1>1, <1>5 DEF ShuttingDown, At, TypeOK
<1>8. pc'[r] = p
  BY <1>1 DEF TypeOK
<1>9. ASSUME /\ listener[r] # "off" => p \in {"serve"} \cup Leaving
             /\ serveErr'[r] # "empty" => listener[r] = "returned"
             /\ serveErr'[r] = "nil" => ShuttingDown(r)'
             /\ drained'[r] # "no" => p \in {"wait", "result", "close", "closing"}
             /\ drained'[r] # "no" => listener[r] # "listening"
             /\ drained'[r] = "clean" => \A c \in Conns : conn'[r][c] = "free"
             /\ drained'[r] # "no" /\ p # "wait" =>
                    \A w \in Workers : worker[r][w] = "off"
             /\ p = "wait" => drained'[r] # "no"
             /\ p = "result" => drained'[r] = "clean"
             /\ status'[r] = "ok" => /\ drained'[r] = "clean"
                                     /\ listener[r] = "returned"
                                     /\ p \in {"close", "closing"}
             /\ p \in {"close", "closing"} /\ drained'[r] = "no" =>
                    listener[r] \in {"off", "returned"}
      PROVE  (InStep /\ ClosedLast /\ CleanExit)'
  <2>1. UNCHANGED <<listener, worker, recorded>>
    BY <1>2 DEF database
  <2>2. p # "wire"
    BY DEF Leaving
  <2>3. InStep'
    BY <1>5, <1>7, <1>8, <1>9, <1>hung, <2>1, <2>2 DEF InStep, At
  <2>4. ClosedLast'
    BY <1>5, <1>8, <1>9, <1>hung, <2>1 DEF ClosedLast, At
  <2>5. CleanExit'
    BY <1>5, <1>8, <1>9, <1>hung, <2>1 DEF CleanExit, At
  <2> QED
    BY <2>3, <2>4, <2>5
<1> USE <1>8 DEF At, Goto, ShuttingDown
<1>10. CASE ServeFailed(r)
  <2>1. /\ pc[r] = "serve" /\ p = "close" /\ serveErr'[r] = "empty"
        /\ serveErr[r] # "empty"
        /\ status'[r] = IF serveErr[r] = "nil" THEN "ok" ELSE "error"
        /\ drained' = drained
    BY <1>10 DEF ServeFailed, TypeOK
  <2>2. drained[r] = "no" /\ serveErr[r] # "nil" /\ listener[r] = "returned"
    BY <2>1 DEF InStep
  <2> QED
    BY <1>3, <1>4, <1>6, <1>9, <2>1, <2>2 DEF Leaving
<1>11. CASE SignalSeen(r)
  <2>1. /\ pc[r] = "serve" /\ p = "drain"
        /\ UNCHANGED <<serveErr, status, drained>>
    BY <1>11 DEF SignalSeen, lifecycle, TypeOK
  <2>2. drained[r] = "no" /\ status[r] # "ok"
    BY <2>1 DEF InStep
  <2>3. serveErr[r] # "empty" => listener[r] = "returned"
    BY DEF InStep
  <2> QED
    BY <1>3, <1>4, <1>6, <1>9, <2>1, <2>2, <2>3 DEF Leaving
<1>12. CASE ShutdownReturns(r) \/ ShutdownTimesOut(r)
  <2>1. /\ pc[r] = "drain" /\ p = "wait" /\ UNCHANGED <<serveErr, status>>
        /\ listener[r] # "listening"
        /\ drained'[r] \in {"clean", "timeout"}
    BY <1>12 DEF ShutdownReturns, ShutdownTimesOut, TypeOK
  <2>2. drained[r] = "no" /\ status[r] # "ok"
    BY <2>1 DEF InStep
  <2>3. serveErr[r] # "empty" => listener[r] = "returned"
    BY DEF InStep
  <2>4. drained'[r] = "clean" => \A c \in Conns : conn'[r][c] = "free"
    <3>1. CASE ShutdownReturns(r)
      <4>1. \A c \in Conns : HungUp(r)[c] = "free"
        BY <3>1 DEF ShutdownReturns, NoneActive, HungUp
      <4>2. conn'[r] = HungUp(r)
        BY <3>1 DEF ShutdownReturns, TypeOK
      <4> QED
        BY <4>1, <4>2
    <3>2. CASE ShutdownTimesOut(r)
      BY <3>2 DEF ShutdownTimesOut, TypeOK
    <3> QED
      BY <1>12, <3>1, <3>2
  <2> QED
    BY <1>3, <1>4, <1>6, <1>9, <2>1, <2>2, <2>3, <2>4 DEF Leaving
<1>13. CASE WaitReturns(r)
  <2>1. /\ pc[r] = "wait" /\ UNCHANGED <<serveErr, status, drained>>
        /\ p = IF drained[r] = "timeout" THEN "close" ELSE "result"
        /\ \A w \in Workers : worker[r][w] = "off"
    BY <1>13 DEF WaitReturns, AfterWait, BackgroundDone, lifecycle,
       TypeOK
  <2>2. /\ drained[r] # "no" /\ drained[r] \in {"no", "clean", "timeout"}
        /\ listener[r] # "listening"
        /\ drained[r] = "clean" => \A c \in Conns : conn[r][c] = "free"
        /\ serveErr[r] # "empty" => listener[r] = "returned"
    BY <2>1 DEF InStep, TypeOK
  <2>3. status[r] # "ok"
    BY <2>1 DEF InStep
  <2> QED
    BY <1>3, <1>4, <1>6, <1>9, <1>hung, <2>1, <2>2, <2>3 DEF Leaving
<1>14. CASE Result(r)
  <2>1. /\ pc[r] = "result" /\ p = "close" /\ serveErr'[r] = "empty"
        /\ serveErr[r] # "empty" /\ drained' = drained
    BY <1>14 DEF Result, TypeOK
  <2>2. /\ drained[r] = "clean" /\ listener[r] = "returned"
        /\ \A w \in Workers : worker[r][w] = "off"
        /\ \A c \in Conns : conn[r][c] = "free"
    BY <2>1 DEF InStep
  <2> QED
    BY <1>3, <1>4, <1>6, <1>9, <1>hung, <2>1, <2>2 DEF Leaving
<1>15. CASE Close(r)
  <2>1. /\ pc[r] = "close" /\ p = "closing"
        /\ UNCHANGED <<serveErr, status, drained>>
    BY <1>15 DEF Close, lifecycle, TypeOK
  <2>2. /\ serveErr[r] # "empty" => listener[r] = "returned"
        /\ serveErr[r] = "nil" => drained[r] # "no"
        /\ drained[r] # "no" => listener[r] # "listening"
        /\ drained[r] = "clean" => \A c \in Conns : conn[r][c] = "free"
        /\ drained[r] # "no" => \A w \in Workers : worker[r][w] = "off"
        /\ drained[r] = "no" => listener[r] \in {"off", "returned"}
    BY <2>1 DEF InStep
  <2>3. status[r] = "ok" => drained[r] = "clean" /\ listener[r] = "returned"
    BY DEF InStep, CleanExit
  <2> QED
    BY <1>3, <1>4, <1>6, <1>9, <1>hung, <2>1, <2>2, <2>3 DEF Leaving
<1> QED
  BY <1>10, <1>11, <1>12, <1>13, <1>14, <1>15

-----------------------------------------------------------------------------
\* The other goroutines leave Migrate and the main goroutine alone.

\* Nothing of the database or of any run() changes.
LEMMA SameMigration ==
    ASSUME MigrationInv, UNCHANGED migration
    PROVE  MigrationInv'
BY DEF MigrationInv, AppliedOnce, InOrder, InTransaction, migration, database, At

\* The listener reports nil only after Shutdown was called.
LEMMA ListenerDeploy ==
    ASSUME DeployInv, NEW r \in Replicas,
           Listen(r) \/ ServerClosed(r) \/ ListenFails(r),
           UNCHANGED dbUp, faults' \in Nat
    PROVE  DeployInv'
<1> USE DEF DeployInv, MigrationInv, LifecycleInv
<1>1. UNCHANGED <<pc, step, work, booked, recorded, applied, cancelled, worker,
                  conn, drained, status>>
  BY DEF Listen, ServerClosed, ListenFails, migration, database
<1>2. TypeOK'
  <2>1. /\ listener' \in [Replicas -> Listeners]
        /\ serveErr' \in [Replicas -> {"empty", "nil", "error"}]
    BY DEF Listen, ServerClosed, ListenFails, TypeOK, Listeners
  <2> QED
    BY <1>1, <2>1 DEF TypeOK
<1>3. MigrationInv'
  BY SameMigration DEF Listen, ServerClosed, ListenFails
<1>4. /\ listener[r] \in {"starting", "listening"}
      /\ \/ /\ listener'[r] = "listening" /\ serveErr'[r] = serveErr[r]
            /\ ~ShuttingDown(r)
         \/ /\ listener'[r] = "returned"
            /\ serveErr'[r] = "nil" => ShuttingDown(r)
      /\ \A q \in Replicas \ {r} :
            listener'[q] = listener[q] /\ serveErr'[q] = serveErr[q]
  BY DEF Listen, ServerClosed, ListenFails, TypeOK
<1>5. serveErr[r] = "empty"
  BY <1>4 DEF InStep
<1>6. SchemaReady'
  BY <1>1, <1>4 DEF SchemaReady
<1>7. InStep'
  BY <1>1, <1>4, <1>5 DEF InStep, ShuttingDown, At
<1>8. (ClosedLast /\ CleanExit)'
  BY <1>1, <1>4 DEF ClosedLast, CleanExit, At
<1> QED
  BY <1>2, <1>3, <1>6, <1>7, <1>8

\* A worker that has stopped stays stopped.
LEMMA WorkerDeploy ==
    ASSUME DeployInv, NEW r \in Replicas, NEW w \in Workers,
           NEW s \in WorkerStates, SetWorker(r, w, s), worker[r][w] # "off",
           UNCHANGED dbUp, faults' \in Nat
    PROVE  DeployInv'
<1> USE DEF DeployInv, MigrationInv, LifecycleInv
<1>1. UNCHANGED <<pc, step, work, booked, recorded, applied, cancelled,
                  listener, serveErr, conn, drained, status>>
  BY DEF SetWorker, migration, database
<1>2. worker' \in [Replicas -> [Workers -> WorkerStates]]
  BY DEF SetWorker, TypeOK
<1>3. \A q \in Replicas, x \in Workers :
        worker[q][x] = "off" => worker'[q][x] = "off"
  BY DEF SetWorker, TypeOK
<1>4. TypeOK'
  BY <1>1, <1>2 DEF TypeOK
<1>5. MigrationInv'
  BY SameMigration DEF SetWorker
<1>6. SchemaReady'
  BY <1>1 DEF SchemaReady
<1>7. InStep'
  BY <1>1, <1>3 DEF InStep, ShuttingDown, At
<1>8. (ClosedLast /\ CleanExit)'
  BY <1>1, <1>3 DEF ClosedLast, CleanExit, At
<1> QED
  BY <1>4, <1>5, <1>6, <1>7, <1>8

\* Once Shutdown has returned no connection is opened.
LEMMA ConnDeploy ==
    ASSUME DeployInv, NEW r \in Replicas, NEW c \in Conns,
           NEW s \in ConnStates, SetConn(r, c, s),
           conn[r][c] # "free" \/ listener[r] = "listening",
           UNCHANGED dbUp, faults' \in Nat
    PROVE  DeployInv'
<1> USE DEF DeployInv, MigrationInv, LifecycleInv
<1>1. UNCHANGED <<pc, step, work, booked, recorded, applied, cancelled,
                  listener, serveErr, worker, drained, status>>
  BY DEF SetConn, migration, database
<1>2. conn' \in [Replicas -> [Conns -> ConnStates]]
  BY DEF SetConn, TypeOK
<1>3. \A q \in Replicas :
        \/ conn'[q] = conn[q]
        \/ /\ q = r
           /\ \/ \E d \in Conns : conn[r][d] # "free"
              \/ listener[r] = "listening" /\ drained[r] = "no"
  BY DEF SetConn, TypeOK, InStep
<1>4. TypeOK'
  BY <1>1, <1>2 DEF TypeOK
<1>5. MigrationInv'
  BY SameMigration DEF SetConn
<1>6. SchemaReady'
  BY <1>1 DEF SchemaReady
<1>7. InStep'
  BY <1>1, <1>3 DEF InStep, ShuttingDown, At
<1>8. (ClosedLast /\ CleanExit)'
  BY <1>1, <1>3 DEF ClosedLast, CleanExit, InStep, At
<1> QED
  BY <1>4, <1>5, <1>6, <1>7, <1>8

\* Signals, probes, outages and recoveries change what nobody's invariant
\* is about.
LEMMA OutsideDeploy ==
    ASSUME DeployInv,
           UNCHANGED <<migration, listener, serveErr, worker, conn, drained,
                       status>>,
           cancelled' \subseteq Replicas, dbUp' \in BOOLEAN, faults' \in Nat
    PROVE  DeployInv'
<1> USE DEF DeployInv, MigrationInv, migration, database
<1>1. TypeOK'
  BY DEF TypeOK
<1>2. MigrationInv'
  BY SameMigration
<1>3. (SchemaReady /\ InStep)'
  BY DEF SchemaReady, InStep, ShuttingDown, At
<1>4. (ClosedLast /\ CleanExit)'
  BY DEF ClosedLast, CleanExit, At
<1> QED
  BY <1>1, <1>2, <1>3, <1>4

-----------------------------------------------------------------------------
\* The theorems.

\* Every step preserves the invariant.
LEMMA NextDeploy == DeployInv /\ [Next]_vars => DeployInv'
<1> SUFFICES ASSUME DeployInv, [Next]_vars PROVE DeployInv'
  OBVIOUS
<1>0. /\ dbUp \in BOOLEAN /\ faults \in Nat /\ cancelled \subseteq Replicas
      /\ faults + 1 \in Nat
  BY DEF DeployInv, TypeOK
<1>1. ASSUME NEW r \in Replicas, Main(r), UNCHANGED <<dbUp, faults>>
      PROVE  DeployInv'
  <2>0. faults' \in Nat /\ dbUp' = dbUp
    BY <1>0, <1>1
  <2>1. CASE Start(r) \/ Connect(r) \/ BootFails(r)
    BY <2>0, <2>1, BootDeploy
  <2>2. CASE Migrate(r) /\ UNCHANGED lifecycle
    BY <2>0, <2>2, MigrateDeploy
  <2>3. CASE Wire(r)
    BY <2>0, <2>3, WireDeploy
  <2>4. CASE Exit(r)
    BY <2>0, <2>4, GoneDeploy DEF Exit
  <2> QED
    BY <1>1, <2>0, <2>1, <2>2, <2>3, <2>4, LeaveDeploy DEF Main
<1>2. ASSUME NEW r \in Replicas, Listen(r) \/ ServerClosed(r),
             UNCHANGED <<dbUp, faults>>
      PROVE  DeployInv'
  BY <1>0, <1>2, ListenerDeploy
<1>3. ASSUME NEW r \in Replicas, NEW w \in Workers,
             \/ WorkerTick(r, w) \/ WorkerAcquires(r, w)
             \/ WorkerAnswered(r, w) \/ WorkerRests(r, w)
             \/ WorkerStops(r, w),
             UNCHANGED <<dbUp, faults>>
      PROVE  DeployInv'
  <2>1. worker[r][w] # "off" /\ \E s \in WorkerStates : SetWorker(r, w, s)
    BY <1>3 DEF WorkerTick, WorkerAcquires, WorkerAnswered, WorkerRests,
       WorkerStops, WorkerStates
  <2> QED
    BY <1>0, <1>3, <2>1, WorkerDeploy
<1>4. ASSUME NEW r \in Replicas, NEW c \in Conns,
             \/ Accept(r, c) \/ BeginRequest(r, c) \/ HangUp(r, c)
             \/ Query(r, c) \/ QueryAnswered(r, c) \/ Respond(r, c),
             UNCHANGED <<dbUp, faults>>
      PROVE  DeployInv'
  <2>1. /\ conn[r][c] # "free" \/ listener[r] = "listening"
        /\ \E s \in ConnStates : SetConn(r, c, s)
    BY <1>4 DEF Accept, BeginRequest, HangUp, Query, QueryAnswered, Respond,
       ConnStates
  <2> QED
    BY <1>0, <1>4, <2>1, ConnDeploy
<1>5. ASSUME NEW r \in Replicas, Probe(r) \/ Signal(r),
             dbUp' = dbUp, faults' \in Nat
      PROVE  DeployInv'
  <2>1. /\ cancelled' \subseteq Replicas
        /\ UNCHANGED <<migration, listener, serveErr, worker, conn, drained,
                       status>>
    BY <1>0, <1>5 DEF Probe, Signal
  <2> QED
    BY <1>0, <1>5, <2>1, OutsideDeploy
<1>6. CASE Fault
  <2>0. faults' \in Nat
    BY <1>0, <1>6 DEF Fault
  <2>1. CASE Outage
    <3>1. dbUp' \in BOOLEAN
      BY <2>1, Zenon DEF Outage
    <3> QED
      BY <1>0, <2>0, <2>1, <3>1, OutsideDeploy DEF Outage, lifecycle
  <2>2. ASSUME NEW r \in Replicas, dbUp' = dbUp,
               \/ Signal(r) \/ Crash(r) \/ BootFails(r) \/ ListenFails(r)
               \/ CommitUnheard(r) /\ UNCHANGED lifecycle
        PROVE  DeployInv'
    <3>1. CASE Signal(r)
      BY <1>5, <2>0, <2>2, <3>1
    <3>2. CASE Crash(r)
      BY <2>0, <2>2, <3>2, GoneDeploy DEF Crash
    <3>3. CASE BootFails(r)
      BY <2>0, <2>2, <3>3, BootDeploy
    <3>4. CASE ListenFails(r)
      BY <2>0, <2>2, <3>4, ListenerDeploy
    <3>5. CASE CommitUnheard(r) /\ UNCHANGED lifecycle
      BY <2>0, <2>2, <3>5, MigrateDeploy
    <3> QED
      BY <2>2, <3>1, <3>2, <3>3, <3>4, <3>5
  <2> QED
    BY <1>6, <2>1, <2>2 DEF Fault
<1>7. CASE Recovery
  <2>1. dbUp' \in BOOLEAN
    BY <1>7, Zenon DEF Recovery
  <2> QED
    BY <1>0, <1>7, <2>1, OutsideDeploy DEF Recovery, lifecycle
<1>8. CASE UNCHANGED vars
  BY <1>0, <1>8, OutsideDeploy DEF vars, lifecycle
<1> QED
  <2>1. ASSUME NEW r \in Replicas, Faultless(Work(r)) PROVE DeployInv'
    BY <1>0, <1>1, <1>2, <1>3, <1>4, <1>5, <2>1 DEF Faultless, Work
  <2> QED
    BY <1>6, <1>7, <1>8, <2>1 DEF Next

\* The inductive invariant holds throughout, whatever replicas race, crash,
\* are signalled or lose the database.
THEOREM DeploySafety == Spec => []DeployInv
<1>1. Init => DeployInv
  BY InitDeploy
<1>2. DeployInv /\ [Next]_vars => DeployInv'
  BY NextDeploy
<1> QED
  BY <1>1, <1>2, PTL DEF Spec

\* A migration's script takes effect exactly once, with its record, however
\* many replicas boot at once.
THEOREM AppliedOnceSafety == Spec => []AppliedOnce
BY DeploySafety, PTL DEF DeployInv

\* Migrations take effect in filename order.
THEOREM InOrderSafety == Spec => []InOrder
BY DeploySafety, PTL DEF DeployInv

\* A replica that listens has the schema its release needs.
THEOREM SchemaSafety == Spec => []SchemaReady
BY DeploySafety, PTL DEF DeployInv

\* After a signal the store is closed last.
THEOREM ClosedLastSafety == Spec => []ClosedLast
BY DeploySafety, PTL DEF DeployInv

\* Exit status 0 means nobody was cut off.
THEOREM CleanExitSafety == Spec => []CleanExit
BY DeploySafety, PTL DEF DeployInv

\* One step without a fault leaves a serving replica serving.
LEMMA ServingStep ==
    ASSUME DeployInv, Next, NEW r \in Replicas, Serving(r), r \notin cancelled,
           UNCHANGED faults
    PROVE  Serving(r)' /\ r \notin cancelled'
<1> USE DEF Serving, At, Goto
<1>0. /\ serveErr[r] = "empty" /\ drained[r] = "no" /\ faults # faults + 1
  <2>1. serveErr[r] = "empty" /\ drained[r] = "no"
    BY DEF DeployInv, InStep
  <2>2. faults \in Nat
    BY DEF DeployInv, TypeOK
  <2> QED
    BY <2>1, <2>2
<1>1. CASE Recovery
  BY <1>1 DEF Recovery, migration, lifecycle
<1>2. CASE Fault
  BY <1>0, <1>2 DEF Fault
<1>3. ASSUME NEW q \in Replicas, Work(q) PROVE Serving(r)' /\ r \notin cancelled'
  <2>1. CASE \E w \in Workers :
                \/ WorkerTick(q, w) \/ WorkerAcquires(q, w)
                \/ WorkerAnswered(q, w) \/ WorkerRests(q, w)
                \/ WorkerStops(q, w)
    BY <2>1 DEF WorkerTick, WorkerAcquires, WorkerAnswered, WorkerRests,
       WorkerStops, SetWorker, migration
  <2>2. CASE \E c \in Conns :
                \/ Accept(q, c) \/ BeginRequest(q, c) \/ HangUp(q, c)
                \/ Query(q, c) \/ QueryAnswered(q, c) \/ Respond(q, c)
    BY <2>2 DEF Accept, BeginRequest, HangUp, Query, QueryAnswered, Respond,
       SetConn, migration
  <2>3. CASE Listen(q) \/ ServerClosed(q)
    <3>1. q # r
      BY <1>0, <2>3 DEF Listen, ServerClosed, ShuttingDown
    <3> QED
      BY <2>3, <3>1 DEF Listen, ServerClosed, migration, DeployInv, TypeOK
  <2>4. CASE Probe(q)
    <3>1. q # r
      BY <2>4 DEF Probe, Healthy
    <3> QED
      BY <2>4, <3>1 DEF Probe, migration
  <2>5. CASE Main(q)
    <3>1. q # r
      BY <1>0, <2>5 DEF Main, Start, Connect, Migrate, LookForTable,
         CreateTable, Check, Script, Record, Commit, BootFails, Boot, Wire,
         ServeFailed, SignalSeen, ShutdownReturns, ShutdownTimesOut,
         WaitReturns, Result, Close, Exit
    <3>2. \/ UNCHANGED lifecycle
          \/ Wire(q) \/ ServeFailed(q) \/ ShutdownReturns(q)
          \/ ShutdownTimesOut(q) \/ Result(q) \/ Gone(q)
      BY <2>5 DEF Main, Start, Connect, BootFails, SignalSeen, WaitReturns,
         Close, Exit
    <3>3. listener'[r] = listener[r] /\ r \notin cancelled'
      BY <3>1, <3>2 DEF lifecycle, Wire, ServeFailed, ShutdownReturns,
         ShutdownTimesOut, Result, Gone, DeployInv, TypeOK
    <3>4. pc'[r] = pc[r]
      <4>1. pc' = pc \/ \E p : pc' = [pc EXCEPT ![q] = p]
        BY <2>5 DEF Main, Start, Connect, Migrate, LookForTable,
           CreateTable, Check, Script, Record, Commit, Abort, BootFails, Wire,
           ServeFailed, SignalSeen, ShutdownReturns, ShutdownTimesOut,
           WaitReturns, Result, Close, Exit, Gone
      <4> QED
        BY <3>1, <4>1 DEF DeployInv, TypeOK
    <3> QED
      BY <3>3, <3>4
  <2> QED
    BY <1>3, <2>1, <2>2, <2>3, <2>4, <2>5 DEF Work
<1> QED
  BY <1>1, <1>2, <1>3 DEF Next, Faultless

\* An outage of the database, failing sweeps and failing requests take no
\* serving replica down.
THEOREM OutageSafety == Spec => OutageRestartsNobody
<1>1. DeployInv /\ [Next]_vars =>
        [\A r \in Replicas :
            Serving(r) /\ r \notin cancelled /\ UNCHANGED faults
                => Serving(r)' /\ r \notin cancelled']_vars
  BY ServingStep
<1> QED
  BY <1>1, DeploySafety, PTL DEF Spec, OutageRestartsNobody

-----------------------------------------------------------------------------
\* The implementation of Fleet.

\* Nothing runs, nothing was applied.
LEMMA InitFleet == Init => Service!Init
<1> SUFFICES ASSUME Init PROVE Service!Init
  OBVIOUS
<1>1. Phase = [r \in Replicas |-> "out"]
  BY DEF Init, Phase
<1>2. Held = [r \in Replicas |-> {}] /\ Open = [r \in Replicas |-> {}]
  BY DEF Init, Held, Open, NoConns
<1>3. InPeace = {}
  BY DEF Init, InPeace
<1> QED
  BY <1>1, <1>2, <1>3 DEF Init, MigrationInit, Service!Init, Versions

\* Steps that move no listener and no connection show nothing.
LEMMA SameFleet ==
    ASSUME UNCHANGED <<recorded, applied, listener, conn, status>>
    PROVE  UNCHANGED Service!fleet
<1>1. UNCHANGED <<Phase, Held, Open, InPeace>>
  BY DEF Phase, Held, Open, InPeace
<1> QED
  BY <1>1 DEF Service!fleet, Service!service

\* Start, Connect, the statements of Migrate before the commit, and failures
\* of the start-up.
LEMMA BootFleet ==
    ASSUME NEW r \in Replicas,
           \/ Start(r) \/ Connect(r) \/ BootFails(r)
           \/ /\ \/ LookForTable(r) \/ CreateTable(r) \/ Check(r)
                 \/ Script(r) \/ Record(r)
              /\ UNCHANGED lifecycle
    PROVE  UNCHANGED Service!fleet
<1>1. UNCHANGED <<recorded, applied, lifecycle>>
  BY DEF Start, Connect, BootFails, LookForTable, CreateTable, Check, Script,
     Record, Abort, database
<1> QED
  BY <1>1, SameFleet DEF lifecycle

\* A commit, heard of or not, is the one advance of the schema.
LEMMA CommitFleet ==
    ASSUME DeployInv, NEW r \in Replicas, Commit(r) \/ CommitUnheard(r),
           UNCHANGED lifecycle
    PROVE  Service!Next
<1>1. PICK v : v = step[r]
  OBVIOUS
<1>2. /\ pc[r] = "commit" /\ "script" \in work[r] /\ "row" \in work[r]
      /\ v > 0 /\ v <= Release[r] /\ v \notin recorded
      /\ \A u \in Versions : u < v => u \in recorded
  BY <1>1 DEF Commit, CommitUnheard, DeployInv, InTransaction, At
<1>3. v \in 1..Latest /\ 1..(v - 1) \subseteq recorded
  <2>1. v \in 0..(Latest + 1) /\ Release[r] \in 0..Latest /\ Latest \in Nat
    BY <1>1, ReleaseAssumption DEF DeployInv, TypeOK
  <2> QED
    BY <1>2, <2>1 DEF Versions
<1>4. recorded' = recorded \cup {v} /\ applied' = [applied EXCEPT ![v] = @ + 1]
  BY <1>1, <1>2 DEF Commit, CommitUnheard, CommitWork, Entry
<1>5. UNCHANGED <<Phase, Held, Open, InPeace>>
  BY DEF lifecycle, Phase, Held, Open, InPeace
<1>6. Service!Advance(v)
  BY <1>2, <1>3, <1>4, <1>5 DEF Service!Advance, Service!service
<1> QED
  BY <1>3, <1>6 DEF Service!Next

\* Wire opens the service of a replica whose migrations are all recorded.
LEMMA WireFleet ==
    ASSUME DeployInv, NEW r \in Replicas, Wire(r)
    PROVE  Service!Next
<1>1. /\ pc[r] = "wire" /\ listener' = [listener EXCEPT ![r] = "starting"]
      /\ UNCHANGED <<recorded, applied, conn, status>>
  BY DEF Wire, At, database
<1>2. listener[r] = "off" /\ 1..Release[r] \subseteq recorded
  BY <1>1 DEF DeployInv, InStep, Leaving, At
<1>3. /\ listener'[r] = "starting"
      /\ \A q \in Replicas \ {r} : listener'[q] = listener[q]
  BY <1>1 DEF DeployInv, TypeOK
<1>4. Phase[r] = "out" /\ Phase' = [Phase EXCEPT ![r] = "up"]
  BY <1>2, <1>3 DEF Phase
<1>5. UNCHANGED <<Held, Open, InPeace>>
  BY <1>1 DEF Held, Open, InPeace
<1>6. Service!Join(r)
  BY <1>1, <1>2, <1>4, <1>5 DEF Service!Join
<1> QED
  BY <1>6 DEF Service!Next

\* The listener's return, for whatever reason, is the leaving; its start
\* shows nothing.
LEMMA ListenerFleet ==
    ASSUME DeployInv, NEW r \in Replicas,
           Listen(r) \/ ServerClosed(r) \/ ListenFails(r)
    PROVE  [Service!Next]_(Service!fleet)
<1>1. UNCHANGED <<recorded, applied, conn, status>>
  BY DEF Listen, ServerClosed, ListenFails, migration, database
<1>2. /\ listener[r] \in {"starting", "listening"}
      /\ listener'[r] \in {"listening", "returned"}
      /\ \A q \in Replicas \ {r} : listener'[q] = listener[q]
  BY DEF Listen, ServerClosed, ListenFails, DeployInv, TypeOK
<1>3. UNCHANGED <<Held, Open, InPeace>>
  BY <1>1 DEF Held, Open, InPeace
<1>4. CASE listener'[r] = "listening"
  <2>1. UNCHANGED Phase
    BY <1>2, <1>4 DEF Phase
  <2> QED
    BY <1>1, <1>3, <2>1 DEF Service!fleet, Service!service
<1>5. CASE listener'[r] = "returned"
  <2>1. Phase[r] = "up" /\ Phase' = [Phase EXCEPT ![r] = "leaving"]
    BY <1>2, <1>5 DEF Phase
  <2>2. Service!Leave(r)
    BY <1>1, <1>3, <2>1 DEF Service!Leave
  <2> QED
    BY <2>2 DEF Service!Next
<1> QED
  BY <1>2, <1>4, <1>5

\* A listener that dies before Shutdown was called gives no status 0; the
\* select on the signal, Wait and Close show nothing.
LEMMA SelectFleet ==
    ASSUME DeployInv, NEW r \in Replicas,
           ServeFailed(r) \/ SignalSeen(r) \/ WaitReturns(r) \/ Close(r)
    PROVE  UNCHANGED Service!fleet
<1>1. UNCHANGED <<recorded, applied, listener, conn>>
  BY DEF ServeFailed, SignalSeen, WaitReturns, Close, database, lifecycle
<1>2. UNCHANGED InPeace
  <2>1. CASE UNCHANGED status
    BY <2>1 DEF InPeace
  <2>2. CASE ServeFailed(r)
    <3>1. status[r] # "ok" /\ serveErr[r] # "nil"
      BY <2>2 DEF ServeFailed, DeployInv, InStep, ShuttingDown, At
    <3>2. \A q \in Replicas : status'[q] = "ok" <=> status[q] = "ok"
      BY <2>2, <3>1 DEF ServeFailed, DeployInv, TypeOK
    <3> QED
      BY <3>2 DEF InPeace
  <2> QED
    BY <2>1, <2>2 DEF SignalSeen, WaitReturns, Close, lifecycle
<1>3. UNCHANGED <<Phase, Held, Open>>
  BY <1>1 DEF Phase, Held, Open
<1> QED
  BY <1>1, <1>2, <1>3 DEF Service!fleet, Service!service

\* Shutdown hangs up on the connections that wait.
LEMMA ShutdownFleet ==
    ASSUME DeployInv, NEW r \in Replicas,
           ShutdownReturns(r) \/ ShutdownTimesOut(r)
    PROVE  Service!Next
<1>1. /\ conn' = [conn EXCEPT ![r] = HungUp(r)]
      /\ UNCHANGED <<recorded, applied, listener, status>>
  BY DEF ShutdownReturns, ShutdownTimesOut, database
<1>2. UNCHANGED <<Phase, InPeace>>
  BY <1>1 DEF Phase, InPeace
<1>3. /\ \A q \in Replicas \ {r} : conn'[q] = conn[q]
      /\ \A c \in Conns : conn'[r][c] =
            IF conn[r][c] = "waiting" THEN "free" ELSE conn[r][c]
  BY <1>1 DEF HungUp, DeployInv, TypeOK
<1>4. PICK C \in SUBSET Conns : C = {c \in Conns : conn[r][c] = "waiting"}
  OBVIOUS
<1>5. C \cap Open[r] = {}
  BY <1>4 DEF Open
<1>6. Held' = [Held EXCEPT ![r] = @ \ C]
  BY <1>3, <1>4 DEF Held
<1>7. Open' = Open
  <2>1. \A q \in Replicas, c \in Conns :
            conn'[q][c] \in {"handler", "query"} <=>
            conn[q][c] \in {"handler", "query"}
    BY <1>3
  <2> QED
    BY <2>1 DEF Open
<1>8. Service!HangUp(r, C)
  BY <1>1, <1>2, <1>5, <1>6, <1>7 DEF Service!HangUp
<1> QED
  BY <1>8 DEF Service!Next

\* return <-serveErr gives status 0 only with every connection closed.
LEMMA ResultFleet ==
    ASSUME DeployInv, NEW r \in Replicas, Result(r)
    PROVE  [Service!Next]_(Service!fleet)
<1>1. /\ pc[r] = "result" /\ serveErr[r] # "empty"
      /\ status' = [status EXCEPT ![r] =
                        IF serveErr[r] = "nil" THEN "ok" ELSE "error"]
      /\ UNCHANGED <<recorded, applied, listener, conn>>
  BY DEF Result, At, database
<1>2. /\ listener[r] = "returned" /\ status[r] # "ok"
      /\ \A c \in Conns : conn[r][c] = "free"
  BY <1>1 DEF DeployInv, InStep, At
<1>3. Phase[r] = "leaving" /\ Held[r] = {}
  BY <1>2 DEF Phase, Held
<1>4. UNCHANGED <<Phase, Held, Open>>
  BY <1>1 DEF Phase, Held, Open
<1>5. \/ UNCHANGED InPeace
      \/ InPeace' = InPeace \cup {r}
  BY <1>1, <1>2 DEF InPeace, DeployInv, TypeOK
<1>6. CASE UNCHANGED InPeace
  BY <1>1, <1>4, <1>6 DEF Service!fleet, Service!service
<1>7. CASE InPeace' = InPeace \cup {r}
  <2>1. Service!LeaveInPeace(r)
    BY <1>1, <1>3, <1>4, <1>7 DEF Service!LeaveInPeace
  <2> QED
    BY <2>1 DEF Service!Next
<1> QED
  BY <1>5, <1>6, <1>7

\* An exit or a crash: what the replica still had vanishes.
LEMMA GoneFleet ==
    ASSUME DeployInv, NEW r \in Replicas, Gone(r)
    PROVE  [Service!Next]_(Service!fleet)
<1>1. UNCHANGED <<recorded, applied>>
  BY DEF Gone, database
<1>2. /\ listener'[r] = "off" /\ conn'[r] = NoConns /\ status'[r] = "error"
      /\ \A q \in Replicas \ {r} :
            /\ listener'[q] = listener[q] /\ conn'[q] = conn[q]
            /\ status'[q] = status[q]
  BY DEF Gone, DeployInv, TypeOK
<1>3. Phase' = [Phase EXCEPT ![r] = "out"]
  BY <1>2 DEF Phase
<1>4. Held' = [Held EXCEPT ![r] = {}] /\ Open' = [Open EXCEPT ![r] = {}]
  <2>1. \A c \in Conns : conn'[r][c] = "free"
    BY <1>2 DEF NoConns
  <2>2. Held' = [Held EXCEPT ![r] = {}]
    BY <1>2, <2>1 DEF Held
  <2>3. Open' = [Open EXCEPT ![r] = {}]
    BY <1>2, <2>1 DEF Open
  <2> QED
    BY <2>2, <2>3
<1>5. InPeace' = InPeace \ {r}
  BY <1>2 DEF InPeace
<1>6. CASE listener[r] = "off"
  <2>1. /\ Phase[r] = "out" /\ Held[r] = {} /\ Open[r] = {}
        /\ r \notin InPeace
    BY <1>6 DEF Phase, Held, Open, InPeace, DeployInv, InStep, CleanExit
  <2>2. Phase' = Phase
    BY <1>2, <1>6 DEF Phase
  <2>3. Held' = Held /\ Open' = Open
    <3>1. /\ Held = [Held EXCEPT ![r] = Held[r]]
          /\ Open = [Open EXCEPT ![r] = Open[r]]
      BY DEF Held, Open
    <3> QED
      BY <1>4, <2>1, <3>1
  <2>4. InPeace' = InPeace
    BY <1>5, <2>1
  <2> QED
    BY <1>1, <2>2, <2>3, <2>4 DEF Service!fleet, Service!service
<1>7. CASE listener[r] # "off"
  <2>1. Phase[r] # "out"
    BY <1>7 DEF Phase
  <2>2. Service!Vanish(r)
    BY <1>1, <1>3, <1>4, <1>5, <2>1 DEF Service!Vanish
  <2> QED
    BY <2>2 DEF Service!Next
<1> QED
  BY <1>6, <1>7

\* The workers and signals show nothing.
LEMMA QuietFleet ==
    ASSUME NEW r \in Replicas,
           \/ Probe(r) \/ Signal(r)
           \/ \E w \in Workers :
                \/ WorkerTick(r, w) \/ WorkerAcquires(r, w)
                \/ WorkerAnswered(r, w) \/ WorkerRests(r, w)
                \/ WorkerStops(r, w)
    PROVE  UNCHANGED Service!fleet
<1>1. UNCHANGED <<recorded, applied, listener, conn, status>>
  BY DEF Probe, Signal, WorkerTick, WorkerAcquires, WorkerAnswered,
     WorkerRests, WorkerStops, SetWorker, migration, database
<1> QED
  BY <1>1, SameFleet

\* Connections are accepted only by a replica that is up; requests begin on
\* connections it holds.
LEMMA ConnFleet ==
    ASSUME DeployInv, NEW r \in Replicas, NEW c \in Conns,
           \/ Accept(r, c) \/ BeginRequest(r, c) \/ HangUp(r, c)
           \/ Query(r, c) \/ QueryAnswered(r, c) \/ Respond(r, c)
    PROVE  [Service!Next]_(Service!fleet)
<1>1. UNCHANGED <<recorded, applied, status, listener>>
  BY DEF Accept, BeginRequest, HangUp, Query, QueryAnswered, Respond, SetConn,
     migration, database
<1>2. UNCHANGED <<Phase, InPeace>>
  BY <1>1 DEF Phase, InPeace
<1>3. PICK s \in ConnStates : conn' = [conn EXCEPT ![r][c] = s]
  BY DEF Accept, BeginRequest, HangUp, Query, QueryAnswered, Respond, SetConn,
     ConnStates
<1>4. /\ conn'[r][c] = s
      /\ \A d \in Conns \ {c} : conn'[r][d] = conn[r][d]
      /\ \A q \in Replicas \ {r} : conn'[q] = conn[q]
  BY <1>3 DEF DeployInv, TypeOK
<1>5. CASE Accept(r, c)
  <2>1. conn[r][c] = "free" /\ s = "waiting" /\ listener[r] = "listening"
    BY <1>4, <1>5 DEF Accept, SetConn, DeployInv, TypeOK
  <2>2. Phase[r] = "up"
    BY <2>1 DEF Phase
  <2>3. c \notin Held[r] /\ Held' = [Held EXCEPT ![r] = @ \cup {c}]
    BY <1>4, <2>1 DEF Held
  <2>4. UNCHANGED Open
    BY <1>4, <2>1 DEF Open
  <2>5. Service!Connect(r, c)
    BY <1>1, <1>2, <2>2, <2>3, <2>4 DEF Service!Connect
  <2> QED
    BY <2>5 DEF Service!Next
<1>6. CASE BeginRequest(r, c)
  <2>1. conn[r][c] = "waiting" /\ s = "handler"
    BY <1>4, <1>6 DEF BeginRequest, SetConn, DeployInv, TypeOK
  <2>2. UNCHANGED Held
    BY <1>4, <2>1 DEF Held
  <2>3. c \in Held[r] \ Open[r]
    BY <2>1 DEF Held, Open
  <2>4. Open' = [Open EXCEPT ![r] = @ \cup {c}]
    BY <1>4, <2>1 DEF Open
  <2>5. Service!Admit(r, c)
    BY <1>1, <1>2, <2>2, <2>3, <2>4 DEF Service!Admit
  <2> QED
    BY <2>5 DEF Service!Next
<1>7. CASE HangUp(r, c)
  <2>1. conn[r][c] = "waiting" /\ s = "free"
    BY <1>4, <1>7 DEF HangUp, SetConn, DeployInv, TypeOK
  <2>2. Held' = [Held EXCEPT ![r] = @ \ {c}]
    BY <1>4, <2>1 DEF Held
  <2>3. UNCHANGED Open /\ {c} \cap Open[r] = {}
    BY <1>4, <2>1 DEF Open
  <2>4. Service!HangUp(r, {c})
    BY <1>1, <1>2, <2>2, <2>3 DEF Service!HangUp
  <2> QED
    BY <2>4 DEF Service!Next
<1>8. CASE Respond(r, c)
  <2>1. conn[r][c] = "handler" /\ s \in {"free", "waiting"}
    BY <1>4, <1>8 DEF Respond, SetConn, DeployInv, TypeOK
  <2>2. c \in Open[r] /\ Open' = [Open EXCEPT ![r] = @ \ {c}]
    BY <1>4, <2>1 DEF Open
  <2>3. Held' \in {Held, [Held EXCEPT ![r] = @ \ {c}]}
    <3>1. CASE s = "free"
      <4>1. Held' = [Held EXCEPT ![r] = @ \ {c}]
        BY <1>4, <2>1, <3>1 DEF Held
      <4> QED
        BY <4>1
    <3>2. CASE s = "waiting"
      <4>1. UNCHANGED Held
        BY <1>4, <2>1, <3>2 DEF Held
      <4> QED
        BY <4>1
    <3> QED
      BY <2>1, <3>1, <3>2
  <2>4. Service!Finish(r, c)
    BY <1>1, <1>2, <2>2, <2>3 DEF Service!Finish
  <2> QED
    BY <2>4 DEF Service!Next
<1>9. CASE Query(r, c) \/ QueryAnswered(r, c)
  <2>1. /\ conn[r][c] \in {"handler", "query"}
        /\ s \in {"handler", "query"}
    BY <1>4, <1>9 DEF Query, QueryAnswered, SetConn, DeployInv, TypeOK
  <2>2. UNCHANGED Held
    BY <1>4, <2>1 DEF Held
  <2>3. UNCHANGED Open
    BY <1>4, <2>1 DEF Open
  <2> QED
    BY <1>1, <1>2, <2>2, <2>3 DEF Service!fleet, Service!service
<1> QED
  BY <1>5, <1>6, <1>7, <1>8, <1>9

\* Every step of the deployment is a step of the fleet or shows nothing.
LEMMA NextFleet == DeployInv /\ [Next]_vars => [Service!Next]_(Service!fleet)
<1> SUFFICES ASSUME DeployInv, [Next]_vars
             PROVE  [Service!Next]_(Service!fleet)
  OBVIOUS
<1>1. ASSUME NEW r \in Replicas, Main(r)
      PROVE  [Service!Next]_(Service!fleet)
  <2>1. CASE Start(r) \/ Connect(r) \/ BootFails(r)
    BY <2>1, BootFleet
  <2>2. CASE Migrate(r) /\ UNCHANGED lifecycle
    BY <2>2, BootFleet, CommitFleet DEF Migrate
  <2>3. CASE Wire(r)
    BY <2>3, WireFleet
  <2>4. CASE ServeFailed(r) \/ SignalSeen(r) \/ WaitReturns(r) \/ Close(r)
    BY <2>4, SelectFleet
  <2>5. CASE ShutdownReturns(r) \/ ShutdownTimesOut(r)
    BY <2>5, ShutdownFleet
  <2>6. CASE Result(r) \/ Exit(r)
    BY <2>6, ResultFleet, GoneFleet DEF Exit
  <2> QED
    BY <1>1, <2>1, <2>2, <2>3, <2>4, <2>5, <2>6 DEF Main
<1>2. ASSUME NEW r \in Replicas, Work(r)
      PROVE  [Service!Next]_(Service!fleet)
  BY <1>1, <1>2, ListenerFleet, QuietFleet, ConnFleet DEF Work
<1>3. CASE Fault
  <2>1. CASE Outage
    BY <2>1, SameFleet DEF Outage, migration, database, lifecycle
  <2>2. ASSUME NEW r \in Replicas,
               \/ Signal(r) \/ Crash(r) \/ BootFails(r) \/ ListenFails(r)
               \/ CommitUnheard(r) /\ UNCHANGED lifecycle
        PROVE  [Service!Next]_(Service!fleet)
    BY <2>2, ListenerFleet, QuietFleet, GoneFleet, BootFleet, CommitFleet
       DEF Crash
  <2> QED
    BY <1>3, <2>1, <2>2 DEF Fault
<1>4. CASE Recovery \/ UNCHANGED vars
  BY <1>4, SameFleet DEF Recovery, vars, migration, database, lifecycle
<1> QED
  BY <1>2, <1>3, <1>4 DEF Next, Faultless

\* The replicas implement the fleet: the schema advances one version at a time
\* with each script's effect, nobody serves on a schema older than itself, no
\* connection is taken by a replica whose listener is gone, requests begin
\* only on connections that are open, after a dead listener too, and status 0
\* means that no connection was left on which one could begin or be cut off.
THEOREM FleetImplemented == Spec => ImplementsFleet
<1>1. Init => Service!Init
  BY InitFleet
<1>2. DeployInv /\ [Next]_vars => [Service!Next]_(Service!fleet)
  BY NextFleet
<1> QED
  BY <1>1, <1>2, DeploySafety, PTL DEF Spec, Service!Spec, ImplementsFleet
=============================================================================
