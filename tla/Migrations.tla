----------------------------- MODULE Migrations -----------------------------
(***************************************************************************)
(* Store.Migrate (internal/store/postgres/postgres.go) as run by several   *)
(* replicas that start at the same time, on one database.                  *)
(*                                                                         *)
(* Nothing takes an advisory lock: a replica looks whether a version is    *)
(* recorded, and if not runs the script and records the version in one     *)
(* transaction.  The primary key of schema_migrations is what keeps two    *)
(* replicas apart; the locks the scripts themselves take only remove       *)
(* interleavings and are left out.  A replica may be of an older release   *)
(* and embed fewer scripts than another.                                   *)
(***************************************************************************)
EXTENDS Integers

CONSTANTS
    Replicas,   \* processes of the deployment
    Latest,     \* how many migrations the newest release embeds
    Release     \* replica -> how many of them its binary embeds

Versions == 1..Latest

ASSUME ReleaseAssumption ==
    Latest \in Nat /\ Release \in [Replicas -> 0..Latest]

VARIABLES
    pc,         \* where run() of each replica is
    step,       \* position of Migrate's loop over the sorted file names
    work,       \* what the replica's open transaction has done so far
    booked,     \* schema_migrations exists
    recorded,   \* versions it holds
    applied     \* how often the script of a version took effect

database == <<booked, recorded, applied>>
migration == <<pc, step, work, database>>

At(r, p) == pc[r] = p
Goto(r, p) == pc' = [pc EXCEPT ![r] = p]

MigrationInit ==
    /\ pc = [r \in Replicas |-> "down"]
    /\ step = [r \in Replicas |-> 0]
    /\ work = [r \in Replicas |-> {}]
    /\ booked = FALSE
    /\ recorded = {}
    /\ applied = [v \in Versions |-> 0]

-----------------------------------------------------------------------------
\* Predicates.

\* sort.Strings(entries): the file names are numbered, 0001_ before 0002_.
Unsorted(r, i) == Release[r] + 1 - i
Entry(r, i) == i

\* The loop over entries.
OneShort(r) == step[r] < Release[r]
MoreEntries(r) == step[r] <= Release[r]

\* INSERT INTO schema_migrations meets the primary key.
Upserted(v) == FALSE
DuplicateKey(v) == v \in recorded

\* Another transaction's uncommitted row for v makes the INSERT wait.
HeldByAnother(r, v) ==
    \E q \in Replicas \ {r} : "row" \in work[q] /\ Entry(q, step[q]) = v

-----------------------------------------------------------------------------
\* The steps, one statement each.

\* Any error makes Migrate, and then run, return: the transaction is rolled
\* back and the store is closed on the way out.
Abort(r) ==
    /\ Goto(r, "close")
    /\ work' = [work EXCEPT ![r] = {}]
    /\ UNCHANGED <<step, database>>

\* CREATE TABLE IF NOT EXISTS: the look ...
AlwaysCreate(r) ==
    /\ At(r, "ensure")
    /\ Goto(r, "create")
    /\ UNCHANGED <<step, work, database>>
LookForTable(r) ==
    /\ At(r, "ensure")
    /\ IF booked THEN Goto(r, "check") /\ step' = [step EXCEPT ![r] = 1]
                 ELSE Goto(r, "create") /\ UNCHANGED step
    /\ UNCHANGED <<work, database>>

\* ... and the entry in the catalogue, which fails if another session's got
\* there first.
CreateTable(r) ==
    /\ At(r, "create")
    /\ \/ /\ ~booked
          /\ booked' = TRUE
          /\ Goto(r, "check")
          /\ step' = [step EXCEPT ![r] = 1]
          /\ UNCHANGED <<work, recorded, applied>>
       \/ booked /\ Abort(r)

\* SELECT EXISTS, for the next file, or the end of the loop.
Check(r) ==
    /\ At(r, "check")
    /\ \/ /\ ~MoreEntries(r)
          /\ Goto(r, "wire")
          /\ UNCHANGED step
       \/ /\ MoreEntries(r) /\ Entry(r, step[r]) \in recorded
          /\ step' = [step EXCEPT ![r] = @ + 1]
          /\ UNCHANGED pc
       \/ /\ MoreEntries(r) /\ Entry(r, step[r]) \notin recorded
          /\ Goto(r, "script")
          /\ UNCHANGED step
    /\ UNCHANGED <<work, database>>

\* The script, inside the transaction.  One that was applied meanwhile may
\* fail ("relation already exists") or be idempotent.
Autocommitted(r) ==
    /\ At(r, "script")
    /\ Goto(r, "record")
    /\ applied' = [applied EXCEPT ![Entry(r, step[r])] = @ + 1]
    /\ UNCHANGED <<step, work, booked, recorded>>
Script(r) ==
    /\ At(r, "script")
    /\ \/ /\ Goto(r, "record")
          /\ work' = [work EXCEPT ![r] = {"script"}]
          /\ UNCHANGED <<step, database>>
       \/ applied[Entry(r, step[r])] > 0 /\ Abort(r)

\* The bookkeeping row, inside the transaction.
Record(r) ==
    /\ At(r, "record")
    /\ ~HeldByAnother(r, Entry(r, step[r]))
    /\ \/ /\ ~DuplicateKey(Entry(r, step[r]))
          /\ Goto(r, "commit")
          /\ work' = [work EXCEPT ![r] = @ \cup {"row"}]
          /\ UNCHANGED <<step, database>>
       \/ DuplicateKey(Entry(r, step[r])) /\ Abort(r)

\* What a commit makes visible.
CommitWork(r) ==
    LET v == Entry(r, step[r])
    IN /\ applied' = IF "script" \in work[r]
                     THEN [applied EXCEPT ![v] = @ + 1] ELSE applied
       /\ recorded' = IF "row" \in work[r]
                      THEN recorded \cup {v} ELSE recorded
       /\ work' = [work EXCEPT ![r] = {}]
       /\ UNCHANGED booked

Commit(r) ==
    /\ At(r, "commit")
    /\ CommitWork(r)
    /\ Goto(r, "check")
    /\ step' = [step EXCEPT ![r] = @ + 1]

\* The database commits but the answer is lost: Migrate returns an error.
CommitUnheard(r) ==
    /\ At(r, "commit")
    /\ CommitWork(r)
    /\ Goto(r, "close")
    /\ UNCHANGED step

Migrate(r) ==
    \/ LookForTable(r) \/ CreateTable(r) \/ Check(r)
    \/ Script(r) \/ Record(r) \/ Commit(r)

-----------------------------------------------------------------------------
\* Properties.

\* Whatever replicas race, crash or are restarted: a script takes effect
\* exactly once, and exactly when its version is recorded ("a failure part-way
\* through leaves nothing half-applied").
AppliedOnce ==
    \A v \in Versions : applied[v] = IF v \in recorded THEN 1 ELSE 0

\* Versions take effect in filename order, replicas of different releases
\* included: what is recorded is a prefix.
InOrder ==
    \A v \in recorded : \A u \in Versions : u < v => u \in recorded

\* A replica inside Migrate has everything before its position recorded; its
\* transaction holds what its program counter says; and only one replica at a
\* time holds the uncommitted row of a version, one not yet recorded.
InTransaction ==
    \A r \in Replicas :
        /\ pc[r] \in {"check", "script", "record", "commit"} =>
            step[r] > 0 /\ \A v \in Versions : v < step[r] => v \in recorded
        /\ pc[r] \in {"script", "record", "commit"} => step[r] <= Release[r]
        /\ "script" \in work[r] <=> pc[r] \in {"record", "commit"}
        /\ "row" \in work[r] <=> At(r, "commit")
        /\ At(r, "commit") =>
            /\ step[r] \notin recorded
            /\ \A q \in Replicas : At(q, "commit") /\ step[q] = step[r] => q = r
=============================================================================
