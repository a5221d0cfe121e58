------------------------------ MODULE Startup ------------------------------
(***************************************************************************)
(* How the processes come up around one database.  API servers, possibly   *)
(* of several releases at once, migrate the schema under an advisory lock  *)
(* and refuse to serve without a password.  The coordinator listens before *)
(* it has a connection, and a worker waits for the coordinator.  A process *)
(* that gives up or dies is started again.                                 *)
(***************************************************************************)
EXTENDS Naturals, Sequences

CONSTANTS
    Server,        \* API servers
    Coordinator,
    Worker,
    Release,       \* the number of migrations embedded in each server
    WithPassword,  \* servers whose environment has TASKD_PASSWORD
    MaxTries,      \* attempts of ConnectToDatabase
    MaxFaults,     \* bound: failed statements, crashes, outages
    MaxReports,    \* bound: reports that reach a coordinator as it starts
    None           \* nobody, no migration

Process == Server \cup {Coordinator, Worker}

ASSUME StartupAssumption ==
    /\ Coordinator \notin Server /\ Worker \notin Server /\ Coordinator # Worker
    /\ Release \in [Server -> Nat]
    /\ WithPassword \subseteq Server /\ WithPassword # {}
    /\ MaxTries \in Nat \ {0} /\ MaxFaults \in Nat /\ MaxReports \in Nat
    /\ None \notin Server /\ None \notin Nat

VARIABLES
    up,           \* the database answers
    pc,           \* where a process is
    tries,        \* its failed attempts to connect
    lock,         \* the server whose connection has the advisory lock
    recorded,     \* versions in schema_migrations
    schema,       \* the migrations that took effect, in this order
    applied,      \* what a server read from schema_migrations
    open,         \* the migration in its open transaction
    password,     \* whether users.password_hash is set
    faults,
    reports

databaseVars == <<recorded, schema, password>>
vars == <<up, pc, tries, lock, databaseVars, applied, open, faults, reports>>

Init ==
    /\ up = FALSE
    /\ pc = [p \in Process |-> "down"]
    /\ tries = [p \in Process |-> 0]
    /\ lock = None
    /\ recorded = {}
    /\ schema = <<>>
    /\ applied = [s \in Server |-> {}]
    /\ open = [s \in Server |-> None]
    /\ password = FALSE
    /\ faults = 0
    /\ reports = 0

Fault == faults < MaxFaults /\ faults' = faults + 1

Goto(p, step) == pc' = [pc EXCEPT ![p] = step]

\* Mutant: only the deferred unlock gives the lock back.
Disconnect_KeepsLock(ps) ==
    /\ lock' = lock
    /\ open' = [s \in Server |-> IF s \in ps THEN None ELSE open[s]]

\* Connections of ps end: their locks are gone and their transactions undone.
Disconnect(ps) ==
    /\ lock' = IF lock \in ps THEN None ELSE lock
    /\ open' = [s \in Server |-> IF s \in ps THEN None ELSE open[s]]

\* log.Fatalf, a panic or the end of the process.
Exit(p) ==
    /\ Goto(p, "down")
    /\ tries' = [tries EXCEPT ![p] = 0]
    /\ applied' = [s \in Server |-> IF s = p THEN {} ELSE applied[s]]
    /\ Disconnect({p})

-----------------------------------------------------------------------------
(* ConnectToDatabase *)

\* The process is started; a coordinator listens from here on.
Launch(p) ==
    /\ pc[p] = "down"
    /\ Goto(p, "connect")
    /\ UNCHANGED <<up, tries, lock, databaseVars, applied, open, faults, reports>>

\* What each of them does once it is connected.
AfterConnect(p) ==
    IF p \in Server THEN "lock" ELSE IF p = Worker THEN "dial" ELSE "serving"

Connect(p) ==
    /\ pc[p] = "connect"
    /\ up
    /\ Goto(p, AfterConnect(p))
    /\ tries' = [tries EXCEPT ![p] = 0]
    /\ UNCHANGED <<up, lock, databaseVars, applied, open, faults, reports>>

ConnectFails(p) ==
    /\ pc[p] = "connect"
    /\ ~up
    /\ IF tries[p] + 1 < MaxTries
       THEN tries' = [tries EXCEPT ![p] = @ + 1] /\ UNCHANGED <<pc, lock, applied, open>>
       ELSE Exit(p)
    /\ UNCHANGED <<up, databaseVars, faults, reports>>

-----------------------------------------------------------------------------
(* Migrate *)

\* pg_advisory_lock, which waits.
TakeLock(s) ==
    /\ pc[s] = "lock"
    /\ lock = None
    /\ lock' = s
    /\ Goto(s, "read")
    /\ UNCHANGED <<up, tries, databaseVars, applied, open, faults, reports>>

\* CREATE TABLE IF NOT EXISTS and the SELECT.
ReadApplied(s) ==
    /\ pc[s] = "read"
    /\ applied' = [applied EXCEPT ![s] = recorded]
    /\ Goto(s, "migrate")
    /\ UNCHANGED <<up, tries, lock, databaseVars, open, faults, reports>>

\* Mutant: a server believes that the last version it read covers its own.
Missing_Newest(s) == {n \in 1 .. Release[s] : applied[s] = {} }

\* Its migrations that it did not find applied.
Missing(s) == {n \in 1 .. Release[s] : n \notin applied[s]}

\* The next file in the order of names is executed in a transaction.
ApplyMigration(s) ==
    /\ pc[s] = "migrate"
    /\ open[s] = None
    /\ \E n \in Missing(s) :
           /\ \A k \in Missing(s) : n <= k
           /\ open' = [open EXCEPT ![s] = n]
    /\ UNCHANGED <<up, pc, tries, lock, databaseVars, applied, faults, reports>>

\* Mutant: the version is recorded by a later statement of its own, which a
\* crash may forestall.
Commit_Unrecorded(s) ==
    /\ schema' = Append(schema, open[s])
    /\ \/ recorded' = recorded \cup {open[s]}
       \/ UNCHANGED recorded

\* The migration takes effect together with its row.
Commit(s) ==
    /\ schema' = Append(schema, open[s])
    /\ recorded' = recorded \cup {open[s]}

\* The INSERT, which the primary key would refuse for a version that is
\* there, and the COMMIT.  In the loop the file is not met again.
RecordMigration(s) ==
    /\ pc[s] = "migrate"
    /\ open[s] # None
    /\ open[s] \notin recorded
    /\ Commit(s)
    /\ applied' = [applied EXCEPT ![s] = @ \cup {open[s]}]
    /\ open' = [open EXCEPT ![s] = None]
    /\ UNCHANGED <<up, pc, tries, lock, password, faults, reports>>

\* All files are applied; the deferred unlock.
Migrated(s) ==
    /\ pc[s] = "migrate"
    /\ open[s] = None
    /\ Missing(s) = {}
    /\ lock' = None
    /\ Goto(s, IF s \in WithPassword THEN "ensure" ELSE "check")
    /\ UNCHANGED <<up, tries, databaseVars, applied, open, faults, reports>>

-----------------------------------------------------------------------------
(* The password, and serving *)

\* EnsurePassword: the SELECT, and the UPDATE if it found none.
ReadPassword(s) ==
    /\ pc[s] = "ensure" /\ up
    /\ Goto(s, IF password THEN "check" ELSE "set")
    /\ UNCHANGED <<up, tries, lock, databaseVars, applied, open, faults, reports>>

SetPassword(s) ==
    /\ pc[s] = "set" /\ up
    /\ password' = TRUE
    /\ Goto(s, "check")
    /\ UNCHANGED <<up, tries, lock, recorded, schema, applied, open, faults, reports>>

\* HasPassword; without one the server does not start.
CheckPassword(s) ==
    /\ pc[s] = "check" /\ up
    /\ IF password
       THEN Goto(s, "serving") /\ UNCHANGED <<tries, lock, applied, open>>
       ELSE Exit(s)
    /\ UNCHANGED <<up, databaseVars, faults, reports>>

\* A statement of a server that is starting returns an error.
StatementFails(s) ==
    /\ pc[s] \notin {"down", "connect", "serving"}
    /\ \/ ~up /\ UNCHANGED faults
       \/ up /\ Fault
    /\ Exit(s)
    /\ UNCHANGED <<up, databaseVars, reports>>

-----------------------------------------------------------------------------
(* Coordinator, worker, failures *)

\* connectToCoordinator blocks until the coordinator listens.
DialCoordinator ==
    /\ pc[Worker] = "dial"
    /\ pc[Coordinator] # "down"
    /\ Goto(Worker, "serving")
    /\ UNCHANGED <<up, tries, lock, databaseVars, applied, open, faults, reports>>

\* UpdateRunStatus or RenewLease of a worker reaches a coordinator that
\* listens and whose pool is still nil: the handler panics.
EarlyReport ==
    /\ reports < MaxReports
    /\ reports' = reports + 1
    /\ pc[Worker] = "serving"
    /\ pc[Coordinator] = "connect"
    /\ Exit(Coordinator)
    /\ UNCHANGED <<up, databaseVars, faults>>

Crash(p) ==
    /\ pc[p] # "down"
    /\ Fault
    /\ Exit(p)
    /\ UNCHANGED <<up, databaseVars, reports>>

\* The database goes away with every connection, which ends the servers that
\* are in Migrate, and comes back.
DatabaseStops ==
    LET migrating == {s \in Server : pc[s] \in {"lock", "read", "migrate"}}
    IN  /\ up
        /\ Fault
        /\ up' = FALSE
        /\ pc' = [p \in Process |-> IF p \in migrating THEN "down" ELSE pc[p]]
        /\ applied' = [s \in Server |-> IF s \in migrating THEN {} ELSE applied[s]]
        /\ Disconnect(migrating)
        /\ UNCHANGED <<tries, databaseVars, reports>>

DatabaseStarts ==
    /\ ~up
    /\ up' = TRUE
    /\ UNCHANGED <<pc, tries, lock, databaseVars, applied, open, faults, reports>>

-----------------------------------------------------------------------------
ServerStep(s) ==
    \/ TakeLock(s) \/ ReadApplied(s) \/ ApplyMigration(s) \/ RecordMigration(s)
    \/ Migrated(s) \/ ReadPassword(s) \/ SetPassword(s) \/ CheckPassword(s)

Next ==
    \/ \E p \in Process : Launch(p) \/ Connect(p) \/ ConnectFails(p) \/ Crash(p)
    \/ \E s \in Server : ServerStep(s) \/ StatementFails(s)
    \/ DialCoordinator
    \/ EarlyReport
    \/ DatabaseStops
    \/ DatabaseStarts

\* Processes go on, and those that ended are started again; the database comes
\* back.  Postgres grants a lock in the order in which it was asked for.
Fairness ==
    /\ \A p \in Process : WF_vars(Launch(p) \/ Connect(p) \/ ConnectFails(p))
    /\ \A s \in Server : WF_vars(ServerStep(s)) /\ SF_vars(TakeLock(s))
    /\ WF_vars(DialCoordinator)
    /\ WF_vars(DatabaseStarts)

Spec == Init /\ [][Next]_vars /\ Fairness

-----------------------------------------------------------------------------
(* Properties *)

\* Whatever servers start, die or lose the database in the middle of Migrate,
\* the migrations in effect are the first ones in the order of their names,
\* each applied once, and schema_migrations lists exactly these.
MigrationsOnceInOrder ==
    /\ \A i \in DOMAIN schema : schema[i] = i
    /\ recorded = DOMAIN schema

\* A server that serves found every migration of its release applied and a
\* password set, also when another server did the work or an older release
\* starts late.
ServesCurrentAndClosed ==
    \A s \in Server : pc[s] = "serving" => 1 .. Release[s] \subseteq recorded /\ password

\* Every process that is started again whenever it ends gets to serve: no lock
\* of a server that died keeps the others out of Migrate, a server without
\* TASKD_PASSWORD gets its password from one that has it, and a coordinator
\* survives the reports that end its early starts.
EveryProcessServes ==
    \A p \in Process : pc[p] = "down" ~> pc[p] = "serving"

=============================================================================
