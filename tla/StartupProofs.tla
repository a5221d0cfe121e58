--------------------------- MODULE StartupProofs ---------------------------
(***************************************************************************)
(* Proofs about Startup, for any number of servers, releases and faults:   *)
(* migrations are applied once and in order, and a server serves only on a *)
(* schema that has all of its migrations.                                  *)
(*                                                                         *)
(* The inductive invariant says what the advisory lock is for: who has     *)
(* passed it holds it, so what a server read from schema_migrations stays  *)
(* true until it unlocks, and the migration in its open transaction is the *)
(* one after the last.                                                     *)
(***************************************************************************)
EXTENDS Startup, TLAPS

Step == {"down", "connect", "lock", "read", "migrate", "ensure", "set", "check",
         "dial", "serving"}

TypeInv ==
    /\ pc \in [Process -> Step]
    /\ lock \in Server \cup {None}
    /\ schema \in Seq(Nat)
    /\ applied \in [Server -> SUBSET Nat]
    /\ open \in [Server -> Nat \cup {None}]

LockInv == \A s \in Server : pc[s] \in {"read", "migrate"} => lock = s

ReadInv == \A s \in Server : pc[s] = "migrate" => applied[s] = recorded

OpenInv ==
    \A s \in Server : open[s] # None => pc[s] = "migrate" /\ open[s] = Len(schema) + 1

ServeInv ==
    \A s \in Server :
        /\ pc[s] \in {"ensure", "set", "check", "serving"} => 1 .. Release[s] \subseteq recorded
        /\ pc[s] = "serving" => password

Inv ==
    /\ TypeInv
    /\ LockInv
    /\ ReadInv
    /\ OpenInv
    /\ ServeInv
    /\ MigrationsOnceInOrder

\* A process that exits gives up its lock and its transaction, and disturbs
\* nobody else's.
LEMMA ExitKeepsInv ==
    ASSUME StartupAssumption, Inv, NEW p \in Process, Exit(p), UNCHANGED databaseVars
    PROVE  Inv'
<1>1. /\ UNCHANGED <<recorded, schema, password>>
      /\ pc' = [pc EXCEPT ![p] = "down"]
      /\ applied' = [s \in Server |-> IF s = p THEN {} ELSE applied[s]]
      /\ lock' = IF lock = p THEN None ELSE lock
      /\ open' = [s \in Server |-> IF s = p THEN None ELSE open[s]]
  BY DEF Exit, Disconnect, Goto, databaseVars
<1>2. TypeInv'
  BY <1>1 DEF Inv, TypeInv, Step, Process
<1>3. \A s \in Server : s # p => /\ pc'[s] = pc[s]
                                 /\ applied'[s] = applied[s]
                                 /\ open'[s] = open[s]
  BY <1>1 DEF Inv, TypeInv, Process
<1>4. p \in Server => pc'[p] = "down" /\ open'[p] = None
  BY <1>1 DEF Inv, TypeInv
<1>5. LockInv' /\ ReadInv' /\ OpenInv' /\ ServeInv'
  BY <1>1, <1>3, <1>4 DEF Inv, LockInv, ReadInv, OpenInv, ServeInv
<1> QED
  BY <1>1, <1>2, <1>5 DEF Inv, MigrationsOnceInOrder

\* A process that only moves on, outside Migrate, keeps the invariant if it is
\* entitled to where it goes.
LEMMA MoveKeepsInv ==
    ASSUME StartupAssumption, Inv, NEW p \in Process,
           NEW step \in Step \ {"read", "migrate"},
           pc[p] # "migrate",
           Goto(p, step),
           UNCHANGED <<lock, recorded, schema, applied, open>>,
           password => password',
           p \in Server /\ step \in {"ensure", "set", "check", "serving"}
               => 1 .. Release[p] \subseteq recorded,
           p \in Server /\ step = "serving" => password'
    PROVE  Inv'
<1>1. TypeInv'
  BY DEF Inv, TypeInv, Goto, Process
<1>2. \A s \in Server : s # p => pc'[s] = pc[s]
  BY DEF Inv, TypeInv, Goto, Process
<1>3. pc'[p] = step
  BY DEF Inv, TypeInv, Goto
<1>4. LockInv' /\ ReadInv' /\ OpenInv'
  BY <1>2, <1>3 DEF Inv, LockInv, ReadInv, OpenInv
<1>5. ServeInv'
  BY <1>2, <1>3 DEF Inv, ServeInv
<1> QED
  BY <1>1, <1>4, <1>5 DEF Inv, MigrationsOnceInOrder

\* The first of the missing migrations is the one after those in effect.
LEMMA NextMigration ==
    ASSUME StartupAssumption, Inv, NEW s \in Server, pc[s] = "migrate",
           NEW n \in Missing(s), \A k \in Missing(s) : n <= k
    PROVE  n = Len(schema) + 1
<1>1. applied[s] = 1 .. Len(schema) /\ Len(schema) \in Nat
  BY DEF Inv, TypeInv, ReadInv, MigrationsOnceInOrder
<1>2. Release[s] \in Nat
  BY DEF StartupAssumption
<1>3. n \in 1 .. Release[s] /\ n > Len(schema)
  BY <1>1, <1>2 DEF Missing
<1>4. Len(schema) + 1 \in Missing(s)
  BY <1>1, <1>2, <1>3 DEF Missing
<1> QED
  BY <1>1, <1>2, <1>3, <1>4

-----------------------------------------------------------------------------
\* Before anything has started, nothing is applied and nobody holds the lock.
LEMMA InitInv == Init => Inv
  BY StartupAssumption DEF Init, Inv, TypeInv, LockInv, ReadInv, OpenInv, ServeInv, Process, Step,
         MigrationsOnceInOrder

\* The steps inside Migrate.
LEMMA MigrateKeepsInv ==
    ASSUME StartupAssumption, Inv, NEW s \in Server,
           \/ TakeLock(s) \/ ReadApplied(s) \/ ApplyMigration(s)
           \/ RecordMigration(s) \/ Migrated(s)
    PROVE  Inv'
<1> s \in Process
  BY DEF Process
<1>1. CASE TakeLock(s)
  <2>1. TypeInv'
    BY <1>1 DEF TakeLock, Goto, Inv, TypeInv, Step, databaseVars
  <2>2. \A t \in Server : t # s => pc'[t] = pc[t] /\ pc[t] \notin {"read", "migrate"}
    BY <1>1 DEF TakeLock, Goto, Inv, TypeInv, LockInv, Process, StartupAssumption
  <2>3. pc'[s] = "read" /\ pc[s] = "lock" /\ lock' = s
    BY <1>1 DEF TakeLock, Goto, Inv, TypeInv
  <2>4. UNCHANGED <<recorded, schema, password, applied, open>>
    BY <1>1 DEF TakeLock, databaseVars
  <2>5. LockInv' /\ ReadInv' /\ OpenInv' /\ ServeInv'
    BY <2>2, <2>3, <2>4 DEF Inv, LockInv, ReadInv, OpenInv, ServeInv
  <2> QED
    BY <2>1, <2>4, <2>5 DEF Inv, MigrationsOnceInOrder
<1>2. CASE ReadApplied(s)
  <2>1. UNCHANGED <<recorded, schema, password, lock, open>>
    BY <1>2 DEF ReadApplied, databaseVars
  <2>2. recorded \subseteq Nat
    BY DEF Inv, TypeInv, MigrationsOnceInOrder
  <2>3. TypeInv'
    BY <1>2, <2>1, <2>2 DEF ReadApplied, Goto, Inv, TypeInv, Step
  <2>4. \A t \in Server : t # s => pc'[t] = pc[t] /\ applied'[t] = applied[t]
    BY <1>2 DEF ReadApplied, Goto, Inv, TypeInv, Process
  <2>5. pc[s] = "read" /\ pc'[s] = "migrate" /\ applied'[s] = recorded
    BY <1>2 DEF ReadApplied, Goto, Inv, TypeInv
  <2>6. LockInv' /\ ReadInv' /\ OpenInv' /\ ServeInv'
    BY <2>1, <2>4, <2>5 DEF Inv, LockInv, ReadInv, OpenInv, ServeInv
  <2> QED
    BY <2>1, <2>3, <2>6 DEF Inv, MigrationsOnceInOrder
<1>3. CASE ApplyMigration(s)
  <2>1. /\ pc[s] = "migrate"
        /\ UNCHANGED <<pc, lock, recorded, schema, password, applied>>
    BY <1>3 DEF ApplyMigration, databaseVars
  <2>2. PICK n \in Missing(s) : /\ \A k \in Missing(s) : n <= k
                                /\ open' = [open EXCEPT ![s] = n]
    BY ZenonT(60), <1>3 DEF ApplyMigration
  <2>3. n = Len(schema) + 1 /\ n \in Nat
    BY <2>1, <2>2, NextMigration DEF Inv, TypeInv
  <2>4. TypeInv' /\ OpenInv'
    BY <2>1, <2>2, <2>3 DEF Inv, TypeInv, OpenInv
  <2>5. LockInv' /\ ReadInv' /\ ServeInv'
    BY <2>1 DEF Inv, LockInv, ReadInv, ServeInv
  <2> QED
    BY <2>1, <2>4, <2>5 DEF Inv, MigrationsOnceInOrder
<1>4. CASE RecordMigration(s)
  <2>1. /\ pc[s] = "migrate"
        /\ open[s] = Len(schema) + 1
        /\ schema' = Append(schema, Len(schema) + 1)
        /\ recorded' = recorded \cup {Len(schema) + 1}
        /\ applied' = [applied EXCEPT ![s] = @ \cup {Len(schema) + 1}]
        /\ open' = [open EXCEPT ![s] = None]
        /\ UNCHANGED <<pc, lock, password>>
    BY ZenonT(60), <1>4 DEF RecordMigration, Commit, Inv, OpenInv
  <2>2. Len(schema) \in Nat /\ Len(schema') = Len(schema) + 1
    BY <2>1 DEF Inv, TypeInv
  <2>3. TypeInv'
    BY <2>1, <2>2 DEF Inv, TypeInv
  <2>4. \A t \in Server : t # s => pc[t] # "migrate"
    BY <2>1 DEF Inv, LockInv
  <2>5. \A t \in Server : t # s => open'[t] = None
    BY SMTT(60), <2>1, <2>4 DEF Inv, TypeInv, OpenInv
  <2>6. open'[s] = None /\ applied'[s] = recorded'
    BY <2>1 DEF Inv, TypeInv, ReadInv
  <2>7. LockInv' /\ ReadInv' /\ OpenInv' /\ ServeInv'
    BY <2>1, <2>4, <2>5, <2>6 DEF Inv, LockInv, ReadInv, OpenInv, ServeInv
  <2>8. MigrationsOnceInOrder'
    BY <2>1, <2>2 DEF Inv, TypeInv, MigrationsOnceInOrder
  <2> QED
    BY <2>3, <2>7, <2>8 DEF Inv
<1>5. CASE Migrated(s)
  <2>1. /\ UNCHANGED <<recorded, schema, password, applied, open>>
        /\ pc[s] = "migrate" /\ open[s] = None /\ lock' = None /\ Missing(s) = {}
    BY <1>5 DEF Migrated, databaseVars
  <2>2. 1 .. Release[s] \subseteq recorded
    BY <2>1 DEF Inv, ReadInv, Missing
  <2>3. TypeInv'
    BY <1>5, <2>1 DEF Migrated, Goto, Inv, TypeInv, Step
  <2>4. pc'[s] \in {"ensure", "check"}
    BY <1>5 DEF Migrated, Goto, Inv, TypeInv
  <2>5. \A t \in Server : t # s => pc'[t] = pc[t] /\ pc[t] \notin {"read", "migrate"}
    BY <1>5, <2>1 DEF Migrated, Goto, Inv, TypeInv, LockInv, Process
  <2>6. LockInv' /\ ReadInv' /\ OpenInv' /\ ServeInv'
    BY <2>1, <2>2, <2>4, <2>5 DEF Inv, LockInv, ReadInv, OpenInv, ServeInv
  <2> QED
    BY <2>1, <2>3, <2>6 DEF Inv, MigrationsOnceInOrder
<1> QED
  BY <1>1, <1>2, <1>3, <1>4, <1>5

\* The steps outside Migrate, and the failures.
LEMMA OthersKeepInv ==
    ASSUME StartupAssumption, Inv,
           \/ \E p \in Process : Launch(p) \/ Connect(p) \/ ConnectFails(p) \/ Crash(p)
           \/ \E s \in Server : \/ ReadPassword(s) \/ SetPassword(s)
                                \/ CheckPassword(s) \/ StatementFails(s)
           \/ DialCoordinator \/ EarlyReport \/ DatabaseStops \/ DatabaseStarts
    PROVE  Inv'
<1>0. Coordinator \in Process /\ Worker \in Process /\ Server \subseteq Process
  BY DEF Process
<1>1. ASSUME NEW p \in Process, Launch(p) PROVE Inv'
  BY <1>1, MoveKeepsInv DEF Launch, Step, databaseVars
<1>2. ASSUME NEW p \in Process, Connect(p) PROVE Inv'
  <2>1. AfterConnect(p) \in {"lock", "dial", "serving"} /\ (p \in Server => AfterConnect(p) = "lock")
    BY DEF AfterConnect
  <2> QED
    BY <1>2, <2>1, MoveKeepsInv DEF Connect, Step, databaseVars
<1>3. ASSUME NEW p \in Process, ConnectFails(p) PROVE Inv'
  <2>1. CASE tries[p] + 1 < MaxTries
    BY <1>3, <2>1 DEF ConnectFails, databaseVars, Inv, TypeInv, LockInv, ReadInv, OpenInv,
                      ServeInv, MigrationsOnceInOrder
  <2>2. CASE ~(tries[p] + 1 < MaxTries)
    BY <1>3, <2>2, ExitKeepsInv DEF ConnectFails, databaseVars
  <2> QED
    BY <2>1, <2>2
<1>4. ASSUME NEW p \in Process, Crash(p) PROVE Inv'
  BY <1>4, ExitKeepsInv DEF Crash, databaseVars
<1>5. ASSUME NEW s \in Server, ReadPassword(s) PROVE Inv'
  <2>1. 1 .. Release[s] \subseteq recorded
    BY <1>5 DEF ReadPassword, Inv, ServeInv
  <2> QED
    BY <1>0, <1>5, <2>1, MoveKeepsInv DEF ReadPassword, Step, databaseVars
<1>6. ASSUME NEW s \in Server, SetPassword(s) PROVE Inv'
  <2>1. 1 .. Release[s] \subseteq recorded
    BY <1>6 DEF SetPassword, Inv, ServeInv
  <2> QED
    BY <1>0, <1>6, <2>1, MoveKeepsInv DEF SetPassword, Step
<1>7. ASSUME NEW s \in Server, CheckPassword(s) PROVE Inv'
  <2>1. 1 .. Release[s] \subseteq recorded
    BY <1>7 DEF CheckPassword, Inv, ServeInv
  <2>2. CASE password
    BY <1>0, <1>7, <2>1, <2>2, MoveKeepsInv DEF CheckPassword, Step, databaseVars
  <2>3. CASE ~password
    BY <1>0, <1>7, <2>3, ExitKeepsInv DEF CheckPassword, databaseVars
  <2> QED
    BY <2>2, <2>3
<1>8. ASSUME NEW s \in Server, StatementFails(s) PROVE Inv'
  BY <1>0, <1>8, ExitKeepsInv DEF StatementFails, databaseVars
<1>9. CASE DialCoordinator
  BY <1>0, <1>9, MoveKeepsInv DEF DialCoordinator, Step, databaseVars, StartupAssumption
<1>10. CASE EarlyReport
  BY <1>0, <1>10, ExitKeepsInv DEF EarlyReport, databaseVars
<1>11. CASE DatabaseStops
  <2> DEFINE migrating == {s \in Server : pc[s] \in {"lock", "read", "migrate"}}
  <2>1. /\ UNCHANGED <<recorded, schema, password>>
        /\ pc' = [p \in Process |-> IF p \in migrating THEN "down" ELSE pc[p]]
        /\ applied' = [s \in Server |-> IF s \in migrating THEN {} ELSE applied[s]]
        /\ lock' = IF lock \in migrating THEN None ELSE lock
        /\ open' = [s \in Server |-> IF s \in migrating THEN None ELSE open[s]]
    BY <1>11 DEF DatabaseStops, Disconnect, databaseVars
  <2>2. TypeInv'
    BY <2>1 DEF Inv, TypeInv, Step
  <2>3. \A s \in Server : /\ pc'[s] \notin {"read", "migrate"}
                          /\ open'[s] = None
                          /\ pc'[s] = "down" \/ pc'[s] = pc[s]
    BY <1>0, <2>1 DEF Inv, TypeInv, OpenInv
  <2>4. LockInv' /\ ReadInv' /\ OpenInv' /\ ServeInv'
    BY ZenonT(60), <2>1, <2>3 DEF Inv, LockInv, ReadInv, OpenInv, ServeInv
  <2> QED
    BY <2>1, <2>2, <2>4 DEF Inv, MigrationsOnceInOrder
<1>12. CASE DatabaseStarts
  BY <1>12 DEF DatabaseStarts, databaseVars, Inv, TypeInv, LockInv, ReadInv, OpenInv,
               ServeInv, MigrationsOnceInOrder
<1> QED
  BY <1>1, <1>2, <1>3, <1>4, <1>5, <1>6, <1>7, <1>8, <1>9, <1>10, <1>11, <1>12

\* Every step of the processes and of the database keeps the invariant.
LEMMA NextInv == Inv /\ [Next]_vars => Inv'
<1> SUFFICES ASSUME Inv, [Next]_vars PROVE Inv'
  OBVIOUS
<1>1. CASE UNCHANGED vars
  BY <1>1 DEF vars, databaseVars, Inv, TypeInv, LockInv, ReadInv, OpenInv, ServeInv,
              MigrationsOnceInOrder
<1>2. CASE Next
  BY <1>2, StartupAssumption, MigrateKeepsInv, OthersKeepInv DEF Next, ServerStep
<1> QED
  BY <1>1, <1>2

\* Migrate applies each migration once and in the order of the names, however
\* many servers of whatever releases start, die and lose the database at the
\* same time.
THEOREM StartupMigrationsOnceInOrder == Spec => []MigrationsOnceInOrder
<1>1. Inv => MigrationsOnceInOrder
  BY DEF Inv
<1> QED
  BY <1>1, InitInv, NextInv, PTL DEF Spec

\* No server gets past Start with a migration of its release missing or
\* without a password.
THEOREM StartupServesCurrentAndClosed == Spec => []ServesCurrentAndClosed
<1>1. Inv => ServesCurrentAndClosed
  BY DEF Inv, ServeInv, ServesCurrentAndClosed
<1> QED
  BY <1>1, InitInv, NextInv, PTL DEF Spec
=============================================================================
