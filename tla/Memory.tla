------------------------------- MODULE Memory -------------------------------
(***************************************************************************)
(* One namespace of agent memory: runs that write to it at the same time,  *)
(* and a user who deletes records.  A write is two statements, an INSERT   *)
(* and a DELETE that prunes the namespace, each with a snapshot of its     *)
(* own.  A record is identified with its created_at, the time its INSERT   *)
(* began.                                                                  *)
(***************************************************************************)
EXTENDS Naturals, FiniteSets

CONSTANTS
    Writer,     \* memory_write calls that may run at the same time
    Cap,        \* MaxRecordsPerNamespace
    MaxWrites,  \* bound: writes
    MaxFaults   \* bound: prunes that fail

ASSUME MemoryAssumption ==
    /\ IsFiniteSet(Writer)
    /\ Cap \in Nat \ {0}
    /\ MaxWrites \in Nat
    /\ MaxFaults \in Nat

VARIABLES
    clock,    \* created_at of the next INSERT
    records,  \* the records of the namespace
    pc,       \* where a write is
    at,       \* created_at of its record
    doomed,   \* the records its DELETE has found
    faults,   \* faults so far
    written,  \* history: every record there has been
    deleted   \* history: the records the user deleted

vars == <<clock, records, pc, at, doomed, faults, written, deleted>>

Init ==
    /\ clock = 1
    /\ records = {}
    /\ pc = [w \in Writer |-> "idle"]
    /\ at = [w \in Writer |-> 0]
    /\ doomed = [w \in Writer |-> {}]
    /\ faults = 0
    /\ written = {}
    /\ deleted = {}

\* Mutant: ORDER BY created_at without DESC.
Newest_Oldest(n) == {x \in records : Cardinality({y \in records : y < x}) < n}

\* ORDER BY created_at DESC, id DESC LIMIT n.
Newest(n) == {x \in records : Cardinality({y \in records : y > x}) < n}

-----------------------------------------------------------------------------
(* MemoryStore.Write *)

\* The INSERT begins: its created_at is fixed.
BeginWrite(w) ==
    /\ pc[w] = "idle"
    /\ clock <= MaxWrites
    /\ at' = [at EXCEPT ![w] = clock]
    /\ clock' = clock + 1
    /\ pc' = [pc EXCEPT ![w] = "insert"]
    /\ UNCHANGED <<records, doomed, faults, written, deleted>>

\* It commits: the record can be seen.
Insert(w) ==
    /\ pc[w] = "insert"
    /\ records' = records \cup {at[w]}
    /\ written' = written \cup {at[w]}
    /\ pc' = [pc EXCEPT ![w] = "prune"]
    /\ UNCHANGED <<clock, at, doomed, faults, deleted>>

\* Mutant: the cap is one off.
ToPrune_OffByOne(w) == records \ Newest(Cap + 1)

ToPrune(w) == records \ Newest(Cap)

\* The snapshot of the DELETE.
FindOld(w) ==
    /\ pc[w] = "prune"
    /\ doomed' = [doomed EXCEPT ![w] = ToPrune(w)]
    /\ pc' = [pc EXCEPT ![w] = "delete"]
    /\ UNCHANGED <<clock, records, at, faults, written, deleted>>

Return(w) ==
    /\ pc' = [pc EXCEPT ![w] = "idle"]
    /\ at' = [at EXCEPT ![w] = 0]
    /\ doomed' = [doomed EXCEPT ![w] = {}]

\* The DELETE commits; others may have deleted some of it already.
Prune(w) ==
    /\ pc[w] = "delete"
    /\ records' = records \ doomed[w]
    /\ Return(w)
    /\ UNCHANGED <<clock, faults, written, deleted>>

\* The DELETE fails: the write is answered with an error, the record stays.
PruneFails(w) ==
    /\ pc[w] \in {"prune", "delete"}
    /\ faults < MaxFaults
    /\ faults' = faults + 1
    /\ Return(w)
    /\ UNCHANGED <<clock, records, written, deleted>>

\* MemoryStore.Delete of one record.
DeleteRecord(x) ==
    /\ x \in records
    /\ records' = records \ {x}
    /\ deleted' = deleted \cup {x}
    /\ UNCHANGED <<clock, pc, at, doomed, faults, written>>

Next ==
    \/ \E w \in Writer : \/ BeginWrite(w) \/ Insert(w) \/ FindOld(w)
                         \/ Prune(w) \/ PruneFails(w)
    \/ \E x \in records : DeleteRecord(x)

Spec == Init /\ [][Next]_vars

-----------------------------------------------------------------------------
(* Properties *)

\* The namespace holds at most one record above its cap for each write that has
\* not pruned yet, and for each that failed to: without faults it is back at
\* its cap when the last of the overlapping writes is done.
CapHolds ==
    Cardinality(records) <=
        Cap + faults + Cardinality({w \in Writer : pc[w] \in {"prune", "delete"}})

\* "It forgets the oldest thing": what was pruned has Cap younger records that
\* the prune did not take, whatever the writes that overlapped saw.
ForgetsTheOldest ==
    \A x \in written \ (records \cup deleted) :
        Cardinality({y \in records \cup deleted : y > x}) >= Cap

=============================================================================
