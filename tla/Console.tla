------------------------------ MODULE Console ------------------------------
(***************************************************************************)
(* The life of one agent behind the HTTP API: requests that create, patch  *)
(* and delete it, and those that add rows which refer to it (a run, a      *)
(* schedule, a memory record).  Requests run concurrently.  Between the    *)
(* read of the row and its write a patch waits for the model provider,     *)
(* which is asked whether it knows the model.                              *)
(***************************************************************************)
EXTENDS Naturals, FiniteSets

CONSTANTS
    Request,    \* requests that may be served at the same time
    Body,       \* what a client sends: some of the fields with a value each
    Default,    \* DefaultMaxSteps
    Ceiling,    \* CeilingMaxSteps
    MaxServed,  \* bound: requests that create or patch
    Null        \* no row, no draft

\* The fields the properties tell apart; max_steps stands for the three budgets.
Field == {"enabled", "mode", "contextRuns", "maxSteps"}

\* Rows of the table, and decoded requests before they are validated.
Row == [enabled : BOOLEAN, mode : {"fresh", "last_n"}, contextRuns : Nat, maxSteps : Nat]

Child == {"run", "schedule", "memory"}

ASSUME ConsoleAssumption ==
    /\ Ceiling \in Nat /\ Default \in 1 .. Ceiling
    /\ MaxServed \in Nat
    /\ \A b \in Body : DOMAIN b \subseteq Field /\ [f \in DOMAIN b |-> b[f]] = b
    /\ Null \notin Row

-----------------------------------------------------------------------------
(* model.Agent *)

\* The body a create request is decoded onto.
EmptyAgent == [enabled |-> TRUE, mode |-> "", contextRuns |-> 0, maxSteps |-> 0]

\* Mutant: what the client omits is taken from an empty agent.
Decode_Replace(body, onto) ==
    [f \in Field |-> IF f \in DOMAIN body THEN body[f] ELSE EmptyAgent[f]]

\* decodeBody: fields of the body replace those of the agent decoded onto.
Decode(body, onto) ==
    [f \in Field |-> IF f \in DOMAIN body THEN body[f] ELSE onto[f]]

ApplyDefaults(a) ==
    [a EXCEPT !.maxSteps = IF @ = 0 THEN Default ELSE @,
              !.mode = IF @ = "" THEN "fresh" ELSE @]

Validate(a) ==
    /\ a.mode = "fresh" \/ (a.mode = "last_n" /\ a.contextRuns >= 1)
    /\ a.maxSteps \in 1 .. Ceiling

-----------------------------------------------------------------------------
VARIABLES
    life,      \* the agent is new, stored or deleted
    row,       \* its row in agents
    children,  \* the rows of other tables that refer to it
    pc,        \* where a request is
    sent,      \* the body of a create or patch
    draft,     \* what it will write
    base,      \* history: the row a patch was decoded onto
    kind,      \* the row a request is about to add
    served     \* creates and patches so far

vars == <<life, row, children, pc, sent, draft, base, kind, served>>

Init ==
    /\ life = "new"
    /\ row = Null
    /\ children = {}
    /\ pc = [r \in Request |-> "idle"]
    /\ sent = [r \in Request |-> Null]
    /\ draft = [r \in Request |-> Null]
    /\ base = [r \in Request |-> Null]
    /\ kind = [r \in Request |-> Null]
    /\ served = 0

\* The request is answered.
Answer(r) ==
    /\ pc' = [pc EXCEPT ![r] = "idle"]
    /\ sent' = [sent EXCEPT ![r] = Null]
    /\ draft' = [draft EXCEPT ![r] = Null]
    /\ base' = [base EXCEPT ![r] = Null]
    /\ kind' = [kind EXCEPT ![r] = Null]

-----------------------------------------------------------------------------
(* Create and patch *)

\* Decoding, defaults and validation; an invalid agent is answered at once.
Prepare(r, body, onto, step) ==
    LET agent == ApplyDefaults(Decode(body, onto))
    IN  /\ Validate(agent)
        /\ pc' = [pc EXCEPT ![r] = step]
        /\ sent' = [sent EXCEPT ![r] = body]
        /\ draft' = [draft EXCEPT ![r] = agent]
        /\ served < MaxServed
        /\ served' = served + 1
        /\ UNCHANGED <<life, row, children, kind>>

\* handleCreateAgent up to the question to the provider.
BeginCreate(r, body) ==
    /\ pc[r] = "idle"
    /\ life = "new"
    /\ \A q \in Request : pc[q] # "create"
    /\ Prepare(r, body, EmptyAgent, "create")
    /\ UNCHANGED base

\* handleUpdateAgent up to there: the body is decoded onto the stored agent.
BeginUpdate(r, body) ==
    /\ pc[r] = "idle"
    /\ life = "stored"
    /\ Prepare(r, body, row, "update")
    /\ base' = [base EXCEPT ![r] = row]

\* validateAgentModel: the provider or the credential says no.
ModelRefused(r) ==
    /\ pc[r] \in {"create", "update"}
    /\ Answer(r)
    /\ UNCHANGED <<life, row, children, served>>

\* AgentStore.Create.
StoreAgent(r) ==
    /\ pc[r] = "create"
    /\ life' = "stored"
    /\ row' = draft[r]
    /\ Answer(r)
    /\ UNCHANGED <<children, served>>

\* Mutant: only the columns that the client sent are written.
Written_Columns(r) == Decode(sent[r], row)

\* All the columns are written.
Written(r) == draft[r]

\* AgentStore.Update; the agent may be gone.
UpdateAgent(r) ==
    /\ pc[r] = "update"
    /\ row' = IF life = "stored" THEN Written(r) ELSE row
    /\ Answer(r)
    /\ UNCHANGED <<life, children, served>>

\* Mutant: the rows of other tables stay.
DeleteAgent_NoCascade ==
    /\ life = "stored"
    /\ life' = "deleted"
    /\ row' = Null
    /\ UNCHANGED <<children, pc, sent, draft, base, kind, served>>

\* AgentStore.Delete, which cascades.
DeleteAgent ==
    /\ life = "stored"
    /\ life' = "deleted"
    /\ row' = Null
    /\ children' = {}
    /\ UNCHANGED <<pc, sent, draft, base, kind, served>>

-----------------------------------------------------------------------------
(* Rows that refer to the agent *)

\* handleSetSchedule, handleTriggerRun and the memory tool of a run that is
\* under way: the agent was there when they began.
BeginInsert(r, k) ==
    /\ pc[r] = "idle"
    /\ life = "stored"
    /\ pc' = [pc EXCEPT ![r] = "insert"]
    /\ kind' = [kind EXCEPT ![r] = k]
    /\ UNCHANGED <<life, row, children, sent, draft, base, served>>

\* The foreign key refuses a row without its agent.
Insert(r) ==
    /\ pc[r] = "insert"
    /\ children' = IF life = "stored" THEN children \cup {kind[r]} ELSE children
    /\ Answer(r)
    /\ UNCHANGED <<life, row, served>>

Next ==
    \/ \E r \in Request, body \in Body : BeginCreate(r, body) \/ BeginUpdate(r, body)
    \/ \E r \in Request : \/ ModelRefused(r) \/ StoreAgent(r) \/ UpdateAgent(r)
                          \/ Insert(r)
    \/ \E r \in Request, k \in Child : BeginInsert(r, k)
    \/ DeleteAgent

Spec == Init /\ [][Next]_vars

-----------------------------------------------------------------------------
(* Properties *)

\* However patches overlap, the stored agent is one that Validate accepts: the
\* context mode of one request is never combined with the context runs of
\* another.
StoredIsValid ==
    life = "stored" => Validate(row)

\* No run, schedule or memory record is left of an agent that is deleted while
\* requests which found it are still under way.
NothingOutlivesAgent ==
    children # {} => life = "stored"

\* A patch that nobody overtook leaves the fields the client omitted as they
\* were.
PatchIsPatch ==
    [][\A r \in Request :
         pc[r] = "update" /\ pc'[r] = "idle" /\ row' # row /\ row # Null /\ base[r] = row =>
             \A f \in Field \ DOMAIN sent[r] : row'[f] = row[f]]_vars

=============================================================================
