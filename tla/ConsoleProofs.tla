---------------------------- MODULE ConsoleProofs ----------------------------
(***************************************************************************)
(* Proofs about Console, for any number of requests and any bodies: the    *)
(* stored agent is one that Validate accepts, nothing outlives it, and a   *)
(* patch changes the fields it names.                                      *)
(*                                                                         *)
(* A request writes, long after it validated, what it drafted and nothing  *)
(* else.  So the invariant is about drafts: whoever is about to write one  *)
(* has validated it.  A rule that related the draft to the row as it is    *)
(* now would not be inductive, as the row may change in between.           *)
(***************************************************************************)
EXTENDS Console, TLAPS

DraftInv ==
    /\ pc \in [Request -> {"idle", "create", "update", "insert"}]
    /\ draft = [r \in Request |-> draft[r]]
    /\ \A r \in Request : pc[r] \in {"create", "update"} => Validate(draft[r])

Inv == DraftInv /\ StoredIsValid /\ NothingOutlivesAgent

\* A request that is answered drafts nothing any more.
LEMMA AnswerKeepsDrafts ==
    ASSUME DraftInv, NEW r \in Request, Answer(r)
    PROVE  DraftInv'
<1>1. /\ pc' = [pc EXCEPT ![r] = "idle"]
      /\ draft' = [draft EXCEPT ![r] = Null]
  BY DEF Answer
<1>2. /\ pc' \in [Request -> {"idle", "create", "update", "insert"}]
      /\ pc'[r] = "idle"
      /\ \A q \in Request : q # r => pc'[q] = pc[q]
  BY <1>1 DEF DraftInv
<1>3. /\ draft' = [q \in Request |-> draft'[q]]
      /\ \A q \in Request : q # r => draft'[q] = draft[q]
  BY <1>1 DEF DraftInv
<1> QED
  BY <1>2, <1>3 DEF DraftInv, Validate

\* A request that goes on has validated its draft.
LEMMA PrepareKeepsInv ==
    ASSUME Inv, NEW r \in Request, NEW body, NEW onto, NEW step \in {"create", "update"},
           Prepare(r, body, onto, step)
    PROVE  Inv'
<1> DEFINE agent == ApplyDefaults(Decode(body, onto))
<1>1. /\ Validate(agent)
      /\ pc' = [pc EXCEPT ![r] = step]
      /\ draft' = [draft EXCEPT ![r] = agent]
      /\ UNCHANGED <<life, row, children>>
  BY DEF Prepare
<1> HIDE DEF agent
<1>2. /\ pc' \in [Request -> {"idle", "create", "update", "insert"}]
      /\ \A q \in Request : q # r => pc'[q] = pc[q]
  BY <1>1 DEF Inv, DraftInv
<1>3. /\ draft' = [q \in Request |-> draft'[q]]
      /\ draft'[r] = agent
      /\ \A q \in Request : q # r => draft'[q] = draft[q]
  BY <1>1 DEF Inv, DraftInv
<1>4. \A q \in Request : pc'[q] \in {"create", "update"} => Validate(draft'[q])
  BY <1>1, <1>2, <1>3 DEF Inv, DraftInv
<1>5. DraftInv'
  BY <1>2, <1>3, <1>4 DEF DraftInv, Validate
<1> QED
  BY <1>1, <1>5 DEF Inv, StoredIsValid, NothingOutlivesAgent, Validate

\* Every step keeps the inductive invariant.
LEMMA ConsoleInvariant ==
    Spec => []Inv
<1>1. Init => Inv
  <2> SUFFICES ASSUME Init PROVE Inv
    OBVIOUS
  <2>1. draft = [r \in Request |-> draft[r]]
    BY DEF Init
  <2> QED
    BY <2>1 DEF Init, Inv, DraftInv, StoredIsValid, NothingOutlivesAgent
<1>2. Inv /\ [Next]_vars => Inv'
  <2> SUFFICES ASSUME Inv, [Next]_vars
               PROVE  Inv'
    OBVIOUS
  <2> USE DEF Inv
  <2>1. ASSUME NEW r \in Request, NEW body \in Body, BeginCreate(r, body) \/ BeginUpdate(r, body)
        PROVE  Inv'
    BY <2>1, PrepareKeepsInv DEF BeginCreate, BeginUpdate
  <2>2. ASSUME NEW r \in Request, ModelRefused(r)
        PROVE  Inv'
    BY <2>2, AnswerKeepsDrafts DEF ModelRefused, StoredIsValid, NothingOutlivesAgent, Validate
  <2>3. ASSUME NEW r \in Request, StoreAgent(r)
        PROVE  Inv'
    <3>1. Validate(draft[r]) /\ life' = "stored" /\ row' = draft[r]
      BY <2>3 DEF StoreAgent, DraftInv
    <3>2. StoredIsValid'
      BY <3>1 DEF StoredIsValid, Validate
    <3>3. NothingOutlivesAgent'
      BY <3>1 DEF NothingOutlivesAgent
    <3> QED
      BY <2>3, <3>2, <3>3, AnswerKeepsDrafts DEF StoreAgent
  <2>4. ASSUME NEW r \in Request, UpdateAgent(r)
        PROVE  Inv'
    <3>1. Validate(draft[r]) /\ UNCHANGED <<life, children>>
      BY <2>4 DEF UpdateAgent, DraftInv
    <3>2. row' = IF life = "stored" THEN draft[r] ELSE row
      BY <2>4 DEF UpdateAgent, Written
    <3>3. StoredIsValid'
      BY <3>1, <3>2 DEF StoredIsValid, Validate
    <3>4. NothingOutlivesAgent'
      BY <3>1 DEF NothingOutlivesAgent
    <3> QED
      BY <2>4, <3>3, <3>4, AnswerKeepsDrafts DEF UpdateAgent
  <2>5. ASSUME NEW r \in Request, Insert(r)
        PROVE  Inv'
    <3>1. StoredIsValid' /\ NothingOutlivesAgent'
      BY <2>5 DEF Insert, StoredIsValid, NothingOutlivesAgent, Validate
    <3> QED
      BY <2>5, <3>1, AnswerKeepsDrafts DEF Insert
  <2>6. ASSUME NEW r \in Request, NEW k \in Child, BeginInsert(r, k)
        PROVE  Inv'
    BY <2>6 DEF BeginInsert, DraftInv, StoredIsValid, NothingOutlivesAgent, Validate
  <2>7. CASE DeleteAgent
    BY <2>7 DEF DeleteAgent, DraftInv, StoredIsValid, NothingOutlivesAgent, Validate
  <2>8. CASE UNCHANGED vars
    BY <2>8 DEF vars, DraftInv, StoredIsValid, NothingOutlivesAgent, Validate
  <2> QED
    BY <2>1, <2>2, <2>3, <2>4, <2>5, <2>6, <2>7, <2>8 DEF Next
<1> QED
  BY <1>1, <1>2, PTL DEF Spec

\* However many creates and patches overlap and whatever their bodies hold, the
\* agents row is one that Agent.Validate accepts.
THEOREM ConsoleStoredIsValid ==
    Spec => []StoredIsValid
BY ConsoleInvariant, PTL DEF Inv

\* No row refers to an agent that DELETE has removed, whatever requests were
\* under way: the cascade and the foreign keys see to it.
THEOREM ConsoleNothingOutlivesAgent ==
    Spec => []NothingOutlivesAgent
BY ConsoleInvariant, PTL DEF Inv

-----------------------------------------------------------------------------
(* Patches *)

\* Defaults change nothing of an agent that is valid: what the body omits stays.
LEMMA OmittedStays ==
    ASSUME NEW body, NEW onto, Validate(onto), NEW f \in Field \ DOMAIN body,
           ConsoleAssumption
    PROVE  ApplyDefaults(Decode(body, onto))[f] = onto[f]
<1> DEFINE d == Decode(body, onto)
<1>1. d = [g \in Field |-> IF g \in DOMAIN body THEN body[g] ELSE onto[g]]
  BY DEF Decode
<1>2. d[f] = onto[f] /\ DOMAIN d = Field
  BY <1>1
<1>3. onto["maxSteps"] # 0 /\ onto["mode"] # ""
  <2>1. onto["maxSteps"] \in 1 .. Ceiling /\ Ceiling \in Nat
    BY DEF Validate, ConsoleAssumption
  <2>2. onto["mode"] = "fresh" \/ onto["mode"] = "last_n"
    BY DEF Validate
  <2>3. onto["maxSteps"] # 0
    BY <2>1
  <2>4. onto["mode"] # ""
    BY <2>2, Zenon
  <2> QED
    BY <2>3, <2>4
<1> HIDE DEF d
<1>4. ApplyDefaults(d)[f] = d[f]
  <2> DEFINE e == [d EXCEPT !["maxSteps"] = IF @ = 0 THEN Default ELSE @]
  <2>1. f = "maxSteps" => d["maxSteps"] # 0
    BY <1>2, <1>3
  <2>2. f = "mode" => d["mode"] # ""
    BY <1>2, <1>3
  <2>3. e[f] = d[f] /\ DOMAIN e = Field
    BY <1>2, <2>1
  <2>4. ApplyDefaults(d) = [e EXCEPT !["mode"] = IF @ = "" THEN "fresh" ELSE @]
    BY DEF ApplyDefaults
  <2> HIDE DEF e
  <2> QED
    BY <2>2, <2>3, <2>4
<1> QED
  BY <1>2, <1>4 DEF d

\* A patch under way keeps, in its draft, what its body omits of the row it was
\* decoded onto.
PatchInv ==
    /\ sent = [r \in Request |-> sent[r]]
    /\ base = [r \in Request |-> base[r]]
    /\ \A r \in Request : pc[r] = "update" =>
         \A f \in Field \ DOMAIN sent[r] : draft[r][f] = base[r][f]

\* Every step keeps it.
LEMMA PatchStep ==
    ASSUME ConsoleAssumption, Inv, PatchInv, [Next]_vars
    PROVE  PatchInv'
<1>1. ASSUME NEW r \in Request, Answer(r) PROVE PatchInv'
  <2>1. /\ pc' = [pc EXCEPT ![r] = "idle"] /\ sent' = [sent EXCEPT ![r] = Null]
        /\ draft' = [draft EXCEPT ![r] = Null] /\ base' = [base EXCEPT ![r] = Null]
    BY <1>1 DEF Answer
  <2>2. /\ pc'[r] = "idle"
        /\ \A q \in Request : q # r => /\ pc'[q] = pc[q] /\ sent'[q] = sent[q]
                                       /\ draft'[q] = draft[q] /\ base'[q] = base[q]
    BY <2>1 DEF Inv, DraftInv, PatchInv
  <2>3. sent' = [q \in Request |-> sent'[q]] /\ base' = [q \in Request |-> base'[q]]
    BY <2>1 DEF PatchInv
  <2> QED
    BY <2>2, <2>3 DEF PatchInv
<1>2. ASSUME NEW r \in Request, NEW body \in Body, BeginCreate(r, body) PROVE PatchInv'
  <2>1. /\ pc' = [pc EXCEPT ![r] = "create"] /\ sent' = [sent EXCEPT ![r] = body]
        /\ draft' = [draft EXCEPT ![r] = ApplyDefaults(Decode(body, EmptyAgent))]
        /\ base' = base
    BY <1>2 DEF BeginCreate, Prepare
  <2>2. /\ pc'[r] = "create"
        /\ \A q \in Request : q # r => /\ pc'[q] = pc[q] /\ sent'[q] = sent[q]
                                       /\ draft'[q] = draft[q] /\ base'[q] = base[q]
    BY <2>1 DEF Inv, DraftInv, PatchInv
  <2>3. sent' = [q \in Request |-> sent'[q]] /\ base' = [q \in Request |-> base'[q]]
    BY <2>1 DEF PatchInv
  <2> QED
    BY <2>2, <2>3 DEF PatchInv
<1>3. ASSUME NEW r \in Request, NEW body \in Body, BeginUpdate(r, body) PROVE PatchInv'
  <2> DEFINE agent == ApplyDefaults(Decode(body, row))
  <2>1. \A f \in Field \ DOMAIN body : agent[f] = row[f]
    BY <1>3, OmittedStays DEF BeginUpdate, Inv, StoredIsValid
  <2>2. /\ pc' = [pc EXCEPT ![r] = "update"] /\ sent' = [sent EXCEPT ![r] = body]
        /\ draft' = [draft EXCEPT ![r] = agent] /\ base' = [base EXCEPT ![r] = row]
    BY <1>3 DEF BeginUpdate, Prepare
  <2> HIDE DEF agent
  <2>3. /\ sent'[r] = body /\ draft'[r] = agent /\ base'[r] = row
        /\ \A q \in Request : q # r => /\ pc'[q] = pc[q] /\ sent'[q] = sent[q]
                                       /\ draft'[q] = draft[q] /\ base'[q] = base[q]
    BY <2>2 DEF Inv, DraftInv, PatchInv
  <2>4. sent' = [q \in Request |-> sent'[q]] /\ base' = [q \in Request |-> base'[q]]
    BY <2>2 DEF PatchInv
  <2> QED
    BY <2>1, <2>3, <2>4 DEF PatchInv
<1>4. ASSUME NEW r \in Request, NEW k \in Child, BeginInsert(r, k) PROVE PatchInv'
  BY <1>4 DEF BeginInsert, PatchInv, Inv, DraftInv
<1>5. CASE DeleteAgent \/ UNCHANGED vars
  BY <1>5 DEF DeleteAgent, vars, PatchInv
<1> QED
  BY <1>1, <1>2, <1>3, <1>4, <1>5
     DEF Next, ModelRefused, StoreAgent, UpdateAgent, Insert

\* handleUpdateAgent decodes the body onto the stored agent: what the client
\* omits is written as it was, unless another patch came in between.
THEOREM ConsolePatchIsPatch ==
    Spec => PatchIsPatch
<1>1. Init => PatchInv
  BY DEF Init, PatchInv
<1>2. Inv /\ PatchInv /\ [Next]_vars => PatchInv'
  BY PatchStep, ConsoleAssumption
<1>3. Inv /\ PatchInv /\ [Next]_vars =>
        [\A r \in Request :
           pc[r] = "update" /\ pc'[r] = "idle" /\ row' # row /\ row # Null /\ base[r] = row =>
               \A f \in Field \ DOMAIN sent[r] : row'[f] = row[f]]_vars
  <2> SUFFICES ASSUME Inv, PatchInv, Next, NEW r \in Request,
                      pc[r] = "update", pc'[r] = "idle", row' # row, base[r] = row,
                      NEW f \in Field \ DOMAIN sent[r]
               PROVE  row'[f] = row[f]
    BY DEF vars
  <2>1. draft[r][f] = row[f]
    BY DEF PatchInv
  <2>2. UpdateAgent(r)
    <3>1. PICK q \in Request : StoreAgent(q) \/ UpdateAgent(q)
      BY DEF Next, BeginCreate, BeginUpdate, Prepare, ModelRefused, Insert, BeginInsert,
             DeleteAgent
    <3>2. q # r => pc'[r] = pc[r]
      BY <3>1 DEF StoreAgent, UpdateAgent, Answer, Inv, DraftInv
    <3> QED
      BY <3>1, <3>2 DEF StoreAgent
  <2>3. row' = draft[r]
    BY <2>2 DEF UpdateAgent, Written
  <2> QED
    BY <2>1, <2>3
<1> QED
  BY <1>1, <1>2, <1>3, ConsoleInvariant, PTL DEF Spec, PatchIsPatch

=============================================================================
