--------------------------- MODULE AgentLoopProofs ---------------------------
(***************************************************************************)
(* Theorems about AgentLoop, for any number of executions of a run, any    *)
(* budgets, tools and answers of the model.                                *)
(*                                                                         *)
(* Everything rests on who writes the trace (WriterInv).  A step is stored *)
(* only under an index that is free, so whoever stored step 0 is the only  *)
(* execution that ever gets beyond its first answer.  The other invariants *)
(* relate what that execution holds to what is stored.                     *)
(***************************************************************************)
EXTENDS AgentLoop, TLAPS

-----------------------------------------------------------------------------
(* Types *)

AllCalls == UNION {Range(calls) : calls \in Calls}

Contents == {"ok", "error", "refused"}

Message ==
    {AssistantMessage(calls) : calls \in Calls}
    \cup {ToolMessage(call.id, content) : call \in AllCalls, content \in Contents}

Before == {"idle", "context", "render"}
InTool == {"tool", "send", "record"}
Looping == {"model", "asked"} \cup InTool

Counts ==
    /\ index \in [Exec -> Nat]
    /\ step \in [Exec -> Nat]
    /\ used \in [Exec -> Nat]
    /\ asked \in [Exec -> Nat]

Queues ==
    /\ todo \in [Exec -> Seq(AllCalls)]
    /\ messages \in [Exec -> Seq(Message)]
    /\ ran \in Seq(AllCalls)

Points ==
    /\ pc \in [Exec -> Before \cup Looping \cup {"report", "done"}]
    /\ answer \in [Exec -> Contents \cup {None}]
    /\ result \in [Exec -> {None, "failed", "succeeded", "budget_exceeded"}]
    /\ prompt = [e \in Exec |-> prompt[e]]

\* An execution that is in a tool call has one, and records what it answered.
InCall ==
    \A e \in Exec : /\ pc[e] \in InTool => todo[e] # <<>>
                    /\ pc[e] = "record" => answer[e] \in Contents

TypeInv == Counts /\ Queues /\ Points /\ InCall

\* The columns of the runs row.
RowInv ==
    run # None => run = [prompt |-> run.prompt, status |-> run.status, tokens |-> run.tokens]

\* What the proofs need of the constants.
LEMMA ConstantTypes ==
    ASSUME AgentLoopAssumption
    PROVE  /\ Usage \subseteq Nat /\ MaxSteps \in Nat \ {0} /\ MaxTokens \in Nat
           /\ MaxExec \in Nat /\ Calls \subseteq Seq(AllCalls)
BY Zenon DEF AgentLoopAssumption, AllCalls

\* A sequence loses its first element.
LEMMA TailOf ==
    ASSUME NEW S, NEW s \in Seq(S), s # <<>>
    PROVE  /\ Tail(s) \in Seq(S) /\ Head(s) \in S /\ Head(s) = s[1]
           /\ Len(s) \in Nat \ {0} /\ Len(Tail(s)) = Len(s) - 1
           /\ Len(s) # 1 => Tail(s) # <<>>
           /\ Len(s) = 1 => Tail(s) = <<>>
           /\ \A k \in 1 .. Len(s) - 1 : Tail(s)[k] = s[k + 1]
<1>1. Len(s) \in Nat \ {0} /\ s = [k \in 1 .. Len(s) |-> s[k]]
  OBVIOUS
<1>2. Head(s) = s[1]
  OBVIOUS
<1>3. Head(s) \in S
  OBVIOUS
<1>4. Tail(s) \in Seq(S)
  OBVIOUS
<1>5. Len(Tail(s)) = Len(s) - 1
  OBVIOUS
<1>6. \A k \in 1 .. Len(s) - 1 : Tail(s)[k] = s[k + 1]
  OBVIOUS
<1>7. \A t \in Seq(S) : t = <<>> <=> Len(t) = 0
  OBVIOUS
<1>8. Tail(s) = <<>> <=> Len(Tail(s)) = 0
  BY <1>4, <1>7, Zenon
<1> QED
  BY <1>1, <1>2, <1>3, <1>4, <1>5, <1>6, <1>8

\* A counter of one execution goes up.
LEMMA Incremented ==
    ASSUME NEW e \in Exec, NEW f \in [Exec -> Nat]
    PROVE  [f EXCEPT ![e] = @ + 1] \in [Exec -> Nat]
OBVIOUS

LEMMA ToolMessageType ==
    ASSUME NEW call \in AllCalls, NEW content \in Contents
    PROVE  ToolMessage(call.id, content) \in Message
BY DEF Message

\* Execute returns.
LEMMA ReturnTypes ==
    ASSUME TypeInv, NEW e \in Exec, NEW status \in {"failed", "succeeded", "budget_exceeded"},
           Return(e, status), used' \in [Exec -> Nat], index' \in [Exec -> Nat],
           UNCHANGED <<asked, ran>>
    PROVE  TypeInv'
<1>1. /\ pc' = [pc EXCEPT ![e] = "report"] /\ result' = [result EXCEPT ![e] = status]
      /\ prompt' = [prompt EXCEPT ![e] = None] /\ messages' = [messages EXCEPT ![e] = <<>>]
      /\ step' = [step EXCEPT ![e] = 0] /\ todo' = [todo EXCEPT ![e] = <<>>]
      /\ answer' = [answer EXCEPT ![e] = None]
  BY Zenon DEF Return, Goto, Forget
<1>2. <<>> \in Seq(AllCalls) /\ <<>> \in Seq(Message)
  OBVIOUS
<1>3. Counts'
  BY <1>1, Zenon DEF TypeInv, Counts
<1>4. Queues'
  BY <1>1, <1>2, Zenon DEF TypeInv, Queues
<1>5. Points'
  BY <1>1, Zenon DEF TypeInv, Points
<1>6. InCall'
  BY <1>1, Zenon DEF TypeInv, Points, Queues, InCall, InTool
<1> QED
  BY <1>3, <1>4, <1>5, <1>6, Zenon DEF TypeInv

\* It returns an error.
LEMMA FailTypes ==
    ASSUME TypeInv, NEW e \in Exec, Fail(e), UNCHANGED <<index, asked, ran>>
    PROVE  TypeInv'
<1>1. used' \in [Exec -> Nat] /\ index' \in [Exec -> Nat]
  BY Zenon DEF Fail, TypeInv, Counts
<1> QED
  BY <1>1, ReturnTypes, Zenon DEF Fail

LEMMA RecordFailsTypes ==
    ASSUME TypeInv, NEW e \in Exec, RecordFails(e), UNCHANGED <<asked, ran>>
    PROVE  TypeInv'
BY FailTypes, Zenon DEF RecordFails

\* A step is stored.
LEMMA RecordCounts ==
    ASSUME TypeInv, NEW e \in Exec, NEW s, Record(e, s)
    PROVE  index' = [index EXCEPT ![e] = @ + 1] /\ index' \in [Exec -> Nat]
<1>1. index' = [index EXCEPT ![e] = @ + 1]
  BY Zenon DEF Record
<1> QED
  BY <1>1 DEF TypeInv, Counts

\* ModelResponds.
LEMMA ModelRespondsTypes ==
    ASSUME AgentLoopAssumption, TypeInv, NEW e \in Exec, ModelResponds(e)
    PROVE  TypeInv'
<1>1. UNCHANGED <<asked, ran>>
  BY Zenon DEF ModelResponds
<1>2. CASE RecordFails(e)
  BY <1>1, <1>2, RecordFailsTypes, Zenon
<1>3. ASSUME NEW tokens \in Usage, used' = [used EXCEPT ![e] = Spent(e, tokens)]
      PROVE  used' \in [Exec -> Nat]
  <2>1. tokens \in Nat
    BY ConstantTypes, Zenon
  <2> QED
    BY <1>3, <2>1 DEF TypeInv, Counts, Spent
<1>4. ASSUME NEW tokens \in Usage, used' = [used EXCEPT ![e] = Spent(e, tokens)],
             Record(e, ModelStep(tokens)), Return(e, "succeeded")
      PROVE  TypeInv'
  <2>1. used' \in [Exec -> Nat] /\ index' \in [Exec -> Nat]
    BY <1>3, <1>4, RecordCounts, Zenon
  <2> QED
    BY <1>1, <1>4, <2>1, ReturnTypes, Zenon
<1>5. ASSUME NEW tokens \in Usage, NEW calls \in Calls \ {<<>>},
             used' = [used EXCEPT ![e] = Spent(e, tokens)],
             Record(e, ModelStep(tokens)),
             messages' = [messages EXCEPT ![e] = Append(@, AssistantMessage(calls))],
             todo' = [todo EXCEPT ![e] = calls],
             Goto(e, "tool"),
             UNCHANGED <<startVars, step, toolVars, result>>
      PROVE  TypeInv'
  <2>1. used' \in [Exec -> Nat] /\ index' \in [Exec -> Nat]
    BY <1>3, <1>5, RecordCounts, Zenon
  <2>2. AssistantMessage(calls) \in Message /\ calls \in Seq(AllCalls)
    BY ConstantTypes DEF Message
  <2>3. Queues'
    BY <1>1, <1>5, <2>2 DEF TypeInv, Queues
  <2>4. Points' /\ InCall'
    BY <1>5, Zenon DEF TypeInv, Queues, Points, InCall, Goto, startVars, toolVars, Looping, InTool
  <2>5. Counts'
    BY <1>1, <1>5, <2>1, Zenon DEF TypeInv, Counts
  <2> QED
    BY <2>3, <2>4, <2>5, Zenon DEF TypeInv
<1> QED
  BY <1>2, <1>4, <1>5, Zenon DEF ModelResponds

\* RecordTool.
LEMMA RecordToolTypes ==
    ASSUME AgentLoopAssumption, TypeInv, NEW e \in Exec, RecordTool(e)
    PROVE  TypeInv'
<1>1. UNCHANGED <<asked, ran>> /\ pc[e] = "record"
  BY Zenon DEF RecordTool
<1>2. CASE RecordFails(e)
  BY <1>1, <1>2, RecordFailsTypes, Zenon
<1>3. CASE ~RecordFails(e)
  <2>1. /\ Record(e, ToolStep(Call(e), answer[e]))
        /\ messages' = [messages EXCEPT ![e] = Hears(e)]
        /\ todo' = [todo EXCEPT ![e] = Tail(@)]
        /\ IF Len(todo[e]) = 1
             THEN Goto(e, "model") /\ step' = [step EXCEPT ![e] = @ + 1]
             ELSE Goto(e, "tool") /\ UNCHANGED step
        /\ answer' = [answer EXCEPT ![e] = None]
        /\ UNCHANGED <<startVars, used, unsent, result>>
    BY <1>3, Zenon DEF RecordTool
  <2> DEFINE calls == todo[e]
  <2>2. calls \in Seq(AllCalls) /\ calls # <<>> /\ answer[e] \in Contents
    BY <1>1, Zenon DEF TypeInv, Queues, InCall, InTool
  <2>3. Call(e) \in AllCalls /\ Call(e) = Head(calls)
    BY <2>2 DEF Call
  <2> HIDE DEF calls
  <2>4. Tail(calls) \in Seq(AllCalls) /\ (Len(calls) # 1 => Tail(calls) # <<>>)
    BY <2>2, TailOf, Zenon
  <2>5. Hears(e) \in Seq(Message)
    <3>1. messages[e] \in Seq(Message)
      BY Zenon DEF TypeInv, Queues
    <3>2. ToolMessage(Call(e).id, answer[e]) \in Message
      BY <2>2, <2>3, ToolMessageType, Zenon
    <3> QED
      BY <3>1, <3>2 DEF Hears
  <2>6. Queues'
    BY <1>1, <2>1, <2>4, <2>5, Zenon DEF TypeInv, Queues, calls
  <2>7. step' = step \/ step' = [step EXCEPT ![e] = @ + 1]
    BY <2>1, Zenon
  <2>10. step \in [Exec -> Nat] /\ used' \in [Exec -> Nat] /\ asked' \in [Exec -> Nat]
    BY <1>1, <2>1, Zenon DEF TypeInv, Counts
  <2>11. step' \in [Exec -> Nat] /\ index' \in [Exec -> Nat]
    <3>1. [step EXCEPT ![e] = @ + 1] \in [Exec -> Nat]
      BY <2>10, Incremented, Zenon
    <3>2. index' \in [Exec -> Nat]
      BY <2>1, RecordCounts, Zenon
    <3> QED
      BY <2>7, <2>10, <3>1, <3>2, Zenon
  <2>12. Counts'
    BY <2>10, <2>11, Zenon DEF Counts
  <2>8. Points'
    BY <2>1, Zenon DEF TypeInv, Points, Goto, Looping, InTool, startVars
  <2>9. InCall'
    BY <2>1, <2>4 DEF TypeInv, Points, Queues, InCall, Goto, InTool, calls
  <2> QED
    BY <2>6, <2>8, <2>9, <2>12, Zenon DEF TypeInv
<1> QED
  BY <1>2, <1>3, Zenon

\* The steps of a tool call.
LEMMA ToolTypes ==
    ASSUME TypeInv, NEW e \in Exec,
           RefuseTool(e) \/ RunTool(e) \/ BeginSend(e) \/ SendPart(e)
    PROVE  TypeInv'
<1>1. /\ pc[e] \in {"tool", "send"}
      /\ UNCHANGED <<startVars, loopVars, result, asked>>
  BY Zenon DEF RefuseTool, RunTool, BeginSend, SendPart
<1>2. todo[e] \in Seq(AllCalls) /\ todo[e] # <<>>
  BY <1>1, Zenon DEF TypeInv, Queues, InCall, InTool
<1>3. Call(e) \in AllCalls
  BY <1>2 DEF Call
<1>4. ran' = ran \/ ran' = Append(ran, Call(e))
  BY Zenon DEF RefuseTool, RunTool, BeginSend, SendPart
<1>5. ran \in Seq(AllCalls)
  BY Zenon DEF TypeInv, Queues
<1>6. ran' \in Seq(AllCalls)
  BY <1>3, <1>4, <1>5
<1>7. Queues' /\ Counts'
  BY <1>1, <1>6, Zenon DEF TypeInv, Queues, Counts, loopVars
<1>8. \/ \E content \in Contents : Answer(e, content)
      \/ pc' = [pc EXCEPT ![e] = "send"] /\ UNCHANGED answer
      \/ UNCHANGED <<pc, answer>>
  BY Zenon DEF RefuseTool, RunTool, BeginSend, SendPart, PartFails, Goto, Contents
<1>9. UNCHANGED <<prompt, result, todo>>
  BY <1>1, Zenon DEF startVars, loopVars
<1>10. ASSUME NEW content \in Contents, Answer(e, content) PROVE Points' /\ InCall'
  BY <1>1, <1>9, <1>10, Zenon DEF TypeInv, Points, InCall, Answer, Goto, Looping, InTool
<1>11. CASE pc' = [pc EXCEPT ![e] = "send"] /\ UNCHANGED answer
  BY <1>1, <1>7, <1>9, <1>11, Zenon DEF TypeInv, Points, InCall, Looping, InTool
<1>12. CASE UNCHANGED <<pc, answer>>
  BY <1>7, <1>9, <1>12, Zenon DEF TypeInv, Points, InCall
<1> QED
  BY <1>7, <1>8, <1>10, <1>11, <1>12, Zenon DEF TypeInv

\* Every step keeps the types.
LEMMA TypeStep ==
    ASSUME AgentLoopAssumption, TypeInv, [Next]_vars
    PROVE  TypeInv'
<1> USE DEF TypeInv, Counts, Queues, Points, InCall
<1>1. ASSUME NEW e \in Exec, LoadAgent(e) PROVE TypeInv'
  <2>1. CASE Fail(e)
    BY <1>1, <2>1, FailTypes, Zenon DEF LoadAgent
  <2>2. CASE ~Fail(e)
    BY <1>1, <2>2, Zenon DEF LoadAgent, Goto, toolVars, Before, InTool
  <2> QED
    BY <2>1, <2>2, Zenon
<1>2. ASSUME NEW e \in Exec, BuildMessages(e) PROVE TypeInv'
  BY <1>2, Zenon DEF BuildMessages, Goto, loopVars, toolVars, Before, InTool
<1>3. ASSUME NEW e \in Exec, SetRenderedPrompt(e) PROVE TypeInv'
  <2>1. CASE Fail(e)
    BY <1>3, <2>1, FailTypes, Zenon DEF SetRenderedPrompt
  <2>2. CASE ~Fail(e)
    BY <1>3, <2>2, Zenon DEF SetRenderedPrompt, Goto, localVars, startVars, toolVars, Looping, InTool
  <2> QED
    BY <2>1, <2>2, Zenon
<1>4. ASSUME NEW e \in Exec, StatementFails(e) \/ ModelFails(e) PROVE TypeInv'
  BY <1>4, FailTypes, Zenon DEF StatementFails, ModelFails
<1>5. ASSUME NEW e \in Exec, BeginStep(e) PROVE TypeInv'
  <2>1. UNCHANGED <<index, used, ran>>
    BY <1>5, Zenon DEF BeginStep
  <2>2. CASE Return(e, "budget_exceeded") /\ UNCHANGED asked
    <3>1. used' \in [Exec -> Nat] /\ index' \in [Exec -> Nat]
      BY <2>1, Zenon
    <3> QED
      BY <2>1, <2>2, <3>1, ReturnTypes, Zenon
  <2>3. CASE /\ Goto(e, "asked") /\ asked' = [asked EXCEPT ![e] = @ + 1]
             /\ UNCHANGED <<localVars, result>>
    <3>1. UNCHANGED <<prompt, messages, step, todo, answer, result>>
      BY <2>3, Zenon DEF localVars, startVars, toolVars
    <3>2. asked' \in [Exec -> Nat]
      BY <2>3, Incremented, Zenon
    <3>4. Counts'
      BY <2>1, <3>1, <3>2, Zenon
    <3>3. Points' /\ InCall' /\ Queues'
      BY <2>1, <2>3, <3>1, Zenon DEF Goto, Looping, InTool
    <3> QED
      BY <3>3, <3>4, Zenon
  <2> QED
    BY <1>5, <2>2, <2>3, Zenon DEF BeginStep
<1>6. ASSUME NEW e \in Exec, Report(e) PROVE TypeInv'
  BY <1>6, Zenon DEF Report, Over, Goto, localVars, startVars, toolVars, Looping, InTool
<1>7. ASSUME NEW e \in Exec, Crash(e) PROVE TypeInv'
  <2>1. /\ pc' = [pc EXCEPT ![e] = "done"] /\ result' = [result EXCEPT ![e] = None]
        /\ used' = [used EXCEPT ![e] = 0]
        /\ prompt' = [prompt EXCEPT ![e] = None] /\ messages' = [messages EXCEPT ![e] = <<>>]
        /\ step' = [step EXCEPT ![e] = 0] /\ todo' = [todo EXCEPT ![e] = <<>>]
        /\ answer' = [answer EXCEPT ![e] = None] /\ UNCHANGED <<index, asked, ran>>
    BY <1>7, Zenon DEF Crash, Over, Goto, Forget
  <2>2. <<>> \in Seq(AllCalls) /\ <<>> \in Seq(Message)
    OBVIOUS
  <2>3. Points' /\ InCall'
    BY <2>1, Zenon DEF InTool
  <2>4. Queues' /\ Counts'
    BY <2>1, <2>2, Zenon
  <2> QED
    BY <2>3, <2>4, Zenon
<1>8. CASE UpdateAgent \/ DeleteAgent \/ OtherRunSucceeds \/ UNCHANGED vars
  <2>1. UNCHANGED <<pc, startVars, loopVars, toolVars, result, asked, ran>>
    BY <1>8, Zenon DEF UpdateAgent, DeleteAgent, OtherRunSucceeds, vars
  <2> QED
    BY <2>1, Zenon DEF startVars, loopVars, toolVars
<1> HIDE DEF TypeInv
<1> QED
  BY Zenon, <1>1, <1>2, <1>3, <1>4, <1>5, <1>6, <1>7, <1>8, ModelRespondsTypes, RecordToolTypes, ToolTypes
     DEF Next, ExecStep

-----------------------------------------------------------------------------
(* What a step is to the execution that takes it *)

\* The execution f is not concerned.
Same(f) ==
    /\ pc'[f] = pc[f] /\ prompt'[f] = prompt[f] /\ messages'[f] = messages[f]
    /\ step'[f] = step[f] /\ index'[f] = index[f] /\ todo'[f] = todo[f]
    /\ used'[f] = used[f] /\ answer'[f] = answer[f] /\ result'[f] = result[f]
    /\ asked'[f] = asked[f]

\* The step writes no row of run_steps, and not the outcome of the run.
Unrecorded(e) ==
    /\ trace' = trace
    /\ index'[e] = index[e]
    /\ run' # None => run # None /\ run'.status = run.status /\ run'.tokens = run.tokens

\* It writes one.
Recorded(e, s) ==
    /\ run # None
    /\ run' = run
    /\ index[e] \notin DOMAIN trace
    /\ trace' = [i \in DOMAIN trace \cup {index[e]} |-> IF i = index[e] THEN s ELSE trace[i]]
    /\ index'[e] = index[e] + 1

\* What the execution knew is gone.
Empty(e) == messages'[e] = <<>> /\ step'[e] = 0 /\ todo'[e] = <<>>

Starts(e) ==
    /\ pc[e] \in Before
    /\ pc'[e] \in {"context", "render", "model"}
    /\ messages'[e] = messages[e] /\ step'[e] = step[e] /\ todo'[e] = todo[e]
    /\ used'[e] = used[e] /\ asked'[e] = asked[e] /\ ran' = ran
    /\ Unrecorded(e)
    /\ IF pc'[e] = "model" THEN prompt'[e] = prompt[e] /\ (run' # None => run'.prompt = prompt[e])
                           ELSE run' = run

Fails(e) ==
    /\ pc[e] \in Before \cup Looping
    /\ pc'[e] = "report" /\ result'[e] = "failed"
    /\ used'[e] = 0 /\ asked'[e] = asked[e] /\ ran' = ran
    /\ Empty(e)
    /\ Unrecorded(e)

Stops(e) ==
    /\ pc[e] = "model"
    /\ pc'[e] = "report" /\ result'[e] = "budget_exceeded"
    /\ used'[e] = used[e] /\ asked'[e] = asked[e] /\ ran' = ran
    /\ Empty(e)
    /\ Unrecorded(e) /\ run' = run

Asks(e) ==
    /\ pc[e] = "model" /\ step[e] < MaxSteps /\ used[e] <= MaxTokens
    /\ pc'[e] = "asked" /\ asked'[e] = asked[e] + 1
    /\ messages'[e] = messages[e] /\ step'[e] = step[e] /\ todo'[e] = todo[e]
    /\ prompt'[e] = prompt[e] /\ used'[e] = used[e] /\ ran' = ran
    /\ Unrecorded(e) /\ run' = run

\* The model answered, at a cost.
Responds(e, tokens) ==
    /\ pc[e] = "asked"
    /\ used'[e] = used[e] + tokens /\ asked'[e] = asked[e] /\ ran' = ran
    /\ Recorded(e, ModelStep(tokens))

Succeeds(e) ==
    /\ \E tokens \in Usage : Responds(e, tokens)
    /\ pc'[e] = "report" /\ result'[e] = "succeeded"
    /\ Empty(e)

CallsTools(e, calls) ==
    /\ \E tokens \in Usage : Responds(e, tokens)
    /\ pc'[e] = "tool"
    /\ messages'[e] = Append(messages[e], AssistantMessage(calls))
    /\ todo'[e] = calls
    /\ step'[e] = step[e] /\ prompt'[e] = prompt[e]

\* A tool call goes on, up to its content.
Tools(e) ==
    /\ \/ pc[e] = "tool" /\ pc'[e] = "record" /\ answer'[e] = "refused" /\ ran' = ran
       \/ /\ pc[e] = "tool" /\ ran' = Append(ran, Head(todo[e]))
          /\ pc'[e] = "send" \/ (pc'[e] = "record" /\ answer'[e] \in {"ok", "error"})
       \/ /\ pc[e] = "send" /\ ran' = ran
          /\ pc'[e] = "send" \/ (pc'[e] = "record" /\ answer'[e] \in {"ok", "error"})
    /\ messages'[e] = messages[e] /\ step'[e] = step[e] /\ todo'[e] = todo[e]
    /\ prompt'[e] = prompt[e] /\ used'[e] = used[e] /\ asked'[e] = asked[e]
    /\ Unrecorded(e) /\ run' = run

Tells(e) ==
    /\ pc[e] = "record"
    /\ Recorded(e, ToolStep(Head(todo[e]), answer[e]))
    /\ messages'[e] = Append(messages[e], ToolMessage(Head(todo[e]).id, answer[e]))
    /\ todo'[e] = Tail(todo[e])
    /\ IF Len(todo[e]) = 1 THEN pc'[e] = "model" /\ step'[e] = step[e] + 1
                           ELSE pc'[e] = "tool" /\ step'[e] = step[e]
    /\ prompt'[e] = prompt[e] /\ used'[e] = used[e] /\ asked'[e] = asked[e] /\ ran' = ran

Ends(e) ==
    /\ pc[e] \in {"context", "render", "report"} \cup Looping
    /\ pc'[e] = "done" /\ used'[e] = 0 /\ asked'[e] = asked[e] /\ ran' = ran
    /\ trace' = trace /\ index'[e] = index[e]
    /\ \/ Empty(e)
       \/ messages'[e] = messages[e] /\ step'[e] = step[e] /\ todo'[e] = todo[e]
    /\ \/ run' = run
       \/ pc[e] = "report" /\ run # None /\ run' = [run EXCEPT !.status = result[e], !.tokens = used[e]]

Move(e) ==
    \/ Starts(e) \/ Fails(e) \/ Stops(e) \/ Asks(e) \/ Succeeds(e)
    \/ \E calls \in Calls \ {<<>>} : CallsTools(e, calls)
    \/ Tools(e) \/ Tells(e) \/ Ends(e)

\* Whoever edits or deletes agents touches no execution.
Elsewhere ==
    /\ \A f \in Exec : Same(f)
    /\ ran' = ran
    /\ run' = None \/ (run' = run /\ trace' = trace)

\* What is left of a step of one execution is that execution's values.
LEMMA ReturnIsEmpty ==
    ASSUME TypeInv, NEW e \in Exec, NEW status, Return(e, status)
    PROVE  /\ pc'[e] = "report" /\ result'[e] = status /\ Empty(e)
           /\ \A f \in Exec \ {e} :
                /\ pc'[f] = pc[f] /\ prompt'[f] = prompt[f] /\ messages'[f] = messages[f]
                /\ step'[f] = step[f] /\ todo'[f] = todo[f]
                /\ answer'[f] = answer[f] /\ result'[f] = result[f]
<1>1. Counts /\ Queues /\ Points
  BY Zenon DEF TypeInv
<1>2. pc'[e] = "report" /\ result'[e] = status
  BY <1>1, Zenon DEF Return, Goto, Points
<1>3. Empty(e)
  BY <1>1, Zenon DEF Return, Forget, Counts, Queues, Empty
<1>4. ASSUME NEW f \in Exec \ {e}
      PROVE  /\ pc'[f] = pc[f] /\ prompt'[f] = prompt[f] /\ messages'[f] = messages[f]
             /\ step'[f] = step[f] /\ todo'[f] = todo[f]
             /\ answer'[f] = answer[f] /\ result'[f] = result[f]
  BY <1>1, <1>4, Zenon DEF Return, Goto, Forget, Counts, Queues, Points
<1> QED
  BY <1>2, <1>3, <1>4, Zenon

\* SetRenderedPrompt writes no other column.
LEMMA Rendered ==
    ASSUME RowInv, NEW p, run' = (IF run = None THEN None ELSE [run EXCEPT !.prompt = p])
    PROVE  run' # None => /\ run # None /\ run'.prompt = p
                          /\ run'.status = run.status /\ run'.tokens = run.tokens
BY Zenon DEF RowInv

\* An error ends an execution before its loop or in it.
LEMMA FailMoves ==
    ASSUME TypeInv, RowInv, NEW e \in Exec, Fail(e), pc[e] \in Before \cup Looping,
           UNCHANGED <<trace, index, asked, ran>>,
           run' = run \/ run' = (IF run = None THEN None ELSE [run EXCEPT !.prompt = prompt[e]])
    PROVE  Fails(e) /\ \A f \in Exec \ {e} : Same(f)
<1>1. /\ Return(e, "failed") /\ used' = [used EXCEPT ![e] = 0]
      /\ used \in [Exec -> Nat]
  BY Zenon DEF Fail, TypeInv, Counts
<1>2. used'[e] = 0 /\ \A f \in Exec \ {e} : used'[f] = used[f]
  BY <1>1, Zenon
<1>3. run' # None => run # None /\ run'.status = run.status /\ run'.tokens = run.tokens
  BY Rendered, Zenon
<1>4. Unrecorded(e)
  BY <1>3, Zenon DEF Unrecorded
<1> QED
  BY <1>1, <1>2, <1>4, ReturnIsEmpty DEF Fails, Same

LEMMA StartMoves ==
    ASSUME TypeInv, RowInv, NEW e \in Exec,
           LoadAgent(e) \/ BuildMessages(e) \/ SetRenderedPrompt(e) \/ StatementFails(e) \/ ModelFails(e)
    PROVE  Move(e) /\ \A f \in Exec \ {e} : Same(f)
<1>1. CASE Fail(e)
  <2>1. pc[e] \in Before \cup Looping /\ UNCHANGED <<trace, index, asked, ran>>
    BY <1>1, Zenon DEF LoadAgent, BuildMessages, SetRenderedPrompt, StatementFails, ModelFails, rowVars,
                loopVars, Before, Looping
  <2>2. run' = run \/ run' = (IF run = None THEN None ELSE [run EXCEPT !.prompt = prompt[e]])
    BY <1>1, Zenon DEF LoadAgent, BuildMessages, SetRenderedPrompt, StatementFails, ModelFails, rowVars
  <2> QED
    BY <1>1, <2>1, <2>2, FailMoves, Zenon DEF Move
<1>2. CASE ~Fail(e)
  <2> USE DEF TypeInv, Points
  <2>1. UNCHANGED <<trace, index, messages, step, todo, used, answer, result, asked, ran>>
    BY <1>2, Zenon DEF LoadAgent, BuildMessages, SetRenderedPrompt, StatementFails, ModelFails, rowVars,
                loopVars, toolVars, localVars
  <2>2. pc[e] \in Before
    BY <1>2, Zenon DEF LoadAgent, BuildMessages, SetRenderedPrompt, StatementFails, ModelFails, Before
  <2>3. CASE LoadAgent(e)
    <3>1. pc' = [pc EXCEPT ![e] = "context"] /\ prompt' = prompt /\ run' = run
      BY <1>2, <2>3, Zenon DEF LoadAgent, Goto, rowVars
    <3>2. Starts(e)
      BY <2>1, <2>2, <3>1, Zenon DEF Starts, Unrecorded
    <3> QED
      BY <2>1, <3>1, <3>2, Zenon DEF Move, Same
  <2>4. CASE BuildMessages(e)
    <3>1. pc' = [pc EXCEPT ![e] = "render"] /\ run' = run
      BY <2>4, Zenon DEF BuildMessages, Goto, rowVars
    <3>2. \A f \in Exec \ {e} : prompt'[f] = prompt[f]
      BY <2>4, Zenon DEF BuildMessages
    <3>3. Starts(e)
      BY <2>1, <2>2, <3>1, Zenon DEF Starts, Unrecorded
    <3> QED
      BY <2>1, <3>1, <3>2, <3>3, Zenon DEF Move, Same
  <2>5. CASE SetRenderedPrompt(e)
    <3>1. /\ pc' = [pc EXCEPT ![e] = "model"] /\ prompt' = prompt
          /\ run' = IF run = None THEN None ELSE [run EXCEPT !.prompt = prompt[e]]
      BY <1>2, <2>5, Zenon DEF SetRenderedPrompt, Goto, localVars, startVars
    <3>2. run' # None => /\ run # None /\ run'.prompt = prompt[e]
                         /\ run'.status = run.status /\ run'.tokens = run.tokens
      BY <3>1, Rendered, Zenon
    <3>3. Starts(e)
      BY <2>1, <2>2, <3>1, <3>2, Zenon DEF Starts, Unrecorded
    <3> QED
      BY <2>1, <3>1, <3>3, Zenon DEF Move, Same
  <2> QED
    BY <1>2, <2>3, <2>4, <2>5, Zenon DEF StatementFails, ModelFails
<1> QED
  BY <1>1, <1>2, Zenon

LEMMA BeginStepMoves ==
    ASSUME AgentLoopAssumption, TypeInv, NEW e \in Exec, BeginStep(e)
    PROVE  Move(e) /\ \A f \in Exec \ {e} : Same(f)
<1>1. pc[e] = "model" /\ UNCHANGED <<run, trace, index, used, ran>>
  BY Zenon DEF BeginStep, rowVars
<1>2. Unrecorded(e)
  BY <1>1, Zenon DEF Unrecorded
<1>3. CASE Return(e, "budget_exceeded") /\ UNCHANGED asked
  BY <1>1, <1>2, <1>3, ReturnIsEmpty, Zenon DEF Move, Stops, Same
<1>4. CASE /\ ~OverBudget(e) /\ Goto(e, "asked") /\ asked' = [asked EXCEPT ![e] = @ + 1]
           /\ UNCHANGED <<localVars, result>>
  <2>1. UNCHANGED <<prompt, messages, step, todo, answer, result>>
    BY <1>4, Zenon DEF localVars, startVars, toolVars
  <2>2. pc'[e] = "asked" /\ asked'[e] = asked[e] + 1
    BY <1>4, Zenon DEF Goto, TypeInv, Points, Counts
  <2>3. \A f \in Exec \ {e} : pc'[f] = pc[f] /\ asked'[f] = asked[f]
    BY <1>4, Zenon DEF Goto, TypeInv, Points, Counts
  <2>4. step[e] \in Nat /\ used[e] \in Nat /\ ~(step[e] >= MaxSteps) /\ ~(used[e] > MaxTokens)
    BY <1>4, Zenon DEF OverBudget, TypeInv, Counts
  <2>5. step[e] < MaxSteps /\ used[e] <= MaxTokens
    BY <2>4, ConstantTypes
  <2>6. Asks(e)
    BY <1>1, <1>2, <2>1, <2>2, <2>5, Zenon DEF Asks
  <2> QED
    BY <1>1, <2>1, <2>3, <2>6, Zenon DEF Move, Same
<1> QED
  BY <1>3, <1>4, Zenon DEF BeginStep

LEMMA RecordMoves ==
    ASSUME TypeInv, NEW e \in Exec, NEW s, Record(e, s), run' = run
    PROVE  Recorded(e, s) /\ \A f \in Exec \ {e} : index'[f] = index[f]
<1>1. index' = [index EXCEPT ![e] = @ + 1] /\ index \in [Exec -> Nat]
  BY Zenon DEF Record, TypeInv, Counts
<1>2. index'[e] = index[e] + 1 /\ \A f \in Exec \ {e} : index'[f] = index[f]
  BY <1>1, Zenon
<1> QED
  BY <1>2, Zenon DEF Record, CanRecord, Recorded

LEMMA RecordFailsMoves ==
    ASSUME TypeInv, RowInv, NEW e \in Exec, RecordFails(e), pc[e] \in Looping,
           UNCHANGED <<run, asked, ran>>
    PROVE  Move(e) /\ \A f \in Exec \ {e} : Same(f)
<1>1. Fail(e) /\ UNCHANGED <<trace, index>>
  BY Zenon DEF RecordFails
<1> QED
  BY <1>1, FailMoves, Zenon DEF Move

LEMMA ModelRespondsMoves ==
    ASSUME AgentLoopAssumption, TypeInv, RowInv, NEW e \in Exec, ModelResponds(e)
    PROVE  Move(e) /\ \A f \in Exec \ {e} : Same(f)
<1>1. pc[e] = "asked" /\ UNCHANGED <<run, asked, ran>>
  BY Zenon DEF ModelResponds
<1>2. CASE RecordFails(e)
  BY <1>1, <1>2, RecordFailsMoves, Zenon DEF Looping
<1>3. ASSUME NEW tokens \in Usage, used' = [used EXCEPT ![e] = Spent(e, tokens)],
             Record(e, ModelStep(tokens))
      PROVE  Responds(e, tokens) /\ \A f \in Exec \ {e} : used'[f] = used[f] /\ index'[f] = index[f]
  <2>1. used'[e] = used[e] + tokens /\ \A f \in Exec \ {e} : used'[f] = used[f]
    BY <1>3, Zenon DEF Spent, TypeInv, Counts
  <2> QED
    BY <1>1, <1>3, <2>1, RecordMoves, Zenon DEF Responds
<1>4. ASSUME NEW tokens \in Usage, used' = [used EXCEPT ![e] = Spent(e, tokens)],
             Record(e, ModelStep(tokens)), Return(e, "succeeded")
      PROVE  Move(e) /\ \A f \in Exec \ {e} : Same(f)
  <2>1. Succeeds(e)
    BY <1>3, <1>4, ReturnIsEmpty, Zenon DEF Succeeds
  <2> QED
    BY <1>1, <1>3, <1>4, <2>1, ReturnIsEmpty, Zenon DEF Move, Same
<1>5. ASSUME NEW tokens \in Usage, NEW calls \in Calls \ {<<>>},
             used' = [used EXCEPT ![e] = Spent(e, tokens)],
             Record(e, ModelStep(tokens)),
             messages' = [messages EXCEPT ![e] = Append(@, AssistantMessage(calls))],
             todo' = [todo EXCEPT ![e] = calls],
             Goto(e, "tool"),
             UNCHANGED <<startVars, step, toolVars, result>>
      PROVE  Move(e) /\ \A f \in Exec \ {e} : Same(f)
  <2>1. UNCHANGED <<prompt, step, answer, result>>
    BY <1>5, Zenon DEF startVars, toolVars
  <2>2. /\ messages'[e] = Append(messages[e], AssistantMessage(calls))
        /\ todo'[e] = calls /\ pc'[e] = "tool"
    BY <1>5, Zenon DEF Goto, TypeInv, Points, Queues
  <2>3. \A f \in Exec \ {e} : messages'[f] = messages[f] /\ todo'[f] = todo[f] /\ pc'[f] = pc[f]
    BY <1>5, Zenon DEF Goto, TypeInv, Points, Queues
  <2>4. CallsTools(e, calls)
    BY <1>3, <1>5, <2>1, <2>2, Zenon DEF CallsTools
  <2> QED
    BY <1>1, <1>3, <1>5, <2>1, <2>3, <2>4, Zenon DEF Move, Same
<1> QED
  BY <1>2, <1>4, <1>5, Zenon DEF ModelResponds

LEMMA RecordToolMoves ==
    ASSUME TypeInv, RowInv, NEW e \in Exec, RecordTool(e)
    PROVE  Move(e) /\ \A f \in Exec \ {e} : Same(f)
<1>1. pc[e] = "record" /\ UNCHANGED <<run, asked, ran>>
  BY Zenon DEF RecordTool
<1>2. CASE RecordFails(e)
  BY <1>1, <1>2, RecordFailsMoves, Zenon DEF Looping, InTool
<1>3. CASE ~RecordFails(e)
  <2>1. /\ Record(e, ToolStep(Call(e), answer[e]))
        /\ messages' = [messages EXCEPT ![e] = Hears(e)]
        /\ todo' = [todo EXCEPT ![e] = Tail(@)]
        /\ IF Len(todo[e]) = 1
             THEN Goto(e, "model") /\ step' = [step EXCEPT ![e] = @ + 1]
             ELSE Goto(e, "tool") /\ UNCHANGED step
        /\ answer' = [answer EXCEPT ![e] = None]
        /\ UNCHANGED <<prompt, used, result>>
    BY <1>3, Zenon DEF RecordTool, startVars
  <2>2. /\ messages'[e] = Append(messages[e], ToolMessage(Head(todo[e]).id, answer[e]))
        /\ todo'[e] = Tail(todo[e])
    BY <2>1, Zenon DEF Hears, Call, TypeInv, Queues
  <2>3. IF Len(todo[e]) = 1 THEN pc'[e] = "model" /\ step'[e] = step[e] + 1
                            ELSE pc'[e] = "tool" /\ step'[e] = step[e]
    BY <2>1, Zenon DEF Goto, TypeInv, Points, Counts
  <2>4. \A f \in Exec \ {e} : pc'[f] = pc[f] /\ step'[f] = step[f]
    BY <2>1, Zenon DEF Goto, TypeInv, Points, Counts
  <2>5. \A f \in Exec \ {e} : messages'[f] = messages[f] /\ todo'[f] = todo[f] /\ answer'[f] = answer[f]
    BY <2>1, Zenon DEF TypeInv, Queues, Points
  <2>6. Recorded(e, ToolStep(Head(todo[e]), answer[e])) /\ \A f \in Exec \ {e} : index'[f] = index[f]
    BY <1>1, <2>1, RecordMoves, Zenon DEF Call
  <2>7. Tells(e)
    BY <1>1, <2>1, <2>2, <2>3, <2>6, Zenon DEF Tells
  <2> QED
    BY <1>1, <2>1, <2>4, <2>5, <2>6, <2>7, Zenon DEF Move, Same
<1> QED
  BY <1>2, <1>3, Zenon

LEMMA ToolMoves ==
    ASSUME TypeInv, NEW e \in Exec,
           RefuseTool(e) \/ RunTool(e) \/ BeginSend(e) \/ SendPart(e)
    PROVE  Move(e) /\ \A f \in Exec \ {e} : Same(f)
<1>1. UNCHANGED <<run, trace, prompt, messages, step, index, todo, used, result, asked>>
  BY Zenon DEF RefuseTool, RunTool, BeginSend, SendPart, rowVars, startVars, loopVars
<1>2. Unrecorded(e)
  BY <1>1, Zenon DEF Unrecorded
<1>3. ASSUME NEW content, Answer(e, content)
      PROVE  /\ pc'[e] = "record" /\ answer'[e] = content
             /\ \A f \in Exec \ {e} : pc'[f] = pc[f] /\ answer'[f] = answer[f]
  BY <1>3, Zenon DEF Answer, Goto, TypeInv, Points
<1>4. ASSUME Goto(e, "send"), UNCHANGED answer
      PROVE  /\ pc'[e] = "send"
             /\ \A f \in Exec \ {e} : pc'[f] = pc[f] /\ answer'[f] = answer[f]
  BY <1>4, Zenon DEF Goto, TypeInv, Points
<1>5. CASE RefuseTool(e)
  <2>1. pc[e] = "tool" /\ Answer(e, "refused") /\ ran' = ran
    BY <1>5, Zenon DEF RefuseTool
  <2> QED
    BY <1>1, <1>2, <1>3, <2>1, Zenon DEF Move, Tools, Same
<1>6. CASE RunTool(e)
  <2>1. /\ pc[e] = "tool" /\ ran' = Append(ran, Head(todo[e]))
        /\ \E content \in {"ok", "error"} : Answer(e, content)
    BY <1>6, Zenon DEF RunTool, Call
  <2> QED
    BY <1>1, <1>2, <1>3, <2>1, Zenon DEF Move, Tools, Same
<1>7. CASE BeginSend(e)
  <2>1. /\ pc[e] = "tool" /\ ran' = Append(ran, Head(todo[e]))
        /\ Answer(e, "error") \/ (Goto(e, "send") /\ UNCHANGED answer)
    BY <1>7, Zenon DEF BeginSend, Call
  <2> QED
    BY <1>1, <1>2, <1>3, <1>4, <2>1, Zenon DEF Move, Tools, Same
<1>8. CASE SendPart(e)
  <2>1. /\ pc[e] = "send" /\ ran' = ran
        /\ Answer(e, "error") \/ Answer(e, "ok") \/ UNCHANGED <<pc, answer>>
    BY <1>8, Zenon DEF SendPart, PartFails
  <2> QED
    BY <1>1, <1>2, <1>3, <2>1, Zenon DEF Move, Tools, Same
<1> QED
  BY <1>5, <1>6, <1>7, <1>8, Zenon

LEMMA EndMoves ==
    ASSUME TypeInv, NEW e \in Exec, Report(e) \/ Crash(e)
    PROVE  Move(e) /\ \A f \in Exec \ {e} : Same(f)
<1>1. Over(e) /\ UNCHANGED <<trace, index, asked, ran>>
  BY Zenon DEF Report, Crash, rowVars
<1>2. pc'[e] = "done" /\ used'[e] = 0
  BY <1>1, Zenon DEF Over, Goto, TypeInv, Points, Counts
<1>3. \A f \in Exec \ {e} : pc'[f] = pc[f] /\ used'[f] = used[f] /\ result'[f] = result[f]
  BY <1>1, Zenon DEF Over, Goto, TypeInv, Points, Counts
<1>4. CASE Report(e)
  <2>1. UNCHANGED <<prompt, messages, step, todo, answer>> /\ pc[e] = "report"
    BY <1>4, Zenon DEF Report, localVars, startVars, toolVars
  <2>2. \/ run' = run
        \/ run # None /\ run' = [run EXCEPT !.status = result[e], !.tokens = used[e]]
    BY <1>4, Zenon DEF Report, Reported
  <2>3. Ends(e)
    BY <1>1, <1>2, <2>1, <2>2, Zenon DEF Ends
  <2> QED
    BY <1>1, <1>3, <2>1, <2>3, Zenon DEF Move, Same
<1>5. CASE Crash(e)
  <2>1. Forget(e) /\ run' = run /\ pc[e] \notin {"idle", "done"}
    BY <1>5, Zenon DEF Crash, rowVars
  <2>2. Empty(e)
    BY <2>1, Zenon DEF Forget, Empty, TypeInv, Counts, Queues
  <2>3. \A f \in Exec \ {e} : messages'[f] = messages[f] /\ step'[f] = step[f] /\ todo'[f] = todo[f]
    BY <2>1, Zenon DEF Forget, TypeInv, Counts, Queues
  <2>4. \A f \in Exec \ {e} : prompt'[f] = prompt[f] /\ answer'[f] = answer[f]
    BY <2>1, Zenon DEF Forget, TypeInv, Points
  <2>5. pc[e] \in {"context", "render", "report"} \cup Looping
    BY <2>1, Zenon DEF TypeInv, Points, Before
  <2>6. Ends(e)
    BY <1>1, <1>2, <2>1, <2>2, <2>5, Zenon DEF Ends
  <2> QED
    BY <1>1, <1>3, <2>3, <2>4, <2>6, Zenon DEF Move, Same
<1> QED
  BY <1>4, <1>5, Zenon

\* Every step is a move of one execution, or happens elsewhere.
LEMMA NextMoves ==
    ASSUME AgentLoopAssumption, TypeInv, RowInv, [Next]_vars
    PROVE  \/ \E e \in Exec : Move(e) /\ \A f \in Exec \ {e} : Same(f)
           \/ Elsewhere
<1>1. ASSUME NEW e \in Exec, ExecStep(e) \/ Crash(e)
      PROVE  Move(e) /\ \A f \in Exec \ {e} : Same(f)
  BY Zenon, <1>1, StartMoves, BeginStepMoves, ModelRespondsMoves, RecordToolMoves, ToolMoves, EndMoves
     DEF ExecStep
<1>2. CASE UpdateAgent \/ DeleteAgent \/ OtherRunSucceeds \/ UNCHANGED vars
  <2>1. UNCHANGED <<pc, prompt, messages, step, index, todo, used, answer, result, asked, ran>>
    BY <1>2, Zenon DEF UpdateAgent, DeleteAgent, OtherRunSucceeds, vars, startVars, loopVars, toolVars
  <2>2. run' = None \/ (run' = run /\ trace' = trace)
    BY <1>2, Zenon DEF UpdateAgent, DeleteAgent, OtherRunSucceeds, vars, rowVars
  <2> QED
    BY <2>1, <2>2, Zenon DEF Elsewhere, Same
<1> QED
  BY <1>1, <1>2, Zenon DEF Next

\* The runs row keeps its columns.
LEMMA RowStep ==
    ASSUME RowInv, [Next]_vars
    PROVE  RowInv'
<1>1. \/ run' = run
      \/ run' = None
      \/ run # None /\ \E p : run' = [run EXCEPT !.prompt = p]
      \/ run # None /\ \E t, n : run' = [run EXCEPT !.status = t, !.tokens = n]
  <2>1. ASSUME NEW e \in Exec, SetRenderedPrompt(e)
        PROVE  run' = None \/ (run # None /\ \E p : run' = [run EXCEPT !.prompt = p])
    BY <2>1, Zenon DEF SetRenderedPrompt
  <2>2. ASSUME NEW e \in Exec, Report(e)
        PROVE  \/ run' = run
               \/ run # None /\ \E t, n : run' = [run EXCEPT !.status = t, !.tokens = n]
    BY <2>2, Zenon DEF Report, Reported
  <2>3. ASSUME NEW e \in Exec,
               ExecStep(e) \/ Crash(e), ~SetRenderedPrompt(e), ~Report(e)
        PROVE  run' = run
    BY <2>3, ZenonT(30)
       DEF ExecStep, LoadAgent, BuildMessages, StatementFails, BeginStep, ModelResponds, ModelFails,
           RefuseTool, RunTool, BeginSend, SendPart, RecordTool, Crash, rowVars
  <2>4. CASE UpdateAgent \/ DeleteAgent \/ OtherRunSucceeds \/ UNCHANGED vars
    BY <2>4, Zenon DEF UpdateAgent, DeleteAgent, OtherRunSucceeds, vars, rowVars
  <2> QED
    BY <2>1, <2>2, <2>3, <2>4, Zenon DEF Next
<1>2. ASSUME run # None, NEW p, run' = [run EXCEPT !.prompt = p] PROVE RowInv'
  BY <1>2, Zenon DEF RowInv
<1>3. ASSUME run # None, NEW t, NEW n, run' = [run EXCEPT !.status = t, !.tokens = n] PROVE RowInv'
  BY <1>3, Zenon DEF RowInv
<1> QED
  BY <1>1, <1>2, <1>3, Zenon DEF RowInv

-----------------------------------------------------------------------------
(* An execution by itself *)

\* How often it has asked, recorded and spent, wherever it is.
Tally(e) ==
    /\ pc[e] \in Before => index[e] = 0 /\ asked[e] = 0 /\ step[e] = 0
    /\ pc[e] = "model" => asked[e] = step[e]
    /\ pc[e] \in {"asked"} \cup InTool => asked[e] = step[e] + 1 /\ step[e] < MaxSteps
    /\ pc[e] = "asked" => used[e] <= MaxTokens
    /\ pc[e] \in InTool => index[e] > 0
    /\ asked[e] <= MaxSteps
    /\ index[e] = 0 => used[e] = 0 /\ step[e] = 0 /\ asked[e] <= 1
    /\ index[e] > 0 => asked[e] > 0
    /\ \E last \in Usage \cup {0} : used[e] <= MaxTokens + last

\* Its conversation is as long as what it has recorded; between two responses no
\* call is open.
Talk(e) ==
    /\ pc[e] \in Before => messages[e] = <<>>
    /\ pc[e] \in Before \cup {"model", "asked"} => todo[e] = <<>>
    /\ pc[e] \in Looping => Len(messages[e]) = index[e]

LocalInv == \A e \in Exec : Tally(e) /\ Talk(e)

LEMMA TallyMove ==
    ASSUME AgentLoopAssumption, TypeInv, NEW e \in Exec, Tally(e), Move(e)
    PROVE  Tally(e)'
<1>1. /\ index[e] \in Nat /\ step[e] \in Nat /\ used[e] \in Nat /\ asked[e] \in Nat
      /\ MaxSteps \in Nat \ {0} /\ MaxTokens \in Nat
  BY ConstantTypes, Zenon DEF TypeInv, Counts
<1>2. PICK last \in Usage \cup {0} : used[e] <= MaxTokens + last
  BY Zenon DEF Tally
<1>3. last \in Nat /\ 0 <= MaxTokens + 0 /\ 0 \in Usage \cup {0}
  <2>1. Usage \subseteq Nat
    BY ConstantTypes, Zenon
  <2> QED
    BY <1>1, <2>1
<1>4. CASE Starts(e)
  BY <1>1, <1>2, <1>4, Zenon DEF Tally, Starts, Unrecorded, Before, InTool
<1>5. CASE Fails(e)
  BY <1>1, <1>3, <1>5, Zenon DEF Tally, Fails, Unrecorded, Empty, Before, InTool
<1>6. CASE Stops(e)
  BY <1>1, <1>2, <1>6, Zenon DEF Tally, Stops, Unrecorded, Empty, Before, InTool
<1>7. CASE Asks(e)
  BY <1>1, <1>2, <1>7, SMTT(20) DEF Tally, Asks, Unrecorded, Before, InTool
<1>8. ASSUME NEW tokens \in Usage, Responds(e, tokens)
      PROVE  /\ \E l \in Usage \cup {0} : used'[e] <= MaxTokens + l
             /\ index'[e] > 0 /\ asked'[e] > 0 /\ asked'[e] <= MaxSteps
             /\ step[e] < MaxSteps /\ asked'[e] = step[e] + 1
  <2>1. tokens \in Nat
    BY ConstantTypes, Zenon
  <2>2. used'[e] <= MaxTokens + tokens
    BY <1>1, <1>8, <2>1 DEF Tally, Responds
  <2>3. index'[e] = index[e] + 1 /\ asked'[e] = asked[e] /\ pc[e] = "asked"
    BY <1>8, Zenon DEF Responds, Recorded
  <2>4. asked[e] = step[e] + 1 /\ step[e] < MaxSteps
    BY <2>3, Zenon DEF Tally
  <2> QED
    BY <1>1, <2>2, <2>3, <2>4
<1>9. CASE Succeeds(e)
  <2>1. PICK tokens \in Usage : Responds(e, tokens)
    BY <1>9, Zenon DEF Succeeds
  <2>2. pc'[e] = "report"
    BY <1>9, Zenon DEF Succeeds
  <2> QED
    BY <1>8, <2>1, <2>2 DEF Tally, Before, InTool
<1>10. ASSUME NEW calls, CallsTools(e, calls) PROVE Tally(e)'
  <2>1. PICK tokens \in Usage : Responds(e, tokens)
    BY <1>10, Zenon DEF CallsTools
  <2>2. pc'[e] = "tool" /\ step'[e] = step[e]
    BY <1>10, Zenon DEF CallsTools
  <2> QED
    BY <1>8, <2>1, <2>2 DEF Tally, Before, InTool
<1>11. CASE Tools(e)
  BY <1>1, <1>2, <1>11, Zenon DEF Tally, Tools, Unrecorded, Before, InTool
<1>12. CASE Tells(e)
  BY <1>1, <1>2, <1>12 DEF Tally, Tells, Recorded, Before, InTool
<1>13. CASE Ends(e)
  BY <1>1, <1>3, <1>13, Zenon DEF Tally, Ends, Empty, Before, InTool
<1> QED
  BY <1>4, <1>5, <1>6, <1>7, <1>9, <1>10, <1>11, <1>12, <1>13, Zenon DEF Move

LEMMA Appended ==
    ASSUME NEW S, NEW s \in Seq(S), NEW x \in S
    PROVE  Len(Append(s, x)) = Len(s) + 1
OBVIOUS

LEMMA TalkMove ==
    ASSUME TypeInv, NEW e \in Exec, Tally(e), Talk(e), Move(e)
    PROVE  Talk(e)'
<1>1. index[e] \in Nat /\ messages[e] \in Seq(Message) /\ todo[e] \in Seq(AllCalls)
  BY Zenon DEF TypeInv, Counts, Queues
<1>2. pc[e] = "record" => todo[e] # <<>> /\ answer[e] \in Contents
  BY Zenon DEF TypeInv, InCall, InTool
<1>3. Len(<<>>) = 0
  BY Zenon
<1>4. CASE Starts(e)
  BY <1>1, <1>3, <1>4, Zenon DEF Talk, Tally, Starts, Unrecorded, Before, Looping, InTool
<1>5. CASE Fails(e) \/ Stops(e) \/ Succeeds(e) \/ Ends(e)
  BY <1>5, Zenon DEF Talk, Fails, Stops, Succeeds, Ends, Before, Looping, InTool
<1>6. CASE Asks(e)
  BY <1>6, Zenon DEF Talk, Asks, Unrecorded, Before, Looping, InTool
<1>7. ASSUME NEW calls \in Calls, CallsTools(e, calls) PROVE Talk(e)'
  <2>1. AssistantMessage(calls) \in Message
    BY DEF Message
  <2>2. Len(Append(messages[e], AssistantMessage(calls))) = Len(messages[e]) + 1
    BY <1>1, <2>1, Appended, Zenon
  <2>3. /\ messages'[e] = Append(messages[e], AssistantMessage(calls))
        /\ index'[e] = index[e] + 1 /\ pc'[e] = "tool" /\ pc[e] = "asked"
    BY <1>7, Zenon DEF CallsTools, Responds, Recorded
  <2>4. Len(messages[e]) = index[e]
    BY <2>3, Zenon DEF Talk, Looping
  <2> QED
    BY <2>2, <2>3, <2>4, Zenon DEF Talk, Before
<1>8. CASE Tools(e)
  BY <1>8, Zenon DEF Talk, Tools, Unrecorded, Before, Looping, InTool
<1>9. CASE Tells(e)
  <2>1. Head(todo[e]) \in AllCalls /\ (Len(todo[e]) = 1 => Tail(todo[e]) = <<>>)
    BY <1>1, <1>2, <1>9, TailOf, Zenon DEF Tells
  <2>2. ToolMessage(Head(todo[e]).id, answer[e]) \in Message
    BY <1>2, <1>9, <2>1, ToolMessageType, Zenon DEF Tells
  <2>3. Len(messages'[e]) = Len(messages[e]) + 1
    BY <1>1, <1>9, <2>2, Appended DEF Tells
  <2>4. Len(messages[e]) = index[e] /\ index'[e] = index[e] + 1
    BY <1>9, Zenon DEF Talk, Tells, Recorded, Looping, InTool
  <2>5. \/ pc'[e] = "tool"
        \/ pc'[e] = "model" /\ todo'[e] = <<>>
    BY <1>9, <2>1, Zenon DEF Tells
  <2> QED
    BY <2>3, <2>4, <2>5, Zenon DEF Talk, Before
<1> QED
  BY <1>4, <1>5, <1>6, <1>7, <1>8, <1>9, Zenon DEF Move

LEMMA LocalStep ==
    ASSUME AgentLoopAssumption, TypeInv, RowInv, LocalInv, [Next]_vars
    PROVE  LocalInv'
<1>1. ASSUME NEW f \in Exec, Same(f) PROVE (Tally(f) /\ Talk(f))'
  BY <1>1, Zenon DEF LocalInv, Same, Tally, Talk
<1>2. ASSUME NEW e \in Exec, Move(e) PROVE (Tally(e) /\ Talk(e))'
  BY <1>2, TallyMove, TalkMove, Zenon DEF LocalInv
<1> QED
  BY <1>1, <1>2, NextMoves, Zenon DEF LocalInv, Elsewhere

-----------------------------------------------------------------------------
(* Who writes the trace *)

\* One execution at most has recorded a step, and the stored trace is what that
\* execution recorded: a step only gets in under a free index.
WriterInv ==
    /\ \A e, f \in Exec : index[e] > 0 /\ index[f] > 0 => e = f
    /\ run # None =>
         /\ \A e \in Exec : index[e] > 0 => DOMAIN trace = 0 .. index[e] - 1
         /\ (\A e \in Exec : index[e] = 0) => DOMAIN trace = {}

\* The execution that records is that one, and its step comes after the others.
LEMMA WriterRecords ==
    ASSUME TypeInv, WriterInv, NEW e \in Exec, NEW s, Recorded(e, s)
    PROVE  /\ index[e] \in Nat
           /\ \A f \in Exec \ {e} : index[f] = 0
           /\ DOMAIN trace = 0 .. index[e] - 1
           /\ DOMAIN trace' = 0 .. index[e]
           /\ \A i \in 0 .. index[e] - 1 : trace'[i] = trace[i]
           /\ trace'[index[e]] = s
<1>1. /\ index[e] \in Nat /\ \A f \in Exec : index[f] \in Nat
      /\ run # None /\ index[e] \notin DOMAIN trace
  BY Zenon DEF TypeInv, Counts, Recorded
<1>2. ASSUME NEW f \in Exec \ {e}, index[f] > 0 PROVE FALSE
  <2>1. DOMAIN trace = 0 .. index[f] - 1 /\ index[e] = 0
    BY <1>1, <1>2 DEF WriterInv
  <2> QED
    BY <1>1, <1>2, <2>1
<1>3. \A f \in Exec \ {e} : index[f] = 0
  BY <1>1, <1>2
<1>4. DOMAIN trace = 0 .. index[e] - 1
  <2>1. CASE index[e] > 0
    BY <1>1, <2>1, Zenon DEF WriterInv
  <2>2. CASE index[e] = 0
    <3>1. DOMAIN trace = {}
      BY <1>1, <1>3, <2>2, Zenon DEF WriterInv
    <3> QED
      BY <2>2, <3>1
  <2> QED
    BY <1>1, <2>1, <2>2
<1>5. trace' = [i \in DOMAIN trace \cup {index[e]} |-> IF i = index[e] THEN s ELSE trace[i]]
  BY Zenon DEF Recorded
<1>6. DOMAIN trace \cup {index[e]} = 0 .. index[e]
  BY <1>1, <1>4
<1>7. trace' = [i \in 0 .. index[e] |-> IF i = index[e] THEN s ELSE trace[i]]
  BY <1>5, <1>6, Zenon
<1> QED
  BY <1>1, <1>3, <1>4, <1>7, SMTT(20)

\* A move stores nothing, or one step.
LEMMA MoveRecords ==
    ASSUME NEW e \in Exec, Move(e)
    PROVE  \/ trace' = trace /\ index'[e] = index[e] /\ (run' # None => run # None)
           \/ \E s : Recorded(e, s)
BY Zenon DEF Move, Starts, Fails, Stops, Asks, Succeeds, CallsTools, Responds, Tools, Tells, Ends,
                Unrecorded

LEMMA WriterStep ==
    ASSUME AgentLoopAssumption, TypeInv, TypeInv', RowInv, WriterInv, [Next]_vars
    PROVE  WriterInv'
<1>1. \A f \in Exec : index[f] \in Nat /\ index'[f] \in Nat
  BY Zenon DEF TypeInv, Counts
<1>2. ASSUME \A f \in Exec : index'[f] = index[f], run' # None => run # None /\ trace' = trace
      PROVE  WriterInv'
  BY <1>1, <1>2, Zenon DEF WriterInv
<1>3. ASSUME NEW e \in Exec, NEW s, Recorded(e, s), \A f \in Exec \ {e} : index'[f] = index[f]
      PROVE  WriterInv'
  <2>1. /\ index'[e] = index[e] + 1 /\ index[e] \in Nat
        /\ \A f \in Exec \ {e} : index'[f] = 0
        /\ DOMAIN trace' = 0 .. index[e]
    <3>1. index[e] \in Nat /\ DOMAIN trace' = 0 .. index[e] /\ \A f \in Exec \ {e} : index[f] = 0
      BY <1>3, WriterRecords, Zenon
    <3>2. index'[e] = index[e] + 1
      BY <1>3, Zenon DEF Recorded
    <3> QED
      BY <1>3, <3>1, <3>2, Zenon
  <2>2. DOMAIN trace' = 0 .. index'[e] - 1 /\ index'[e] > 0
    BY <2>1
  <2>3. \A f \in Exec : index'[f] > 0 => f = e
    BY <2>1
  <2> QED
    BY <2>2, <2>3 DEF WriterInv
<1>4. CASE Elsewhere
  BY <1>2, <1>4, Zenon DEF Elsewhere, Same
<1>5. ASSUME NEW e \in Exec, Move(e), \A f \in Exec \ {e} : Same(f) PROVE WriterInv'
  <2>1. \A f \in Exec \ {e} : index'[f] = index[f]
    BY <1>5, Zenon DEF Same
  <2> QED
    BY <1>2, <1>3, <1>5, <2>1, MoveRecords, Zenon
<1> QED
  BY <1>4, <1>5, NextMoves, Zenon

-----------------------------------------------------------------------------
(* The budget *)

CoreInv == TypeInv /\ RowInv /\ LocalInv /\ WriterInv

LEMMA InitCore ==
    ASSUME AgentLoopAssumption, Init
    PROVE  CoreInv
<1>1. <<>> \in Seq(AllCalls) /\ <<>> \in Seq(Message) /\ Len(<<>>) = 0
  OBVIOUS
<1>2. Counts
  BY Zenon DEF Init, Counts
<1>3. Queues
  BY <1>1, Zenon DEF Init, Queues
<1>4. Points
  BY Zenon DEF Init, Points, Before
<1>5. InCall
  BY Zenon DEF Init, InCall, InTool
<1>6. RowInv
  BY Zenon DEF Init, RowInv
<1>7. ASSUME NEW e \in Exec PROVE Tally(e)
  <2>1. /\ pc[e] = "idle" /\ index[e] = 0 /\ step[e] = 0 /\ used[e] = 0 /\ asked[e] = 0
    BY Zenon DEF Init
  <2>2. 0 \in Usage \cup {0} /\ 0 <= MaxTokens + 0 /\ 0 <= MaxSteps
    BY ConstantTypes
  <2> QED
    BY <2>1, <2>2 DEF Tally, Before, InTool
<1>8. ASSUME NEW e \in Exec PROVE Talk(e)
  BY Zenon DEF Init, Talk, Looping, InTool
<1>9. WriterInv
  BY DEF Init, WriterInv
<1> QED
  BY <1>2, <1>3, <1>4, <1>5, <1>6, <1>7, <1>8, <1>9, Zenon DEF CoreInv, TypeInv, LocalInv

LEMMA CoreStep ==
    ASSUME AgentLoopAssumption, CoreInv, [Next]_vars
    PROVE  CoreInv'
BY TypeStep, RowStep, LocalStep, WriterStep, Zenon DEF CoreInv

LEMMA CoreInvariant == Spec => []CoreInv
<1>1. Init => CoreInv
  BY InitCore, AgentLoopAssumption, Zenon
<1>2. CoreInv /\ [Next]_vars => CoreInv'
  BY CoreStep, AgentLoopAssumption, Zenon
<1> QED
  BY <1>1, <1>2, PTL DEF Spec

\* "It cannot run away": whatever the model answers and however often the run was
\* delivered, Execute calls the model max_steps times at most, only one execution
\* calls it more than once, and none spends more than max_tokens and one response.
THEOREM AgentLoopWithinBudget == Spec => []WithinBudget
<1>1. CoreInv => WithinBudget
  <2> SUFFICES ASSUME CoreInv PROVE WithinBudget
    BY Zenon
  <2>1. ASSUME NEW e \in Exec
        PROVE  /\ asked[e] <= MaxSteps /\ asked[e] \in Nat
               /\ asked[e] > 1 => index[e] > 0
               /\ \E last \in Usage \cup {0} : used[e] <= MaxTokens + last
    <3>1. Tally(e) /\ index[e] \in Nat /\ asked[e] \in Nat
      BY Zenon DEF CoreInv, LocalInv, TypeInv, Counts
    <3> QED
      BY <3>1 DEF Tally
  <2>2. \A e, f \in Exec : index[e] > 0 /\ index[f] > 0 => e = f
    BY Zenon DEF CoreInv, WriterInv
  <2> QED
    BY <2>1, <2>2, Zenon DEF WithinBudget
<1> QED
  BY <1>1, CoreInvariant, PTL

-----------------------------------------------------------------------------
(* What the model was told, and what the trace says of it *)

\* The prompt that is stored is the one of this execution, or another execution
\* got as far as storing its own.
PromptInv ==
    \A e \in Exec : run # None /\ pc[e] \in Looping =>
        run.prompt = prompt[e] \/ \E f \in Exec \ {e} : pc[f] \notin Before

LEMMA PromptMove ==
    ASSUME PromptInv, RowInv, NEW e \in Exec, Move(e), \A f \in Exec \ {e} : Same(f), run' # None
    PROVE  PromptInv'
<1>1. \/ pc'[e] \notin Before
      \/ pc[e] \in Before /\ pc'[e] \notin Looping /\ run' = run
  <2>1. CASE Starts(e)
    BY <2>1, Zenon DEF Starts, Before, Looping, InTool
  <2>2. CASE ~Starts(e)
    BY <2>2, Zenon DEF Move, Fails, Stops, Asks, Succeeds, CallsTools, Tools, Tells, Ends, Before
  <2> QED
    BY <2>1, <2>2, Zenon
<1>2. ASSUME pc'[e] \in Looping
      PROVE  \/ run'.prompt = prompt'[e]
             \/ pc[e] \in Looping /\ run' = run /\ prompt'[e] = prompt[e]
  <2>1. CASE Starts(e)
    BY <1>2, <2>1, Zenon DEF Starts, Looping, InTool
  <2>2. CASE Fails(e) \/ Stops(e) \/ Succeeds(e) \/ Ends(e)
    BY <1>2, <2>2, Zenon DEF Fails, Stops, Succeeds, Ends, Looping, InTool
  <2>3. CASE Asks(e) \/ Tools(e) \/ Tells(e)
    BY <2>3, Zenon DEF Asks, Tools, Tells, Recorded, Looping, InTool
  <2>4. CASE \E calls \in Calls \ {<<>>} : CallsTools(e, calls)
    BY <2>4, Zenon DEF CallsTools, Responds, Recorded, Looping
  <2> QED
    BY <2>1, <2>2, <2>3, <2>4, Zenon DEF Move
<1>3. ASSUME NEW f \in Exec \ {e}, pc'[f] \in Looping
      PROVE  run'.prompt = prompt'[f] \/ \E g \in Exec \ {f} : pc'[g] \notin Before
  <2>1. CASE pc'[e] \notin Before
    BY <2>1, Zenon
  <2>2. CASE pc[e] \in Before /\ run' = run
    <3>1. pc[f] \in Looping /\ prompt'[f] = prompt[f] /\ run # None
      BY <1>3, <2>2, Zenon DEF Same
    <3>2. CASE run.prompt = prompt[f]
      BY <2>2, <3>1, <3>2, Zenon
    <3>3. ASSUME NEW g \in Exec \ {f}, pc[g] \notin Before
          PROVE  g # e /\ pc'[g] \notin Before
      BY <2>2, <3>3, Zenon DEF Same
    <3> QED
      BY <3>1, <3>2, <3>3, Zenon DEF PromptInv
  <2> QED
    BY <1>1, <2>1, <2>2, Zenon
<1>4. ASSUME pc'[e] \in Looping
      PROVE  run'.prompt = prompt'[e] \/ \E g \in Exec \ {e} : pc'[g] \notin Before
  <2>1. CASE pc[e] \in Looping /\ run' = run /\ prompt'[e] = prompt[e]
    <3>1. run.prompt = prompt[e] \/ \E g \in Exec \ {e} : pc[g] \notin Before
      BY <2>1, Zenon DEF PromptInv
    <3>2. \A g \in Exec \ {e} : pc'[g] = pc[g]
      BY Zenon DEF Same
    <3> QED
      BY <2>1, <3>1, <3>2, Zenon
  <2> QED
    BY <1>2, <1>4, <2>1, Zenon
<1> QED
  BY <1>3, <1>4, Zenon DEF PromptInv

\* The steps tr up to n and the messages msgs agree on response i: the steps up to
\* last are those of its calls, in order, and answered them; open are the others.
Agree(tr, msgs, open, n, i, last) ==
    /\ last \in i + 1 .. n
    /\ \A k \in i + 1 .. last - 1 : tr[k].kind = "tool_call"
    /\ last = n \/ (tr[last].kind = "model_call" /\ open = <<>>)
    /\ msgs[i + 1].role = "assistant"
    /\ msgs[i + 1].calls \in Calls
    /\ Len(msgs[i + 1].calls) = last - i - 1 + Len(open)
    /\ \A k \in 1 .. last - i - 1 :
         /\ msgs[i + 1].calls[k].tool = tr[i + k].tool
         /\ msgs[i + 1].calls[k].text = tr[i + k].text
         /\ msgs[i + k + 1] = ToolMessage(msgs[i + 1].calls[k].id, tr[i + k].content)
    /\ \A k \in 1 .. Len(open) : msgs[i + 1].calls[last - i - 1 + k] = open[k]

\* Every response is accounted for, the last one with the calls still to be made.
Accounts(tr, msgs, open, n) ==
    \A i \in 0 .. n - 1 : tr[i].kind = "model_call" =>
        \E last \in i + 1 .. n : Agree(tr, msgs, IF last = n THEN open ELSE <<>>, n, i, last)

\* A step s is added, and what the model is told of it.
Longer(tr, tr1, msgs, msgs1, n, s, m) ==
    /\ n \in Nat /\ tr1[n] = s /\ \A i \in 0 .. n - 1 : tr1[i] = tr[i]
    /\ msgs1[n + 1] = m /\ \A i \in 1 .. n : msgs1[i] = msgs[i]

\* What was answered before stays so.
LEMMA AgreeLonger ==
    ASSUME NEW tr, NEW tr1, NEW msgs, NEW msgs1, NEW n, NEW s, NEW m,
           Longer(tr, tr1, msgs, msgs1, n, s, m),
           NEW i \in 0 .. n - 1, NEW last, Agree(tr, msgs, <<>>, n, i, last),
           last = n => s.kind = "model_call"
    PROVE  Agree(tr1, msgs1, <<>>, n + 1, i, last)
<1>1. n \in Nat /\ i \in Nat /\ last \in Nat /\ i + 1 <= last /\ last <= n
  BY DEF Longer, Agree
<1>2. last \in i + 1 .. n + 1 /\ i + 1 \in 1 .. n
  BY <1>1
<1>3. msgs1[i + 1] = msgs[i + 1]
  BY <1>2, Zenon DEF Longer
<1>4. ASSUME NEW k \in i + 1 .. last - 1 PROVE tr1[k].kind = "tool_call"
  <2>1. k \in 0 .. n - 1
    BY <1>1
  <2> QED
    BY <2>1, Zenon DEF Longer, Agree
<1>5. tr1[last].kind = "model_call"
  <2>1. last = n \/ last \in 0 .. n - 1
    BY <1>1
  <2> QED
    BY <2>1, Zenon DEF Longer, Agree
<1>6. ASSUME NEW k \in 1 .. last - i - 1
      PROVE  tr1[i + k] = tr[i + k] /\ msgs1[i + k + 1] = msgs[i + k + 1]
  <2>1. i + k \in 0 .. n - 1 /\ i + k + 1 \in 1 .. n
    BY <1>1
  <2> QED
    BY <2>1, Zenon DEF Longer
<1> QED
  BY <1>2, <1>3, <1>4, <1>5, <1>6, Zenon DEF Agree

\* A response is recorded.
LEMMA AccountsResponse ==
    ASSUME NEW tr, NEW tr1, NEW msgs, NEW msgs1, NEW n, NEW s, NEW calls \in Calls,
           Calls \subseteq Seq(AllCalls),
           Longer(tr, tr1, msgs, msgs1, n, s, AssistantMessage(calls)), s.kind = "model_call",
           Accounts(tr, msgs, <<>>, n)
    PROVE  Accounts(tr1, msgs1, calls, n + 1)
<1>1. n \in Nat /\ calls \in Seq(AllCalls) /\ Len(calls) \in Nat
  BY DEF Longer
<1>2. ASSUME NEW i \in 0 .. n - 1, tr1[i].kind = "model_call"
      PROVE  \E last \in i + 1 .. n + 1 :
                 Agree(tr1, msgs1, IF last = n + 1 THEN calls ELSE <<>>, n + 1, i, last)
  <2>1. tr[i].kind = "model_call"
    BY <1>2, Zenon DEF Longer
  <2>2. PICK last \in i + 1 .. n : Agree(tr, msgs, IF last = n THEN <<>> ELSE <<>>, n, i, last)
    BY <2>1, Zenon DEF Accounts
  <2>3. Agree(tr1, msgs1, <<>>, n + 1, i, last)
    BY <2>2, AgreeLonger, Zenon
  <2>4. last \in i + 1 .. n + 1 /\ last # n + 1
    BY <1>1, <2>2
  <2> QED
    BY <2>3, <2>4, Zenon
<1>3. Agree(tr1, msgs1, calls, n + 1, n, n + 1)
  <2>1. msgs1[n + 1].role = "assistant" /\ msgs1[n + 1].calls = calls
    BY DEF Longer, AssistantMessage
  <2>2. n + 1 \in n + 1 .. n + 1 /\ (n + 1) - n - 1 = 0
    BY <1>1
  <2>3. \A k \in 1 .. Len(calls) : 0 + k = k
    BY <1>1
  <2>4. \A k \in n + 1 .. (n + 1) - 1 : FALSE
    BY <1>1
  <2> QED
    BY <1>1, <2>1, <2>2, <2>3, <2>4 DEF Agree
<1>4. \A i \in 0 .. (n + 1) - 1 : i \in 0 .. n - 1 \/ i = n
  BY <1>1
<1>5. n + 1 \in n + 1 .. n + 1
  BY <1>1
<1> QED
  BY <1>2, <1>3, <1>4, <1>5, Zenon DEF Accounts

\* The answer to the first open call is recorded.
LEMMA AccountsAnswer ==
    ASSUME NEW tr, NEW tr1, NEW msgs, NEW msgs1, NEW n, NEW open \in Seq(AllCalls), open # <<>>,
           NEW content, Calls \subseteq Seq(AllCalls),
           Longer(tr, tr1, msgs, msgs1, n, ToolStep(Head(open), content),
                  ToolMessage(Head(open).id, content)),
           Accounts(tr, msgs, open, n)
    PROVE  Accounts(tr1, msgs1, Tail(open), n + 1)
<1> DEFINE s == ToolStep(Head(open), content)
           m == ToolMessage(Head(open).id, content)
<1>1. /\ n \in Nat /\ Tail(open) \in Seq(AllCalls) /\ Head(open) = open[1]
      /\ Len(open) \in Nat \ {0} /\ Len(Tail(open)) = Len(open) - 1
      /\ \A k \in 1 .. Len(open) - 1 : Tail(open)[k] = open[k + 1]
  BY TailOf, Zenon DEF Longer
<1>2. /\ s.kind = "tool_call" /\ s.kind # "model_call" /\ s.tool = open[1].tool
      /\ s.text = open[1].text /\ s.content = content /\ m = ToolMessage(open[1].id, content)
  BY <1>1, Zenon DEF ToolStep
<1>3. Longer(tr, tr1, msgs, msgs1, n, s, m)
  BY Zenon
<1> HIDE DEF s, m
<1>4. tr1[n] = s /\ msgs1[n + 1] = m
  BY <1>3, Zenon DEF Longer
<1>5. ASSUME NEW i \in 0 .. n - 1, Agree(tr, msgs, open, n, i, n)
      PROVE  Agree(tr1, msgs1, Tail(open), n + 1, i, n + 1)
  <2>1. i \in Nat /\ n + 1 \in i + 1 .. n + 1 /\ i + 1 \in 1 .. n /\ i <= n - 1
    BY <1>1
  <2>2. msgs1[i + 1] = msgs[i + 1]
    BY <1>3, <2>1, Zenon DEF Longer
  <2> DEFINE calls == msgs[i + 1].calls
  <2>3. /\ msgs1[i + 1].role = "assistant" /\ msgs1[i + 1].calls = calls /\ calls \in Calls
        /\ Len(calls) = n - i - 1 + Len(open)
        /\ \A k \in 1 .. Len(open) : calls[n - i - 1 + k] = open[k]
    BY <1>5, <2>2, Zenon DEF Agree
  <2>4. ASSUME NEW k \in i + 1 .. (n + 1) - 1 PROVE tr1[k].kind = "tool_call"
    <3>1. CASE k = n
      BY <1>2, <1>4, <3>1, Zenon
    <3>2. CASE k # n
      <4>1. k \in i + 1 .. n - 1 /\ k \in 0 .. n - 1
        BY <1>1, <2>1, <3>2
      <4> QED
        BY <1>3, <1>5, <4>1, Zenon DEF Longer, Agree
    <3> QED
      BY <3>1, <3>2, Zenon
  <2> HIDE DEF calls
  <2>5. ASSUME NEW k \in 1 .. (n + 1) - i - 1
        PROVE  /\ calls[k].tool = tr1[i + k].tool
               /\ calls[k].text = tr1[i + k].text
               /\ msgs1[i + k + 1] = ToolMessage(calls[k].id, tr1[i + k].content)
    <3>1. CASE k = n - i
      <4>1. i + k = n /\ i + k + 1 = n + 1 /\ k = n - i - 1 + 1 /\ 1 \in 1 .. Len(open)
        BY <1>1, <2>1, <3>1
      <4>2. calls[k] = open[1]
        BY <2>3, <4>1, Zenon
      <4> QED
        BY <1>2, <1>4, <4>1, <4>2, Zenon
    <3>2. CASE k # n - i
      <4>1. k \in 1 .. n - i - 1 /\ i + k \in 0 .. n - 1 /\ i + k + 1 \in 1 .. n
        BY <1>1, <2>1, <3>2
      <4>2. tr1[i + k] = tr[i + k] /\ msgs1[i + k + 1] = msgs[i + k + 1]
        BY <1>3, <4>1, Zenon DEF Longer
      <4> QED
        BY <1>5, <4>1, <4>2, Zenon DEF Agree, calls
    <3> QED
      BY <3>1, <3>2, Zenon
  <2>6. ASSUME NEW k \in 1 .. Len(Tail(open))
        PROVE  calls[(n + 1) - i - 1 + k] = Tail(open)[k]
    <3>1. /\ k \in 1 .. Len(open) - 1 /\ k + 1 \in 1 .. Len(open)
          /\ (n + 1) - i - 1 + k = n - i - 1 + (k + 1)
      BY <1>1, <2>1
    <3> QED
      BY <1>1, <2>3, <3>1, Zenon
  <2>7. Len(calls) = (n + 1) - i - 1 + Len(Tail(open))
    BY <1>1, <2>1, <2>3
  <2> QED
    BY <2>1, <2>3, <2>4, <2>5, <2>6, <2>7, Zenon DEF Agree
<1>6. ASSUME NEW i \in 0 .. n - 1, tr1[i].kind = "model_call"
      PROVE  \E last \in i + 1 .. n + 1 :
                 Agree(tr1, msgs1, IF last = n + 1 THEN Tail(open) ELSE <<>>, n + 1, i, last)
  <2>1. tr[i].kind = "model_call"
    BY <1>3, <1>6, Zenon DEF Longer
  <2>2. PICK last \in i + 1 .. n : Agree(tr, msgs, IF last = n THEN open ELSE <<>>, n, i, last)
    BY <2>1, Zenon DEF Accounts
  <2>3. CASE last = n
    <3>1. n + 1 \in i + 1 .. n + 1 /\ Agree(tr1, msgs1, Tail(open), n + 1, i, n + 1)
      BY <1>1, <1>5, <2>2, <2>3
    <3> QED
      BY <3>1, Zenon
  <2>4. CASE last # n
    <3>1. Agree(tr1, msgs1, <<>>, n + 1, i, last)
      BY <1>3, <2>2, <2>4, AgreeLonger, Zenon
    <3>2. last \in i + 1 .. n + 1 /\ last # n + 1
      BY <1>1, <2>2
    <3> QED
      BY <3>1, <3>2, Zenon
  <2> QED
    BY <2>3, <2>4, Zenon
<1>7. tr1[n].kind # "model_call"
  BY <1>2, <1>4, Zenon
<1>8. \A i \in 0 .. (n + 1) - 1 : i \in 0 .. n - 1 \/ i = n
  BY <1>1
<1> QED
  BY <1>6, <1>7, <1>8, Zenon DEF Accounts

ConvInv ==
    run # None => \A e \in Exec :
        pc[e] \in Looping => Accounts(trace, messages[e], todo[e], index[e])

LEMMA AccountsEmpty ==
    ASSUME NEW tr, NEW msgs, NEW open
    PROVE  Accounts(tr, msgs, open, 0)
BY DEF Accounts

LEMMA RecordedLonger ==
    ASSUME TypeInv, WriterInv, NEW e \in Exec, NEW s, Recorded(e, s), NEW m \in Message,
           messages'[e] = Append(messages[e], m), Len(messages[e]) = index[e]
    PROVE  Longer(trace, trace', messages[e], messages'[e], index[e], s, m)
<1>1. messages[e] \in Seq(Message) /\ index[e] \in Nat
  BY Zenon DEF TypeInv, Queues, Counts
<1>2. \A msgs \in Seq(Message) : /\ Append(msgs, m)[Len(msgs) + 1] = m
                                 /\ \A i \in 1 .. Len(msgs) : Append(msgs, m)[i] = msgs[i]
  OBVIOUS
<1>3. messages'[e][index[e] + 1] = m /\ \A i \in 1 .. index[e] : messages'[e][i] = messages[e][i]
  BY <1>1, <1>2, Zenon
<1> QED
  BY <1>1, <1>3, WriterRecords, Zenon DEF Longer

LEMMA ConvMove ==
    ASSUME AgentLoopAssumption, TypeInv, LocalInv, WriterInv, ConvInv, NEW e \in Exec, Move(e),
           \A f \in Exec \ {e} : Same(f), run' # None
    PROVE  ConvInv'
<1>1. run # None /\ Tally(e) /\ Talk(e) /\ (trace' = trace \/ \E s : Recorded(e, s))
  BY MoveRecords, Zenon DEF Recorded, LocalInv
<1>2. Calls \subseteq Seq(AllCalls)
  BY ConstantTypes, Zenon
<1>3. ASSUME NEW f \in Exec \ {e}, pc'[f] \in Looping
      PROVE  Accounts(trace', messages'[f], todo'[f], index'[f])
  <2>1. CASE trace' = trace
    <3>1. /\ pc[f] \in Looping /\ messages'[f] = messages[f] /\ todo'[f] = todo[f]
          /\ index'[f] = index[f]
      BY <1>3, Zenon DEF Same
    <3> QED
      BY <1>1, <2>1, <3>1, Zenon DEF ConvInv
  <2>2. ASSUME NEW s, Recorded(e, s) PROVE index'[f] = 0
    BY <2>2, WriterRecords, Zenon DEF Same
  <2> QED
    BY <1>1, <2>1, <2>2, AccountsEmpty, Zenon
<1> SUFFICES ASSUME pc'[e] \in Looping PROVE Accounts(trace', messages'[e], todo'[e], index'[e])
  BY <1>3, Zenon DEF ConvInv
<1>4. CASE Starts(e)
  <2>1. index'[e] = 0
    BY <1>1, <1>4, Zenon DEF Starts, Unrecorded, Tally
  <2> QED
    BY <2>1, AccountsEmpty, Zenon
<1>5. CASE Fails(e) \/ Stops(e) \/ Succeeds(e) \/ Ends(e)
  BY <1>5, Zenon DEF Fails, Stops, Succeeds, Ends, Looping, InTool
<1>6. CASE Asks(e) \/ Tools(e)
  <2>1. /\ trace' = trace /\ index'[e] = index[e] /\ messages'[e] = messages[e]
        /\ todo'[e] = todo[e] /\ pc[e] \in Looping
    BY <1>6, Zenon DEF Asks, Tools, Unrecorded, Looping, InTool
  <2> QED
    BY <1>1, <2>1, Zenon DEF ConvInv
<1>7. ASSUME NEW calls \in Calls, CallsTools(e, calls)
      PROVE  Accounts(trace', messages'[e], todo'[e], index'[e])
  <2>1. PICK tokens : Responds(e, tokens)
    BY <1>7, Zenon DEF CallsTools
  <2>2. Recorded(e, ModelStep(tokens)) /\ pc[e] = "asked" /\ index'[e] = index[e] + 1
    BY <2>1, Zenon DEF Responds, Recorded
  <2>3. todo[e] = <<>> /\ Len(messages[e]) = index[e] /\ pc[e] \in Looping
    BY <1>1, <2>2, Zenon DEF Talk, Looping
  <2>4. todo'[e] = calls /\ messages'[e] = Append(messages[e], AssistantMessage(calls))
    BY <1>7, Zenon DEF CallsTools
  <2>5. AssistantMessage(calls) \in Message
    BY DEF Message
  <2>6. Longer(trace, trace', messages[e], messages'[e], index[e], ModelStep(tokens), AssistantMessage(calls))
    BY <2>2, <2>3, <2>4, <2>5, RecordedLonger, Zenon
  <2>7. Accounts(trace, messages[e], <<>>, index[e])
    BY <1>1, <2>3, Zenon DEF ConvInv
  <2>8. ModelStep(tokens).kind = "model_call"
    BY Zenon DEF ModelStep
  <2>9. Accounts(trace', messages'[e], calls, index[e] + 1)
    BY <1>2, <2>6, <2>7, <2>8, AccountsResponse, Zenon
  <2> QED
    BY <2>2, <2>4, <2>9, Zenon
<1>8. CASE Tells(e)
  <2>1. /\ Recorded(e, ToolStep(Head(todo[e]), answer[e])) /\ pc[e] = "record"
        /\ messages'[e] = Append(messages[e], ToolMessage(Head(todo[e]).id, answer[e]))
        /\ todo'[e] = Tail(todo[e])
    BY <1>8, Zenon DEF Tells
  <2>2. Len(messages[e]) = index[e] /\ pc[e] \in Looping /\ index'[e] = index[e] + 1
    BY <1>1, <2>1, Zenon DEF Talk, Looping, InTool, Recorded
  <2>3. todo[e] \in Seq(AllCalls) /\ todo[e] # <<>> /\ answer[e] \in Contents
    BY <2>1, Zenon DEF TypeInv, Queues, InCall, InTool
  <2>4. ToolMessage(Head(todo[e]).id, answer[e]) \in Message
    BY <2>3, TailOf, ToolMessageType, Zenon
  <2>5. Longer(trace, trace', messages[e], messages'[e], index[e],
               ToolStep(Head(todo[e]), answer[e]), ToolMessage(Head(todo[e]).id, answer[e]))
    BY <2>1, <2>2, <2>4, RecordedLonger, Zenon
  <2>6. Accounts(trace, messages[e], todo[e], index[e])
    BY <1>1, <2>2, Zenon DEF ConvInv
  <2>7. Accounts(trace', messages'[e], Tail(todo[e]), index[e] + 1)
    BY <1>2, <2>3, <2>5, <2>6, AccountsAnswer, Zenon
  <2> QED
    BY <2>1, <2>2, <2>7, Zenon
<1> QED
  BY <1>4, <1>5, <1>6, <1>7, <1>8, Zenon DEF Move

LEMMA ExplainStep ==
    ASSUME AgentLoopAssumption, CoreInv, PromptInv, ConvInv, [Next]_vars
    PROVE  PromptInv' /\ ConvInv'
<1> USE DEF CoreInv
<1> SUFFICES ASSUME run' # None PROVE PromptInv' /\ ConvInv'
  BY Zenon DEF PromptInv, ConvInv
<1>1. ASSUME NEW e \in Exec, Move(e), \A f \in Exec \ {e} : Same(f) PROVE PromptInv' /\ ConvInv'
  BY <1>1, PromptMove, ConvMove, Zenon
<1>2. CASE Elsewhere
  <2>1. run # None /\ run' = run /\ trace' = trace
    BY <1>2, Zenon DEF Elsewhere
  <2>2. \A f \in Exec : /\ pc'[f] = pc[f] /\ prompt'[f] = prompt[f] /\ messages'[f] = messages[f]
                        /\ todo'[f] = todo[f] /\ index'[f] = index[f]
    BY <1>2, Zenon DEF Elsewhere, Same
  <2>3. PromptInv'
    BY <2>1, <2>2, Zenon DEF PromptInv
  <2>4. ConvInv'
    BY <2>1, <2>2, Zenon DEF ConvInv
  <2> QED
    BY <2>3, <2>4, Zenon
<1> QED
  BY <1>1, <1>2, NextMoves, Zenon

\* The group of a response ends where its account does.
LEMMA GroupEndIs ==
    ASSUME NEW n \in Nat, NEW i \in 0 .. n - 1, NEW last, NEW msgs, NEW open,
           Agree(trace, msgs, open, n, i, last)
    PROVE  GroupEnd(i, n) = last
<1> DEFINE S == {k \in i + 1 .. n : k = n \/ trace[k].kind = "model_call"}
<1>1. last \in S
  BY Zenon DEF Agree
<1>2. ASSUME NEW k \in S PROVE last <= k
  <2> SUFFICES ASSUME k < last PROVE FALSE
    BY DEF Agree
  <2>1. k \in i + 1 .. last - 1 /\ k # n
    BY DEF Agree
  <2>2. trace[k].kind = "tool_call"
    BY <2>1, Zenon DEF Agree
  <2> QED
    BY <2>1, <2>2, Zenon
<1>3. S \subseteq Int
  OBVIOUS
<1>4. GroupEnd(i, n) = CHOOSE x \in S : \A y \in S : x <= y
  BY Zenon DEF GroupEnd, Min
<1> HIDE DEF S
<1>5. \A x \in S : (\A y \in S : x <= y) => x = last
  BY <1>1, <1>2, <1>3
<1> QED
  BY <1>1, <1>2, <1>4, <1>5, Zenon

\* An account of a response explains it.
LEMMA AgreeExplains ==
    ASSUME Calls \subseteq Seq(AllCalls), NEW e \in Exec, NEW open \in Seq(AllCalls), NEW n \in Nat,
           NEW i \in 0 .. n - 1, NEW last, Agree(trace, messages[e], open, n, i, last)
    PROVE  Explained(e, i, last, open)
<1>1. PICK calls : calls = messages[e][i + 1].calls
  BY Zenon
<1>2. /\ last \in i + 1 .. n /\ messages[e][i + 1].role = "assistant"
      /\ calls \in Calls /\ Len(calls) = last - i - 1 + Len(open)
  BY <1>1, Zenon DEF Agree
<1>3. /\ \A k \in 1 .. last - i - 1 :
            /\ calls[k].tool = trace[i + k].tool
            /\ calls[k].text = trace[i + k].text
            /\ messages[e][i + k + 1] = ToolMessage(calls[k].id, trace[i + k].content)
      /\ \A k \in 1 .. Len(open) : calls[last - i - 1 + k] = open[k]
  BY <1>1, Zenon DEF Agree
<1>4. i \in Nat /\ last \in Nat /\ Len(open) \in Nat
  BY <1>2
<1>5. calls \in Seq(AllCalls)
  BY <1>2, Zenon
<1>6. ASSUME NEW k \in DOMAIN calls
      PROVE  IF k < last - i
               THEN /\ calls[k].tool = trace[i + k].tool
                    /\ calls[k].text = trace[i + k].text
                    /\ messages[e][i + k + 1] = ToolMessage(calls[k].id, trace[i + k].content)
               ELSE calls[k] = open[k - (last - i - 1)]
  <2>1. k \in 1 .. Len(calls) /\ Len(calls) \in Nat
    BY <1>5, <1>6
  <2>2. CASE k < last - i
    <3>1. k \in 1 .. last - i - 1
      BY <1>4, <2>1, <2>2
    <3> QED
      BY <1>3, <2>2, <3>1, Zenon
  <2>3. CASE ~ k < last - i
    <3>1. PICK d : d = k - (last - i - 1)
      BY Zenon
    <3>2. Len(calls) = last - i - 1 + Len(open)
      BY <1>2, Zenon
    <3>3. d \in Int /\ last - i - 1 + d = k /\ d >= 1
      BY <1>4, <2>1, <2>3, <3>1
    <3>4. d <= Len(open)
      BY <1>4, <2>1, <3>1, <3>2
    <3>5. d \in 1 .. Len(open)
      BY <1>4, <3>3, <3>4
    <3>6. calls[k] = open[d]
      BY <1>3, <3>3, <3>5, Zenon
    <3> QED
      BY <2>3, <3>1, <3>6, Zenon
  <2> QED
    BY <2>2, <2>3, Zenon
<1> QED
  BY <1>1, <1>2, <1>6, Zenon DEF Explained

\* The trace explains the conversation.  Whatever the model answers and whoever
\* else executes the run, what Execute has told the model is the stored prompt and
\* then, step by step, what it recorded; every call of a response is among the
\* steps after it, under its own id and with its own content, or still to be made.
THEOREM AgentLoopTraceExplains == Spec => []TraceExplains
<1>1. Init => PromptInv /\ ConvInv
  BY Zenon DEF Init, PromptInv, ConvInv, Looping, InTool
<1>2. CoreInv /\ PromptInv /\ ConvInv /\ [Next]_vars => PromptInv' /\ ConvInv'
  BY ExplainStep, AgentLoopAssumption, Zenon
<1>3. CoreInv /\ PromptInv /\ ConvInv => TraceExplains
  <2> SUFFICES ASSUME CoreInv, PromptInv, ConvInv, NEW e \in Exec, run # None, index[e] > 0,
                      pc[e] \in Looping
               PROVE  /\ \/ run.prompt = prompt[e]
                         \/ \E f \in Exec \ {e} : pc[f] \notin Before
                      /\ Len(messages[e]) = index[e]
                      /\ \A i \in 0 .. index[e] - 1 : trace[i].kind = "model_call" =>
                           LET last == GroupEnd(i, index[e])
                           IN  Explained(e, i, last, IF last = index[e] THEN todo[e] ELSE <<>>)
    BY Zenon DEF TraceExplains, Looping, InTool, Before
  <2>1. Len(messages[e]) = index[e] /\ index[e] \in Nat /\ todo[e] \in Seq(AllCalls)
    BY Zenon DEF CoreInv, LocalInv, Talk, TypeInv, Counts, Queues
  <2>2. run.prompt = prompt[e] \/ \E f \in Exec \ {e} : pc[f] \notin Before
    BY Zenon DEF PromptInv
  <2>3. ASSUME NEW i \in 0 .. index[e] - 1, trace[i].kind = "model_call"
        PROVE  LET last == GroupEnd(i, index[e])
               IN  Explained(e, i, last, IF last = index[e] THEN todo[e] ELSE <<>>)
    <3>1. PICK last \in i + 1 .. index[e] :
                Agree(trace, messages[e], IF last = index[e] THEN todo[e] ELSE <<>>, index[e], i, last)
      BY <2>3, Zenon DEF ConvInv, Accounts
    <3>2. PICK open \in Seq(AllCalls) : open = IF last = index[e] THEN todo[e] ELSE <<>>
      <4>1. <<>> \in Seq(AllCalls)
        OBVIOUS
      <4> QED
        BY <2>1, <4>1, Zenon
    <3>3. Agree(trace, messages[e], open, index[e], i, last)
      BY <3>1, <3>2, Zenon
    <3>4. GroupEnd(i, index[e]) = last
      BY <2>1, <3>3, GroupEndIs, Zenon
    <3>5. Calls \subseteq Seq(AllCalls)
      BY ConstantTypes, AgentLoopAssumption, Zenon
    <3>6. Explained(e, i, last, open)
      BY <2>1, <3>3, <3>5, AgreeExplains, Zenon
    <3> QED
      BY <3>2, <3>4, <3>6, Zenon
  <2> QED
    BY <2>1, <2>2, <2>3, Zenon
<1> QED
  BY <1>1, <1>2, <1>3, CoreInvariant, PTL DEF Spec

-----------------------------------------------------------------------------
(* What it did, and what the trace says of it *)

INSTANCE FiniteSetTheorems

\* The call in progress has reached its tool.
Hangs(e) == pc[e] = "send" \/ (pc[e] = "record" /\ answer[e] # "refused")

\* The place of a step among those that had an effect.
Rank(i) == Cardinality({j \in Effects : j <= i})

EffectInv ==
    run # None =>
        /\ (\A e \in Exec : index[e] = 0) => ran = <<>>
        /\ Len(ran) - Cardinality(Effects) \in {0, 1}
        /\ \A e \in Exec : index[e] > 0 /\ pc[e] \in Looping =>
             IF Hangs(e)
               THEN Len(ran) = Cardinality(Effects) + 1 /\ ran[Len(ran)] = Head(todo[e])
               ELSE Len(ran) = Cardinality(Effects)
        /\ \A i \in Effects : /\ trace[i].tool = ran[Rank(i)].tool
                              /\ trace[i].text = ran[Rank(i)].text

LEMMA TraceFinite ==
    ASSUME TypeInv, WriterInv, run # None
    PROVE  IsFiniteSet(DOMAIN trace) /\ DOMAIN trace \subseteq Nat
<1>1. CASE \A e \in Exec : index[e] = 0
  BY <1>1, FS_EmptySet, Zenon DEF WriterInv
<1>2. ASSUME NEW e \in Exec, index[e] # 0
      PROVE  IsFiniteSet(DOMAIN trace) /\ DOMAIN trace \subseteq Nat
  <2>1. index[e] \in Nat /\ index[e] > 0
    BY <1>2 DEF TypeInv, Counts
  <2>2. DOMAIN trace = 0 .. index[e] - 1
    BY <2>1, Zenon DEF WriterInv
  <2>3. index[e] - 1 \in Int /\ 0 \in Int
    BY <2>1
  <2>4. IsFiniteSet(0 .. index[e] - 1)
    BY <2>3, FS_Interval, Zenon
  <2> QED
    BY <2>1, <2>2, <2>4
<1> QED
  BY <1>1, <1>2, Zenon

LEMMA EffectsFinite ==
    ASSUME TypeInv, WriterInv, run # None
    PROVE  IsFiniteSet(Effects) /\ Effects \subseteq Nat /\ Cardinality(Effects) \in Nat
<1>1. Effects \subseteq DOMAIN trace
  BY Zenon DEF Effects
<1>2. IsFiniteSet(Effects)
  BY <1>1, TraceFinite, FS_Subset, Zenon
<1>3. Cardinality(Effects) \in Nat
  BY <1>2, FS_CardinalityType, Zenon
<1> QED
  BY <1>1, <1>2, <1>3, TraceFinite, Zenon

LEMMA RankBounds ==
    ASSUME TypeInv, WriterInv, run # None, NEW i \in Effects
    PROVE  Rank(i) \in 1 .. Cardinality(Effects)
<1> DEFINE upTo == {j \in Effects : j <= i}
<1>1. IsFiniteSet(Effects) /\ i \in Nat /\ Cardinality(Effects) \in Nat
  BY EffectsFinite, Zenon
<1>2. upTo \subseteq Effects /\ i \in upTo
  BY <1>1
<1> HIDE DEF upTo
<1>3. IsFiniteSet(upTo) /\ Cardinality(upTo) <= Cardinality(Effects)
  BY <1>1, <1>2, FS_Subset, Zenon
<1>4. Cardinality(upTo) \in Nat
  BY <1>3, FS_CardinalityType, Zenon
<1>5. Cardinality(upTo) # 0
  BY <1>2, <1>3, FS_EmptySet, Zenon
<1>6. Cardinality(upTo) \in 1 .. Cardinality(Effects)
  BY <1>1, <1>3, <1>4, <1>5
<1> QED
  BY <1>6, Zenon DEF Rank, upTo

\* Neither a response nor a refusal is an effect.
LEMMA NoEffect ==
    ASSUME TypeInv, WriterInv, NEW e \in Exec, NEW s, Recorded(e, s),
           s.kind # "tool_call" \/ s.content = "refused"
    PROVE  Effects' = Effects
<1>1. /\ DOMAIN trace = 0 .. index[e] - 1 /\ DOMAIN trace' = 0 .. index[e] /\ index[e] \in Nat
      /\ \A i \in 0 .. index[e] - 1 : trace'[i] = trace[i]
      /\ trace'[index[e]] = s
  BY WriterRecords, Zenon
<1>2. ASSUME NEW i \in Effects' PROVE i \in Effects
  <2>1. i # index[e] /\ i \in 0 .. index[e]
    BY <1>1, <1>2, Zenon DEF Effects
  <2>2. i \in 0 .. index[e] - 1
    BY <1>1, <2>1
  <2> QED
    BY <1>1, <1>2, <2>2, Zenon DEF Effects
<1>3. ASSUME NEW i \in Effects PROVE i \in Effects'
  <2>1. i \in 0 .. index[e] - 1 /\ i \in 0 .. index[e]
    BY <1>1, <1>3 DEF Effects
  <2> QED
    BY <1>1, <1>3, <2>1, Zenon DEF Effects
<1> QED
  BY <1>2, <1>3, Zenon

\* Any other tool call is one more, after the others.
LEMMA OneMoreEffect ==
    ASSUME TypeInv, WriterInv, NEW e \in Exec, NEW s, Recorded(e, s),
           s.kind = "tool_call", s.content # "refused"
    PROVE  /\ Effects' = Effects \cup {index[e]}
           /\ \A i \in Effects : i \in Nat /\ i < index[e]
<1>1. /\ DOMAIN trace = 0 .. index[e] - 1 /\ DOMAIN trace' = 0 .. index[e] /\ index[e] \in Nat
      /\ \A i \in 0 .. index[e] - 1 : trace'[i] = trace[i]
      /\ trace'[index[e]] = s
  BY WriterRecords, Zenon
<1>2. ASSUME NEW i \in Effects', i # index[e] PROVE i \in Effects
  <2>1. i \in 0 .. index[e]
    BY <1>1, <1>2, Zenon DEF Effects
  <2>2. i \in 0 .. index[e] - 1
    BY <1>1, <1>2, <2>1
  <2> QED
    BY <1>1, <1>2, <2>2, Zenon DEF Effects
<1>3. ASSUME NEW i \in Effects PROVE i \in Effects' /\ i \in Nat /\ i < index[e]
  <2>1. i \in 0 .. index[e] - 1 /\ i \in 0 .. index[e]
    BY <1>1, <1>3 DEF Effects
  <2> QED
    BY <1>1, <1>3, <2>1 DEF Effects
<1>4. index[e] \in Effects'
  BY <1>1 DEF Effects
<1> QED
  BY <1>2, <1>3, <1>4, Zenon

\* No step was stored, and no tool reached.
LEMMA EffectQuiet ==
    ASSUME EffectInv, run # None, trace' = trace, ran' = ran,
           \A f \in Exec : index'[f] = index[f],
           \A f \in Exec : index'[f] > 0 /\ pc'[f] \in Looping =>
               /\ pc[f] \in Looping /\ todo'[f] = todo[f]
               /\ Hangs(f)' <=> Hangs(f)
    PROVE  EffectInv'
<1>1. Effects' = Effects
  BY Zenon DEF Effects
<1>2. \A i \in Effects : Rank(i)' = Rank(i)
  BY <1>1, Zenon DEF Rank
<1>3. (\A f \in Exec : index'[f] = 0) => ran' = <<>>
  BY Zenon DEF EffectInv
<1>4. Len(ran') - Cardinality(Effects') \in {0, 1}
  BY <1>1, Zenon DEF EffectInv
<1>5. ASSUME NEW f \in Exec, index'[f] > 0, pc'[f] \in Looping
      PROVE  IF Hangs(f)'
               THEN Len(ran') = Cardinality(Effects') + 1 /\ ran'[Len(ran')] = Head(todo'[f])
               ELSE Len(ran') = Cardinality(Effects')
  <2>1. /\ index[f] > 0 /\ pc[f] \in Looping /\ todo'[f] = todo[f]
        /\ Hangs(f)' <=> Hangs(f)
    BY <1>5, Zenon
  <2> QED
    BY <1>1, <2>1, Zenon DEF EffectInv
<1>6. \A i \in Effects' : /\ trace'[i].tool = ran'[Rank(i)'].tool
                          /\ trace'[i].text = ran'[Rank(i)'].text
  BY <1>1, <1>2, Zenon DEF EffectInv
<1> QED
  BY <1>3, <1>4, <1>5, <1>6, Zenon DEF EffectInv

\* A call reaches its tool.
LEMMA EffectRuns ==
    ASSUME TypeInv, WriterInv, EffectInv, run # None, NEW e \in Exec,
           index[e] > 0, pc[e] = "tool", trace' = trace,
           ran' = Append(ran, Head(todo[e])), todo'[e] = todo[e],
           \A f \in Exec : index'[f] = index[f],
           Hangs(e)'
    PROVE  EffectInv'
<1>1. Effects' = Effects
  BY Zenon DEF Effects
<1>2. \A i \in Effects : Rank(i)' = Rank(i)
  BY <1>1, Zenon DEF Rank
<1>3. ran \in Seq(AllCalls) /\ Head(todo[e]) \in AllCalls
  BY TailOf, Zenon DEF TypeInv, Queues, InCall, InTool
<1>4. /\ Len(ran') = Len(ran) + 1 /\ Len(ran) \in Nat /\ ran'[Len(ran')] = Head(todo[e])
      /\ \A k \in 1 .. Len(ran) : ran'[k] = ran[k]
  BY <1>3
<1>5. Len(ran) = Cardinality(Effects)
  BY Zenon DEF EffectInv, Hangs, Looping, InTool
<1>6. \A f \in Exec : index'[f] > 0 => f = e
  BY Zenon DEF WriterInv
<1>7. ASSUME NEW i \in Effects'
      PROVE  /\ trace'[i].tool = ran'[Rank(i)'].tool
             /\ trace'[i].text = ran'[Rank(i)'].text
  <2>1. i \in Effects /\ Rank(i) \in 1 .. Len(ran)
    BY <1>1, <1>5, <1>7, RankBounds, Zenon
  <2> QED
    BY <1>2, <1>4, <2>1, Zenon DEF EffectInv
<1>8. Len(ran') - Cardinality(Effects') \in {0, 1}
  BY <1>1, <1>4, <1>5
<1>9. ASSUME NEW f \in Exec, index'[f] > 0, pc'[f] \in Looping
      PROVE  IF Hangs(f)'
               THEN Len(ran') = Cardinality(Effects') + 1 /\ ran'[Len(ran')] = Head(todo'[f])
               ELSE Len(ran') = Cardinality(Effects')
  BY <1>1, <1>4, <1>5, <1>6, <1>9, Zenon
<1>10. ~ \A f \in Exec : index'[f] = 0
  BY <1>4
<1> QED
  BY <1>7, <1>8, <1>9, <1>10, Zenon DEF EffectInv

\* A step without an effect is stored.
LEMMA EffectSilent ==
    ASSUME TypeInv, WriterInv, EffectInv, NEW e \in Exec, NEW s, Recorded(e, s),
           s.kind # "tool_call" \/ s.content = "refused",
           pc[e] \in Looping, ~Hangs(e), ~Hangs(e)', ran' = ran,
           \A f \in Exec \ {e} : index'[f] = index[f]
    PROVE  EffectInv'
<1>1. Effects' = Effects
  BY NoEffect, Zenon
<1>2. \A i \in Effects : Rank(i)' = Rank(i)
  BY <1>1, Zenon DEF Rank
<1>3. /\ index[e] \in Nat /\ DOMAIN trace = 0 .. index[e] - 1
      /\ \A f \in Exec \ {e} : index[f] = 0
      /\ \A i \in 0 .. index[e] - 1 : trace'[i] = trace[i]
  BY WriterRecords, Zenon
<1>4. run # None /\ index'[e] = index[e] + 1
  BY Zenon DEF Recorded
<1>5. Len(ran) = Cardinality(Effects)
  <2>1. CASE index[e] > 0
    BY <1>4, <2>1, Zenon DEF EffectInv
  <2>2. CASE index[e] = 0
    <3>1. ran = <<>>
      BY <1>3, <1>4, <2>2, Zenon DEF EffectInv
    <3>2. Effects = {}
      BY <1>3, <2>2 DEF Effects
    <3> QED
      BY <3>1, <3>2, FS_EmptySet, Zenon
  <2> QED
    BY <1>3, <2>1, <2>2
<1>6. Cardinality(Effects) \in Nat
  BY <1>4, EffectsFinite, Zenon
<1>7. \A f \in Exec : index'[f] > 0 => f = e
  BY <1>3
<1>8. ~ \A f \in Exec : index'[f] = 0
  BY <1>3, <1>4
<1>9. ASSUME NEW i \in Effects'
      PROVE  /\ trace'[i].tool = ran'[Rank(i)'].tool
             /\ trace'[i].text = ran'[Rank(i)'].text
  <2>1. i \in Effects /\ Rank(i)' = Rank(i)
    BY <1>1, <1>2, <1>9, Zenon
  <2>2. i \in 0 .. index[e] - 1
    BY <1>3, <2>1, Zenon DEF Effects
  <2>3. trace'[i] = trace[i]
    BY <1>3, <2>2, Zenon
  <2> QED
    BY <1>4, <2>1, <2>3, Zenon DEF EffectInv
<1>10. Len(ran') - Cardinality(Effects') \in {0, 1}
  BY <1>1, <1>5, <1>6
<1>11. ASSUME NEW f \in Exec, index'[f] > 0, pc'[f] \in Looping
       PROVE  ~Hangs(f)' /\ Len(ran') = Cardinality(Effects')
  BY <1>1, <1>5, <1>7, <1>11, Zenon
<1> QED
  BY <1>8, <1>9, <1>10, <1>11, Zenon DEF EffectInv

\* The step of a call that reached its tool is stored.
LEMMA EffectStored ==
    ASSUME TypeInv, WriterInv, EffectInv, NEW e \in Exec, index[e] > 0,
           Recorded(e, ToolStep(Head(todo[e]), answer[e])), answer[e] # "refused",
           pc[e] = "record", ~Hangs(e)', ran' = ran,
           \A f \in Exec \ {e} : index'[f] = index[f]
    PROVE  EffectInv'
<1> DEFINE s == ToolStep(Head(todo[e]), answer[e])
           n == index[e]
<1>1. s.kind = "tool_call" /\ s.content # "refused"
  BY Zenon DEF ToolStep
<1>2. /\ Effects' = Effects \cup {n}
      /\ \A i \in Effects : i \in Nat /\ i < n
  BY <1>1, OneMoreEffect, Zenon
<1>3. /\ n \in Nat /\ DOMAIN trace = 0 .. n - 1
      /\ \A f \in Exec \ {e} : index[f] = 0
      /\ \A i \in 0 .. n - 1 : trace'[i] = trace[i]
      /\ trace'[n] = s
  BY WriterRecords, Zenon
<1>4. run # None /\ index'[e] = n + 1
  BY Zenon DEF Recorded
<1>5. /\ Len(ran) = Cardinality(Effects) + 1 /\ ran[Len(ran)] = Head(todo[e])
  BY <1>4, Zenon DEF EffectInv, Hangs, Looping, InTool
<1>6. IsFiniteSet(Effects) /\ Cardinality(Effects) \in Nat
  BY <1>4, EffectsFinite, Zenon
<1>7. n \notin Effects
  BY <1>2, <1>3
<1>8. Cardinality(Effects') = Cardinality(Effects) + 1
  BY <1>2, <1>6, <1>7, FS_AddElement, Zenon
<1>9. ASSUME NEW i \in Effects PROVE Rank(i)' = Rank(i)
  <2>1. i < n /\ i \in Nat
    BY <1>2, Zenon
  <2>2. {j \in Effects' : j <= i} = {j \in Effects : j <= i}
    BY <1>2, <1>3, <2>1
  <2> QED
    BY <2>2, Zenon DEF Rank
<1>10. ASSUME NEW i \in Effects', i # n
       PROVE  /\ trace'[i].tool = ran'[Rank(i)'].tool
              /\ trace'[i].text = ran'[Rank(i)'].text
  <2>1. i \in Effects /\ Rank(i)' = Rank(i)
    BY <1>2, <1>9, <1>10, Zenon
  <2>2. i \in 0 .. n - 1
    BY <1>3, <2>1, Zenon DEF Effects
  <2>3. trace'[i] = trace[i]
    BY <1>3, <2>2, Zenon
  <2> QED
    BY <1>4, <2>1, <2>3, Zenon DEF EffectInv
<1>11. ASSUME NEW i, i = n
       PROVE  /\ trace'[i].tool = ran'[Rank(i)'].tool
              /\ trace'[i].text = ran'[Rank(i)'].text
  <2>1. {j \in Effects' : j <= i} = Effects'
    BY <1>2, <1>3, <1>11
  <2>2. Rank(i)' = Len(ran)
    BY <1>5, <1>8, <2>1, Zenon DEF Rank
  <2>3. trace'[i].tool = Head(todo[e]).tool /\ trace'[i].text = Head(todo[e]).text
    BY <1>3, <1>11 DEF ToolStep
  <2> QED
    BY <1>5, <2>2, <2>3, Zenon
<1>12. \A f \in Exec : index'[f] > 0 => f = e
  BY <1>3
<1>13. ~ \A f \in Exec : index'[f] = 0
  BY <1>3, <1>4
<1>14. Len(ran') = Cardinality(Effects') /\ Len(ran') - Cardinality(Effects') \in {0, 1}
  BY <1>5, <1>6, <1>8
<1>15. ASSUME NEW f \in Exec, index'[f] > 0, pc'[f] \in Looping
       PROVE  ~Hangs(f)' /\ Len(ran') = Cardinality(Effects')
  BY <1>12, <1>14, <1>15, Zenon
<1> QED
  BY <1>10, <1>11, <1>13, <1>14, <1>15, Zenon DEF EffectInv

LEMMA EffectMove ==
    ASSUME TypeInv, WriterInv, EffectInv, NEW e \in Exec, Tally(e), Move(e),
           \A f \in Exec \ {e} : Same(f)
    PROVE  EffectInv'
<1> SUFFICES ASSUME run' # None PROVE EffectInv'
  BY Zenon DEF EffectInv
<1>1. /\ \A f \in Exec \ {e} : index'[f] = index[f]
      /\ \A f \in Exec \ {e} :
           pc'[f] = pc[f] /\ todo'[f] = todo[f] /\ (Hangs(f)' <=> Hangs(f))
  BY Zenon DEF Same, Hangs
<1>2. index[e] \in Nat
  BY Zenon DEF TypeInv, Counts
<1>3. ASSUME run # None, trace' = trace, ran' = ran, index'[e] = index[e],
             index[e] > 0 /\ pc'[e] \in Looping =>
               /\ pc[e] \in Looping /\ todo'[e] = todo[e]
               /\ Hangs(e)' <=> Hangs(e)
      PROVE  EffectInv'
  BY <1>1, <1>3, EffectQuiet, Zenon
<1>4. CASE Starts(e)
  <2>1. index[e] = 0 /\ run # None /\ trace' = trace /\ ran' = ran /\ index'[e] = index[e]
    BY <1>4, Zenon DEF Starts, Unrecorded, Tally
  <2> QED
    BY <1>3, <2>1, SMTT(20)
<1>5. CASE Fails(e) \/ Stops(e) \/ Ends(e)
  <2>1. run # None /\ trace' = trace /\ ran' = ran /\ index'[e] = index[e] /\ pc'[e] \notin Looping
    BY <1>5, Zenon DEF Fails, Stops, Ends, Unrecorded, Looping, InTool
  <2> QED
    BY <1>3, <2>1, Zenon
<1>6. CASE Asks(e)
  <2>1. /\ run # None /\ trace' = trace /\ ran' = ran /\ index'[e] = index[e]
        /\ pc[e] = "model" /\ pc'[e] = "asked" /\ todo'[e] = todo[e]
    BY <1>6, Zenon DEF Asks, Unrecorded
  <2>2. pc[e] \in Looping /\ ~Hangs(e) /\ ~Hangs(e)'
    BY <2>1, Zenon DEF Looping, Hangs
  <2> QED
    BY <1>3, <2>1, <2>2, Zenon
<1>7. ASSUME NEW tokens \in Usage, Responds(e, tokens), pc'[e] \in {"report", "tool"} PROVE EffectInv'
  <2>1. pc[e] \in Looping /\ ~Hangs(e) /\ ~Hangs(e)'
    BY <1>7, Zenon DEF Responds, Looping, Hangs
  <2>2. Recorded(e, ModelStep(tokens)) /\ ran' = ran /\ ModelStep(tokens).kind # "tool_call"
    BY <1>7, Zenon DEF Responds, ModelStep
  <2> QED
    BY <1>1, <2>1, <2>2, EffectSilent, Zenon
<1>8. CASE Succeeds(e) \/ \E calls \in Calls \ {<<>>} : CallsTools(e, calls)
  BY <1>7, <1>8, Zenon DEF Succeeds, CallsTools
<1>9. CASE Tools(e)
  <2>1. /\ run # None /\ trace' = trace /\ index'[e] = index[e] /\ todo'[e] = todo[e]
        /\ pc[e] \in {"tool", "send"}
    BY <1>9, Zenon DEF Tools, Unrecorded
  <2>2. index[e] > 0 /\ pc[e] \in Looping
    BY <2>1, Zenon DEF Tally, InTool, Looping
  <2>3. CASE pc[e] = "tool" /\ pc'[e] = "record" /\ answer'[e] = "refused" /\ ran' = ran
    BY <1>3, <2>1, <2>2, <2>3, Zenon DEF Hangs
  <2>4. CASE /\ pc[e] = "tool" /\ ran' = Append(ran, Head(todo[e]))
             /\ pc'[e] = "send" \/ (pc'[e] = "record" /\ answer'[e] \in {"ok", "error"})
    <3>1. Hangs(e)'
      BY <2>4, Zenon DEF Hangs
    <3>2. \A f \in Exec : index'[f] = index[f]
      BY <1>1, <2>1, Zenon
    <3> QED
      BY <2>1, <2>2, <2>4, <3>1, <3>2, EffectRuns, Zenon
  <2>5. CASE /\ pc[e] = "send" /\ ran' = ran
             /\ pc'[e] = "send" \/ (pc'[e] = "record" /\ answer'[e] \in {"ok", "error"})
    BY <1>3, <2>1, <2>2, <2>5, Zenon DEF Hangs
  <2> QED
    BY <1>9, <2>3, <2>4, <2>5, Zenon DEF Tools
<1>10. CASE Tells(e)
  <2>1. /\ Recorded(e, ToolStep(Head(todo[e]), answer[e])) /\ ran' = ran
        /\ pc[e] = "record" /\ pc'[e] \in {"model", "tool"}
    BY <1>10, Zenon DEF Tells
  <2>2. index[e] > 0 /\ pc[e] \in Looping /\ ~Hangs(e)'
    BY <2>1, Zenon DEF Tally, InTool, Looping, Hangs
  <2>3. CASE answer[e] = "refused"
    <3>1. ~Hangs(e) /\ ToolStep(Head(todo[e]), answer[e]).content = "refused"
      BY <2>1, <2>3, Zenon DEF Hangs, ToolStep
    <3> QED
      BY <1>1, <2>1, <2>2, <3>1, EffectSilent, Zenon
  <2>4. CASE answer[e] # "refused"
    BY <1>1, <2>1, <2>2, <2>4, EffectStored, Zenon
  <2> QED
    BY <2>3, <2>4, Zenon
<1> QED
  BY <1>4, <1>5, <1>6, <1>8, <1>9, <1>10, Zenon DEF Move

LEMMA EffectStep ==
    ASSUME AgentLoopAssumption, TypeInv, RowInv, LocalInv, WriterInv, EffectInv, [Next]_vars
    PROVE  EffectInv'
<1>1. ASSUME NEW e \in Exec, Move(e), \A f \in Exec \ {e} : Same(f) PROVE EffectInv'
  BY <1>1, EffectMove, Zenon DEF LocalInv
<1>2. CASE Elsewhere
  <2>1. CASE run' = None
    BY <2>1, Zenon DEF EffectInv
  <2>2. CASE run' # None
    <3>1. run # None /\ trace' = trace /\ ran' = ran
      BY <1>2, <2>2, Zenon DEF Elsewhere
    <3>2. \A f \in Exec : /\ index'[f] = index[f] /\ pc'[f] = pc[f] /\ todo'[f] = todo[f]
                          /\ Hangs(f)' <=> Hangs(f)
      BY <1>2, Zenon DEF Elsewhere, Same, Hangs
    <3> QED
      BY <3>1, <3>2, EffectQuiet, Zenon
  <2> QED
    BY <2>1, <2>2, Zenon
<1> QED
  BY <1>1, <1>2, NextMoves, Zenon

LEMMA InitEffects == Init => EffectInv
<1> SUFFICES ASSUME Init PROVE EffectInv
  BY Zenon
<1>1. Effects = {} /\ ran = <<>> /\ Len(<<>>) = 0 /\ \A e \in Exec : index[e] = 0
  BY DEF Init, Effects
<1>2. Cardinality(Effects) = 0
  BY <1>1, FS_EmptySet, Zenon
<1> QED
  BY <1>1, <1>2 DEF EffectInv

\* Nothing an agent did is missing from its trace but for the last call, in the
\* order it was done and whoever executed the run: Execute records a step before
\* the next begins, and only one execution gets that far.
THEOREM AgentLoopEffectsAreTraced == Spec => []EffectsAreTraced
<1>1. CoreInv /\ EffectInv /\ [Next]_vars => EffectInv'
  BY EffectStep, AgentLoopAssumption, Zenon DEF CoreInv
<1>2. EffectInv => EffectsAreTraced
  BY Zenon DEF EffectInv, EffectsAreTraced, Rank
<1> QED
  BY <1>1, <1>2, InitEffects, CoreInvariant, PTL DEF Spec

-----------------------------------------------------------------------------
(* What it spent *)

\* Induction over the naturals, for a set.
LEMMA SetInduction ==
    ASSUME NEW S, 0 \in S, \A n \in Nat : n \in S => n + 1 \in S
    PROVE  Nat \subseteq S
<1> DEFINE R == OpToRel(<, Nat)
<1> SUFFICES ASSUME Nat \ S # {} PROVE FALSE
  BY Zenon
<1>1. IsWellFoundedOn(R, Nat)
  BY NatLessThanWellFounded, Zenon
<1>2. \A x, y \in Nat : x < y => <<x, y>> \in R
  BY Zenon DEF OpToRel
<1> HIDE DEF R
<1>3. PICK x \in Nat \ S : \A y \in Nat \ S : ~ (<<y, x>> \in R)
  BY <1>1, WFMin, Zenon
<1>4. x # 0 /\ x - 1 \in Nat /\ x - 1 < x /\ (x - 1) + 1 = x
  BY <1>3
<1>5. x - 1 \in S
  BY <1>2, <1>3, <1>4, Zenon
<1> QED
  BY <1>3, <1>4, <1>5, Zenon

\* f has the sums of g up to n.
Sums(f, g, n) == f[0] = 0 /\ \A k \in 1 .. n : f[k] = f[k - 1] + g[k - 1]

\* There is only one such function.
LEMMA SumsAgree ==
    ASSUME NEW f, NEW h, NEW g, NEW n \in Nat, Sums(f, g, n), Sums(h, g, n)
    PROVE  \A k \in 0 .. n : f[k] = h[k]
<1> DEFINE S == {k \in Nat : k <= n => f[k] = h[k]}
<1>1. 0 \in S
  BY Zenon DEF Sums
<1>2. ASSUME NEW k \in Nat, k \in S PROVE k + 1 \in S
  <2>1. k + 1 <= n => f[k + 1] = f[k] + g[k] /\ h[k + 1] = h[k] + g[k] /\ k <= n
    <3> SUFFICES ASSUME k + 1 <= n PROVE f[k + 1] = f[k] + g[k] /\ h[k + 1] = h[k] + g[k] /\ k <= n
      BY Zenon
    <3>1. k + 1 \in 1 .. n /\ (k + 1) - 1 = k /\ k <= n
      OBVIOUS
    <3> QED
      BY <3>1, Zenon DEF Sums
  <2> QED
    BY <1>2, <2>1
<1> HIDE DEF S
<1>3. Nat \subseteq S
  BY <1>1, <1>2, SetInduction, Zenon
<1> QED
  BY <1>3 DEF S

\* There is one.
LEMMA SumsExist ==
    ASSUME NEW g
    PROVE  \E f : f = [n \in Nat |-> IF n = 0 THEN 0 ELSE f[n - 1] + g[n - 1]]
<1> DEFINE S == {n \in Nat : \E f : Sums(f, g, n)}
           F == [n \in Nat |-> (CHOOSE f : Sums(f, g, n))[n]]
<1>1. 0 \in S
  <2>1. Sums([k \in Nat |-> 0], g, 0)
    BY DEF Sums
  <2> QED
    BY <2>1, Zenon
<1>2. ASSUME NEW n \in Nat, n \in S PROVE n + 1 \in S
  <2>1. PICK f : Sums(f, g, n)
    BY <1>2, Zenon
  <2> DEFINE h == [k \in Nat |-> IF k = n + 1 THEN f[n] + g[n] ELSE f[k]]
  <2>2. h[0] = 0
    BY <2>1 DEF Sums
  <2>3. ASSUME NEW k \in 1 .. n + 1 PROVE h[k] = h[k - 1] + g[k - 1]
    <3>1. CASE k = n + 1
      BY <3>1
    <3>2. CASE k # n + 1
      <4>1. k \in 1 .. n /\ k \in Nat /\ k - 1 \in Nat /\ k - 1 # n + 1
        BY <3>2
      <4> QED
        BY <2>1, <4>1 DEF Sums
    <3> QED
      BY <3>1, <3>2, Zenon
  <2>4. Sums(h, g, n + 1)
    BY <2>2, <2>3, Zenon DEF Sums
  <2> QED
    BY <2>4
<1> HIDE DEF S
<1>3. Nat \subseteq S
  BY <1>1, <1>2, SetInduction, Zenon
<1>4. \A n \in Nat : Sums(CHOOSE f : Sums(f, g, n), g, n)
  BY <1>3, Zenon DEF S
<1>5. F[0] = 0
  BY <1>4, Zenon DEF Sums
<1>6. ASSUME NEW n \in Nat, n # 0 PROVE F[n] = F[n - 1] + g[n - 1]
  <2> DEFINE f == CHOOSE f : Sums(f, g, n)
             h == CHOOSE h : Sums(h, g, n - 1)
  <2>1. n - 1 \in Nat /\ n \in 1 .. n /\ F[n] = f[n] /\ F[n - 1] = h[n - 1]
    BY <1>6
  <2>2. Sums(f, g, n) /\ Sums(h, g, n - 1)
    BY <1>4, <2>1, Zenon
  <2> HIDE DEF F, f, h
  <2>3. Sums(f, g, n - 1) /\ f[n] = f[n - 1] + g[n - 1]
    BY <2>1, <2>2 DEF Sums
  <2>4. f[n - 1] = h[n - 1]
    BY <2>1, <2>2, <2>3, SumsAgree
  <2> QED
    BY <2>1, <2>3, <2>4, Zenon
<1>7. F = [n \in Nat |-> IF n = 0 THEN 0 ELSE F[n - 1] + g[n - 1]]
  <2> DEFINE G == [n \in Nat |-> IF n = 0 THEN 0 ELSE F[n - 1] + g[n - 1]]
  <2>1. F = [n \in Nat |-> F[n]]
    OBVIOUS
  <2> HIDE DEF F
  <2>2. \A n \in Nat : F[n] = G[n]
    BY <1>5, <1>6, Zenon
  <2> QED
    BY <2>1, <2>2, Zenon
<1> QED
  BY <1>7, Zenon

\* TokensBefore is the function that its definition describes.
TokensRecur ==
    TokensBefore = [n \in Nat |-> IF n = 0 THEN 0 ELSE TokensBefore[n - 1] + StepTokens(n - 1)]

LEMMA TokensRecursive == TokensRecur
<1> DEFINE g == [i \in Nat |-> StepTokens(i)]
           T(f) == [n \in Nat |-> IF n = 0 THEN 0 ELSE f[n - 1] + StepTokens(n - 1)]
<1>1. PICK f : f = [n \in Nat |-> IF n = 0 THEN 0 ELSE f[n - 1] + g[n - 1]]
  BY SumsExist, Zenon
<1>2. \A n \in Nat : n # 0 => g[n - 1] = StepTokens(n - 1)
  OBVIOUS
<1> HIDE DEF g
<1>3. [n \in Nat |-> IF n = 0 THEN 0 ELSE f[n - 1] + g[n - 1]] = T(f)
  BY <1>2, Zenon
<1>4. f = T(f)
  BY <1>1, <1>3, Zenon
<1>5. TokensBefore = CHOOSE h : h = T(h)
  BY Zenon DEF TokensBefore
<1> HIDE DEF T
<1>6. TokensBefore = T(TokensBefore)
  BY <1>4, <1>5, Zenon
<1> QED
  BY <1>6, Zenon DEF T, TokensRecur

\* The sums up to n depend on the first n steps only.
LEMMA TokensAgree ==
    ASSUME TokensRecur, TokensRecur', NEW n \in Nat,
           \A i \in 0 .. n - 1 : StepTokens(i)' = StepTokens(i)
    PROVE  TokensBefore'[n] = TokensBefore[n]
<1> DEFINE g == [i \in Nat |-> StepTokens(i)]
<1>1. \A k \in 1 .. n : k \in Nat /\ k # 0 /\ k - 1 \in Nat /\ k - 1 \in 0 .. n - 1
  OBVIOUS
<1>2. Sums(TokensBefore, g, n)
  BY <1>1, Zenon DEF TokensRecur, Sums
<1>3. Sums(TokensBefore', g, n)
  <2>1. TokensBefore'[0] = 0
    BY Zenon DEF TokensRecur
  <2>2. ASSUME NEW k \in 1 .. n PROVE TokensBefore'[k] = TokensBefore'[k - 1] + StepTokens(k - 1)
    <3>1. TokensBefore'[k] = TokensBefore'[k - 1] + StepTokens(k - 1)'
      BY <1>1, Zenon DEF TokensRecur
    <3>2. StepTokens(k - 1)' = StepTokens(k - 1)
      BY <1>1, Zenon
    <3> QED
      BY <3>1, <3>2, Zenon
  <2>3. \A k \in 1 .. n : g[k - 1] = StepTokens(k - 1)
    BY <1>1, Zenon
  <2> HIDE DEF g
  <2> QED
    BY <2>1, <2>2, <2>3, Zenon DEF Sums
<1> HIDE DEF g
<1>4. n \in 0 .. n
  OBVIOUS
<1> QED
  BY <1>2, <1>3, <1>4, SumsAgree, Zenon

\* What an execution counted is what it recorded, as long as it goes on or has
\* not failed.
Paid(e) ==
    index[e] > 0 /\ (pc[e] \in Looping \/ (pc[e] = "report" /\ result[e] # "failed")) =>
        used[e] = TokensBefore[index[e]]

\* The outcome is that of the execution that recorded, or of one that did not
\* while another asked.
Billed ==
    run.status \in {"succeeded", "budget_exceeded"} =>
        \E e \in Exec :
            /\ pc[e] = "done"
            /\ \/ run.tokens = TracedTokens
               \/ index[e] = 0 /\ \E f \in Exec \ {e} : asked[f] > 0

TokenInv == run # None => Billed /\ \A e \in Exec : Paid(e)

\* The tokens of the trace are those of the execution that wrote it.
LEMMA TracedTokensAre ==
    ASSUME TypeInv, WriterInv, TokensRecur, run # None
    PROVE  /\ Cardinality(DOMAIN trace) \in Nat
           /\ \A e \in Exec : index[e] > 0 => TracedTokens = TokensBefore[index[e]]
           /\ (\A e \in Exec : index[e] = 0) => TracedTokens = 0
<1>1. Cardinality(DOMAIN trace) \in Nat
  BY TraceFinite, FS_CardinalityType, Zenon
<1>2. ASSUME NEW e \in Exec, index[e] > 0 PROVE TracedTokens = TokensBefore[index[e]]
  <2>1. index[e] \in Nat /\ DOMAIN trace = 0 .. index[e] - 1
    BY <1>2, Zenon DEF TypeInv, Counts, WriterInv
  <2>2. index[e] - 1 \in Int /\ 0 \in Int /\ ~ 0 > index[e] - 1 /\ (index[e] - 1) - 0 + 1 = index[e]
    BY <1>2, <2>1
  <2>3. Cardinality(0 .. index[e] - 1) = index[e]
    BY <2>2, FS_Interval, Zenon
  <2> QED
    BY <2>1, <2>3, Zenon DEF TracedTokens
<1>3. ASSUME \A e \in Exec : index[e] = 0 PROVE TracedTokens = 0
  <2>1. DOMAIN trace = {}
    BY <1>3, Zenon DEF WriterInv
  <2>2. Cardinality(DOMAIN trace) = 0
    BY <2>1, FS_EmptySet, Zenon
  <2>3. TokensBefore[0] = 0
    BY Zenon DEF TokensRecur
  <2> QED
    BY <2>2, <2>3, Zenon DEF TracedTokens
<1> QED
  BY <1>1, <1>2, <1>3, Zenon

\* No step was stored.
LEMMA TokensSame ==
    ASSUME TokensRecur, TokensRecur', trace' = trace
    PROVE  \A n \in Nat : TokensBefore'[n] = TokensBefore[n]
<1>1. \A i : StepTokens(i)' = StepTokens(i)
  BY Zenon DEF StepTokens
<1> QED
  BY <1>1, TokensAgree, Zenon

\* One was.
LEMMA TokensAdded ==
    ASSUME TypeInv, WriterInv, TokensRecur, TokensRecur', NEW e \in Exec, NEW s, Recorded(e, s)
    PROVE  TokensBefore'[index[e] + 1] =
               TokensBefore[index[e]] + (IF s.kind = "model_call" THEN s.tokens ELSE 0)
<1>1. PICK n \in Nat : n = index[e]
  BY Zenon DEF TypeInv, Counts
<1>2. /\ DOMAIN trace = 0 .. n - 1 /\ DOMAIN trace' = 0 .. n
      /\ \A i \in 0 .. n - 1 : trace'[i] = trace[i]
      /\ trace'[n] = s
  BY <1>1, WriterRecords, Zenon
<1>3. ASSUME NEW i \in 0 .. n - 1 PROVE StepTokens(i)' = StepTokens(i)
  <2>1. i \in DOMAIN trace /\ i \in DOMAIN trace' /\ trace'[i] = trace[i]
    BY <1>2, <1>3
  <2> QED
    BY <2>1, Zenon DEF StepTokens
<1>4. TokensBefore'[n] = TokensBefore[n]
  BY <1>3, TokensAgree, Zenon
<1>5. StepTokens(n)' = IF s.kind = "model_call" THEN s.tokens ELSE 0
  <2>1. n \in DOMAIN trace' /\ trace'[n] = s
    BY <1>2
  <2> QED
    BY <2>1, Zenon DEF StepTokens
<1>6. TokensBefore'[n + 1] = TokensBefore'[n] + StepTokens(n)'
  <2>1. \A k \in Nat : k # 0 => TokensBefore'[k] = TokensBefore'[k - 1] + StepTokens(k - 1)'
    BY Zenon DEF TokensRecur
  <2>2. n + 1 \in Nat /\ n + 1 # 0 /\ (n + 1) - 1 = n
    OBVIOUS
  <2> QED
    BY <2>1, <2>2, Zenon
<1> QED
  BY <1>1, <1>4, <1>5, <1>6, Zenon

LEMMA PaidMove ==
    ASSUME AgentLoopAssumption, TypeInv, WriterInv, TokensRecur, TokensRecur',
           NEW e \in Exec, Tally(e), Paid(e), Move(e)
    PROVE  Paid(e)'
<1>1. PICK n \in Nat : n = index[e]
  BY Zenon DEF TypeInv, Counts
<1>2. ASSUME trace' = trace, index'[e] = index[e], used'[e] = used[e], pc[e] \in Looping
      PROVE  Paid(e)'
  <2>1. TokensBefore'[n] = TokensBefore[n]
    BY <1>2, TokensSame, Zenon
  <2> QED
    BY <1>1, <1>2, <2>1, Zenon DEF Paid
<1>3. ASSUME pc'[e] = "done" \/ (pc'[e] = "report" /\ result'[e] = "failed") \/ index'[e] = 0
      PROVE  Paid(e)'
  BY <1>3 DEF Paid, Looping, InTool
<1>4. ASSUME NEW s, Recorded(e, s), pc[e] \in {"asked", "record"}, NEW t \in Nat,
             used'[e] = used[e] + t, t = IF s.kind = "model_call" THEN s.tokens ELSE 0
      PROVE  Paid(e)'
  <2>1. index'[e] = n + 1 /\ TokensBefore'[n + 1] = TokensBefore[n] + t
    BY <1>1, <1>4, TokensAdded, Zenon DEF Recorded
  <2>2. used[e] = TokensBefore[n]
    <3>1. CASE n > 0
      BY <1>1, <1>4, <3>1, Zenon DEF Paid, Looping, InTool
    <3>2. CASE n = 0
      BY <1>1, <3>2, Zenon DEF Tally, TokensRecur
    <3> QED
      BY <3>1, <3>2
  <2> QED
    BY <1>4, <2>1, <2>2, Zenon DEF Paid
<1>5. CASE Starts(e)
  <2>1. index'[e] = 0
    BY <1>5, Zenon DEF Starts, Unrecorded, Tally
  <2> QED
    BY <1>3, <2>1, Zenon
<1>6. CASE Fails(e) \/ Ends(e)
  <2>1. pc'[e] = "done" \/ (pc'[e] = "report" /\ result'[e] = "failed")
    BY <1>6, Zenon DEF Fails, Ends
  <2> QED
    BY <1>3, <2>1, Zenon
<1>7. CASE Stops(e) \/ Asks(e) \/ Tools(e)
  <2>1. trace' = trace /\ index'[e] = index[e] /\ used'[e] = used[e] /\ pc[e] \in Looping
    BY <1>7, Zenon DEF Stops, Asks, Tools, Unrecorded, Looping, InTool
  <2> QED
    BY <1>2, <2>1, Zenon
<1>8. ASSUME NEW tokens \in Usage, Responds(e, tokens) PROVE Paid(e)'
  <2>1. /\ Recorded(e, ModelStep(tokens)) /\ pc[e] \in {"asked", "record"}
        /\ used'[e] = used[e] + tokens
    BY <1>8, Zenon DEF Responds
  <2>2. tokens \in Nat /\ ModelStep(tokens).kind = "model_call" /\ ModelStep(tokens).tokens = tokens
    BY ConstantTypes, Zenon DEF ModelStep
  <2> QED
    BY <1>4, <2>1, <2>2, Zenon
<1>9. CASE Succeeds(e) \/ \E calls \in Calls \ {<<>>} : CallsTools(e, calls)
  BY <1>8, <1>9, Zenon DEF Succeeds, CallsTools
<1>10. CASE Tells(e)
  <2> DEFINE s == ToolStep(Head(todo[e]), answer[e])
  <2>1. Recorded(e, s) /\ pc[e] \in {"asked", "record"} /\ used'[e] = used[e]
    BY <1>10, Zenon DEF Tells
  <2>2. s.kind # "model_call"
    BY DEF ToolStep
  <2>3. 0 \in Nat /\ used[e] + 0 = used[e]
    BY DEF TypeInv, Counts
  <2> HIDE DEF s
  <2> QED
    BY <1>4, <2>1, <2>2, <2>3, Zenon
<1> QED
  BY <1>5, <1>6, <1>7, <1>9, <1>10, Zenon DEF Move

\* The outcome stays what it is when nothing is stored or reported.
LEMMA BilledKept ==
    ASSUME TypeInv, WriterInv, TokensRecur, TokensRecur', run # None, Billed, trace' = trace,
           run'.status = run.status, run'.tokens = run.tokens,
           \A f \in Exec : /\ pc[f] = "done" => pc'[f] = "done" /\ index'[f] = index[f]
                           /\ asked[f] > 0 => asked'[f] > 0
    PROVE  Billed'
<1>1. PICK c \in Nat : c = Cardinality(DOMAIN trace)
  BY TracedTokensAre, Zenon
<1>2. TokensBefore'[c] = TokensBefore[c]
  BY TokensSame, Zenon
<1>3. TracedTokens' = TracedTokens
  BY <1>1, <1>2, Zenon DEF TracedTokens
<1> QED
  BY <1>3, Zenon DEF Billed

\* A step was stored: whoever reported before recorded none.
LEMMA BilledRecorded ==
    ASSUME TypeInv, WriterInv, NEW e \in Exec, NEW s, Recorded(e, s), Billed,
           pc[e] # "done", asked'[e] > 0, \A f \in Exec \ {e} : Same(f)
    PROVE  Billed'
<1>1. run' = run /\ \A f \in Exec \ {e} : index[f] = 0
  BY WriterRecords, Zenon DEF Recorded
<1>2. ASSUME run.status \in {"succeeded", "budget_exceeded"}
      PROVE  \E d \in Exec \ {e} : pc'[d] = "done" /\ index'[d] = 0
  <2>1. PICK d \in Exec : pc[d] = "done"
    BY <1>2, Zenon DEF Billed
  <2>2. d \in Exec \ {e} /\ pc'[d] = "done" /\ index'[d] = 0
    BY <1>1, <2>1, Zenon DEF Same
  <2> QED
    BY <2>2, Zenon
<1> QED
  BY <1>1, <1>2, Zenon DEF Billed

\* The result is reported.
LEMMA BilledReported ==
    ASSUME TypeInv, RowInv, LocalInv, WriterInv, TokensRecur, TokensRecur',
           NEW e \in Exec, Paid(e), pc[e] = "report", pc'[e] = "done", run # None,
           run' = [run EXCEPT !.status = result[e], !.tokens = used[e]],
           trace' = trace, \A f \in Exec : index'[f] = index[f] /\ asked'[f] = asked[f]
    PROVE  Billed'
<1>1. run'.status = result[e] /\ run'.tokens = used[e]
  BY Zenon DEF RowInv
<1>2. PICK c \in Nat : c = Cardinality(DOMAIN trace)
  BY TracedTokensAre, Zenon
<1>3. TokensBefore'[c] = TokensBefore[c]
  BY TokensSame, Zenon
<1>4. TracedTokens' = TracedTokens
  BY <1>2, <1>3, Zenon DEF TracedTokens
<1>5. \A f \in Exec : index[f] \in Nat /\ Tally(f)
  BY Zenon DEF TypeInv, Counts, LocalInv
<1>6. ASSUME index[e] > 0, result[e] # "failed" PROVE used[e] = TracedTokens
  BY <1>6, TracedTokensAre, Zenon DEF Paid
<1>7. ASSUME index[e] = 0, used[e] # TracedTokens PROVE \E f \in Exec \ {e} : asked[f] > 0
  <2>1. used[e] = 0
    BY <1>5, <1>7, Zenon DEF Tally
  <2>2. PICK f \in Exec : index[f] # 0
    BY <1>7, <2>1, TracedTokensAre, Zenon
  <2>3. asked[f] > 0
    BY <1>5, <2>2 DEF Tally
  <2> QED
    BY <1>7, <2>2, <2>3, Zenon
<1>8. index[e] > 0 \/ index[e] = 0
  BY <1>5
<1> QED
  BY <1>1, <1>4, <1>6, <1>7, <1>8, Zenon DEF Billed

LEMMA TokenMove ==
    ASSUME AgentLoopAssumption, TypeInv, RowInv, LocalInv, WriterInv, TokensRecur, TokensRecur',
           TokenInv, NEW e \in Exec, Move(e), \A f \in Exec \ {e} : Same(f), run' # None
    PROVE  TokenInv'
<1>1. run # None
  BY MoveRecords, Zenon DEF Recorded
<1>2. Tally(e) /\ Paid(e) /\ Billed /\ \A f \in Exec : Paid(f) /\ index[f] \in Nat
  BY <1>1, Zenon DEF LocalInv, TokenInv, TypeInv, Counts
<1>3. Paid(e)'
  BY <1>2, PaidMove, Zenon
<1>4. ASSUME NEW f \in Exec \ {e} PROVE Paid(f)'
  <2>1. CASE trace' = trace
    <3>1. PICK n \in Nat : n = index[f]
      BY <1>2, Zenon
    <3>2. TokensBefore'[n] = TokensBefore[n]
      BY <2>1, TokensSame, Zenon
    <3> QED
      BY <1>2, <3>1, <3>2 DEF Same, Paid
  <2>2. ASSUME NEW s, Recorded(e, s) PROVE Paid(f)'
    <3>1. index'[f] = 0
      BY <2>2, WriterRecords, Zenon DEF Same
    <3> QED
      BY <3>1 DEF Paid
  <2> QED
    BY <2>1, <2>2, MoveRecords, Zenon
<1> SUFFICES Billed'
  BY <1>3, <1>4, Zenon DEF TokenInv
<1>5. ASSUME NEW s, Recorded(e, s), pc[e] \in {"asked", "record"}, asked'[e] = asked[e]
      PROVE  Billed'
  <2>1. asked'[e] > 0 /\ pc[e] # "done"
    BY <1>2, <1>5 DEF Tally, InTool, TypeInv, Counts
  <2> QED
    BY <1>2, <1>5, <2>1, BilledRecorded, Zenon
<1>6. ASSUME trace' = trace, index'[e] = index[e], asked[e] > 0 => asked'[e] > 0,
             pc[e] # "done", run'.status = run.status, run'.tokens = run.tokens
      PROVE  Billed'
  <2>1. \A f \in Exec : /\ pc[f] = "done" => pc'[f] = "done" /\ index'[f] = index[f]
                        /\ asked[f] > 0 => asked'[f] > 0
    BY <1>6, Zenon DEF Same
  <2> QED
    BY <1>1, <1>2, <1>6, <2>1, BilledKept, Zenon
<1>7. CASE Starts(e) \/ Fails(e) \/ Stops(e) \/ Asks(e) \/ Tools(e)
  <2>1. /\ trace' = trace /\ index'[e] = index[e]
        /\ run'.status = run.status /\ run'.tokens = run.tokens
    BY <1>7, Zenon DEF Starts, Fails, Stops, Asks, Tools, Unrecorded
  <2>2. pc[e] # "done"
    BY <1>7, Zenon DEF Starts, Fails, Stops, Asks, Tools, Before, Looping, InTool
  <2>3. asked'[e] = asked[e] \/ asked'[e] = asked[e] + 1
    BY <1>7, Zenon DEF Starts, Fails, Stops, Asks, Tools
  <2>4. asked[e] > 0 => asked'[e] > 0
    BY <2>3 DEF TypeInv, Counts
  <2> QED
    BY <1>6, <2>1, <2>2, <2>4, Zenon
<1>8. CASE Succeeds(e) \/ \E calls \in Calls \ {<<>>} : CallsTools(e, calls)
  <2>1. PICK tokens : Responds(e, tokens)
    BY <1>8, Zenon DEF Succeeds, CallsTools
  <2> QED
    BY <1>5, <2>1, Zenon DEF Responds
<1>9. CASE Tells(e)
  BY <1>5, <1>9, Zenon DEF Tells
<1>10. CASE Ends(e)
  <2>1. /\ pc[e] # "done" /\ pc'[e] = "done" /\ trace' = trace
        /\ index'[e] = index[e] /\ asked'[e] = asked[e]
    BY <1>10, Zenon DEF Ends, Looping, InTool
  <2>2. CASE run' = run
    BY <1>6, <2>1, <2>2, Zenon
  <2>3. CASE /\ pc[e] = "report"
             /\ run' = [run EXCEPT !.status = result[e], !.tokens = used[e]]
    <3>1. \A f \in Exec : index'[f] = index[f] /\ asked'[f] = asked[f]
      BY <2>1, Zenon DEF Same
    <3> QED
      BY <1>1, <1>2, <2>1, <2>3, <3>1, BilledReported, Zenon
  <2> QED
    BY <1>10, <2>2, <2>3, Zenon DEF Ends
<1> QED
  BY <1>7, <1>8, <1>9, <1>10, Zenon DEF Move

LEMMA TokenStep ==
    ASSUME AgentLoopAssumption, TypeInv, RowInv, LocalInv, WriterInv, TokensRecur, TokensRecur',
           TokenInv, [Next]_vars
    PROVE  TokenInv'
<1> SUFFICES ASSUME run' # None PROVE TokenInv'
  BY Zenon DEF TokenInv
<1>1. ASSUME NEW e \in Exec, Move(e), \A f \in Exec \ {e} : Same(f) PROVE TokenInv'
  BY <1>1, TokenMove, Zenon
<1>2. CASE Elsewhere
  <2>1. /\ run # None /\ run' = run /\ trace' = trace
        /\ \A f \in Exec : Same(f)
    BY <1>2, Zenon DEF Elsewhere
  <2>2. \A f \in Exec : /\ pc[f] = "done" => pc'[f] = "done" /\ index'[f] = index[f]
                        /\ asked[f] > 0 => asked'[f] > 0
    BY <2>1, Zenon DEF Same
  <2>3. Billed'
    BY <2>1, <2>2, BilledKept, Zenon DEF TokenInv
  <2>4. ASSUME NEW f \in Exec PROVE Paid(f)'
    <3>1. PICK n \in Nat : n = index[f]
      BY Zenon DEF TypeInv, Counts
    <3>2. TokensBefore'[n] = TokensBefore[n]
      BY <2>1, TokensSame, Zenon
    <3> QED
      BY <2>1, <3>1, <3>2 DEF Same, Paid, TokenInv
  <2> QED
    BY <2>3, <2>4, Zenon DEF TokenInv
<1> QED
  BY <1>1, <1>2, NextMoves, Zenon

\* A run that succeeded, or was stopped by its budget, carries the tokens of its
\* stored trace, unless the execution that reported last is not the one that wrote
\* it: what Execute adds up in result.TotalTokens is what it passes to Record.
THEOREM AgentLoopTokensMatchTrace == Spec => []TokensMatchTrace
<1>1. Init => TokenInv
  BY DEF Init, TokenInv, Billed, Paid
<1>2. CoreInv /\ TokensRecur /\ TokensRecur' /\ TokenInv /\ [Next]_vars => TokenInv'
  BY TokenStep, AgentLoopAssumption, Zenon DEF CoreInv
<1>3. TokenInv => TokensMatchTrace
  BY Zenon DEF TokenInv, Billed, TokensMatchTrace
<1>4. TokensRecur
  BY TokensRecursive, Zenon
<1> QED
  BY <1>1, <1>2, <1>3, <1>4, CoreInvariant, PTL DEF Spec

=============================================================================
