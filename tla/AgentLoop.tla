------------------------------ MODULE AgentLoop ------------------------------
(***************************************************************************)
(* Executor.Execute: the conversation with the model, the tools it asks    *)
(* for, the budgets, and the trace and the outcome that are stored.  One   *)
(* run is executed, by more than one execution if it was delivered more    *)
(* than once (see Runs), while the agent may be edited or deleted and      *)
(* other runs of it succeed.  The model provider and Telegram are          *)
(* external: they answer what they like, or fail.                          *)
(***************************************************************************)
EXTENDS Splitting, FiniteSetsExt

CONSTANTS
    MaxExec,      \* bound: executions of the run
    FirstAgent,   \* the content of the agents row when the run begins
    Agents,       \* contents the agents row may have: prompt, tools
    Registered,   \* names of the tools in the registry
    Telegram,     \* the name send_telegram
    Calls,        \* sequences of tool calls that one response may ask for
    Usage,        \* token counts that one response may report
    MaxSteps,     \* agents.max_steps
    MaxTokens,    \* agents.max_tokens
    ContextRuns,  \* agents.context_runs, 0 unless the context mode is last_n
    MaxOutputs,   \* bound: other runs of the agent that succeed
    MaxEvents,    \* bound: edits of the agent, failed statements, crashes
    Invalid,      \* arguments that are not JSON
    None          \* no row

ASSUME AgentLoopAssumption ==
    /\ MaxExec \in Nat
    /\ FirstAgent \in Agents
    /\ MaxSteps \in Nat \ {0}
    /\ MaxTokens \in Nat \ {0}
    /\ Usage \subseteq Nat
    /\ ContextRuns \in Nat
    /\ MaxOutputs \in Nat
    /\ MaxEvents \in Nat
    /\ Calls \subseteq Seq(UNION {Range(calls) : calls \in Calls})

VARIABLES
    \* committed rows
    agent,     \* the agents row, or None once it is deleted
    outputs,   \* outputs of other runs of the agent that succeeded, oldest first
    run,       \* the runs row: prompt, status and tokens; None when it is deleted
    trace,     \* run_steps: step_index -> step
    \* an execution
    pc,        \* where it is
    own,       \* the agent it loaded
    prompt,    \* what its conversation starts from
    messages,  \* the conversation after that
    step,      \* iterations of its loop
    index,     \* stepIndex
    todo,      \* tool calls of the last response that are not yet answered
    used,      \* tokens of its result
    unsent,    \* parts its send_telegram has still to send
    answer,    \* the content of the tool call in progress
    result,    \* the status it returns
    events,    \* edits and faults so far
    \* history, for the properties only
    asked,     \* model calls of an execution
    ran,       \* tool calls that reached a tool, in order
    received   \* parts the operator received of the send_telegram in progress

\* Executions are numbered in the order they begin in.
Exec == 1 .. MaxExec

rowVars == <<agent, outputs, run, trace>>
startVars == <<own, prompt>>
loopVars == <<messages, step, index, todo, used>>
toolVars == <<unsent, answer, received>>
localVars == <<startVars, messages, step, todo, toolVars>>
vars == <<rowVars, pc, startVars, loopVars, toolVars, result, events, asked, ran>>

Init ==
    /\ agent = FirstAgent
    /\ outputs = <<>>
    /\ run = [prompt |-> None, status |-> "running", tokens |-> 0]
    /\ trace = <<>>
    /\ pc = [e \in Exec |-> "idle"]
    /\ own = [e \in Exec |-> None]
    /\ prompt = [e \in Exec |-> None]
    /\ messages = [e \in Exec |-> <<>>]
    /\ step = [e \in Exec |-> 0]
    /\ index = [e \in Exec |-> 0]
    /\ todo = [e \in Exec |-> <<>>]
    /\ used = [e \in Exec |-> 0]
    /\ unsent = [e \in Exec |-> <<>>]
    /\ answer = [e \in Exec |-> None]
    /\ result = [e \in Exec |-> None]
    /\ events = 0
    /\ asked = [e \in Exec |-> 0]
    /\ ran = <<>>
    /\ received = [e \in Exec |-> <<>>]

Event == events < MaxEvents /\ events' = events + 1

\* The local variables of Execute, but for its result.
Forget(e) ==
    /\ own' = [own EXCEPT ![e] = None]
    /\ prompt' = [prompt EXCEPT ![e] = None]
    /\ messages' = [messages EXCEPT ![e] = <<>>]
    /\ step' = [step EXCEPT ![e] = 0]
    /\ todo' = [todo EXCEPT ![e] = <<>>]
    /\ unsent' = [unsent EXCEPT ![e] = <<>>]
    /\ answer' = [answer EXCEPT ![e] = None]
    /\ received' = [received EXCEPT ![e] = <<>>]

Goto(e, where) == pc' = [pc EXCEPT ![e] = where]

\* Execute returns; its result is still to be reported.  What else it knew is gone.
Return(e, status) ==
    /\ Goto(e, "report")
    /\ result' = [result EXCEPT ![e] = status]
    /\ Forget(e)

\* Execute returns an error, and an empty result with it: no tokens.
Fail(e) ==
    /\ Return(e, "failed")
    /\ used' = [used EXCEPT ![e] = 0]

-----------------------------------------------------------------------------
(* Up to the loop *)

\* executeRun has the run; agents.Get finds the agent or fails.
LoadAgent(e) ==
    /\ pc[e] = "idle"
    /\ \A f \in 1 .. e - 1 : pc[f] # "idle"
    /\ \/ /\ agent # None
          /\ own' = [own EXCEPT ![e] = agent]
          /\ Goto(e, "context")
          /\ UNCHANGED <<prompt, messages, step, todo, used, toolVars, events, result>>
       \/ agent = None /\ Fail(e) /\ UNCHANGED events
       \/ Fail(e) /\ Event
    /\ UNCHANGED <<rowVars, index, asked, ran>>

\* RecentOutputs: the newest come first.
RecentOutputs ==
    LET n == Len(outputs)
    IN  [i \in 1 .. Min({ContextRuns, n}) |-> outputs[n + 1 - i]]

\* buildInitialMessages.
BuildMessages(e) ==
    /\ pc[e] = "context"
    /\ prompt' = [prompt EXCEPT ![e] = [text |-> own[e].prompt, previous |-> RecentOutputs]]
    /\ Goto(e, "render")
    /\ UNCHANGED <<rowVars, own, loopVars, toolVars, result, events, asked, ran>>

\* SetRenderedPrompt, which says nothing if the row is gone; then credentialFor
\* has a credential, or fails.
SetRenderedPrompt(e) ==
    /\ pc[e] = "render"
    /\ run' = IF run = None THEN None ELSE [run EXCEPT !.prompt = prompt[e]]
    /\ \/ Goto(e, "model") /\ UNCHANGED <<localVars, used, result>>
       \/ Fail(e)
    /\ UNCHANGED <<agent, outputs, trace, index, events, asked, ran>>

\* One of the statements of these steps does not get through.
StatementFails(e) ==
    /\ pc[e] \in {"context", "render"}
    /\ Event
    /\ Fail(e)
    /\ UNCHANGED <<rowVars, index, asked, ran>>

-----------------------------------------------------------------------------
(* The loop *)

\* Mutant: one iteration too many.
OverBudget_OffByOne(e) == step[e] > MaxSteps \/ used[e] > MaxTokens

OverBudget(e) == step[e] >= MaxSteps \/ used[e] > MaxTokens

\* The head of an iteration: stoppedByBudget, or Complete is called.  The clock
\* may have passed the deadline at any of them.
BeginStep(e) ==
    /\ pc[e] = "model"
    /\ \/ Return(e, "budget_exceeded") /\ UNCHANGED asked
       \/ /\ ~OverBudget(e)
          /\ Goto(e, "asked")
          /\ asked' = [asked EXCEPT ![e] = @ + 1]
          /\ UNCHANGED <<localVars, result>>
    /\ UNCHANGED <<rowVars, index, used, events, ran>>

\* StepStore.Record wants the run to exist and the index to be free.
CanRecord(e) == run # None /\ index[e] \notin DOMAIN trace

Record(e, s) ==
    /\ CanRecord(e)
    /\ trace' = [i \in DOMAIN trace \cup {index[e]} |-> IF i = index[e] THEN s ELSE trace[i]]
    /\ index' = [index EXCEPT ![e] = @ + 1]
    /\ UNCHANGED events

\* The insert is refused, or does not get through: Execute returns the error.
RecordFails(e) ==
    /\ \/ ~CanRecord(e) /\ UNCHANGED events
       \/ CanRecord(e) /\ Event
    /\ Fail(e)
    /\ UNCHANGED <<trace, index>>

ModelStep(tokens) == [kind |-> "model_call", tokens |-> tokens]
ToolStep(call, content) ==
    [kind |-> "tool_call", tool |-> call.tool, text |-> call.text, content |-> content]
AssistantMessage(calls) == [role |-> "assistant", calls |-> calls]
ToolMessage(id, content) == [role |-> "tool", id |-> id, content |-> content]

\* Mutant: only the last response counts.
Spent_Last(e, tokens) == tokens

Spent(e, tokens) == used[e] + tokens

\* Complete returns a response: its tokens count and its step is recorded.  One
\* without tool calls is the answer.
ModelResponds(e) ==
    /\ pc[e] = "asked"
    /\ \/ RecordFails(e)
       \/ \E tokens \in Usage :
            /\ used' = [used EXCEPT ![e] = Spent(e, tokens)]
            /\ Record(e, ModelStep(tokens))
            /\ \/ <<>> \in Calls /\ Return(e, "succeeded")
               \/ \E calls \in Calls \ {<<>>} :
                    /\ messages' = [messages EXCEPT ![e] = Append(@, AssistantMessage(calls))]
                    /\ todo' = [todo EXCEPT ![e] = calls]
                    /\ Goto(e, "tool")
                    /\ UNCHANGED <<startVars, step, toolVars, result>>
    /\ UNCHANGED <<agent, outputs, run, asked, ran>>

\* Complete returns an error: no connection, no answer in time, a status other
\* than 200, a body that is not JSON or holds no choice.
ModelFails(e) ==
    /\ pc[e] = "asked"
    /\ Fail(e)
    /\ UNCHANGED <<rowVars, index, events, asked, ran>>

-----------------------------------------------------------------------------
(* Tools *)

Call(e) == Head(todo[e])

\* runTool refuses a tool that was not granted to the agent or is not in the
\* registry, and arguments that are not JSON.
Refused(e) ==
    \/ Call(e).tool \notin own[e].tools \cap Registered
    \/ Call(e).text = Invalid

\* The tool call has its content, a result or an error.
Answer(e, content) ==
    /\ answer' = [answer EXCEPT ![e] = content]
    /\ Goto(e, "record")

\* Mutant: the call is refused once the tool has run.
RefuseTool_AfterRun(e) ==
    /\ pc[e] = "tool"
    /\ Refused(e)
    /\ ran' = Append(ran, Call(e))
    /\ Answer(e, "refused")
    /\ UNCHANGED <<rowVars, startVars, loopVars, unsent, received, result, events, asked>>

RefuseTool(e) ==
    /\ pc[e] = "tool"
    /\ Refused(e)
    /\ Answer(e, "refused")
    /\ UNCHANGED <<rowVars, startVars, loopVars, unsent, received, result, events, asked, ran>>

\* Any other tool takes effect at once.
RunTool(e) ==
    /\ pc[e] = "tool"
    /\ ~Refused(e)
    /\ Call(e).tool # Telegram
    /\ ran' = Append(ran, Call(e))
    /\ \E content \in {"ok", "error"} : Answer(e, content)
    /\ UNCHANGED <<rowVars, startVars, loopVars, unsent, received, result, events, asked>>

\* SendTelegram.Execute: a blank text and settings without token or chat are
\* errors (the settings may be edited at any time, see Alerts).
BeginSend(e) ==
    /\ pc[e] = "tool"
    /\ ~Refused(e)
    /\ Call(e).tool = Telegram
    /\ ran' = Append(ran, Call(e))
    /\ \/ Answer(e, "error") /\ UNCHANGED unsent
       \/ /\ ~Blank(Call(e).text)
          /\ unsent' = [unsent EXCEPT ![e] = Split(Call(e).text)]
          /\ Goto(e, "send")
          /\ UNCHANGED answer
    /\ received' = [received EXCEPT ![e] = <<>>]
    /\ UNCHANGED <<rowVars, startVars, loopVars, result, events, asked>>

\* Mutant: the other parts are tried although one was refused.
PartFails_GoOn(e) ==
    /\ unsent' = [unsent EXCEPT ![e] = Tail(@)]
    /\ IF Len(unsent[e]) = 1 THEN Answer(e, "ok") ELSE UNCHANGED <<pc, answer>>

\* A part that is not answered with 200 ends the call.
PartFails(e) ==
    /\ unsent' = [unsent EXCEPT ![e] = <<>>]
    /\ Answer(e, "error")

\* One request: the part is delivered, and the tool goes on if it learns so.
SendPart(e) ==
    /\ pc[e] = "send"
    /\ LET arrives == received' = [received EXCEPT ![e] = Append(@, Marshal(Head(unsent[e])))]
       IN \/ /\ arrives
             /\ unsent' = [unsent EXCEPT ![e] = Tail(@)]
             /\ IF Len(unsent[e]) = 1 THEN Answer(e, "ok") ELSE UNCHANGED <<pc, answer>>
          \/ arrives /\ PartFails(e)
          \/ PartFails(e) /\ UNCHANGED received
    /\ UNCHANGED <<rowVars, startVars, loopVars, result, events, asked, ran>>

\* Mutant: an error is not put into the conversation.
Hears_NoErrors(e) ==
    IF answer[e] = "ok" THEN Append(messages[e], ToolMessage(Call(e).id, answer[e])) ELSE messages[e]

\* The content goes back to the model, an error as well as a result.
Hears(e) == Append(messages[e], ToolMessage(Call(e).id, answer[e]))

\* The step of the call is recorded; the next call follows, or the next
\* iteration.
RecordTool(e) ==
    /\ pc[e] = "record"
    /\ \/ RecordFails(e)
       \/ /\ Record(e, ToolStep(Call(e), answer[e]))
          /\ messages' = [messages EXCEPT ![e] = Hears(e)]
          /\ todo' = [todo EXCEPT ![e] = Tail(@)]
          /\ IF Len(todo[e]) = 1
               THEN Goto(e, "model") /\ step' = [step EXCEPT ![e] = @ + 1]
               ELSE Goto(e, "tool") /\ UNCHANGED step
          /\ answer' = [answer EXCEPT ![e] = None]
          /\ received' = [received EXCEPT ![e] = <<>>]
          /\ UNCHANGED <<startVars, used, unsent, result>>
    /\ UNCHANGED <<agent, outputs, run, asked, ran>>

-----------------------------------------------------------------------------
(* The outcome, and what happens meanwhile *)

\* An execution is over.
Over(e) ==
    /\ Goto(e, "done")
    /\ used' = [used EXCEPT ![e] = 0]
    /\ result' = [result EXCEPT ![e] = None]

Reported(e) == run' = [run EXCEPT !.status = result[e], !.tokens = used[e]]

\* Mutant: it is repeated until a row was updated.
Report_UntilStored(e) ==
    /\ pc[e] = "report"
    /\ run # None
    /\ Reported(e) /\ UNCHANGED events
    /\ Over(e)
    /\ UNCHANGED <<agent, outputs, trace, localVars, index, asked, ran>>

\* executeRun and UpdateRunStatus: the outcome is written if the row is there, or
\* does not arrive.
Report(e) ==
    /\ pc[e] = "report"
    /\ \/ run # None /\ Reported(e) /\ UNCHANGED events
       \/ run = None /\ UNCHANGED <<run, events>>
       \/ Event /\ UNCHANGED run
    /\ Over(e)
    /\ UNCHANGED <<agent, outputs, trace, localVars, index, asked, ran>>

\* The worker dies.
Crash(e) ==
    /\ pc[e] \notin {"idle", "done"}
    /\ Event
    /\ Over(e)
    /\ Forget(e)
    /\ UNCHANGED <<rowVars, index, asked, ran>>

\* The agent is edited, while an execution may still load it.
UpdateAgent ==
    /\ agent # None
    /\ \E e \in Exec : pc[e] = "idle"
    /\ Event
    /\ \E a \in Agents \ {agent} : agent' = a
    /\ UNCHANGED <<outputs, run, trace, pc, startVars, loopVars, toolVars, result, asked, ran>>

\* Runs and their steps go with the agent.
DeleteAgent ==
    /\ agent # None
    /\ Event
    /\ agent' = None
    /\ run' = None
    /\ trace' = <<>>
    /\ outputs' = <<>>
    /\ UNCHANGED <<pc, startVars, loopVars, toolVars, result, asked, ran>>

\* Another run of the agent succeeds, while an execution may still read it.
OtherRunSucceeds ==
    /\ \E e \in Exec : pc[e] \in {"idle", "context"}
    /\ agent # None
    /\ Len(outputs) < MaxOutputs
    /\ outputs' = Append(outputs, Len(outputs) + 1)
    /\ UNCHANGED <<agent, run, trace, pc, startVars, loopVars, toolVars, result, events,
                   asked, ran>>

ExecStep(e) ==
    \/ LoadAgent(e)
    \/ BuildMessages(e)
    \/ SetRenderedPrompt(e)
    \/ StatementFails(e)
    \/ BeginStep(e)
    \/ ModelResponds(e)
    \/ ModelFails(e)
    \/ RefuseTool(e)
    \/ RunTool(e)
    \/ BeginSend(e)
    \/ SendPart(e)
    \/ RecordTool(e)
    \/ Report(e)

Next ==
    \/ \E e \in Exec : ExecStep(e) \/ Crash(e)
    \/ UpdateAgent
    \/ DeleteAgent
    \/ OtherRunSucceeds

Spec == Init /\ [][Next]_vars

\* Goroutines are scheduled, and every request is answered or times out.
FairSpec == Spec /\ \A e \in Exec : WF_vars(ExecStep(e))

-----------------------------------------------------------------------------
(* Properties *)

\* Where the group of tool steps after model step i ends.
GroupEnd(i, n) ==
    Min({k \in i + 1 .. n : k = n \/ trace[k].kind = "model_call"})

\* The response i of the conversation asked for the calls of the steps up to last
\* and for the open ones, and each of those steps answered its call.
Explained(e, i, last, open) ==
    LET m == messages[e][i + 1]
    IN  /\ m.role = "assistant"
        /\ Len(m.calls) = last - i - 1 + Len(open)
        /\ \A k \in DOMAIN m.calls :
             IF k < last - i
               THEN /\ m.calls[k].tool = trace[i + k].tool
                    /\ m.calls[k].text = trace[i + k].text
                    /\ messages[e][i + k + 1] = ToolMessage(m.calls[k].id, trace[i + k].content)
               ELSE m.calls[k] = open[k - (last - i - 1)]

\* The trace explains the conversation: what the model was told at any time is
\* its prompt and, step by step, what is stored.  A response asked for the tool
\* calls recorded after it and those not yet answered, and each of its calls
\* got the stored content, result or error, under its own id.  (Execute records
\* a step before the next begins, "so a trace survives a crash mid-run".)
TraceExplains ==
    \A e \in Exec : LET n == index[e] IN
        run # None /\ n > 0 /\ pc[e] \in {"model", "asked", "tool", "send", "record"} =>
            /\ \/ run.prompt = prompt[e]
               \/ \E f \in Exec \ {e} : pc[f] \notin {"idle", "context", "render"}
            /\ Len(messages[e]) = n
            /\ \A i \in 0 .. n - 1 : trace[i].kind = "model_call" =>
                 LET last == GroupEnd(i, n)
                 IN  Explained(e, i, last, IF last = n THEN todo[e] ELSE <<>>)

\* The tool steps of the trace whose call reached a tool.
Effects == {i \in DOMAIN trace : trace[i].kind = "tool_call" /\ trace[i].content # "refused"}

\* Nothing an agent did is missing from the trace, in the order it was done and
\* whoever executed the run, but for the last call: the execution may have died
\* or failed before that was recorded.
EffectsAreTraced ==
    run # None =>
        /\ Len(ran) - Cardinality(Effects) \in {0, 1}
        /\ \A i \in Effects :
             LET call == ran[Cardinality({j \in Effects : j <= i})]
             IN  trace[i].tool = call.tool /\ trace[i].text = call.text

\* "It cannot run away": no execution of a run calls the model more than
\* max_steps times, and only one of them more than once, as the others end at
\* their first step; the tokens of an execution exceed max_tokens by one
\* response at most.
WithinBudget ==
    /\ \A e \in Exec : asked[e] <= MaxSteps
    /\ \A e, f \in Exec : asked[e] > 1 /\ asked[f] > 1 => e = f
    /\ \A e \in Exec : \E last \in Usage \cup {0} : used[e] <= MaxTokens + last

\* Tokens of a step of the stored trace, and of the first n steps together.
StepTokens(i) ==
    IF i \in DOMAIN trace /\ trace[i].kind = "model_call" THEN trace[i].tokens ELSE 0

TokensBefore[n \in Nat] ==
    IF n = 0 THEN 0 ELSE TokensBefore[n - 1] + StepTokens(n - 1)

TracedTokens == TokensBefore[Cardinality(DOMAIN trace)]

\* A run that succeeded, or was stopped by its budget, carries the tokens of its
\* trace, unless the execution that reported last is not the one that wrote it.
TokensMatchTrace ==
    run # None /\ run.status \in {"succeeded", "budget_exceeded"} =>
        \/ run.tokens = TracedTokens
        \/ \E e, f \in Exec : e # f /\ asked[f] > 0 /\ pc[e] = "done" /\ index[e] = 0

\* A long message is split rather than truncated: the parts fit, a line that fits
\* is not broken, and when the tool says so the operator has received the whole
\* text but for line breaks, and but for characters that a cut fell into.
MessageArrives ==
    \A e \in Exec : pc[e] \in {"send", "record"} /\ ~Refused(e) /\ Call(e).tool = Telegram =>
        /\ Fit(received[e])
        /\ answer[e] = "ok" => Carries(received[e], Call(e).text)

\* Every execution ends, although the model keeps asking for tools that are
\* refused or fail, and Telegram keeps failing.
ExecutionEnds == \A e \in Exec : pc[e] # "idle" ~> pc[e] = "done"

=============================================================================
