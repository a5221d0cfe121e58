SPECIFICATION FairSpec
CONSTANTS
    Invalid = Invalid
    None = None
    MaxExec = 2
    FirstAgent <- MCFirst
    Agents <- MCAgents
    Registered <- MCRegistered
    Telegram = "send_telegram"
    Calls <- MCCalls
    Usage = {1, 3}
    Limit = 2
    MaxText = 6
    MaxSteps = 2
    MaxTokens = 2
    ContextRuns = 1
    MaxOutputs = 1
    MaxEvents = 1
CHECK_DEADLOCK FALSE
INVARIANTS
    TraceExplains
    EffectsAreTraced
    WithinBudget
    TokensMatchTrace
    MessageArrives
PROPERTIES
    ExecutionEnds
