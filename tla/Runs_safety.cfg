SPECIFICATION Spec
CONSTANTS
    r1 = r1
    r2 = r2
    w1 = w1
    w2 = w2
    t1 = t1
    t2 = t2
    a1 = a1
    None = None
    Run = {r1}
    Agent = {a1}
    AgentOf <- MCAgentOf
    Worker = {w1, w2}
    PoolSize = 1
    QueueCap = 1
    Tick = {t1, t2}
    BatchSize = 1
    MaxIndex = 3
    MaxFaults = 2
SYMMETRY Symmetric
INVARIANTS
    TypeOK
    OneActor
    
    ClaimIsExclusive
    DeliveredOncePerExcuse
    RunningHasLease
PROPERTIES
    NeverPendingAgain
    EndedChangesOnlyIfContested
    
