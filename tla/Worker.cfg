SPECIFICATION FairSpec
CONSTANTS
    r1 = r1
    r2 = r2
    r3 = r3
    r4 = r4
    g1 = g1
    g2 = g2
    None = None
    Run = {r1, r2, r3, r4}
    Goroutine = {g1, g2}
    QueueCap = 1
INVARIANTS
    AcceptedIsHeldOnce
    ConnectionOutlivesRuns
PROPERTIES
    AcceptedEarlyIsRun
    StopCompletes
