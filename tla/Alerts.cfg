SPECIFICATION FairSpec
CONSTANTS
    a1 = a1
    a2 = a2
    n1 = n1
    n2 = n2
    None = None
    Agent = {a1, a2}
    Notifier = {n1, n2}
    Threshold = 1
    MaxFailures = 2
    MaxFaults = 1
INVARIANTS
    AlertsBoundedByOverlap
PROPERTIES
    BrokenAgentIsReported
