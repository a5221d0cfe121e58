SPECIFICATION Spec
CONSTANTS
    s1 = s1
    s2 = s2
    Coordinator = Coordinator
    Worker = Worker
    None = None
    Server = {s1, s2}
    Release <- MCRelease
    WithPassword = {s1}
    MaxTries = 2
    MaxFaults = 2
    MaxReports = 1
CHECK_DEADLOCK FALSE
INVARIANTS
    MigrationsOnceInOrder
    ServesCurrentAndClosed
PROPERTIES
    EveryProcessServes
