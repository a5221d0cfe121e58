SPECIFICATION FairSpec
CONSTANTS
    w1 = w1
    w2 = w2
    t1 = t1
    t2 = t2
    None = None
    Worker = {w1, w2}
    Tick = {t1}
    MaxMisses = 1
    Width = 2
    MaxFaults = 1
INVARIANTS
    KeysMatchPool
    AsksEveryWorker
PROPERTIES
    BeatingWorkerIsOffered
    DeadWorkerIsForgotten
    OfferEnds
