SPECIFICATION FairSpec
CONSTANTS
    t1 = t1
    t2 = t2
    s1 = s1
    s2 = s2
    Schedule = {s1, s2}
    Null = Null
    Tick = {t1, t2}
    Crons <- MCCrons
    Day = 6
    Gap = 3
    GapLen = 1
    Fold = 9
    FoldLen = 2
    Reference = 20
    MinInterval = 2
    Grace = 1
    MaxCatchUp = 3
    Horizon = 11
    MaxSaves = 2
    MaxFaults = 1
PROPERTIES
    FiresOnce
    
    
    DueIsMaterialized
