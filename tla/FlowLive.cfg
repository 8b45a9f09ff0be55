SPECIFICATION FairSpec
CONSTANTS
    p1 = p1
    p2 = p2
    Procs = {p1, p2}
    Nobody = Nobody
    MaxRuns = 1
    Target = 1
    Orphans = FALSE
    LegacyStart = FALSE
PROPERTIES
    EveryCommandEnds
    InterruptedRunResolves
