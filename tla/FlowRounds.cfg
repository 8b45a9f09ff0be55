SPECIFICATION Spec
CONSTANTS
    p1 = p1
    p2 = p2
    Procs = {p1, p2}
    Nobody = Nobody
    MaxRuns = 2
    Target = 1
    Orphans = FALSE
    LegacyStart = TRUE
SYMMETRY Symmetry
INVARIANTS
    OneOpenRun
    OneRowPerMovie
PROPERTIES
    OnlyOperatorUnblocks
