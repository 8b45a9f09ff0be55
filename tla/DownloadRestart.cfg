SPECIFICATION Spec
CONSTANTS
    c1 = c1
    Controllers = {c1}
    Size = 1
    StallPolls = 1
    StartupCycles = 1
    OverallTimeout = FALSE
INVARIANTS
    OwnDirectoryAccepted
