SPECIFICATION Spec
CONSTANTS
    p1 = p1
    p2 = p2
    Procs = {p1, p2}
    Nobody = Nobody
    MaxRuns = 1
    Target = 2
    Orphans = FALSE
    LegacyStart = FALSE
SYMMETRY Symmetry
INVARIANTS
    TypeOK
    ItemsInOrder
    ReportsAreTruthful
    AggregatesSettle
    HandoffVerified
    StallConsent
PROPERTIES
    SettledIsFinal
    KeepsPromise
