SPECIFICATION TransferSpec
CONSTANTS
    c1 = c1
    Controllers = {c1}
    Size = 2
    StallPolls = 2
    StartupCycles = 2
    OverallTimeout = TRUE
    Paths = 2
INVARIANTS
    TransferTypeOK
    HandoffKeepsFiles
    ReadyIsVerified
    RetryIsSafe
    CleanupReportIsTrue
PROPERTIES
    Consent
    EveryDownloadEnds
    KeepsCustody
    EveryTransferEnds
