SPECIFICATION AcquisitionSpec
CONSTANTS
    h1 = h1
    h2 = h2
    i1 = i1
    i2 = i2
    m1 = m1
    m2 = m2
    u1 = u1
    u2 = u2
    q1 = q1
    q2 = q2
    Attempts = 2
    Infohashes = {h1, h2}
    None = None
    Broken = Broken
    Links = {u1, u2}
    References = {u1, u2}
    MaxRedirects = 1
    Indexers <- MCIndexers
    Movies <- MCMovies
    Offers <- MCOffers
    Queries <- MCQueries
    Scopes = {{1}, {1, 2}}
    SeriesOffers <- MCSeriesOffers
    MinSeeders = 2
    ResultLimit = 2
    Maximum = 2
    Hashes = {h1, h2}
    Preflight = pf
    Jobs = 2
    MaxFailures = 2
    ProbeJobs <- MCProbeJobs
PROPERTIES PreexistingUntouched
CHECK_DEADLOCK FALSE
