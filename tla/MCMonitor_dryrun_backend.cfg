SPECIFICATION Spec
CONSTANTS
    TicksPerDay = 2
    Offsets = {0}
    Thresholds = {1}
    RegistrableDomain <- MCRegistrable
    MismatchToleranceDays = 1
    NumEntries = 1
    domains <- OneSite
    Clock <- FourAndSix
    CertResults <- CertRenewal
    LookupResults <- NoLookups
    Backend = "dryrun"
    URL = TRUE
    FailureURL = FALSE
INVARIANTS
    RememberedWasMailed
