SPECIFICATION Spec
CONSTANTS
    TicksPerDay = 2
    Offsets = {0}
    Thresholds = {1}
    RegistrableDomain <- MCRegistrable
    MismatchToleranceDays = 1
    NumEntries = 3
    domains <- TwoApexes
    Clock <- FourAndSix
    CertResults <- NoCerts
    LookupResults <- RegistryFlaps
    Backend = "smtp"
    URL = TRUE
    FailureURL = FALSE
INVARIANTS
    TypeOK
    OneAlertPerRegistration
