SPECIFICATION Spec
CONSTANTS
    TicksPerDay = 2
    Offsets = {0}
    Thresholds = {3}
    RegistrableDomain <- MCRegistrable
    MismatchToleranceDays = 1
    NumEntries = 2
    domains <- TwoPorts
    Clock <- DayFour
    CertResults <- TwoCerts
    LookupResults <- RegistryFlaps
    Backend = "smtp"
    URL = TRUE
    FailureURL = FALSE
INVARIANTS
    NoResend
