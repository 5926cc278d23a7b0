SPECIFICATION ReportSpec
CONSTANTS
    TicksPerDay = 2
    Offsets = {0}
    RegistrableDomain <- MCRegistrable
    MismatchToleranceDays = 1
    Inputs <- SortedLists
    LookupResults <- Answers
    MaxLen = 2
    Thresholds = {1, 3}
    SourceOf <- MCSourceOf
    Unclassified = {"corp.com"}
    CertResults <- Certs
    now <- Now
INVARIANTS
    HealthyMeansNoError
