SPECIFICATION Spec
CONSTANTS
    LowerLabel <- MCLowerLabel
    Underscored = {"_dmarc"}
    Escaped <- MCEscaped
    ExcludeZones <- MCExcludeZones
    NameRank <- MCNameRank
    defaultPort = 443
    Worlds <- MCWorlds
INVARIANTS
    TypeOK
    AggregateAsDeclared
    DatesAreKept
    FailureStaysLocal
    ExcludedStaysOut
