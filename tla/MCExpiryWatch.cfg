SPECIFICATION Spec
CONSTANTS
    TicksPerDay = 4
    Offsets <- TwoZones
    Thresholds = {0, 1, 3}
    LastTick = 28
    CertDates <- DatesUTC
    RegistryDates <- DatesZoned
INVARIANTS
    TypeOK
PROPERTIES
    UrgencyNeverDrops
    WarnedBeforeExpired
