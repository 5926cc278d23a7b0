SPECIFICATION Spec
CONSTANTS
    Runs = {r1, r2}
    NoRun = NoRun
    AlertSets <- MCAlertSets
INVARIANTS
    TypeOK
    CronRunsExclude
    SavesAreSerial
    RememberedWasMailed
