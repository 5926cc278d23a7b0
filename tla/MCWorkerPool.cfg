SPECIFICATION FairSpec
CONSTANTS
    N = 4
    Workers = {w1, w2, w3}
    SlotsOf <- GroupSlots
    Cancellable = TRUE
INVARIANTS
    TypeOK
    NoSharedSlot
    ReturnedComplete
    OneLookupPerJob
PROPERTIES
    QuietAfterReturn
    EventuallyReturns
