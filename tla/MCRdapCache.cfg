SPECIFICATION Spec
CONSTANTS
    Domains = {shop, corp}
    Dates = {1, 2}
    TTL = 1
    MaxLag = 1
    LastTick = 4
SYMMETRY DomainSymmetry
INVARIANTS
    TypeOK
    BoundedStaleness
PROPERTIES
    NoNeedlessRequest
    FlushKeepsAnswers
