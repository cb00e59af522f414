SPECIFICATION FairSpec
CONSTANTS
    d1 = d1
    d2 = d2
    dod = dod
    NoDico = NoDico
    DicoOfDico = dod
    Dico <- TwoDicos
    Header <- Headers
    Items <- Clash
    DicoId = 1
    FieldId = 13
    Message <- Clashing
    FieldSize <- Sizes
    Careless <- AllUsages
    MaxSent = 2
    MaxBuffer = 6
INVARIANTS AtBoundary NeverMisread LostAtFirst
PROPERTY CallReturns
CHECK_DEADLOCK FALSE
