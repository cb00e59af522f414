SPECIFICATION FairSpec
CONSTANTS
    d1 = d1
    d2 = d2
    dod = dod
    NoDico = NoDico
    DicoOfDico = dod
    Dico <- TwoDicos
    Header <- Headers
    Items <- Flat
    DicoId = 1
    FieldId = 13
    Message <- Mixed
    FieldSize <- Sizes
    Careless <- NoUsage
    MaxSent = 2
    MaxBuffer = 8
INVARIANTS TypeOK AcceptsEncoded InSync
PROPERTY Delivered
CHECK_DEADLOCK FALSE
