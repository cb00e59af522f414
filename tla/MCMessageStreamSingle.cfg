SPECIFICATION Spec
CONSTANTS
    d1 = d1
    d2 = d2
    dod = dod
    NoDico = NoDico
    DicoOfDico = dod
    Dico <- OneDico
    Header <- Headers
    Items <- Flat
    DicoId = 1
    FieldId = 13
    Message <- Simple
    FieldSize <- Sizes
    Careless <- OnlySingle
    MaxSent = 2
    MaxBuffer = 9
PROPERTY RestRejected
CHECK_DEADLOCK FALSE
