SPECIFICATION TransferSpec
CONSTANTS
    a = a
    b = b
    m = m
    noname = noname
    missing = missing
    text = text
    zero = zero
    odd = odd
    even = even
    Names <- AllNames
    NoName = noname
    NameOrder <- Order
    IdMax = 5
    IntSpan = 32
    TypeSpan = 256
    AsDouble <- Rounded
    DicoId = 1
    Defaults <- SomeDefaults
    Zero = zero
    NoDico = NoDico
    NoDoc = NoDoc
    NoMsg = NoMsg
    Missing = missing
    Text = text
    Versions <- SomeVersions
    FieldElts <- Fields
    MessageElts <- Messages
    ItemElts <- Items
    ForeignMsgs <- OtherMsgs
INVARIANTS TransferTypeOK IndexAgree XmlConsistent
PROPERTIES RoundTrip BothImplementStore
