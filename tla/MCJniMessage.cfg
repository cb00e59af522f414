SPECIFICATION Spec
CONSTANTS
    zero = zero
    one = one
    None = None
    Refused = Refused
    Items <- FourItems
    OtherIds = {0, 9}
    OwnId = 20
    Data <- TwoData
    Zero = zero
    Inners <- SomeInners
    Indexes <- SomeIndexes
    MaxLen = 2
INVARIANTS TypeOK CheckSound
PROPERTY ImplementsStore
CHECK_DEADLOCK FALSE
