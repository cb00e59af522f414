SPECIFICATION Spec
CONSTANTS
    a = a
    b = b
    c = c
    m = m
    noname = noname
    zero = zero
    Names <- AllNames
    NoName = noname
    IdMax = 40
    Defaults <- OneDefault
    Zero = zero
    Chars <- Codes
    Dicos <- Variants
INVARIANTS TypeOK  OneChangeDetected
CHECK_DEADLOCK FALSE
