SPECIFICATION Spec
CONSTANTS
    r = r
    o = o
    a = a
    b = b
    i = i
    Slot <- Single
    Path <- SinglePath
    Root = {r}
    Tag <- OneByteTags
    Item = {i}
    ValueSize = {0, 2, 3}
    MaxCopied = 8
    IllTyped = {3}
    Repeated = {b}
    Careless <- AllUsages
INVARIANT ColdEncodeExact
