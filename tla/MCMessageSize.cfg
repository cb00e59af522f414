SPECIFICATION Spec
CONSTANTS
    r = r
    o = o
    a = a
    b = b
    i = i
    Slot <- Deep
    Path <- DeepPath
    Root <- Roots
    Tag <- OneByteTags
    Item = {i}
    ValueSize = {0, 2, 3}
    MaxCopied = 20
    IllTyped = {3}
    Repeated = {b}
    Careless <- NoUsage
INVARIANTS TypeOK SizeIsTrue CacheCoherent RefsUncached PrefixExact
PROPERTY TrimKeepsLength
