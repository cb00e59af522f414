SPECIFICATION Spec
CONSTANTS
    s1 = s1
    s2 = s2
    m1 = m1
    m2 = m2
    m3 = m3
    a1 = a1
    a2 = a2
    a3 = a3
    a4 = a4
    a5 = a5
    Serializers <- TwoSerializers
    Messages <- ThreeMessages
    Addresses <- FiveAddresses
    Null = Null
SYMMETRY Symmetry
INVARIANTS TypeOK OwnedOnce OnlyArgumentDangles
