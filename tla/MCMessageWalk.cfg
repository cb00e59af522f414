SPECIFICATION Spec
CONSTANTS
    w1 = w1
    w2 = w2
    MaxId = 4
    ItemIds <- ThreeItems
    Walks <- TwoWalks
SYMMETRY Symmetry
INVARIANTS TypeOK WalkExact OldIsFound
CHECK_DEADLOCK FALSE
