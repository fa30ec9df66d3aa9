\* A library with vectors, pulled into another one: can that one be collected.
CONSTANTS
    l1 = l1
    l2 = l2
    c1 = c1
    c2 = c2
    none = none
    Libs = {l1, l2}
    Home = {l1}
    Contents = {c1, c2}
    Keeps = {0}
    None = none
    MaxSnaps = 3
    MaxMoves = 1
    MaxPart = 1
SPECIFICATION Spec
SYMMETRY Interchangeable
INVARIANTS PulledCanBeCollected
