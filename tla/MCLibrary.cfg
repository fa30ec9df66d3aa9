\* Two libraries, gc with the watermark 0 and 1.
CONSTANTS
    l1 = l1
    l2 = l2
    c1 = c1
    c2 = c2
    none = none
    Libs = {l1, l2}
    Home = {l1}
    Contents = {c1, c2}
    Keeps = {0, 1}
    None = none
    MaxSnaps = 3
    MaxMoves = 3
    MaxPart = 1
SPECIFICATION Spec
CHECK_DEADLOCK FALSE
SYMMETRY Interchangeable
INVARIANTS TypeOK NothingElseIsMissing FsckIsSound
PROPERTIES GcIsExact
