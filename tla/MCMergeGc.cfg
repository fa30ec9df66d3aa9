\* gc while a merge is under way: the history of the other side is not held by any
\* branch, and merge --continue names it as a parent.
CONSTANTS
    Clients = {c1}
    Paths = {p1}
    Values = {v1, v2}
    Absent = Absent
    None = None
    Commands = {"merge", "decide", "continue", "gc"}
    GcInMerge = TRUE
    MaxSnaps = 6
    MaxKills = 0
    Scenes <- GcScenes
SPECIFICATION MCSpec
SYMMETRY Interchangeable
INVARIANTS HistoryHeld
