\* One writer at a time and the collector, over two branches that share objects,
\* with kills in the middle of commands and of sweeps.
CONSTANTS
    Writers = {w1}
    Branches = {main, side}
    Paths = {p1, p2}
    Values = {v1}
    Absent = Absent
    None = None
    Commands = {"set", "rm", "embed", "reindex", "reset", "gc"}
    GcAlone = TRUE
    MaxSnaps = 3
    MaxKills = 2
SPECIFICATION Spec
SYMMETRY Interchangeable
INVARIANTS HeadsClosed VecAgrees
PROPERTIES CollectionExact
