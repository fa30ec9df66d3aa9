\* A note set by the server while gc runs from the command line.
CONSTANTS
    Writers = {w1}
    Branches = {main}
    Paths = {p1}
    Values = {v1}
    Absent = Absent
    None = None
    Commands = {"set", "gc"}
    GcAlone = FALSE
    MaxSnaps = 2
    MaxKills = 0
SPECIFICATION Spec
INVARIANTS HeadsClosed
