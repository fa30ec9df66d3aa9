\* Two writers race on one branch: every interleaving of the steps of note set,
\* note rm, commit, index rebuild and reset, with one of them dying.
CONSTANTS
    Writers = {w1, w2}
    Branches = {main}
    Paths = {p1, p2}
    Values = {v1, v2}
    Absent = Absent
    None = None
    Commands = {"set", "rm", "commit", "reindex", "reset"}
    GcAlone = TRUE
    MaxSnaps = 3
    MaxKills = 1
SPECIFICATION Spec
SYMMETRY Interchangeable
INVARIANTS TypeOK IndexAgrees
PROPERTIES UndisturbedEditsKeepAll ImplementsLww
