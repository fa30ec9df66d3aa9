\* One client: every sequence of commands at two paths with one of them dying between its
\* store calls, and merges that start again at one path after two that died, while the
\* branch and the remote both go on.
CONSTANTS
    Clients = {c1}
    Paths = {p1, p2}
    Values = {v1, v2}
    Absent = Absent
    None = None
    Commands = {"set", "push", "reset", "pull", "merge", "decide", "continue", "abort", "gc"}
    GcInMerge = FALSE
    MaxSnaps = 8
    MaxKills = 2
    Scenes <- MergeScenes
SPECIFICATION MCSpec
SYMMETRY Interchangeable
INVARIANTS TypeOK FrozenHead StateIsWhole HistoryHeld
PROPERTIES ContinueIsFaithful
