\* Two clients, every command and every death.
CONSTANTS
    Clients = {c1, c2}
    x = x
    y = y
    Names = {"a", "b"}
    Depth = 2
    Refused = Refused
    Absent = Absent
    None = None
    Notes <- MCNotes
    Paths <- MCPaths
SPECIFICATION Spec
SYMMETRY Interchangeable
VIEW Told
INVARIANTS TypeOK StageIsWanted CommitIsWanted CommitTwiceIsOnce
PROPERTIES NothingStagedIsLost
