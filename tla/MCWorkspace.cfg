\* One library and a clone, every sequence of commands up to the bounds, where
\* it ends: no command waits for another.
CONSTANTS
    x = x
    y = y
    u = u
    v = v
    Names = {"a", "b"}
    Depth = 2
    Refused = Refused
    Absent = Absent
    Texts = {x, y}
    WordsOf <- MCWordsOf
    Paths <- MCPaths
    MdOf <- MCMdOf
    Batches <- MCBatches
    MaxCommits = 3
    MaxTheirs = 1
SPECIFICATION Spec
CHECK_DEADLOCK FALSE
INVARIANTS TypeOK SearchExact ConflictsAreExact MergeIsSymmetric BulkLandsApart
PROPERTIES ImplementsFlat ImportRestores
