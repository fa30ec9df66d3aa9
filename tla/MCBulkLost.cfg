\* Batches whose paths contradict each other: does a later note replace an earlier
\* directory, which note set refuses to do.
CONSTANTS
    x = x
    y = y
    u = u
    v = v
    Names = {"a", "b"}
    Depth = 2
    Refused = Refused
    Absent = Absent
    Texts = {x, y}
    WordsOf <- MCWordsOf
    Paths <- MCPaths
    MdOf <- MCMdOf
    Batches <- MCBatches
    MaxCommits = 3
    MaxTheirs = 1
SPECIFICATION Spec
INVARIANTS BulkLands
