\* Files that are the export of the branch, unchanged: does their import change anything.
CONSTANTS
    x = x
    y = y
    u = u
    v = v
    Names = {"a", "b"}
    Depth = 2
    Refused = Refused
    Absent = Absent
    Texts = {x, y}
    WordsOf <- MCWordsOf
    Paths <- MCPaths
    MdOf <- MCMdOf
    Batches <- MCBatches
    MaxCommits = 3
    MaxTheirs = 1
SPECIFICATION Spec
INVARIANTS RoundTripKeeps
