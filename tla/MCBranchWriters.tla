--------------------------- MODULE MCBranchWriters ---------------------------
(***************************************************************************)
(* Small instances of BranchWriters.  Paths, values and writers are        *)
(* interchangeable: nothing orders them or picks one.                      *)
(***************************************************************************)
EXTENDS BranchWriters, TLC

Interchangeable == Permutations(Writers) \cup Permutations(Paths) \cup Permutations(Values)
=============================================================================
