------------------------------ MODULE MCLibrary ------------------------------
(***************************************************************************)
(* Small instances of Library.  The libraries outside Home, and contents,  *)
(* are interchangeable.                                                    *)
(***************************************************************************)
EXTENDS Library, TLC

Interchangeable == Permutations(Libs \ Home) \cup Permutations(Contents)
=============================================================================
