----------------------------- MODULE MCStageFlow -----------------------------
(***************************************************************************)
(* Small instances of StageFlow: a path that is a note or a directory, and *)
(* a note in that directory.                                               *)
(***************************************************************************)
EXTENDS StageFlow, TLC

CONSTANTS x, y

MCNotes == {Note(x, 1), Note(y, 1)}
MCPaths == {<<"a">>, <<"a", "b">>}
\* States in which staging commands have overlapped count as one when they differ in the
\* histories alone: nothing looks at these before crossed ends, when both start anew.
Told == <<main, stage, c, crossed, IF crossed THEN None ELSE <<wanted, settled>>>>

Interchangeable == Permutations(Clients) \cup Permutations({x, y})
=============================================================================
