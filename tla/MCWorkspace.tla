----------------------------- MODULE MCWorkspace -----------------------------
(***************************************************************************)
(* A small instance of Workspace: a path that is a note or a directory,    *)
(* and two notes in that directory.                                        *)
(***************************************************************************)
EXTENDS Workspace

CONSTANTS x, y, u, v

MCPaths   == {<<"a">>, <<"a", "a">>, <<"a", "b">>}
MCWordsOf == (x :> {u}) @@ (y :> {u, v})

\* a tag of y has a comma: read back it is two tags, and those are the tags of x
MCMdOf    == (x :> x) @@ (y :> x)

\* two notes in one directory; one path twice; a note that is a directory for another,
\* which is refused when it comes first
MCBatches == {<<<<<<"a", "b">>, x>>, <<<<"a", "a">>, y>>>>,
              <<<<<<"a", "a">>, x>>, <<<<"a", "b">>, y>>, <<<<"a", "b">>, x>>>>,
              <<<<<<"a", "b">>, x>>, <<<<"a">>, y>>>>,
              <<<<<<"a">>, x>>, <<<<"a", "b">>, y>>>>}
=============================================================================
