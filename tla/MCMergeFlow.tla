----------------------------- MODULE MCMergeFlow -----------------------------
(***************************************************************************)
(* Small instances of MergeFlow.  A scene bounds what a behaviour does:    *)
(* which commands run, at which paths, with how many snapshots, and how    *)
(* many of them die.  It is chosen at the start.  Clients, paths and       *)
(* values are interchangeable.                                             *)
(***************************************************************************)
EXTENDS MergeFlow, TLC

CONSTANT Scenes

VARIABLE scene

\* two paths, so that a merge has a conflict at one and takes the other from a side;
\* local edits are what the library has at the start
Decided == [paths |-> Paths, kills |-> 1, snaps |-> 7,
            commands |-> {"reset", "pull", "merge", "decide", "continue", "abort", "gc"}]

\* one path, on which the branch and the remote both go on between the merges, and a
\* second command that dies
Repeated(q) == [paths |-> {q}, kills |-> 2, snaps |-> 8,
                commands |-> {"set", "push", "merge", "decide", "continue", "abort", "gc"}]

MergeScenes == {Decided} \cup {Repeated(q) : q \in Paths}
GcScenes    == {[paths |-> Paths, kills |-> 0, snaps |-> 6, commands |-> Commands]}

\* nothing in t but at the paths of the scene
Within(t) == \A q \in Paths \ scene.paths : t[q] = Absent

MCInit == /\ Init
          /\ scene \in Scenes
          /\ \A i \in DOMAIN snaps : Within(snaps[i].tree)

MCNext == /\ Next
          /\ UNCHANGED scene
          /\ kills' <= scene.kills
          /\ Len(snaps') + Cardinality(Writing') <= scene.snaps      \* Room, by the scene's bound
          /\ remote' # remote => "push" \in scene.commands /\ Within(snaps'[remote'].tree)
          /\ \A p \in Clients : c'[p].pc # "idle" =>
                /\ c'[p].kind \in scene.commands
                /\ c'[p].edit # <<>> => c'[p].edit[1] \in scene.paths

MCSpec == MCInit /\ [][MCNext]_<<vars, scene>>

Interchangeable == Permutations(Clients) \cup Permutations(Paths) \cup Permutations(Values)
=============================================================================
