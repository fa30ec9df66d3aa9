------------------------------- MODULE Library -------------------------------
(***************************************************************************)
(* Whole libraries: what the commands of internal/repo gc.go, fsck.go,     *)
(* transfer.go, pull.go and dump.go make of the objects, the branches and  *)
(* the watermark of several libraries, one command after another.  A copy, *)
(* a restore or a backup may die half way; a backup reads twice, and other *)
(* commands run in between.  Interleaved writers and sweeps are in         *)
(* BranchWriters, open merges in MergeFlow, the bytes of trees and indexes *)
(* in Workspace: here a content stands for a tree with its notes, and what *)
(* is searched in it.                                                      *)
(***************************************************************************)
EXTENDS Integers, Sequences, FiniteSets, SequencesExt, FiniteSetsExt

CONSTANTS
    Libs,       \* libraries: a database each
    Home,       \* bound: the ones where every command is run; in the others the ones that
                \*   commit, collect, restore and bring a history in
    Contents,   \* trees of notes
    Keeps,      \* arguments of gc --keep-last
    None,       \* no backup file, no backup under way
    MaxSnaps,   \* bound: snapshots that are ever made
    MaxMoves,   \* bound: commands that are run besides the ones that make a snapshot
    MaxPart     \* bound: objects that a restore that dies has put, or has yet to put

ASSUME LibraryAssumption ==
    Home \subseteq Libs /\ Keeps \subseteq Nat /\ {MaxSnaps, MaxMoves, MaxPart} \subseteq Nat

VARIABLES
    snaps,      \* the snapshots ever made; an address is a place in this sequence
    lib,        \* the state of each library
    backup,     \* a backup that has listed the objects of a library, or None
    file,       \* the last backup file, or None
    moves,      \* commands counted against MaxMoves
    lost,       \* history: indexes and vectors keep-last let go or a pull left out, by library
    torn        \* history: what a backup had no chance to list, in the library restored from it

vars == <<snaps, lib, backup, file, moves, lost, torn>>

\* in the order of their names
Branches == <<"main", "stage">>
NoHead   == 0

Objects == ({"snap"} \X (1..MaxSnaps)) \cup ({"tree", "index", "vec"} \X Contents)

Fresh == [objs |-> {}, keep |-> 0, heads |-> [b \in ToSet(Branches) |-> NoHead]]

HeadAt(l, b) == lib[l].heads[b]
Heads(heads)  == Range(heads) \ {NoHead}

Init == /\ snaps = <<>>
        /\ lib = [l \in Libs |-> Fresh]
        /\ backup = None /\ file = None /\ moves = 0
        /\ lost = [l \in Libs |-> {}] /\ torn = [l \in Libs |-> {}]

----------------------------------------------------------------------------
(* Snapshots and what hangs on them.                                         *)

SnapObj(s)  == <<"snap", s>>
TreeObj(s)  == <<"tree", snaps[s].root>>
IndexObj(s) == IF snaps[s].index THEN {<<"index", snaps[s].root>>} ELSE {}
VecObj(s)   == IF snaps[s].vec THEN {<<"vec", snaps[s].root>>} ELSE {}

Body(s)   == {SnapObj(s), TreeObj(s)}
Search(s) == IndexObj(s) \cup VecObj(s)

\* the ancestors of some snapshots, themselves included
Past(heads) == UNION {DOMAIN snaps[h].far : h \in heads}

\* mistake: a snapshot of two branches counts from the farther one
DepthsFarthest(heads) ==
    [s \in Past(heads) |-> Max({snaps[h].far[s] : h \in {i \in heads : s \in DOMAIN snaps[i].far}})]

\* snapshotDepths: how far a snapshot is from the nearest head
Depths(heads) ==
    [s \in Past(heads) |-> Min({snaps[h].far[s] : h \in {i \in heads : s \in DOMAIN snaps[i].far}})]

\* indexPrunedSnapshots: what gc lets go under the watermark
Pruned(x) ==
    LET depth == Depths(Heads(x.heads))
    IN  {s \in DOMAIN depth : x.keep > 0 /\ depth[s] >= x.keep}

\* what markSnapshotContent asks for; the mark fails when any of it is missing
Marked(x) ==
    LET pruned == Pruned(x)
    IN  UNION {Body(s) \cup (IF s \in pruned THEN {} ELSE Search(s)) : s \in Past(Heads(x.heads))}
MarkFails(x) == ~(Marked(x) \subseteq x.objs)

\* mistake: with a watermark every snapshot may lack its index
ProblemsLenient(x) ==
    UNION {({TreeObj(s)} \cup {SnapObj(p) : p \in ToSet(snaps[s].parents)}
              \cup (IF x.keep > 0 THEN {} ELSE Search(s))) \ x.objs :
           s \in {i \in DOMAIN snaps : SnapObj(i) \in x.objs}}

\* fsck: the references of every object in the store, in use or not, that lead nowhere
Problems(x) ==
    LET pruned == Pruned(x)
    IN  ({<<"tree", c>> : c \in {d \in Contents : <<"index", d>> \in x.objs}} \ x.objs) \cup
        UNION {({TreeObj(s)} \cup {SnapObj(p) : p \in ToSet(snaps[s].parents)}
                  \cup (IF s \in pruned THEN {} ELSE Search(s))) \ x.objs :
               s \in {i \in DOMAIN snaps : SnapObj(i) \in x.objs}}

----------------------------------------------------------------------------
(* Commands of one library.                                                  *)

\* a command that changes something counts
Counted == moves' = moves + 1 /\ lib' # lib

\* the library l becomes x; what is there again is no longer lost
BecomesAfter(l, x, gone, rent) ==
    /\ lib' = [lib EXCEPT ![l] = x]
    /\ lost' = [lost EXCEPT ![l] = gone \ x.objs]
    /\ torn' = [torn EXCEPT ![l] = rent \ x.objs]

Becomes(l, x, gone) == BecomesAfter(l, x, gone, torn[l])

\* a branch is set to a new snapshot s, put after the objects
Land(l, b, s, objs) ==
    /\ Len(snaps) < MaxSnaps
    /\ snaps' = Append(snaps, s)
    /\ LET x == [lib[l] EXCEPT !.objs = @ \cup objs \cup {SnapObj(Len(snaps) + 1)},
                               !.heads[b] = Len(snaps) + 1]
       IN  Becomes(l, x, lost[l])
    /\ UNCHANGED <<backup, file, moves>>

\* a snapshot, and how many parents it is from each of its ancestors
Snapshot(c, parents, index, vec) ==
    LET up == ToSet(parents)
        above(s) == {p \in up : s \in DOMAIN snaps[p].far}
    IN  [root |-> c, parents |-> parents, index |-> index, vec |-> vec,
         far |-> [s \in Past(up) \cup {Len(snaps) + 1} |->
                     IF above(s) = {} THEN 0 ELSE 1 + Min({snaps[p].far[s] : p \in above(s)})]]

ParentOf(l, b) == IF HeadAt(l, b) = NoHead THEN <<>> ELSE <<HeadAt(l, b)>>

\* any command that ends in commitTree: a content that has not changed keeps the address
\* of the index, found or not; one that has changed gets an index, whether from the old
\* one or, if that is gone, in full
Commit(l, c) ==
    LET h == HeadAt(l, "main")
        same == h # NoHead /\ snaps[h].root = c
    IN  Land(l, "main", Snapshot(c, ParentOf(l, "main"), TRUE, FALSE),
             {<<"tree", c>>} \cup IF same THEN {} ELSE {<<"index", c>>})

\* index rebuild: the index in full, the vectors of the head carried over
Rebuild(l) ==
    LET h == HeadAt(l, "main")
    IN  /\ h # NoHead
        /\ Land(l, "main", Snapshot(snaps[h].root, <<h>>, TRUE, snaps[h].vec),
                {<<"index", snaps[h].root>>})

\* index rebuild --embed: new vectors, the index of the head carried over
Embed(l) ==
    LET h == HeadAt(l, "main")
    IN  /\ h # NoHead /\ snaps[h].root \in Contents
        /\ Land(l, "main", Snapshot(snaps[h].root, <<h>>, snaps[h].index, TRUE),
                {<<"vec", snaps[h].root>>})

\* staging: a base on top of the head, edits on top of the base, none with an index
LayStage(l) ==
    LET h == HeadAt(l, "main")
    IN  /\ HeadAt(l, "stage") = NoHead /\ h # NoHead
        /\ Land(l, "stage", Snapshot(snaps[h].root, <<h>>, FALSE, FALSE), {})

Stage(l, c) ==
    /\ HeadAt(l, "stage") # NoHead
    /\ Land(l, "stage", Snapshot(c, <<HeadAt(l, "stage")>>, FALSE, FALSE), {<<"tree", c>>})

DropStage(l) ==
    /\ HeadAt(l, "stage") # NoHead
    /\ Becomes(l, [lib[l] EXCEPT !.heads["stage"] = NoHead], lost[l])
    /\ UNCHANGED <<snaps, backup, file>>
    /\ Counted

\* what is abandoned is counted over the whole history, which must be there for that
Reset(l, s) ==
    /\ HeadAt(l, "main") # NoHead /\ s \in Past({HeadAt(l, "main")})
    /\ {SnapObj(t) : t \in Past({HeadAt(l, "main")})} \subseteq lib[l].objs
    /\ Becomes(l, [lib[l] EXCEPT !.heads["main"] = s], lost[l])
    /\ UNCHANGED <<snaps, backup, file>>
    /\ Counted

\* gc, with the watermark the library has or a new one, which stays when the mark fails
Gc(l, k) ==
    LET x == [lib[l] EXCEPT !.keep = k]
    IN  /\ k \in Keeps \cup {lib[l].keep}
        /\ Becomes(l, IF MarkFails(x) THEN x ELSE [x EXCEPT !.objs = @ \cap Marked(x)],
                   lost[l] \cup UNION {Search(s) : s \in Pruned(x)})
        /\ UNCHANGED <<snaps, backup, file>>
        /\ Counted

Wipe(l) == /\ BecomesAfter(l, Fresh, {}, {})
           /\ UNCHANGED <<snaps, backup, file>>
           /\ Counted

----------------------------------------------------------------------------
(* Between libraries.                                                        *)

\* mistake: the parents are left to the library that has the head
CopyOrderShallow(head) ==
    LET order[s \in 1..Len(snaps)] ==
            <<SnapObj(s), TreeObj(s)>> \o SetToSeq(IndexObj(s))
    IN  order[head]

\* transfer.copy: an object before the objects it refers to, a snapshot by way of its
\* tree, its parents and its index; its vectors are no child of it
CopyOrder(head) ==
    LET order[s \in 1..Len(snaps)] ==
            <<SnapObj(s), TreeObj(s)>>
              \o FlattenSeq([i \in DOMAIN snaps[s].parents |-> order[snaps[s].parents[i]]])
              \o SetToSeq(IndexObj(s))
    IN  order[head]

\* how many arrive when the copy is not killed: all up to the first that neither library
\* has
Arrives(order, have) ==
    Min({i \in DOMAIN order : order[i] \notin have} \cup {Len(order) + 1}) - 1

LeftOut(head) == UNION {VecObj(s) : s \in Past({head})}

\* Pull: nothing to do when the head is there already, refused or forced when the two
\* have parted
Pull(from, l, force) ==
    LET theirs == HeadAt(from, "main")
        ours   == HeadAt(l, "main")
    IN  /\ from # l /\ theirs # NoHead /\ theirs # ours
        /\ force \/ theirs \notin Past({ours} \ {NoHead})
        /\ LET order == CopyOrder(theirs)
           IN  \E n \in 1..Arrives(order, lib[from].objs \cup lib[l].objs) :
                  LET lands == n = Len(order) /\ (force \/ ours \in Past({theirs}) \cup {NoHead})
                  IN  Becomes(l, [lib[l] EXCEPT !.objs = @ \cup ToSet(SubSeq(order, 1, n)),
                                                !.heads["main"] = IF lands THEN theirs ELSE @],
                              lost[l] \cup LeftOut(theirs))
        /\ UNCHANGED <<snaps, backup, file>>
        /\ Counted

\* pull --merge of two that have parted: the copy, then a snapshot with two parents
Merge(from, l, c) ==
    LET theirs == HeadAt(from, "main")
        ours   == HeadAt(l, "main")
        order  == CopyOrder(theirs)
    IN  /\ from # l /\ theirs # NoHead /\ ours # NoHead
        /\ theirs \notin Past({ours}) /\ ours \notin Past({theirs})
        /\ Arrives(order, lib[from].objs \cup lib[l].objs) = Len(order)
        /\ Len(snaps) < MaxSnaps
        /\ snaps' = Append(snaps, Snapshot(c, <<ours, theirs>>, TRUE, FALSE))
        /\ Becomes(l, [lib[l] EXCEPT
                         !.objs = @ \cup ToSet(order) \cup {SnapObj(Len(snaps) + 1), <<"tree", c>>}
                                    \cup IF c = snaps[ours].root THEN {} ELSE {<<"index", c>>},
                         !.heads["main"] = Len(snaps) + 1],
                   lost[l] \cup LeftOut(theirs))
        /\ UNCHANGED <<backup, file>>
        /\ Counted

----------------------------------------------------------------------------
(* Backup and restore.                                                       *)

\* DumpLibrary reads the objects, and the branches in a second query; the watermark is
\* in neither.  What no branch had when the objects were read may be half there.
BackupObjects(l) ==
    /\ backup = None /\ file = None    \* bound: one backup file
    /\ backup' = [from |-> l, objs |-> lib[l].objs, heads |-> lib[l].heads,
                  lost |-> lost[l], torn |-> torn[l]]
    /\ UNCHANGED <<snaps, lib, file, moves, lost, torn>>

BackupRows ==
    /\ backup # None
    /\ LET x == lib[backup.from]
           new == Past(Heads(x.heads)) \ Past(Heads(backup.heads))
       IN  file' = [objs |-> backup.objs, heads |-> x.heads, lost |-> backup.lost,
                    torn |-> backup.torn \cup UNION {Body(s) \cup Search(s) : s \in new}]
    /\ backup' = None
    /\ UNCHANGED <<snaps, lib, moves, lost, torn>>

\* mistake: a branch is set without a look at its object
RestoredUnchecked(f, n) ==
    [b \in DOMAIN f.heads |-> IF n = 2 \/ (n = 1 /\ b = "main") THEN f.heads[b] ELSE NoHead]

\* the first n branches of a file; one whose object is not there ends the restore
Restored(f, n) ==
    LET fails(i) == f.heads[Branches[i]] # NoHead /\ SnapObj(f.heads[Branches[i]]) \notin f.objs
        done == Min({i \in DOMAIN Branches : fails(i)} \cup {n + 1}) - 1
    IN  [b \in DOMAIN f.heads |->
            IF \E i \in 1..done : Branches[i] = b THEN f.heads[b] ELSE NoHead]

\* Wipe, where there is anything to wipe; an empty library keeps the watermark it has
IsEmpty(l) == lib[l].objs = {} /\ Heads(lib[l].heads) = {}
Emptied(l) == IF IsEmpty(l) THEN lib[l] ELSE Fresh

\* RestoreLibrary: wipe if forced, all objects, then n of the branches; or killed before
\* the last object, when any of them may be there, since they come in the order of hashes
Restore(l, force, n) ==
    /\ file # None /\ n \in 0..Len(Branches)
    /\ force \/ IsEmpty(l)
    /\ BecomesAfter(l, [Emptied(l) EXCEPT !.objs = file.objs, !.heads = Restored(file, n)],
                    file.lost, file.torn)
    /\ UNCHANGED <<snaps, backup, file>>
    /\ Counted

RestoreStop(l, some) ==
    /\ file # None /\ some \subseteq file.objs /\ some # file.objs
    /\ Cardinality(some) <= MaxPart \/ Cardinality(file.objs \ some) <= MaxPart
    /\ BecomesAfter(l, [Emptied(l) EXCEPT !.objs = some], {}, {})
    /\ UNCHANGED <<snaps, backup, file>>
    /\ Counted

Next ==
    \/ \E l \in Libs, c \in Contents : Commit(l, c)
    \/ \E l \in Home :
          \/ \E c \in Contents : Stage(l, c)
          \/ Rebuild(l) \/ Embed(l) \/ LayStage(l)
    \/ /\ moves < MaxMoves
       /\ \/ \E l \in Libs :
                \/ \E k \in Keeps \cup {lib[l].keep} : Gc(l, k)
                \/ \E force \in BOOLEAN, n \in 0..Len(Branches) : Restore(l, force, n)
          \/ \E l \in Home :
                \/ DropStage(l) \/ Wipe(l) \/ BackupObjects(l)
                \/ \E s \in DOMAIN snaps : Reset(l, s)
                \/ file # None /\ \E some \in SUBSET file.objs : RestoreStop(l, some)
          \/ \E from, l \in Libs :
                \/ \E force \in BOOLEAN : Pull(from, l, force)
                \/ \E c \in Contents : Merge(from, l, c)
    \/ BackupRows

Spec == Init /\ [][Next]_vars

----------------------------------------------------------------------------
(* What must hold.                                                           *)

\* Libraries have only objects that were made, and no branch is without the object of its
\* head (the foreign key of branches).
TypeOK ==
    \A l \in Libs :
        /\ lib[l].objs \subseteq Objects
        /\ \A s \in Heads(lib[l].heads) : SnapObj(s) \in lib[l].objs

\* Whatever commands, copies and restores have run or died, every snapshot and every tree
\* that a branch reaches is there, and no index or vector is missing but what keep-last let
\* go and what a pull left out (gc.go:226, children.go:31).  A library restored from a
\* backup that other commands overtook is the exception: it may lack what the snapshots
\* own that came between the two reads of the backup, and nothing else (dump.go:52).
NothingElseIsMissing ==
    \A l \in Libs :
        LET past == Past(Heads(lib[l].heads))
        IN  /\ (UNION {Body(s) : s \in past}) \ lib[l].objs \subseteq torn[l]
            /\ (UNION {Search(s) : s \in past}) \ lib[l].objs \subseteq lost[l] \cup torn[l]

\* A library that fsck finds no fault with can be collected, and pulled from unless its
\* history is pruned (fsck.go:29).
FsckIsSound ==
    \A l \in Libs : Problems(lib[l]) = {} =>
        /\ ~MarkFails(lib[l])
        /\ lib[l].keep = 0 /\ HeadAt(l, "main") # NoHead =>
              ToSet(CopyOrder(HeadAt(l, "main"))) \subseteq lib[l].objs

\* the snapshots fewer than k steps from a head
Recent(heads, k) ==
    UNION {{s \in DOMAIN snaps[h].far : k = 0 \/ snaps[h].far[s] < k} : h \in heads}

\* A gc that sweeps leaves nothing that no branch reaches, keeps the indexes and vectors
\* of the snapshots within the watermark of any branch, and fsck has no complaint after it
\* (gc.go:182, gc.go:214).
GcIsExact ==
    [][\A l \in Libs :
         lib'[l].objs # lib[l].objs /\ lib'[l].objs \subseteq lib[l].objs
           /\ (\E k \in Keeps : Gc(l, k)) =>
            LET x == lib'[l]
            IN  /\ x.objs \subseteq UNION {Body(s) \cup Search(s) : s \in Past(Heads(x.heads))}
                /\ UNION {Search(s) : s \in Recent(Heads(x.heads), x.keep)} \subseteq x.objs
                /\ Problems(x) = {}]_vars

\* A pull from a library that fsck finds no fault with brings a library that gc can
\* collect (DESIGN.md section 4.9: gc, pull, transfer and fsck inherit the vectors).
PulledCanBeCollected ==
    \A l \in Libs : (\A m \in Libs : lib[m].keep = 0) => ~MarkFails(lib[l])
=============================================================================
