------------------------------ MODULE NoteTrees ------------------------------
(***************************************************************************)
(* Trees of notes and what internal/repo computes with them, command after *)
(* command: dir.go, note.go, bulk.go and the tree parts of merge.go        *)
(* and mergestate.go.  No state, no concurrency.                           *)
(*                                                                         *)
(* A tree is a function from the names of its entries to its entries.  An  *)
(* address stands for the content it is the hash of, so an entry of type   *)
(* dir is the subtree itself, and one of type note is a note: a record of  *)
(* its text (title, tags, body) and the second in which it was created.    *)
(* A path is a sequence of names, as ParsePath returns it.                 *)
(***************************************************************************)
EXTENDS Integers, Sequences, FiniteSets, Functions, SequencesExt

CONSTANTS
    Names,     \* names of entries
    Depth,     \* bound on the names of a path
    Refused    \* the result of an operation that returns an error

ASSUME NamesAssumption == {"text", "at", Refused} \cap Names = {}
ASSUME DepthAssumption == Depth \in Nat

Note(x, s) == [text |-> x, at |-> s]

EmptyTree == [n \in {} |-> Refused]

\* object.TreeEntry: whether the entry is of type dir
IsDir(e) == DOMAIN e \subseteq Names

HasNote(t, n) == n \in DOMAIN t /\ ~IsDir(t[n])
HasDir(t, n)  == n \in DOMAIN t /\ IsDir(t[n])

\* Tree.Set and Tree.Delete
With(t, n, e) == [m \in DOMAIN t \cup {n} |-> IF m = n THEN e ELSE t[m]]
Without(t, n) == Restrict(t, DOMAIN t \ {n})

DirPart(p)  == Front(p)
LeafName(p) == Last(p)

\* q is a directory on the way to p
Above(q, p) == Len(q) < Len(p) /\ SubSeq(p, 1, Len(q)) = q

\* the paths there can be, the root among them
Ways == SeqOf(Names, Depth)

\* the trees with up to k names on a path, for each k
Levels(notes) ==
    LET upto[k \in 0 .. Depth] ==
            IF k = 0 THEN {EmptyTree}
            ELSE UNION {[d -> notes \cup upto[k-1]] : d \in SUBSET Names}
    IN  upto

TreesOf(notes) == Levels(notes)[Depth]

----------------------------------------------------------------------------
(* Reading.                                                                  *)

\* the directories a walk down dirs comes through, Refused where there is none
Walk(t, dirs) ==
    LET at[i \in 0 .. Len(dirs)] ==
            IF i = 0 THEN t
            ELSE IF at[i-1] # Refused /\ HasDir(at[i-1], dirs[i]) THEN at[i-1][dirs[i]] ELSE Refused
    IN  at

WalkDir(t, dirs) == Walk(t, dirs)[Len(dirs)]

\* the entry of a note
LeafEntry(t, p) ==
    LET dir == WalkDir(t, DirPart(p))
    IN  IF dir # Refused /\ HasNote(dir, LeafName(p)) THEN dir[LeafName(p)] ELSE Refused

\* every note of a tree: a map from its path to its address
CollectLeaves(t) ==
    [p \in {q \in Ways \ {<<>>} : LeafEntry(t, q) # Refused} |-> LeafEntry(t, p)]

\* the directories of the view of a tree, the root left out
BuildNode(t) == {d \in Ways \ {<<>>} : WalkDir(t, d) # Refused}

----------------------------------------------------------------------------
(* Editing: mutateAt goes down to a directory, creates the ones that are     *)
(* missing on the way, and applies one of the functions it is called with.   *)

PutNote(n, a)  == [op |-> "set", name |-> n, note |-> a]
DropNote(n)    == [op |-> "remove", name |-> n]
DropDir(n)     == [op |-> "rmdir", name |-> n]
Touch          == [op |-> "mkdir"]
ForgetNote(n)  == [op |-> "forget", name |-> n]

Mutated(dir, e) ==
    CASE e.op = "set"    -> IF HasDir(dir, e.name) THEN Refused ELSE With(dir, e.name, e.note)
      [] e.op = "remove" -> IF HasNote(dir, e.name) THEN Without(dir, e.name) ELSE Refused
      [] e.op = "rmdir"  -> Without(dir, e.name)
      [] e.op = "mkdir"  -> dir
      [] e.op = "forget" -> IF HasNote(dir, e.name) THEN Without(dir, e.name) ELSE dir

\* mistake: a directory on the way is made anew even when it is there
OpenedAfresh(t, dirs) == IF dirs = <<>> THEN t ELSE EmptyTree

\* a directory that is missing is created
Opened(t, dirs) == LET dir == WalkDir(t, dirs) IN IF dir = Refused THEN EmptyTree ELSE dir

\* the directories on the way down dirs, each with the new one below it
Rebuilt(t, dirs, new) ==
    LET up[i \in 0 .. Len(dirs)] ==
            IF i = Len(dirs) THEN new
            ELSE With(Opened(t, SubSeq(dirs, 1, i)), dirs[i+1], up[i+1])
    IN  up

NoteOnWay(t, dirs) == \E i \in DOMAIN dirs : HasNote(Opened(t, SubSeq(dirs, 1, i - 1)), dirs[i])

MutateAt(t, dirs, e) ==
    LET new == Mutated(Opened(t, dirs), e)
    IN  IF NoteOnWay(t, dirs) \/ new = Refused THEN Refused ELSE Rebuilt(t, dirs, new)[0]

SetNote(t, p, a) == MutateAt(t, DirPart(p), PutNote(LeafName(p), a))
RemoveNote(t, p) == MutateAt(t, DirPart(p), DropNote(LeafName(p)))

\* Mkdir commits nothing when the directory is there
DirExists(t, p) == WalkDir(t, p) # Refused
Mkdir(t, p)     == IF DirExists(t, p) THEN t ELSE MutateAt(t, p, Touch)

RemoveDir(t, p, recursive) ==
    LET parent == WalkDir(t, DirPart(p))
    IN  IF parent = Refused THEN Refused
        ELSE IF ~HasDir(parent, LeafName(p)) THEN Refused
        ELSE IF ~recursive /\ parent[LeafName(p)] # EmptyTree THEN Refused
        ELSE MutateAt(t, DirPart(p), DropDir(LeafName(p)))

----------------------------------------------------------------------------
(* Bulk import: a map from the directories the items pass through to their   *)
(* trees in memory; one that the import creates is no entry of its parent    *)
(* until the end.  Each of them has had a note put in it or below, so all    *)
(* are written.                                                              *)

\* mistake: a directory is loaded again for each item
MemChildStored(t, mem, d) == Opened(t, d)

MemChild(t, mem, d) == IF d \in DOMAIN mem THEN mem[d] ELSE Opened(t, d)

MemPut(t, mem, p, a) ==
    LET way  == {SubSeq(p, 1, i) : i \in 0 .. Len(p) - 1}
        open == [d \in DOMAIN mem \cup way |-> MemChild(t, mem, d)]
    IN  IF \/ \E d \in way \ DOMAIN mem : HasNote(open[Front(d)], Last(d))
           \/ HasDir(open[DirPart(p)], LeafName(p))
        THEN Refused
        ELSE [open EXCEPT ![DirPart(p)] = With(@, LeafName(p), a)]

FinalizeMem(mem) ==
    LET done[d \in DOMAIN mem] ==
            [n \in DOMAIN mem[d] \cup {m \in Names : Append(d, m) \in DOMAIN mem} |->
                IF Append(d, n) \in DOMAIN mem THEN done[Append(d, n)] ELSE mem[d][n]]
    IN  done

\* items: a sequence of pairs of path and note
MemImport(t, items) ==
    LET mem[i \in 0 .. Len(items)] ==
            IF i = 0 THEN [d \in {<<>>} |-> t]
            ELSE IF mem[i-1] = Refused THEN Refused
            ELSE MemPut(t, mem[i-1], items[i][1], items[i][2])
    IN  mem

BulkImport(t, items) ==
    LET mem == MemImport(t, items)[Len(items)]
    IN  IF mem = Refused THEN Refused ELSE FinalizeMem(mem)[<<>>]

----------------------------------------------------------------------------
(* Staged changes: the difference of two trees, replayed on a third.         *)

\* by path, so a note goes before the notes of a directory of its name
ByPath(changes) ==
    CHOOSE s \in SetToSeqs(changes) :
        \A i, j \in DOMAIN s : i < j => Len(s[i].path) <= Len(s[j].path)

\* mistake: a note that has changed is no change
StagedChangesNoUpdates(base, stage) ==
    LET from == CollectLeaves(base)
        to   == CollectLeaves(stage)
        written == {[path |-> p, removed |-> FALSE, note |-> to[p]] : p \in DOMAIN to \ DOMAIN from}
        dropped == {[path |-> p, removed |-> TRUE] : p \in DOMAIN from \ DOMAIN to}
    IN  ByPath(written \cup dropped)

StagedChanges(base, stage) ==
    LET from == CollectLeaves(base)
        to   == CollectLeaves(stage)
        written == {[path |-> p, removed |-> FALSE, note |-> to[p]] :
                      p \in {q \in DOMAIN to : q \notin DOMAIN from \/ from[q] # to[q]}}
        dropped == {[path |-> p, removed |-> TRUE] : p \in DOMAIN from \ DOMAIN to}
    IN  ByPath(written \cup dropped)

\* mistake: what is to be removed must be there
ApplyChangeStrict(t, ch) ==
    IF t = Refused THEN Refused
    ELSE IF ~ch.removed THEN MutateAt(t, DirPart(ch.path), PutNote(LeafName(ch.path), ch.note))
    ELSE RemoveNote(t, ch.path)

ApplyChange(t, ch) ==
    IF t = Refused THEN Refused
    ELSE IF ~ch.removed THEN MutateAt(t, DirPart(ch.path), PutNote(LeafName(ch.path), ch.note))
    ELSE IF WalkDir(t, DirPart(ch.path)) = Refused THEN t
    ELSE MutateAt(t, DirPart(ch.path), ForgetNote(LeafName(ch.path)))

\* the tree after each of the changes
Applied(t, changes) ==
    LET done[i \in 0 .. Len(changes)] ==
            IF i = 0 THEN t ELSE ApplyChange(done[i-1], changes[i])
    IN  done

ApplyStagedChanges(t, changes) == Applied(t, changes)[Len(changes)]

----------------------------------------------------------------------------
(* The three-way merge.                                                      *)

\* mergeVal: an entry, or Refused where there is none
EntryOf(t, n) == IF n \in DOMAIN t THEN t[n] ELSE Refused
IsTree(v)     == v # Refused /\ IsDir(v)

\* mistake: only a directory of ours against a note of theirs is a clash of types
ConflictKindOurs(o, t) ==
    IF o = Refused \/ t = Refused THEN "modify-delete"
    ELSE IF IsDir(o) /\ ~IsDir(t) THEN "type" ELSE "content"

ConflictKind(o, t) ==
    IF o = Refused \/ t = Refused THEN "modify-delete"
    ELSE IF IsDir(o) # IsDir(t) THEN "type" ELSE "content"

\* what comes of one entry: what it is in base, ours and theirs, and what `below` has come
\* of the directory when both sides have changed it
Chosen(b, o, t, path, below) ==
    IF o = t \/ t = b THEN [entry |-> o, conflicts |-> {}]
    ELSE IF o = b THEN [entry |-> t, conflicts |-> {}]
    ELSE IF IsTree(o) /\ IsTree(t) THEN [entry |-> below.tree, conflicts |-> below.conflicts]
    ELSE [entry |-> o, conflicts |-> {[path |-> path, kind |-> ConflictKind(o, t)]}]

\* mistake: directories that both sides have changed are merged as if both were new
BaseDirNone(base, d) == IF d = <<>> THEN base ELSE EmptyTree

\* an empty tree where the base has no directory
BaseDir(base, d) == Opened(base, d)

\* what comes of each directory: its entries merged, and the conflicts in it and below
Merged(base, ours, theirs) ==
    LET at[d \in Ways] ==
            LET b == BaseDir(base, d)
                o == Opened(ours, d)
                t == Opened(theirs, d)
                names == DOMAIN b \cup DOMAIN o \cup DOMAIN t
                m == [n \in names |-> Chosen(EntryOf(b, n), EntryOf(o, n), EntryOf(t, n),
                                             Append(d, n), at[Append(d, n)])]
                kept == {n \in names : m[n].entry # Refused}
            IN  [tree      |-> [n \in kept |-> m[n].entry],
                 conflicts |-> UNION {m[n].conflicts : n \in names}]
    IN  at

MergeTrees(base, ours, theirs) == Merged(base, ours, theirs)[<<>>]
=============================================================================
