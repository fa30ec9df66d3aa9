---------------------------- MODULE BranchWriters ----------------------------
(***************************************************************************)
(* The core of the knowledge base: the commands that write a branch        *)
(* (internal/repo note.go, commit.go, indexupdate.go, vecbuild.go,         *)
(* reset.go), each a sequence of single store calls with no transaction    *)
(* around them, and the garbage collector (gc.go) over the same store.     *)
(*                                                                         *)
(* A content address is the content: a tree, an index and a vector index   *)
(* are addressed by the function they stand for, a snapshot by its place   *)
(* in `snaps`, the table of every snapshot content ever hashed.  `stored`  *)
(* is the objects table.  A note stands for the note object and the blob   *)
(* of its body, a tree for the root tree and its directories, an index for *)
(* its root and shards; what an index says is the note it holds for each   *)
(* path.  Notes at different paths are different objects here.             *)
(*                                                                         *)
(* A command that meets an error returns at once and undoes nothing, so an *)
(* error and a kill have the same effect, the action Stop; the steps below *)
(* carry the conditions under which the store calls succeed.               *)
(***************************************************************************)
EXTENDS Integers, Sequences, FiniteSets

CONSTANTS
    Writers,    \* the processes that may run a command: CLI invocations, HTTP requests
    Branches,   \* branch names of the library
    Paths,      \* note paths
    Values,     \* note contents: title, body and time
    Absent,     \* there is no note at this path
    None,       \* a snapshot without an index, or without a vector index
    Commands,   \* the commands this instance runs
    GcAlone,    \* TRUE: gc is run only while nothing writes
    MaxSnaps,   \* bound on the snapshots ever written
    MaxKills    \* bound on the commands and collections that die half way

Edits    == {"set", "rm", "commit"}
Rebuilds == {"reindex", "embed"}
Kinds    == Edits \cup Rebuilds \cup {"reset", "gc"}

Trees == [Paths -> Values \cup {Absent}]

ASSUME CommandsAssumption == Commands \subseteq Kinds
ASSUME GcAloneAssumption  == GcAlone \in BOOLEAN
ASSUME BoundsAssumption   == MaxSnaps \in Nat /\ MaxKills \in Nat
ASSUME AbsentAssumption   == Absent \notin Values
ASSUME NoneAssumption     == None \notin Trees /\ None \notin Paths

Empty == [q \in Paths |-> Absent]

NoteAddr(q, v) == <<"note", q, v>>
TreeAddr(t)    == <<"tree", t>>
IndexAddr(d)   == <<"index", d>>
VecAddr(d)     == <<"vec", d>>
SnapAddr(i)    == <<"snapshot", i>>

SnapIds == 1 .. MaxSnaps

NoteAddrs  == {NoteAddr(q, v) : q \in Paths, v \in Values}
TreeAddrs  == {TreeAddr(t) : t \in Trees}
IndexAddrs == {IndexAddr(d) : d \in Trees}
VecAddrs   == {VecAddr(d) : d \in Trees}
SnapAddrs  == {SnapAddr(i) : i \in SnapIds}
Addrs == NoteAddrs \cup TreeAddrs \cup IndexAddrs \cup VecAddrs \cup SnapAddrs

\* object.Snapshot; past is not a field but what the parents' hashes pin down:
\* the snapshot itself and all its ancestors
Snapshots == [root : Trees, parent : 0 .. MaxSnaps, index : Trees \cup {None},
              vec : Trees \cup {None}, past : SUBSET SnapIds]

VARIABLES
    stored,  \* the objects table: the addresses present
    head,    \* the branches table: head[b], 0 when b has no row
    snaps,   \* the snapshot contents ever hashed, oldest first
    w,       \* what each writer is doing
    gc,      \* what the collector is doing
    kills    \* how many processes have died half way

vars == <<stored, head, snaps, w, gc, kills>>

----------------------------------------------------------------------------
(* A writer: its command, the content its command will publish, the objects *)
(* it has still to put and the snapshot it will set the branch to.  `seen`   *)
(* (the contents its branch has held since the command began) and `moved`    *)
(* (somebody else has moved the branch since) are history: nothing reads     *)
(* them but the properties.                                                  *)

Idle == [pc |-> "idle", kind |-> "commit", branch |-> None, path |-> None, val |-> Absent,
         tree |-> Empty, has |-> FALSE, parent |-> 0, index |-> None, vec |-> None,
         puts |-> {}, snap |-> 0, seen |-> {}, moved |-> FALSE]

WriterStates ==
    [pc : {"idle", "read", "parent", "write", "snapshot", "branch"}, kind : Kinds,
     branch : Branches \cup {None}, path : Paths \cup {None}, val : Values \cup {Absent},
     tree : Trees, has : BOOLEAN, parent : 0 .. MaxSnaps, index : Trees \cup {None},
     vec : Trees \cup {None}, puts : SUBSET Addrs, snap : 0 .. MaxSnaps,
     seen : SUBSET Trees, moved : BOOLEAN]

GcStates == [pc : {"idle", "list", "sweep"}, marked : SUBSET Addrs, todo : SUBSET Addrs]
GcIdle == [pc |-> "idle", marked |-> {}, todo |-> {}]

\* Every variable has its type.
TypeOK == /\ stored \in SUBSET Addrs
          /\ head \in [Branches -> 0 .. MaxSnaps]
          /\ snaps \in Seq(Snapshots)
          /\ Len(snaps) <= MaxSnaps
          /\ w \in [Writers -> WriterStates]
          /\ gc \in GcStates
          /\ kills \in 0 .. MaxKills

Init == /\ stored = {}
        /\ head = [b \in Branches |-> 0]
        /\ snaps = << >>
        /\ w = [p \in Writers |-> Idle]
        /\ gc = GcIdle
        /\ kills = 0

----------------------------------------------------------------------------
(* Reading the store.                                                        *)

Notes(t) == {NoteAddr(q, t[q]) : q \in {r \in Paths : t[r] # Absent}}

\* the content of the branch: the empty tree when the branch has no row
Content(b) == IF head[b] = 0 THEN Empty ELSE snaps[head[b]].root

\* the objects one snapshot owns, and all the objects a head needs
Own(i) == {SnapAddr(i), TreeAddr(snaps[i].root)}
              \cup Notes(snaps[i].root)
              \cup (IF snaps[i].index = None
                    THEN {} ELSE {IndexAddr(snaps[i].index)} \cup Notes(snaps[i].index))
              \cup (IF snaps[i].vec = None THEN {} ELSE {VecAddr(snaps[i].vec)})
Needs(i) == UNION {Own(j) : j \in snaps[i].past}

\* loadSnapshot and loadTree of a head succeed
Readable(i) == SnapAddr(i) \in stored /\ TreeAddr(snaps[i].root) \in stored

\* mistake: the directory is written with the changed entry alone
ChangedForgetsOthers(t, q, v) == [r \in Paths |-> IF r = q THEN v ELSE Absent]

\* dir.Set and dir.Delete on the in-memory tree: v may be Absent, q may be None
Changed(t, q, v) == [r \in Paths |-> IF r = q THEN v ELSE t[r]]

----------------------------------------------------------------------------
(* The steps of a command, one per store call that other processes can see   *)
(* or disturb.                                                               *)

Quiet == \A p \in Writers : w[p].pc = "idle"

\* the commands that may still write a snapshot
Recording == {p \in Writers : w[p].pc \notin {"idle", "branch"} /\ w[p].kind # "reset"}

\* What a command begins with.  A note set has already put the blob and the
\* note when it first looks at the branch.
Start(p, b, kind, q, v) ==
    /\ w[p].pc = "idle"
    /\ GcAlone => gc.pc = "idle"
    /\ kind # "reset" => Len(snaps) + Cardinality(Recording) < MaxSnaps
    /\ w' = [w EXCEPT ![p] = [Idle EXCEPT !.pc = "read", !.kind = kind, !.branch = b,
                                          !.path = q, !.val = v, !.seen = {Content(b)}]]
    /\ stored' = IF kind = "set" THEN stored \cup {NoteAddr(q, v)} ELSE stored
    /\ UNCHANGED <<head, snaps, gc, kills>>

StartSet(p)    == \E b \in Branches, q \in Paths, v \in Values : Start(p, b, "set", q, v)
StartRm(p)     == \E b \in Branches, q \in Paths : Start(p, b, "rm", q, Absent)
StartOther(p)  == \E b \in Branches, k \in {"commit", "reindex", "embed", "reset"} \cap Commands :
                      Start(p, b, k, None, Absent)

\* currentTree and mutateAt: the content the command will publish.  A rebuild
\* also reads every note and makes its index or vectors of this tree.
ReadTree(p) ==
    LET b == w[p].branch
        t == Content(b)
        u == Changed(t, w[p].path, w[p].val)
        k == w[p].kind
    IN  /\ w[p].pc = "read"
        /\ k # "reset"
        /\ head[b] # 0 => Readable(head[b])
        /\ k = "rm" => t[w[p].path] # Absent
        /\ k \in Rebuilds => Notes(t) \subseteq stored
        /\ w' = [w EXCEPT ![p] =
                    [@ EXCEPT !.pc = IF k \in Rebuilds THEN "write" ELSE "parent",
                              !.tree = u,
                              !.has = (head[b] # 0),
                              !.index = IF k = "reindex" THEN u ELSE None,
                              !.vec = IF k = "embed" THEN u ELSE None,
                              !.puts = {TreeAddr(u)}
                                         \cup (IF k = "reindex" THEN {IndexAddr(u)} ELSE {})
                                         \cup (IF k = "embed" THEN {VecAddr(u)} ELSE {})]]
        /\ UNCHANGED <<stored, head, snaps, gc, kills>>

\* mistake: a path that is gone loses its slot instead of its note
AppliedDeltaDropsSlot(index, old, new) ==
    [q \in {r \in Paths : new[r] # Absent} |-> IF new[q] = old[q] THEN index[q] ELSE new[q]]

\* ApplyDelta: the postings of the paths that differ are replaced, all the
\* others are taken from the old index as they stand
AppliedDelta(index, old, new) == [q \in Paths |-> IF new[q] = old[q] THEN index[q] ELSE new[q]]

\* updateIndex against the snapshot i: the index of the tree t, and whether it is
\* written anew
UpdatedIndex(i, t) ==
    IF snaps[i].index = None \/ (t # snaps[i].root /\ IndexAddr(snaps[i].index) \notin stored)
    THEN [index |-> t, new |-> TRUE]
    ELSE [index |-> AppliedDelta(snaps[i].index, snaps[i].root, t), new |-> t # snaps[i].root]

\* the notes updateIndex loads to tokenize: those of the paths that differ, and all of
\* them when it builds anew
TokenizedNotes(i, t) ==
    LET u == snaps[i].root
    IN  (IF snaps[i].index = None THEN {} ELSE (Notes(t) \cup Notes(u)) \ (Notes(t) \cap Notes(u)))
          \cup (IF snaps[i].index = None \/ (t # u /\ IndexAddr(snaps[i].index) \notin stored)
                THEN Notes(t) ELSE {})

\* mistake: the index delta is the command's own edit, not the difference of trees
ReadParentEditOnly(p) ==
    LET h == head[w[p].branch]
        d == IF w[p].has THEN Changed(snaps[h].index, w[p].path, w[p].val) ELSE w[p].tree
    IN  /\ w[p].pc = "parent"
        /\ w[p].kind \in Edits
        /\ w' = [w EXCEPT ![p].pc = "write", ![p].parent = IF w[p].has THEN h ELSE 0,
                          ![p].index = d, ![p].puts = @ \cup {IndexAddr(d)}]
        /\ UNCHANGED <<stored, head, snaps, gc, kills>>

\* mistake: the vectors of the head are carried over by an edit too
ReadParentKeepsVec(p) ==
    LET h == head[w[p].branch]
        t == w[p].tree
    IN  /\ w[p].pc = "parent"
        /\ w[p].kind \in Edits
        /\ w' = [w EXCEPT ![p].pc = "write", ![p].parent = IF w[p].has THEN h ELSE 0,
                          ![p].index = t, ![p].puts = {TreeAddr(t), IndexAddr(t)},
                          ![p].vec = IF w[p].has THEN snaps[h].vec ELSE None]
        /\ UNCHANGED <<stored, head, snaps, gc, kills>>

\* commitTree reads the head a second time: parent, old index and old tree are
\* those of the head found now.  A branch that had no row at ReadTree is not read
\* again, and gets a snapshot without a parent.
ReadParent(p) ==
    LET h == head[w[p].branch]
        t == w[p].tree
    IN  /\ w[p].pc = "parent"
        /\ w[p].kind \in Edits
        /\ \/ /\ w[p].has
              /\ Readable(h)
              /\ TokenizedNotes(h, t) \subseteq stored
              /\ w' = [w EXCEPT ![p].pc = "write",
                                ![p].parent = h,
                                ![p].index = UpdatedIndex(h, t).index,
                                ![p].puts = IF UpdatedIndex(h, t).new
                                            THEN @ \cup {IndexAddr(UpdatedIndex(h, t).index)}
                                            ELSE @]
           \/ /\ ~ w[p].has
              /\ Notes(t) \subseteq stored
              /\ w' = [w EXCEPT ![p].pc = "write",
                                ![p].index = t,
                                ![p].puts = @ \cup {IndexAddr(t)}]
        /\ UNCHANGED <<stored, head, snaps, gc, kills>>

\* RebuildIndex and RebuildEmbeddings read the head again after the long part, for
\* the parent and for the half they do not rebuild, which they carry over
CarryOver(p) ==
    LET h == head[w[p].branch]
    IN  /\ w[p].pc = "parent"
        /\ w[p].kind \in Rebuilds
        /\ w' = [w EXCEPT ![p].pc = "snapshot",
                          ![p].parent = IF w[p].has THEN h ELSE 0,
                          ![p].index = IF w[p].kind = "embed" /\ w[p].has /\ SnapAddr(h) \in stored
                                       THEN snaps[h].index ELSE @,
                          ![p].vec = IF w[p].kind = "reindex" /\ w[p].has /\ SnapAddr(h) \in stored
                                     THEN snaps[h].vec ELSE @]
        /\ UNCHANGED <<stored, head, snaps, gc, kills>>

\* the objects below the snapshot are put: index shards and root, vectors, trees
PutContent(p) ==
    /\ w[p].pc = "write"
    /\ stored' = stored \cup w[p].puts
    /\ w' = [w EXCEPT ![p].pc = IF w[p].kind \in Rebuilds THEN "parent" ELSE "snapshot",
                      ![p].puts = {}]
    /\ UNCHANGED <<head, snaps, gc, kills>>

\* mistake: the new snapshot replaces its parent in the history
NewSnapshotAmends(p) ==
    [root |-> w[p].tree, parent |-> w[p].parent, index |-> w[p].index, vec |-> w[p].vec,
     past |-> {Len(snaps) + 1}
                \cup (IF w[p].parent = 0 THEN {} ELSE snaps[w[p].parent].past \ {w[p].parent})]

NewSnapshot(p) ==
    [root |-> w[p].tree, parent |-> w[p].parent, index |-> w[p].index, vec |-> w[p].vec,
     past |-> {Len(snaps) + 1} \cup (IF w[p].parent = 0 THEN {} ELSE snaps[w[p].parent].past)]

PutSnapshot(p) ==
    /\ w[p].pc = "snapshot"
    /\ Len(snaps) < MaxSnaps
    /\ snaps' = Append(snaps, NewSnapshot(p))
    /\ stored' = stored \cup {SnapAddr(Len(snaps) + 1)}
    /\ w' = [w EXCEPT ![p] = [Idle EXCEPT !.pc = "branch", !.kind = w[p].kind,
                                          !.branch = w[p].branch, !.path = w[p].path,
                                          !.val = w[p].val, !.snap = Len(snaps) + 1,
                                          !.seen = w[p].seen, !.moved = w[p].moved]]
    /\ UNCHANGED <<head, gc, kills>>

\* Reset resolves its target and finds it among the ancestors of the head
ReadReset(p) ==
    LET h == head[w[p].branch]
    IN  /\ w[p].pc = "read"
        /\ w[p].kind = "reset"
        /\ h # 0
        /\ \A i \in snaps[h].past : SnapAddr(i) \in stored
        /\ \E i \in snaps[h].past :
              w' = [w EXCEPT ![p].pc = "branch", ![p].snap = i]
        /\ UNCHANGED <<stored, head, snaps, gc, kills>>

\* BranchSet, an upsert that carries no expectation about the row it replaces; the
\* foreign key asks for the snapshot object alone
SetBranch(p) ==
    LET b == w[p].branch
        t == snaps[w[p].snap].root
    IN  /\ w[p].pc = "branch"
        /\ SnapAddr(w[p].snap) \in stored
        /\ head' = [head EXCEPT ![b] = w[p].snap]
        /\ w' = [x \in Writers |->
                   IF x = p THEN Idle
                   ELSE IF w[x].pc # "idle" /\ w[x].branch = b
                        THEN [w[x] EXCEPT !.seen = @ \cup {t}, !.moved = TRUE]
                        ELSE w[x]]
        /\ UNCHANGED <<stored, snaps, gc, kills>>

\* the command is refused: rm of a note that is not there, reset of a branch
\* without a row
Refuse(p) ==
    /\ w[p].pc = "read"
    /\ \/ w[p].kind = "rm" /\ Content(w[p].branch)[w[p].path] = Absent
       \/ w[p].kind = "reset" /\ head[w[p].branch] = 0
    /\ w' = [w EXCEPT ![p] = Idle]
    /\ UNCHANGED <<stored, head, snaps, gc, kills>>

\* the process dies, or a store call fails and the command returns the error
Stop(p) ==
    /\ w[p].pc # "idle"
    /\ kills < MaxKills
    /\ kills' = kills + 1
    /\ w' = [w EXCEPT ![p] = Idle]
    /\ UNCHANGED <<stored, head, snaps, gc>>

----------------------------------------------------------------------------
(* The collector, without the history watermark (keep-last unset).           *)

\* mistake: only the head snapshots are marked, not their ancestors
GcMarkedHeadsOnly == UNION {Own(head[b]) : b \in {c \in Branches : head[c] # 0}}

\* BranchListAll, snapshotDepths and markSnapshotContent: everything the heads
\* need; a missing object fails the whole collection
GcMarked == UNION {Needs(head[b]) : b \in {c \in Branches : head[c] # 0}}

GcMark ==
    /\ "gc" \in Commands
    /\ gc.pc = "idle"
    /\ GcAlone => Quiet
    /\ GcMarked \subseteq stored
    /\ gc' = [pc |-> "list", marked |-> GcMarked, todo |-> {}]
    /\ UNCHANGED <<stored, head, snaps, w, kills>>

\* mistake: snapshots are never swept, only what they refer to
GcListKeepsSnapshots ==
    /\ gc.pc = "list"
    /\ gc' = [pc |-> "sweep", marked |-> gc.marked, todo |-> (stored \ gc.marked) \ SnapAddrs]
    /\ UNCHANGED <<stored, head, snaps, w, kills>>

\* List opens its cursor: the rows of this moment
GcList ==
    /\ gc.pc = "list"
    /\ gc' = [pc |-> "sweep", marked |-> gc.marked, todo |-> stored \ gc.marked]
    /\ UNCHANGED <<stored, head, snaps, w, kills>>

\* Delete of one row; the foreign key protects a snapshot a branch points to
GcDelete(a) ==
    /\ gc.pc = "sweep"
    /\ a \in gc.todo
    /\ \A b \in Branches : a # SnapAddr(head[b])
    /\ stored' = stored \ {a}
    /\ gc' = [gc EXCEPT !.todo = @ \ {a}]
    /\ UNCHANGED <<head, snaps, w, kills>>

\* the scan is over
GcEnd ==
    /\ gc.pc = "sweep"
    /\ gc.todo = {}
    /\ gc' = GcIdle
    /\ UNCHANGED <<stored, head, snaps, w, kills>>

\* a delete failed, or the process died
GcStop ==
    /\ gc.pc # "idle"
    /\ kills < MaxKills
    /\ kills' = kills + 1
    /\ gc' = GcIdle
    /\ UNCHANGED <<stored, head, snaps, w>>

----------------------------------------------------------------------------
WriterStep(p) ==
    \/ "set" \in Commands /\ StartSet(p)
    \/ "rm" \in Commands /\ StartRm(p)
    \/ StartOther(p)
    \/ ReadTree(p) \/ ReadParent(p) \/ CarryOver(p) \/ PutContent(p) \/ PutSnapshot(p)
    \/ ReadReset(p) \/ SetBranch(p)
    \/ Refuse(p) \/ Stop(p)

GcStep == GcMark \/ GcList \/ (\E a \in gc.todo : GcDelete(a)) \/ GcEnd \/ GcStop

Next == (\E p \in Writers : WriterStep(p)) \/ GcStep

Spec == Init /\ [][Next]_vars

----------------------------------------------------------------------------
(* Properties.                                                               *)

\* Whatever writers, kills and collections have done, every object the history of
\* a branch head refers to is there: a read, fsck or the next gc of any head
\* succeeds (markReachable in gc.go, fsck.go).
HeadsClosed == \A b \in Branches : head[b] # 0 => Needs(head[b]) \subseteq stored

\* A search of a branch head finds exactly the notes of its tree: the incremental
\* index of updateIndex (indexupdate.go), built from a head read separately from the
\* tree it is for, never drifts from the tree it is stored with.
IndexAgrees == \A b \in Branches :
    head[b] # 0 => snaps[head[b]].index \in {None, snaps[head[b]].root}

\* A collection that runs to its end leaves exactly what the branch heads need: it
\* removes nothing reachable and no garbage escapes it (GC in gc.go).
CollectionExact ==
    [][(gc.pc = "sweep" /\ gc'.pc = "idle" /\ kills' = kills) => stored' = GcMarked]_vars

\* The vectors of a snapshot are those of its own notes: a hybrid search never ranks
\* by an embedding of a note that is no longer there (vecbuild.go, indexupdate.go).
VecAgrees == \A b \in Branches :
    head[b] # 0 => snaps[head[b]].vec \in {None, snaps[head[b]].root}

\* A command that nobody overtook loses nothing: if no other command moved the branch
\* since an edit began, the new head keeps the whole history of the old one, and its
\* content is the old content with this one edit (commitTree in note.go).
UndisturbedEdit(p) ==
    LET b == w[p].branch
    IN  (/\ w[p].pc = "branch" /\ w'[p].pc = "idle"
         /\ w[p].kind \in Edits /\ head'[b] # head[b] /\ ~ w[p].moved /\ head[b] # 0)
        => /\ snaps[head[b]].past \subseteq snaps[head'[b]].past
           /\ snaps'[head'[b]].root = Changed(Content(b), w[p].path, w[p].val)
UndisturbedEditsKeepAll == [][\A p \in Writers : UndisturbedEdit(p)]_vars

\* Last-writer-wins and nothing worse: see LwwBranch.
Lww == INSTANCE LwwBranch WITH
    Clients  <- Writers,
    content  <- [b \in Branches |-> Content(b)],
    recorded <- {snaps[i].root : i \in 1 .. Len(snaps)},
    client   <- [p \in Writers |->
                   IF w[p].pc = "idle" THEN [mode |-> "closed"]
                   ELSE [mode |-> IF w[p].kind = "reset" THEN "restore" ELSE "edit",
                         branch |-> w[p].branch, window |-> w[p].seen]]
ImplementsLww == Lww!Spec
=============================================================================
