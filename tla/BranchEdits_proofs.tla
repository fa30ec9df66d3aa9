------------------------- MODULE BranchEdits_proofs -------------------------
(***************************************************************************)
(* What the edits of BranchWriters promise, for every number of writers,   *)
(* branches, paths and values and every bound: the writers implement the   *)
(* last-writer-wins branch of LwwBranch, an edit nobody overtook loses     *)
(* nothing, and vectors stay those of their notes as long as no index is   *)
(* rebuilt.                                                                *)
(***************************************************************************)
EXTENDS BranchWriters_proofs

(* The content a command makes of the content t is its one edit of t; a       *)
(* content is in the window of a command when it is that edit of one of the   *)
(* contents the branch held since the command began.                          *)
Edit(p, t) == Changed(t, w[p].path, w[p].val)
InWindow(p, u) == \E t \in w[p].seen : u = Edit(p, t)

(* The invariant behind last-writer-wins: the window of a command holds what  *)
(* its branch holds now, and what the command has read, or recorded in a      *)
(* snapshot, is in its window.  A reset reads no tree.                        *)
WindowOf(p) ==
    /\ Content(w[p].branch) \in w[p].seen
    /\ w[p].kind = "reset" => w[p].pc \in {"read", "branch"}
    /\ w[p].pc \in {"parent", "write", "snapshot"} => InWindow(p, w[p].tree)
    /\ w[p].pc = "branch" /\ w[p].kind # "reset" => InWindow(p, snaps[w[p].snap].root)
WindowInv == \A p \in Writers : w[p].pc # "idle" => WindowOf(p)

(* The invariant behind an undisturbed edit: as long as nobody moved the      *)
(* branch, the two reads of the head saw the same head, which is the head     *)
(* still.                                                                     *)
FreshOf(p) ==
    LET h == head[w[p].branch]
        t == Content(w[p].branch)
    IN  /\ w[p].pc \in {"parent", "write", "snapshot"} =>
              /\ w[p].tree = Edit(p, t)
              /\ w[p].has <=> h # 0
        /\ w[p].pc = "parent" => w[p].parent = 0
        /\ w[p].pc \in {"write", "snapshot"} => w[p].parent = h
        /\ w[p].pc = "branch" =>
              /\ snaps[w[p].snap].root = Edit(p, t)
              /\ h # 0 => snaps[h].past \subseteq snaps[w[p].snap].past
FreshInv == \A p \in Writers :
    w[p].pc # "idle" /\ w[p].kind \in Edits /\ ~ w[p].moved => w[p].pc = "read" \/ FreshOf(p)

(* A command begins without a parent: ReadParent leaves it so when the branch *)
(* had no row.                                                                *)
StartsBare == \A p \in Writers : w[p].pc = "read" => w[p].parent = 0

(* Vectors, as SnapsIndexed and WritersIndexed for the index.                 *)
SnapsVectored   == \A i \in 1 .. Len(snaps) : snaps[i].vec \in {None, snaps[i].root}
WritersVectored == \A p \in Writers : /\ w[p].kind # "reindex"
                                      /\ w[p].vec \in {None, w[p].tree}
----------------------------------------------------------------------------
(* What each step does to the writer that takes it.                           *)

SameCommand(p) ==
    /\ w'[p].kind = w[p].kind /\ w'[p].branch = w[p].branch /\ w'[p].path = w[p].path
    /\ w'[p].val = w[p].val /\ w'[p].seen = w[p].seen /\ w'[p].moved = w[p].moved
OthersSame(p) == \A y \in Writers : y # p => w'[y] = w[y]

(* What moving a branch does to the other commands on it.                     *)
OnBranch(y, b) == w[y].pc # "idle" /\ w[y].branch = b
Overtaken(y, t) ==
    /\ w'[y].pc = w[y].pc /\ w'[y].kind = w[y].kind /\ w'[y].branch = w[y].branch
    /\ w'[y].path = w[y].path /\ w'[y].val = w[y].val /\ w'[y].tree = w[y].tree
    /\ w'[y].snap = w[y].snap /\ w'[y].parent = w[y].parent /\ w'[y].vec = w[y].vec
    /\ w'[y].seen = w[y].seen \cup {t} /\ w'[y].moved

(* What TInv says of one writer.                                              *)
LEMMA WriterType ==
    ASSUME TInv, NEW p \in Writers
    PROVE  /\ w[p] \in WriterStates
           /\ w[p].tree \in Trees /\ w[p].seen \in SUBSET Trees
           /\ w[p].val \in Values \cup {Absent} /\ w[p].path \in Paths \cup {None}
           /\ w[p].pc # "idle" => /\ w[p].branch \in Branches
                                  /\ head[w[p].branch] \in 0 .. Len(snaps)
           /\ w[p].parent \in 0 .. Len(snaps)
           /\ w[p].pc = "branch" => w[p].snap \in 1 .. Len(snaps)
           /\ w[p].pc # "idle" /\ w[p].has => head[w[p].branch] # 0
<1>1. w[p] \in WriterStates
  BY DEF TInv, TypeOK
<1>2. QED
  BY <1>1 DEF TInv, Refs, HeadRefs, WriterRefs, WriterStates

LEMMA StartEffect ==
    ASSUME TInv, NEW p \in Writers, NEW b \in Branches, NEW k \in Kinds, NEW q, NEW v,
           Start(p, b, k, q, v)
    PROVE  /\ w[p].pc = "idle" /\ w'[p].pc = "read" /\ w'[p].kind = k /\ w'[p].branch = b
           /\ w'[p].path = q /\ w'[p].val = v /\ w'[p].seen = {Content(b)}
           /\ w'[p].moved = FALSE /\ w'[p].parent = 0 /\ w'[p].vec = None
           /\ OthersSame(p) /\ UNCHANGED <<head, snaps>>
<1> DEFINE c == {Content(b)}
           x == [Idle EXCEPT !.pc = "read", !.kind = k, !.branch = b, !.path = q, !.val = v,
                             !.seen = c]
<1>1. w' = [w EXCEPT ![p] = x] /\ w[p].pc = "idle" /\ UNCHANGED <<head, snaps>>
  BY DEF Start
<1>2. w \in [Writers -> WriterStates]
  BY DEF TInv, TypeOK
<1> HIDE DEF c
<1>3. /\ x.pc = "read" /\ x.kind = k /\ x.branch = b /\ x.path = q /\ x.val = v /\ x.seen = c
      /\ x.moved = FALSE /\ x.parent = 0 /\ x.vec = None
  BY DEF Idle
<1> HIDE DEF x
<1>4. QED
  BY <1>1, <1>2, <1>3 DEF c, OthersSame

LEMMA ReadTreeEffect ==
    ASSUME TInv, NEW p \in Writers, ReadTree(p)
    PROVE  /\ w[p].pc = "read" /\ w[p].kind # "reset"
           /\ w'[p].pc = (IF w[p].kind \in Rebuilds THEN "write" ELSE "parent")
           /\ w'[p].tree = Edit(p, Content(w[p].branch))
           /\ w'[p].has <=> head[w[p].branch] # 0
           /\ w'[p].parent = w[p].parent
           /\ w'[p].vec = (IF w[p].kind = "embed" THEN w'[p].tree ELSE None)
           /\ SameCommand(p) /\ OthersSame(p) /\ UNCHANGED <<head, snaps>>
<1> DEFINE u == Changed(Content(w[p].branch), w[p].path, w[p].val)
           k == w[p].kind
           newPc == IF k \in Rebuilds THEN "write" ELSE "parent"
           has == head[w[p].branch] # 0
           index == IF k = "reindex" THEN u ELSE None
           vec == IF k = "embed" THEN u ELSE None
           puts == {TreeAddr(u)}
                     \cup (IF k = "reindex" THEN {IndexAddr(u)} ELSE {})
                     \cup (IF k = "embed" THEN {VecAddr(u)} ELSE {})
           x == [w[p] EXCEPT !.pc = newPc, !.tree = u, !.has = has, !.index = index,
                             !.vec = vec, !.puts = puts]
<1>1. /\ w' = [w EXCEPT ![p] = x] /\ w[p].pc = "read" /\ k # "reset"
      /\ UNCHANGED <<head, snaps>>
  BY DEF ReadTree
<1>2. w \in [Writers -> WriterStates]
  BY DEF TInv, TypeOK
<1>3. /\ newPc = (IF w[p].kind \in Rebuilds THEN "write" ELSE "parent")
      /\ u = Edit(p, Content(w[p].branch))
      /\ vec = (IF w[p].kind = "embed" THEN u ELSE None)
  BY DEF Edit
<1>4. has <=> head[w[p].branch] # 0
  OBVIOUS
<1> HIDE DEF u, newPc, has, index, vec, puts
<1>5. /\ x.pc = newPc /\ x.tree = u /\ x.has = has /\ x.parent = w[p].parent /\ x.vec = vec
      /\ x.kind = w[p].kind /\ x.branch = w[p].branch /\ x.path = w[p].path
      /\ x.val = w[p].val /\ x.seen = w[p].seen /\ x.moved = w[p].moved
  BY <1>2 DEF WriterStates
<1>6. w'[p] = x /\ OthersSame(p)
  BY <1>1, <1>2 DEF OthersSame
<1> HIDE DEF x
<1>7. w'[p].has <=> head[w[p].branch] # 0
  BY <1>4, <1>5, <1>6
<1>8. QED
  BY <1>1, <1>3, <1>5, <1>6, <1>7 DEF SameCommand

LEMMA ReadParentEffect ==
    ASSUME TInv, NEW p \in Writers, ReadParent(p)
    PROVE  /\ w[p].pc = "parent" /\ w[p].kind \in Edits
           /\ w'[p].pc = "write" /\ w'[p].tree = w[p].tree /\ w'[p].has = w[p].has
           /\ w'[p].parent = (IF w[p].has THEN head[w[p].branch] ELSE w[p].parent)
           /\ w'[p].vec = w[p].vec
           /\ SameCommand(p) /\ OthersSame(p) /\ UNCHANGED <<head, snaps>>
<1>1. w \in [Writers -> WriterStates]
  BY DEF TInv, TypeOK
<1>2. CASE w[p].has
  <2> DEFINE h == head[w[p].branch]
             i == UpdatedIndex(h, w[p].tree)
             d == i.index
             puts == IF i.new THEN w[p].puts \cup {IndexAddr(d)} ELSE w[p].puts
             x == [w[p] EXCEPT !.pc = "write", !.parent = h, !.index = d, !.puts = puts]
  <2>1. /\ w' = [w EXCEPT ![p] = x] /\ w[p].pc = "parent" /\ w[p].kind \in Edits
        /\ UNCHANGED <<head, snaps>>
    BY <1>1, <1>2 DEF ReadParent, WriterStates
  <2> HIDE DEF puts, d, i
  <2>2. /\ x.pc = "write" /\ x.parent = h /\ x.vec = w[p].vec /\ x.tree = w[p].tree
        /\ x.has = w[p].has
        /\ x.kind = w[p].kind /\ x.branch = w[p].branch /\ x.path = w[p].path
        /\ x.val = w[p].val /\ x.seen = w[p].seen /\ x.moved = w[p].moved
    BY <1>1 DEF WriterStates
  <2>3. w'[p] = x /\ OthersSame(p)
    BY <1>1, <2>1 DEF OthersSame
  <2> HIDE DEF x
  <2>4. QED
    BY <1>2, <2>1, <2>2, <2>3 DEF SameCommand
<1>3. CASE ~ w[p].has
  BY <1>1, <1>3 DEF ReadParent, WriterStates, SameCommand, OthersSame
<1>4. QED
  BY <1>2, <1>3

LEMMA CarryOverEffect ==
    ASSUME TInv, NEW p \in Writers, CarryOver(p)
    PROVE  /\ w[p].pc = "parent" /\ w[p].kind \in Rebuilds
           /\ w'[p].pc = "snapshot" /\ w'[p].tree = w[p].tree
           /\ w[p].kind # "reindex" => w'[p].vec = w[p].vec
           /\ SameCommand(p) /\ OthersSame(p) /\ UNCHANGED <<head, snaps>>
BY DEF TInv, TypeOK, CarryOver, WriterStates, SameCommand, OthersSame

LEMMA PutContentEffect ==
    ASSUME TInv, NEW p \in Writers, PutContent(p)
    PROVE  /\ w[p].pc = "write"
           /\ w'[p].pc = (IF w[p].kind \in Rebuilds THEN "parent" ELSE "snapshot")
           /\ w'[p].tree = w[p].tree /\ w'[p].has = w[p].has /\ w'[p].parent = w[p].parent
           /\ w'[p].vec = w[p].vec
           /\ SameCommand(p) /\ OthersSame(p) /\ UNCHANGED <<head, snaps>>
BY DEF TInv, TypeOK, PutContent, WriterStates, SameCommand, OthersSame

LEMMA PutSnapshotEffect ==
    ASSUME TInv, NEW p \in Writers, PutSnapshot(p)
    PROVE  /\ w[p].pc = "snapshot" /\ w'[p].pc = "branch"
           /\ w'[p].snap = Len(snaps) + 1 /\ w'[p].parent = 0
           /\ w'[p].vec = None
           /\ Len(snaps) \in Nat /\ Len(snaps') = Len(snaps) + 1
           /\ snaps'[Len(snaps) + 1] = NewSnapshot(p)
           /\ \A i \in 1 .. Len(snaps) : snaps'[i] = snaps[i]
           /\ SameCommand(p) /\ OthersSame(p) /\ UNCHANGED head
<1> DEFINE n == Len(snaps) + 1
           x == [Idle EXCEPT !.pc = "branch", !.kind = w[p].kind, !.branch = w[p].branch,
                             !.path = w[p].path, !.val = w[p].val, !.snap = n,
                             !.seen = w[p].seen, !.moved = w[p].moved]
<1>1. /\ w' = [w EXCEPT ![p] = x] /\ w[p].pc = "snapshot" /\ UNCHANGED head
      /\ snaps' = Append(snaps, NewSnapshot(p)) /\ Len(snaps) < MaxSnaps
  BY DEF PutSnapshot
<1>2. w \in [Writers -> WriterStates] /\ snaps \in Seq(Snapshots)
  BY DEF TInv, TypeOK
<1>3. /\ Len(snaps) \in Nat /\ Len(snaps') = n /\ snaps'[n] = NewSnapshot(p)
      /\ \A i \in 1 .. Len(snaps) : snaps'[i] = snaps[i]
  BY <1>1, <1>2, NewSnapshotType
<1>4. /\ x.pc = "branch" /\ x.snap = n /\ x.parent = 0 /\ x.vec = None
      /\ x.kind = w[p].kind /\ x.branch = w[p].branch /\ x.path = w[p].path
      /\ x.val = w[p].val /\ x.seen = w[p].seen /\ x.moved = w[p].moved
  BY DEF Idle
<1>5. w'[p] = x /\ OthersSame(p)
  BY <1>1, <1>2 DEF OthersSame
<1> HIDE DEF x
<1>6. QED
  BY <1>1, <1>3, <1>4, <1>5 DEF SameCommand

LEMMA ReadResetEffect ==
    ASSUME TInv, NEW p \in Writers, ReadReset(p)
    PROVE  /\ w[p].pc = "read" /\ w[p].kind = "reset" /\ w'[p].pc = "branch"
           /\ w'[p].tree = w[p].tree /\ w'[p].vec = w[p].vec
           /\ SameCommand(p) /\ OthersSame(p) /\ UNCHANGED <<head, snaps>>
BY DEF TInv, TypeOK, ReadReset, WriterStates, SameCommand, OthersSame

LEMMA SetBranchEffect ==
    ASSUME TInv, NEW p \in Writers, SetBranch(p)
    PROVE  /\ w[p].pc = "branch" /\ w'[p] = Idle
           /\ head' = [head EXCEPT ![w[p].branch] = w[p].snap] /\ snaps' = snaps
           /\ \A y \in Writers : y # p => \/ w'[y] = w[y] /\ ~ OnBranch(y, w[p].branch)
                                          \/ /\ OnBranch(y, w[p].branch)
                                             /\ Overtaken(y, snaps[w[p].snap].root)
<1> DEFINE b == w[p].branch
           t == snaps[w[p].snap].root
<1>1. /\ w[p].pc = "branch" /\ w'[p] = Idle
      /\ head' = [head EXCEPT ![b] = w[p].snap] /\ snaps' = snaps
  BY DEF SetBranch
<1>2. ASSUME NEW y \in Writers, y # p
      PROVE  \/ w'[y] = w[y] /\ ~ OnBranch(y, b)
             \/ OnBranch(y, b) /\ Overtaken(y, t)
  <2>1. CASE OnBranch(y, b)
    <3> DEFINE seen == w[y].seen \cup {t}
    <3>1. w'[y] = [w[y] EXCEPT !.seen = seen, !.moved = TRUE]
      BY <1>2, <2>1 DEF SetBranch, OnBranch
    <3> HIDE DEF seen, t
    <3>2. w[y] \in WriterStates
      BY DEF TInv, TypeOK
    <3>3. /\ w'[y].pc = w[y].pc /\ w'[y].kind = w[y].kind /\ w'[y].branch = w[y].branch
          /\ w'[y].path = w[y].path /\ w'[y].val = w[y].val /\ w'[y].tree = w[y].tree
          /\ w'[y].snap = w[y].snap /\ w'[y].parent = w[y].parent /\ w'[y].vec = w[y].vec
          /\ w'[y].seen = seen /\ w'[y].moved
      BY <3>1, <3>2 DEF WriterStates
    <3>4. QED
      BY <2>1, <3>3 DEF Overtaken, seen
  <2>2. CASE ~ OnBranch(y, b)
    BY <1>2, <2>2 DEF SetBranch, OnBranch
  <2>3. QED
    BY <2>1, <2>2
<1>3. QED
  BY <1>1, <1>2

LEMMA EndEffect ==
    ASSUME TInv, NEW p \in Writers, Refuse(p) \/ Stop(p)
    PROVE  w[p].pc # "idle" /\ w'[p] = Idle /\ OthersSame(p) /\ UNCHANGED <<head, snaps>>
BY DEF TInv, TypeOK, Refuse, Stop, OthersSame

LEMMA GcEffect ==
    ASSUME GcStep
    PROVE  UNCHANGED <<w, head, snaps>>
BY DEF GcStep, GcMark, GcList, GcDelete, GcEnd, GcStop
----------------------------------------------------------------------------
(* A step that moves no branch and forgets no snapshot.                       *)
Grows == /\ head' = head /\ Len(snaps') >= Len(snaps)
         /\ \A i \in 1 .. Len(snaps) : snaps'[i] = snaps[i]

LEMMA GrowingKeepsContent ==
    ASSUME TInv, Grows, NEW b \in Branches
    PROVE  Content(b)' = Content(b)
<1>1. head[b] \in 0 .. Len(snaps)
  BY DEF TInv, Refs, HeadRefs
<1>2. QED
  BY <1>1 DEF Grows, Content

(* All steps but SetBranch and a new snapshot leave heads and snapshots.      *)
LEMMA UnchangedGrows ==
    ASSUME TInv, UNCHANGED <<head, snaps>>
    PROVE  Grows
BY DEF Grows, TInv, TypeOK

LEMMA PutSnapshotGrows ==
    ASSUME TInv, NEW p \in Writers, PutSnapshot(p)
    PROVE  Grows
BY PutSnapshotEffect DEF Grows

(* A writer that takes no part in such a step keeps its window.               *)
LEMMA OthersKeepWindow ==
    ASSUME TInv, Grows, WindowInv, NEW y \in Writers, w'[y] = w[y], w[y].pc # "idle"
    PROVE  WindowOf(y)'
<1>1. /\ w[y].branch \in Branches /\ WindowOf(y)
      /\ (w[y].pc = "branch" => w[y].snap \in 1 .. Len(snaps))
  BY WriterType DEF WindowInv
<1>2. \A c \in Branches : Content(c)' = Content(c)
  BY GrowingKeepsContent
<1>3. \A u : InWindow(y, u) => InWindow(y, u)'
  BY DEF InWindow, Edit
<1>4. w[y].pc = "branch" => snaps'[w[y].snap] = snaps[w[y].snap]
  BY <1>1 DEF Grows
<1>5. Content(w[y].branch)' = Content(w[y].branch)
  BY <1>1, <1>2
<1>6. QED
  BY <1>1, <1>3, <1>4, <1>5 DEF WindowOf

(* A step of p that goes on with its command keeps its window, when what it   *)
(* has now read or recorded is in it.                                         *)
LEMMA OwnWindow ==
    ASSUME TInv, Grows, WindowInv, NEW p \in Writers, SameCommand(p), w[p].pc # "idle",
           w[p].kind = "reset" => w'[p].pc \in {"read", "branch"},
           w'[p].pc \in {"parent", "write", "snapshot"} => InWindow(p, w'[p].tree),
           w'[p].pc = "branch" /\ w[p].kind # "reset" => InWindow(p, snaps'[w'[p].snap].root)
    PROVE  WindowOf(p)'
<1>1. w[p].branch \in Branches /\ WindowOf(p)
  BY WriterType DEF WindowInv
<1>2. \A c \in Branches : Content(c)' = Content(c)
  BY GrowingKeepsContent
<1>3. \A u : InWindow(p, u) => InWindow(p, u)'
  BY DEF InWindow, Edit, SameCommand
<1>4. Content(w[p].branch)' = Content(w[p].branch)
  BY <1>1, <1>2 DEF SameCommand
<1>5. Content(w[p].branch)' \in w'[p].seen
  BY <1>1, <1>4 DEF SameCommand, WindowOf
<1>6. QED
  BY <1>1, <1>3, <1>5 DEF WindowOf, SameCommand

(* The window of every command after a step that one writer takes without     *)
(* moving a branch: the others keep theirs.                                   *)
LEMMA StepWindow ==
    ASSUME TInv, Grows, WindowInv, NEW p \in Writers, OthersSame(p),
           w'[p].pc # "idle" => WindowOf(p)'
    PROVE  WindowInv'
<1> SUFFICES ASSUME NEW y \in Writers, w'[y].pc # "idle"
             PROVE  WindowOf(y)'
  BY DEF WindowInv
<1>1. CASE y = p
  BY <1>1
<1>2. CASE y # p
  BY <1>2, OthersKeepWindow DEF OthersSame
<1>3. QED
  BY <1>1, <1>2

(* Moving a branch puts the new content in the window of every command on it. *)
LEMMA SetBranchWindow ==
    ASSUME TInv, WindowInv, NEW p \in Writers, SetBranch(p)
    PROVE  WindowInv'
<1> SUFFICES ASSUME NEW y \in Writers, w'[y].pc # "idle"
             PROVE  WindowOf(y)'
  BY DEF WindowInv
<1>0. PICK b \in Branches, i \in 1 .. Len(snaps) : b = w[p].branch /\ i = w[p].snap
  BY SetBranchEffect, WriterType
<1> DEFINE t == snaps[i].root
<1>1. w'[p] = Idle /\ head' = [head EXCEPT ![b] = i] /\ snaps' = snaps
  BY <1>0, SetBranchEffect
<1>2. y # p
  BY <1>1 DEF Idle
<1>3. head'[b] = i /\ \A c \in Branches : c # b => head'[c] = head[c]
  BY <1>1 DEF TInv, TypeOK
<1>4. Content(b)' = t
  BY <1>1, <1>3 DEF Content
<1>5. \A c \in Branches : c # b => Content(c)' = Content(c)
  BY <1>1, <1>3 DEF Content
<1>6. CASE Overtaken(y, t) /\ OnBranch(y, b)
  <2>1. WindowOf(y)
    BY <1>6 DEF WindowInv, OnBranch
  <2>2. \A u : InWindow(y, u) => InWindow(y, u)'
    BY <1>6 DEF InWindow, Edit, Overtaken
  <2>3. Content(w[y].branch)' \in w'[y].seen
    BY <1>4, <1>6 DEF Overtaken, OnBranch
  <2>4. QED
    BY <1>1, <1>6, <2>1, <2>2, <2>3 DEF WindowOf, Overtaken
<1>7. CASE w'[y] = w[y] /\ ~ OnBranch(y, b)
  <2>1. w[y].branch \in Branches /\ w[y].branch # b /\ WindowOf(y)
    BY <1>7, WriterType DEF WindowInv, OnBranch
  <2>2. Content(w[y].branch)' = Content(w[y].branch)
    BY <1>5, <1>7, <2>1
  <2>3. \A u : InWindow(y, u) => InWindow(y, u)'
    BY <1>7 DEF InWindow, Edit
  <2>4. QED
    BY <1>1, <1>7, <2>1, <2>2, <2>3 DEF WindowOf
<1>8. QED
  BY <1>0, <1>2, <1>6, <1>7, SetBranchEffect

(* Every step of a writer keeps the windows.                                  *)
LEMMA WriterWindow ==
    ASSUME TInv, WindowInv, NEW p \in Writers, WriterStep(p)
    PROVE  WindowInv'
<1>1. WindowOf(p) \/ w[p].pc = "idle"
  BY DEF WindowInv
<1>2. ASSUME NEW b \in Branches, NEW k \in Kinds, NEW q, NEW v, Start(p, b, k, q, v)
      PROVE  WindowInv'
  <2>1. /\ w'[p].pc = "read" /\ w'[p].branch = b /\ w'[p].seen = {Content(b)}
        /\ OthersSame(p) /\ Grows
    BY <1>2, StartEffect, UnchangedGrows
  <2>2. Content(w[p].branch)' = Content(b)
    BY <2>1, GrowingKeepsContent
  <2>3. WindowOf(p)'
    BY <2>1, <2>2 DEF WindowOf
  <2>4. QED
    BY <2>1, <2>3, StepWindow
<1>3. CASE StartSet(p) \/ StartRm(p) \/ StartOther(p)
  BY <1>2, <1>3 DEF StartSet, StartRm, StartOther, Kinds, Edits, Rebuilds
<1>4. CASE ReadTree(p)
  <2>1. /\ w[p].pc = "read" /\ w[p].kind # "reset" /\ w'[p].pc \in {"write", "parent"}
        /\ w'[p].tree = Edit(p, Content(w[p].branch))
        /\ SameCommand(p) /\ OthersSame(p) /\ Grows
    BY <1>4, ReadTreeEffect, UnchangedGrows
  <2>2. InWindow(p, w'[p].tree)
    BY <1>1, <2>1 DEF WindowOf, InWindow
  <2>3. QED
    BY <2>1, <2>2, OwnWindow, StepWindow
<1>5. CASE ReadParent(p) \/ CarryOver(p) \/ PutContent(p)
  <2>1. /\ w[p].pc \in {"parent", "write"} /\ w'[p].pc \in {"parent", "write", "snapshot"}
        /\ w'[p].tree = w[p].tree
        /\ SameCommand(p) /\ OthersSame(p) /\ Grows
    BY <1>5, ReadParentEffect, CarryOverEffect, PutContentEffect, UnchangedGrows
  <2>2. InWindow(p, w[p].tree) /\ w[p].kind # "reset"
    BY <1>1, <2>1 DEF WindowOf
  <2>3. QED
    BY <2>1, <2>2, OwnWindow, StepWindow
<1>6. CASE PutSnapshot(p)
  <2>1. /\ w[p].pc = "snapshot" /\ w'[p].pc = "branch" /\ w'[p].snap = Len(snaps) + 1
        /\ snaps'[Len(snaps) + 1] = NewSnapshot(p)
        /\ SameCommand(p) /\ OthersSame(p) /\ Grows
    BY <1>6, PutSnapshotEffect, PutSnapshotGrows
  <2>2. NewSnapshot(p).root = w[p].tree
    BY DEF NewSnapshot
  <2>3. InWindow(p, snaps'[w'[p].snap].root) /\ w[p].kind # "reset"
    BY <1>1, <2>1, <2>2 DEF WindowOf
  <2>4. QED
    BY <2>1, <2>3, OwnWindow, StepWindow
<1>7. CASE ReadReset(p)
  <2>1. /\ w[p].pc = "read" /\ w[p].kind = "reset" /\ w'[p].pc = "branch"
        /\ SameCommand(p) /\ OthersSame(p) /\ Grows
    BY <1>7, ReadResetEffect, UnchangedGrows
  <2>2. QED
    BY <2>1, OwnWindow, StepWindow
<1>8. CASE SetBranch(p)
  BY <1>8, SetBranchWindow
<1>9. CASE Refuse(p) \/ Stop(p)
  <2>1. w'[p].pc = "idle" /\ OthersSame(p) /\ Grows
    BY <1>9, EndEffect, UnchangedGrows DEF Idle
  <2>2. QED
    BY <2>1, StepWindow
<1>10. QED
  BY <1>3, <1>4, <1>5, <1>6, <1>7, <1>8, <1>9 DEF WriterStep

(* The windows stay true in every step of the system.                         *)
LEMMA NextWindow ==
    ASSUME TInv, WindowInv, [Next]_vars
    PROVE  WindowInv'
<1>1. ASSUME UNCHANGED <<w, head, snaps>>
      PROVE  WindowInv'
  <2>1. Grows
    BY <1>1, UnchangedGrows
  <2>2. QED
    BY <1>1, <2>1, OthersKeepWindow DEF WindowInv
<1>2. QED
  BY <1>1, WriterWindow, GcEffect DEF Next, vars

LEMMA InitWindow == Init => WindowInv
BY DEF Init, WindowInv, Idle
----------------------------------------------------------------------------
(* The refinement mapping of Lww, by name.                                    *)
ContentMap  == [b \in Branches |-> Content(b)]
RecordedMap == {snaps[i].root : i \in 1 .. Len(snaps)}
ClientOf(p) == IF w[p].pc = "idle" THEN [mode |-> "closed"]
               ELSE [mode |-> IF w[p].kind = "reset" THEN "restore" ELSE "edit",
                     branch |-> w[p].branch, window |-> w[p].seen]
ClientMap == [p \in Writers |-> ClientOf(p)]
MapUnchanged == UNCHANGED <<ContentMap, RecordedMap, ClientMap>>

(* A client is closed exactly when its writer is idle.                        *)
LEMMA ClosedIsIdle ==
    ASSUME NEW p \in Writers
    PROVE  ClientOf(p) = Lww!Closed <=> w[p].pc = "idle"
<1>1. Lww!Closed = [mode |-> "closed"] /\ Lww!Closed.mode = "closed"
  BY DEF Lww!Closed
<1>2. w[p].pc # "idle" => ClientOf(p).mode # "closed"
  BY DEF ClientOf
<1>3. QED
  BY <1>1, <1>2 DEF ClientOf

(* A client whose command goes on sees no change.                             *)
LEMMA SameClient ==
    ASSUME NEW p \in Writers, SameCommand(p), w[p].pc # "idle", w'[p].pc # "idle"
    PROVE  ClientOf(p)' = ClientOf(p)
BY DEF ClientOf, SameCommand

LEMMA OtherClients ==
    ASSUME NEW p \in Writers, OthersSame(p), NEW y \in Writers, y # p
    PROVE  ClientOf(y)' = ClientOf(y)
BY DEF ClientOf, OthersSame

(* A step that moves no branch shows no new content, and one that adds no     *)
(* snapshot records none.                                                     *)
LEMMA SameContentMap ==
    ASSUME TInv, Grows
    PROVE  ContentMap' = ContentMap
<1>1. \A b \in Branches : Content(b)' = Content(b)
  BY GrowingKeepsContent
<1>2. QED
  BY <1>1 DEF ContentMap

LEMMA SameRecordedMap ==
    ASSUME snaps' = snaps
    PROVE  RecordedMap' = RecordedMap
BY DEF RecordedMap

(* A step inside a command is a stutter.                                      *)
LEMMA InnerStepStutters ==
    ASSUME TInv, NEW p \in Writers, SameCommand(p), OthersSame(p),
           w[p].pc # "idle", w'[p].pc # "idle", UNCHANGED <<head, snaps>>
    PROVE  MapUnchanged
<1>1. Grows
  BY UnchangedGrows
<1>2. \A y \in Writers : ClientOf(y)' = ClientOf(y)
  BY SameClient, OtherClients
<1>3. ClientMap' = ClientMap
  BY <1>2 DEF ClientMap
<1>4. QED
  BY <1>1, <1>3, SameContentMap, SameRecordedMap DEF MapUnchanged

(* A command that begins invokes its client.                                  *)
LEMMA StartInvokes ==
    ASSUME TInv, NEW p \in Writers, NEW b \in Branches, NEW k \in Kinds, NEW q, NEW v,
           Start(p, b, k, q, v)
    PROVE  Lww!Invoke(p, b, IF k = "reset" THEN "restore" ELSE "edit")
<1>1. /\ w[p].pc = "idle" /\ w'[p].pc = "read" /\ w'[p].kind = k /\ w'[p].branch = b
      /\ w'[p].path = q /\ w'[p].val = v /\ w'[p].seen = {Content(b)}
      /\ w'[p].moved = FALSE /\ w'[p].parent = 0 /\ w'[p].vec = None
      /\ OthersSame(p) /\ UNCHANGED <<head, snaps>>
  BY StartEffect, Zenon
<1> DEFINE m == IF k = "reset" THEN "restore" ELSE "edit"
           x == [mode |-> m, branch |-> b, window |-> {ContentMap[b]}]
<1>2. ClientMap[p] = Lww!Closed
  BY <1>1, ClosedIsIdle DEF ClientMap
<1>3. ClientOf(p)' = x
  BY <1>1 DEF ClientOf, ContentMap
<1> HIDE DEF x
<1>4. \A y \in Writers : ClientOf(y)' = IF y = p THEN x ELSE ClientOf(y)
  BY <1>1, <1>3, OtherClients
<1>5. ClientMap' = [ClientMap EXCEPT ![p] = x]
  BY <1>4 DEF ClientMap
<1>6. ContentMap' = ContentMap /\ RecordedMap' = RecordedMap
  BY <1>1, UnchangedGrows, SameContentMap, SameRecordedMap
<1>7. QED
  BY <1>2, <1>5, <1>6 DEF Lww!Invoke, ContentMap, RecordedMap, ClientMap, ClientOf, x

(* One edit changes one path at most: this is where there must be a path.     *)
LEMMA EditIsOneEdit ==
    ASSUME TInv, Paths # {}, NEW p \in Writers, NEW t \in Trees
    PROVE  Lww!OneEdit(t, Edit(p, t))
<1>1. PICK q \in Paths : w[p].path \in Paths => q = w[p].path
  OBVIOUS
<1>2. w[p].path \in Paths \/ w[p].path = None
  BY WriterType
<1>3. \A r \in Paths \ {q} : Edit(p, t)[r] = t[r]
  BY <1>1, <1>2, NoneAssumption DEF Edit, Changed
<1>4. QED
  BY <1>3 DEF Lww!OneEdit

(* A content in the window of a command that is no reset is one edit away     *)
(* from a content the client saw.                                             *)
LEMMA WindowIsOneEdit ==
    ASSUME TInv, Paths # {}, NEW p \in Writers, w[p].pc # "idle", NEW u, InWindow(p, u)
    PROVE  u \in Trees /\ \E t \in ClientMap[p].window : Lww!OneEdit(t, u)
<1>1. PICK t \in w[p].seen : u = Edit(p, t)
  BY DEF InWindow
<1>2. t \in Trees /\ w[p].val \in Values \cup {Absent}
  BY WriterType
<1>3. u \in Trees
  BY <1>1, <1>2, ChangedType DEF Edit
<1>4. ClientMap[p].window = w[p].seen
  BY DEF ClientMap, ClientOf
<1>5. Lww!OneEdit(t, u)
  BY <1>1, <1>2, EditIsOneEdit
<1>6. QED
  BY <1>3, <1>4, <1>5
(* A new snapshot records a content of the window.                            *)
LEMMA PutSnapshotRecords ==
    ASSUME TInv, WindowInv, Paths # {}, NEW p \in Writers, PutSnapshot(p)
    PROVE  \E u \in Lww!Contents : Lww!Record(p, u)
<1>0. PICK u \in Trees : u = w[p].tree
  BY WriterType
<1>1. /\ w[p].pc = "snapshot" /\ w'[p].pc = "branch"
      /\ Len(snaps) \in Nat /\ Len(snaps') = Len(snaps) + 1
      /\ snaps'[Len(snaps) + 1] = NewSnapshot(p)
      /\ \A i \in 1 .. Len(snaps) : snaps'[i] = snaps[i]
      /\ SameCommand(p) /\ OthersSame(p)
  BY PutSnapshotEffect
<1>2. InWindow(p, u) /\ w[p].kind # "reset"
  BY <1>0, <1>1 DEF WindowInv, WindowOf
<1>3. \E t \in ClientMap[p].window : Lww!OneEdit(t, u)
  BY <1>1, <1>2, WindowIsOneEdit
<1>4. ClientMap[p] # Lww!Closed /\ ClientMap[p].mode = "edit"
  BY <1>1, <1>2, ClosedIsIdle DEF ClientMap, ClientOf
<1>5. RecordedMap' = RecordedMap \cup {u}
  <2>1. NewSnapshot(p).root = u
    BY <1>0 DEF NewSnapshot
  <2>2. RecordedMap' = {snaps'[i].root : i \in 1 .. Len(snaps) + 1}
    BY <1>1 DEF RecordedMap
  <2>3. \A i \in 1 .. Len(snaps) + 1 : i = Len(snaps) + 1 \/ i \in 1 .. Len(snaps)
    BY <1>1
  <2>4. Len(snaps) + 1 \in 1 .. Len(snaps) + 1 /\ 1 .. Len(snaps) \subseteq 1 .. Len(snaps) + 1
    BY <1>1
  <2>5. QED
    BY <1>1, <2>1, <2>2, <2>3, <2>4 DEF RecordedMap
<1>6. \A y \in Writers : ClientOf(y)' = ClientOf(y)
  BY <1>1, SameClient, OtherClients
<1>7. ClientMap' = ClientMap
  BY <1>6 DEF ClientMap
<1>8. ContentMap' = ContentMap
  BY PutSnapshotGrows, SameContentMap
<1>9. u \in Lww!Contents
  BY DEF Lww!Contents, Trees
<1>10. Lww!Record(p, u)
  BY <1>3, <1>4, <1>5, <1>7, <1>8
     DEF Lww!Record, ContentMap, RecordedMap, ClientMap, ClientOf
<1>11. QED
  BY <1>9, <1>10

(* Moving the branch publishes a recorded content, and every open client of   *)
(* the branch sees it.                                                        *)
LEMMA SetBranchPublishes ==
    ASSUME TInv, WindowInv, Paths # {}, NEW p \in Writers, SetBranch(p)
    PROVE  \E u \in Lww!Contents : Lww!Publish(p, u)
<1>0. PICK b \in Branches, i \in 1 .. Len(snaps), u \in Trees :
         b = w[p].branch /\ i = w[p].snap /\ u = snaps[i].root
  BY SetBranchEffect, WriterType, SnapshotType
<1>1. /\ w[p].pc = "branch" /\ w'[p] = Idle /\ head' = [head EXCEPT ![b] = i]
      /\ snaps' = snaps
  BY <1>0, SetBranchEffect
<1>2. u \in RecordedMap
  BY <1>0 DEF RecordedMap
<1>3. ClientMap[p] # Lww!Closed /\ ClientMap[p].branch = b
  BY <1>0, <1>1, ClosedIsIdle DEF ClientMap, ClientOf
<1>4. ClientMap[p].mode = "edit" => \E t \in ClientMap[p].window : Lww!OneEdit(t, u)
  <2>1. ClientMap[p].mode = "edit" => w[p].kind # "reset"
    BY <1>1 DEF ClientMap, ClientOf
  <2>2. w[p].kind # "reset" => InWindow(p, u)
    BY <1>0, <1>1 DEF WindowInv, WindowOf
  <2>3. QED
    BY <1>1, <2>1, <2>2, WindowIsOneEdit
<1>5. ContentMap' = [ContentMap EXCEPT ![b] = u]
  <2>1. head'[b] = i /\ \A c \in Branches : c # b => head'[c] = head[c]
    BY <1>1 DEF TInv, TypeOK
  <2>2. \A c \in Branches : Content(c)' = IF c = b THEN u ELSE Content(c)
    BY <1>0, <1>1, <2>1 DEF Content
  <2>3. QED
    BY <2>2 DEF ContentMap
<1>6. RecordedMap' = RecordedMap
  BY <1>1, SameRecordedMap
<1>7. \A y \in Writers :
         ClientOf(y)' = IF y = p THEN Lww!Closed
                        ELSE IF ClientMap[y] # Lww!Closed /\ ClientMap[y].branch = b
                             THEN [ClientMap[y] EXCEPT !.window = @ \cup {u}]
                             ELSE ClientMap[y]
  <2> SUFFICES ASSUME NEW y \in Writers
               PROVE  ClientOf(y)' = IF y = p THEN Lww!Closed
                        ELSE IF ClientMap[y] # Lww!Closed /\ ClientMap[y].branch = b
                             THEN [ClientMap[y] EXCEPT !.window = @ \cup {u}]
                             ELSE ClientMap[y]
    OBVIOUS
  <2>1. ClientMap[y] = ClientOf(y) /\ (ClientMap[y] # Lww!Closed <=> w[y].pc # "idle")
    BY ClosedIsIdle DEF ClientMap
  <2>2. CASE y = p
    <3>1. w'[p].pc = "idle"
      BY <1>1 DEF Idle
    <3>2. QED
      BY <2>2, <3>1 DEF ClientOf, Lww!Closed
  <2>3. CASE y # p /\ w'[y] = w[y] /\ ~ OnBranch(y, b)
    <3>1. ClientOf(y)' = ClientOf(y)
      BY <2>3 DEF ClientOf
    <3>2. w[y].pc # "idle" => ClientOf(y).branch = w[y].branch
      BY DEF ClientOf
    <3>3. QED
      BY <2>1, <2>3, <3>1, <3>2 DEF OnBranch
  <2>4. CASE y # p /\ OnBranch(y, b) /\ Overtaken(y, u)
    <3> DEFINE m == IF w[y].kind = "reset" THEN "restore" ELSE "edit"
    <3> HIDE DEF m
    <3>1. ClientOf(y) = [mode |-> m, branch |-> b, window |-> w[y].seen]
      BY <2>4 DEF ClientOf, OnBranch, m
    <3>2. ClientOf(y)' = [mode |-> m, branch |-> b, window |-> w[y].seen \cup {u}]
      BY <2>4 DEF ClientOf, OnBranch, Overtaken, m
    <3>3. [ClientOf(y) EXCEPT !.window = @ \cup {u}]
             = [mode |-> m, branch |-> b, window |-> w[y].seen \cup {u}]
      <4> DEFINE seen == w[y].seen
                 x == [mode |-> m, branch |-> b, window |-> seen]
                 more == seen \cup {u}
      <4> HIDE DEF seen, more
      <4>1. [x EXCEPT !.window = more] = [mode |-> m, branch |-> b, window |-> more]
        OBVIOUS
      <4>3. x.window = seen
        OBVIOUS
      <4>2. ClientOf(y) = x
        BY <3>1 DEF seen
      <4> HIDE DEF x
      <4>4. QED
        BY <4>1, <4>2, <4>3, Zenon DEF seen, more
    <3>4. ClientOf(y).branch = b
      BY <3>1
    <3>5. QED
      BY <2>1, <2>4, <3>2, <3>3, <3>4, Zenon DEF OnBranch
  <2>5. QED
    BY <1>0, <2>2, <2>3, <2>4, SetBranchEffect
<1>8. ClientMap' = [y \in Writers |->
                      IF y = p THEN Lww!Closed
                      ELSE IF ClientMap[y] # Lww!Closed /\ ClientMap[y].branch = b
                           THEN [ClientMap[y] EXCEPT !.window = @ \cup {u}]
                           ELSE ClientMap[y]]
  BY <1>7 DEF ClientMap
<1>9. u \in Lww!Contents
  BY DEF Lww!Contents, Trees
<1>10. Lww!Publish(p, u)
  BY <1>2, <1>3, <1>4, <1>5, <1>6, <1>8, ZenonT(40)
     DEF Lww!Publish, ContentMap, RecordedMap, ClientMap, ClientOf
<1>11. QED
  BY <1>9, <1>10

(* A command that is refused, fails or is killed abandons its client.         *)
LEMMA EndAbandons ==
    ASSUME TInv, NEW p \in Writers, Refuse(p) \/ Stop(p)
    PROVE  Lww!Abandon(p)
<1>1. w[p].pc # "idle" /\ w'[p] = Idle /\ OthersSame(p) /\ UNCHANGED <<head, snaps>>
  BY EndEffect
<1>2. ClientMap[p] # Lww!Closed
  BY <1>1, ClosedIsIdle DEF ClientMap
<1>3. ClientOf(p)' = Lww!Closed
  BY <1>1 DEF ClientOf, Idle, Lww!Closed
<1>4. \A y \in Writers : ClientOf(y)' = IF y = p THEN Lww!Closed ELSE ClientOf(y)
  BY <1>1, <1>3, OtherClients
<1>5. ClientMap' = [ClientMap EXCEPT ![p] = Lww!Closed]
  BY <1>4 DEF ClientMap
<1>6. ContentMap' = ContentMap /\ RecordedMap' = RecordedMap
  BY <1>1, UnchangedGrows, SameContentMap, SameRecordedMap
<1>7. QED
  BY <1>2, <1>5, <1>6 DEF Lww!Abandon, ContentMap, RecordedMap, ClientMap, ClientOf

(* The initial states map to initial states.                                  *)
LEMMA InitMaps == Init => Lww!Init
<1> SUFFICES ASSUME Init
             PROVE  Lww!Init
  OBVIOUS
<1>1. \A b \in Branches : Content(b) = Empty
  BY DEF Init, Content
<1>2. {snaps[i].root : i \in 1 .. Len(snaps)} = {}
  BY DEF Init
<1>3. \A p \in Writers : w[p].pc = "idle"
  BY DEF Init, Idle
<1>4. QED
  BY <1>1, <1>2, <1>3 DEF Lww!Init, Lww!Empty, Empty, Lww!Closed

(* Every step maps to a step of the promise or to a stutter.                  *)
LEMMA StepMaps ==
    ASSUME TInv, WindowInv, Paths # {}, [Next]_vars
    PROVE  [Lww!Next]_(Lww!vars)
<1>1. MapUnchanged => UNCHANGED Lww!vars
  BY DEF MapUnchanged, Lww!vars, ContentMap, RecordedMap, ClientMap, ClientOf
<1>2. ASSUME UNCHANGED <<w, head, snaps>>
      PROVE  MapUnchanged
  BY <1>2, UnchangedGrows, SameContentMap, SameRecordedMap DEF MapUnchanged, ClientMap, ClientOf
<1>3. ASSUME NEW p \in Writers, WriterStep(p)
      PROVE  MapUnchanged \/ Lww!Next
  <2>1. ASSUME NEW b \in Branches, NEW k \in Kinds, NEW q, NEW v, Start(p, b, k, q, v)
        PROVE  Lww!Next
    BY <2>1, StartInvokes DEF Lww!Next
  <2>2. CASE StartSet(p) \/ StartRm(p) \/ StartOther(p)
    BY <2>1, <2>2 DEF StartSet, StartRm, StartOther, Kinds, Edits, Rebuilds
  <2>3. CASE ReadTree(p)
    BY <2>3, ReadTreeEffect, InnerStepStutters
  <2>4. CASE ReadParent(p) \/ CarryOver(p) \/ PutContent(p)
    BY <2>4, ReadParentEffect, CarryOverEffect, PutContentEffect, InnerStepStutters
  <2>5. CASE ReadReset(p)
    BY <2>5, ReadResetEffect, InnerStepStutters
  <2>6. CASE PutSnapshot(p)
    BY <2>6, PutSnapshotRecords DEF Lww!Next
  <2>7. CASE SetBranch(p)
    BY <2>7, SetBranchPublishes DEF Lww!Next
  <2>8. CASE Refuse(p) \/ Stop(p)
    BY <2>8, EndAbandons DEF Lww!Next
  <2>9. QED
    BY <1>3, <2>2, <2>3, <2>4, <2>5, <2>6, <2>7, <2>8 DEF WriterStep
<1>4. QED
  BY <1>1, <1>2, <1>3, GcEffect DEF Next, vars

(* Last-writer-wins and nothing worse: however many commands, kills and       *)
(* collections interleave, what a command publishes is one edit away from a   *)
(* content its branch really held while it ran, and a reset publishes a       *)
(* content that some snapshot recorded (note.go, commit.go, reset.go).  A     *)
(* library in which no note can be named, where Paths is empty, has no edits. *)
THEOREM WritersImplementLww ==
    ASSUME Paths # {}
    PROVE  Spec => ImplementsLww
<1>1. Init => TInv /\ WindowInv /\ Lww!Init
  BY InitTInv, InitWindow, InitMaps
<1>2. TInv /\ WindowInv /\ [Next]_vars => TInv' /\ WindowInv' /\ [Lww!Next]_(Lww!vars)
  BY NextTInv, NextWindow, StepMaps
<1>3. QED
  BY <1>1, <1>2, PTL DEF Spec, ImplementsLww, Lww!Spec
----------------------------------------------------------------------------
(* The edits nobody overtook.  First what a command starts from.              *)
LEMMA NextBare ==
    ASSUME TInv, StartsBare, [Next]_vars
    PROVE  StartsBare'
<1>1. ASSUME NEW p \in Writers, WriterStep(p)
      PROVE  StartsBare'
  <2>1. ASSUME OthersSame(p), w'[p].pc = "read" => w'[p].parent = 0
        PROVE  StartsBare'
    BY <2>1 DEF StartsBare, OthersSame
  <2>2. ASSUME NEW b \in Branches, NEW k \in Kinds, NEW q, NEW v, Start(p, b, k, q, v)
        PROVE  StartsBare'
    BY <2>1, <2>2, StartEffect
  <2>3. CASE StartSet(p) \/ StartRm(p) \/ StartOther(p)
    BY <2>2, <2>3 DEF StartSet, StartRm, StartOther, Kinds, Edits, Rebuilds
  <2>4. CASE ReadTree(p)
    BY <2>1, <2>4, ReadTreeEffect
  <2>5. CASE ReadParent(p) \/ CarryOver(p) \/ PutContent(p)
    BY <2>1, <2>5, ReadParentEffect, CarryOverEffect, PutContentEffect
  <2>6. CASE PutSnapshot(p) \/ ReadReset(p)
    BY <2>1, <2>6, PutSnapshotEffect, ReadResetEffect
  <2>7. CASE SetBranch(p)
    <3> SUFFICES ASSUME NEW y \in Writers, w'[y].pc = "read"
                 PROVE  w'[y].parent = 0
      BY DEF StartsBare
    <3>1. CASE y = p
      BY <2>7, <3>1, SetBranchEffect DEF Idle
    <3>2. CASE y # p
      BY <2>7, <3>2, SetBranchEffect DEF StartsBare, Overtaken
    <3>3. QED
      BY <3>1, <3>2
  <2>8. CASE Refuse(p) \/ Stop(p)
    BY <2>1, <2>8, EndEffect DEF Idle
  <2>9. QED
    BY <1>1, <2>3, <2>4, <2>5, <2>6, <2>7, <2>8 DEF WriterStep
<1>2. QED
  BY <1>1, GcEffect DEF Next, vars, StartsBare

(* A writer that takes no part in a step that moves no branch stays fresh.    *)
LEMMA OthersKeepFresh ==
    ASSUME TInv, Grows, NEW y \in Writers, w'[y] = w[y], w[y].pc # "idle", FreshOf(y)
    PROVE  FreshOf(y)'
<1>1. PICK b \in Branches : b = w[y].branch
  BY WriterType
<1>2. head[b] \in 0 .. Len(snaps) /\ (w[y].pc = "branch" => w[y].snap \in 1 .. Len(snaps))
  BY <1>1, WriterType
<1>3. Content(b)' = Content(b) /\ head'[b] = head[b]
  BY GrowingKeepsContent DEF Grows
<1>4. \A t : Edit(y, t)' = Edit(y, t)
  BY DEF Edit
<1>5. Content(w[y].branch)' = Content(b)
  BY <1>1, <1>3
<1>6. Edit(y, Content(w[y].branch))' = Edit(y, Content(w[y].branch))
  BY <1>1, <1>5 DEF Edit
<1>7. /\ head[b] # 0 => snaps'[head[b]] = snaps[head[b]]
      /\ w[y].pc = "branch" => snaps'[w[y].snap] = snaps[w[y].snap]
  BY <1>2 DEF Grows
<1>8. QED
  BY <1>1, <1>3, <1>6, <1>7 DEF FreshOf

(* The edits stay fresh when one writer takes a step that moves no branch, if *)
(* its own does.                                                              *)
LEMMA StepFresh ==
    ASSUME TInv, Grows, FreshInv, NEW p \in Writers, OthersSame(p),
           \/ w'[p].pc \in {"idle", "read"} \/ w'[p].kind \notin Edits \/ w'[p].moved
           \/ FreshOf(p)'
    PROVE  FreshInv'
<1> SUFFICES ASSUME NEW y \in Writers, w'[y].pc # "idle", w'[y].kind \in Edits,
                    ~ w'[y].moved, w'[y].pc # "read"
             PROVE  FreshOf(y)'
  BY DEF FreshInv
<1>1. CASE y = p
  BY <1>1
<1>2. CASE y # p
  <2>1. w'[y] = w[y]
    BY <1>2 DEF OthersSame
  <2>2. FreshOf(y)
    BY <2>1 DEF FreshInv
  <2>3. QED
    BY <2>1, <2>2, OthersKeepFresh
<1>3. QED
  BY <1>1, <1>2

(* Moving a branch marks every other command on it as overtaken, and touches  *)
(* no other branch.                                                           *)
LEMMA SetBranchFresh ==
    ASSUME TInv, FreshInv, NEW p \in Writers, SetBranch(p)
    PROVE  FreshInv'
<1> SUFFICES ASSUME NEW y \in Writers, w'[y].pc # "idle", w'[y].kind \in Edits,
                    ~ w'[y].moved, w'[y].pc # "read"
             PROVE  FreshOf(y)'
  BY DEF FreshInv
<1>1. PICK b \in Branches : b = w[p].branch
  BY SetBranchEffect, WriterType
<1>2. y # p
  BY SetBranchEffect DEF Idle
<1>3. w'[y] = w[y] /\ ~ OnBranch(y, b) /\ snaps' = snaps
  BY <1>1, <1>2, SetBranchEffect DEF Overtaken
<1>4. FreshOf(y)
  BY <1>3 DEF FreshInv
<1>5. PICK c \in Branches : c = w[y].branch
  BY <1>3, WriterType
<1>6. c # b
  BY <1>3, <1>5 DEF OnBranch
<1>7. head'[c] = head[c]
  BY <1>1, <1>6, SetBranchEffect DEF TInv, TypeOK
<1>8. Content(c)' = Content(c)
  BY <1>3, <1>7 DEF Content
<1>9. Edit(y, Content(w[y].branch))' = Edit(y, Content(w[y].branch))
  BY <1>3, <1>5, <1>8 DEF Edit
<1>10. QED
  BY <1>3, <1>4, <1>5, <1>7, <1>9 DEF FreshOf

(* Every step of a writer keeps the edits fresh.                              *)
LEMMA WriterFresh ==
    ASSUME TInv, StartsBare, FreshInv, NEW p \in Writers, WriterStep(p)
    PROVE  FreshInv'
<1>1. ASSUME Grows, SameCommand(p), w[p].pc # "idle"
      PROVE  /\ Edit(p, Content(w[p].branch))' = Edit(p, Content(w[p].branch))
             /\ (head[w[p].branch])' = head[w[p].branch]
  <2>1. PICK b \in Branches : b = w[p].branch
    BY <1>1, WriterType
  <2>2. Content(b)' = Content(b) /\ head'[b] = head[b]
    BY <1>1, GrowingKeepsContent DEF Grows
  <2>3. QED
    BY <1>1, <2>1, <2>2 DEF Edit, SameCommand
<1>2. ASSUME NEW b \in Branches, NEW k \in Kinds, NEW q, NEW v, Start(p, b, k, q, v)
      PROVE  FreshInv'
  <2>1. w'[p].pc = "read" /\ OthersSame(p) /\ Grows
    BY <1>2, StartEffect, UnchangedGrows
  <2>2. QED
    BY <2>1, StepFresh
<1>3. CASE StartSet(p) \/ StartRm(p) \/ StartOther(p)
  BY <1>2, <1>3 DEF StartSet, StartRm, StartOther, Kinds, Edits, Rebuilds
<1>4. CASE ReadTree(p)
  <2>1. /\ w[p].pc = "read" /\ w'[p].pc = (IF w[p].kind \in Rebuilds THEN "write" ELSE "parent")
        /\ w'[p].tree = Edit(p, Content(w[p].branch)) /\ w'[p].parent = w[p].parent
        /\ SameCommand(p) /\ OthersSame(p) /\ Grows
    BY <1>4, ReadTreeEffect, UnchangedGrows
  <2>2. w'[p].has <=> head[w[p].branch] # 0
    BY <1>4, ReadTreeEffect
  <2>3. w[p].parent = 0
    BY <2>1 DEF StartsBare
  <2>4. w[p].kind \in Edits => FreshOf(p)'
    <3>1. w[p].kind \in Edits => w'[p].pc = "parent"
      BY <2>1 DEF Edits, Rebuilds
    <3>2. QED
      BY <1>1, <2>1, <2>2, <2>3, <3>1 DEF FreshOf
  <2>5. QED
    BY <2>1, <2>4, StepFresh DEF SameCommand
<1>5. CASE ReadParent(p)
  <2>1. /\ w[p].pc = "parent" /\ w[p].kind \in Edits /\ w'[p].pc = "write"
        /\ w'[p].tree = w[p].tree
        /\ w'[p].parent = (IF w[p].has THEN head[w[p].branch] ELSE w[p].parent)
        /\ SameCommand(p) /\ OthersSame(p) /\ Grows
    BY <1>5, ReadParentEffect, UnchangedGrows
  <2>2. w'[p].has = w[p].has
    BY <1>5, ReadParentEffect
  <2>3. CASE w[p].moved
    BY <2>1, <2>3, StepFresh DEF SameCommand
  <2>4. CASE ~ w[p].moved
    <3>1. FreshOf(p)
      BY <2>1, <2>4 DEF FreshInv
    <3>2. /\ w[p].tree = Edit(p, Content(w[p].branch)) /\ w[p].parent = 0
          /\ w[p].has <=> head[w[p].branch] # 0
      BY <2>1, <3>1 DEF FreshOf
    <3>3. w'[p].parent = head[w[p].branch]
      BY <2>1, <3>2
    <3>4. FreshOf(p)'
      BY <1>1, <2>1, <2>2, <3>2, <3>3 DEF FreshOf
    <3>5. QED
      BY <2>1, <3>4, StepFresh
  <2>5. QED
    BY <2>3, <2>4
<1>6. CASE CarryOver(p)
  <2>1. w'[p].kind \notin Edits /\ OthersSame(p) /\ Grows
    BY <1>6, CarryOverEffect, UnchangedGrows DEF SameCommand, Edits, Rebuilds
  <2>2. QED
    BY <2>1, StepFresh
<1>7. CASE PutContent(p)
  <2>1. /\ w[p].pc = "write"
        /\ w'[p].pc = (IF w[p].kind \in Rebuilds THEN "parent" ELSE "snapshot")
        /\ w'[p].tree = w[p].tree /\ w'[p].parent = w[p].parent
        /\ SameCommand(p) /\ OthersSame(p) /\ Grows
    BY <1>7, PutContentEffect, UnchangedGrows
  <2>2. w'[p].has = w[p].has
    BY <1>7, PutContentEffect
  <2>3. CASE w[p].kind \notin Edits \/ w[p].moved
    BY <2>1, <2>3, StepFresh DEF SameCommand
  <2>4. CASE w[p].kind \in Edits /\ ~ w[p].moved
    <3>1. FreshOf(p) /\ w'[p].pc = "snapshot"
      BY <2>1, <2>4 DEF FreshInv, Edits, Rebuilds
    <3>2. FreshOf(p)'
      BY <1>1, <2>1, <2>2, <3>1 DEF FreshOf
    <3>3. QED
      BY <2>1, <3>2, StepFresh
  <2>5. QED
    BY <2>3, <2>4
<1>8. CASE PutSnapshot(p)
  <2>1. /\ w[p].pc = "snapshot" /\ w'[p].pc = "branch" /\ w'[p].snap = Len(snaps) + 1
        /\ snaps'[Len(snaps) + 1] = NewSnapshot(p)
        /\ \A i \in 1 .. Len(snaps) : snaps'[i] = snaps[i]
        /\ SameCommand(p) /\ OthersSame(p) /\ Grows
    BY <1>8, PutSnapshotEffect, PutSnapshotGrows
  <2>2. CASE w[p].kind \notin Edits \/ w[p].moved
    BY <2>1, <2>2, StepFresh DEF SameCommand
  <2>3. CASE w[p].kind \in Edits /\ ~ w[p].moved
    <3>1. FreshOf(p)
      BY <2>1, <2>3 DEF FreshInv
    <3>2. /\ w[p].tree = Edit(p, Content(w[p].branch))
          /\ w[p].parent = head[w[p].branch]
      BY <2>1, <3>1 DEF FreshOf
    <3>3. head[w[p].branch] \in 0 .. Len(snaps)
      BY <2>1, WriterType
    <3>4. /\ NewSnapshot(p).root = w[p].tree
          /\ w[p].parent # 0 => snaps[w[p].parent].past \subseteq NewSnapshot(p).past
      BY DEF NewSnapshot
    <3>5. head[w[p].branch] # 0 =>
             snaps'[head[w[p].branch]].past \subseteq snaps'[w'[p].snap].past
      BY <2>1, <3>2, <3>3, <3>4
    <3>6. FreshOf(p)'
      BY <1>1, <2>1, <3>2, <3>4, <3>5 DEF FreshOf
    <3>7. QED
      BY <2>1, <3>6, StepFresh
  <2>4. QED
    BY <2>2, <2>3
<1>9. CASE ReadReset(p)
  <2>1. w'[p].kind \notin Edits /\ OthersSame(p) /\ Grows
    BY <1>9, ReadResetEffect, UnchangedGrows DEF SameCommand, Edits
  <2>2. QED
    BY <2>1, StepFresh
<1>10. CASE SetBranch(p)
  BY <1>10, SetBranchFresh
<1>11. CASE Refuse(p) \/ Stop(p)
  <2>1. w'[p].pc = "idle" /\ OthersSame(p) /\ Grows
    BY <1>11, EndEffect, UnchangedGrows DEF Idle
  <2>2. QED
    BY <2>1, StepFresh
<1>12. QED
  BY <1>3, <1>4, <1>5, <1>6, <1>7, <1>8, <1>9, <1>10, <1>11 DEF WriterStep

LEMMA NextFresh ==
    ASSUME TInv, StartsBare, FreshInv, [Next]_vars
    PROVE  FreshInv'
<1>1. ASSUME UNCHANGED <<w, head, snaps>>
      PROVE  FreshInv'
  <2>1. Grows
    BY <1>1, UnchangedGrows
  <2>2. QED
    BY <1>1, <2>1, OthersKeepFresh DEF FreshInv
<1>2. QED
  BY <1>1, WriterFresh, GcEffect DEF Next, vars

(* Only a command's own SetBranch ends it with its branch elsewhere.          *)
LEMMA EndsBySetBranch ==
    ASSUME TInv, NEW p \in Writers, w[p].pc = "branch", w'[p].pc = "idle",
           head'[w[p].branch] # head[w[p].branch], [Next]_vars
    PROVE  SetBranch(p)
<1>1. head' # head
  OBVIOUS
<1>2. PICK x \in Writers : SetBranch(x)
  <2>1. ASSUME NEW x \in Writers, WriterStep(x)
        PROVE  SetBranch(x)
    BY <1>1, <2>1 DEF WriterStep, StartSet, StartRm, StartOther, Start, ReadTree, ReadParent,
          CarryOver, PutContent, PutSnapshot, ReadReset, Refuse, Stop
  <2>2. QED
    BY <1>1, <2>1, GcEffect DEF Next, vars
<1>3. CASE x # p
  BY <1>2, <1>3, SetBranchEffect DEF Overtaken
<1>4. QED
  BY <1>2, <1>3

(* A command that nobody overtook loses nothing: the head it sets keeps the   *)
(* whole history of the head it found, and its content is the old content     *)
(* with this one edit, though the command read the head twice and its branch  *)
(* is set without a check (commitTree in note.go).                            *)
THEOREM UndisturbedEditsLoseNothing == Spec => UndisturbedEditsKeepAll
<1>1. Init => TInv /\ StartsBare /\ FreshInv
  <2>1. Init => StartsBare /\ FreshInv
    BY DEF Init, StartsBare, FreshInv, Idle
  <2>2. QED
    BY <2>1, InitTInv
<1>2. TInv /\ StartsBare /\ FreshInv /\ [Next]_vars => TInv' /\ StartsBare' /\ FreshInv'
  BY NextTInv, NextBare, NextFresh
<1>3. TInv /\ FreshInv /\ [Next]_vars => [\A p \in Writers : UndisturbedEdit(p)]_vars
  <2> SUFFICES ASSUME TInv, FreshInv, [Next]_vars, NEW p \in Writers,
                      w[p].pc = "branch", w'[p].pc = "idle", w[p].kind \in Edits,
                      head'[w[p].branch] # head[w[p].branch], ~ w[p].moved,
                      head[w[p].branch] # 0
               PROVE  /\ snaps[head[w[p].branch]].past
                            \subseteq snaps[head'[w[p].branch]].past
                      /\ snaps'[head'[w[p].branch]].root
                            = Changed(Content(w[p].branch), w[p].path, w[p].val)
    BY DEF UndisturbedEdit
  <2>1. SetBranch(p)
    BY EndsBySetBranch
  <2>2. head'[w[p].branch] = w[p].snap /\ snaps' = snaps
    BY <2>1, SetBranchEffect, WriterType DEF TInv, TypeOK
  <2>3. FreshOf(p)
    BY DEF FreshInv
  <2>4. QED
    BY <2>2, <2>3 DEF FreshOf, Edit
<1>4. QED
  BY <1>1, <1>2, <1>3, PTL DEF Spec, UndisturbedEditsKeepAll
----------------------------------------------------------------------------
(* Vectors.  An edit stores none, a rebuild of embeddings stores those of the *)
(* tree it read; only a rebuild of the index carries over the vectors of      *)
(* another snapshot.                                                          *)
VecInv == TInv /\ SnapsVectored /\ WritersVectored

(* What each step does to the vectors of the writer that takes it.            *)
LEMMA NextVecInv ==
    ASSUME "reindex" \notin Commands, VecInv, [Next]_vars
    PROVE  VecInv'
<1>1. TInv /\ TInv'
  BY NextTInv DEF VecInv
<1>2. ASSUME NEW p \in Writers, OthersSame(p), w'[p].kind # "reindex",
             w'[p].vec \in {None, w'[p].tree}
      PROVE  WritersVectored'
  BY <1>2 DEF VecInv, WritersVectored, OthersSame
<1>3. snaps' = snaps => SnapsVectored'
  BY DEF VecInv, SnapsVectored
<1>4. ASSUME NEW p \in Writers, WriterStep(p)
      PROVE  SnapsVectored' /\ WritersVectored'
  <2>1. w[p].kind # "reindex" /\ w[p].vec \in {None, w[p].tree}
    BY DEF VecInv, WritersVectored
  <2>2. ASSUME NEW b \in Branches, NEW k \in Kinds, NEW q, NEW v, k # "reindex",
               Start(p, b, k, q, v)
        PROVE  SnapsVectored' /\ WritersVectored'
    <3>1. /\ w[p].pc = "idle" /\ w'[p].pc = "read" /\ w'[p].kind = k /\ w'[p].branch = b
          /\ w'[p].path = q /\ w'[p].val = v /\ w'[p].seen = {Content(b)}
          /\ w'[p].moved = FALSE /\ w'[p].parent = 0 /\ w'[p].vec = None
          /\ OthersSame(p) /\ UNCHANGED <<head, snaps>>
      BY <1>1, <2>2, StartEffect, Zenon
    <3>2. QED
      BY <1>2, <1>3, <2>2, <3>1
  <2>3. CASE StartSet(p) \/ StartRm(p) \/ StartOther(p)
    BY <2>2, <2>3 DEF StartSet, StartRm, StartOther, Kinds, Edits, Rebuilds
  <2>4. CASE ReadTree(p)
    <3>1. /\ w'[p].vec = (IF w[p].kind = "embed" THEN w'[p].tree ELSE None)
          /\ SameCommand(p) /\ OthersSame(p) /\ UNCHANGED <<head, snaps>>
      BY <1>1, <2>4, ReadTreeEffect
    <3>2. QED
      BY <1>2, <1>3, <2>1, <3>1 DEF SameCommand
  <2>5. CASE ReadParent(p) \/ CarryOver(p) \/ PutContent(p) \/ ReadReset(p)
    <3>1. /\ w'[p].vec = w[p].vec /\ w'[p].tree = w[p].tree
          /\ SameCommand(p) /\ OthersSame(p) /\ UNCHANGED <<head, snaps>>
      BY <1>1, <2>1, <2>5, ReadParentEffect, CarryOverEffect, PutContentEffect, ReadResetEffect
    <3>2. QED
      BY <1>2, <1>3, <2>1, <3>1 DEF SameCommand
  <2>6. CASE PutSnapshot(p)
    <3>1. /\ w'[p].vec = None /\ SameCommand(p) /\ OthersSame(p)
          /\ Len(snaps) \in Nat /\ Len(snaps') = Len(snaps) + 1
          /\ snaps'[Len(snaps) + 1] = NewSnapshot(p)
          /\ \A i \in 1 .. Len(snaps) : snaps'[i] = snaps[i]
      BY <1>1, <2>6, PutSnapshotEffect
    <3>2. WritersVectored'
      BY <1>2, <2>1, <3>1 DEF SameCommand
    <3>3. NewSnapshot(p).vec = w[p].vec /\ NewSnapshot(p).root = w[p].tree
      BY DEF NewSnapshot
    <3>4. SnapsVectored'
      BY <2>1, <3>1, <3>3 DEF VecInv, SnapsVectored
    <3>5. QED
      BY <3>2, <3>4
  <2>7. CASE SetBranch(p)
    <3>1. \A y \in Writers :
             \/ w'[y] = Idle
             \/ /\ w'[y].kind = w[y].kind /\ w'[y].vec = w[y].vec /\ w'[y].tree = w[y].tree
      BY <1>1, <2>7, SetBranchEffect DEF Overtaken
    <3>2. Idle.kind # "reindex" /\ Idle.vec = None
      BY DEF Idle
    <3>3. QED
      BY <1>1, <1>3, <2>7, <3>1, <3>2, SetBranchEffect DEF VecInv, WritersVectored
  <2>8. CASE Refuse(p) \/ Stop(p)
    <3>1. w'[p] = Idle /\ OthersSame(p) /\ UNCHANGED <<head, snaps>>
      BY <1>1, <2>8, EndEffect
    <3>2. Idle.kind # "reindex" /\ Idle.vec = None
      BY DEF Idle
    <3>3. QED
      BY <1>2, <1>3, <3>1, <3>2
  <2>9. QED
    BY <1>4, <2>3, <2>4, <2>5, <2>6, <2>7, <2>8 DEF WriterStep
<1>5. UNCHANGED <<w, head, snaps>> => SnapsVectored' /\ WritersVectored'
  BY DEF VecInv, SnapsVectored, WritersVectored
<1>6. SnapsVectored' /\ WritersVectored'
  BY <1>4, <1>5, GcEffect DEF Next, vars
<1>7. QED
  BY <1>1, <1>6 DEF VecInv

(* The vectors of a branch head are those of its own notes, however edits,    *)
(* rebuilds of embeddings and resets interleave, as long as no command        *)
(* rebuilds the index (RebuildEmbeddings in vecbuild.go, commitTree).         *)
THEOREM VectorsStayTrue ==
    ASSUME "reindex" \notin Commands
    PROVE  Spec => []VecAgrees
<1>1. Init => VecInv
  <2>1. Init => SnapsVectored /\ WritersVectored
    BY DEF Init, SnapsVectored, WritersVectored, Idle
  <2>2. QED
    BY <2>1, InitTInv DEF VecInv
<1>2. VecInv /\ [Next]_vars => VecInv'
  BY NextVecInv
<1>3. VecInv => VecAgrees
  BY DEF VecInv, TInv, Refs, HeadRefs, SnapsVectored, VecAgrees
<1>4. QED
  BY <1>1, <1>2, <1>3, PTL DEF Spec
=============================================================================
