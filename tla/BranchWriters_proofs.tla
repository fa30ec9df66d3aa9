------------------------ MODULE BranchWriters_proofs ------------------------
(***************************************************************************)
(* Theorems about BranchWriters, for every number of writers, branches,    *)
(* paths and values and every bound.                                       *)
(***************************************************************************)
EXTENDS BranchWriters, TLAPS

(* TypeOK is not inductive: the type of what a command reads depends on the  *)
(* branch it read being there.  Refs says that every number that names a     *)
(* snapshot names one that exists, and that a branch never loses its row.    *)
HeadRefs == \A b \in Branches : head[b] \in 0 .. Len(snaps)
PastRefs == \A i \in 1 .. Len(snaps) : snaps[i].past \subseteq 1 .. Len(snaps)
WriterRefs ==
    \A p \in Writers :
        /\ w[p].pc # "idle" => w[p].branch \in Branches
        /\ w[p].parent \in 0 .. Len(snaps)
        /\ w[p].pc = "branch" => w[p].snap \in 1 .. Len(snaps)
        /\ w[p].pc # "idle" /\ w[p].has => head[w[p].branch] # 0
Refs == HeadRefs /\ PastRefs /\ WriterRefs
TInv == TypeOK /\ Refs

(* The empty tree is a tree, and the sentinels are of their types.           *)
LEMMA IdleType == Empty \in Trees /\ Idle \in WriterStates
<1>1. Empty \in Trees
  BY DEF Empty, Trees
<1>2. QED
  BY <1>1, BoundsAssumption DEF Idle, WriterStates, Kinds, Edits

(* The initial state satisfies the invariant.                                *)
LEMMA InitTInv == Init => TInv
<1>1. Init => TypeOK
  BY IdleType, BoundsAssumption DEF Init, TypeOK, GcStates, GcIdle
<1>2. Init => Refs
  BY DEF Init, Refs, HeadRefs, PastRefs, WriterRefs, Idle
<1>3. QED
  BY <1>1, <1>2 DEF TInv

(* Reading an existing snapshot gives a record, and a branch a tree.         *)
LEMMA SnapshotType ==
    ASSUME TInv, NEW i \in 1 .. Len(snaps)
    PROVE  /\ snaps[i] \in Snapshots
           /\ snaps[i].root \in Trees
           /\ snaps[i].index \in Trees \cup {None}
           /\ snaps[i].vec \in Trees \cup {None}
           /\ snaps[i].past \subseteq 1 .. Len(snaps)
<1>1. snaps[i] \in Snapshots
  BY DEF TInv, TypeOK
<1>2. snaps[i].past \subseteq 1 .. Len(snaps)
  BY DEF TInv, Refs, PastRefs
<1>3. QED
  BY <1>1, <1>2 DEF Snapshots

LEMMA ContentType ==
    ASSUME TInv, NEW b \in Branches
    PROVE  Content(b) \in Trees
<1>1. head[b] \in 0 .. Len(snaps)
  BY DEF TInv, Refs, HeadRefs
<1>2. CASE head[b] = 0
  BY <1>2, IdleType DEF Content
<1>3. CASE head[b] # 0
  <2>1. head[b] \in 1 .. Len(snaps)
    BY <1>1, <1>3
  <2>2. QED
    BY <1>3, <2>1, SnapshotType DEF Content
<1>4. QED
  BY <1>2, <1>3

LEMMA ChangedType ==
    ASSUME NEW t \in Trees, NEW q, NEW v \in Values \cup {Absent}
    PROVE  Changed(t, q, v) \in Trees
BY DEF Changed, Trees

LEMMA UpdatedIndexType ==
    ASSUME TInv, NEW i \in 1 .. Len(snaps), NEW t \in Trees
    PROVE  UpdatedIndex(i, t).index \in Trees
<1>1. snaps[i].root \in Trees /\ snaps[i].index \in Trees \cup {None}
  BY SnapshotType
<1>2. ASSUME snaps[i].index # None
      PROVE  AppliedDelta(snaps[i].index, snaps[i].root, t) \in Trees
  <2>1. snaps[i].index \in Trees
    BY <1>1, <1>2
  <2>2. QED
    BY <1>1, <2>1 DEF AppliedDelta, Trees
<1>3. QED
  BY <1>2 DEF UpdatedIndex

(* Each step of a writer keeps the invariant.                                *)
LEMMA StartTInv ==
    ASSUME TInv, NEW p \in Writers, NEW b \in Branches, NEW k \in Kinds,
           NEW q \in Paths \cup {None}, NEW v \in Values \cup {Absent},
           k = "set" => q \in Paths /\ v \in Values,
           Start(p, b, k, q, v)
    PROVE  TInv'
<1>1. Content(b) \in Trees
  BY ContentType
<1>2. stored' \in SUBSET Addrs
  <2>1. k = "set" => NoteAddr(q, v) \in Addrs
    BY DEF Addrs, NoteAddrs
  <2>2. QED
    BY <2>1 DEF Start, TInv, TypeOK
<1>3. [Idle EXCEPT !.pc = "read", !.kind = k, !.branch = b, !.path = q, !.val = v,
                   !.seen = {Content(b)}] \in WriterStates
  BY <1>1, IdleType DEF WriterStates, Idle
<1>4. w' \in [Writers -> WriterStates]
  BY <1>3 DEF Start, TInv, TypeOK
<1>5. WriterRefs'
  BY DEF Start, TInv, TypeOK, Refs, WriterRefs, Idle
<1>6. QED
  BY <1>2, <1>4, <1>5 DEF Start, TInv, TypeOK, Refs, HeadRefs, PastRefs

(* A step that changes the state of one writer only, and neither the store,  *)
(* the heads nor the snapshots, keeps the invariant if it keeps that writer's *)
(* type and references.                                                      *)
LEMMA LocalStepTInv ==
    ASSUME TInv, NEW p \in Writers, NEW x \in WriterStates,
           w' = [w EXCEPT ![p] = x],
           x.pc # "idle" => x.branch \in Branches,
           x.parent \in 0 .. Len(snaps),
           x.pc = "branch" => x.snap \in 1 .. Len(snaps),
           x.pc # "idle" /\ x.has => head[x.branch] # 0,
           stored' \in SUBSET Addrs, kills' \in 0 .. MaxKills,
           UNCHANGED <<head, snaps, gc>>
    PROVE  TInv'
<1>1. TypeOK'
  BY DEF TInv, TypeOK
<1>2. WriterRefs'
  BY DEF TInv, TypeOK, Refs, WriterRefs
<1>3. QED
  BY <1>1, <1>2 DEF TInv, Refs, HeadRefs, PastRefs

LEMMA ReadTreeTInv ==
    ASSUME TInv, NEW p \in Writers, ReadTree(p)
    PROVE  TInv'
<1> DEFINE b == w[p].branch
           u == Changed(Content(b), w[p].path, w[p].val)
           k == w[p].kind
           newPc == IF k \in Rebuilds THEN "write" ELSE "parent"
           index == IF k = "reindex" THEN u ELSE None
           vec == IF k = "embed" THEN u ELSE None
           puts == {TreeAddr(u)}
                     \cup (IF k = "reindex" THEN {IndexAddr(u)} ELSE {})
                     \cup (IF k = "embed" THEN {VecAddr(u)} ELSE {})
           x == [w[p] EXCEPT !.pc = newPc, !.tree = u, !.has = (head[b] # 0),
                             !.index = index, !.vec = vec, !.puts = puts]
<1>1. w[p] \in WriterStates /\ b \in Branches
  BY DEF TInv, TypeOK, Refs, WriterRefs, ReadTree
<1>2. u \in Trees
  <2>1. w[p].val \in Values \cup {Absent}
    BY <1>1 DEF WriterStates
  <2>2. QED
    BY <1>1, <2>1, ContentType, ChangedType
<1>3. w' = [w EXCEPT ![p] = x]
  BY DEF ReadTree
<1> HIDE DEF u
<1>4. puts \in SUBSET Addrs
  BY <1>2 DEF Addrs, TreeAddrs, IndexAddrs, VecAddrs
<1>5. index \in Trees \cup {None} /\ vec \in Trees \cup {None}
  BY <1>2
<1>6. newPc \in {"write", "parent"} /\ (head[b] # 0) \in BOOLEAN
  OBVIOUS
<1> HIDE DEF newPc, index, vec, puts, k
<1>7. x \in WriterStates
  <2> DEFINE has == head[b] # 0
  <2>1. has \in BOOLEAN
    OBVIOUS
  <2> HIDE DEF has
  <2>2. [w[p] EXCEPT !.pc = newPc, !.tree = u, !.has = has,
                     !.index = index, !.vec = vec, !.puts = puts] \in WriterStates
    BY <1>1, <1>2, <1>4, <1>5, <1>6, <2>1 DEF WriterStates
  <2>3. QED
    BY <2>2 DEF has
<1>8. /\ x.branch = b /\ x.parent = w[p].parent /\ x.pc \in {"write", "parent"}
      /\ x.has = (head[b] # 0)
  BY <1>1, <1>6 DEF WriterStates
<1>9. w[p].parent \in 0 .. Len(snaps)
  BY DEF TInv, Refs, WriterRefs
<1> HIDE DEF x
<1>10. stored' \in SUBSET Addrs /\ kills' \in 0 .. MaxKills /\ UNCHANGED <<head, snaps, gc>>
  BY DEF ReadTree, TInv, TypeOK
<1>11. QED
  BY <1>1, <1>3, <1>7, <1>8, <1>9, <1>10, LocalStepTInv

LEMMA ReadParentTInv ==
    ASSUME TInv, NEW p \in Writers, ReadParent(p)
    PROVE  TInv'
<1> DEFINE h == head[w[p].branch]
           t == w[p].tree
<1>1. /\ w[p] \in WriterStates /\ w[p].branch \in Branches /\ w[p].pc = "parent"
      /\ w[p].parent \in 0 .. Len(snaps) /\ t \in Trees
      /\ w[p].has => h # 0
  BY DEF TInv, TypeOK, Refs, WriterRefs, ReadParent, WriterStates
<1>2. h \in 0 .. Len(snaps)
  BY <1>1 DEF TInv, Refs, HeadRefs
<1>3. stored' \in SUBSET Addrs /\ kills' \in 0 .. MaxKills /\ UNCHANGED <<head, snaps, gc>>
  BY DEF ReadParent, TInv, TypeOK
<1>4. CASE w[p].has
  <2> DEFINE d == UpdatedIndex(h, t).index
             x == [w[p] EXCEPT !.pc = "write", !.parent = h, !.index = d,
                               !.puts = IF UpdatedIndex(h, t).new
                                        THEN @ \cup {IndexAddr(d)} ELSE @]
  <2>1. h \in 1 .. Len(snaps)
    BY <1>1, <1>2, <1>4
  <2>2. d \in Trees
    BY <1>1, <2>1, UpdatedIndexType
  <2>3. w' = [w EXCEPT ![p] = x]
    BY <1>1, <1>4 DEF ReadParent, TInv, TypeOK, WriterStates
  <2> HIDE DEF d
  <2>4. x.puts \in SUBSET Addrs
    BY <1>1, <2>2 DEF Addrs, IndexAddrs, WriterStates
  <2>5. h \in 0 .. MaxSnaps
    BY <1>1 DEF TInv, TypeOK
  <2> HIDE DEF h
  <2>6. x \in WriterStates
    BY <1>1, <2>2, <2>4, <2>5 DEF WriterStates
  <2>7. x.branch = w[p].branch /\ x.parent = h /\ x.pc = "write" /\ x.has = w[p].has
    BY <1>1 DEF WriterStates
  <2> HIDE DEF x
  <2>8. h = head[x.branch]
    BY <2>7 DEF h
  <2>9. QED
    BY <1>1, <1>2, <1>3, <1>4, <2>3, <2>6, <2>7, <2>8, LocalStepTInv
<1>5. CASE ~ w[p].has
  <2> DEFINE x == [w[p] EXCEPT !.pc = "write", !.index = t, !.puts = @ \cup {IndexAddr(t)}]
  <2>1. w' = [w EXCEPT ![p] = x]
    BY <1>1, <1>5 DEF ReadParent, TInv, TypeOK, WriterStates
  <2>2. x.puts \in SUBSET Addrs
    BY <1>1 DEF Addrs, IndexAddrs, WriterStates
  <2>3. x \in WriterStates
    BY <1>1, <2>2 DEF WriterStates
  <2>4. /\ x.branch = w[p].branch /\ x.parent = w[p].parent /\ x.pc = "write"
        /\ x.has = w[p].has
    BY <1>1 DEF WriterStates
  <2> HIDE DEF x
  <2>5. QED
    BY <1>1, <1>3, <1>5, <2>1, <2>3, <2>4, LocalStepTInv
<1>6. QED
  BY <1>4, <1>5

LEMMA CarryOverTInv ==
    ASSUME TInv, NEW p \in Writers, CarryOver(p)
    PROVE  TInv'
<1> DEFINE h == head[w[p].branch]
           parent == IF w[p].has THEN h ELSE 0
           index == IF w[p].kind = "embed" /\ w[p].has /\ SnapAddr(h) \in stored
                    THEN snaps[h].index ELSE w[p].index
           vec == IF w[p].kind = "reindex" /\ w[p].has /\ SnapAddr(h) \in stored
                  THEN snaps[h].vec ELSE w[p].vec
           x == [w[p] EXCEPT !.pc = "snapshot", !.parent = parent, !.index = index, !.vec = vec]
<1>1. /\ w[p] \in WriterStates /\ w[p].branch \in Branches
      /\ w[p].parent \in 0 .. Len(snaps)
      /\ w[p].has => h # 0
  BY DEF TInv, TypeOK, Refs, WriterRefs, CarryOver
<1>2. h \in 0 .. Len(snaps) /\ h \in 0 .. MaxSnaps /\ 0 \in 0 .. MaxSnaps
  BY <1>1, BoundsAssumption DEF TInv, TypeOK, Refs, HeadRefs
<1>3. stored' \in SUBSET Addrs /\ kills' \in 0 .. MaxKills /\ UNCHANGED <<head, snaps, gc>>
  BY DEF CarryOver, TInv, TypeOK
<1>4. w' = [w EXCEPT ![p] = x]
  BY <1>1 DEF CarryOver, TInv, TypeOK, WriterStates
<1>5. w[p].has => snaps[h].index \in Trees \cup {None} /\ snaps[h].vec \in Trees \cup {None}
  <2>1. w[p].has => h \in 1 .. Len(snaps)
    BY <1>1, <1>2
  <2>2. QED
    BY <2>1, SnapshotType
<1> HIDE DEF h
<1>6. x \in WriterStates
  <2>1. index \in Trees \cup {None} /\ vec \in Trees \cup {None} /\ parent \in 0 .. MaxSnaps
    BY <1>1, <1>2, <1>5 DEF WriterStates
  <2> HIDE DEF index, vec, parent
  <2>2. QED
    BY <1>1, <2>1 DEF WriterStates
<1>7. /\ x.branch = w[p].branch /\ x.parent = (IF w[p].has THEN h ELSE 0)
      /\ x.pc = "snapshot" /\ x.has = w[p].has
  BY <1>1 DEF WriterStates
<1> HIDE DEF x
<1>8. h = head[x.branch] /\ 0 \in 0 .. Len(snaps)
  BY <1>2, <1>7 DEF h
<1>9. QED
  BY <1>1, <1>2, <1>3, <1>4, <1>6, <1>7, <1>8, LocalStepTInv

LEMMA PutContentTInv ==
    ASSUME TInv, NEW p \in Writers, PutContent(p)
    PROVE  TInv'
<1> DEFINE newPc == IF w[p].kind \in Rebuilds THEN "parent" ELSE "snapshot"
           x == [w[p] EXCEPT !.pc = newPc, !.puts = {}]
<1>1. /\ w[p] \in WriterStates /\ w[p].branch \in Branches /\ w[p].pc # "idle"
      /\ w[p].parent \in 0 .. Len(snaps)
      /\ w[p].has => head[w[p].branch] # 0
  BY DEF TInv, TypeOK, Refs, WriterRefs, PutContent
<1>2. stored' \in SUBSET Addrs /\ kills' \in 0 .. MaxKills /\ UNCHANGED <<head, snaps, gc>>
  BY <1>1 DEF PutContent, TInv, TypeOK, WriterStates
<1>3. w' = [w EXCEPT ![p] = x]
  BY <1>1 DEF PutContent, TInv, TypeOK, WriterStates
<1>4. x \in WriterStates
  BY <1>1 DEF WriterStates
<1>5. /\ x.branch = w[p].branch /\ x.parent = w[p].parent
      /\ x.pc \in {"parent", "snapshot"} /\ x.has = w[p].has
  BY <1>1 DEF WriterStates
<1> HIDE DEF x
<1>6. QED
  BY <1>1, <1>2, <1>3, <1>4, <1>5, LocalStepTInv

(* A new snapshot is a well-formed record with a past of existing snapshots. *)
LEMMA NewSnapshotType ==
    ASSUME TInv, NEW p \in Writers, Len(snaps) < MaxSnaps
    PROVE  NewSnapshot(p) \in Snapshots /\ NewSnapshot(p).past \subseteq 1 .. Len(snaps) + 1
<1> DEFINE past == {Len(snaps) + 1} \cup (IF w[p].parent = 0 THEN {} ELSE snaps[w[p].parent].past)
<1>1. Len(snaps) \in Nat /\ w[p] \in WriterStates /\ w[p].parent \in 0 .. Len(snaps)
  BY DEF TInv, TypeOK, Refs, WriterRefs
<1>2. past \subseteq 1 .. Len(snaps) + 1
  <2>1. w[p].parent # 0 => snaps[w[p].parent].past \subseteq 1 .. Len(snaps)
    BY <1>1, SnapshotType
  <2>2. QED
    BY <1>1, <2>1
<1>3. past \in SUBSET SnapIds
  BY <1>1, <1>2, BoundsAssumption DEF SnapIds
<1> HIDE DEF past
<1>4. NewSnapshot(p) = [root |-> w[p].tree, parent |-> w[p].parent, index |-> w[p].index,
                        vec |-> w[p].vec, past |-> past]
  BY DEF NewSnapshot, past
<1>5. QED
  BY <1>1, <1>2, <1>3, <1>4 DEF Snapshots, WriterStates

LEMMA PutSnapshotTInv ==
    ASSUME TInv, NEW p \in Writers, PutSnapshot(p)
    PROVE  TInv'
<1> DEFINE n == Len(snaps) + 1
           x == [Idle EXCEPT !.pc = "branch", !.kind = w[p].kind, !.branch = w[p].branch,
                             !.path = w[p].path, !.val = w[p].val, !.snap = n,
                             !.seen = w[p].seen, !.moved = w[p].moved]
<1>1. /\ Len(snaps) \in Nat /\ Len(snaps) < MaxSnaps /\ MaxSnaps \in Nat
      /\ w[p] \in WriterStates /\ w[p].branch \in Branches
  BY BoundsAssumption DEF TInv, TypeOK, Refs, WriterRefs, PutSnapshot
<1>2. /\ snaps' \in Seq(Snapshots) /\ Len(snaps') = n /\ snaps'[n] = NewSnapshot(p)
      /\ \A i \in 1 .. Len(snaps) : snaps'[i] = snaps[i]
  BY <1>1, NewSnapshotType DEF TInv, TypeOK, PutSnapshot
<1>3. SnapAddr(n) \in Addrs
  BY <1>1 DEF Addrs, SnapAddrs, SnapIds
<1>4. x \in WriterStates
  <2>1. n \in 0 .. MaxSnaps
    BY <1>1
  <2>2. /\ w[p].kind \in Kinds /\ w[p].path \in Paths \cup {None} /\ w[p].val \in Values \cup {Absent}
        /\ w[p].seen \in SUBSET Trees /\ w[p].moved \in BOOLEAN
    BY <1>1 DEF WriterStates
  <2> HIDE DEF n
  <2>3. QED
    BY <1>1, <2>1, <2>2, IdleType DEF WriterStates
<1>5. x.branch = w[p].branch /\ x.parent = 0 /\ x.pc = "branch" /\ x.snap = n /\ ~ x.has
  BY DEF Idle
<1>6. w' = [w EXCEPT ![p] = x]
  BY DEF PutSnapshot
<1> HIDE DEF x
<1>7. TypeOK'
  BY <1>1, <1>2, <1>3, <1>4, <1>6 DEF TInv, TypeOK, PutSnapshot
<1>8. HeadRefs'
  BY <1>1, <1>2 DEF TInv, TypeOK, Refs, HeadRefs, PutSnapshot
<1>9. PastRefs'
  <2>1. \A i \in 1 .. Len(snaps) : snaps'[i].past \subseteq 1 .. n
    BY <1>1, <1>2 DEF TInv, Refs, PastRefs
  <2>2. snaps'[n].past \subseteq 1 .. n
    BY <1>1, <1>2, NewSnapshotType
  <2>3. QED
    BY <1>1, <1>2, <2>1, <2>2 DEF PastRefs
<1>10. WriterRefs'
  <2> SUFFICES ASSUME NEW y \in Writers
               PROVE  /\ w'[y].pc # "idle" => w'[y].branch \in Branches
                      /\ w'[y].parent \in 0 .. Len(snaps')
                      /\ w'[y].pc = "branch" => w'[y].snap \in 1 .. Len(snaps')
                      /\ w'[y].pc # "idle" /\ w'[y].has => head'[w'[y].branch] # 0
    BY DEF WriterRefs
  <2>1. CASE y = p
    BY <1>1, <1>2, <1>5, <1>6, <2>1 DEF TInv, TypeOK
  <2>2. CASE y # p
    <3>1. w'[y] = w[y] /\ head' = head
      BY <1>6, <2>2 DEF TInv, TypeOK, PutSnapshot
    <3>2. /\ w[y].pc # "idle" => w[y].branch \in Branches
          /\ w[y].parent \in 0 .. Len(snaps)
          /\ w[y].pc = "branch" => w[y].snap \in 1 .. Len(snaps)
          /\ w[y].pc # "idle" /\ w[y].has => head[w[y].branch] # 0
      BY DEF TInv, Refs, WriterRefs
    <3>3. QED
      BY <1>1, <1>2, <3>1, <3>2
  <2>3. QED
    BY <2>1, <2>2
<1>11. QED
  BY <1>7, <1>8, <1>9, <1>10 DEF TInv, Refs

LEMMA ReadResetTInv ==
    ASSUME TInv, NEW p \in Writers, ReadReset(p)
    PROVE  TInv'
<1> DEFINE h == head[w[p].branch]
<1>1. /\ w[p] \in WriterStates /\ w[p].branch \in Branches /\ w[p].pc = "read"
      /\ w[p].parent \in 0 .. Len(snaps) /\ h # 0
      /\ w[p].has => h # 0
  BY DEF TInv, TypeOK, Refs, WriterRefs, ReadReset
<1>2. h \in 1 .. Len(snaps)
  BY <1>1 DEF TInv, Refs, HeadRefs
<1>3. PICK i \in snaps[h].past : w' = [w EXCEPT ![p].pc = "branch", ![p].snap = i]
  BY DEF ReadReset
<1> DEFINE x == [w[p] EXCEPT !.pc = "branch", !.snap = i]
<1>4. i \in 1 .. Len(snaps) /\ i \in 0 .. MaxSnaps
  <2>1. i \in 1 .. Len(snaps)
    BY <1>2, <1>3, SnapshotType
  <2>2. QED
    BY <2>1, BoundsAssumption DEF TInv, TypeOK
<1>5. w' = [w EXCEPT ![p] = x]
  BY <1>1, <1>3 DEF TInv, TypeOK, WriterStates
<1>6. x \in WriterStates
  BY <1>1, <1>4 DEF WriterStates
<1>7. /\ x.branch = w[p].branch /\ x.parent = w[p].parent /\ x.pc = "branch"
      /\ x.has = w[p].has /\ x.snap = i
  BY <1>1 DEF WriterStates
<1>8. stored' \in SUBSET Addrs /\ kills' \in 0 .. MaxKills /\ UNCHANGED <<head, snaps, gc>>
  BY DEF ReadReset, TInv, TypeOK
<1> HIDE DEF x
<1>9. QED
  BY <1>1, <1>4, <1>5, <1>6, <1>7, <1>8, LocalStepTInv

LEMMA SetBranchTInv ==
    ASSUME TInv, NEW p \in Writers, SetBranch(p)
    PROVE  TInv'
<1> DEFINE b == w[p].branch
           i == w[p].snap
           t == snaps[i].root
<1>1. /\ w[p] \in WriterStates /\ b \in Branches /\ i \in 1 .. Len(snaps)
      /\ i \in 0 .. MaxSnaps
  BY DEF TInv, TypeOK, Refs, WriterRefs, SetBranch, WriterStates
<1>2. t \in Trees
  BY <1>1, SnapshotType
<1>3. head' = [head EXCEPT ![b] = i] /\ UNCHANGED <<stored, snaps, gc, kills>>
  BY DEF SetBranch
<1>4. \A y \in Writers :
         \/ w'[y] = Idle
         \/ w'[y] = [w[y] EXCEPT !.seen = @ \cup {t}, !.moved = TRUE]
         \/ w'[y] = w[y]
  BY DEF SetBranch
<1> HIDE DEF t
<1>5. \A y \in Writers : [w[y] EXCEPT !.seen = @ \cup {t}, !.moved = TRUE] \in WriterStates
  <2> SUFFICES ASSUME NEW y \in Writers
               PROVE  [w[y] EXCEPT !.seen = @ \cup {t}, !.moved = TRUE] \in WriterStates
    OBVIOUS
  <2> DEFINE seen == w[y].seen \cup {t}
  <2>1. w[y] \in WriterStates
    BY DEF TInv, TypeOK
  <2>2. seen \in SUBSET Trees
    BY <1>2, <2>1 DEF WriterStates
  <2> HIDE DEF seen
  <2>3. [w[y] EXCEPT !.seen = seen, !.moved = TRUE] \in WriterStates
    BY <2>1, <2>2 DEF WriterStates
  <2>4. QED
    BY <2>3 DEF seen
<1>6. w' \in [Writers -> WriterStates]
  <2>1. w' = [y \in Writers |-> w'[y]]
    BY DEF SetBranch
  <2>2. \A y \in Writers : w'[y] \in WriterStates
    BY <1>4, <1>5, IdleType DEF TInv, TypeOK
  <2>3. QED
    BY <2>1, <2>2
<1>7. TypeOK'
  BY <1>1, <1>3, <1>6 DEF TInv, TypeOK
<1>8. HeadRefs'
  BY <1>1, <1>3 DEF TInv, TypeOK, Refs, HeadRefs
<1>9. PastRefs'
  BY <1>3 DEF TInv, Refs, PastRefs
<1>10. WriterRefs'
  <2> SUFFICES ASSUME NEW y \in Writers
               PROVE  /\ w'[y].pc # "idle" => w'[y].branch \in Branches
                      /\ w'[y].parent \in 0 .. Len(snaps')
                      /\ w'[y].pc = "branch" => w'[y].snap \in 1 .. Len(snaps')
                      /\ w'[y].pc # "idle" /\ w'[y].has => head'[w'[y].branch] # 0
    BY DEF WriterRefs
  <2>1. /\ w[y] \in WriterStates
        /\ w[y].pc # "idle" => w[y].branch \in Branches
        /\ w[y].parent \in 0 .. Len(snaps)
        /\ w[y].pc = "branch" => w[y].snap \in 1 .. Len(snaps)
        /\ w[y].pc # "idle" /\ w[y].has => head[w[y].branch] # 0
    BY DEF TInv, TypeOK, Refs, WriterRefs
  <2>2. \A c \in Branches : head[c] # 0 => head'[c] # 0
    BY <1>1, <1>3 DEF TInv, TypeOK
  <2>3. CASE w'[y] = Idle
    <3>1. w'[y].pc = "idle" /\ w'[y].parent = 0
      BY <2>3 DEF Idle
    <3>2. QED
      BY <1>3, <3>1, <2>1
  <2>4. CASE w'[y] # Idle
    <3>1. /\ w'[y].pc = w[y].pc /\ w'[y].branch = w[y].branch /\ w'[y].parent = w[y].parent
          /\ w'[y].snap = w[y].snap /\ w'[y].has = w[y].has
      BY <1>4, <2>1, <2>4 DEF WriterStates
    <3>2. QED
      BY <1>3, <2>1, <2>2, <3>1
  <2>5. QED
    BY <2>3, <2>4
<1>11. QED
  BY <1>7, <1>8, <1>9, <1>10 DEF TInv, Refs

(* Refuse and Stop leave the writer idle.                                    *)
LEMMA EndTInv ==
    ASSUME TInv, NEW p \in Writers, Refuse(p) \/ Stop(p)
    PROVE  TInv'
<1>1. w' = [w EXCEPT ![p] = Idle] /\ UNCHANGED <<stored, head, snaps, gc>>
  BY DEF Refuse, Stop
<1>2. stored' \in SUBSET Addrs /\ kills' \in 0 .. MaxKills
  BY BoundsAssumption DEF Refuse, Stop, TInv, TypeOK
<1>3. Idle.pc = "idle" /\ Idle.parent = 0
  BY DEF Idle
<1>4. 0 \in 0 .. Len(snaps)
  BY DEF TInv, TypeOK
<1>5. QED
  BY <1>1, <1>2, <1>3, <1>4, IdleType, LocalStepTInv

(* What a head needs are addresses, so what the collector marks are too.     *)
LEMMA OwnType ==
    ASSUME TInv, NEW i \in 1 .. Len(snaps)
    PROVE  Own(i) \subseteq Addrs
<1>1. i \in SnapIds /\ snaps[i].root \in Trees
  BY SnapshotType, BoundsAssumption DEF TInv, TypeOK, SnapIds
<1>2. \A t \in Trees : Notes(t) \subseteq Addrs
  BY DEF Notes, Trees, Addrs, NoteAddrs
<1>3. snaps[i].index # None => snaps[i].index \in Trees
  BY SnapshotType
<1>4. snaps[i].vec # None => snaps[i].vec \in Trees
  BY SnapshotType
<1>5. /\ SnapAddr(i) \in Addrs
      /\ \A t \in Trees : TreeAddr(t) \in Addrs /\ IndexAddr(t) \in Addrs /\ VecAddr(t) \in Addrs
  BY <1>1 DEF Addrs, SnapAddrs, TreeAddrs, IndexAddrs, VecAddrs
<1>6. QED
  BY <1>1, <1>2, <1>3, <1>4, <1>5 DEF Own

LEMMA GcMarkedType ==
    ASSUME TInv
    PROVE  GcMarked \subseteq Addrs
<1> SUFFICES ASSUME NEW b \in Branches, head[b] # 0, NEW i \in snaps[head[b]].past
             PROVE  Own(i) \subseteq Addrs
  BY DEF GcMarked, Needs
<1>1. head[b] \in 1 .. Len(snaps)
  BY DEF TInv, Refs, HeadRefs
<1>2. i \in 1 .. Len(snaps)
  BY <1>1, SnapshotType
<1>3. QED
  BY <1>2, OwnType

(* The steps of the collector keep the invariant.                            *)
LEMMA GcTInv ==
    ASSUME TInv, GcStep
    PROVE  TInv'
<1>1. head' = head /\ snaps' = snaps /\ w' = w
  BY DEF GcStep, GcMark, GcList, GcDelete, GcEnd, GcStop
<1>2. stored' \in SUBSET Addrs
  BY DEF GcStep, GcMark, GcList, GcDelete, GcEnd, GcStop, TInv, TypeOK
<1>3. kills' \in 0 .. MaxKills
  BY BoundsAssumption DEF GcStep, GcMark, GcList, GcDelete, GcEnd, GcStop, TInv, TypeOK
<1>4. gc' \in GcStates
  <2>1. GcIdle \in GcStates
    BY DEF GcIdle, GcStates
  <2>2. stored \subseteq Addrs /\ gc \in GcStates
    BY DEF TInv, TypeOK
  <2>3. CASE GcMark
    BY <2>2, <2>3, GcMarkedType DEF GcMark, GcStates
  <2>4. CASE GcList
    BY <2>2, <2>4 DEF GcList, GcStates
  <2>5. CASE \E a \in gc.todo : GcDelete(a)
    BY <2>2, <2>5 DEF GcDelete, GcStates
  <2>6. CASE GcEnd \/ GcStop
    BY <2>1, <2>6 DEF GcEnd, GcStop
  <2>7. QED
    BY <2>3, <2>4, <2>5, <2>6 DEF GcStep
<1>5. QED
  BY <1>1, <1>2, <1>3, <1>4 DEF TInv, TypeOK, Refs, HeadRefs, PastRefs, WriterRefs

(* Every step of the system keeps the invariant.                             *)
LEMMA NextTInv ==
    ASSUME TInv, [Next]_vars
    PROVE  TInv'
<1>1. CASE Next
  <2>1. CASE GcStep
    BY <2>1, GcTInv
  <2>2. ASSUME NEW p \in Writers, WriterStep(p)
        PROVE  TInv'
    <3>1. CASE StartSet(p)
      BY <3>1, StartTInv DEF StartSet, Kinds, Edits
    <3>2. CASE StartRm(p)
      BY <3>2, StartTInv DEF StartRm, Kinds, Edits
    <3>3. CASE StartOther(p)
      BY <3>3, StartTInv, CommandsAssumption DEF StartOther
    <3>4. CASE ReadTree(p) \/ ReadParent(p) \/ CarryOver(p) \/ PutContent(p)
      BY <3>4, ReadTreeTInv, ReadParentTInv, CarryOverTInv, PutContentTInv
    <3>5. CASE PutSnapshot(p) \/ ReadReset(p) \/ SetBranch(p) \/ Refuse(p) \/ Stop(p)
      BY <3>5, PutSnapshotTInv, ReadResetTInv, SetBranchTInv, EndTInv
    <3>6. QED
      BY <2>2, <3>1, <3>2, <3>3, <3>4, <3>5 DEF WriterStep
  <2>3. QED
    BY <1>1, <2>1, <2>2 DEF Next
<1>2. CASE UNCHANGED vars
  BY <1>2 DEF vars, TInv, TypeOK, Refs, HeadRefs, PastRefs, WriterRefs
<1>3. QED
  BY <1>1, <1>2

(* The references the store calls follow always exist: no interleaving of    *)
(* writers, kills and collections makes a command point at a snapshot that   *)
(* was never written or read a head that has no row.                         *)
THEOREM ReferencesExist == Spec => []TInv
<1>1. QED
  BY InitTInv, NextTInv, PTL DEF Spec

(* Type correctness of the model of the writers and the collector.           *)
THEOREM TypeCorrect == Spec => []TypeOK
<1>1. TInv => TypeOK
  BY DEF TInv
<1>2. QED
  BY <1>1, ReferencesExist, PTL

----------------------------------------------------------------------------
(* The index of every branch head is the index of its tree.  IndexAgrees is  *)
(* about heads only; a head is set to a snapshot some writer put, with the   *)
(* index it had built, so the invariant is about these three together.       *)
SnapsIndexed   == \A i \in 1 .. Len(snaps) : snaps[i].index \in {None, snaps[i].root}
WritersIndexed == \A p \in Writers : /\ w[p].kind # "embed"
                                     /\ w[p].index \in {None, w[p].tree}
IndexInv == TInv /\ SnapsIndexed /\ WritersIndexed

(* Against a snapshot whose index is the index of its tree, updateIndex gives *)
(* the index of the new tree, whatever the two trees are.                    *)
LEMMA UpdatedIndexIsFull ==
    ASSUME NEW i, NEW t \in Trees, snaps[i].root \in Trees,
           snaps[i].index \in {None, snaps[i].root}
    PROVE  UpdatedIndex(i, t).index = t
<1>1. AppliedDelta(snaps[i].root, snaps[i].root, t) = t
  BY DEF AppliedDelta, Trees
<1>2. QED
  BY <1>1 DEF UpdatedIndex

(* Every step keeps every index true, unless embeddings are rebuilt.         *)
LEMMA NextIndexInv ==
    ASSUME "embed" \notin Commands, IndexInv, [Next]_vars
    PROVE  IndexInv'
<1>1. TInv /\ TInv'
  BY NextTInv DEF IndexInv
<1>2. \A p \in Writers : w[p] \in WriterStates /\ w[p].tree \in Trees
  BY <1>1 DEF TInv, TypeOK, WriterStates
<1>3. Idle.kind # "embed" /\ Idle.index \in {None, Idle.tree}
  BY DEF Idle
<1>4. ASSUME snaps' = snaps, NEW p \in Writers, NEW x, w' = [w EXCEPT ![p] = x],
             x.kind # "embed", x.index \in {None, x.tree}
      PROVE  SnapsIndexed' /\ WritersIndexed'
  BY <1>1, <1>4 DEF IndexInv, SnapsIndexed, WritersIndexed, TInv, TypeOK
<1>5. ASSUME NEW p \in Writers, WriterStep(p)
      PROVE  SnapsIndexed' /\ WritersIndexed'
  <2> DEFINE h == head[w[p].branch]
             t == w[p].tree
  <2>1. w[p].kind # "embed" /\ w[p].index \in {None, t}
    BY DEF IndexInv, WritersIndexed
  <2>2. ASSUME NEW b, NEW k \in Kinds, NEW q, NEW v, k # "embed", Start(p, b, k, q, v)
        PROVE  SnapsIndexed' /\ WritersIndexed'
    <3> DEFINE x == [Idle EXCEPT !.pc = "read", !.kind = k, !.branch = b,
                                 !.path = q, !.val = v, !.seen = {Content(b)}]
    <3>1. x.kind = k /\ x.index = None
      BY DEF Idle
    <3>2. w' = [w EXCEPT ![p] = x] /\ snaps' = snaps
      BY <2>2 DEF Start
    <3> HIDE DEF x
    <3>3. QED
      BY <1>4, <2>2, <3>1, <3>2
  <2>3. CASE StartSet(p) \/ StartRm(p) \/ StartOther(p)
    BY <2>2, <2>3 DEF StartSet, StartRm, StartOther, Kinds, Edits, Rebuilds
  <2>4. CASE ReadTree(p)
    <3>1. PICK x : /\ w' = [w EXCEPT ![p] = x] /\ snaps' = snaps
                   /\ x.kind = w[p].kind /\ x.index \in {None, x.tree}
      <4> DEFINE u == Changed(Content(w[p].branch), w[p].path, w[p].val)
                 newPc == IF w[p].kind \in Rebuilds THEN "write" ELSE "parent"
                 index == IF w[p].kind = "reindex" THEN u ELSE None
                 vec == IF w[p].kind = "embed" THEN u ELSE None
                 has == head[w[p].branch] # 0
                 puts == {TreeAddr(u)}
                           \cup (IF w[p].kind = "reindex" THEN {IndexAddr(u)} ELSE {})
                           \cup (IF w[p].kind = "embed" THEN {VecAddr(u)} ELSE {})
                 x == [w[p] EXCEPT !.pc = newPc, !.tree = u, !.has = has,
                                   !.index = index, !.vec = vec, !.puts = puts]
      <4>1. w' = [w EXCEPT ![p] = x] /\ snaps' = snaps
        BY <2>4 DEF ReadTree
      <4>2. index \in {None, u}
        OBVIOUS
      <4> HIDE DEF u, newPc, index, vec, has, puts
      <4>3. x.kind = w[p].kind /\ x.index = index /\ x.tree = u
        BY <1>2 DEF WriterStates
      <4> HIDE DEF x
      <4>4. QED
        BY <4>1, <4>2, <4>3
    <3>2. QED
      BY <1>4, <2>1, <3>1
  <2>5. CASE ReadParent(p)
    <3>1. \/ w'[p].index = UpdatedIndex(h, t).index /\ w[p].has
          \/ w'[p].index = t
      BY <1>1, <1>2, <2>5 DEF ReadParent, TInv, TypeOK, WriterStates
    <3>2. w'[p].kind = w[p].kind /\ w'[p].tree = t
      BY <1>1, <1>2, <2>5 DEF ReadParent, TInv, TypeOK, WriterStates
    <3>3. w[p].has => UpdatedIndex(h, t).index = t
      <4>1. w[p].has => h \in 1 .. Len(snaps)
        BY <1>1, <2>5 DEF TInv, Refs, WriterRefs, HeadRefs, ReadParent
      <4>2. QED
        BY <1>1, <1>2, <4>1, SnapshotType, UpdatedIndexIsFull DEF IndexInv, SnapsIndexed
    <3>4. snaps' = snaps /\ \A y \in Writers : y # p => w'[y] = w[y]
      BY <1>1, <2>5 DEF ReadParent, TInv, TypeOK
    <3>5. QED
      BY <2>1, <3>1, <3>2, <3>3, <3>4 DEF IndexInv, SnapsIndexed, WritersIndexed
  <2>6. CASE CarryOver(p) \/ PutContent(p) \/ ReadReset(p)
    <3>1. /\ w'[p].kind = w[p].kind /\ w'[p].tree = t /\ w'[p].index = w[p].index
          /\ snaps' = snaps /\ \A y \in Writers : y # p => w'[y] = w[y]
      BY <1>1, <1>2, <2>1, <2>6
         DEF CarryOver, PutContent, ReadReset, TInv, TypeOK, WriterStates
    <3>2. QED
      BY <2>1, <3>1 DEF IndexInv, SnapsIndexed, WritersIndexed
  <2>7. CASE PutSnapshot(p)
    <3>1. w'[p].kind = w[p].kind /\ w'[p].index = None
      BY <1>1, <2>7 DEF PutSnapshot, TInv, TypeOK, Idle
    <3>2. \A y \in Writers : y # p => w'[y] = w[y]
      BY <1>1, <2>7 DEF PutSnapshot, TInv, TypeOK
    <3>3. WritersIndexed'
      BY <2>1, <3>1, <3>2 DEF IndexInv, WritersIndexed
    <3>4. /\ Len(snaps) \in Nat /\ Len(snaps') = Len(snaps) + 1
          /\ snaps'[Len(snaps) + 1] = NewSnapshot(p)
          /\ \A i \in 1 .. Len(snaps) : snaps'[i] = snaps[i]
      BY <1>1, <2>7, NewSnapshotType DEF TInv, TypeOK, PutSnapshot
    <3>5. NewSnapshot(p).index = w[p].index /\ NewSnapshot(p).root = t
      BY DEF NewSnapshot
    <3>6. SnapsIndexed'
      BY <2>1, <3>4, <3>5 DEF IndexInv, SnapsIndexed
    <3>7. QED
      BY <3>3, <3>6
  <2>8. CASE SetBranch(p)
    <3>1. snaps' = snaps
      BY <2>8 DEF SetBranch
    <3>2. \A y \in Writers : \/ w'[y] = Idle
                             \/ /\ w'[y].kind = w[y].kind /\ w'[y].index = w[y].index
                                /\ w'[y].tree = w[y].tree
      BY <1>2, <2>8 DEF SetBranch, WriterStates
    <3>3. QED
      BY <1>3, <3>1, <3>2 DEF IndexInv, SnapsIndexed, WritersIndexed
  <2>9. CASE Refuse(p) \/ Stop(p)
    BY <1>3, <1>4, <2>9 DEF Refuse, Stop
  <2>10. QED
    BY <1>5, <2>3, <2>4, <2>5, <2>6, <2>7, <2>8, <2>9 DEF WriterStep
<1>6. ASSUME GcStep
      PROVE  SnapsIndexed' /\ WritersIndexed'
  <2>1. UNCHANGED <<snaps, w>>
    BY <1>6 DEF GcStep, GcMark, GcList, GcDelete, GcEnd, GcStop
  <2>2. QED
    BY <2>1 DEF IndexInv, SnapsIndexed, WritersIndexed
<1>7. ASSUME UNCHANGED vars
      PROVE  SnapsIndexed' /\ WritersIndexed'
  BY <1>7 DEF vars, IndexInv, SnapsIndexed, WritersIndexed
<1>8. SnapsIndexed' /\ WritersIndexed'
  BY <1>5, <1>6, <1>7 DEF Next
<1>9. QED
  BY <1>1, <1>8 DEF IndexInv

(* A search of a branch head sees exactly the notes of its tree, however the *)
(* edits, reindexings and resets of any number of writers interleave, as     *)
(* long as no command rebuilds embeddings (commitTree with updateIndex).     *)
THEOREM IndexStaysTrue ==
    ASSUME "embed" \notin Commands
    PROVE  Spec => []IndexAgrees
<1>1. Init => IndexInv
  <2>1. Init => SnapsIndexed /\ WritersIndexed
    BY DEF Init, SnapsIndexed, WritersIndexed, Idle
  <2>2. QED
    BY <2>1, InitTInv DEF IndexInv
<1>2. IndexInv /\ [Next]_vars => IndexInv'
  BY NextIndexInv
<1>3. IndexInv => IndexAgrees
  BY DEF IndexInv, TInv, Refs, HeadRefs, SnapsIndexed, IndexAgrees
<1>4. QED
  BY <1>1, <1>2, <1>3, PTL DEF Spec

-----------------------------------------------------------------------------
(***************************************************************************)
(* The main safety theorem of BranchWriters: as long as gc runs alone, no   *)
(* interleaving of writers and no kill, of a command or of a collection,    *)
(* leaves a branch head with an object missing.                             *)
(***************************************************************************)

(* HeadsClosed is not inductive.  A command holds what it will publish in    *)
(* memory, so the invariant says what each command in flight already has in  *)
(* the store or is about to put; and a collection works from marks made      *)
(* earlier, so it says that these marks still cover the heads.               *)
PastSelf  == \A i \in 1 .. Len(snaps) : i \in snaps[i].past
PastTrans == \A i \in 1 .. Len(snaps) : \A j \in snaps[i].past :
                 snaps[j].past \subseteq snaps[i].past

HeadsHold == \A b \in Branches : \A i \in 1 .. Len(snaps) :
                 i = head[b] => Needs(i) \subseteq stored

WriterHolds(p) ==
    /\ w[p].pc = "idle" => w[p].parent = 0
    /\ \A i \in 1 .. Len(snaps) :
          i = w[p].parent \/ (w[p].pc = "branch" /\ i = w[p].snap) => Needs(i) \subseteq stored
    /\ w[p].pc = "read" /\ w[p].val # Absent => NoteAddr(w[p].path, w[p].val) \in stored
    /\ w[p].pc \in {"parent", "write", "snapshot"} =>
          /\ Notes(w[p].tree) \subseteq stored
          /\ TreeAddr(w[p].tree) \in stored \cup w[p].puts
          /\ w[p].index # None => /\ IndexAddr(w[p].index) \in stored \cup w[p].puts
                                  /\ Notes(w[p].index) \subseteq stored
          /\ w[p].vec # None => VecAddr(w[p].vec) \in stored \cup w[p].puts
    /\ w[p].pc = "snapshot" => w[p].puts = {}
    /\ w[p].pc = "parent" /\ w[p].kind \in Rebuilds => w[p].puts = {}
WritersHold == \A p \in Writers : WriterHolds(p)

GcHolds == gc.pc # "idle" => /\ Quiet
                             /\ gc.todo \cap gc.marked = {}
                             /\ \A b \in Branches : \A i \in 1 .. Len(snaps) :
                                    i = head[b] => Needs(i) \subseteq gc.marked

ClosedInv == TInv /\ PastSelf /\ PastTrans /\ HeadsHold /\ WritersHold /\ GcHolds

(* What a snapshot owns, spelled out.                                        *)
LEMMA OwnParts ==
    ASSUME NEW i, NEW S, Own(i) \subseteq S
    PROVE  /\ SnapAddr(i) \in S /\ TreeAddr(snaps[i].root) \in S
           /\ Notes(snaps[i].root) \subseteq S
           /\ snaps[i].index # None => /\ IndexAddr(snaps[i].index) \in S
                                       /\ Notes(snaps[i].index) \subseteq S
           /\ snaps[i].vec # None => VecAddr(snaps[i].vec) \in S
BY DEF Own

(* A snapshot needs what its ancestors need, and itself.                     *)
LEMMA NeedsOfPast ==
    ASSUME ClosedInv, NEW i \in 1 .. Len(snaps), NEW j \in snaps[i].past
    PROVE  Needs(j) \subseteq Needs(i) /\ Own(j) \subseteq Needs(i)
<1>1. snaps[j].past \subseteq snaps[i].past
  BY DEF ClosedInv, PastTrans
<1>2. QED
  BY <1>1 DEF Needs

(* Everything a branch head owns is in the store.                            *)
LEMMA HeadOwns ==
    ASSUME ClosedInv, NEW b \in Branches, head[b] # 0
    PROVE  /\ head[b] \in 1 .. Len(snaps)
           /\ Needs(head[b]) \subseteq stored
           /\ Own(head[b]) \subseteq stored
<1>1. head[b] \in 1 .. Len(snaps)
  BY DEF ClosedInv, TInv, Refs, HeadRefs
<1>2. head[b] \in snaps[head[b]].past
  BY <1>1 DEF ClosedInv, PastSelf
<1>3. Needs(head[b]) \subseteq stored
  BY <1>1 DEF ClosedInv, HeadsHold
<1>4. QED
  BY <1>1, <1>2, <1>3, NeedsOfPast

LEMMA ContentNotes ==
    ASSUME ClosedInv, NEW b \in Branches
    PROVE  Notes(Content(b)) \subseteq stored
<1>1. CASE head[b] = 0
  BY <1>1 DEF Content, Notes, Empty
<1>2. CASE head[b] # 0
  BY <1>2, HeadOwns, OwnParts DEF Content
<1>3. QED
  BY <1>1, <1>2

(* The notes of an edited tree are notes of the old one and the edit's own.  *)
LEMMA ChangedNotes ==
    ASSUME NEW t \in Trees, NEW q, NEW v, NEW S,
           Notes(t) \subseteq S, v # Absent => NoteAddr(q, v) \in S
    PROVE  Notes(Changed(t, q, v)) \subseteq S
BY DEF Notes, Changed

(* The notes an updated index mentions are those of the old index and of the *)
(* new tree, and unless the index is new, it is the old one.                 *)
LEMMA UpdatedIndexNotes ==
    ASSUME NEW i, NEW t \in Trees, NEW S,
           snaps[i].root \in Trees, snaps[i].index \in Trees \cup {None},
           Own(i) \subseteq S, Notes(t) \subseteq S
    PROVE  /\ Notes(UpdatedIndex(i, t).index) \subseteq S
           /\ UpdatedIndex(i, t).new \/ IndexAddr(UpdatedIndex(i, t).index) \in S
<1> DEFINE old == snaps[i].index
           root == snaps[i].root
<1>1. CASE UpdatedIndex(i, t) = [index |-> t, new |-> TRUE]
  BY <1>1
<1>2. CASE /\ old # None
           /\ UpdatedIndex(i, t) = [index |-> AppliedDelta(old, root, t), new |-> t # root]
  <2>1. old \in Trees /\ IndexAddr(old) \in S /\ Notes(old) \subseteq S
    BY <1>2, OwnParts
  <2> HIDE DEF old, root
  <2>2. Notes(AppliedDelta(old, root, t)) \subseteq S
    BY <2>1 DEF Notes, AppliedDelta
  <2>3. t = root => AppliedDelta(old, root, t) = old
    BY <2>1 DEF AppliedDelta, Trees
  <2>4. /\ UpdatedIndex(i, t).index = AppliedDelta(old, root, t)
        /\ UpdatedIndex(i, t).new = (t # root)
    BY <1>2
  <2>5. CASE t = root
    BY <2>1, <2>2, <2>3, <2>4, <2>5
  <2>6. CASE t # root
    BY <2>2, <2>4, <2>6
  <2>7. QED
    BY <2>5, <2>6
<1>3. QED
  BY <1>1, <1>2 DEF UpdatedIndex

(* Snapshots are never rewritten, so what one needs never changes.           *)
SnapsGrow == /\ Len(snaps') >= Len(snaps)
             /\ \A i \in 1 .. Len(snaps) : snaps'[i] = snaps[i]

LEMMA NeedsStable ==
    ASSUME TInv, SnapsGrow, NEW i \in 1 .. Len(snaps)
    PROVE  Needs(i)' = Needs(i)
<1>1. snaps[i].past \subseteq 1 .. Len(snaps) /\ snaps'[i] = snaps[i]
  BY SnapshotType DEF SnapsGrow
<1>2. \A j \in snaps[i].past : Own(j)' = Own(j)
  BY <1>1 DEF SnapsGrow, Own
<1>3. QED
  BY <1>1, <1>2 DEF Needs

(* While the store and the snapshots only grow, what a writer holds stays.   *)
LEMMA OthersHold ==
    ASSUME ClosedInv, SnapsGrow, stored \subseteq stored', NEW y \in Writers,
           w'[y] \in {w[y], [w[y] EXCEPT !.seen = w'[y].seen, !.moved = w'[y].moved]}
    PROVE  WriterHolds(y)'
<1>1. WriterHolds(y) /\ w[y] \in WriterStates /\ TInv
  BY DEF ClosedInv, WritersHold, TInv, TypeOK
<1>2. /\ w'[y].pc = w[y].pc /\ w'[y].kind = w[y].kind /\ w'[y].path = w[y].path
      /\ w'[y].val = w[y].val /\ w'[y].tree = w[y].tree /\ w'[y].parent = w[y].parent
      /\ w'[y].index = w[y].index /\ w'[y].vec = w[y].vec /\ w'[y].puts = w[y].puts
      /\ w'[y].snap = w[y].snap
  BY <1>1 DEF WriterStates
<1>3. \A i \in 1 .. Len(snaps) : Needs(i)' = Needs(i)
  BY <1>1, NeedsStable
<1>4. /\ w[y].parent \in 0 .. Len(snaps) /\ Len(snaps) \in Nat /\ Len(snaps') >= Len(snaps)
      /\ w[y].pc = "branch" => w[y].snap \in 1 .. Len(snaps)
  BY <1>1 DEF TInv, TypeOK, Refs, WriterRefs, SnapsGrow
<1>5. \A i \in 1 .. Len(snaps') :
         i = w'[y].parent \/ (w'[y].pc = "branch" /\ i = w'[y].snap) => Needs(i)' \subseteq stored'
  <2> SUFFICES ASSUME NEW i \in 1 .. Len(snaps'),
                      i = w'[y].parent \/ (w'[y].pc = "branch" /\ i = w'[y].snap)
               PROVE  Needs(i)' \subseteq stored'
    OBVIOUS
  <2>1. i \in 1 .. Len(snaps)
    BY <1>2, <1>4
  <2>2. Needs(i) \subseteq stored
    BY <1>1, <1>2, <2>1 DEF WriterHolds
  <2>3. QED
    BY <1>3, <2>1, <2>2
<1>6. QED
  BY <1>1, <1>2, <1>5 DEF WriterHolds, Notes

(* The frame of every step of a writer: no collection is under way.          *)
LEMMA WriterFrame ==
    ASSUME ClosedInv, TInv', NEW p \in Writers,
           gc.pc = "idle", gc' = gc, SnapsGrow, stored \subseteq stored',
           PastSelf', PastTrans', HeadsHold', WriterHolds(p)',
           \A y \in Writers : y # p =>
              w'[y] \in {w[y], [w[y] EXCEPT !.seen = w'[y].seen, !.moved = w'[y].moved]}
    PROVE  ClosedInv'
<1>1. WritersHold'
  <2> SUFFICES ASSUME NEW y \in Writers
               PROVE  WriterHolds(y)'
    BY DEF WritersHold
  <2>1. CASE y = p
    BY <2>1
  <2>2. CASE y # p
    BY <2>2, OthersHold
  <2>3. QED
    BY <2>1, <2>2
<1>2. GcHolds'
  BY DEF GcHolds
<1>3. QED
  BY <1>1, <1>2 DEF ClosedInv

(* Heads that do not move keep what they need.                               *)
LEMMA HeadsKept ==
    ASSUME ClosedInv, SnapsGrow, stored \subseteq stored', head' = head
    PROVE  HeadsHold'
<1> SUFFICES ASSUME NEW b \in Branches, NEW i \in 1 .. Len(snaps'), i = head[b]
             PROVE  Needs(i)' \subseteq stored'
  BY DEF HeadsHold
<1>1. i \in 1 .. Len(snaps)
  BY DEF ClosedInv, TInv, Refs, HeadRefs
<1>2. Needs(i) \subseteq stored
  BY <1>1 DEF ClosedInv, HeadsHold
<1>3. QED
  BY <1>1, <1>2, NeedsStable DEF ClosedInv

(* A step of one writer that writes no snapshot and moves no branch keeps the *)
(* invariant if that writer still holds what it needs.                       *)
LEMMA LocalClosed ==
    ASSUME ClosedInv, TInv', NEW p \in Writers, NEW x,
           gc.pc = "idle", UNCHANGED <<gc, snaps, head>>, stored \subseteq stored',
           w' = [w EXCEPT ![p] = x], WriterHolds(p)'
    PROVE  ClosedInv'
<1>1. SnapsGrow
  BY DEF SnapsGrow, ClosedInv, TInv, TypeOK
<1>2. PastSelf' /\ PastTrans'
  BY DEF ClosedInv, PastSelf, PastTrans
<1>3. \A y \in Writers : y # p => w'[y] = w[y]
  BY DEF ClosedInv, TInv, TypeOK
<1>4. QED
  BY <1>1, <1>2, <1>3, HeadsKept, WriterFrame

(* Every command but a new one finds the collector idle.                     *)
LEMMA RunningIsAlone ==
    ASSUME ClosedInv, NEW p \in Writers, w[p].pc # "idle"
    PROVE  gc.pc = "idle"
BY DEF ClosedInv, GcHolds, Quiet

(* Each step of a writer keeps the invariant.                                *)
LEMMA StartClosed ==
    ASSUME GcAlone, ClosedInv, TInv', NEW p \in Writers, NEW b \in Branches,
           NEW k, NEW q, NEW v, v # Absent => k = "set", Start(p, b, k, q, v)
    PROVE  ClosedInv'
<1> DEFINE x == [Idle EXCEPT !.pc = "read", !.kind = k, !.branch = b, !.path = q,
                             !.val = v, !.seen = {Content(b)}]
<1>1. /\ gc.pc = "idle" /\ UNCHANGED <<gc, snaps, head>> /\ stored \subseteq stored'
      /\ w' = [w EXCEPT ![p] = x]
  BY DEF Start
<1>2. x.pc = "read" /\ x.parent = 0 /\ x.path = q /\ x.val = v
  BY DEF Idle
<1>3. v # Absent => NoteAddr(q, v) \in stored'
  BY DEF Start
<1>4. w'[p] = x
  BY <1>1 DEF ClosedInv, TInv, TypeOK
<1> HIDE DEF x
<1>5. WriterHolds(p)'
  BY <1>2, <1>3, <1>4 DEF WriterHolds
<1>6. QED
  BY <1>1, <1>5, LocalClosed

LEMMA ReadTreeClosed ==
    ASSUME ClosedInv, TInv', NEW p \in Writers, ReadTree(p)
    PROVE  ClosedInv'
<1> DEFINE b == w[p].branch
           u == Changed(Content(b), w[p].path, w[p].val)
           k == w[p].kind
           newPc == IF k \in Rebuilds THEN "write" ELSE "parent"
           has == head[b] # 0
           index == IF k = "reindex" THEN u ELSE None
           vec == IF k = "embed" THEN u ELSE None
           puts == {TreeAddr(u)}
                     \cup (IF k = "reindex" THEN {IndexAddr(u)} ELSE {})
                     \cup (IF k = "embed" THEN {VecAddr(u)} ELSE {})
           x == [w[p] EXCEPT !.pc = newPc, !.tree = u, !.has = has,
                             !.index = index, !.vec = vec, !.puts = puts]
<1>1. w[p] \in WriterStates /\ b \in Branches /\ w[p].pc = "read" /\ WriterHolds(p)
  BY DEF ClosedInv, WritersHold, TInv, TypeOK, Refs, WriterRefs, ReadTree
<1>2. gc.pc = "idle"
  BY <1>1, RunningIsAlone
<1>3. Notes(u) \subseteq stored
  <2>1. w[p].val # Absent => NoteAddr(w[p].path, w[p].val) \in stored
    BY <1>1 DEF WriterHolds
  <2>2. Content(b) \in Trees /\ Notes(Content(b)) \subseteq stored
    BY <1>1, ContentType, ContentNotes DEF ClosedInv
  <2>3. QED
    BY <2>1, <2>2, ChangedNotes
<1>4. w' = [w EXCEPT ![p] = x] /\ UNCHANGED <<gc, snaps, head, stored>>
  BY DEF ReadTree
<1>5. /\ TreeAddr(u) \in puts
      /\ index # None => index = u /\ IndexAddr(index) \in puts
      /\ vec # None => VecAddr(vec) \in puts
  OBVIOUS
<1>6. newPc \in {"write", "parent"} /\ (newPc = "parent" => k \notin Rebuilds)
  OBVIOUS
<1> HIDE DEF u, newPc, has, index, vec, puts
<1>7. /\ x.pc = newPc /\ x.tree = u /\ x.index = index /\ x.vec = vec /\ x.puts = puts
      /\ x.parent = w[p].parent /\ x.kind = k
  BY <1>1 DEF WriterStates
<1>8. w'[p] = x
  BY <1>1, <1>4 DEF ClosedInv, TInv, TypeOK
<1> HIDE DEF x
<1>9. \A i \in 1 .. Len(snaps) : i = w[p].parent => Needs(i)' \subseteq stored'
  <2>1. SnapsGrow
    BY <1>4 DEF SnapsGrow, ClosedInv, TInv, TypeOK
  <2>2. QED
    BY <1>1, <1>4, <2>1, NeedsStable DEF WriterHolds, ClosedInv
<1>10. WriterHolds(p)'
  BY <1>3, <1>4, <1>5, <1>6, <1>7, <1>8, <1>9 DEF WriterHolds, Notes
<1>11. QED
  BY <1>2, <1>4, <1>10, LocalClosed

LEMMA ReadParentClosed ==
    ASSUME ClosedInv, TInv', NEW p \in Writers, ReadParent(p)
    PROVE  ClosedInv'
<1> DEFINE h == head[w[p].branch]
           t == w[p].tree
<1>1. /\ w[p] \in WriterStates /\ w[p].branch \in Branches /\ w[p].pc = "parent"
      /\ w[p].kind \in Edits /\ WriterHolds(p) /\ TInv
  BY DEF ClosedInv, WritersHold, TInv, TypeOK, Refs, WriterRefs, ReadParent
<1>2. /\ gc.pc = "idle" /\ UNCHANGED <<gc, snaps, head, stored>>
      /\ t \in Trees /\ w[p].kind \notin Rebuilds
  BY <1>1, RunningIsAlone DEF ReadParent, WriterStates, Edits, Rebuilds
<1>3. /\ Notes(t) \subseteq stored /\ TreeAddr(t) \in stored \cup w[p].puts
      /\ w[p].vec # None => VecAddr(w[p].vec) \in stored \cup w[p].puts
      /\ \A i \in 1 .. Len(snaps) : i = w[p].parent => Needs(i) \subseteq stored
  BY <1>1 DEF WriterHolds
<1>4. SnapsGrow
  BY <1>2 DEF SnapsGrow, ClosedInv, TInv, TypeOK
<1>5. \A i \in 1 .. Len(snaps) : Needs(i)' = Needs(i)
  BY <1>1, <1>4, NeedsStable
<1>6. ASSUME NEW x, NEW d, w' = [w EXCEPT ![p] = x],
             x.pc = "write", x.tree = t, x.vec = w[p].vec, x.index = d,
             w[p].puts \subseteq x.puts,
             Notes(d) \subseteq stored, IndexAddr(d) \in stored \cup x.puts,
             \A i \in 1 .. Len(snaps) : i = x.parent => Needs(i) \subseteq stored
      PROVE  ClosedInv'
  <2>1. w'[p] = x
    BY <1>1, <1>6 DEF TInv, TypeOK
  <2>2. WriterHolds(p)'
    BY <1>2, <1>3, <1>5, <1>6, <2>1 DEF WriterHolds, Notes
  <2>3. QED
    BY <1>2, <1>6, <2>2, LocalClosed
<1>7. CASE w[p].has
  <2> DEFINE d == UpdatedIndex(h, t).index
             puts == IF UpdatedIndex(h, t).new THEN w[p].puts \cup {IndexAddr(d)} ELSE w[p].puts
             x == [w[p] EXCEPT !.pc = "write", !.parent = h, !.index = d, !.puts = puts]
  <2>1. h \in 1 .. Len(snaps) /\ Needs(h) \subseteq stored /\ Own(h) \subseteq stored
    BY <1>1, <1>7, HeadOwns DEF TInv, Refs, WriterRefs
  <2>2. w' = [w EXCEPT ![p] = x]
    BY <1>1, <1>2, <1>7 DEF ReadParent, TInv, TypeOK, WriterStates
  <2>3. Notes(d) \subseteq stored /\ (UpdatedIndex(h, t).new \/ IndexAddr(d) \in stored)
    BY <1>1, <1>2, <1>3, <2>1, SnapshotType, UpdatedIndexNotes
  <2>4. IndexAddr(d) \in stored \cup puts /\ w[p].puts \subseteq puts
    BY <2>3
  <2> HIDE DEF d, puts, h
  <2>5. /\ x.pc = "write" /\ x.parent = h /\ x.index = d /\ x.puts = puts
        /\ x.tree = t /\ x.vec = w[p].vec
    BY <1>1 DEF WriterStates
  <2> HIDE DEF x
  <2>6. QED
    BY <1>6, <2>1, <2>2, <2>3, <2>4, <2>5
<1>8. CASE ~ w[p].has
  <2> DEFINE x == [w[p] EXCEPT !.pc = "write", !.index = t, !.puts = @ \cup {IndexAddr(t)}]
  <2>1. w' = [w EXCEPT ![p] = x]
    BY <1>1, <1>8 DEF ReadParent, TInv, TypeOK, WriterStates
  <2>2. /\ x.pc = "write" /\ x.parent = w[p].parent /\ x.index = t /\ x.tree = t
        /\ x.vec = w[p].vec /\ x.puts = w[p].puts \cup {IndexAddr(t)}
    BY <1>1 DEF WriterStates
  <2> HIDE DEF x
  <2>3. QED
    BY <1>3, <1>6, <2>1, <2>2
<1>9. QED
  BY <1>7, <1>8

LEMMA CarryOverClosed ==
    ASSUME ClosedInv, TInv', NEW p \in Writers, CarryOver(p)
    PROVE  ClosedInv'
<1> DEFINE h == head[w[p].branch]
           parent == IF w[p].has THEN h ELSE 0
           index == IF w[p].kind = "embed" /\ w[p].has /\ SnapAddr(h) \in stored
                    THEN snaps[h].index ELSE w[p].index
           vec == IF w[p].kind = "reindex" /\ w[p].has /\ SnapAddr(h) \in stored
                  THEN snaps[h].vec ELSE w[p].vec
           x == [w[p] EXCEPT !.pc = "snapshot", !.parent = parent, !.index = index, !.vec = vec]
<1>1. /\ w[p] \in WriterStates /\ w[p].branch \in Branches /\ w[p].pc = "parent"
      /\ w[p].kind \in Rebuilds /\ WriterHolds(p) /\ TInv
  BY DEF ClosedInv, WritersHold, TInv, TypeOK, Refs, WriterRefs, CarryOver
<1>2. gc.pc = "idle" /\ UNCHANGED <<gc, snaps, head, stored>> /\ w[p].puts = {}
  BY <1>1, RunningIsAlone DEF CarryOver, WriterHolds
<1>3. /\ Notes(w[p].tree) \subseteq stored /\ TreeAddr(w[p].tree) \in stored
      /\ w[p].index # None => /\ IndexAddr(w[p].index) \in stored
                              /\ Notes(w[p].index) \subseteq stored
      /\ w[p].vec # None => VecAddr(w[p].vec) \in stored
  BY <1>1, <1>2 DEF WriterHolds
<1>4. w[p].has => h \in 1 .. Len(snaps) /\ Needs(h) \subseteq stored /\ Own(h) \subseteq stored
  BY <1>1, HeadOwns DEF TInv, Refs, WriterRefs
<1>5. SnapsGrow
  BY <1>2 DEF SnapsGrow, TInv, TypeOK, ClosedInv
<1>6. \A i \in 1 .. Len(snaps) : Needs(i)' = Needs(i)
  BY <1>1, <1>5, NeedsStable
<1>7. /\ index # None => IndexAddr(index) \in stored /\ Notes(index) \subseteq stored
      /\ vec # None => VecAddr(vec) \in stored
      /\ \A i \in 1 .. Len(snaps) : i = parent => Needs(i) \subseteq stored
  <2>1. w[p].has => /\ snaps[h].index # None => /\ IndexAddr(snaps[h].index) \in stored
                                                 /\ Notes(snaps[h].index) \subseteq stored
                    /\ snaps[h].vec # None => VecAddr(snaps[h].vec) \in stored
    BY <1>4, OwnParts
  <2> HIDE DEF h
  <2>2. QED
    BY <1>3, <1>4, <2>1
<1>8. w' = [w EXCEPT ![p] = x]
  BY <1>1 DEF CarryOver, TInv, TypeOK, WriterStates
<1> HIDE DEF parent, index, vec
<1>9. /\ x.pc = "snapshot" /\ x.parent = parent /\ x.index = index /\ x.vec = vec
      /\ x.tree = w[p].tree /\ x.puts = w[p].puts
  BY <1>1 DEF WriterStates
<1> HIDE DEF x
<1>10. w'[p] = x
  BY <1>1, <1>8 DEF TInv, TypeOK
<1>11. WriterHolds(p)'
  BY <1>2, <1>3, <1>6, <1>7, <1>9, <1>10 DEF WriterHolds, Notes
<1>12. QED
  BY <1>2, <1>8, <1>11, LocalClosed

LEMMA PutContentClosed ==
    ASSUME ClosedInv, TInv', NEW p \in Writers, PutContent(p)
    PROVE  ClosedInv'
<1> DEFINE newPc == IF w[p].kind \in Rebuilds THEN "parent" ELSE "snapshot"
           x == [w[p] EXCEPT !.pc = newPc, !.puts = {}]
<1>1. w[p] \in WriterStates /\ w[p].pc = "write" /\ WriterHolds(p) /\ TInv
  BY DEF ClosedInv, WritersHold, TInv, TypeOK, PutContent
<1>2. /\ gc.pc = "idle" /\ UNCHANGED <<gc, snaps, head>>
      /\ stored' = stored \cup w[p].puts
  BY <1>1, RunningIsAlone DEF PutContent
<1>3. w' = [w EXCEPT ![p] = x]
  BY <1>1 DEF PutContent, TInv, TypeOK, WriterStates
<1>4. newPc \in {"parent", "snapshot"}
  OBVIOUS
<1> HIDE DEF newPc
<1>5. /\ x.pc = newPc /\ x.parent = w[p].parent /\ x.tree = w[p].tree
      /\ x.index = w[p].index /\ x.vec = w[p].vec /\ x.puts = {}
  BY <1>1 DEF WriterStates
<1> HIDE DEF x
<1>6. w'[p] = x
  BY <1>1, <1>3 DEF TInv, TypeOK
<1>7. SnapsGrow
  BY <1>2 DEF SnapsGrow, TInv, TypeOK, ClosedInv
<1>8. \A i \in 1 .. Len(snaps) : Needs(i)' = Needs(i)
  BY <1>1, <1>7, NeedsStable
<1>9. /\ Notes(x.tree) \subseteq stored' /\ TreeAddr(x.tree) \in stored'
      /\ x.index # None => IndexAddr(x.index) \in stored' /\ Notes(x.index) \subseteq stored'
      /\ x.vec # None => VecAddr(x.vec) \in stored'
      /\ \A i \in 1 .. Len(snaps) : i = x.parent => Needs(i) \subseteq stored'
  BY <1>1, <1>2, <1>5 DEF WriterHolds
<1>10. WriterHolds(p)'
  BY <1>2, <1>4, <1>5, <1>6, <1>8, <1>9 DEF WriterHolds, Notes
<1>11. QED
  BY <1>2, <1>3, <1>10, LocalClosed

LEMMA PutSnapshotClosed ==
    ASSUME ClosedInv, TInv', NEW p \in Writers, PutSnapshot(p)
    PROVE  ClosedInv'
<1>n. PICK n : n = Len(snaps) + 1
  OBVIOUS
<1> DEFINE parent == w[p].parent
           x == [Idle EXCEPT !.pc = "branch", !.kind = w[p].kind, !.branch = w[p].branch,
                             !.path = w[p].path, !.val = w[p].val, !.snap = n,
                             !.seen = w[p].seen, !.moved = w[p].moved]
<1>1. /\ TInv /\ Len(snaps) \in Nat /\ Len(snaps) < MaxSnaps /\ w[p].pc = "snapshot"
      /\ WriterHolds(p) /\ parent \in 0 .. Len(snaps)
  BY DEF ClosedInv, WritersHold, TInv, TypeOK, Refs, WriterRefs, PutSnapshot
<1>2. /\ Len(snaps') = n /\ snaps'[n] = NewSnapshot(p)
      /\ \A i \in 1 .. Len(snaps) : snaps'[i] = snaps[i]
  BY <1>n, <1>1, NewSnapshotType DEF TInv, TypeOK, PutSnapshot
<1>3. /\ gc.pc = "idle" /\ UNCHANGED <<gc, head>> /\ w[p].puts = {}
      /\ stored' = stored \cup {SnapAddr(n)} /\ w' = [w EXCEPT ![p] = x]
  BY <1>n, <1>1, RunningIsAlone DEF PutSnapshot, WriterHolds
<1>4. SnapsGrow
  BY <1>n, <1>1, <1>2 DEF SnapsGrow
<1>5. \A i \in 1 .. Len(snaps) : Needs(i)' = Needs(i)
  BY <1>1, <1>4, NeedsStable
<1>6. x.pc = "branch" /\ x.snap = n /\ x.parent = 0
  BY DEF Idle
<1> HIDE DEF x
<1>7. w'[p] = x /\ \A y \in Writers : y # p => w'[y] = w[y]
  BY <1>1, <1>3 DEF TInv, TypeOK
<1>8. snaps'[n].past = {n} \cup (IF parent = 0 THEN {} ELSE snaps[parent].past)
  BY <1>n, <1>2 DEF NewSnapshot
<1>9. parent # 0 => /\ parent \in 1 .. Len(snaps)
                    /\ snaps[parent].past \subseteq 1 .. Len(snaps)
                    /\ \A j \in snaps[parent].past : snaps[j].past \subseteq snaps[parent].past
                    /\ Needs(parent) \subseteq stored
  BY <1>1, SnapshotType DEF ClosedInv, PastTrans, WriterHolds
<1>10. PastSelf' /\ PastTrans'
  <2> SUFFICES ASSUME NEW i \in 1 .. Len(snaps')
               PROVE  i \in snaps'[i].past /\ \A j \in snaps'[i].past :
                                                 snaps'[j].past \subseteq snaps'[i].past
    BY DEF PastSelf, PastTrans
  <2>1. CASE i \in 1 .. Len(snaps)
    <3>1. snaps[i].past \subseteq 1 .. Len(snaps)
      BY <1>1, <2>1, SnapshotType
    <3>2. QED
      BY <1>2, <2>1, <3>1 DEF ClosedInv, PastSelf, PastTrans
  <2>2. CASE i = n
    <3>1. \A j \in snaps'[n].past : j = n \/ (parent # 0 /\ j \in snaps[parent].past)
      BY <1>8
    <3>2. ASSUME NEW j, parent # 0, j \in snaps[parent].past
          PROVE  snaps'[j].past \subseteq snaps'[n].past
      BY <1>2, <1>8, <1>9, <3>2
    <3>3. QED
      BY <1>8, <2>2, <3>1, <3>2
  <2>3. QED
    BY <1>n, <1>1, <1>2, <2>1, <2>2
<1>11. Needs(n)' \subseteq stored'
  <2>1. /\ Notes(w[p].tree) \subseteq stored /\ TreeAddr(w[p].tree) \in stored
        /\ w[p].index # None => /\ IndexAddr(w[p].index) \in stored
                                /\ Notes(w[p].index) \subseteq stored
        /\ w[p].vec # None => VecAddr(w[p].vec) \in stored
    BY <1>1, <1>3 DEF WriterHolds
  <2>2. /\ snaps'[n].root = w[p].tree /\ snaps'[n].index = w[p].index
        /\ snaps'[n].vec = w[p].vec
    BY <1>2 DEF NewSnapshot
  <2>3. Own(n)' \subseteq stored'
    BY <1>3, <2>1, <2>2 DEF Own
  <2>4. ASSUME NEW j, parent # 0, j \in snaps[parent].past
        PROVE  Own(j)' \subseteq stored'
    <3>1. j \in 1 .. Len(snaps) /\ Own(j) \subseteq Needs(parent)
      BY <1>9, <2>4, NeedsOfPast
    <3>2. Own(j)' = Own(j)
      BY <1>2, <3>1 DEF Own
    <3>3. QED
      BY <1>3, <1>9, <2>4, <3>1, <3>2
  <2>5. \A j \in snaps'[n].past : j = n \/ (parent # 0 /\ j \in snaps[parent].past)
    BY <1>8
  <2>6. \A j \in snaps'[n].past : Own(j)' \subseteq stored'
    BY <2>3, <2>4, <2>5
  <2>7. QED
    BY <2>6 DEF Needs
<1>12. WriterHolds(p)'
  <2>1. \A i \in 1 .. Len(snaps') : i = x.parent \/ i = x.snap => i = n
    BY <1>6
  <2>2. \A i \in 1 .. Len(snaps') : i = x.parent \/ i = x.snap => Needs(i)' \subseteq stored'
    BY <1>11, <2>1
  <2>3. QED
    BY <1>6, <1>7, <2>2 DEF WriterHolds
<1>13. HeadsHold'
  BY <1>3, <1>4, HeadsKept
<1>14. QED
  BY <1>3, <1>4, <1>7, <1>10, <1>12, <1>13, WriterFrame

LEMMA ReadResetClosed ==
    ASSUME ClosedInv, TInv', NEW p \in Writers, ReadReset(p)
    PROVE  ClosedInv'
<1> DEFINE h == head[w[p].branch]
<1>1. /\ w[p] \in WriterStates /\ w[p].branch \in Branches /\ w[p].pc = "read" /\ h # 0
      /\ WriterHolds(p) /\ TInv
  BY DEF ClosedInv, WritersHold, TInv, TypeOK, Refs, WriterRefs, ReadReset
<1>2. h \in 1 .. Len(snaps) /\ Needs(h) \subseteq stored
  BY <1>1, HeadOwns
<1>3. PICK s \in snaps[h].past : w' = [w EXCEPT ![p].pc = "branch", ![p].snap = s]
  BY DEF ReadReset
<1> DEFINE x == [w[p] EXCEPT !.pc = "branch", !.snap = s]
<1>4. s \in 1 .. Len(snaps) /\ Needs(s) \subseteq stored
  BY <1>1, <1>2, SnapshotType, NeedsOfPast
<1>5. gc.pc = "idle" /\ UNCHANGED <<gc, snaps, head, stored>>
  BY <1>1, RunningIsAlone DEF ReadReset
<1>6. w' = [w EXCEPT ![p] = x]
  BY <1>1, <1>3 DEF TInv, TypeOK, WriterStates
<1>7. x.pc = "branch" /\ x.snap = s /\ x.parent = w[p].parent
  BY <1>1 DEF WriterStates
<1> HIDE DEF x
<1>8. w'[p] = x
  BY <1>1, <1>6 DEF TInv, TypeOK
<1>9. SnapsGrow
  BY <1>5 DEF SnapsGrow, TInv, TypeOK, ClosedInv
<1>10. \A i \in 1 .. Len(snaps) : Needs(i)' = Needs(i)
  BY <1>1, <1>9, NeedsStable
<1>11. \A i \in 1 .. Len(snaps) : i = w[p].parent => Needs(i) \subseteq stored
  BY <1>1 DEF WriterHolds
<1>12. WriterHolds(p)'
  BY <1>4, <1>5, <1>7, <1>8, <1>10, <1>11 DEF WriterHolds
<1>13. QED
  BY <1>5, <1>6, <1>12, LocalClosed

LEMMA EndClosed ==
    ASSUME ClosedInv, TInv', NEW p \in Writers, w[p].pc # "idle", Refuse(p) \/ Stop(p)
    PROVE  ClosedInv'
<1>1. /\ gc.pc = "idle" /\ UNCHANGED <<gc, snaps, head, stored>>
      /\ w' = [w EXCEPT ![p] = Idle]
  BY RunningIsAlone DEF Refuse, Stop
<1>2. w'[p] = Idle
  BY <1>1 DEF ClosedInv, TInv, TypeOK
<1>3. WriterHolds(p)'
  BY <1>2 DEF WriterHolds, Idle
<1>4. QED
  BY <1>1, <1>3, LocalClosed

LEMMA SetBranchClosed ==
    ASSUME ClosedInv, TInv', NEW p \in Writers, SetBranch(p)
    PROVE  ClosedInv'
<1> DEFINE b == w[p].branch
           s == w[p].snap
<1>1. /\ b \in Branches /\ w[p].pc = "branch" /\ s \in 1 .. Len(snaps)
      /\ WriterHolds(p) /\ TInv
  BY DEF ClosedInv, WritersHold, TInv, TypeOK, Refs, WriterRefs, SetBranch
<1>2. /\ gc.pc = "idle" /\ UNCHANGED <<gc, snaps, stored>>
      /\ head' = [head EXCEPT ![b] = s]
  BY <1>1, RunningIsAlone DEF SetBranch
<1>3. SnapsGrow
  BY <1>2 DEF SnapsGrow, TInv, TypeOK, ClosedInv
<1>4. \A i \in 1 .. Len(snaps) : Needs(i)' = Needs(i)
  BY <1>1, <1>3, NeedsStable
<1>5. PastSelf' /\ PastTrans'
  BY <1>2 DEF ClosedInv, PastSelf, PastTrans
<1>6. HeadsHold'
  <2> SUFFICES ASSUME NEW c \in Branches, NEW i \in 1 .. Len(snaps), i = head'[c]
               PROVE  Needs(i) \subseteq stored
    BY <1>2, <1>4 DEF HeadsHold
  <2>1. CASE i = s
    BY <1>1, <2>1 DEF WriterHolds
  <2>2. CASE i = head[c]
    BY <2>2 DEF ClosedInv, HeadsHold
  <2>3. QED
    BY <1>1, <1>2, <2>1, <2>2 DEF TInv, TypeOK
<1>7. w'[p] = Idle
  BY DEF SetBranch
<1>8. WriterHolds(p)'
  BY <1>7 DEF WriterHolds, Idle
<1>9. ASSUME NEW y \in Writers, y # p
      PROVE  w'[y] \in {w[y], [w[y] EXCEPT !.seen = w'[y].seen, !.moved = w'[y].moved]}
  <2> DEFINE seen == w[y].seen \cup {snaps[s].root}
  <2>1. w'[y] = w[y] \/ w'[y] = [w[y] EXCEPT !.seen = seen, !.moved = TRUE]
    BY <1>9 DEF SetBranch
  <2> HIDE DEF seen
  <2>2. w[y] \in WriterStates
    BY <1>1 DEF TInv, TypeOK
  <2>3. CASE w'[y] = [w[y] EXCEPT !.seen = seen, !.moved = TRUE]
    <3>1. w'[y].seen = seen /\ w'[y].moved = TRUE
      BY <2>2, <2>3 DEF WriterStates
    <3>2. QED
      BY <2>3, <3>1
  <2>4. QED
    BY <2>1, <2>3
<1>10. QED
  BY <1>2, <1>3, <1>5, <1>6, <1>8, <1>9, WriterFrame

(* The steps of the collector keep the invariant: what it deletes was not     *)
(* marked, and what was marked still covers the heads.                        *)
LEMMA GcClosed ==
    ASSUME GcAlone, ClosedInv, TInv', GcStep
    PROVE  ClosedInv'
<1>1. UNCHANGED <<head, snaps, w>> /\ TInv
  BY DEF ClosedInv, GcStep, GcMark, GcList, GcDelete, GcEnd, GcStop
<1>2. SnapsGrow
  BY <1>1 DEF SnapsGrow, TInv, TypeOK
<1>3. \A i \in 1 .. Len(snaps) : Needs(i)' = Needs(i)
  BY <1>1, <1>2, NeedsStable
<1>4. PastSelf' /\ PastTrans'
  BY <1>1 DEF ClosedInv, PastSelf, PastTrans
<1>5. CASE GcMark
  <2>1. gc'.marked = GcMarked /\ gc'.todo = {} /\ Quiet /\ stored' = stored
    BY <1>5 DEF GcMark
  <2>2. \A b \in Branches : \A i \in 1 .. Len(snaps) : i = head[b] => Needs(i) \subseteq GcMarked
    BY DEF GcMarked
  <2>3. GcHolds'
    BY <1>1, <1>3, <2>1, <2>2 DEF GcHolds, Quiet
  <2>4. HeadsHold' /\ WritersHold'
    BY <1>1, <1>2, <2>1, HeadsKept, OthersHold DEF WritersHold
  <2>5. QED
    BY <1>4, <2>3, <2>4 DEF ClosedInv
<1>6. CASE GcList \/ GcEnd \/ GcStop
  <2>1. stored' = stored
    BY <1>6 DEF GcList, GcEnd, GcStop
  <2>2. GcHolds'
    <3>1. CASE GcList
      <4>1. /\ gc'.marked = gc.marked /\ gc'.todo \cap gc'.marked = {} /\ gc.pc # "idle"
        BY <3>1 DEF GcList
      <4>2. QED
        BY <1>1, <1>3, <4>1 DEF ClosedInv, GcHolds, Quiet
    <3>2. CASE GcEnd \/ GcStop
      BY <3>2 DEF GcHolds, GcEnd, GcStop, GcIdle
    <3>3. QED
      BY <1>6, <3>1, <3>2
  <2>3. HeadsHold' /\ WritersHold'
    BY <1>1, <1>2, <2>1, HeadsKept, OthersHold DEF WritersHold
  <2>4. QED
    BY <1>4, <2>2, <2>3 DEF ClosedInv
<1>7. CASE \E a \in gc.todo : GcDelete(a)
  <2> PICK a \in gc.todo : GcDelete(a)
    BY <1>7
  <2>1. /\ gc.pc = "sweep" /\ gc'.pc = gc.pc /\ gc'.marked = gc.marked
        /\ gc'.todo = gc.todo \ {a} /\ stored' = stored \ {a}
    BY <1>1 DEF GcDelete, TInv, TypeOK, GcStates
  <2>2. /\ Quiet /\ gc.todo \cap gc.marked = {} /\ a \notin gc.marked
        /\ \A b \in Branches : \A i \in 1 .. Len(snaps) :
               i = head[b] => Needs(i) \subseteq gc.marked
    BY <2>1 DEF ClosedInv, GcHolds
  <2>3. GcHolds'
    BY <1>1, <1>3, <2>1, <2>2 DEF GcHolds, Quiet
  <2>4. HeadsHold'
    BY <1>1, <1>3, <2>1, <2>2 DEF ClosedInv, HeadsHold
  <2>5. WritersHold'
    <3> SUFFICES ASSUME NEW y \in Writers
                 PROVE  WriterHolds(y)'
      BY DEF WritersHold
    <3>1. w'[y].pc = "idle" /\ WriterHolds(y) /\ w' = w /\ snaps' = snaps
      BY <1>1, <2>2 DEF Quiet, ClosedInv, WritersHold
    <3>2. w'[y].parent = 0
      BY <3>1 DEF WriterHolds
    <3>3. QED
      BY <3>1, <3>2 DEF WriterHolds
  <2>6. QED
    BY <1>4, <2>3, <2>4, <2>5 DEF ClosedInv
<1>8. QED
  BY <1>5, <1>6, <1>7 DEF GcStep

(* Every step of the system keeps the invariant.                             *)
LEMMA NextClosed ==
    ASSUME GcAlone, ClosedInv, [Next]_vars
    PROVE  ClosedInv'
<1>1. TInv /\ TInv'
  BY NextTInv DEF ClosedInv
<1>2. ASSUME NEW p \in Writers, WriterStep(p)
      PROVE  ClosedInv'
  <2>1. CASE StartSet(p)
    BY <1>1, <2>1, StartClosed DEF StartSet
  <2>2. CASE StartRm(p)
    BY <1>1, <2>2, StartClosed DEF StartRm
  <2>3. CASE StartOther(p)
    BY <1>1, <2>3, StartClosed DEF StartOther
  <2>4. CASE ReadTree(p) \/ ReadParent(p) \/ CarryOver(p) \/ PutContent(p)
    BY <1>1, <2>4, ReadTreeClosed, ReadParentClosed, CarryOverClosed, PutContentClosed
  <2>5. CASE PutSnapshot(p) \/ ReadReset(p) \/ SetBranch(p)
    BY <1>1, <2>5, PutSnapshotClosed, ReadResetClosed, SetBranchClosed
  <2>6. CASE Refuse(p) \/ Stop(p)
    <3>1. w[p].pc # "idle"
      BY <2>6 DEF Refuse, Stop
    <3>2. QED
      BY <1>1, <2>6, <3>1, EndClosed
  <2>7. QED
    BY <1>2, <2>1, <2>2, <2>3, <2>4, <2>5, <2>6 DEF WriterStep
<1>3. CASE GcStep
  BY <1>1, <1>3, GcClosed
<1>4. CASE UNCHANGED vars
  <2>1. UNCHANGED <<stored, head, snaps, w, gc>>
    BY <1>4 DEF vars
  <2>2. SnapsGrow
    BY <1>1, <2>1 DEF SnapsGrow, TInv, TypeOK
  <2>3. \A i \in 1 .. Len(snaps) : Needs(i)' = Needs(i)
    BY <1>1, <2>2, NeedsStable
  <2>4. GcHolds'
    BY <2>1, <2>3 DEF ClosedInv, GcHolds, Quiet
  <2>5. HeadsHold' /\ WritersHold'
    BY <2>1, <2>2, HeadsKept, OthersHold DEF WritersHold
  <2>6. PastSelf' /\ PastTrans'
    BY <2>1 DEF ClosedInv, PastSelf, PastTrans
  <2>7. QED
    BY <1>1, <2>4, <2>5, <2>6 DEF ClosedInv
<1>5. QED
  BY <1>2, <1>3, <1>4 DEF Next

LEMMA InitClosed == Init => ClosedInv
<1> SUFFICES ASSUME Init
             PROVE  ClosedInv
  OBVIOUS
<1>1. TInv
  BY InitTInv
<1>2. PastSelf /\ PastTrans /\ HeadsHold /\ WritersHold /\ GcHolds
  BY DEF Init, PastSelf, PastTrans, HeadsHold, WritersHold, WriterHolds, GcHolds, GcIdle, Idle
<1>3. QED
  BY <1>1, <1>2 DEF ClosedInv

LEMMA ClosedHeads == ClosedInv => HeadsClosed
BY HeadOwns DEF HeadsClosed

(* As long as gc runs only while nothing writes, whatever any number of      *)
(* writers do and wherever commands and collections die, every object the    *)
(* history of a branch head refers to is there (note.go, gc.go).             *)
THEOREM HeadsStayClosed ==
    ASSUME GcAlone
    PROVE  Spec => []HeadsClosed
<1>1. ClosedInv /\ [Next]_vars => ClosedInv'
  BY NextClosed
<1>2. QED
  BY <1>1, InitClosed, ClosedHeads, PTL DEF Spec

----------------------------------------------------------------------------
(* A collection is exact because, with every writer idle, its marks stay     *)
(* what the heads need, and an object that is neither marked nor still to be  *)
(* visited is gone.                                                          *)
GcExact == /\ gc.pc # "idle" => gc.marked = GcMarked
           /\ gc.pc = "sweep" => stored \subseteq gc.marked \cup gc.todo
ExactInv == ClosedInv /\ GcExact

LEMMA MarkedStable ==
    ASSUME UNCHANGED <<head, snaps>>
    PROVE  GcMarked' = GcMarked
BY DEF GcMarked, Needs, Own

LEMMA NextExact ==
    ASSUME GcAlone, ExactInv, [Next]_vars
    PROVE  ExactInv'
<1>1. ClosedInv /\ ClosedInv' /\ TInv
  BY NextClosed DEF ExactInv, ClosedInv
<1>2. ASSUME NEW p \in Writers, WriterStep(p)
      PROVE  gc'.pc = "idle"
  <2>1. CASE w[p].pc # "idle"
    <3>1. gc.pc = "idle"
      BY <1>1, <2>1, RunningIsAlone
    <3>2. gc' = gc
      BY <1>2, <2>1 DEF WriterStep, StartSet, StartRm, StartOther, Start, ReadTree, ReadParent,
                  CarryOver, PutContent, PutSnapshot, ReadReset, SetBranch, Refuse, Stop
    <3>3. QED
      BY <3>1, <3>2
  <2>2. CASE w[p].pc = "idle"
    BY <1>2, <2>2 DEF WriterStep, StartSet, StartRm, StartOther, Start, ReadTree, ReadParent,
                  CarryOver, PutContent, PutSnapshot, ReadReset, SetBranch, Refuse, Stop
  <2>3. QED
    BY <2>1, <2>2
<1>3. ASSUME GcStep \/ UNCHANGED vars
      PROVE  GcExact'
  <2>1. GcMarked' = GcMarked
    BY <1>3, MarkedStable DEF vars, GcStep, GcMark, GcList, GcDelete, GcEnd, GcStop
  <2>2. GcExact /\ gc \in GcStates
    BY <1>1 DEF ExactInv, TInv, TypeOK
  <2>3. CASE GcMark
    BY <2>1, <2>2, <2>3 DEF GcMark, GcExact, GcStates
  <2>4. CASE GcList
    BY <2>1, <2>2, <2>4 DEF GcList, GcExact
  <2>5. CASE \E a \in gc.todo : GcDelete(a)
    BY <2>1, <2>2, <2>5 DEF GcDelete, GcExact, GcStates
  <2>6. CASE GcEnd \/ GcStop
    BY <2>6 DEF GcEnd, GcStop, GcIdle, GcExact
  <2>7. CASE UNCHANGED vars
    BY <2>1, <2>2, <2>7 DEF vars, GcExact
  <2>8. QED
    BY <1>3, <2>3, <2>4, <2>5, <2>6, <2>7 DEF GcStep
<1>4. GcExact'
  BY <1>2, <1>3 DEF Next, GcExact
<1>5. QED
  BY <1>1, <1>4 DEF ExactInv

(* A collection that runs to its end leaves exactly what the branch heads    *)
(* need, nothing more and nothing less (GC in gc.go).                        *)
THEOREM CollectionIsExact ==
    ASSUME GcAlone
    PROVE  Spec => CollectionExact
<1>1. Init => ExactInv
  BY InitClosed DEF Init, GcIdle, GcExact, ExactInv
<1>2. ExactInv /\ [Next]_vars => ExactInv'
  BY NextExact
<1>3. ASSUME ExactInv, [Next]_vars
      PROVE  [(gc.pc = "sweep" /\ gc'.pc = "idle" /\ kills' = kills) => stored' = GcMarked]_vars
  <2> SUFFICES ASSUME Next, gc.pc = "sweep", gc'.pc = "idle", kills' = kills
               PROVE  stored' = GcMarked
    BY <1>3
  <2>1. ClosedInv /\ TInv /\ GcExact
    BY <1>3 DEF ExactInv, ClosedInv
  <2>2. GcEnd
    <3>1. kills \in Nat
      BY <2>1, BoundsAssumption DEF TInv, TypeOK
    <3>2. Quiet
      BY <2>1 DEF ClosedInv, GcHolds
    <3>3. ASSUME NEW p \in Writers, WriterStep(p) PROVE gc' = gc
      <4>1. CASE StartSet(p) \/ StartRm(p) \/ StartOther(p) \/ Refuse(p) \/ Stop(p)
        BY <4>1 DEF StartSet, StartRm, StartOther, Start, Refuse, Stop
      <4>2. CASE ReadTree(p) \/ ReadParent(p) \/ ReadReset(p) \/ CarryOver(p)
        BY <4>2 DEF ReadTree, ReadParent, ReadReset, CarryOver
      <4>3. CASE PutContent(p) \/ PutSnapshot(p) \/ SetBranch(p)
        BY <4>3 DEF PutContent, PutSnapshot, SetBranch
      <4>4. QED
        BY <3>3, <4>1, <4>2, <4>3 DEF WriterStep
    <3>4. ~ GcMark /\ ~ GcList /\ ~ GcStop /\ \A a \in gc.todo : ~ GcDelete(a)
      BY <2>1, <3>1 DEF GcMark, GcList, GcStop, GcDelete, TInv, TypeOK, GcStates
    <3>5. QED
      BY <3>3, <3>4 DEF Next, GcStep
  <2>3. stored' = stored /\ stored \subseteq GcMarked
    BY <2>1, <2>2 DEF GcEnd, GcExact
  <2>4. GcMarked \subseteq stored
    BY <2>1, ClosedHeads DEF GcMarked, HeadsClosed
  <2>5. QED
    BY <2>3, <2>4
<1>4. QED
  BY <1>1, <1>2, <1>3, PTL DEF Spec, CollectionExact
=============================================================================
