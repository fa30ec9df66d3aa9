--------------------------- MODULE Library_proofs ---------------------------
(***************************************************************************)
(* Theorems about Library, for every number of libraries, contents and     *)
(* watermarks and every bound: what a history may lack, what fsck finds,   *)
(* and what a collection leaves.                                           *)
(***************************************************************************)
EXTENDS Library, FiniteSetTheorems, WellFoundedInduction, TLAPS

Names == {"main", "stage"}
Numbers == 0 .. MaxSnaps

\* at most two parents
Parents(n) == {<<>>} \cup {<<p>> : p \in 1 .. n} \cup {<<p, q>> : p \in 1 .. n, q \in 1 .. n}
Snapshots == [root : Contents, parents : Parents(MaxSnaps), index : BOOLEAN, vec : BOOLEAN,
              far : UNION {[D -> Nat] : D \in SUBSET (1 .. MaxSnaps)}]
Libraries == [objs : SUBSET Objects, keep : Nat, heads : [Names -> Numbers]]

(* What the hash of a snapshot pins down: its parents are older, and its      *)
(* history is the histories of its parents and itself.                        *)
Above(s) == DOMAIN snaps[s].far
SnapOf(s) ==
    /\ \A p \in ToSet(snaps[s].parents) : p \in 1 .. (s - 1)
    /\ Above(s) \subseteq 1 .. s
    /\ Above(s) = {s} \cup UNION {Above(p) : p \in ToSet(snaps[s].parents)}
    /\ \A t \in Above(s) : Above(t) \subseteq Above(s)
SnapInv == /\ snaps \in Seq(Snapshots) /\ Len(snaps) <= MaxSnaps
           /\ \A s \in 1 .. Len(snaps) : SnapOf(s)

(* What a head needs: the snapshots of its history, their trees, and the      *)
(* indexes and vectors that they name.                                        *)
Content(s) == Body(s) \cup Search(s)
Needs(h) == IF h = NoHead THEN {} ELSE UNION {Content(s) : s \in Above(h)}

\* every snapshot of the history names an index
Indexed(h) == h # NoHead => \A s \in Above(h) : snaps[s].index

(* Two heads that objects serve, but for what is gone.  The history of main   *)
(* names an index throughout, and for that reason a commit that changes       *)
(* nothing may keep the address of the index without putting the index.       *)
Served(objs, heads, gone) ==
    /\ \A b \in Names : heads[b] \in 0 .. Len(snaps) /\ Needs(heads[b]) \subseteq objs \cup gone
    /\ Indexed(heads["main"])

LibOf(x, gone) == /\ x \in Libraries
                  /\ \A b \in Names : x.heads[b] # NoHead => SnapObj(x.heads[b]) \in x.objs
                  /\ Served(x.objs, x.heads, gone)

(* What is gone from a library: what was let go or left out, which is only    *)
(* ever searched in, and what a torn backup did not have.                     *)
Gone(l) == lost[l] \cup torn[l]
SearchOnly(S) == \A o \in S : o[1] \in {"index", "vec"}

LibInv == /\ lib \in [Libs -> Libraries] /\ DOMAIN lost = Libs /\ DOMAIN torn = Libs
          /\ \A l \in Libs : \A x, gone : x = lib[l] /\ gone = Gone(l) => LibOf(x, gone)
          /\ \A l \in Libs : SearchOnly(lost[l])

(* A backup under way serves the heads there were when it read the objects, a *)
(* backup file the heads there were when it read the rows.                    *)
FileOf(f) == /\ f.objs \subseteq Objects /\ f.heads \in [Names -> Numbers]
             /\ Served(f.objs, f.heads, f.lost \cup f.torn) /\ SearchOnly(f.lost)
BackupInv == /\ backup # None => backup.from \in Libs
             /\ \A f \in {backup, file} \ {None} : FileOf(f)

Inv == SnapInv /\ LibInv /\ BackupInv

----------------------------------------------------------------------------
(* Numbers, and sequences of at most two.                                     *)

(* Min is what its name says.                                                 *)
LEMMA MinOfNumbers ==
    ASSUME NEW T \in SUBSET Nat, T # {}
    PROVE  Min(T) \in T /\ \A y \in T : Min(T) <= y
<1>1. PICK x \in T : \A y \in T : ~ (<<y, x>> \in OpToRel(<, Nat))
  BY NatLessThanWellFounded, WFMin
<1>2. \A y \in T : ~ (y < x)
  BY <1>1 DEF OpToRel
<1>3. \A y \in T : x <= y
  BY <1>2
<1>4. QED
  BY <1>3 DEF Min

LEMMA NamesOfBranches == ToSet(Branches) = Names
BY DEF ToSet, Branches, Names

LEMMA ShortSequences ==
    /\ ToSet(<<>>) = {}
    /\ \A p : ToSet(<<p>>) = {p}
    /\ \A p, q : ToSet(<<p, q>>) = {p, q}
BY DEF ToSet

(* What a concatenation of two sequences has.                                 *)
LEMMA ElementsOfConcat ==
    ASSUME NEW S, NEW x \in Seq(S), NEW y \in Seq(S)
    PROVE  ToSet(x \o y) = ToSet(x) \cup ToSet(y)
<1>1. /\ x \o y \in Seq(S) /\ Len(x \o y) = Len(x) + Len(y)
      /\ \A i \in 1 .. Len(x) + Len(y) :
            (x \o y)[i] = IF i <= Len(x) THEN x[i] ELSE y[i - Len(x)]
  OBVIOUS
<1>2. Len(x) \in Nat /\ Len(y) \in Nat /\ DOMAIN x = 1 .. Len(x) /\ DOMAIN y = 1 .. Len(y)
      /\ DOMAIN (x \o y) = 1 .. Len(x) + Len(y)
  BY <1>1
<1>3. ASSUME NEW o \in ToSet(x \o y)
      PROVE  o \in ToSet(x) \cup ToSet(y)
  <2>1. PICK i \in 1 .. Len(x) + Len(y) : o = (x \o y)[i]
    BY <1>2, <1>3 DEF ToSet
  <2>2. CASE i <= Len(x)
    BY <1>1, <1>2, <2>1, <2>2 DEF ToSet
  <2>3. CASE ~ (i <= Len(x))
    <3>1. i - Len(x) \in 1 .. Len(y)
      BY <1>2, <2>3
    <3>2. o = y[i - Len(x)]
      BY <1>1, <2>1, <2>3
    <3>3. QED
      BY <1>2, <3>1, <3>2 DEF ToSet
  <2>4. QED
    BY <2>2, <2>3
<1>4. ASSUME NEW o \in ToSet(x)
      PROVE  o \in ToSet(x \o y)
  <2>1. PICK i \in 1 .. Len(x) : o = x[i]
    BY <1>2, <1>4 DEF ToSet
  <2>2. i \in 1 .. Len(x) + Len(y) /\ o = (x \o y)[i]
    BY <1>1, <1>2, <2>1
  <2>3. QED
    BY <1>2, <2>2 DEF ToSet
<1>5. ASSUME NEW o \in ToSet(y)
      PROVE  o \in ToSet(x \o y)
  <2>1. PICK i \in 1 .. Len(y) : o = y[i]
    BY <1>2, <1>5 DEF ToSet
  <2>2. /\ Len(x) + i \in 1 .. Len(x) + Len(y) /\ ~ (Len(x) + i <= Len(x))
        /\ (Len(x) + i) - Len(x) = i
    BY <1>2
  <2>3. o = (x \o y)[Len(x) + i]
    BY <1>1, <2>1, <2>2
  <2>4. QED
    BY <1>2, <2>2, <2>3 DEF ToSet
<1>6. QED
  BY <1>3, <1>4, <1>5

----------------------------------------------------------------------------
(* Snapshots.                                                                 *)

LEMMA SnapType ==
    ASSUME SnapInv, NEW s \in 1 .. Len(snaps)
    PROVE  /\ Len(snaps) \in Nat /\ snaps[s] \in Snapshots /\ snaps[s].root \in Contents
           /\ snaps[s].index \in BOOLEAN /\ snaps[s].vec \in BOOLEAN
           /\ snaps[s].parents \in Parents(MaxSnaps)
           /\ snaps[s].far \in [Above(s) -> Nat]
           /\ ToSet(snaps[s].parents) \subseteq 1 .. (s - 1)
           /\ s \in Above(s) /\ Above(s) \subseteq 1 .. s /\ Above(s) \subseteq 1 .. Len(snaps)
           /\ Above(s) = {s} \cup UNION {Above(p) : p \in ToSet(snaps[s].parents)}
           /\ \A t \in Above(s) : Above(t) \subseteq Above(s)
<1>1. Len(snaps) \in Nat /\ snaps[s] \in Snapshots
  BY DEF SnapInv
<1>2. /\ snaps[s].root \in Contents /\ snaps[s].index \in BOOLEAN /\ snaps[s].vec \in BOOLEAN
      /\ snaps[s].parents \in Parents(MaxSnaps)
      /\ snaps[s].far \in UNION {[D -> Nat] : D \in SUBSET (1 .. MaxSnaps)}
  BY <1>1 DEF Snapshots
<1>3. snaps[s].far \in [Above(s) -> Nat]
  BY <1>2 DEF Above
<1>4. SnapOf(s)
  BY DEF SnapInv
<1>5. /\ ToSet(snaps[s].parents) \subseteq 1 .. (s - 1)
      /\ Above(s) \subseteq 1 .. s
      /\ Above(s) = {s} \cup UNION {Above(p) : p \in ToSet(snaps[s].parents)}
      /\ \A t \in Above(s) : Above(t) \subseteq Above(s)
  BY <1>4 DEF SnapOf
<1>6. s \in Above(s)
  BY <1>5
<1>7. Above(s) \subseteq 1 .. Len(snaps)
  BY <1>1, <1>5
<1>8. QED
  BY <1>1, <1>2, <1>3, <1>5, <1>6, <1>7

(* The objects of a snapshot are objects.                                     *)
LEMMA ContentType ==
    ASSUME SnapInv, NEW s \in 1 .. Len(snaps)
    PROVE  Content(s) \subseteq Objects /\ SnapObj(s) \in Content(s) /\ TreeObj(s) \in Content(s)
<1>1. /\ snaps[s].root \in Contents /\ s \in 1 .. MaxSnaps
  BY SnapType, LibraryAssumption DEF SnapInv
<1>2. /\ <<"snap", s>> \in Objects /\ <<"tree", snaps[s].root>> \in Objects
      /\ <<"index", snaps[s].root>> \in Objects /\ <<"vec", snaps[s].root>> \in Objects
  BY <1>1 DEF Objects
<1>3. QED
  BY <1>2 DEF Content, Body, Search, SnapObj, TreeObj, IndexObj, VecObj

LEMMA NeedsOf ==
    ASSUME SnapInv, NEW h \in 0 .. Len(snaps)
    PROVE  /\ Needs(h) \subseteq Objects
           /\ h # 0 => /\ h \in 1 .. Len(snaps)
                       /\ \A s \in Above(h) : /\ s \in 1 .. Len(snaps)
                                              /\ Content(s) \subseteq Needs(h)
                                              /\ Needs(s) \subseteq Needs(h)
<1>1. CASE h = 0
  BY <1>1 DEF Needs, NoHead
<1>2. CASE h # 0
  <2>1. h \in 1 .. Len(snaps)
    BY <1>2
  <2>2. Above(h) \subseteq 1 .. Len(snaps) /\ \A t \in Above(h) : Above(t) \subseteq Above(h)
    BY <2>1, SnapType
  <2>3. Needs(h) = UNION {Content(s) : s \in Above(h)}
    BY <1>2 DEF Needs, NoHead
  <2>4. Needs(h) \subseteq Objects
    BY <2>2, <2>3, ContentType
  <2>5. \A s \in Above(h) : Needs(s) \subseteq Needs(h)
    BY <2>2, <2>3 DEF Needs
  <2>6. QED
    BY <2>1, <2>2, <2>3, <2>4, <2>5
<1>3. QED
  BY <1>1, <1>2

LEMMA ParentsType ==
    ASSUME NEW n \in Nat, NEW q \in Parents(n)
    PROVE  ToSet(q) \subseteq 1 .. n /\ \A m \in Nat : n <= m => q \in Parents(m)
<1>1. CASE q = <<>>
  BY <1>1, ShortSequences DEF Parents
<1>2. CASE \E p \in 1 .. n : q = <<p>>
  BY <1>2, ShortSequences DEF Parents
<1>3. CASE \E p \in 1 .. n, r \in 1 .. n : q = <<p, r>>
  <2>1. PICK p \in 1 .. n, r \in 1 .. n : q = <<p, r>>
    BY <1>3
  <2>2. ToSet(q) = {p, r}
    BY <2>1, ShortSequences
  <2>3. \A m \in Nat : n <= m => p \in 1 .. m /\ r \in 1 .. m
    OBVIOUS
  <2>4. QED
    BY <2>1, <2>2, <2>3 DEF Parents
<1>4. QED
  BY <1>1, <1>2, <1>3 DEF Parents

(* The snapshot that a command makes of parents that there are.               *)
NewAbove(parents) == {Len(snaps) + 1} \cup UNION {Above(p) : p \in ToSet(parents)}

LEMMA SnapshotIs ==
    ASSUME SnapInv, Len(snaps) < MaxSnaps,
           NEW a \in Contents, NEW q \in Parents(Len(snaps)), NEW i \in BOOLEAN, NEW v \in BOOLEAN
    PROVE  /\ Snapshot(a, q, i, v) \in Snapshots
           /\ Snapshot(a, q, i, v).root = a /\ Snapshot(a, q, i, v).parents = q
           /\ Snapshot(a, q, i, v).index = i /\ Snapshot(a, q, i, v).vec = v
           /\ DOMAIN Snapshot(a, q, i, v).far = NewAbove(q)
<1> DEFINE n == Len(snaps) + 1
           up == ToSet(q)
           above(s) == {p \in up : s \in DOMAIN snaps[p].far}
           far == [s \in Past(up) \cup {n} |->
                      IF above(s) = {} THEN 0 ELSE 1 + Min({snaps[p].far[s] : p \in above(s)})]
<1>1. Snapshot(a, q, i, v) = [root |-> a, parents |-> q, index |-> i, vec |-> v, far |-> far]
  BY DEF Snapshot
<1>2. /\ Len(snaps) \in Nat /\ up \subseteq 1 .. Len(snaps) /\ q \in Parents(MaxSnaps)
      /\ MaxSnaps \in Nat
  BY ParentsType, LibraryAssumption DEF SnapInv
<1>3. Past(up) \cup {n} = NewAbove(q)
  BY DEF Past, NewAbove, Above
<1>4. NewAbove(q) \subseteq 1 .. MaxSnaps
  <2>1. \A p \in up : Above(p) \subseteq 1 .. Len(snaps)
    BY <1>2, SnapType
  <2>2. \A m \in 1 .. Len(snaps) : m \in 1 .. MaxSnaps
    BY <1>2
  <2>3. n \in 1 .. MaxSnaps
    BY <1>2
  <2>4. QED
    BY <2>1, <2>2, <2>3 DEF NewAbove
<1>5. ASSUME NEW s \in Past(up) \cup {n}
      PROVE  (IF above(s) = {} THEN 0 ELSE 1 + Min({snaps[p].far[s] : p \in above(s)})) \in Nat
  <2>1. CASE above(s) = {}
    BY <2>1
  <2>2. CASE above(s) # {}
    <3> DEFINE T == {snaps[p].far[s] : p \in above(s)}
    <3>1. \A p \in above(s) : snaps[p].far \in [Above(p) -> Nat] /\ s \in Above(p)
      BY <1>2, SnapType DEF Above
    <3>2. \A p \in above(s) : snaps[p].far[s] \in Nat
      BY <3>1
    <3>3. T \subseteq Nat /\ T # {}
      BY <2>2, <3>2
    <3>4. Min(T) \in Nat
      BY <3>3, MinOfNumbers
    <3>5. QED
      BY <2>2, <3>4
  <2>3. QED
    BY <2>1, <2>2
<1>6. DOMAIN far = NewAbove(q) /\ far \in [NewAbove(q) -> Nat]
  BY <1>3, <1>5
<1> HIDE DEF far
<1>7. far \in UNION {[D -> Nat] : D \in SUBSET (1 .. MaxSnaps)}
  BY <1>4, <1>6
<1>8. QED
  BY <1>1, <1>2, <1>6, <1>7 DEF Snapshots

(* The library of snapshots that there are grows by x.                        *)
Grows(x) == /\ SnapInv /\ Len(snaps) < MaxSnaps /\ snaps' = Append(snaps, x)
            /\ x \in Snapshots /\ ToSet(x.parents) \subseteq 1 .. Len(snaps)
            /\ DOMAIN x.far = NewAbove(x.parents)

LEMMA OldStays ==
    ASSUME NEW x, Grows(x)
    PROVE  /\ Len(snaps) \in Nat /\ Len(snaps') = Len(snaps) + 1
           /\ snaps' \in Seq(Snapshots) /\ snaps'[Len(snaps) + 1] = x
           /\ \A s \in 1 .. Len(snaps) : /\ snaps'[s] = snaps[s]
                                         /\ Above(s)' = Above(s) /\ Content(s)' = Content(s)
           /\ \A n : n = Len(snaps) + 1 => Above(n)' = NewAbove(x.parents)
           /\ \A s \in 1 .. (Len(snaps) + 1) : s = Len(snaps) + 1 \/ s \in 1 .. Len(snaps)
<1>1. snaps \in Seq(Snapshots) /\ x \in Snapshots /\ snaps' = Append(snaps, x)
  BY DEF Grows, SnapInv
<1>2. /\ Len(snaps) \in Nat /\ Len(snaps') = Len(snaps) + 1
      /\ snaps' \in Seq(Snapshots) /\ snaps'[Len(snaps) + 1] = x
      /\ \A s \in 1 .. Len(snaps) : snaps'[s] = snaps[s]
  BY <1>1
<1>3. \A s \in 1 .. Len(snaps) : Above(s)' = Above(s) /\ Content(s)' = Content(s)
  BY <1>2 DEF Above, Content, Body, Search, SnapObj, TreeObj, IndexObj, VecObj
<1>4. \A n : n = Len(snaps) + 1 => Above(n)' = DOMAIN x.far
  BY <1>2 DEF Above
<1>5. \A s \in 1 .. (Len(snaps) + 1) : s = Len(snaps) + 1 \/ s \in 1 .. Len(snaps)
  BY <1>2
<1>6. QED
  BY <1>2, <1>3, <1>4, <1>5 DEF Grows

LEMMA GrowsKeepsSnapInv ==
    ASSUME NEW x, Grows(x)
    PROVE  SnapInv'
<1> DEFINE n == Len(snaps) + 1
           up == ToSet(x.parents)
<1>1. /\ SnapInv /\ Len(snaps) \in Nat /\ Len(snaps) < MaxSnaps /\ MaxSnaps \in Nat
      /\ up \subseteq 1 .. Len(snaps)
  BY OldStays, LibraryAssumption DEF Grows
<1>2. snaps' \in Seq(Snapshots) /\ Len(snaps') <= MaxSnaps
  BY <1>1, OldStays
<1>3. ASSUME NEW s \in 1 .. Len(snaps)
      PROVE  SnapOf(s)'
  <2>1. /\ ToSet(snaps[s].parents) \subseteq 1 .. (s - 1) /\ Above(s) \subseteq 1 .. s
        /\ Above(s) = {s} \cup UNION {Above(p) : p \in ToSet(snaps[s].parents)}
        /\ \A t \in Above(s) : Above(t) \subseteq Above(s)
    BY <1>1, SnapType
  <2>2. snaps'[s] = snaps[s] /\ Above(s)' = Above(s)
    BY OldStays
  <2>3. \A t : t \in 1 .. (s - 1) \/ t \in 1 .. s => t \in 1 .. Len(snaps)
    BY <1>1
  <2>4. \A t : t \in 1 .. (s - 1) \/ t \in 1 .. s => Above(t)' = Above(t)
    BY <2>3, OldStays
  <2>5. \A p \in ToSet(snaps[s].parents) : Above(p)' = Above(p)
    BY <2>1, <2>4
  <2>6. Above(s)' = {s} \cup UNION {Above(p)' : p \in ToSet(snaps[s].parents)}
    BY <2>1, <2>2, <2>5
  <2>7. \A t \in Above(s)' : Above(t)' \subseteq Above(s)'
    BY <2>1, <2>2, <2>4
  <2>8. QED
    BY <2>1, <2>2, <2>6, <2>7 DEF SnapOf
<1>4. ASSUME NEW s, s = n
      PROVE  SnapOf(s)'
  <2>1. snaps'[s] = x /\ Above(s)' = NewAbove(x.parents)
    BY <1>4, OldStays
  <2>2. \A p \in up : /\ p \in 1 .. Len(snaps) /\ Above(p)' = Above(p)
                      /\ Above(p) \subseteq 1 .. Len(snaps)
                      /\ \A t \in Above(p) : Above(t) \subseteq Above(p)
    BY <1>1, OldStays, SnapType
  <2>3. Above(s)' = {s} \cup UNION {Above(p)' : p \in up}
    BY <1>4, <2>1, <2>2 DEF NewAbove
  <2>4. s - 1 = Len(snaps) /\ \A t \in 1 .. Len(snaps) : t \in 1 .. s /\ Above(t)' = Above(t)
    BY <1>1, <1>4, OldStays
  <2>5. Above(s)' \subseteq 1 .. s
    <3>1. s \in 1 .. s
      BY <1>1, <1>4
    <3>2. QED
      BY <2>2, <2>3, <2>4, <3>1
  <2>6. ASSUME NEW t \in Above(s)'
        PROVE  Above(t)' \subseteq Above(s)'
    <3>1. CASE t = s
      BY <3>1
    <3>2. CASE t # s
      <4>1. PICK p \in up : t \in Above(p)
        BY <2>2, <2>3, <2>6, <3>2
      <4>2. Above(t) \subseteq Above(p) /\ t \in 1 .. Len(snaps)
        BY <2>2, <4>1
      <4>3. Above(t)' \subseteq Above(p)'
        BY <2>2, <2>4, <4>2
      <4>4. QED
        BY <2>3, <4>3
    <3>3. QED
      BY <3>1, <3>2
  <2>7. QED
    BY <1>1, <2>1, <2>3, <2>4, <2>5, <2>6 DEF SnapOf
<1>5. \A s \in 1 .. Len(snaps') : s \in 1 .. Len(snaps) \/ s = n
  BY OldStays
<1>6. QED
  BY <1>2, <1>3, <1>4, <1>5 DEF SnapInv

(* What the heads need: the old ones what they needed before, the new one the *)
(* new snapshot and what its parents need.                                    *)
LEMMA GrowsNeeds ==
    ASSUME NEW x, Grows(x)
    PROVE  /\ \A h \in 0 .. Len(snaps) : Needs(h)' = Needs(h) /\ Indexed(h)' = Indexed(h)
           /\ \A n : n = Len(snaps) + 1 =>
                 /\ Needs(n)' = {<<"snap", n>>, <<"tree", x.root>>}
                                  \cup (IF x.index THEN {<<"index", x.root>>} ELSE {})
                                  \cup (IF x.vec THEN {<<"vec", x.root>>} ELSE {})
                                  \cup UNION {Needs(p) : p \in ToSet(x.parents)}
                 /\ x.index /\ (\A p \in ToSet(x.parents) : Indexed(p)) => Indexed(n)'
<1> DEFINE up == ToSet(x.parents)
<1>1. SnapInv /\ Len(snaps) \in Nat /\ up \subseteq 1 .. Len(snaps)
  BY OldStays DEF Grows
<1>2. \A s \in 1 .. Len(snaps) : /\ snaps'[s] = snaps[s] /\ Content(s)' = Content(s)
                                 /\ Above(s)' = Above(s) /\ Above(s) \subseteq 1 .. Len(snaps)
  BY <1>1, OldStays, SnapType
<1>3. ASSUME NEW h \in 0 .. Len(snaps)
      PROVE  Needs(h)' = Needs(h) /\ Indexed(h)' = Indexed(h)
  <2>1. CASE h = 0
    BY <2>1 DEF Needs, Indexed, NoHead
  <2>2. CASE h # 0
    <3>1. h \in 1 .. Len(snaps)
      BY <2>2
    <3>2. /\ Above(h)' = Above(h)
          /\ \A s \in Above(h) : Content(s)' = Content(s) /\ snaps'[s] = snaps[s]
      BY <1>2, <3>1
    <3>3. Needs(h)' = UNION {Content(s)' : s \in Above(h)'}
          /\ Needs(h) = UNION {Content(s) : s \in Above(h)}
      BY <2>2 DEF Needs, NoHead
    <3>4. Needs(h)' = Needs(h)
      BY <3>2, <3>3
    <3>5. Indexed(h)' = Indexed(h)
      BY <2>2, <3>2 DEF Indexed, NoHead
    <3>6. QED
      BY <3>4, <3>5
  <2>3. QED
    BY <2>1, <2>2
<1>4. ASSUME NEW n, n = Len(snaps) + 1
      PROVE  /\ Needs(n)' = {<<"snap", n>>, <<"tree", x.root>>}
                              \cup (IF x.index THEN {<<"index", x.root>>} ELSE {})
                              \cup (IF x.vec THEN {<<"vec", x.root>>} ELSE {})
                              \cup UNION {Needs(p) : p \in up}
             /\ x.index /\ (\A p \in up : Indexed(p)) => Indexed(n)'
  <2>1. /\ snaps'[n] = x /\ Above(n)' = {n} \cup UNION {Above(p) : p \in up} /\ n # 0
    BY <1>1, <1>4, OldStays DEF NewAbove
  <2>2. \A s \in Above(n)' : s = n \/ (s \in 1 .. Len(snaps) /\ \E p \in up : s \in Above(p))
    BY <1>1, <1>2, <2>1
  <2>3. Content(n)' = {<<"snap", n>>, <<"tree", x.root>>}
                        \cup (IF x.index THEN {<<"index", x.root>>} ELSE {})
                        \cup (IF x.vec THEN {<<"vec", x.root>>} ELSE {})
    BY <2>1 DEF Content, Body, Search, SnapObj, TreeObj, IndexObj, VecObj
  <2>4. \A p \in up : p # 0 /\ Needs(p) = UNION {Content(s) : s \in Above(p)}
    BY <1>1 DEF Needs, NoHead
  <2>5. Needs(n)' = UNION {Content(s)' : s \in Above(n)'}
    BY <2>1 DEF Needs, NoHead
  <2>6. ASSUME NEW o \in Needs(n)'
        PROVE  o \in Content(n)' \cup UNION {Needs(p) : p \in up}
    <3>1. PICK s \in Above(n)' : o \in Content(s)'
      BY <2>5, <2>6
    <3>2. CASE s = n
      BY <3>1, <3>2
    <3>3. CASE s \in 1 .. Len(snaps) /\ \E p \in up : s \in Above(p)
      <4>1. PICK p \in up : s \in Above(p)
        BY <3>3
      <4>2. o \in Content(s)
        BY <1>2, <3>1, <3>3
      <4>3. o \in Needs(p)
        BY <2>4, <4>1, <4>2
      <4>4. QED
        BY <4>3
    <3>4. QED
      BY <2>2, <3>2, <3>3
  <2>7. ASSUME NEW o \in Content(n)' \cup UNION {Needs(p) : p \in up}
        PROVE  o \in Needs(n)'
    <3>1. CASE o \in Content(n)'
      BY <2>1, <2>5, <3>1
    <3>2. CASE o \in UNION {Needs(p) : p \in up}
      <4>1. PICK p \in up : o \in Needs(p)
        BY <3>2
      <4>2. PICK s \in Above(p) : o \in Content(s)
        BY <2>4, <4>1
      <4>3. s \in Above(n)' /\ s \in 1 .. Len(snaps)
        BY <1>1, <1>2, <2>1, <4>2
      <4>4. o \in Content(s)'
        BY <1>2, <4>2, <4>3
      <4>5. QED
        BY <2>5, <4>3, <4>4
    <3>3. QED
      BY <2>7, <3>1, <3>2
  <2>8. Needs(n)' = Content(n)' \cup UNION {Needs(p) : p \in up}
    BY <2>6, <2>7
  <2>9. ASSUME x.index, \A p \in up : Indexed(p)
        PROVE  Indexed(n)'
    <3>1. ASSUME NEW s \in Above(n)'
          PROVE  snaps'[s].index
      <4>1. CASE s = n
        BY <2>1, <2>9, <4>1
      <4>2. CASE s \in 1 .. Len(snaps) /\ \E p \in up : s \in Above(p)
        BY <1>2, <2>4, <2>9, <4>2 DEF Indexed, NoHead
      <4>3. QED
        BY <2>2, <4>1, <4>2
    <3>2. QED
      BY <3>1 DEF Indexed
  <2>10. QED
    BY <2>3, <2>8, <2>9
<1>5. QED
  BY <1>3, <1>4

----------------------------------------------------------------------------
(* Steps.                                                                     *)

\* the snapshots stay, or one is made
SnapsMove == SnapInv /\ (snaps' = snaps \/ \E x : Grows(x))

LEMMA MovesKeep ==
    ASSUME SnapsMove
    PROVE  /\ SnapInv' /\ Len(snaps) \in Nat /\ Len(snaps) <= Len(snaps')
           /\ Len(snaps') \in Nat
           /\ \A h \in 0 .. Len(snaps) : /\ Needs(h)' = Needs(h) /\ Indexed(h)' = Indexed(h)
                                         /\ h \in 0 .. Len(snaps')
<1>1. SnapInv /\ Len(snaps) \in Nat
  BY DEF SnapsMove, SnapInv
<1>2. CASE snaps' = snaps
  <2>1. SnapInv'
    BY <1>1, <1>2 DEF SnapInv, SnapOf, Above
  <2>2. \A h \in 0 .. Len(snaps) : Needs(h)' = Needs(h) /\ Indexed(h)' = Indexed(h)
    BY <1>2 DEF Needs, Indexed, Above, Content, Body, Search, SnapObj, TreeObj, IndexObj, VecObj
  <2>3. QED
    BY <1>1, <1>2, <2>1, <2>2
<1>3. CASE \E x : Grows(x)
  <2>1. PICK x : Grows(x)
    BY <1>3
  <2>2. SnapInv' /\ Len(snaps') = Len(snaps) + 1
    BY <2>1, GrowsKeepsSnapInv, OldStays
  <2>3. \A h \in 0 .. Len(snaps) : Needs(h)' = Needs(h) /\ Indexed(h)' = Indexed(h)
    BY <2>1, GrowsNeeds
  <2>4. QED
    BY <1>1, <2>2, <2>3
<1>4. QED
  BY <1>2, <1>3 DEF SnapsMove

LEMMA ServedStays ==
    ASSUME SnapsMove, NEW objs, NEW heads, NEW gone, Served(objs, heads, gone)
    PROVE  Served(objs, heads, gone)'
<1>1. ASSUME NEW b \in Names
      PROVE  heads[b] \in 0 .. Len(snaps') /\ Needs(heads[b])' \subseteq objs \cup gone
  <2>1. heads[b] \in 0 .. Len(snaps) /\ Needs(heads[b]) \subseteq objs \cup gone
    BY DEF Served
  <2>2. QED
    BY <2>1, MovesKeep
<1>2. heads["main"] \in 0 .. Len(snaps) /\ Indexed(heads["main"])
  BY DEF Served, Names
<1>3. Indexed(heads["main"])'
  BY <1>2, MovesKeep
<1>4. QED
  BY <1>1, <1>3 DEF Served

LEMMA LibStays ==
    ASSUME SnapsMove, NEW x, NEW gone, LibOf(x, gone)
    PROVE  LibOf(x, gone)'
BY ServedStays DEF LibOf, SnapObj

LEMMA FileStays ==
    ASSUME SnapsMove, NEW f, FileOf(f)
    PROVE  FileOf(f)'
BY ServedStays DEF FileOf

(* Nothing but the library l changes, which becomes x.                        *)
LEMMA LibraryChanges ==
    ASSUME Inv, SnapsMove, NEW l \in Libs, NEW x, NEW left, NEW rent,
           LibOf(x, left \cup rent)', SearchOnly(left), BecomesAfter(l, x, left, rent)
    PROVE  LibInv'
<1>1. /\ lib' = [lib EXCEPT ![l] = x]
      /\ lost' = [lost EXCEPT ![l] = left \ x.objs]
      /\ torn' = [torn EXCEPT ![l] = rent \ x.objs]
      /\ lib \in [Libs -> Libraries] /\ DOMAIN lost = Libs /\ DOMAIN torn = Libs
      /\ x \in Libraries
  BY DEF BecomesAfter, Inv, LibInv, LibOf
<1>2. lib' \in [Libs -> Libraries] /\ DOMAIN lost' = Libs /\ DOMAIN torn' = Libs
  BY <1>1
<1>3. ASSUME NEW m \in Libs, NEW y, NEW g, y = lib'[m], g = Gone(m)'
      PROVE  LibOf(y, g)' /\ SearchOnly(lost'[m])
  <2>1. CASE m # l
    <3>1. y = lib[m] /\ lost'[m] = lost[m] /\ torn'[m] = torn[m]
      BY <1>1, <1>3, <2>1
    <3>2. g = Gone(m)
      BY <1>3, <3>1 DEF Gone
    <3>3. LibOf(y, g) /\ SearchOnly(lost[m])
      BY <3>1, <3>2 DEF Inv, LibInv
    <3>4. QED
      BY <3>1, <3>3, LibStays
  <2>2. CASE m = l
    <3>1. y = x /\ lost'[m] = left \ x.objs /\ torn'[m] = rent \ x.objs
      BY <1>1, <1>3, <2>2
    <3>2. x.objs \cup g = x.objs \cup (left \cup rent)
      BY <1>3, <3>1 DEF Gone
    <3>3. /\ x \in Libraries
          /\ \A b \in Names : x.heads[b] # NoHead => SnapObj(x.heads[b])' \in x.objs
          /\ Served(x.objs, x.heads, left \cup rent)'
      BY DEF LibOf
    <3>4. Served(x.objs, x.heads, g)'
      BY <3>2, <3>3 DEF Served
    <3>5. LibOf(x, g)'
      BY <3>3, <3>4 DEF LibOf
    <3>6. SearchOnly(lost'[m])
      BY <3>1 DEF SearchOnly
    <3>7. QED
      BY <3>1, <3>5, <3>6
  <2>3. QED
    BY <2>1, <2>2
<1>4. QED
  BY <1>2, <1>3 DEF LibInv

LEMMA BackupsStay ==
    ASSUME Inv, SnapsMove, backup' = backup, file' = file
    PROVE  BackupInv'
<1>1. ASSUME NEW f \in {backup', file'} \ {None}
      PROVE  FileOf(f)'
  <2>1. FileOf(f)
    BY <1>1 DEF Inv, BackupInv
  <2>2. QED
    BY <2>1, FileStays
<1>2. QED
  BY <1>1 DEF Inv, BackupInv

(* What Inv says of one library.                                              *)
LEMMA LibType ==
    ASSUME Inv, NEW l \in Libs
    PROVE  /\ Len(snaps) \in Nat
           /\ lib[l] \in Libraries /\ lib[l].objs \subseteq Objects /\ lib[l].keep \in Nat
           /\ lib[l].heads \in [Names -> Numbers]
           /\ \A b \in Names : /\ HeadAt(l, b) \in 0 .. Len(snaps)
                               /\ Needs(HeadAt(l, b)) \subseteq lib[l].objs \cup Gone(l)
                               /\ HeadAt(l, b) # NoHead =>
                                     /\ HeadAt(l, b) \in 1 .. Len(snaps)
                                     /\ SnapObj(HeadAt(l, b)) \in lib[l].objs
           /\ Indexed(HeadAt(l, "main"))
           /\ SearchOnly(lost[l])
<1>1. LibOf(lib[l], Gone(l)) /\ lib[l] \in Libraries /\ SearchOnly(lost[l])
  BY DEF Inv, LibInv
<1>2. lib[l].objs \subseteq Objects /\ lib[l].keep \in Nat /\ lib[l].heads \in [Names -> Numbers]
  BY <1>1 DEF Libraries
<1>3. Len(snaps) \in Nat
  BY DEF Inv, SnapInv
<1>4. ASSUME NEW b \in Names
      PROVE  /\ HeadAt(l, b) \in 0 .. Len(snaps)
             /\ Needs(HeadAt(l, b)) \subseteq lib[l].objs \cup Gone(l)
             /\ HeadAt(l, b) # NoHead => /\ HeadAt(l, b) \in 1 .. Len(snaps)
                                         /\ SnapObj(HeadAt(l, b)) \in lib[l].objs
  BY <1>1, <1>3 DEF LibOf, Served, HeadAt, NoHead
<1>5. Indexed(HeadAt(l, "main"))
  BY <1>1 DEF LibOf, Served, HeadAt
<1>6. QED
  BY <1>1, <1>2, <1>3, <1>4, <1>5

(* One branch gets a new snapshot, and the library at least what that needs   *)
(* beside what is gone.                                                       *)
Extends(l, b, a, q, i, v, n, objs, left, gone) ==
    /\ Len(snaps) < MaxSnaps /\ n = Len(snaps) + 1
    /\ snaps' = Append(snaps, Snapshot(a, q, i, v))
    /\ Becomes(l, [lib[l] EXCEPT !.objs = objs, !.heads[b] = n], left)
    /\ backup' = backup /\ file' = file
    /\ objs \subseteq Objects /\ lib[l].objs \subseteq objs /\ <<"snap", n>> \in objs
    /\ lost[l] \subseteq left /\ SearchOnly(left) /\ gone = left \cup torn[l]
    /\ \A p \in ToSet(q) : Needs(p) \subseteq objs \cup gone
    /\ <<"tree", a>> \in objs \cup gone
    /\ i => <<"index", a>> \in objs \cup gone
    /\ v => <<"vec", a>> \in objs \cup gone
    /\ b = "main" => i /\ \A p \in ToSet(q) : Indexed(p)

LEMMA NewHead ==
    ASSUME Inv, NEW l \in Libs, NEW b \in Names,
           NEW a \in Contents, NEW q \in Parents(Len(snaps)), NEW i \in BOOLEAN, NEW v \in BOOLEAN,
           NEW n, NEW objs, NEW left, NEW gone, Extends(l, b, a, q, i, v, n, objs, left, gone)
    PROVE  Inv'
<1> DEFINE s == Snapshot(a, q, i, v)
<1>1. /\ Len(snaps) < MaxSnaps /\ n = Len(snaps) + 1
      /\ snaps' = Append(snaps, Snapshot(a, q, i, v))
      /\ Becomes(l, [lib[l] EXCEPT !.objs = objs, !.heads[b] = n], left)
      /\ backup' = backup /\ file' = file
      /\ objs \subseteq Objects /\ lib[l].objs \subseteq objs /\ <<"snap", n>> \in objs
      /\ Gone(l) \subseteq gone /\ SearchOnly(left) /\ gone = left \cup torn[l]
  BY DEF Extends, Gone
<1>2. PICK x : x = [lib[l] EXCEPT !.objs = objs, !.heads[b] = n]
  OBVIOUS
<1>3. /\ SnapInv /\ Len(snaps) \in Nat /\ MaxSnaps \in Nat
      /\ lib[l] \in Libraries /\ lib[l].heads \in [Names -> Numbers]
  BY LibType, LibraryAssumption DEF Inv
<1>4. /\ s \in Snapshots /\ s.root = a /\ s.parents = q /\ s.index = i /\ s.vec = v
      /\ DOMAIN s.far = NewAbove(q)
  BY <1>3, <1>1, SnapshotIs
<1>5. Grows(s)
  BY <1>3, <1>4, <1>1, ParentsType DEF Grows
<1> HIDE DEF s
<1>6. SnapsMove /\ SnapInv' /\ Len(snaps') = n /\ n \in Nat /\ n \in Numbers /\ n # 0
  BY <1>3, <1>5, <1>1, OldStays, GrowsKeepsSnapInv DEF SnapsMove, Numbers
<1>7. /\ x.objs = objs /\ x.keep = lib[l].keep /\ x.heads = [lib[l].heads EXCEPT ![b] = n]
      /\ x \in Libraries
  BY <1>3, <1>6, <1>1, <1>2 DEF Libraries
<1>8. x.heads[b] = n /\ \A c \in Names : c # b => x.heads[c] = lib[l].heads[c]
  BY <1>3, <1>7
<1>9. /\ Needs(n)' = {<<"snap", n>>, <<"tree", s.root>>}
                          \cup (IF s.index THEN {<<"index", s.root>>} ELSE {})
                          \cup (IF s.vec THEN {<<"vec", s.root>>} ELSE {})
                          \cup UNION {Needs(p) : p \in ToSet(s.parents)}
      /\ s.index /\ (\A p \in ToSet(s.parents) : Indexed(p)) => Indexed(n)'
  BY <1>1, <1>5, GrowsNeeds
<1>10. \A p \in ToSet(q) : Needs(p) \subseteq objs \cup gone
  BY DEF Extends
<1>11. /\ <<"snap", n>> \in objs /\ <<"tree", a>> \in objs \cup gone
       /\ i => <<"index", a>> \in objs \cup gone
       /\ v => <<"vec", a>> \in objs \cup gone
  BY DEF Extends
<1>12. b = "main" => i /\ \A p \in ToSet(q) : Indexed(p)
  BY DEF Extends
<1>13. Needs(n)' \subseteq objs \cup gone
  <2>1. UNION {Needs(p) : p \in ToSet(q)} \subseteq objs \cup gone
    BY <1>10
  <2>2. Needs(n)' = {<<"snap", n>>, <<"tree", a>>}
                      \cup (IF i THEN {<<"index", a>>} ELSE {})
                      \cup (IF v THEN {<<"vec", a>>} ELSE {})
                      \cup UNION {Needs(p) : p \in ToSet(q)}
    BY <1>4, <1>9
  <2>3. QED
    BY <1>11, <2>1, <2>2
<1>14. b = "main" => Indexed(n)'
  <2>1. b = "main" => s.index /\ \A p \in ToSet(s.parents) : Indexed(p)
    BY <1>4, <1>12
  <2>2. QED
    BY <1>9, <2>1
<1>15. ASSUME NEW c \in Names
      PROVE  /\ x.heads[c] \in 0 .. Len(snaps') /\ Needs(x.heads[c])' \subseteq objs \cup gone
             /\ x.heads[c] # NoHead => SnapObj(x.heads[c])' \in objs
             /\ c = "main" => Indexed(x.heads[c])'
  <2>1. CASE c = b
    <3>1. x.heads[c] = n
      BY <1>8, <2>1
    <3>2. Needs(x.heads[c])' \subseteq objs \cup gone
      BY <1>13, <3>1
    <3>3. c = "main" => Indexed(x.heads[c])'
      BY <1>14, <2>1, <3>1
    <3>4. n \in 0 .. Len(snaps')
      BY <1>6
    <3>5. SnapObj(x.heads[c])' \in objs
      BY <1>1, <3>1 DEF SnapObj
    <3>6. QED
      BY <3>1, <3>2, <3>3, <3>4, <3>5
  <2>2. CASE c # b
    <3>1. x.heads[c] = HeadAt(l, c)
      BY <1>8, <2>2 DEF HeadAt
    <3>2. /\ HeadAt(l, c) \in 0 .. Len(snaps)
          /\ Needs(HeadAt(l, c)) \subseteq lib[l].objs \cup Gone(l)
          /\ HeadAt(l, c) # NoHead => SnapObj(HeadAt(l, c)) \in lib[l].objs
          /\ c = "main" => Indexed(HeadAt(l, c))
      BY LibType
    <3>3. x.heads[c] \in 0 .. Len(snaps) /\ Needs(x.heads[c]) \subseteq objs \cup gone
      BY <1>1, <3>1, <3>2
    <3>4. c = "main" => Indexed(x.heads[c])
      BY <3>1, <3>2
    <3>5. x.heads[c] # NoHead => SnapObj(x.heads[c])' \in objs
      BY <1>1, <3>1, <3>2 DEF SnapObj
    <3>6. /\ Needs(x.heads[c])' = Needs(x.heads[c]) /\ Indexed(x.heads[c])' = Indexed(x.heads[c])
          /\ x.heads[c] \in 0 .. Len(snaps')
      BY <1>6, <3>3, MovesKeep
    <3>7. QED
      BY <3>3, <3>4, <3>5, <3>6
  <2>3. QED
    BY <2>1, <2>2
<1>16. LibOf(x, gone)'
  BY <1>7, <1>15 DEF LibOf, Served, Names
<1>17. BecomesAfter(l, x, left, torn[l])
  BY <1>1, <1>2 DEF Becomes
<1>18. LibInv'
  BY <1>1, <1>6, <1>16, <1>17, LibraryChanges
<1>19. BackupInv'
  BY <1>6, <1>1, BackupsStay
<1>20. QED
  BY <1>6, <1>18, <1>19 DEF Inv

LEMMA LandKeeps ==
    ASSUME Inv, NEW l \in Libs, NEW b \in Names,
           NEW a \in Contents, NEW q \in Parents(Len(snaps)), NEW i \in BOOLEAN, NEW v \in BOOLEAN,
           NEW objs \in SUBSET Objects, Land(l, b, Snapshot(a, q, i, v), objs),
           \A p \in ToSet(q) : Needs(p) \subseteq lib[l].objs \cup Gone(l),
           <<"tree", a>> \in lib[l].objs \cup objs \cup Gone(l),
           i => <<"index", a>> \in lib[l].objs \cup objs \cup Gone(l),
           v => <<"vec", a>> \in lib[l].objs \cup objs \cup Gone(l),
           b = "main" => i /\ \A p \in ToSet(q) : Indexed(p)
    PROVE  Inv'
<1>1. PICK n : n = Len(snaps) + 1
  OBVIOUS
<1>2. PICK all : all = lib[l].objs \cup objs \cup {<<"snap", n>>}
  OBVIOUS
<1>3. PICK left, gone : left = lost[l] /\ gone = left \cup torn[l]
  OBVIOUS
<1>4. /\ Len(snaps) < MaxSnaps /\ snaps' = Append(snaps, Snapshot(a, q, i, v))
      /\ Becomes(l, [lib[l] EXCEPT !.objs = all, !.heads[b] = n], left)
      /\ backup' = backup /\ file' = file
  BY <1>1, <1>2, <1>3 DEF Land, SnapObj
<1>5. /\ all \in SUBSET Objects /\ lib[l].objs \subseteq all /\ <<"snap", n>> \in all
      /\ lib[l].objs \cup objs \subseteq all
  <2>1. lib[l].objs \subseteq Objects /\ Len(snaps) \in Nat
    BY LibType
  <2>2. n \in 1 .. MaxSnaps
    BY <1>1, <1>4, <2>1, LibraryAssumption
  <2>3. <<"snap", n>> \in Objects
    BY <2>2 DEF Objects
  <2>4. QED
    BY <1>2, <2>1, <2>3
<1>6. /\ \A p \in ToSet(q) : Needs(p) \subseteq all \cup gone
      /\ <<"tree", a>> \in all \cup gone
      /\ i => <<"index", a>> \in all \cup gone
      /\ v => <<"vec", a>> \in all \cup gone
  BY <1>3, <1>5 DEF Gone
<1>7. lost[l] \subseteq left /\ SearchOnly(left)
  BY <1>3, LibType
<1>8. /\ all \in SUBSET Objects /\ lib[l].objs \subseteq all /\ <<"snap", n>> \in all
      /\ b = "main" => i /\ \A p \in ToSet(q) : Indexed(p)
  BY <1>5
<1>9. Extends(l, b, a, q, i, v, n, all, left, gone)
  BY <1>1, <1>3, <1>4, <1>6, <1>7, <1>8 DEF Extends
<1>10. QED
  BY <1>9, NewHead

(* No snapshot is made, and the library l becomes x.                          *)
LEMMA OneChanges ==
    ASSUME Inv, NEW l \in Libs, NEW x, NEW left, NEW rent, LibOf(x, left \cup rent),
           SearchOnly(left), BecomesAfter(l, x, left, rent), UNCHANGED <<snaps, backup, file>>
    PROVE  Inv'
<1>1. SnapsMove
  BY DEF SnapsMove, Inv
<1>2. LibOf(x, left \cup rent)'
  <2>1. PICK gone : gone = left \cup rent
    OBVIOUS
  <2>2. LibOf(x, gone)'
    BY <1>1, <2>1, LibStays
  <2>3. QED
    BY <2>1, <2>2
<1>3. QED
  BY <1>1, <1>2, MovesKeep, LibraryChanges, BackupsStay DEF Inv

LEMMA ParentOfType ==
    ASSUME Inv, NEW l \in Libs, NEW b \in Names
    PROVE  /\ ParentOf(l, b) \in Parents(Len(snaps))
           /\ \A p \in ToSet(ParentOf(l, b)) :
                 /\ p = HeadAt(l, b)
                 /\ Needs(p) \subseteq lib[l].objs \cup Gone(l)
                 /\ b = "main" => Indexed(p)
<1>1. /\ HeadAt(l, b) \in 0 .. Len(snaps)
      /\ Needs(HeadAt(l, b)) \subseteq lib[l].objs \cup Gone(l)
      /\ b = "main" => Indexed(HeadAt(l, b))
      /\ HeadAt(l, b) # NoHead => HeadAt(l, b) \in 1 .. Len(snaps)
  BY LibType
<1>2. CASE HeadAt(l, b) = NoHead
  BY <1>2, ShortSequences DEF ParentOf, Parents
<1>3. CASE HeadAt(l, b) # NoHead
  <2>1. ParentOf(l, b) = <<HeadAt(l, b)>> /\ HeadAt(l, b) \in 1 .. Len(snaps)
    BY <1>1, <1>3 DEF ParentOf
  <2>2. ToSet(ParentOf(l, b)) = {HeadAt(l, b)}
    BY <2>1, ShortSequences
  <2>3. ParentOf(l, b) \in Parents(Len(snaps))
    BY <2>1 DEF Parents
  <2>4. QED
    BY <1>1, <2>2, <2>3
<1>4. QED
  BY <1>2, <1>3

(* The head of main, its content and what it names.                           *)
LEMMA MainHead ==
    ASSUME Inv, NEW l \in Libs, HeadAt(l, "main") # NoHead
    PROVE  LET h == HeadAt(l, "main")
           IN  /\ h \in 1 .. Len(snaps) /\ snaps[h].root \in Contents
               /\ snaps[h].index = TRUE /\ snaps[h].vec \in BOOLEAN
               /\ <<h>> \in Parents(Len(snaps)) /\ ToSet(<<h>>) = {h}
               /\ Needs(h) \subseteq lib[l].objs \cup Gone(l) /\ Indexed(h)
               /\ <<"tree", snaps[h].root>> \in lib[l].objs \cup Gone(l)
               /\ <<"index", snaps[h].root>> \in lib[l].objs \cup Gone(l)
               /\ snaps[h].vec => <<"vec", snaps[h].root>> \in lib[l].objs \cup Gone(l)
<1> DEFINE h == HeadAt(l, "main")
<1>1. /\ h \in 1 .. Len(snaps) /\ Needs(h) \subseteq lib[l].objs \cup Gone(l) /\ Indexed(h)
  BY LibType DEF Names
<1>2. /\ snaps[h].root \in Contents /\ snaps[h].index \in BOOLEAN /\ snaps[h].vec \in BOOLEAN
      /\ h \in Above(h)
  BY <1>1, SnapType DEF Inv
<1>3. snaps[h].index = TRUE
  BY <1>1, <1>2 DEF Indexed
<1>4. Content(h) \subseteq Needs(h)
  BY <1>1, <1>2, NeedsOf DEF Inv
<1>5. /\ <<"tree", snaps[h].root>> \in Content(h) /\ <<"index", snaps[h].root>> \in Content(h)
      /\ snaps[h].vec => <<"vec", snaps[h].root>> \in Content(h)
  BY <1>2, <1>3 DEF Content, Body, Search, TreeObj, IndexObj, VecObj
<1>6. <<h>> \in Parents(Len(snaps)) /\ ToSet(<<h>>) = {h}
  BY <1>1, ShortSequences DEF Parents
<1>7. QED
  BY <1>1, <1>2, <1>3, <1>4, <1>5, <1>6

LEMMA ObjectsOf ==
    ASSUME NEW a \in Contents
    PROVE  <<"tree", a>> \in Objects /\ <<"index", a>> \in Objects /\ <<"vec", a>> \in Objects
BY DEF Objects

----------------------------------------------------------------------------
(* Each command keeps the invariant.  First the ones that make a snapshot.    *)

LEMMA CommitKeeps ==
    ASSUME Inv, NEW l \in Libs, NEW a \in Contents, Commit(l, a)
    PROVE  Inv'
<1> DEFINE h == HeadAt(l, "main")
           same == h # NoHead /\ snaps[h].root = a
<1>1. PICK objs : objs = {<<"tree", a>>} \cup IF same THEN {} ELSE {<<"index", a>>}
  OBVIOUS
<1>2. Land(l, "main", Snapshot(a, ParentOf(l, "main"), TRUE, FALSE), objs)
  BY <1>1 DEF Commit
<1>3. objs \in SUBSET Objects /\ <<"tree", a>> \in objs
  BY <1>1, ObjectsOf
<1>4. <<"index", a>> \in lib[l].objs \cup objs \cup Gone(l)
  BY <1>1, MainHead
<1>5. PICK q : q = ParentOf(l, "main")
  OBVIOUS
<1>6. /\ q \in Parents(Len(snaps))
      /\ \A p \in ToSet(q) : Needs(p) \subseteq lib[l].objs \cup Gone(l) /\ Indexed(p)
  BY <1>5, ParentOfType DEF Names
<1>7. "main" \in Names
  BY DEF Names
<1>8. QED
  BY <1>2, <1>3, <1>4, <1>5, <1>6, <1>7, LandKeeps

LEMMA RebuildKeeps ==
    ASSUME Inv, NEW l \in Libs, Rebuild(l)
    PROVE  Inv'
<1>1. PICK h : h = HeadAt(l, "main")
  OBVIOUS
<1>2. PICK a, v, objs : a = snaps[h].root /\ v = snaps[h].vec /\ objs = {<<"index", a>>}
  OBVIOUS
<1>3. h # NoHead /\ Land(l, "main", Snapshot(a, <<h>>, TRUE, v), objs)
  BY <1>1, <1>2 DEF Rebuild
<1>4. /\ a \in Contents /\ v \in BOOLEAN
      /\ <<h>> \in Parents(Len(snaps)) /\ ToSet(<<h>>) = {h}
      /\ Needs(h) \subseteq lib[l].objs \cup Gone(l) /\ Indexed(h)
      /\ <<"tree", a>> \in lib[l].objs \cup Gone(l)
      /\ v => <<"vec", a>> \in lib[l].objs \cup Gone(l)
  BY <1>1, <1>2, <1>3, MainHead
<1>5. objs \in SUBSET Objects
  BY <1>2, <1>4, ObjectsOf
<1>6. "main" \in Names
  BY DEF Names
<1>7. QED
  BY <1>2, <1>3, <1>4, <1>5, <1>6, LandKeeps

LEMMA EmbedKeeps ==
    ASSUME Inv, NEW l \in Libs, Embed(l)
    PROVE  Inv'
<1>1. PICK h : h = HeadAt(l, "main")
  OBVIOUS
<1>2. PICK a, i, objs : a = snaps[h].root /\ i = snaps[h].index /\ objs = {<<"vec", a>>}
  OBVIOUS
<1>3. h # NoHead /\ Land(l, "main", Snapshot(a, <<h>>, i, TRUE), objs)
  BY <1>1, <1>2 DEF Embed
<1>4. /\ a \in Contents /\ i = TRUE
      /\ <<h>> \in Parents(Len(snaps)) /\ ToSet(<<h>>) = {h}
      /\ Needs(h) \subseteq lib[l].objs \cup Gone(l) /\ Indexed(h)
      /\ <<"tree", a>> \in lib[l].objs \cup Gone(l)
      /\ <<"index", a>> \in lib[l].objs \cup Gone(l)
  BY <1>1, <1>2, <1>3, MainHead
<1>5. objs \in SUBSET Objects
  BY <1>2, <1>4, ObjectsOf
<1>6. "main" \in Names
  BY DEF Names
<1>7. QED
  BY <1>2, <1>3, <1>4, <1>5, <1>6, LandKeeps

LEMMA LayStageKeeps ==
    ASSUME Inv, NEW l \in Libs, LayStage(l)
    PROVE  Inv'
<1>1. PICK h : h = HeadAt(l, "main")
  OBVIOUS
<1>2. PICK a, objs : a = snaps[h].root /\ objs = {}
  OBVIOUS
<1>3. h # NoHead /\ Land(l, "stage", Snapshot(a, <<h>>, FALSE, FALSE), objs)
  BY <1>1, <1>2 DEF LayStage
<1>4. /\ a \in Contents
      /\ <<h>> \in Parents(Len(snaps)) /\ ToSet(<<h>>) = {h}
      /\ Needs(h) \subseteq lib[l].objs \cup Gone(l)
      /\ <<"tree", a>> \in lib[l].objs \cup Gone(l)
  BY <1>1, <1>2, <1>3, MainHead
<1>5. objs \in SUBSET Objects
  BY <1>2
<1>6. "stage" \in Names
  BY DEF Names
<1>7. QED
  BY <1>3, <1>4, <1>5, <1>6, LandKeeps

LEMMA StageKeeps ==
    ASSUME Inv, NEW l \in Libs, NEW a \in Contents, Stage(l, a)
    PROVE  Inv'
<1>1. PICK q, objs : q = ParentOf(l, "stage") /\ objs = {<<"tree", a>>}
  OBVIOUS
<1>2. Land(l, "stage", Snapshot(a, q, FALSE, FALSE), objs)
  BY <1>1 DEF Stage, ParentOf
<1>3. /\ q \in Parents(Len(snaps))
      /\ \A p \in ToSet(q) : Needs(p) \subseteq lib[l].objs \cup Gone(l)
  BY <1>1, ParentOfType DEF Names
<1>4. objs \in SUBSET Objects /\ <<"tree", a>> \in objs
  BY <1>1, ObjectsOf
<1>5. "stage" \in Names
  BY DEF Names
<1>6. QED
  BY <1>2, <1>3, <1>4, <1>5, LandKeeps

(* Commands that make no snapshot.                                            *)

(* A library that keeps its objects, and has two heads that these serve.      *)
LEMMA ServedLib ==
    ASSUME Inv, NEW x \in Libraries, NEW gone,
           \A b \in Names : x.heads[b] # NoHead =>
              /\ x.heads[b] \in 1 .. Len(snaps) /\ SnapObj(x.heads[b]) \in x.objs
              /\ Needs(x.heads[b]) \subseteq x.objs \cup gone
              /\ b = "main" => Indexed(x.heads[b])
    PROVE  LibOf(x, gone)
<1>1. Len(snaps) \in Nat
  BY DEF Inv, SnapInv
<1>2. ASSUME NEW b \in Names, x.heads[b] = NoHead
      PROVE  /\ x.heads[b] \in 0 .. Len(snaps) /\ Needs(x.heads[b]) \subseteq x.objs \cup gone
             /\ Indexed(x.heads[b])
  <2>1. x.heads[b] \in 0 .. Len(snaps)
    BY <1>1, <1>2 DEF NoHead
  <2>2. QED
    BY <1>2, <2>1 DEF Needs, Indexed
<1>3. ASSUME NEW b \in Names
      PROVE  /\ x.heads[b] \in 0 .. Len(snaps) /\ Needs(x.heads[b]) \subseteq x.objs \cup gone
             /\ b = "main" => Indexed(x.heads[b])
  <2>1. CASE x.heads[b] = NoHead
    BY <1>2, <2>1
  <2>2. CASE x.heads[b] # NoHead
    BY <1>1, <2>2
  <2>3. QED
    BY <2>1, <2>2
<1>4. "main" \in Names
  BY DEF Names
<1>5. QED
  BY <1>3, <1>4 DEF LibOf, Served

LEMMA FreshIs ==
    /\ Fresh \in Libraries /\ Fresh.objs = {} /\ Fresh.keep = 0
    /\ \A b \in Names : Fresh.heads[b] = NoHead
<1>1. Fresh = [objs |-> {}, keep |-> 0, heads |-> [b \in Names |-> NoHead]]
  BY NamesOfBranches DEF Fresh
<1>2. NoHead \in Numbers
  BY LibraryAssumption DEF NoHead, Numbers
<1>3. QED
  BY <1>1, <1>2 DEF Libraries

LEMMA WipeKeeps ==
    ASSUME Inv, NEW l \in Libs, Wipe(l)
    PROVE  Inv'
<1>1. PICK x, gone : x = Fresh /\ gone = {}
  OBVIOUS
<1>2. BecomesAfter(l, x, gone, gone) /\ UNCHANGED <<snaps, backup, file>>
  BY <1>1 DEF Wipe
<1>3. LibOf(x, gone) /\ SearchOnly(gone) /\ gone \cup gone = gone
  BY <1>1, FreshIs, ServedLib DEF SearchOnly
<1>4. QED
  BY <1>2, <1>3, OneChanges

(* One head is moved within what the library holds, or dropped.               *)
LEMMA HeadMoves ==
    ASSUME Inv, NEW l \in Libs, NEW b \in Names, NEW h,
           Becomes(l, [lib[l] EXCEPT !.heads[b] = h], lost[l]), UNCHANGED <<snaps, backup, file>>,
           h = NoHead \/ /\ h \in 1 .. Len(snaps) /\ SnapObj(h) \in lib[l].objs
                         /\ Needs(h) \subseteq lib[l].objs \cup Gone(l)
                         /\ b = "main" => Indexed(h)
    PROVE  Inv'
<1>1. PICK x, gone : x = [lib[l] EXCEPT !.heads[b] = h] /\ gone = Gone(l)
  OBVIOUS
<1>2. /\ lib[l] \in Libraries /\ lib[l].heads \in [Names -> Numbers]
      /\ Len(snaps) \in Nat /\ Len(snaps) <= MaxSnaps /\ MaxSnaps \in Nat
  BY LibType, LibraryAssumption DEF Inv, SnapInv
<1>3. h \in Numbers
  BY <1>2 DEF NoHead, Numbers
<1>4. /\ x \in Libraries /\ x.objs = lib[l].objs /\ x.heads = [lib[l].heads EXCEPT ![b] = h]
  BY <1>1, <1>2, <1>3 DEF Libraries
<1>5. x.heads[b] = h /\ \A c \in Names : c # b => x.heads[c] = HeadAt(l, c)
  BY <1>2, <1>4 DEF HeadAt
<1>6. ASSUME NEW c \in Names, x.heads[c] # NoHead
      PROVE  /\ x.heads[c] \in 1 .. Len(snaps) /\ SnapObj(x.heads[c]) \in x.objs
             /\ Needs(x.heads[c]) \subseteq x.objs \cup gone
             /\ c = "main" => Indexed(x.heads[c])
  <2>1. CASE c = b
    BY <1>1, <1>4, <1>5, <1>6, <2>1
  <2>2. CASE c # b
    <3>1. x.heads[c] = HeadAt(l, c)
      BY <1>5, <2>2
    <3>2. /\ HeadAt(l, c) \in 1 .. Len(snaps) /\ SnapObj(HeadAt(l, c)) \in lib[l].objs
          /\ Needs(HeadAt(l, c)) \subseteq lib[l].objs \cup Gone(l)
          /\ c = "main" => Indexed(HeadAt(l, c))
      BY <1>6, <3>1, LibType
    <3>3. QED
      BY <1>1, <1>4, <3>1, <3>2
  <2>3. QED
    BY <2>1, <2>2
<1>7. LibOf(x, gone)
  BY <1>4, <1>6, ServedLib
<1>8. BecomesAfter(l, x, lost[l], torn[l]) /\ SearchOnly(lost[l]) /\ gone = lost[l] \cup torn[l]
  BY <1>1, LibType DEF Becomes, Gone
<1>9. QED
  BY <1>7, <1>8, OneChanges

LEMMA DropStageKeeps ==
    ASSUME Inv, NEW l \in Libs, DropStage(l)
    PROVE  Inv'
<1>1. /\ Becomes(l, [lib[l] EXCEPT !.heads["stage"] = NoHead], lost[l])
      /\ UNCHANGED <<snaps, backup, file>>
  BY DEF DropStage
<1>2. QED
  BY <1>1, HeadMoves DEF Names

LEMMA ResetKeeps ==
    ASSUME Inv, NEW l \in Libs, NEW s, Reset(l, s)
    PROVE  Inv'
<1>1. PICK h : h = HeadAt(l, "main")
  OBVIOUS
<1>2. /\ h # NoHead /\ s \in Above(h) /\ SnapObj(s) \in lib[l].objs
      /\ Becomes(l, [lib[l] EXCEPT !.heads["main"] = s], lost[l])
      /\ UNCHANGED <<snaps, backup, file>>
  BY <1>1 DEF Reset, Past, Above
<1>3. /\ h \in 0 .. Len(snaps) /\ Needs(h) \subseteq lib[l].objs \cup Gone(l) /\ Indexed(h)
      /\ h \in 1 .. Len(snaps)
  BY <1>1, <1>2, LibType DEF Names
<1>4. s \in 1 .. Len(snaps) /\ Needs(s) \subseteq Needs(h)
  BY <1>2, <1>3, NeedsOf DEF Inv, NoHead
<1>5. Above(s) \subseteq Above(h)
  BY <1>2, <1>3, SnapType DEF Inv
<1>6. Indexed(s)
  BY <1>2, <1>3, <1>5 DEF Indexed
<1>7. QED
  BY <1>2, <1>3, <1>4, <1>6, HeadMoves DEF Names

(* The history of two heads.                                                  *)
LEMMA PastOfHeads ==
    ASSUME NEW heads \in [Names -> Numbers], NEW s
    PROVE  s \in Past(Heads(heads)) <=> \E b \in Names : heads[b] # NoHead /\ s \in Above(heads[b])
<1>1. \A h : h \in Heads(heads) <=> h # NoHead /\ \E b \in Names : h = heads[b]
  BY DEF Heads, Range
<1>2. s \in Past(Heads(heads)) <=> \E h \in Heads(heads) : s \in Above(h)
  BY DEF Past, Above
<1>3. QED
  BY <1>1, <1>2

LEMMA PastType ==
    ASSUME Inv, NEW l \in Libs, NEW s \in Past(Heads(lib[l].heads))
    PROVE  /\ s \in 1 .. Len(snaps)
           /\ \E b \in Names : /\ HeadAt(l, b) # NoHead /\ HeadAt(l, b) \in 1 .. Len(snaps)
                               /\ s \in Above(HeadAt(l, b))
<1>1. PICK b \in Names : lib[l].heads[b] # NoHead /\ s \in Above(lib[l].heads[b])
  BY LibType, PastOfHeads
<1>2. HeadAt(l, b) # NoHead /\ HeadAt(l, b) \in 1 .. Len(snaps) /\ s \in Above(HeadAt(l, b))
  BY <1>1, LibType DEF HeadAt
<1>3. QED
  BY <1>2, SnapType DEF Inv

(* What gc marks is part of what the heads need, and all of it but the search *)
(* objects of what is pruned.                                                 *)
LEMMA MarkedIs ==
    ASSUME Inv, NEW l \in Libs, NEW x, x.heads = lib[l].heads
    PROVE  /\ \A s \in Past(Heads(x.heads)) :
                 /\ Body(s) \subseteq Marked(x)
                 /\ s \notin Pruned(x) => Search(s) \subseteq Marked(x)
           /\ Marked(x) \subseteq UNION {Content(s) : s \in Past(Heads(x.heads))}
           /\ \A b \in Names : HeadAt(l, b) # NoHead =>
                 SnapObj(HeadAt(l, b)) \in Marked(x)
<1>1. \A s \in Past(Heads(x.heads)) :
         /\ Body(s) \subseteq Marked(x)
         /\ s \notin Pruned(x) => Search(s) \subseteq Marked(x)
  BY DEF Marked
<1>2. Marked(x) \subseteq UNION {Content(s) : s \in Past(Heads(x.heads))}
  BY DEF Marked, Content
<1>3. ASSUME NEW b \in Names, HeadAt(l, b) # NoHead
      PROVE  SnapObj(HeadAt(l, b)) \in Marked(x)
  <2>1. HeadAt(l, b) \in 1 .. Len(snaps)
    BY <1>3, LibType
  <2>2. HeadAt(l, b) \in Above(HeadAt(l, b))
    BY <2>1, SnapType DEF Inv
  <2>3. lib[l].heads \in [Names -> Numbers]
    BY LibType
  <2>4. HeadAt(l, b) \in Past(Heads(x.heads))
    BY <1>3, <2>2, <2>3, PastOfHeads DEF HeadAt
  <2>5. QED
    BY <1>1, <2>4 DEF Body
<1>4. QED
  BY <1>1, <1>2, <1>3

(* Indexes and vectors are what is searched in.                               *)
LEMMA SearchIsSearched == \A s : SearchOnly(Search(s)) /\ SearchOnly(VecObj(s))
BY DEF SearchOnly, Search, IndexObj, VecObj

LEMMA GcKeeps ==
    ASSUME Inv, NEW l \in Libs, NEW k, Gc(l, k)
    PROVE  Inv'
<1>1. PICK x : x = [lib[l] EXCEPT !.keep = k]
  OBVIOUS
<1>2. PICK y : y = IF MarkFails(x) THEN x ELSE [x EXCEPT !.objs = @ \cap Marked(x)]
  OBVIOUS
<1>3. PICK left, gone : /\ left = lost[l] \cup UNION {Search(s) : s \in Pruned(x)}
                        /\ gone = left \cup torn[l]
  OBVIOUS
<1>4. Becomes(l, y, left) /\ UNCHANGED <<snaps, backup, file>> /\ k \in Nat
  <2>1. k \in Keeps \cup {lib[l].keep}
    BY DEF Gc
  <2>2. k \in Nat
    BY <2>1, LibType, LibraryAssumption
  <2>3. QED
    BY <1>1, <1>2, <1>3, <2>2 DEF Gc
<1>5. /\ x \in Libraries /\ x.objs = lib[l].objs /\ x.heads = lib[l].heads
      /\ lib[l].objs \subseteq Objects /\ lib[l].heads \in [Names -> Numbers]
  BY <1>1, <1>4, LibType DEF Libraries
<1>6. /\ y \in Libraries /\ y.heads = lib[l].heads
      /\ y.objs = lib[l].objs \/ (y.objs = Marked(x) /\ Marked(x) \subseteq lib[l].objs)
  <2>1. CASE MarkFails(x)
    BY <1>2, <1>5, <2>1
  <2>2. CASE ~ MarkFails(x)
    <3>1. Marked(x) \subseteq lib[l].objs
      BY <1>5, <2>2 DEF MarkFails
    <3>2. y = [x EXCEPT !.objs = lib[l].objs \cap Marked(x)]
      BY <1>2, <1>5, <2>2
    <3>3. /\ y.objs = lib[l].objs \cap Marked(x) /\ y.heads = x.heads
          /\ y \in Libraries
      BY <1>5, <3>2 DEF Libraries
    <3>4. QED
      BY <1>5, <3>1, <3>3
  <2>3. QED
    BY <2>1, <2>2
<1>7. ASSUME NEW b \in Names, y.heads[b] # NoHead
      PROVE  /\ y.heads[b] \in 1 .. Len(snaps) /\ SnapObj(y.heads[b]) \in y.objs
             /\ Needs(y.heads[b]) \subseteq y.objs \cup gone
             /\ b = "main" => Indexed(y.heads[b])
  <2>1. PICK h : h = HeadAt(l, b)
    OBVIOUS
  <2>2. y.heads[b] = h /\ h # NoHead
    BY <1>6, <1>7, <2>1 DEF HeadAt
  <2>3. /\ h \in 1 .. Len(snaps) /\ SnapObj(h) \in lib[l].objs
        /\ Needs(h) \subseteq lib[l].objs \cup Gone(l) /\ (b = "main" => Indexed(h))
    BY <2>1, <2>2, LibType
  <2>4. CASE y.objs = lib[l].objs
    BY <1>3, <2>2, <2>3, <2>4 DEF Gone
  <2>5. CASE y.objs = Marked(x)
    <3>1. SnapObj(h) \in y.objs
      BY <1>5, <2>1, <2>2, <2>5, MarkedIs
    <3>2. ASSUME NEW o \in Needs(h)
          PROVE  o \in y.objs \cup gone
      <4>1. PICK s \in Above(h) : o \in Content(s)
        BY <2>2 DEF Needs
      <4>2. s \in Past(Heads(x.heads))
        BY <1>5, <2>1, <2>2, <4>1, PastOfHeads DEF HeadAt
      <4>3. /\ Body(s) \subseteq Marked(x)
            /\ s \notin Pruned(x) => Search(s) \subseteq Marked(x)
        BY <1>5, <4>2, MarkedIs
      <4>4. s \in Pruned(x) => Search(s) \subseteq gone
        BY <1>3
      <4>5. QED
        BY <2>5, <4>1, <4>3, <4>4 DEF Content
    <3>3. QED
      BY <2>2, <2>3, <3>1, <3>2
  <2>6. QED
    BY <1>6, <2>4, <2>5
<1>8. LibOf(y, gone)
  BY <1>6, <1>7, ServedLib
<1>9. SearchOnly(left)
  BY <1>3, LibType, SearchIsSearched DEF SearchOnly
<1>10. QED
  BY <1>3, <1>4, <1>8, <1>9, OneChanges DEF Becomes

----------------------------------------------------------------------------
(* Collections and fsck.                                                      *)

(* A parent of a snapshot of a history belongs to the history.                *)
LEMMA PastClosed ==
    ASSUME Inv, NEW l \in Libs, NEW s \in Past(Heads(lib[l].heads))
    PROVE  \A t \in Above(s) \cup ToSet(snaps[s].parents) : t \in Past(Heads(lib[l].heads))
<1>1. PICK b \in Names : /\ HeadAt(l, b) # NoHead /\ HeadAt(l, b) \in 1 .. Len(snaps)
                         /\ s \in Above(HeadAt(l, b))
  BY PastType
<1>2. s \in 1 .. Len(snaps) /\ Above(s) \subseteq Above(HeadAt(l, b))
  BY <1>1, SnapType DEF Inv
<1>3. ASSUME NEW t \in ToSet(snaps[s].parents)
      PROVE  t \in Above(s)
  <2>1. /\ ToSet(snaps[s].parents) \subseteq 1 .. (s - 1) /\ Len(snaps) \in Nat
        /\ Above(s) = {s} \cup UNION {Above(p) : p \in ToSet(snaps[s].parents)}
    BY <1>2, SnapType DEF Inv
  <2>2. t \in 1 .. Len(snaps)
    BY <1>2, <1>3, <2>1
  <2>3. t \in Above(t)
    BY <2>2, SnapType DEF Inv
  <2>4. QED
    BY <1>3, <2>1, <2>3
<1>4. \A t \in Above(s) : t \in Past(Heads(lib[l].heads))
  BY <1>1, <1>2, LibType, PastOfHeads DEF HeadAt
<1>5. QED
  BY <1>3, <1>4

(* The objects of a snapshot tell which they are.                             *)
LEMMA KindsOf ==
    ASSUME NEW s
    PROVE  /\ \A i : <<"snap", i>> \in Content(s) => i = s
           /\ \A d : <<"index", d>> \in Content(s) => <<"tree", d>> \in Body(s)
BY DEF Content, Body, Search, SnapObj, TreeObj, IndexObj, VecObj

(* A snapshot that is near some head is not pruned, however far it is from    *)
(* the others.                                                                *)
LEMMA RecentIsKept ==
    ASSUME Inv, NEW l \in Libs, NEW x, x.heads = lib[l].heads, x.keep \in Nat,
           NEW s \in Recent(Heads(x.heads), x.keep)
    PROVE  s \in Past(Heads(x.heads)) /\ s \notin Pruned(x)
<1> DEFINE heads == Heads(x.heads)
           far == {snaps[h].far[s] : h \in {i \in heads : s \in DOMAIN snaps[i].far}}
<1>1. PICK h \in heads : s \in Above(h) /\ (x.keep = 0 \/ snaps[h].far[s] < x.keep)
  BY DEF Recent, Above
<1>2. s \in Past(heads)
  BY <1>1 DEF Past, Above
<1>3. \A i \in heads : i \in 1 .. Len(snaps)
  <2>1. \A i \in heads : i # NoHead /\ \E b \in Names : i = HeadAt(l, b)
    BY LibType DEF Heads, Range, HeadAt
  <2>2. QED
    BY <2>1, LibType
<1>4. \A i \in heads : snaps[i].far \in [Above(i) -> Nat]
  BY <1>3, SnapType DEF Inv
<1>5. \A i \in heads : s \in Above(i) => snaps[i].far[s] \in Nat
  BY <1>4
<1>6. far \subseteq Nat /\ snaps[h].far[s] \in far
  BY <1>1, <1>5 DEF Above
<1>7. Min(far) \in Nat /\ Min(far) <= snaps[h].far[s] /\ snaps[h].far[s] \in Nat
  BY <1>6, MinOfNumbers
<1>8. Depths(heads)[s] = Min(far)
  BY <1>2 DEF Depths
<1>9. s \in Pruned(x) => x.keep > 0 /\ Depths(heads)[s] >= x.keep
  BY DEF Pruned
<1>10. QED
  BY <1>1, <1>2, <1>7, <1>8, <1>9

LEMMA GcLeaves ==
    ASSUME Inv, NEW l \in Libs, NEW k, Gc(l, k), lib'[l].objs # lib[l].objs, NEW y, y = lib'[l]
    PROVE  /\ y.objs = Marked(y) /\ y.heads = lib[l].heads /\ y.keep = k /\ k \in Nat
<1>1. PICK x : x = [lib[l] EXCEPT !.keep = k]
  OBVIOUS
<1>2. k \in Nat
  <2>1. k \in Keeps \cup {lib[l].keep}
    BY DEF Gc
  <2>2. QED
    BY <2>1, LibType, LibraryAssumption
<1>3. /\ x \in Libraries /\ x.objs = lib[l].objs /\ x.heads = lib[l].heads /\ x.keep = k
  BY <1>1, <1>2, LibType DEF Libraries
<1>4. y = IF MarkFails(x) THEN x ELSE [x EXCEPT !.objs = @ \cap Marked(x)]
  BY <1>1 DEF Gc, Becomes, BecomesAfter, Inv, LibInv
<1>5. ~ MarkFails(x)
  BY <1>3, <1>4
<1>6. y = [x EXCEPT !.objs = x.objs \cap Marked(x)] /\ Marked(x) \subseteq x.objs
  BY <1>4, <1>5 DEF MarkFails
<1>7. y.objs = Marked(x) /\ y.heads = x.heads /\ y.keep = x.keep
  BY <1>3, <1>6 DEF Libraries
<1>8. Pruned(y) = Pruned(x)
  BY <1>7 DEF Pruned
<1>9. Marked(y) = Marked(x)
  BY <1>7, <1>8 DEF Marked
<1>10. QED
  BY <1>2, <1>3, <1>7, <1>9

(* After a collection fsck has nothing to complain of.                        *)
LEMMA MarkedIsSound ==
    ASSUME Inv, NEW l \in Libs, NEW y, y.heads = lib[l].heads, y.objs = Marked(y)
    PROVE  Problems(y) = {}
<1> DEFINE past == Past(Heads(y.heads))
<1>1. /\ \A s \in past : /\ Body(s) \subseteq y.objs
                         /\ s \notin Pruned(y) => Search(s) \subseteq y.objs
      /\ \A o \in y.objs : \E s \in past : o \in Content(s)
  BY MarkedIs
<1>2. \A d \in Contents : <<"index", d>> \in y.objs => <<"tree", d>> \in y.objs
  BY <1>1, KindsOf
<1>3. ASSUME NEW i \in DOMAIN snaps, SnapObj(i) \in y.objs
      PROVE  {TreeObj(i)} \cup {SnapObj(p) : p \in ToSet(snaps[i].parents)}
               \cup (IF i \in Pruned(y) THEN {} ELSE Search(i)) \subseteq y.objs
  <2>1. i \in past
    BY <1>1, <1>3, KindsOf DEF SnapObj
  <2>2. \A p \in ToSet(snaps[i].parents) : p \in past
    BY <2>1, PastClosed
  <2>3. \A p \in ToSet(snaps[i].parents) : SnapObj(p) \in y.objs
    BY <1>1, <2>2 DEF Body
  <2>4. TreeObj(i) \in y.objs
    BY <1>1, <2>1 DEF Body
  <2>5. QED
    BY <1>1, <2>1, <2>3, <2>4
<1>4. QED
  BY <1>2, <1>3 DEF Problems

(* A collection that deletes leaves what the heads need and no more, but for  *)
(* search objects out of the watermark of every branch, and fsck passes.      *)
LEMMA GcStepIsExact ==
    ASSUME Inv, NEW l \in Libs, NEW k \in Keeps, Gc(l, k), lib'[l].objs # lib[l].objs,
           NEW x, x = lib'[l]
    PROVE  /\ x.objs \subseteq UNION {Body(s) \cup Search(s) : s \in Past(Heads(x.heads))}
           /\ UNION {Search(s) : s \in Recent(Heads(x.heads), x.keep)} \subseteq x.objs
           /\ Problems(x) = {}
<1>1. x.objs = Marked(x) /\ x.heads = lib[l].heads /\ x.keep \in Nat
  BY GcLeaves
<1>2. x.objs \subseteq UNION {Body(s) \cup Search(s) : s \in Past(Heads(x.heads))}
  BY <1>1, MarkedIs DEF Content
<1>3. ASSUME NEW s \in Recent(Heads(x.heads), x.keep)
      PROVE  Search(s) \subseteq x.objs
  <2>1. s \in Past(Heads(x.heads)) /\ s \notin Pruned(x)
    BY <1>1, RecentIsKept
  <2>2. QED
    BY <1>1, <2>1, MarkedIs
<1>4. Problems(x) = {}
  BY <1>1, MarkedIsSound
<1>5. QED
  BY <1>2, <1>3, <1>4

----------------------------------------------------------------------------
(* Backup and restore.                                                        *)

\* a head of a file comes back or does not, and only if its object is in the file
LEMMA RestoredIs ==
    ASSUME NEW f, NEW n \in 0 .. Len(Branches), f.heads \in [Names -> Numbers]
    PROVE  /\ Restored(f, n) \in [Names -> Numbers]
           /\ \A b \in Names : Restored(f, n)[b] # NoHead =>
                 /\ Restored(f, n)[b] = f.heads[b]
                 /\ SnapObj(f.heads[b]) \in f.objs
<1> DEFINE fails(i) == f.heads[Branches[i]] # NoHead /\ SnapObj(f.heads[Branches[i]]) \notin f.objs
           stops == {i \in DOMAIN Branches : fails(i)} \cup {n + 1}
           done == Min(stops) - 1
           heads == [b \in DOMAIN f.heads |->
                        IF \E i \in 1 .. done : Branches[i] = b THEN f.heads[b] ELSE NoHead]
<1>1. Restored(f, n) = heads
  BY DEF Restored
<1>2. DOMAIN Branches = 1 .. 2 /\ n \in Nat
  BY DEF Branches
<1>3. stops \in SUBSET Nat /\ stops # {}
  BY <1>2
<1>4. Min(stops) \in stops /\ \A i \in stops : Min(stops) <= i
  BY <1>3, MinOfNumbers
<1>5. done \in Int /\ \A i \in 1 .. done : i \notin stops /\ i <= n
  <2>1. PICK m : m = Min(stops)
    OBVIOUS
  <2>2. m \in Nat /\ (n + 1 \in stops => m <= n + 1) /\ \A i \in stops : m <= i
    BY <1>2, <1>3, <1>4, <2>1
  <2>3. n + 1 \in stops /\ done = m - 1
    BY <2>1
  <2>4. m <= n + 1
    BY <2>2, <2>3
  <2> HIDE DEF stops, done
  <2>5. done \in Int /\ \A i \in 1 .. done : ~ (m <= i) /\ i <= n
    BY <1>2, <2>2, <2>3, <2>4
  <2>6. QED
    BY <2>2, <2>5
<1>6. \A i \in 1 .. done : i \in DOMAIN Branches
  <2>1. n <= 2
    BY DEF Branches
  <2>2. QED
    BY <1>2, <1>5, <2>1
<1>7. \A i \in 1 .. done : ~ fails(i)
  BY <1>5, <1>6
<1>8. NoHead \in Numbers
  BY LibraryAssumption DEF NoHead, Numbers
<1>9. ASSUME NEW b \in Names, heads[b] # NoHead
      PROVE  heads[b] = f.heads[b] /\ SnapObj(f.heads[b]) \in f.objs
  <2>1. \E i \in 1 .. done : Branches[i] = b
    BY <1>9
  <2>2. heads[b] = f.heads[b]
    BY <2>1
  <2>3. QED
    BY <1>7, <1>9, <2>1, <2>2
<1>10. heads \in [Names -> Numbers]
  BY <1>8
<1>11. QED
  BY <1>1, <1>9, <1>10

(* What is left of a library before a restore: no head, and a watermark.      *)
LEMMA EmptiedIs ==
    ASSUME Inv, NEW l \in Libs
    PROVE  Emptied(l) \in Libraries /\ \A b \in Names : Emptied(l).heads[b] = NoHead
<1>1. CASE IsEmpty(l)
  <2>1. Emptied(l) = lib[l] /\ lib[l] \in Libraries /\ lib[l].heads \in [Names -> Numbers]
    BY <1>1, LibType DEF Emptied
  <2>2. \A b \in Names : lib[l].heads[b] = NoHead
    BY <1>1, <2>1 DEF IsEmpty, Heads, Range
  <2>3. QED
    BY <2>1, <2>2
<1>2. CASE ~ IsEmpty(l)
  BY <1>2, FreshIs DEF Emptied
<1>3. QED
  BY <1>1, <1>2

LEMMA RestoreKeeps ==
    ASSUME Inv, NEW l \in Libs, NEW force, NEW n, Restore(l, force, n)
    PROVE  Inv'
<1>1. PICK f, heads : f = file /\ heads = Restored(f, n)
  OBVIOUS
<1>2. PICK x, gone : /\ x = [Emptied(l) EXCEPT !.objs = f.objs, !.heads = heads]
                     /\ gone = f.lost \cup f.torn
  OBVIOUS
<1>3. /\ f # None /\ n \in 0 .. Len(Branches) /\ BecomesAfter(l, x, f.lost, f.torn)
      /\ UNCHANGED <<snaps, backup, file>>
  BY <1>1, <1>2 DEF Restore
<1>4. FileOf(f)
  BY <1>1, <1>3 DEF Inv, BackupInv
<1>5. /\ f.objs \subseteq Objects /\ f.heads \in [Names -> Numbers] /\ SearchOnly(f.lost)
      /\ \A b \in Names : /\ f.heads[b] \in 0 .. Len(snaps)
                          /\ Needs(f.heads[b]) \subseteq f.objs \cup gone
                          /\ b = "main" => Indexed(f.heads[b])
  BY <1>2, <1>4 DEF FileOf, Served
<1>6. /\ heads \in [Names -> Numbers]
      /\ \A b \in Names : heads[b] # NoHead => /\ heads[b] = f.heads[b]
                                               /\ SnapObj(f.heads[b]) \in f.objs
  BY <1>1, <1>3, <1>5, RestoredIs
<1>7. x \in Libraries /\ x.objs = f.objs /\ x.heads = heads
  BY <1>2, <1>5, <1>6, EmptiedIs DEF Libraries
<1>8. ASSUME NEW b \in Names, x.heads[b] # NoHead
      PROVE  /\ x.heads[b] \in 1 .. Len(snaps) /\ SnapObj(x.heads[b]) \in x.objs
             /\ Needs(x.heads[b]) \subseteq x.objs \cup gone
             /\ b = "main" => Indexed(x.heads[b])
  <2>1. x.heads[b] = f.heads[b] /\ SnapObj(f.heads[b]) \in f.objs
    BY <1>6, <1>7, <1>8
  <2>2. f.heads[b] \in 0 .. Len(snaps) /\ Len(snaps) \in Nat
    BY <1>5 DEF Inv, SnapInv
  <2>3. f.heads[b] \in 1 .. Len(snaps)
    BY <1>8, <2>1, <2>2 DEF NoHead
  <2>4. QED
    BY <1>5, <1>7, <2>1, <2>3
<1>9. LibOf(x, gone)
  BY <1>7, <1>8, ServedLib
<1>10. QED
  BY <1>2, <1>3, <1>5, <1>9, OneChanges

LEMMA RestoreStopKeeps ==
    ASSUME Inv, NEW l \in Libs, NEW some, RestoreStop(l, some)
    PROVE  Inv'
<1>1. PICK x, gone : x = [Emptied(l) EXCEPT !.objs = some] /\ gone = {}
  OBVIOUS
<1>2. /\ file # None /\ some \subseteq file.objs /\ BecomesAfter(l, x, gone, gone)
      /\ UNCHANGED <<snaps, backup, file>>
  BY <1>1 DEF RestoreStop
<1>3. file.objs \subseteq Objects
  BY <1>2 DEF Inv, BackupInv, FileOf
<1>4. /\ x \in Libraries /\ \A b \in Names : x.heads[b] = NoHead
  BY <1>1, <1>2, <1>3, EmptiedIs DEF Libraries
<1>5. LibOf(x, gone) /\ SearchOnly(gone) /\ gone \cup gone = gone
  BY <1>1, <1>4, ServedLib DEF SearchOnly
<1>6. QED
  BY <1>2, <1>5, OneChanges

LEMMA LibInvStays ==
    ASSUME Inv, SnapsMove, UNCHANGED <<lib, lost, torn>>
    PROVE  LibInv'
<1>1. ASSUME NEW m \in Libs, NEW x, NEW gone, x = lib'[m], gone = Gone(m)'
      PROVE  LibOf(x, gone)'
  <2>1. x = lib[m] /\ gone = Gone(m)
    BY <1>1 DEF Gone
  <2>2. LibOf(x, gone)
    BY <2>1 DEF Inv, LibInv
  <2>3. QED
    BY <2>2, LibStays
<1>2. QED
  BY <1>1 DEF Inv, LibInv

LEMMA BackupObjectsKeeps ==
    ASSUME Inv, NEW l \in Libs, BackupObjects(l)
    PROVE  Inv'
<1>1. PICK f : f = [from |-> l, objs |-> lib[l].objs, heads |-> lib[l].heads,
                  lost |-> lost[l], torn |-> torn[l]]
  OBVIOUS
<1>2. backup' = f /\ UNCHANGED <<snaps, lib, file, lost, torn>>
  BY <1>1 DEF BackupObjects
<1>3. LibOf(lib[l], Gone(l))
  BY DEF Inv, LibInv
<1>4. FileOf(f) /\ f.from = l
  BY <1>1, <1>3, LibType DEF FileOf, LibOf, Gone
<1>5. SnapsMove
  BY <1>2 DEF SnapsMove, Inv
<1>6. \A g \in {backup', file'} \ {None} : FileOf(g)
  BY <1>2, <1>4 DEF Inv, BackupInv
<1>7. \A g \in {backup', file'} \ {None} : FileOf(g)'
  BY <1>5, <1>6, FileStays
<1>8. BackupInv'
  BY <1>2, <1>4, <1>7 DEF BackupInv
<1>9. LibInv'
  BY <1>2, <1>5, LibInvStays
<1>10. QED
  BY <1>5, <1>8, <1>9, MovesKeep DEF Inv

LEMMA BackupRowsKeeps ==
    ASSUME Inv, BackupRows
    PROVE  Inv'
<1>1. PICK f, x : f = backup /\ x = lib[backup.from]
  OBVIOUS
<1>2. PICK new : new = Past(Heads(x.heads)) \ Past(Heads(f.heads))
  OBVIOUS
<1>3. PICK g : g = [objs |-> f.objs, heads |-> x.heads,
                    lost |-> f.lost,
                    torn |-> f.torn \cup UNION {Body(s) \cup Search(s) : s \in new}]
  OBVIOUS
<1>4. backup # None /\ file' = g /\ backup' = None /\ UNCHANGED <<snaps, lib, lost, torn>>
  BY <1>1, <1>2, <1>3 DEF BackupRows
<1>5. f.from \in Libs /\ FileOf(f)
  BY <1>1, <1>4 DEF Inv, BackupInv
<1>6. /\ f.objs \subseteq Objects /\ f.heads \in [Names -> Numbers]
      /\ SearchOnly(f.lost)
      /\ \A b \in Names : Needs(f.heads[b]) \subseteq f.objs \cup (f.lost \cup f.torn)
  BY <1>5 DEF FileOf, Served
<1>7. /\ x.heads \in [Names -> Numbers]
      /\ \A b \in Names : x.heads[b] \in 0 .. Len(snaps)
      /\ Indexed(x.heads["main"])
  BY <1>1, <1>5, LibType DEF HeadAt
<1>8. ASSUME NEW b \in Names
      PROVE  Needs(g.heads[b]) \subseteq g.objs \cup (g.lost \cup g.torn)
  <2> SUFFICES ASSUME NEW o \in Needs(x.heads[b])
               PROVE  o \in f.objs \cup (g.lost \cup g.torn)
    BY <1>3
  <2>1. PICK s \in Above(x.heads[b]) : x.heads[b] # NoHead /\ o \in Content(s)
    BY DEF Needs
  <2>2. s \in Past(Heads(x.heads))
    BY <1>7, <2>1, PastOfHeads
  <2>3. CASE s \in new
    BY <1>3, <2>1, <2>3 DEF Content
  <2>4. CASE s \notin new
    <3>1. PICK c \in Names : f.heads[c] # NoHead /\ s \in Above(f.heads[c])
      BY <1>2, <1>6, <2>2, <2>4, PastOfHeads
    <3>2. o \in Needs(f.heads[c])
      BY <2>1, <3>1 DEF Needs
    <3>3. QED
      BY <1>3, <1>6, <3>2
  <2>5. QED
    BY <2>3, <2>4
<1>9. FileOf(g)
  BY <1>3, <1>6, <1>7, <1>8 DEF FileOf, Served
<1>10. SnapsMove
  BY <1>4 DEF SnapsMove, Inv
<1>11. FileOf(g)'
  BY <1>9, <1>10, FileStays
<1>12. BackupInv'
  BY <1>4, <1>11 DEF BackupInv
<1>13. LibInv'
  BY <1>4, <1>10, LibInvStays
<1>14. QED
  BY <1>10, <1>12, <1>13, MovesKeep DEF Inv

----------------------------------------------------------------------------
(* The order of a transfer.                                                   *)

(* FlattenSeq concatenates a sequence of at most two sequences.               *)
LEMMA FlattenNone == FlattenSeq(<<>>) = <<>>
BY DEF FlattenSeq

LEMMA FlattenOne ==
    ASSUME NEW x
    PROVE  FlattenSeq(<<x>>) = x
<1> DEFINE seqs == <<x>>
           Is(f) == f = [i \in 1 .. Len(seqs) |-> IF i = 1 THEN seqs[i] ELSE f[i-1] \o seqs[i]]
           flatten == CHOOSE f : Is(f)
<1>1. Len(seqs) = 1 /\ seqs[1] = x
  OBVIOUS
<1>2. FlattenSeq(seqs) = flatten[Len(seqs)]
  BY <1>1 DEF FlattenSeq
<1>3. Is([i \in 1 .. 1 |-> x])
  BY <1>1
<1>4. Is(flatten)
  BY <1>3
<1>5. flatten[1] = x
  BY <1>1, <1>4
<1>6. QED
  BY <1>1, <1>2, <1>5

LEMMA FlattenTwo ==
    ASSUME NEW x, NEW y
    PROVE  FlattenSeq(<<x, y>>) = x \o y
<1> DEFINE seqs == <<x, y>>
           Is(f) == f = [i \in 1 .. Len(seqs) |-> IF i = 1 THEN seqs[i] ELSE f[i-1] \o seqs[i]]
           flatten == CHOOSE f : Is(f)
<1>1. Len(seqs) = 2 /\ seqs[1] = x /\ seqs[2] = y
  OBVIOUS
<1>2. FlattenSeq(seqs) = flatten[Len(seqs)]
  BY <1>1 DEF FlattenSeq
<1>3. Is([i \in 1 .. 2 |-> IF i = 1 THEN x ELSE x \o y])
  BY <1>1
<1>4. Is(flatten)
  BY <1>3
<1>5. PICK f : f = flatten
  OBVIOUS
<1>6. f = [i \in 1 .. 2 |-> IF i = 1 THEN seqs[i] ELSE f[i-1] \o seqs[i]]
  BY <1>1, <1>4, <1>5
<1> HIDE DEF flatten
<1>7. f[1] = x
  BY <1>1, <1>6
<1>8. f[2] = x \o y
  <2> DEFINE body(i) == IF i = 1 THEN seqs[i] ELSE f[i-1] \o seqs[i]
  <2>1. f = [i \in 1 .. 2 |-> body(i)]
    BY <1>6
  <2>2. 2 - 1 = 1 /\ 2 # 1 /\ 2 \in 1 .. 2
    OBVIOUS
  <2>3. body(2) = f[1] \o seqs[2]
    BY <2>2
  <2> HIDE DEF body
  <2>4. f[2] = body(2)
    BY <2>1, <2>2
  <2>5. QED
    BY <1>1, <1>7, <2>3, <2>4
<1>9. QED
  BY <1>1, <1>2, <1>5, <1>8

LEMMA SequenceOfNone == SetToSeq({}) = <<>>
<1>1. Cardinality({}) = 0
  BY FS_EmptySet
<1>2. <<>> \in [1 .. 0 -> {}] /\ \A f \in [1 .. 0 -> {}] : f = <<>>
  OBVIOUS
<1>3. QED
  BY <1>1, <1>2 DEF SetToSeq, IsInjective

LEMMA SequenceOfOne ==
    ASSUME NEW x
    PROVE  SetToSeq({x}) = <<x>>
<1>1. Cardinality({x}) = 1
  BY FS_Singleton
<1>2. /\ <<x>> \in [1 .. 1 -> {x}] /\ IsInjective(<<x>>)
      /\ \A f \in [1 .. 1 -> {x}] : f = <<x>>
  BY DEF IsInjective
<1>3. QED
  BY <1>1, <1>2 DEF SetToSeq

(* What is put for one snapshot, o being what is put for its parents.         *)
Below(o, s) == [i \in DOMAIN snaps[s].parents |-> o[snaps[s].parents[i]]]
Step(o, s) == <<SnapObj(s), TreeObj(s)>> \o FlattenSeq(Below(o, s)) \o SetToSeq(IndexObj(s))
IsOrder(o) == o = [s \in 1 .. Len(snaps) |-> Step(o, s)]
Copied(s) == UNION {Body(t) \cup IndexObj(t) : t \in Above(s)}

LEMMA BelowIs ==
    ASSUME NEW o, NEW s, NEW n \in Nat, snaps[s].parents \in Parents(n),
           NEW S, \A p \in ToSet(snaps[s].parents) : o[p] \in Seq(S)
    PROVE  /\ FlattenSeq(Below(o, s)) \in Seq(S)
           /\ ToSet(FlattenSeq(Below(o, s))) = UNION {ToSet(o[p]) : p \in ToSet(snaps[s].parents)}
<1> DEFINE q == snaps[s].parents
<1>1. CASE q = <<>>
  <2>1. Below(o, s) = <<>>
    BY <1>1 DEF Below
  <2>2. ToSet(q) = {} /\ UNION {ToSet(o[p]) : p \in {}} = {} /\ ToSet(<<>>) = {}
    BY <1>1, ShortSequences
  <2>3. FlattenSeq(Below(o, s)) = <<>> /\ <<>> \in Seq(S)
    BY <2>1, FlattenNone
  <2>4. QED
    BY <2>2, <2>3
<1>2. CASE \E p \in 1 .. n : q = <<p>>
  <2>1. PICK p \in 1 .. n : q = <<p>>
    BY <1>2
  <2>2. Below(o, s) = <<o[p]>> /\ ToSet(q) = {p}
    BY <2>1, ShortSequences DEF Below
  <2>3. FlattenSeq(Below(o, s)) = o[p] /\ o[p] \in Seq(S)
    BY <2>2, FlattenOne
  <2>4. QED
    BY <2>2, <2>3
<1>3. CASE \E p \in 1 .. n, r \in 1 .. n : q = <<p, r>>
  <2>1. PICK p \in 1 .. n, r \in 1 .. n : q = <<p, r>>
    BY <1>3
  <2>2. Below(o, s) = <<o[p], o[r]>> /\ ToSet(q) = {p, r}
    BY <2>1, ShortSequences DEF Below
  <2>3. FlattenSeq(Below(o, s)) = o[p] \o o[r] /\ o[p] \in Seq(S) /\ o[r] \in Seq(S)
    BY <2>2, FlattenTwo
  <2>4. ToSet(o[p] \o o[r]) = ToSet(o[p]) \cup ToSet(o[r])
    BY <2>3, ElementsOfConcat
  <2>5. UNION {ToSet(o[t]) : t \in ToSet(q)} = ToSet(o[p]) \cup ToSet(o[r])
    BY <2>2
  <2>6. QED
    BY <2>3, <2>4, <2>5
<1>4. QED
  BY <1>1, <1>2, <1>3 DEF Parents

LEMMA StepIs ==
    ASSUME SnapInv, NEW s \in 1 .. Len(snaps), NEW o,
           \A p \in ToSet(snaps[s].parents) : o[p] \in Seq(Objects)
    PROVE  /\ Step(o, s) \in Seq(Objects)
           /\ ToSet(Step(o, s)) = Body(s) \cup IndexObj(s)
                                    \cup UNION {ToSet(o[p]) : p \in ToSet(snaps[s].parents)}
<1> DEFINE x == <<SnapObj(s), TreeObj(s)>>
           y == FlattenSeq(Below(o, s))
           z == SetToSeq(IndexObj(s))
<1>1. /\ SnapObj(s) \in Objects /\ TreeObj(s) \in Objects /\ IndexObj(s) \subseteq Objects
  BY ContentType DEF Content, Search
<1>2. x \in Seq(Objects) /\ ToSet(x) = Body(s)
  BY <1>1, ShortSequences DEF Body
<1>3. /\ y \in Seq(Objects)
      /\ ToSet(y) = UNION {ToSet(o[p]) : p \in ToSet(snaps[s].parents)}
  <2>1. snaps[s].parents \in Parents(MaxSnaps) /\ MaxSnaps \in Nat
    BY SnapType, LibraryAssumption
  <2>2. QED
    BY <2>1, BelowIs
<1>4. z \in Seq(Objects) /\ ToSet(z) = IndexObj(s)
  <2>1. CASE IndexObj(s) = {}
    <3>1. z = <<>> /\ <<>> \in Seq(Objects) /\ ToSet(<<>>) = {}
      BY <2>1, SequenceOfNone, ShortSequences
    <3>2. QED
      BY <2>1, <3>1
  <2>2. CASE \E e \in Objects : IndexObj(s) = {e}
    <3>1. PICK e \in Objects : IndexObj(s) = {e}
      BY <2>2
    <3>2. z = <<e>>
      BY <3>1, SequenceOfOne
    <3>3. <<e>> \in Seq(Objects) /\ ToSet(<<e>>) = {e}
      BY ShortSequences
    <3>4. QED
      BY <3>1, <3>2, <3>3
  <2>3. QED
    BY <1>1, <2>1, <2>2 DEF IndexObj
<1> HIDE DEF x, y, z
<1>5. x \o y \in Seq(Objects) /\ ToSet(x \o y) = ToSet(x) \cup ToSet(y)
  BY <1>2, <1>3, ElementsOfConcat
<1>6. (x \o y) \o z \in Seq(Objects) /\ ToSet((x \o y) \o z) = ToSet(x \o y) \cup ToSet(z)
  <2>1. PICK xy : xy = x \o y
    OBVIOUS
  <2>2. xy \in Seq(Objects)
    BY <1>5, <2>1
  <2>3. xy \o z \in Seq(Objects) /\ ToSet(xy \o z) = ToSet(xy) \cup ToSet(z)
    BY <1>4, <2>2, ElementsOfConcat
  <2>4. QED
    BY <2>1, <2>3
<1>7. Step(o, s) = (x \o y) \o z
  BY DEF Step, x, y, z
<1>8. QED
  BY <1>2, <1>3, <1>4, <1>5, <1>6, <1>7

LEMMA StepDepends ==
    ASSUME NEW s, NEW f, NEW g, \A p \in ToSet(snaps[s].parents) : f[p] = g[p]
    PROVE  Step(f, s) = Step(g, s)
<1>1. \A i \in DOMAIN snaps[s].parents : f[snaps[s].parents[i]] = g[snaps[s].parents[i]]
  BY DEF ToSet
<1>2. Below(f, s) = Below(g, s)
  BY <1>1 DEF Below
<1>3. QED
  BY <1>2 DEF Step

(* The order is defined: if it were not for all snapshots, there would be a   *)
(* first at which it is not, and its parents are older.                       *)
LEMMA OrderExists ==
    ASSUME SnapInv
    PROVE  \E o : IsOrder(o)
<1> DEFINE Upto(n, o) == o = [s \in 1 .. n |-> Step(o, s)]
           bad == {n \in 0 .. Len(snaps) : ~ \E o : Upto(n, o)}
<1>1. Len(snaps) \in Nat
  BY DEF SnapInv
<1>2. CASE bad = {}
  <2>1. Len(snaps) \in 0 .. Len(snaps)
    BY <1>1
  <2>2. \E o : Upto(Len(snaps), o)
    BY <1>2, <2>1
  <2>3. QED
    BY <2>2 DEF IsOrder
<1>3. CASE bad # {}
  <2>1. PICK m : m = Min(bad)
    OBVIOUS
  <2>2. m \in bad /\ \A n \in bad : m <= n
    <3>1. bad \in SUBSET Nat
      BY <1>1
    <3>2. QED
      BY <1>3, <2>1, <3>1, MinOfNumbers
  <2>3. m \in 0 .. Len(snaps) /\ ~ \E o : Upto(m, o)
    BY <2>2
  <2>4. m # 0
    <3>1. Upto(0, [s \in 1 .. 0 |-> 0])
      BY DEF Step
    <3>2. QED
      BY <2>3, <3>1
  <2>5. m - 1 \in 0 .. Len(snaps) /\ m \in Nat /\ m - 1 \notin bad
    BY <1>1, <2>2, <2>3, <2>4
  <2>6. PICK f : Upto(m - 1, f)
    BY <2>5
  <2>7. PICK g : g = [s \in 1 .. m |-> IF s = m THEN Step(f, m) ELSE f[s]]
    OBVIOUS
  <2>8. ASSUME NEW s \in 1 .. m
        PROVE  g[s] = Step(g, s)
    <3>1. s \in 1 .. Len(snaps)
      BY <1>1, <2>3
    <3>2. ToSet(snaps[s].parents) \subseteq 1 .. (s - 1)
      BY <3>1, SnapType
    <3>3. \A p \in 1 .. (s - 1) : p \in 1 .. m /\ p # m
      BY <2>5, <3>1
    <3>4. \A p \in ToSet(snaps[s].parents) : f[p] = g[p]
      BY <2>7, <3>2, <3>3
    <3>5. Step(f, s) = Step(g, s)
      BY <3>4, StepDepends
    <3>6. g[s] = Step(f, s)
      <4>1. CASE s = m
        BY <2>7, <4>1
      <4>2. CASE s # m
        <5>1. s \in 1 .. (m - 1)
          BY <2>5, <4>2
        <5>2. f[s] = Step(f, s)
          BY <2>6, <5>1, Zenon
        <5>3. QED
          BY <2>7, <4>2, <5>2
      <4>3. QED
        BY <4>1, <4>2
    <3>7. QED
      BY <3>5, <3>6
  <2>9. Upto(m, g)
    <3>1. g = [s \in 1 .. m |-> g[s]]
      BY <2>7
    <3>2. QED
      BY <2>8, <3>1
  <2>10. QED
    BY <2>3, <2>9
<1>4. QED
  BY <1>2, <1>3

LEMMA CopyOrderIs ==
    ASSUME SnapInv, NEW h \in 1 .. Len(snaps)
    PROVE  \E o : IsOrder(o) /\ CopyOrder(h) = o[h]
<1>1. CopyOrder(h) = (CHOOSE o : IsOrder(o))[h]
  BY DEF CopyOrder, IsOrder, Step, Below
<1>2. IsOrder(CHOOSE o : IsOrder(o))
  BY OrderExists
<1>3. QED
  BY <1>1, <1>2

(* A transfer puts the snapshots, trees and indexes of the whole history.     *)
LEMMA OrderIsComplete ==
    ASSUME SnapInv, NEW o, IsOrder(o)
    PROVE  \A s \in 1 .. Len(snaps) : o[s] \in Seq(Objects) /\ ToSet(o[s]) = Copied(s)
<1> DEFINE Good(s) == o[s] \in Seq(Objects) /\ ToSet(o[s]) = Copied(s)
           bad == {s \in 1 .. Len(snaps) : ~ Good(s)}
<1>1. Len(snaps) \in Nat
  BY DEF SnapInv
<1> SUFFICES ASSUME bad # {}
             PROVE  FALSE
  OBVIOUS
<1>2. PICK m : m = Min(bad)
  OBVIOUS
<1>3. m \in bad /\ \A n \in bad : m <= n
  <2>1. bad \in SUBSET Nat
    BY <1>1
  <2>2. QED
    BY <1>2, <2>1, MinOfNumbers
<1>4. m \in 1 .. Len(snaps) /\ ~ Good(m)
  BY <1>3
<1>5. /\ ToSet(snaps[m].parents) \subseteq 1 .. (m - 1)
      /\ Above(m) = {m} \cup UNION {Above(p) : p \in ToSet(snaps[m].parents)}
  BY <1>4, SnapType
<1>6. \A p \in 1 .. (m - 1) : p \in 1 .. Len(snaps) /\ ~ (m <= p)
  BY <1>1, <1>4
<1>7. \A p \in ToSet(snaps[m].parents) : Good(p)
  BY <1>3, <1>5, <1>6
<1>8. o[m] = Step(o, m)
  BY <1>4 DEF IsOrder
<1>9. /\ Step(o, m) \in Seq(Objects)
      /\ ToSet(Step(o, m)) = Body(m) \cup IndexObj(m)
                               \cup UNION {ToSet(o[p]) : p \in ToSet(snaps[m].parents)}
  BY <1>4, <1>7, StepIs
<1>10. UNION {ToSet(o[p]) : p \in ToSet(snaps[m].parents)}
         = UNION {Copied(p) : p \in ToSet(snaps[m].parents)}
  BY <1>7
<1>11. Copied(m) = Body(m) \cup IndexObj(m) \cup UNION {Copied(p) : p \in ToSet(snaps[m].parents)}
  BY <1>5 DEF Copied
<1>12. Good(m)
  BY <1>8, <1>9, <1>10, <1>11
<1>13. QED
  BY <1>4, <1>12

LEMMA CopyOrderHas ==
    ASSUME SnapInv, NEW h \in 1 .. Len(snaps)
    PROVE  CopyOrder(h) \in Seq(Objects) /\ ToSet(CopyOrder(h)) = Copied(h)
BY CopyOrderIs, OrderIsComplete

(* All that a head needs arrives with a whole transfer, but for the vectors.  *)
LEMMA CopyIsEnough ==
    ASSUME SnapInv, NEW h \in 1 .. Len(snaps)
    PROVE  Needs(h) \subseteq ToSet(CopyOrder(h)) \cup LeftOut(h) /\ SnapObj(h) \in ToSet(CopyOrder(h))
<1>1. ToSet(CopyOrder(h)) = Copied(h) /\ h \in Above(h) /\ h # NoHead
  BY CopyOrderHas, SnapType DEF NoHead
<1>2. LeftOut(h) = UNION {VecObj(s) : s \in Above(h)}
  BY DEF LeftOut, Past, Above
<1>3. Needs(h) = UNION {Content(s) : s \in Above(h)}
  BY <1>1 DEF Needs
<1>4. \A s \in Above(h) : Content(s) = Body(s) \cup IndexObj(s) \cup VecObj(s)
  BY DEF Content, Search
<1>5. SnapObj(h) \in Copied(h)
  BY <1>1 DEF Copied, Body
<1>6. QED
  BY <1>1, <1>2, <1>3, <1>4, <1>5 DEF Copied

LEMMA PrefixOf ==
    ASSUME NEW order \in Seq(Objects), NEW have, NEW n \in 1 .. Arrives(order, have)
    PROVE  /\ n \in 1 .. Len(order)
           /\ ToSet(SubSeq(order, 1, n)) \subseteq ToSet(order)
           /\ n = Len(order) => ToSet(SubSeq(order, 1, n)) = ToSet(order)
<1> DEFINE ends == {i \in DOMAIN order : order[i] \notin have} \cup {Len(order) + 1}
<1>1. Len(order) \in Nat /\ DOMAIN order = 1 .. Len(order)
  OBVIOUS
<1>2. ends \in SUBSET Nat /\ Len(order) + 1 \in ends
  BY <1>1
<1>3. PICK m : m = Min(ends)
  OBVIOUS
<1>4. m \in Nat /\ m <= Len(order) + 1
  BY <1>2, <1>3, MinOfNumbers
<1>5. n \in 1 .. (m - 1)
  BY <1>3 DEF Arrives
<1>6. n \in 1 .. Len(order)
  BY <1>1, <1>4, <1>5
<1>7. /\ DOMAIN SubSeq(order, 1, n) = 1 .. n
      /\ \A i \in 1 .. n : SubSeq(order, 1, n)[i] = order[i] /\ i \in 1 .. Len(order)
  BY <1>1, <1>6
<1>8. ToSet(SubSeq(order, 1, n)) \subseteq ToSet(order)
  BY <1>1, <1>7 DEF ToSet
<1>9. n = Len(order) => ToSet(SubSeq(order, 1, n)) = ToSet(order)
  BY <1>1, <1>7 DEF ToSet
<1>10. QED
  BY <1>6, <1>8, <1>9

LEMMA PullKeeps ==
    ASSUME Inv, NEW from \in Libs, NEW l \in Libs, NEW force, Pull(from, l, force)
    PROVE  Inv'
<1>1. PICK theirs, ours : theirs = HeadAt(from, "main") /\ ours = HeadAt(l, "main")
  OBVIOUS
<1>2. PICK order, have : order = CopyOrder(theirs) /\ have = lib[from].objs \cup lib[l].objs
  OBVIOUS
<1>3. PICK n \in 1 .. Arrives(order, have) :
         LET lands == n = Len(order) /\ (force \/ ours \in Past({theirs}) \cup {NoHead})
         IN  Becomes(l, [lib[l] EXCEPT !.objs = @ \cup ToSet(SubSeq(order, 1, n)),
                                       !.heads["main"] = IF lands THEN theirs ELSE @],
                     lost[l] \cup LeftOut(theirs))
  BY <1>1, <1>2 DEF Pull
<1>4. theirs # NoHead /\ UNCHANGED <<snaps, backup, file>>
  BY <1>1 DEF Pull
<1>5. theirs \in 1 .. Len(snaps) /\ Indexed(theirs)
  BY <1>1, <1>4, LibType DEF Names
<1>6. /\ order \in Seq(Objects) /\ SnapObj(theirs) \in ToSet(order)
      /\ Needs(theirs) \subseteq ToSet(order) \cup LeftOut(theirs)
      /\ ToSet(order) = Copied(theirs)
  BY <1>2, <1>5, CopyOrderHas, CopyIsEnough DEF Inv
<1>7. PICK put : put = ToSet(SubSeq(order, 1, n))
  OBVIOUS
<1>8. put \subseteq ToSet(order) /\ (n = Len(order) => put = ToSet(order))
  BY <1>6, <1>7, PrefixOf
<1>9. PICK h : h = IF n = Len(order) /\ (force \/ ours \in Past({theirs}) \cup {NoHead})
                   THEN theirs ELSE ours
  OBVIOUS
<1>10. h = ours \/ (h = theirs /\ put = ToSet(order))
  BY <1>8, <1>9
<1>11. PICK x, left, gone :
          /\ x = [lib[l] EXCEPT !.objs = lib[l].objs \cup put, !.heads["main"] = h]
          /\ left = lost[l] \cup LeftOut(theirs) /\ gone = left \cup torn[l]
  OBVIOUS
<1>12. Becomes(l, x, left)
  <2>1. x = [lib[l] EXCEPT !.objs = @ \cup put,
                           !.heads["main"] = IF n = Len(order)
                                                /\ (force \/ ours \in Past({theirs}) \cup {NoHead})
                                             THEN theirs ELSE @]
    BY <1>1, <1>9, <1>11 DEF HeadAt
  <2>2. QED
    BY <1>3, <1>7, <1>11, <2>1
<1>13. /\ lib[l] \in Libraries /\ lib[l].objs \subseteq Objects
       /\ lib[l].heads \in [Names -> Numbers]
       /\ Len(snaps) \in Nat /\ Len(snaps) <= MaxSnaps /\ MaxSnaps \in Nat
  BY LibType, LibraryAssumption DEF Inv, SnapInv
<1>14. ToSet(order) \subseteq Objects
  BY <1>6 DEF ToSet
<1>15. h \in Numbers
  <2>1. ours \in 0 .. Len(snaps)
    BY <1>1, LibType DEF Names
  <2>2. QED
    BY <1>5, <1>10, <1>13, <2>1 DEF Numbers
<1>16. /\ x \in Libraries /\ x.objs = lib[l].objs \cup put
       /\ x.heads = [lib[l].heads EXCEPT !["main"] = h]
  BY <1>8, <1>11, <1>13, <1>14, <1>15 DEF Libraries
<1>17. x.heads["main"] = h /\ \A c \in Names : c # "main" => x.heads[c] = HeadAt(l, c)
  BY <1>13, <1>16 DEF HeadAt, Names
<1>18. ASSUME NEW c \in Names, x.heads[c] # NoHead
       PROVE  /\ x.heads[c] \in 1 .. Len(snaps) /\ SnapObj(x.heads[c]) \in x.objs
              /\ Needs(x.heads[c]) \subseteq x.objs \cup gone
              /\ c = "main" => Indexed(x.heads[c])
  <2>1. CASE x.heads[c] = HeadAt(l, c)
    <3>1. /\ HeadAt(l, c) \in 1 .. Len(snaps) /\ SnapObj(HeadAt(l, c)) \in lib[l].objs
          /\ Needs(HeadAt(l, c)) \subseteq lib[l].objs \cup Gone(l)
          /\ c = "main" => Indexed(HeadAt(l, c))
      BY <1>18, <2>1, LibType
    <3>2. QED
      BY <1>11, <1>16, <2>1, <3>1 DEF Gone
  <2>2. CASE x.heads[c] = theirs /\ put = ToSet(order)
    BY <1>5, <1>6, <1>11, <1>16, <2>2
  <2>3. QED
    BY <1>1, <1>10, <1>17, <2>1, <2>2
<1>19. LibOf(x, gone)
  BY <1>16, <1>18, ServedLib
<1>20. SearchOnly(left)
  BY <1>11, LibType, SearchIsSearched DEF SearchOnly, LeftOut
<1>21. QED
  BY <1>4, <1>11, <1>12, <1>19, <1>20, OneChanges DEF Becomes

LEMMA MergeKeeps ==
    ASSUME Inv, NEW from \in Libs, NEW l \in Libs, NEW a \in Contents, Merge(from, l, a)
    PROVE  Inv'
<1>1. PICK theirs, ours : theirs = HeadAt(from, "main") /\ ours = HeadAt(l, "main")
  OBVIOUS
<1>2. PICK n, q : n = Len(snaps) + 1 /\ q = <<ours, theirs>>
  OBVIOUS
<1>3. PICK put : put = ToSet(CopyOrder(theirs))
  OBVIOUS
<1>4. PICK objs : objs = lib[l].objs \cup put \cup {<<"snap", n>>, <<"tree", a>>}
                           \cup IF a = snaps[ours].root THEN {} ELSE {<<"index", a>>}
  OBVIOUS
<1>5. PICK left, gone : left = lost[l] \cup LeftOut(theirs) /\ gone = left \cup torn[l]
  OBVIOUS
<1>6. /\ theirs # NoHead /\ ours # NoHead /\ Len(snaps) < MaxSnaps
      /\ snaps' = Append(snaps, Snapshot(a, q, TRUE, FALSE))
      /\ backup' = backup /\ file' = file
  BY <1>1, <1>2 DEF Merge
<1>7. Becomes(l, [lib[l] EXCEPT !.objs = objs, !.heads["main"] = n], left)
  BY <1>1, <1>2, <1>3, <1>4, <1>5 DEF Merge, SnapObj
<1>8. /\ ours \in 1 .. Len(snaps) /\ Needs(ours) \subseteq lib[l].objs \cup Gone(l)
      /\ Indexed(ours) /\ <<"index", snaps[ours].root>> \in lib[l].objs \cup Gone(l)
  BY <1>1, <1>6, MainHead
<1>9. theirs \in 1 .. Len(snaps) /\ Indexed(theirs)
  BY <1>1, <1>6, MainHead
<1>10. put \subseteq Objects /\ Needs(theirs) \subseteq put \cup LeftOut(theirs)
  <2>1. CopyOrder(theirs) \in Seq(Objects)
    BY <1>9, CopyOrderHas DEF Inv
  <2>2. put \subseteq Objects
    BY <1>3, <2>1 DEF ToSet
  <2>3. QED
    BY <1>3, <1>9, <2>2, CopyIsEnough DEF Inv
<1>11. q \in Parents(Len(snaps)) /\ ToSet(q) = {ours, theirs}
  BY <1>2, <1>8, <1>9, ShortSequences DEF Parents
<1>12. objs \subseteq Objects /\ lib[l].objs \subseteq objs /\ <<"snap", n>> \in objs
  <2>1. lib[l].objs \subseteq Objects /\ Len(snaps) \in Nat /\ MaxSnaps \in Nat
    BY LibType, LibraryAssumption
  <2>2. n \in 1 .. MaxSnaps
    BY <1>2, <1>6, <2>1
  <2>3. <<"snap", n>> \in Objects
    BY <2>2 DEF Objects
  <2>4. <<"tree", a>> \in Objects /\ <<"index", a>> \in Objects
    BY ObjectsOf
  <2>5. QED
    BY <1>4, <1>10, <2>1, <2>3, <2>4
<1>13. \A p \in ToSet(q) : Needs(p) \subseteq objs \cup gone /\ Indexed(p)
  BY <1>4, <1>5, <1>8, <1>9, <1>10, <1>11 DEF Gone
<1>14. /\ <<"tree", a>> \in objs \cup gone /\ <<"index", a>> \in objs \cup gone
       /\ lost[l] \subseteq left /\ SearchOnly(left)
  BY <1>4, <1>5, <1>8, LibType, SearchIsSearched DEF Gone, SearchOnly, LeftOut
<1>15. Extends(l, "main", a, q, TRUE, FALSE, n, objs, left, gone)
  BY <1>2, <1>5, <1>6, <1>7, <1>12, <1>13, <1>14 DEF Extends
<1>16. QED
  BY <1>11, <1>15, NewHead DEF Names

(* When fsck finds no fault, what a snapshot in the store refers to is in the *)
(* store, so the whole history of a head is.                                  *)
LEMMA SoundMeansWhole ==
    ASSUME Inv, NEW x, Problems(x) = {}, NEW i \in 1 .. Len(snaps), SnapObj(i) \in x.objs
    PROVE  \A t \in Above(i) : /\ SnapObj(t) \in x.objs /\ TreeObj(t) \in x.objs
                               /\ t \notin Pruned(x) => Search(t) \subseteq x.objs
<1>1. DOMAIN snaps = 1 .. Len(snaps) /\ Len(snaps) \in Nat
  BY DEF Inv, SnapInv
<1>2. \A s \in 1 .. Len(snaps) : SnapObj(s) \in x.objs =>
         /\ TreeObj(s) \in x.objs
         /\ \A p \in ToSet(snaps[s].parents) : SnapObj(p) \in x.objs
         /\ s \notin Pruned(x) => Search(s) \subseteq x.objs
  <2> SUFFICES ASSUME NEW s \in 1 .. Len(snaps), SnapObj(s) \in x.objs
               PROVE  /\ TreeObj(s) \in x.objs
                      /\ \A p \in ToSet(snaps[s].parents) : SnapObj(p) \in x.objs
                      /\ s \notin Pruned(x) => Search(s) \subseteq x.objs
    OBVIOUS
  <2>1. ({TreeObj(s)} \cup {SnapObj(p) : p \in ToSet(snaps[s].parents)}
           \cup (IF s \in Pruned(x) THEN {} ELSE Search(s))) \ x.objs = {}
    BY <1>1 DEF Problems
  <2>2. QED
    BY <2>1
<1> DEFINE Whole(s) == \A t \in Above(s) : SnapObj(t) \in x.objs
           bad == {s \in 1 .. Len(snaps) : SnapObj(s) \in x.objs /\ ~ Whole(s)}
<1>3. bad = {}
  <2> SUFFICES ASSUME bad # {}
               PROVE  FALSE
    OBVIOUS
  <2>1. PICK m : m = Min(bad)
    OBVIOUS
  <2>2. m \in bad /\ \A s \in bad : m <= s
    <3>1. bad \in SUBSET Nat
      BY <1>1
    <3>2. QED
      BY <2>1, <3>1, MinOfNumbers
  <2>3. m \in 1 .. Len(snaps) /\ SnapObj(m) \in x.objs /\ ~ Whole(m)
    BY <2>2
  <2>4. /\ ToSet(snaps[m].parents) \subseteq 1 .. (m - 1)
        /\ Above(m) = {m} \cup UNION {Above(p) : p \in ToSet(snaps[m].parents)}
    BY <2>3, SnapType DEF Inv
  <2>5. \A p \in 1 .. (m - 1) : p \in 1 .. Len(snaps) /\ ~ (m <= p)
    BY <1>1, <2>3
  <2>6. \A p \in ToSet(snaps[m].parents) : SnapObj(p) \in x.objs /\ p \notin bad
    BY <1>2, <2>2, <2>3, <2>4, <2>5
  <2>7. \A p \in ToSet(snaps[m].parents) : Whole(p)
    BY <2>4, <2>5, <2>6
  <2>8. Whole(m)
    BY <2>3, <2>4, <2>7
  <2>9. QED
    BY <2>3, <2>8
<1>4. Whole(i)
  BY <1>3
<1>5. Above(i) \subseteq 1 .. Len(snaps)
  BY SnapType DEF Inv
<1>6. QED
  BY <1>2, <1>4, <1>5

----------------------------------------------------------------------------
(* The invariant.                                                             *)

LEMMA InvInit == Init => Inv
<1> SUFFICES ASSUME Init
             PROVE  Inv
  OBVIOUS
<1>1. snaps = <<>> /\ Len(snaps) = 0 /\ MaxSnaps \in Nat
  BY LibraryAssumption DEF Init
<1>2. SnapInv
  BY <1>1 DEF SnapInv
<1>3. ASSUME NEW l \in Libs, NEW x, NEW gone, x = lib[l]
      PROVE  LibOf(x, gone)
  <2>1. x = Fresh
    BY <1>3 DEF Init
  <2>2. \A b \in Names : x.heads[b] = NoHead
    BY <2>1, FreshIs
  <2>3. Served(x.objs, x.heads, gone)
    BY <1>1, <2>2 DEF Served, Needs, Indexed, NoHead, Names
  <2>4. QED
    BY <2>1, <2>2, <2>3, FreshIs DEF LibOf
<1>4. LibInv
  BY <1>3, FreshIs DEF Init, LibInv, SearchOnly
<1>5. BackupInv
  BY DEF Init, BackupInv
<1>6. QED
  BY <1>2, <1>4, <1>5 DEF Inv

LEMMA InvStep == Inv /\ [Next]_vars => Inv'
<1> SUFFICES ASSUME Inv, [Next]_vars
             PROVE  Inv'
  OBVIOUS
<1>1. ASSUME NEW l \in Libs, NEW a \in Contents, Commit(l, a)
      PROVE  Inv'
  BY <1>1, CommitKeeps
<1>2. ASSUME NEW l \in Libs, NEW k, Gc(l, k)
      PROVE  Inv'
  BY <1>2, GcKeeps
<1>3. ASSUME NEW l \in Libs, NEW force, NEW n, Restore(l, force, n)
      PROVE  Inv'
  BY <1>3, RestoreKeeps
<1>4. ASSUME NEW l \in Home, NEW some, RestoreStop(l, some)
      PROVE  Inv'
  BY <1>4, RestoreStopKeeps, LibraryAssumption
<1>5. ASSUME NEW l \in Home,
             \/ \E a \in Contents : Stage(l, a)
             \/ Rebuild(l) \/ Embed(l) \/ LayStage(l) \/ DropStage(l) \/ Wipe(l)
             \/ \E s \in DOMAIN snaps : Reset(l, s)
             \/ BackupObjects(l)
      PROVE  Inv'
  <2>1. l \in Libs
    BY LibraryAssumption
  <2>2. CASE \E a \in Contents : Stage(l, a)
    BY <2>1, <2>2, StageKeeps
  <2>3. CASE Rebuild(l)
    BY <2>1, <2>3, RebuildKeeps
  <2>4. CASE Embed(l)
    BY <2>1, <2>4, EmbedKeeps
  <2>5. CASE LayStage(l)
    BY <2>1, <2>5, LayStageKeeps
  <2>6. CASE DropStage(l)
    BY <2>1, <2>6, DropStageKeeps
  <2>7. CASE Wipe(l)
    BY <2>1, <2>7, WipeKeeps
  <2>8. CASE \E s \in DOMAIN snaps : Reset(l, s)
    BY <2>1, <2>8, ResetKeeps
  <2>9. CASE BackupObjects(l)
    BY <2>1, <2>9, BackupObjectsKeeps
  <2>10. QED
    BY <1>5, <2>2, <2>3, <2>4, <2>5, <2>6, <2>7, <2>8, <2>9
<1>6. ASSUME NEW from \in Libs, NEW l \in Libs, NEW force, Pull(from, l, force)
      PROVE  Inv'
  BY <1>6, PullKeeps
<1>7. ASSUME NEW from \in Libs, NEW l \in Libs, NEW a \in Contents, Merge(from, l, a)
      PROVE  Inv'
  BY <1>7, MergeKeeps
<1>8. CASE BackupRows
  BY <1>8, BackupRowsKeeps
<1>9. CASE UNCHANGED vars
  <2>1. UNCHANGED <<snaps, lib, lost, torn, backup, file>>
    BY <1>9 DEF vars
  <2>2. SnapsMove
    BY <2>1 DEF SnapsMove, Inv
  <2>3. BackupInv'
    BY <2>1, <2>2, BackupsStay
  <2>4. LibInv'
    BY <2>1, <2>2, LibInvStays
  <2>5. QED
    BY <2>2, <2>3, <2>4, MovesKeep DEF Inv
<1>10. QED
  BY <1>1, <1>2, <1>3, <1>4, <1>5, <1>6, <1>7, <1>8, <1>9 DEF Next

LEMMA Invariance == Spec => []Inv
BY InvInit, InvStep, PTL DEF Spec

----------------------------------------------------------------------------
(* The theorems.                                                              *)

(* Libraries hold only objects that were made, and no branch is ever without  *)
(* the object of its head, whichever copy or restore dies on the way.         *)
THEOREM HeadsHaveObjects == Spec => []TypeOK
<1>1. Inv => TypeOK
  <2> SUFFICES ASSUME Inv, NEW l \in Libs
               PROVE  /\ lib[l].objs \subseteq Objects
                      /\ \A s \in Heads(lib[l].heads) : SnapObj(s) \in lib[l].objs
    BY DEF TypeOK
  <2>1. \A s \in Heads(lib[l].heads) : s # NoHead /\ \E b \in Names : s = HeadAt(l, b)
    BY LibType DEF Heads, Range, HeadAt
  <2>2. QED
    BY <2>1, LibType
<1>2. QED
  BY <1>1, Invariance, PTL

(* Whatever commands, copies and restores have run or died, no history lacks  *)
(* a snapshot or a tree, but in a library restored from a torn backup, and    *)
(* then only what came between the two reads of the backup; and no index or   *)
(* vector but these and what keep-last let go or a pull left out.             *)
THEOREM HistoriesLackNothingElse == Spec => []NothingElseIsMissing
<1>1. ASSUME Inv, NEW l \in Libs, NEW s \in Past(Heads(lib[l].heads)),
             NEW o \in Content(s), o \notin lib[l].objs
      PROVE  o \in lost[l] \cup torn[l]
  <2>1. PICK b \in Names : /\ HeadAt(l, b) # NoHead /\ HeadAt(l, b) \in 1 .. Len(snaps)
                           /\ s \in Above(HeadAt(l, b))
    BY <1>1, PastType
  <2>2. o \in Needs(HeadAt(l, b))
    BY <1>1, <2>1 DEF Needs
  <2>3. QED
    BY <1>1, <2>2, LibType DEF Gone
<1>2. ASSUME Inv, NEW l \in Libs, NEW s, NEW o \in Body(s)
      PROVE  o \notin lost[l]
  <2>1. o[1] \in {"snap", "tree"}
    BY <1>2 DEF Body, SnapObj, TreeObj
  <2>2. QED
    BY <1>2, <2>1, LibType DEF SearchOnly
<1>3. ASSUME Inv, NEW l \in Libs
      PROVE  LET past == Past(Heads(lib[l].heads))
             IN  /\ (UNION {Body(s) : s \in past}) \ lib[l].objs \subseteq torn[l]
                 /\ (UNION {Search(s) : s \in past}) \ lib[l].objs \subseteq lost[l] \cup torn[l]
  BY <1>1, <1>2, <1>3 DEF Content
<1>4. Inv => NothingElseIsMissing
  BY <1>3 DEF NothingElseIsMissing
<1>5. QED
  BY <1>4, Invariance, PTL

(* A collection that deletes leaves what the heads need and no more, but for  *)
(* indexes and vectors beyond the watermark of every branch; and fsck, which  *)
(* decides by another walk what must be there, agrees.                        *)
THEOREM CollectionsAreExact == Spec => GcIsExact
<1> DEFINE Exact ==
       \A l \in Libs :
         lib'[l].objs # lib[l].objs /\ lib'[l].objs \subseteq lib[l].objs
           /\ (\E k \in Keeps : Gc(l, k)) =>
            LET x == lib'[l]
            IN  /\ x.objs \subseteq UNION {Body(s) \cup Search(s) : s \in Past(Heads(x.heads))}
                /\ UNION {Search(s) : s \in Recent(Heads(x.heads), x.keep)} \subseteq x.objs
                /\ Problems(x) = {}
<1>1. Inv /\ [Next]_vars => Exact
  <2> SUFFICES ASSUME Inv, NEW l \in Libs, lib'[l].objs # lib[l].objs, NEW k \in Keeps, Gc(l, k),
                      NEW x, x = lib'[l]
               PROVE  /\ x.objs \subseteq UNION {Body(s) \cup Search(s) : s \in Past(Heads(x.heads))}
                      /\ UNION {Search(s) : s \in Recent(Heads(x.heads), x.keep)} \subseteq x.objs
                      /\ Problems(x) = {}
    OBVIOUS
  <2>1. QED
    BY GcStepIsExact
<1>2. QED
  BY <1>1, Invariance, PTL DEF Spec, GcIsExact

(* A library in which fsck finds no fault can be collected: the mark reaches  *)
(* nothing that is missing.  If no index was let go, a pull from it finds all *)
(* it asks for.                                                               *)
THEOREM FsckTellsTheTruth == Spec => []FsckIsSound
<1>1. Inv => FsckIsSound
  <2> SUFFICES ASSUME Inv, NEW l \in Libs, Problems(lib[l]) = {}
               PROVE  /\ ~ MarkFails(lib[l])
                      /\ lib[l].keep = 0 /\ HeadAt(l, "main") # NoHead =>
                            ToSet(CopyOrder(HeadAt(l, "main"))) \subseteq lib[l].objs
    BY DEF FsckIsSound
  <2>1. PICK x : x = lib[l]
    OBVIOUS
  <2>2. \A b \in Names : HeadAt(l, b) # NoHead =>
           \A t \in Above(HeadAt(l, b)) :
              /\ SnapObj(t) \in x.objs /\ TreeObj(t) \in x.objs
              /\ t \notin Pruned(x) => Search(t) \subseteq x.objs
    <3> SUFFICES ASSUME NEW b \in Names, HeadAt(l, b) # NoHead
                 PROVE  \A t \in Above(HeadAt(l, b)) :
                           /\ SnapObj(t) \in x.objs /\ TreeObj(t) \in x.objs
                           /\ t \notin Pruned(x) => Search(t) \subseteq x.objs
      OBVIOUS
    <3>1. PICK h : h = HeadAt(l, b)
      OBVIOUS
    <3>2. h \in 1 .. Len(snaps) /\ SnapObj(h) \in x.objs
      BY <2>1, <3>1, LibType
    <3>3. Problems(x) = {}
      BY <2>1
    <3>4. \A t \in Above(h) : /\ SnapObj(t) \in x.objs /\ TreeObj(t) \in x.objs
                              /\ t \notin Pruned(x) => Search(t) \subseteq x.objs
      BY <3>2, <3>3, SoundMeansWhole
    <3>5. QED
      BY <3>1, <3>4
  <2>3. Marked(x) \subseteq x.objs
    <3> SUFFICES ASSUME NEW s \in Past(Heads(x.heads))
                 PROVE  Body(s) \cup (IF s \in Pruned(x) THEN {} ELSE Search(s)) \subseteq x.objs
      BY DEF Marked
    <3>1. PICK b \in Names : HeadAt(l, b) # NoHead /\ s \in Above(HeadAt(l, b))
      BY <2>1, PastType
    <3>2. QED
      BY <2>2, <3>1 DEF Body
  <2>4. ASSUME x.keep = 0, HeadAt(l, "main") # NoHead
        PROVE  ToSet(CopyOrder(HeadAt(l, "main"))) \subseteq x.objs
    <3>1. PICK h : h = HeadAt(l, "main")
      OBVIOUS
    <3>2. h \in 1 .. Len(snaps)
      BY <2>4, <3>1, LibType DEF Names
    <3>3. ToSet(CopyOrder(h)) = UNION {Body(t) \cup IndexObj(t) : t \in Above(h)}
      BY <3>2, CopyOrderHas DEF Inv, Copied
    <3>4. Pruned(x) = {}
      BY <2>4 DEF Pruned
    <3>5. \A t \in Above(h) : /\ SnapObj(t) \in x.objs /\ TreeObj(t) \in x.objs
                              /\ Search(t) \subseteq x.objs
      BY <2>2, <2>4, <3>1, <3>4 DEF Names
    <3>6. QED
      BY <3>1, <3>3, <3>5 DEF Body, Search
  <2>5. QED
    BY <2>1, <2>3, <2>4 DEF MarkFails
<1>2. QED
  BY <1>1, Invariance, PTL
=============================================================================
