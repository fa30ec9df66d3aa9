-------------------------- MODULE Workspace_proofs --------------------------
(***************************************************************************)
(* Theorems about Workspace, for any paths, texts and batches and trees of *)
(* any depth: what MCWorkspace checks on three paths.  They rest on what   *)
(* NoteTrees_proofs says of edits, imports and merges.                     *)
(***************************************************************************)
EXTENDS Workspace, NoteTrees_proofs

(* The trees of the library: nothing stands where no command puts it.         *)
HeldAt(t) == \A q \in Ways \ {<<>>} : /\ EntryAt(t, q) # Refused => q \in AllPaths
                                      /\ LeafEntry(t, q) # Refused => q \in Paths

Held == {t \in TreesOf(Notes) : HeldAt(t)}

Typed == /\ hist \in Seq(Held) /\ Len(hist) <= MaxCommits
         /\ theirs \in Held /\ base \in Held
         /\ index \in Indexes \cup {Refused} /\ (index = Refused <=> hist = <<>>)
         /\ files \in UNION {[d -> Texts] : d \in SUBSET Paths}
         /\ ahead \in BOOLEAN /\ edits \in 0 .. MaxTheirs

-----------------------------------------------------------------------------
(* Notes and paths.                                                           *)

LEMMA NotesAre == TreeNotes(Notes)
<1>1. ASSUME NEW a \in Notes PROVE ~IsDir(a)
  <2>1. PICK x \in Texts, s \in 1 .. MaxCommits + 1 : a = [text |-> x, at |-> s]
    BY DEF Notes, Note
  <2>2. "text" \in DOMAIN a
    BY <2>1
  <2>3. QED
    BY <2>2, NamesAssumption DEF IsDir
<1>2. QED
  BY <1>1, SentinelAssumption, RefusedAssumption DEF TreeNotes

LEMMA PathsAre ==
    /\ \A p \in Paths : p \in Ways /\ p # <<>> /\ p \in AllPaths
    /\ \A q \in AllPaths : q \in Ways /\ q # <<>>
    /\ \A p \in Paths, q \in Ways : q # <<>> /\ Starts(q, p) => q \in AllPaths
    /\ \A p \in AllPaths, q \in Ways : q # <<>> /\ Starts(q, p) => q \in AllPaths
<1>1. \A p \in Paths : p \in Ways /\ p # <<>> /\ p \in AllPaths
  BY PathsAssumption DEF AllPaths
<1>2. ASSUME NEW p \in Paths, NEW i \in 1 .. Len(p) - 1
      PROVE  Pre(p, i) \in Ways /\ Pre(p, i) # <<>> /\ Pre(p, i) \in AllPaths
  <2>1. Len(p) \in 0 .. Depth /\ i \in 0 .. Len(p) /\ i # 0
    BY <1>1, WaysAre, DepthAssumption
  <2>2. Pre(p, i) \in Ways /\ Pre(p, i) # <<>>
    BY <1>1, <2>1, PreWays
  <2>3. QED
    BY <2>2 DEF AllPaths, Pre
<1>3. ASSUME NEW q \in AllPaths, q \notin Paths
      PROVE  \E p \in Paths : \E i \in 1 .. Len(p) - 1 : q = Pre(p, i)
  BY <1>3 DEF AllPaths, Pre
<1>4. ASSUME NEW p \in Paths, NEW q \in Ways, q # <<>>, Starts(q, p) PROVE q \in AllPaths
  <2>1. q = Pre(p, Len(q)) /\ Len(q) \in 0 .. Len(p) /\ Len(q) # 0 /\ (Len(q) = Len(p) => q = p)
    BY <1>1, <1>4, AboveIs, WaysAre, EmptySeq
  <2>2. CASE Len(q) = Len(p)
    BY <1>1, <2>1, <2>2
  <2>3. CASE Len(q) # Len(p)
    <3>1. Len(p) \in Nat /\ Len(q) \in 1 .. Len(p) - 1
      BY <1>1, <2>1, <2>3, WaysAre
    <3>2. QED
      BY <1>2, <2>1, <3>1
  <2>4. QED
    BY <2>2, <2>3
<1>5. ASSUME NEW q \in AllPaths
      PROVE  q \in Ways /\ q # <<>> /\ \E p \in Paths : Starts(q, p)
  <2>1. CASE q \in Paths
    BY <1>1, <2>1, AboveIs
  <2>2. CASE q \notin Paths
    <3>0. PICK p \in Paths : \E i \in 1 .. Len(p) - 1 : q = Pre(p, i)
      BY <1>3, <2>2
    <3>1. PICK i \in 1 .. Len(p) - 1 : q = Pre(p, i)
      BY <3>0
    <3>2. Len(p) \in 0 .. Depth /\ i \in 0 .. Len(p) /\ i <= Len(p)
      BY <1>1, WaysAre, DepthAssumption
    <3>3. Len(q) = i
      BY <1>1, <3>1, <3>2, PreWays
    <3>4. QED
      BY <1>2, <3>1, <3>2, <3>3 DEF Starts
  <2>3. QED
    BY <2>1, <2>2
<1>6. ASSUME NEW p \in AllPaths, NEW q \in Ways, q # <<>>, Starts(q, p) PROVE q \in AllPaths
  <2>1. PICK x \in Paths : Starts(p, x)
    BY <1>5
  <2>2. Starts(q, x)
    BY <1>1, <1>5, <1>6, <2>1, StartsTrans
  <2>3. QED
    BY <1>4, <1>6, <2>2
<1>7. QED
  BY <1>1, <1>4, <1>5, <1>6

-----------------------------------------------------------------------------
(* The trees commands make.                                                   *)

LEMMA HeldHas ==
    \A t \in Held : /\ t \in TreesOf(Notes) /\ t # Refused
                    /\ \A q \in Ways \ {<<>>} : EntryAt(t, q) # Refused =>
                          q \in AllPaths /\ (IsTree(EntryAt(t, q)) \/ q \in Paths)
<1>1. ASSUME NEW t \in Held, NEW q \in Ways \ {<<>>}, EntryAt(t, q) # Refused
      PROVE  q \in AllPaths /\ (IsTree(EntryAt(t, q)) \/ q \in Paths)
  <2>1. t \in TreesOf(Notes) /\ HeldAt(t)
    BY DEF Held
  <2>2. ~IsTree(EntryAt(t, q)) => LeafEntry(t, q) # Refused
    BY <1>1, <2>1, NotesAre, EntryIs
  <2>3. QED
    BY <1>1, <2>1, <2>2 DEF HeldAt
<1>2. \A t \in Held : t \in TreesOf(Notes) /\ t # Refused
  BY NotesAre, DepthAssumption DEF Held, TreesOf, TreeNotes
<1>3. QED
  BY <1>1, <1>2

LEMMA HeldBy ==
    ASSUME NEW r \in TreesOf(Notes),
           \A q \in Ways \ {<<>>} : EntryAt(r, q) # Refused =>
              q \in AllPaths /\ (IsTree(EntryAt(r, q)) \/ q \in Paths)
    PROVE  r \in Held
<1>1. ASSUME NEW q \in Ways \ {<<>>}, LeafEntry(r, q) # Refused PROVE q \in Paths
  <2>1. LeafEntry(r, q) = IF IsTree(EntryAt(r, q)) THEN Refused ELSE EntryAt(r, q)
    BY NotesAre, EntryIs
  <2>2. QED
    BY <1>1, <2>1
<1>2. QED
  BY <1>1 DEF Held, HeldAt

LEMMA EmptyHeld == EmptyTree \in Held
<1>1. EmptyTree \in TreesOf(Notes) /\ \A q \in Ways : q # <<>> => EntryAt(EmptyTree, q) = Refused
  BY NotesAre, EmptyHas
<1>2. QED
  BY <1>1, HeldBy

(* An edit that leaves e at p.                                                *)
LEMMA HeldChanged ==
    ASSUME NEW t \in Held, NEW r \in TreesOf(Notes), NEW p \in AllPaths, NEW e,
           Changed(t, r, p, e), p \in Paths \/ e = Refused
    PROVE  r \in Held
<1>1. ASSUME NEW q \in Ways \ {<<>>}, EntryAt(r, q) # Refused
      PROVE  q \in AllPaths /\ (IsTree(EntryAt(r, q)) \/ q \in Paths)
  <2>1. p \in Ways /\ p # <<>>
    BY PathsAre
  <2>2. /\ q = p => EntryAt(r, q) = e
        /\ Above(q, p) => IsTree(EntryAt(r, q))
        /\ Above(p, q) => EntryAt(r, q) = Refused
        /\ ~Starts(q, p) /\ ~Starts(p, q) => EntryAt(r, q) = EntryAt(t, q)
    BY DEF Changed
  <2>3. CASE q = p
    BY <1>1, <2>2, <2>3
  <2>4. CASE q # p /\ Starts(q, p)
    <3>1. Above(q, p)
      BY <2>1, <2>4, AboveIs
    <3>2. QED
      BY <2>1, <2>2, <2>4, <3>1, PathsAre
  <2>5. CASE q # p /\ ~Starts(q, p)
    <3>1. ~Starts(p, q)
      BY <1>1, <2>1, <2>2, <2>5, AboveIs
    <3>2. QED
      BY <1>1, <2>2, <2>5, <3>1, HeldHas
  <2>6. QED
    BY <2>3, <2>4, <2>5
<1>2. QED
  BY <1>1, HeldBy

LEMMA SetNoteIs ==
    ASSUME NEW t \in Held, NEW p \in Paths, NEW a \in Notes, NEW r, r = SetNote(t, p, a), r # Refused
    PROVE  /\ r \in Held /\ Changed(t, r, p, a) /\ ~IsTree(EntryAt(t, p))
           /\ \A q \in Ways \ {<<>>} : LeafEntry(r, q) = IF q = p THEN a ELSE LeafEntry(t, q)
<1>1. p \in Ways /\ p # <<>> /\ p \in AllPaths /\ t \in TreesOf(Notes)
  BY PathsAre, HeldHas
<1>2. r = MutateAt(t, Front(p), PutNote(Last(p), a))
  BY DEF SetNote, DirPart, LeafName
<1>3. /\ r \in TreesOf(Notes) /\ Changed(t, r, p, a) /\ ~IsTree(EntryAt(t, p))
      /\ \A q \in Ways \ {<<>>} : LeafEntry(r, q) = IF q = p THEN a ELSE LeafEntry(t, q)
  BY <1>1, <1>2, NotesAre, PutIs
<1>4. QED
  BY <1>1, <1>3, HeldChanged

LEMMA RemoveNoteIs ==
    ASSUME NEW t \in Held, NEW p \in Paths, NEW r, r = RemoveNote(t, p), r # Refused
    PROVE  r \in Held /\ Changed(t, r, p, Refused) /\ LeafEntry(t, p) # Refused
<1>1. p \in Ways /\ p # <<>> /\ p \in AllPaths /\ t \in TreesOf(Notes)
  BY PathsAre, HeldHas
<1>2. PICK e \in {DropNote(Last(p)), ForgetNote(Last(p))} : e = DropNote(Last(p)) /\ e.op = "remove"
  BY DEF DropNote
<1>3. r = MutateAt(t, Front(p), e)
  BY <1>2 DEF RemoveNote, DirPart, LeafName
<1>4. r \in TreesOf(Notes) /\ Changed(t, r, p, Refused) /\ LeafEntry(t, p) # Refused
  BY <1>1, <1>2, <1>3, NotesAre, DropIs
<1>5. QED
  BY <1>1, <1>4, HeldChanged

LEMMA RemoveDirHeld ==
    ASSUME NEW t \in Held, NEW p \in Paths, NEW all, NEW r, r = RemoveDir(t, p, all), r # Refused
    PROVE  r \in Held /\ Changed(t, r, p, Refused) /\ IsTree(EntryAt(t, p))
<1>1. p \in Ways /\ p # <<>> /\ p \in AllPaths /\ t \in TreesOf(Notes)
  BY PathsAre, HeldHas
<1>2. r \in TreesOf(Notes) /\ Changed(t, r, p, Refused) /\ IsTree(EntryAt(t, p))
  BY <1>1, NotesAre, RemoveDirIs
<1>3. QED
  BY <1>1, <1>2, HeldChanged

LEMMA MkdirHeld ==
    ASSUME NEW t \in Held, NEW p \in Paths, ~DirExists(t, p), NEW r, r = Mkdir(t, p), r # Refused
    PROVE  /\ r \in Held
           /\ \A q \in Ways \ {<<>>} : Starts(q, p) =>
                 IsTree(EntryAt(r, q)) /\ (EntryAt(t, q) = Refused \/ IsTree(EntryAt(t, q)))
           /\ \A q \in Ways \ {<<>>} : ~Starts(q, p) => EntryAt(r, q) = EntryAt(t, q)
<1>1. p \in Ways /\ t \in TreesOf(Notes)
  BY PathsAre, HeldHas
<1>2. /\ r \in TreesOf(Notes)
      /\ \A q \in Ways \ {<<>>} : Starts(q, p) =>
            IsTree(EntryAt(r, q)) /\ (EntryAt(t, q) = Refused \/ IsTree(EntryAt(t, q)))
      /\ \A q \in Ways \ {<<>>} : ~Starts(q, p) => EntryAt(r, q) = EntryAt(t, q)
  BY <1>1, NotesAre, MkdirIs
<1>3. ASSUME NEW q \in Ways \ {<<>>}, EntryAt(r, q) # Refused
      PROVE  q \in AllPaths /\ (IsTree(EntryAt(r, q)) \/ q \in Paths)
  BY <1>2, <1>3, HeldHas, PathsAre
<1>4. QED
  BY <1>2, <1>3, HeldBy

-----------------------------------------------------------------------------
(* Imports.                                                                   *)

LEMMA SetToSeqIs ==
    ASSUME NEW S, IsFiniteSet(S), NEW s, s = SetToSeq(S)
    PROVE  /\ Len(s) \in Nat /\ s \in Seq(S)
           /\ \A i \in 1 .. Len(s) : s[i] \in S
           /\ \A x \in S : \E i \in 1 .. Len(s) : s[i] = x
<1>1. PICK n \in Nat : ExistsBijection(1 .. n, S)
  BY FS_NatBijection
<1>2. Cardinality(S) = n
  BY <1>1, FS_CountingElements
<1>3. \E f \in [1 .. n -> S] : IsInjective(f)
  BY <1>1 DEF ExistsBijection, Bijection, Injection
<1>4. s \in [1 .. n -> S] /\ IsInjective(s)
  BY <1>2, <1>3 DEF SetToSeq
<1>5. s \in SetToSeqs(S)
  BY <1>2, <1>4 DEF SetToSeqs, IsInjective
<1>6. QED
  BY <1>5, SeqsOf

PathItems(items) == /\ Len(items) \in Nat
                    /\ \A i \in 1 .. Len(items) : items[i][1] \in Paths /\ items[i][2] \in Notes

LEMMA BulkIs ==
    ASSUME NEW t \in Held, NEW items, PathItems(items), NEW r, r = BulkImport(t, items), r # Refused
    PROVE  /\ r \in Held
           /\ \A q \in Ways \ {<<>>} : Through(items, q) =>
                 IsTree(EntryAt(r, q)) /\ (EntryAt(t, q) = Refused \/ IsTree(EntryAt(t, q)))
           /\ \A j \in 1 .. Len(items) : LastFor(items, Len(items), j) /\ ~Through(items, items[j][1]) =>
                 EntryAt(r, items[j][1]) = items[j][2]
           /\ \A j \in 1 .. Len(items) : ~IsTree(EntryAt(t, items[j][1]))
           /\ \A q \in Ways \ {<<>>} : ~Through(items, q) /\ (\A j \in 1 .. Len(items) : items[j][1] # q) =>
                 EntryAt(r, q) = EntryAt(t, q)
<1>1. Items(Notes, items) /\ t \in TreesOf(Notes)
  BY PathsAre, HeldHas DEF Items, PathItems
<1>2. /\ r \in TreesOf(Notes)
      /\ \A q \in Ways : q # <<>> /\ Through(items, q) =>
            IsTree(EntryAt(r, q)) /\ (EntryAt(t, q) = Refused \/ IsTree(EntryAt(t, q)))
      /\ \A j \in 1 .. Len(items) : LastFor(items, Len(items), j) /\ ~Through(items, items[j][1]) =>
            EntryAt(r, items[j][1]) = items[j][2]
      /\ \A j \in 1 .. Len(items) : ~IsTree(EntryAt(t, items[j][1]))
      /\ \A q \in Ways : q # <<>> /\ ~Through(items, q) /\ (\A j \in 1 .. Len(items) : items[j][1] # q) =>
            EntryAt(r, q) = EntryAt(t, q)
  BY <1>1, NotesAre, ImportIs
<1>3. ASSUME NEW q \in Ways \ {<<>>}, EntryAt(r, q) # Refused
      PROVE  q \in AllPaths /\ (IsTree(EntryAt(r, q)) \/ q \in Paths)
  <2>1. CASE Through(items, q)
    <3>1. PICK i \in 1 .. Len(items) : Above(q, items[i][1])
      BY <2>1 DEF Through
    <3>2. items[i][1] \in Paths /\ items[i][1] \in Ways
      BY <3>1, PathsAre DEF PathItems
    <3>3. Starts(q, items[i][1])
      BY <3>1, <3>2, AboveIs
    <3>4. QED
      BY <1>2, <2>1, <3>2, <3>3, PathsAre
  <2>2. CASE ~Through(items, q) /\ \E j \in 1 .. Len(items) : items[j][1] = q
    BY <2>2, PathsAre DEF PathItems
  <2>3. CASE ~Through(items, q) /\ \A j \in 1 .. Len(items) : items[j][1] # q
    BY <1>2, <1>3, <2>3, HeldHas
  <2>4. QED
    BY <2>1, <2>2, <2>3
<1>4. r \in Held
  BY <1>2, <1>3, HeldBy
<1>5. QED
  BY <1>2, <1>4

LEMMA NowIs == Typed => Now \in 1 .. MaxCommits + 1 /\ Len(hist) \in Nat
<1>1. ASSUME Typed PROVE Now \in 1 .. MaxCommits + 1 /\ Len(hist) \in Nat
  <2>1. PICK l : l = Len(hist) /\ l \in Nat /\ l <= MaxCommits
    BY <1>1, LenProperties DEF Typed
  <2>2. QED
    BY <2>1, LimitsAssumption DEF Now
<1>2. QED
  BY <1>1

LEMMA BatchItems ==
    ASSUME Typed, NEW items \in Batches, NEW s, s = BulkItems(items)
    PROVE  /\ PathItems(s) /\ Len(s) = Len(items) /\ DOMAIN items = 1 .. Len(items)
           /\ \A i \in 1 .. Len(items) : /\ items[i] = <<items[i][1], items[i][2]>>
                                         /\ items[i][1] \in Paths
                                         /\ s[i][1] = items[i][1] /\ s[i][2] = Note(items[i][2], Now)
<1>1. items \in Seq(Paths \X Texts) /\ Len(items) \in Nat /\ DOMAIN items = 1 .. Len(items)
  BY BatchesAssumption, LenProperties
<1>2. s = [i \in 1 .. Len(items) |-> <<items[i][1], Note(items[i][2], Now)>>]
  BY <1>1 DEF BulkItems
<1>3. Len(s) = Len(items)
  BY <1>1, <1>2
<1>4. ASSUME NEW i \in 1 .. Len(items)
      PROVE  /\ items[i] = <<items[i][1], items[i][2]>> /\ items[i][1] \in Paths /\ items[i][2] \in Texts
             /\ s[i][1] = items[i][1] /\ s[i][2] = Note(items[i][2], Now)
  <2>1. items[i] \in Paths \X Texts
    BY <1>1, <1>4, ElementOfSeq
  <2>2. QED
    BY <1>2, <2>1
<1>5. ASSUME NEW x \in Texts PROVE Note(x, Now) \in Notes
  BY <1>5, NowIs DEF Notes
<1>6. QED
  BY <1>1, <1>3, <1>4, <1>5 DEF PathItems

LEMMA MaxIs ==
    ASSUME NEW n \in Nat, NEW T \in SUBSET (1 .. n), T # {}
    PROVE  Max(T) \in T /\ \A y \in T : Max(T) >= y
<1> DEFINE Rest == {n - x : x \in T}
<1>1. Rest \in SUBSET Nat /\ Rest # {}
  <2>1. \A x \in T : x \in 1 .. n /\ n - x \in Nat
    OBVIOUS
  <2>2. QED
    BY <2>1
<1>2. PICK m \in Rest : \A y \in Rest : m <= y
  BY <1>1, LeastNumber
<1>3. PICK x \in T : m = n - x
  BY <1>2
<1>4. ASSUME NEW y \in T PROVE x >= y
  <2>1. m <= n - y
    BY <1>2
  <2>2. QED
    BY <1>3, <2>1
<1>5. \E z \in T : \A y \in T : z >= y
  BY <1>4
<1>6. QED
  BY <1>5 DEF Max

LEMMA NoteIs ==
    \A a \in Notes : a.text \in Texts /\ a.at \in 1 .. MaxCommits + 1 /\ a = Note(a.text, a.at)
BY DEF Notes, Note

LEMMA LeafHeld ==
    ASSUME NEW t \in Held, NEW q \in Ways \ {<<>>}
    PROVE  LeafEntry(t, q) \in Notes \cup {Refused} /\ (LeafEntry(t, q) # Refused => q \in Paths)
<1>1. t \in TreesOf(Notes) /\ HeldAt(t)
  BY DEF Held
<1>2. QED
  BY <1>1, NotesAre, LeafType DEF HeldAt

LEMMA HistIs ==
    ASSUME Typed
    PROVE  /\ Len(hist) \in Nat /\ DOMAIN hist = 1 .. Len(hist) /\ Tree \in Held
           /\ \A i \in DOMAIN hist : hist[i] \in Held
           /\ hist # <<>> => Len(hist) \in DOMAIN hist /\ Tree = hist[Len(hist)]
<1>1. hist \in Seq(Held) /\ Len(hist) \in Nat /\ DOMAIN hist = 1 .. Len(hist)
  BY LenProperties DEF Typed
<1>2. \A i \in DOMAIN hist : hist[i] \in Held
  BY <1>1, ElementOfSeq
<1>3. hist # <<>> => Len(hist) \in DOMAIN hist /\ Last(hist) = hist[Len(hist)]
  <2>1. hist # <<>> => Len(hist) # 0
    BY <1>1, EmptySeq
  <2>2. QED
    BY <1>1, <2>1 DEF Last
<1>4. QED
  BY <1>1, <1>2, <1>3, EmptyHeld DEF Tree

LEMMA InheritTimeIs ==
    ASSUME Typed, NEW p \in Paths, NEW x \in Texts, NEW s, s = InheritTime(p, x)
    PROVE  /\ s \in 1 .. MaxCommits + 1
           /\ (\E i \in DOMAIN hist : LeafEntry(hist[i], p) # Refused /\ LeafEntry(hist[i], p).text = x)
                 => \E i \in DOMAIN hist : LeafEntry(hist[i], p) = Note(x, s)
<1>1. PICK found : found = {i \in DOMAIN hist : LET e == LeafEntry(hist[i], p) IN e # Refused /\ e.text = x}
  OBVIOUS
<1>2. s = IF found = {} THEN Now ELSE LeafEntry(hist[Max(found)], p).at
  BY <1>1 DEF InheritTime
<1>3. CASE found = {}
  BY <1>1, <1>2, <1>3, NowIs
<1>4. CASE found # {}
  <2>1. found \in SUBSET (1 .. Len(hist)) /\ Len(hist) \in Nat
    BY <1>1, HistIs
  <2>2. PICK i : i = Max(found) /\ i \in found
    BY <1>4, <2>1, MaxIs
  <2>3. PICK a : a = LeafEntry(hist[i], p) /\ a # Refused /\ a.text = x /\ i \in DOMAIN hist
    BY <1>1, <2>2
  <2>4. a \in Notes
    <3>1. hist[i] \in Held
      BY <2>3, HistIs
    <3>2. p \in Ways \ {<<>>}
      BY PathsAre
    <3>3. QED
      BY <2>3, <3>1, <3>2, LeafHeld
  <2>5. s = a.at
    BY <1>2, <1>4, <2>2, <2>3
  <2>6. a = Note(x, s) /\ s \in 1 .. MaxCommits + 1
    BY <2>3, <2>4, <2>5, NoteIs
  <2>7. QED
    BY <2>3, <2>6
<1>5. QED
  BY <1>3, <1>4

(* What ImportMd writes: for each file that differs from the note it stands   *)
(* for, a note with its text and the inherited time.                          *)
Differs(p) == p \in DOMAIN files /\ (LeafEntry(Tree, p) = Refused \/ LeafEntry(Tree, p).text # MdOf[files[p]])

Written(p) == Note(MdOf[files[p]], InheritTime(p, MdOf[files[p]]))

LEMMA FilesAre ==
    ASSUME Typed
    PROVE  /\ DOMAIN files \subseteq Paths /\ IsFiniteSet(DOMAIN files)
           /\ Importable => \A p \in DOMAIN files : MdOf[files[p]] \in Texts
<1>1. PICK d \in SUBSET Paths : files \in [d -> Texts]
  BY DEF Typed
<1>2. IsFiniteSet(d)
  BY PathsAssumption, FS_Subset
<1>3. QED
  BY <1>1, <1>2, MdAssumption DEF Importable

LEMMA ImportItemsAre ==
    ASSUME Typed, Importable, NEW s, s = ImportItems
    PROVE  /\ PathItems(s)
           /\ \A i \in 1 .. Len(s) : Differs(s[i][1]) /\ s[i][2] = Written(s[i][1])
           /\ \A p : Differs(p) => \E i \in 1 .. Len(s) : s[i][1] = p
<1>1. PICK leaves : leaves = CollectLeaves(Tree)
  OBVIOUS
<1>2. PICK differ : differ = {p \in DOMAIN files : p \notin DOMAIN leaves \/ leaves[p].text # MdOf[files[p]]}
  OBVIOUS
<1>3. s = SetToSeq({<<p, Written(p)>> : p \in differ})
  BY <1>1, <1>2 DEF ImportItems, Written
<1>4. \A p : p \in differ <=> Differs(p)
  <2>1. ASSUME NEW p \in DOMAIN files
        PROVE  /\ p \in DOMAIN leaves <=> LeafEntry(Tree, p) # Refused
               /\ p \in DOMAIN leaves => leaves[p] = LeafEntry(Tree, p)
    <3>1. p \in Ways \ {<<>>}
      BY FilesAre, PathsAre
    <3>2. QED
      BY <1>1, <3>1 DEF CollectLeaves
  <2>2. QED
    BY <1>2, <2>1 DEF Differs
<1>5. PICK S : S = {<<p, Written(p)>> : p \in differ}
  OBVIOUS
<1>6. IsFiniteSet(S)
  <2>1. IsFiniteSet(differ)
    <3>1. differ \subseteq DOMAIN files
      BY <1>2
    <3>2. QED
      BY <3>1, FilesAre, FS_Subset
  <2>2. PICK f : f = [p \in differ |-> <<p, Written(p)>>]
    OBVIOUS
  <2>3. f \in Surjection(differ, S)
    BY <1>5, <2>2 DEF Surjection
  <2>4. QED
    BY <2>1, <2>3, FS_Surjection
<1>7. /\ Len(s) \in Nat
      /\ \A i \in 1 .. Len(s) : s[i] \in S
      /\ \A x \in S : \E i \in 1 .. Len(s) : s[i] = x
  <2>1. s = SetToSeq(S)
    BY <1>3, <1>5
  <2>2. QED
    BY <1>6, <2>1, SetToSeqIs
<1>8. ASSUME NEW i \in 1 .. Len(s)
      PROVE  Differs(s[i][1]) /\ s[i][2] = Written(s[i][1]) /\ s[i][1] \in Paths /\ s[i][2] \in Notes
  <2>1. PICK p \in differ : s[i] = <<p, Written(p)>>
    BY <1>5, <1>7
  <2>2. s[i][1] = p /\ s[i][2] = Written(p)
    BY <2>1
  <2>3. p \in Paths /\ MdOf[files[p]] \in Texts
    BY <1>2, <2>1, FilesAre
  <2>4. PICK x : x = MdOf[files[p]] /\ x \in Texts
    BY <2>3
  <2>5. InheritTime(p, x) \in 1 .. MaxCommits + 1
    BY <2>3, <2>4, InheritTimeIs
  <2>6. Written(p) \in Notes
    BY <2>4, <2>5 DEF Written, Notes
  <2>7. QED
    BY <1>4, <2>1, <2>2, <2>3, <2>6
<1>9. ASSUME NEW p, Differs(p) PROVE \E i \in 1 .. Len(s) : s[i][1] = p
  <2>1. <<p, Written(p)>> \in S
    BY <1>4, <1>5, <1>9
  <2>2. PICK i \in 1 .. Len(s) : s[i] = <<p, Written(p)>>
    BY <1>7, <2>1
  <2>3. s[i][1] = p
    BY <2>2
  <2>4. QED
    BY <2>3
<1>10. QED
  BY <1>7, <1>8, <1>9 DEF PathItems

-----------------------------------------------------------------------------
(* The merge.                                                                 *)

LEMMA MergeHeld ==
    ASSUME NEW b \in Held, NEW o \in Held, NEW t \in Held, NEW m, m = MergeTrees(b, o, t)
    PROVE  /\ m.tree \in Held
           /\ \A p \in Ways \ {<<>>} :
                 \/ DownTo(b, o, t, p) /\ ~Conflicts(m.conflicts, p) /\ IsTree(EntryAt(m.tree, p))
                 \/ EntryAt(m.tree, p) = EntryAt(o, p) /\ Conflicts(m.conflicts, p)
                 \/ EntryAt(m.tree, p) = EntryAt(o, p) /\ ~Conflicts(m.conflicts, p) /\ EntryAt(o, p) = EntryAt(t, p)
                 \/ EntryAt(m.tree, p) = EntryAt(o, p) /\ ~Conflicts(m.conflicts, p) /\ EntryAt(t, p) = EntryAt(b, p)
                 \/ EntryAt(m.tree, p) = EntryAt(t, p) /\ ~Conflicts(m.conflicts, p) /\ EntryAt(o, p) = EntryAt(b, p)
           /\ \A x : x \in m.conflicts <=> IsConflict(b, o, t, x)
<1>1. b \in TreesOf(Notes) /\ o \in TreesOf(Notes) /\ t \in TreesOf(Notes)
  BY HeldHas
<1>2. PICK M : M = Merged(b, o, t)
  OBVIOUS
<1>3. m = M[<<>>] /\ Merging(Notes, b, o, t, M)
  BY <1>1, <1>2 DEF MergeTrees, Merging
<1>4. PICK r, cs : r = M[<<>>].tree /\ cs = M[<<>>].conflicts
  OBVIOUS
<1>5. \A p \in Ways \ {<<>>} :
         \/ DownTo(b, o, t, p) /\ ~Conflicts(cs, p) /\ IsTree(EntryAt(r, p))
         \/ EntryAt(r, p) = EntryAt(o, p) /\ Conflicts(cs, p)
         \/ EntryAt(r, p) = EntryAt(o, p) /\ ~Conflicts(cs, p) /\ EntryAt(o, p) = EntryAt(t, p)
         \/ EntryAt(r, p) = EntryAt(o, p) /\ ~Conflicts(cs, p) /\ EntryAt(t, p) = EntryAt(b, p)
         \/ EntryAt(r, p) = EntryAt(t, p) /\ ~Conflicts(cs, p) /\ EntryAt(o, p) = EntryAt(b, p)
  BY <1>3, <1>4, NotesAre, MergeAt
<1>6. \A x : x \in cs <=> IsConflict(b, o, t, x)
  <2>1. TreeNotes(Notes) /\ Merging(Notes, b, o, t, M) /\ cs = M[<<>>].conflicts
    BY <1>3, <1>4, NotesAre
  <2>2. QED
    BY <2>1, MergeConflicts
<1>7. r \in TreesOf(Notes)
  <2>1. PICK e : e = <<>> /\ e \in Ways /\ Len(e) = 0
    BY RootWay, EmptySeq
  <2>2. M[e].tree \in Levels(Notes)[Depth - Len(e)]
    BY <1>3, <2>1, NotesAre, MergedType
  <2>3. Depth - Len(e) = Depth
    BY <2>1, DepthAssumption
  <2>4. QED
    BY <1>4, <2>1, <2>2, <2>3 DEF TreesOf
<1>8. ASSUME NEW p \in Ways \ {<<>>}, EntryAt(r, p) # Refused
      PROVE  p \in AllPaths /\ (IsTree(EntryAt(r, p)) \/ p \in Paths)
  <2>1. CASE DownTo(b, o, t, p) /\ IsTree(EntryAt(r, p))
    <3>1. Descended(b, o, t, p)
      BY <2>1, AboveIs DEF DownTo
    <3>2. EntryAt(o, p) # Refused
      BY <3>1 DEF Descended, IsTree
    <3>3. QED
      BY <2>1, <3>2, HeldHas
  <2>2. CASE EntryAt(r, p) = EntryAt(o, p)
    BY <1>8, <2>2, HeldHas
  <2>3. CASE EntryAt(r, p) = EntryAt(t, p)
    BY <1>8, <2>3, HeldHas
  <2>4. QED
    BY <1>5, <2>1, <2>2, <2>3
<1>9. r \in Held
  BY <1>7, <1>8, HeldBy
<1>10. QED
  BY <1>3, <1>4, <1>5, <1>6, <1>9

-----------------------------------------------------------------------------
(* The index.                                                                 *)

IsPosted(ps, s, k, w) == w = [i \in 0 .. k |-> IF i = 0 THEN ps ELSE PostDelta(w[i-1], s[i])]

LEMMA PostedExists ==
    ASSUME NEW ps, NEW s, NEW k \in Nat
    PROVE  \E w : IsPosted(ps, s, k, w)
<1> DEFINE bad == {n \in Nat : ~ \E w : IsPosted(ps, s, n, w)}
<1>1. SUFFICES ASSUME bad # {} PROVE FALSE
  OBVIOUS
<1>2. PICK m \in bad : \A n \in bad : m <= n
  <2>1. bad \in SUBSET Nat
    OBVIOUS
  <2>2. QED
    BY <1>1, <2>1, LeastNumber
<1>3. m # 0
  <2>1. IsPosted(ps, s, 0, [i \in 0 .. 0 |-> ps])
    BY DEF IsPosted
  <2>2. QED
    BY <1>2, <2>1
<1>4. m \in Nat /\ m - 1 \in Nat /\ ~ (m <= m - 1)
  BY <1>2, <1>3
<1>5. m - 1 \notin bad
  BY <1>2, <1>4
<1>6. PICK v : IsPosted(ps, s, m - 1, v)
  BY <1>4, <1>5
<1>7. PICK w : w = [i \in 0 .. m |-> IF i = m THEN PostDelta(v[m-1], s[m]) ELSE v[i]]
  OBVIOUS
<1>8. ASSUME NEW i \in 0 .. m
      PROVE  w[i] = IF i = 0 THEN ps ELSE PostDelta(w[i-1], s[i])
  <2>1. \A j \in 0 .. m - 1 : v[j] = IF j = 0 THEN ps ELSE PostDelta(v[j-1], s[j])
    BY <1>6 DEF IsPosted
  <2>2. CASE i = m
    <3>1. w[i] = PostDelta(v[m-1], s[m])
      BY <1>7, <2>2
    <3>2. w[m-1] = v[m-1]
      BY <1>4, <1>7
    <3>3. QED
      BY <1>3, <2>2, <3>1, <3>2
  <2>3. CASE i # m
    <3>1. i \in 0 .. m - 1 /\ w[i] = v[i]
      BY <1>4, <1>7, <2>3
    <3>2. i # 0 => i - 1 \in 0 .. m /\ i - 1 # m
      BY <1>4, <3>1
    <3>3. i # 0 => w[i-1] = v[i-1]
      BY <1>7, <3>2
    <3>4. QED
      BY <2>1, <3>1, <3>3
  <2>4. QED
    BY <2>2, <2>3
<1>9. w = [i \in 0 .. m |-> w[i]]
  BY <1>7
<1>10. IsPosted(ps, s, m, w)
  BY <1>8, <1>9 DEF IsPosted
<1>11. QED
  BY <1>2, <1>10

LEMMA PostedIs ==
    ASSUME NEW ps, NEW s, Len(s) \in Nat
    PROVE  \A i \in 0 .. Len(s) :
              Posted(ps, s)[i] = IF i = 0 THEN ps ELSE PostDelta(Posted(ps, s)[i-1], s[i])
<1>1. Posted(ps, s) = CHOOSE w : IsPosted(ps, s, Len(s), w)
  BY DEF Posted, IsPosted
<1>2. IsPosted(ps, s, Len(s), CHOOSE w : IsPosted(ps, s, Len(s), w))
  BY PostedExists
<1>3. IsPosted(ps, s, Len(s), Posted(ps, s))
  BY <1>1, <1>2
<1>4. QED
  BY <1>3 DEF IsPosted

Leaves(t) == {q \in Ways \ {<<>>} : LeafEntry(t, q) # Refused}

Words == UNION {WordsOf[x] : x \in Texts}

LEMMA LeavesAre ==
    ASSUME NEW t, NEW c, c = CollectLeaves(t)
    PROVE  DOMAIN c = Leaves(t) /\ \A p \in Leaves(t) : c[p] = LeafEntry(t, p)
<1>1. c = [p \in Leaves(t) |-> LeafEntry(t, p)]
  BY DEF CollectLeaves, Leaves
<1>2. QED
  BY <1>1

LEMMA FullIs ==
    ASSUME NEW t, NEW f, f = FullIndex(CollectLeaves(t))
    PROVE  /\ f = [docs |-> f.docs, postings |-> f.postings]
           /\ \A z : z \in f.docs <=> \E p \in Leaves(t) : z = <<LeafEntry(t, p), p>>
           /\ \A z : z \in f.postings <=> \E p \in Leaves(t) : z \in NoteTerms(LeafEntry(t, p))
<1>1a. PICK c : c = CollectLeaves(t)
  OBVIOUS
<1>1. c = CollectLeaves(t) /\ DOMAIN c = Leaves(t) /\ \A p \in Leaves(t) : c[p] = LeafEntry(t, p)
  BY <1>1a, LeavesAre
<1>2. f = [docs |-> {<<c[p], p>> : p \in DOMAIN c}, postings |-> UNION {NoteTerms(c[p]) : p \in DOMAIN c}]
  BY <1>1 DEF FullIndex
<1>3. f.docs = {<<c[p], p>> : p \in DOMAIN c} /\ f.postings = UNION {NoteTerms(c[p]) : p \in DOMAIN c}
  BY <1>2
<1>4. QED
  BY <1>1, <1>2, <1>3

LEMMA TermsAre ==
    ASSUME NEW a \in Notes
    PROVE  /\ NoteTerms(a) \subseteq Words \X Notes
           /\ \A z \in NoteTerms(a) : z[2] = a
<1>1. a.text \in Texts
  BY NoteIs
<1>2. QED
  BY <1>1 DEF NoteTerms, Words

LEMMA FullType ==
    ASSUME NEW t \in Held
    PROVE  FullIndex(CollectLeaves(t)) \in Indexes
<1>1. PICK f : f = FullIndex(CollectLeaves(t))
  OBVIOUS
<1>2. /\ f = [docs |-> f.docs, postings |-> f.postings]
      /\ \A z : z \in f.docs <=> \E p \in Leaves(t) : z = <<LeafEntry(t, p), p>>
      /\ \A z : z \in f.postings <=> \E p \in Leaves(t) : z \in NoteTerms(LeafEntry(t, p))
  BY <1>1, FullIs
<1>3. \A p \in Leaves(t) : LeafEntry(t, p) \in Notes /\ p \in Ways
  BY LeafHeld DEF Leaves
<1>4. f.docs \subseteq Notes \X Ways
  BY <1>2, <1>3
<1>5. f.postings \subseteq Words \X Notes
  BY <1>2, <1>3, TermsAre
<1>6. QED
  BY <1>1, <1>2, <1>4, <1>5 DEF Indexes, Words

(* The deltas of an update: one for each path where the trees differ.         *)
Delta(old, new, p) == [path |-> p, old |-> LeafEntry(old, p), new |-> LeafEntry(new, p)]

LEMMA DeltasAre ==
    ASSUME NEW old, NEW new
    PROVE  Deltas(CollectLeaves(old), CollectLeaves(new)) = {Delta(old, new, p) : p \in Differing(old, new)}
<1>1a. PICK c : c = CollectLeaves(old)
  OBVIOUS
<1>1. c = CollectLeaves(old) /\ DOMAIN c = Leaves(old) /\ \A p \in Leaves(old) : c[p] = LeafEntry(old, p)
  BY <1>1a, LeavesAre
<1>2a. PICK n : n = CollectLeaves(new)
  OBVIOUS
<1>2. n = CollectLeaves(new) /\ DOMAIN n = Leaves(new) /\ \A p \in Leaves(new) : n[p] = LeafEntry(new, p)
  BY <1>2a, LeavesAre
<1>3. PICK D : D = Deltas(c, n)
  OBVIOUS
<1>4. \A x : x \in D <=>
         \/ \E p \in DOMAIN n : /\ p \notin DOMAIN c \/ c[p] # n[p]
                                /\ x = [path |-> p, old |-> IF p \in DOMAIN c THEN c[p] ELSE Refused, new |-> n[p]]
         \/ \E p \in DOMAIN c : p \notin DOMAIN n /\ x = [path |-> p, old |-> c[p], new |-> Refused]
  BY <1>3 DEF Deltas
<1>5. ASSUME NEW x \in D PROVE \E p \in Differing(old, new) : x = Delta(old, new, p)
  <2>1. CASE \E p \in DOMAIN n : /\ p \notin DOMAIN c \/ c[p] # n[p]
                                 /\ x = [path |-> p, old |-> IF p \in DOMAIN c THEN c[p] ELSE Refused, new |-> n[p]]
    <3>1. PICK p \in DOMAIN n : /\ p \notin DOMAIN c \/ c[p] # n[p]
                                /\ x = [path |-> p, old |-> IF p \in DOMAIN c THEN c[p] ELSE Refused, new |-> n[p]]
      BY <2>1
    <3>2. /\ p \in Ways \ {<<>>} /\ n[p] = LeafEntry(new, p) /\ LeafEntry(new, p) # Refused
          /\ (IF p \in DOMAIN c THEN c[p] ELSE Refused) = LeafEntry(old, p)
      BY <1>1, <1>2, <3>1 DEF Leaves
    <3>3. x = Delta(old, new, p)
      BY <3>1, <3>2 DEF Delta
    <3>4. p \in Differing(old, new)
      BY <1>1, <3>1, <3>2 DEF Differing
    <3>5. QED
      BY <3>3, <3>4
  <2>2. CASE \E p \in DOMAIN c : p \notin DOMAIN n /\ x = [path |-> p, old |-> c[p], new |-> Refused]
    <3>1. PICK p \in DOMAIN c : p \notin DOMAIN n /\ x = [path |-> p, old |-> c[p], new |-> Refused]
      BY <2>2
    <3>2. /\ p \in Ways \ {<<>>} /\ c[p] = LeafEntry(old, p) /\ LeafEntry(old, p) # Refused
          /\ LeafEntry(new, p) = Refused
      BY <1>1, <1>2, <3>1 DEF Leaves
    <3>3. QED
      BY <3>1, <3>2 DEF Delta, Differing
  <2>3. QED
    BY <1>4, <1>5, <2>1, <2>2
<1>6. ASSUME NEW p \in Differing(old, new) PROVE Delta(old, new, p) \in D
  <2>1. p \in Ways \ {<<>>} /\ LeafEntry(old, p) # LeafEntry(new, p)
    BY <1>6 DEF Differing
  <2>2. PICK x : x = Delta(old, new, p)
    OBVIOUS
  <2>3. CASE LeafEntry(new, p) # Refused
    <3>1. p \in DOMAIN n /\ n[p] = LeafEntry(new, p)
      BY <1>2, <2>1, <2>3 DEF Leaves
    <3>2. (IF p \in DOMAIN c THEN c[p] ELSE Refused) = LeafEntry(old, p)
      BY <1>1, <2>1 DEF Leaves
    <3>3. x = [path |-> p, old |-> IF p \in DOMAIN c THEN c[p] ELSE Refused, new |-> n[p]]
      BY <2>2, <3>1, <3>2 DEF Delta
    <3>4. p \notin DOMAIN c \/ c[p] # n[p]
      BY <1>1, <2>1, <3>1, <3>2
    <3>5. QED
      BY <1>4, <2>2, <3>1, <3>3, <3>4
  <2>4. CASE LeafEntry(new, p) = Refused
    <3>1. p \in DOMAIN c /\ c[p] = LeafEntry(old, p) /\ p \notin DOMAIN n
      BY <1>1, <1>2, <2>1, <2>4 DEF Leaves
    <3>2. x = [path |-> p, old |-> c[p], new |-> Refused]
      BY <2>2, <2>4, <3>1 DEF Delta
    <3>3. QED
      BY <1>4, <2>2, <3>1, <3>2
  <2>5. QED
    BY <2>3, <2>4
<1>7. D = {Delta(old, new, p) : p \in Differing(old, new)}
  BY <1>5, <1>6
<1>8. QED
  BY <1>1, <1>2, <1>3, <1>7

LEMMA OrdersAre ==
    ASSUME NEW old \in Held, NEW new \in Held,
           NEW s \in DeltaOrders(Deltas(CollectLeaves(old), CollectLeaves(new)))
    PROVE  /\ Len(s) \in Nat /\ DOMAIN s = 1 .. Len(s)
           /\ \A i \in 1 .. Len(s) : /\ s[i].path \in Differing(old, new)
                                     /\ s[i].old = LeafEntry(old, s[i].path)
                                     /\ s[i].new = LeafEntry(new, s[i].path)
           /\ \A i, j \in 1 .. Len(s) : i # j => s[i].path # s[j].path
           /\ \A p \in Differing(old, new) : \E i \in 1 .. Len(s) : s[i].path = p
<1>1. PICK D : D = Differing(old, new)
  OBVIOUS
<1>2. IsFiniteSet(D)
  <2>1. D \subseteq Paths
    BY <1>1, LeafHeld DEF Differing
  <2>2. QED
    BY <2>1, PathsAssumption, FS_Subset
<1>3. PICK S : S = {Delta(old, new, p) : p \in D}
  OBVIOUS
<1>4. IsFiniteSet(S)
  <2>1. PICK f : f = [p \in D |-> Delta(old, new, p)]
    OBVIOUS
  <2>2. f \in Surjection(D, S)
    BY <1>3, <2>1 DEF Surjection
  <2>3. QED
    BY <1>2, <2>2, FS_Surjection
<1>5. s \in SetToSeqs(S)
  BY <1>1, <1>3, DeltasAre DEF DeltaOrders
<1>6. /\ Len(s) \in Nat /\ s \in Seq(S)
      /\ \A i \in 1 .. Len(s) : s[i] \in S
      /\ \A i, j \in 1 .. Len(s) : i # j => s[i] # s[j]
      /\ \A x \in S : \E i \in 1 .. Len(s) : s[i] = x
  <2>1. Cardinality(S) \in Nat /\ Len(s) = Cardinality(S) /\ s \in Seq(S)
    BY <1>4, <1>5, SeqsOf
  <2>2. QED
    BY <1>4, <1>5, <2>1, SeqsOf
<1>7. \A x \in S : /\ x.path \in D /\ x.old = LeafEntry(old, x.path) /\ x.new = LeafEntry(new, x.path)
                   /\ x = Delta(old, new, x.path)
  BY <1>3 DEF Delta
<1>8. ASSUME NEW p \in D PROVE \E x \in S : x.path = p
  <2>1. PICK x : x = Delta(old, new, p)
    OBVIOUS
  <2>2. x \in S /\ x.path = p
    BY <1>3, <2>1 DEF Delta
  <2>3. QED
    BY <2>2
<1>9. ASSUME NEW i \in 1 .. Len(s), NEW j \in 1 .. Len(s), i # j
      PROVE  s[i].path # s[j].path
  <2>1. PICK x, y : x = s[i] /\ y = s[j]
    OBVIOUS
  <2>2. x \in S /\ y \in S /\ x # y
    BY <1>6, <1>9, <2>1
  <2>3. x = Delta(old, new, x.path) /\ y = Delta(old, new, y.path)
    BY <1>7, <2>2
  <2>4. x.path # y.path
    BY <2>2, <2>3
  <2>5. QED
    BY <2>1, <2>4
<1>10. \A p \in D : \E i \in 1 .. Len(s) : s[i].path = p
  BY <1>6, <1>8
<1>11. DOMAIN s = 1 .. Len(s)
  BY <1>6, LenProperties
<1>12. QED
  BY <1>1, <1>6, <1>7, <1>9, <1>10, <1>11

Apart(u, v) == \A p, q \in Ways \ {<<>>} :
                  LeafEntry(u, p) # Refused /\ LeafEntry(u, p) = LeafEntry(v, q) => p = q

(* What stands at p when the first k deltas are applied.                      *)
Cur(old, new, s, k, p) == IF \E i \in 1 .. k : s[i].path = p THEN LeafEntry(new, p) ELSE LeafEntry(old, p)

PostedFor(old, new, s, k, w) ==
    \A z : z \in w <=> \E p \in Ways \ {<<>>} : /\ Cur(old, new, s, k, p) # Refused
                                                /\ z \in NoteTerms(Cur(old, new, s, k, p))

LEMMA PostDeltaIs ==
    ASSUME NEW ps, NEW d, NEW z
    PROVE  z \in PostDelta(ps, d) <=> \/ z \in ps /\ (d.old = Refused \/ z \notin NoteTerms(d.old))
                                      \/ d.new # Refused /\ z \in NoteTerms(d.new)
BY DEF PostDelta

LEMMA PostedStep ==
    ASSUME NEW old \in Held, NEW new \in Held, Apart(old, old), Apart(old, new),
           NEW s, NEW n \in Nat,
           \A i \in 1 .. n : /\ s[i].path \in Differing(old, new)
                             /\ s[i].old = LeafEntry(old, s[i].path)
                             /\ s[i].new = LeafEntry(new, s[i].path),
           \A i, j \in 1 .. n : i # j => s[i].path # s[j].path,
           NEW k \in 1 .. n, NEW v, PostedFor(old, new, s, k - 1, v),
           NEW w, w = PostDelta(v, s[k])
    PROVE  PostedFor(old, new, s, k, w)
<1>1. PICK p0 : p0 = s[k].path
  OBVIOUS
<1>2. p0 \in Ways \ {<<>>} /\ s[k].old = LeafEntry(old, p0) /\ s[k].new = LeafEntry(new, p0)
  BY <1>1 DEF Differing
<1>3. k - 1 \in Nat /\ k \in 1 .. k /\ \A i : i \in 1 .. k <=> i \in 1 .. k - 1 \/ i = k
  OBVIOUS
<1>4. Cur(old, new, s, k, p0) = LeafEntry(new, p0)
  BY <1>1, <1>3 DEF Cur
<1>5. Cur(old, new, s, k - 1, p0) = LeafEntry(old, p0)
  <2>1. \A i \in 1 .. k - 1 : i \in 1 .. n /\ i # k
    OBVIOUS
  <2>2. \A i \in 1 .. k - 1 : s[i].path # p0
    BY <1>1, <2>1
  <2>3. QED
    BY <2>2 DEF Cur
<1>6. \A p : p # p0 => Cur(old, new, s, k, p) = Cur(old, new, s, k - 1, p)
  BY <1>1, <1>3 DEF Cur
<1>7. ASSUME NEW p \in Ways \ {<<>>}, p # p0, LeafEntry(old, p0) # Refused
      PROVE  Cur(old, new, s, k, p) # LeafEntry(old, p0)
  <2>1. LeafEntry(old, p) # LeafEntry(old, p0)
    BY <1>2, <1>7 DEF Apart
  <2>2. LeafEntry(new, p) # LeafEntry(old, p0)
    BY <1>2, <1>7 DEF Apart
  <2>3. QED
    BY <2>1, <2>2 DEF Cur
<1>8. \A p \in Ways \ {<<>>} : Cur(old, new, s, k, p) \in Notes \cup {Refused}
  BY LeafHeld DEF Cur
<1>9. LeafEntry(old, p0) \in Notes \cup {Refused}
  BY <1>2, LeafHeld
<1>10. ASSUME NEW z
       PROVE  z \in w <=> \E p \in Ways \ {<<>>} : /\ Cur(old, new, s, k, p) # Refused
                                                   /\ z \in NoteTerms(Cur(old, new, s, k, p))
  <2>1. z \in w <=> \/ z \in v /\ (LeafEntry(old, p0) = Refused \/ z \notin NoteTerms(LeafEntry(old, p0)))
                    \/ LeafEntry(new, p0) # Refused /\ z \in NoteTerms(LeafEntry(new, p0))
    BY <1>2, PostDeltaIs
  <2>2. z \in v <=> \E p \in Ways \ {<<>>} : /\ Cur(old, new, s, k - 1, p) # Refused
                                             /\ z \in NoteTerms(Cur(old, new, s, k - 1, p))
    BY DEF PostedFor
  <2>3. ASSUME z \in w
        PROVE  \E p \in Ways \ {<<>>} : /\ Cur(old, new, s, k, p) # Refused
                                        /\ z \in NoteTerms(Cur(old, new, s, k, p))
    <3>1. CASE LeafEntry(new, p0) # Refused /\ z \in NoteTerms(LeafEntry(new, p0))
      BY <1>2, <1>4, <3>1
    <3>2. CASE z \in v /\ (LeafEntry(old, p0) = Refused \/ z \notin NoteTerms(LeafEntry(old, p0)))
      <4>1. PICK p \in Ways \ {<<>>} : /\ Cur(old, new, s, k - 1, p) # Refused
                                       /\ z \in NoteTerms(Cur(old, new, s, k - 1, p))
        BY <2>2, <3>2
      <4>2. p # p0
        BY <1>5, <3>2, <4>1
      <4>3. QED
        BY <1>6, <4>1, <4>2
    <3>3. QED
      BY <2>1, <2>3, <3>1, <3>2
  <2>4. ASSUME NEW p \in Ways \ {<<>>}, Cur(old, new, s, k, p) # Refused,
               z \in NoteTerms(Cur(old, new, s, k, p))
        PROVE  z \in w
    <3>1. CASE p = p0
      BY <1>4, <2>1, <2>4, <3>1
    <3>2. CASE p # p0
      <4>1. z \in v
        BY <1>6, <2>2, <2>4, <3>2
      <4>2. PICK c : c = Cur(old, new, s, k, p) /\ c \in Notes
        BY <1>8, <2>4
      <4>3. z[2] = c
        BY <2>4, <4>2, TermsAre
      <4>4. ASSUME LeafEntry(old, p0) # Refused, z \in NoteTerms(LeafEntry(old, p0)) PROVE FALSE
        <5>1. PICK e : e = LeafEntry(old, p0) /\ e \in Notes
          BY <1>9, <4>4
        <5>2. z[2] = e
          BY <4>4, <5>1, TermsAre
        <5>3. QED
          BY <1>7, <3>2, <4>2, <4>3, <4>4, <5>1, <5>2
      <4>5. QED
        BY <2>1, <4>1, <4>4
    <3>3. QED
      BY <3>1, <3>2
  <2>5. QED
    BY <2>3, <2>4
<1>11. QED
  BY <1>10 DEF PostedFor

LEMMA PostedAll ==
    ASSUME NEW old \in Held, NEW new \in Held, Apart(old, old), Apart(old, new),
           NEW s, NEW n \in Nat, n = Len(s),
           \A i \in 1 .. n : /\ s[i].path \in Differing(old, new)
                             /\ s[i].old = LeafEntry(old, s[i].path)
                             /\ s[i].new = LeafEntry(new, s[i].path),
           \A i, j \in 1 .. n : i # j => s[i].path # s[j].path,
           NEW ps, PostedFor(old, new, s, 0, ps)
    PROVE  PostedFor(old, new, s, n, Posted(ps, s)[n])
<1>1. PICK w : w = Posted(ps, s)
  OBVIOUS
<1>2. \A i \in 0 .. n : w[i] = IF i = 0 THEN ps ELSE PostDelta(w[i-1], s[i])
  BY <1>1, PostedIs
<1> DEFINE bad == {k \in Nat : k <= n /\ ~PostedFor(old, new, s, k, w[k])}
<1>3. SUFFICES ASSUME bad # {} PROVE FALSE
  BY <1>1
<1>4. PICK k \in bad : \A j \in bad : k <= j
  <2>1. bad \in SUBSET Nat
    OBVIOUS
  <2>2. QED
    BY <1>3, <2>1, LeastNumber
<1>5. k \in Nat /\ k <= n /\ ~PostedFor(old, new, s, k, w[k])
  BY <1>4
<1>6. w[0] = ps
  BY <1>2
<1>7. k \in 1 .. n /\ k - 1 \in Nat /\ k - 1 <= n /\ ~ (k <= k - 1)
  BY <1>5, <1>6
<1>8. k - 1 \notin bad
  BY <1>4, <1>7
<1>9. PostedFor(old, new, s, k - 1, w[k-1])
  BY <1>7, <1>8
<1>10. w[k] = PostDelta(w[k-1], s[k])
  BY <1>2, <1>7
<1>11. PICK v : v = w[k-1]
  OBVIOUS
<1>12. PostedFor(old, new, s, k, w[k])
  BY <1>7, <1>9, <1>10, <1>11, PostedStep
<1>13. QED
  BY <1>5, <1>12

InDocs(idx, s, n, z) ==
    \/ z \in idx.docs /\ \A i \in 1 .. n : s[i].old # z[1] /\ s[i].new # z[1]
    \/ \E i \in 1 .. n : /\ z = <<s[i].new, s[i].path>> /\ s[i].new # Refused
                         /\ \A j \in 1 .. n : j > i => s[j].new # s[i].new

Shaped(r) == r = [docs |-> r.docs, postings |-> r.postings]

DocsApplied(idx, s, n, r) == \A z : z \in r.docs <=> InDocs(idx, s, n, z)

LEMMA UpdateIs ==
    ASSUME NEW idx, NEW s, NEW n \in Nat, n = Len(s), DOMAIN s = 1 .. n, NEW r, r = ApplyDelta(idx, s)
    PROVE  /\ Shaped(r)
           /\ r.postings = Posted(idx.postings, s)[n]
           /\ DocsApplied(idx, s, n, r)
<1>1. PICK R : R = Range(s)
  OBVIOUS
<1>2. \A d : d \in R <=> \E i \in 1 .. n : d = s[i]
  BY <1>1 DEF Range
<1>3. PICK touched : touched = {d.old : d \in R} \cup {d.new : d \in R}
  OBVIOUS
<1>4. PICK last : last = {i \in 1 .. n : s[i].new # Refused /\ \A j \in 1 .. n : j > i => s[j].new # s[i].new}
  OBVIOUS
<1>5. r = [docs     |-> {x \in idx.docs : x[1] \notin touched} \cup {<<s[i].new, s[i].path>> : i \in last},
           postings |-> Posted(idx.postings, s)[n]]
  BY <1>1, <1>3, <1>4 DEF ApplyDelta
<1>6. /\ r.docs = {x \in idx.docs : x[1] \notin touched} \cup {<<s[i].new, s[i].path>> : i \in last}
      /\ r.postings = Posted(idx.postings, s)[n]
  BY <1>5
<1>7. \A a : a \in touched <=> \E i \in 1 .. n : a = s[i].old \/ a = s[i].new
  BY <1>2, <1>3
<1>8. ASSUME NEW z
      PROVE  z \in r.docs <=> InDocs(idx, s, n, z)
  <2>1. z \in r.docs <=> z \in {x \in idx.docs : x[1] \notin touched} \/ \E i \in last : z = <<s[i].new, s[i].path>>
    BY <1>6
  <2>2. z \in {x \in idx.docs : x[1] \notin touched} <=> z \in idx.docs /\ z[1] \notin touched
    OBVIOUS
  <2>3. z[1] \notin touched <=> \A i \in 1 .. n : s[i].old # z[1] /\ s[i].new # z[1]
    BY <1>7
  <2>4. (\E i \in last : z = <<s[i].new, s[i].path>>) <=>
           \E i \in 1 .. n : /\ z = <<s[i].new, s[i].path>> /\ s[i].new # Refused
                             /\ \A j \in 1 .. n : j > i => s[j].new # s[i].new
    BY <1>4
  <2>5. QED
    BY <2>1, <2>2, <2>3, <2>4 DEF InDocs
<1>9. Shaped(r)
  BY <1>5, <1>6 DEF Shaped
<1>10. DocsApplied(idx, s, n, r)
  BY <1>8 DEF DocsApplied
<1>11. QED
  BY <1>6, <1>9, <1>10

(* An update turns the full index of the old tree into that of the new.       *)
LEMMA IndexStep ==
    ASSUME NEW old \in Held, NEW new \in Held, Apart(old, old), Apart(old, new), Apart(new, new),
           NEW idx, idx = FullIndex(CollectLeaves(old)),
           NEW s \in DeltaOrders(Deltas(CollectLeaves(old), CollectLeaves(new)))
    PROVE  ApplyDelta(idx, s) = FullIndex(CollectLeaves(new))
<1>1. PICK n : n = Len(s)
  OBVIOUS
<1>2. /\ n \in Nat /\ DOMAIN s = 1 .. n
      /\ \A i \in 1 .. n : /\ s[i].path \in Differing(old, new)
                           /\ s[i].old = LeafEntry(old, s[i].path)
                           /\ s[i].new = LeafEntry(new, s[i].path)
      /\ \A i, j \in 1 .. n : i # j => s[i].path # s[j].path
      /\ \A p \in Differing(old, new) : \E i \in 1 .. n : s[i].path = p
  BY <1>1, OrdersAre
<1>3. PICK r : r = ApplyDelta(idx, s)
  OBVIOUS
<1>4. PICK f : f = FullIndex(CollectLeaves(new))
  OBVIOUS
<1>5. /\ \A z : z \in idx.docs <=> \E p \in Leaves(old) : z = <<LeafEntry(old, p), p>>
      /\ \A z : z \in idx.postings <=> \E p \in Leaves(old) : z \in NoteTerms(LeafEntry(old, p))
  BY FullIs
<1>6. /\ f = [docs |-> f.docs, postings |-> f.postings]
      /\ \A z : z \in f.docs <=> \E p \in Leaves(new) : z = <<LeafEntry(new, p), p>>
      /\ \A z : z \in f.postings <=> \E p \in Leaves(new) : z \in NoteTerms(LeafEntry(new, p))
  BY <1>4, FullIs
<1>7. /\ Shaped(r)
      /\ r.postings = Posted(idx.postings, s)[n]
      /\ DocsApplied(idx, s, n, r)
  BY <1>1, <1>2, <1>3, UpdateIs
<1>8. r.postings = f.postings
  <2>1. PICK ps : ps = idx.postings
    OBVIOUS
  <2>2. \A p : Cur(old, new, s, 0, p) = LeafEntry(old, p)
    BY DEF Cur
  <2>3. PostedFor(old, new, s, 0, ps)
    BY <1>5, <2>1, <2>2 DEF PostedFor, Leaves
  <2>4. PostedFor(old, new, s, n, Posted(ps, s)[n])
    BY <1>1, <1>2, <2>3, PostedAll
  <2>5. ASSUME NEW p \in Ways \ {<<>>} PROVE Cur(old, new, s, n, p) = LeafEntry(new, p)
    <3>1. p \notin Differing(old, new) => LeafEntry(old, p) = LeafEntry(new, p)
      BY DEF Differing
    <3>2. QED
      BY <1>2, <3>1 DEF Cur
  <2>6. \A z : z \in r.postings <=> \E p \in Leaves(new) : z \in NoteTerms(LeafEntry(new, p))
    BY <1>7, <2>1, <2>4, <2>5 DEF PostedFor, Leaves
  <2>7. QED
    BY <1>6, <2>6
<1>9. ASSUME NEW z \in r.docs PROVE z \in f.docs
  <2>1. CASE z \in idx.docs /\ \A i \in 1 .. n : s[i].old # z[1] /\ s[i].new # z[1]
    <3>1. PICK p \in Leaves(old) : z = <<LeafEntry(old, p), p>>
      BY <1>5, <2>1
    <3>2. p \notin Differing(old, new)
      BY <1>2, <2>1, <3>1
    <3>3. p \in Leaves(new) /\ LeafEntry(new, p) = LeafEntry(old, p)
      BY <3>1, <3>2 DEF Differing, Leaves
    <3>4. QED
      BY <1>6, <3>1, <3>3
  <2>2. CASE \E i \in 1 .. n : /\ z = <<s[i].new, s[i].path>> /\ s[i].new # Refused
                               /\ \A j \in 1 .. n : j > i => s[j].new # s[i].new
    <3>1. PICK i \in 1 .. n : z = <<s[i].new, s[i].path>> /\ s[i].new # Refused
      BY <2>2
    <3>2. PICK p : p = s[i].path
      OBVIOUS
    <3>3. p \in Leaves(new) /\ z = <<LeafEntry(new, p), p>>
      BY <1>2, <3>1, <3>2 DEF Differing, Leaves
    <3>4. QED
      BY <1>6, <3>3
  <2>3. QED
    BY <1>7, <1>9, <2>1, <2>2 DEF InDocs, DocsApplied
<1>10. ASSUME NEW z \in f.docs PROVE z \in r.docs
  <2>1. PICK p \in Leaves(new) : z = <<LeafEntry(new, p), p>>
    BY <1>6
  <2>2. p \in Ways \ {<<>>} /\ LeafEntry(new, p) # Refused /\ z[1] = LeafEntry(new, p)
    BY <2>1 DEF Leaves
  <2>3. CASE p \in Differing(old, new)
    <3>1. PICK i \in 1 .. n : s[i].path = p
      BY <1>2, <2>3
    <3>2. s[i].new = LeafEntry(new, p)
      BY <1>2, <3>1
    <3>3. ASSUME NEW j \in 1 .. n, j > i PROVE s[j].new # s[i].new
      <4>1. PICK q : q = s[j].path
        OBVIOUS
      <4>2. q # p /\ q \in Ways \ {<<>>} /\ s[j].new = LeafEntry(new, q)
        <5>1. j # i
          BY <3>3
        <5>2. QED
          BY <1>2, <3>1, <4>1, <5>1 DEF Differing
      <4>3. QED
        BY <2>2, <3>2, <4>2 DEF Apart
    <3>4. z = <<s[i].new, s[i].path>> /\ s[i].new # Refused
      BY <2>1, <2>2, <3>1, <3>2
    <3>5. QED
      BY <1>7, <3>3, <3>4 DEF InDocs, DocsApplied
  <2>4. CASE p \notin Differing(old, new)
    <3>1. LeafEntry(old, p) = LeafEntry(new, p) /\ p \in Leaves(old)
      BY <2>2, <2>4 DEF Differing, Leaves
    <3>2. z \in idx.docs
      BY <1>5, <2>1, <3>1
    <3>3. ASSUME NEW i \in 1 .. n PROVE s[i].old # z[1] /\ s[i].new # z[1]
      <4>1. PICK q : q = s[i].path
        OBVIOUS
      <4>2. /\ q \in Ways \ {<<>>} /\ q # p
            /\ s[i].old = LeafEntry(old, q) /\ s[i].new = LeafEntry(new, q)
        BY <1>2, <2>4, <4>1 DEF Differing
      <4>3. LeafEntry(old, q) # z[1] /\ LeafEntry(new, q) # z[1]
        BY <2>2, <3>1, <4>2 DEF Apart
      <4>4. QED
        BY <4>2, <4>3
    <3>4. QED
      BY <1>7, <3>2, <3>3 DEF InDocs, DocsApplied
  <2>5. QED
    BY <2>3, <2>4
<1>11. r.docs = f.docs
  BY <1>9, <1>10
<1>12. QED
  BY <1>3, <1>4, <1>6, <1>7, <1>8, <1>11 DEF Shaped

LEMMA PostedType ==
    ASSUME NEW old \in Held, NEW new \in Held,
           NEW s, NEW n \in Nat, n = Len(s),
           \A i \in 1 .. n : s[i].new \in Notes \cup {Refused},
           NEW ps \in SUBSET (Words \X Notes)
    PROVE  Posted(ps, s)[n] \subseteq Words \X Notes
<1>1. PICK w : w = Posted(ps, s)
  OBVIOUS
<1>2. \A i \in 0 .. n : w[i] = IF i = 0 THEN ps ELSE PostDelta(w[i-1], s[i])
  BY <1>1, PostedIs
<1> DEFINE bad == {k \in Nat : k <= n /\ ~ (w[k] \subseteq Words \X Notes)}
<1>3. SUFFICES ASSUME bad # {} PROVE FALSE
  BY <1>1
<1>4. PICK k \in bad : \A j \in bad : k <= j
  <2>1. bad \in SUBSET Nat
    OBVIOUS
  <2>2. QED
    BY <1>3, <2>1, LeastNumber
<1>5. k \in Nat /\ k <= n /\ ~ (w[k] \subseteq Words \X Notes)
  BY <1>4
<1>6. w[0] = ps
  BY <1>2
<1>7. k \in 1 .. n /\ k - 1 \in Nat /\ k - 1 <= n /\ ~ (k <= k - 1)
  BY <1>5, <1>6
<1>8. k - 1 \notin bad
  BY <1>4, <1>7
<1>9. w[k-1] \subseteq Words \X Notes
  BY <1>7, <1>8
<1>10. w[k] = PostDelta(w[k-1], s[k])
  BY <1>2, <1>7
<1>11. ASSUME NEW z \in w[k] PROVE z \in Words \X Notes
  <2>1. z \in w[k-1] \/ (s[k].new # Refused /\ z \in NoteTerms(s[k].new))
    BY <1>10, <1>11, PostDeltaIs
  <2>2. CASE s[k].new # Refused /\ z \in NoteTerms(s[k].new)
    <3>1. PICK a \in Notes : a = s[k].new
      BY <1>7, <2>2
    <3>2. NoteTerms(a) \subseteq Words \X Notes
      BY TermsAre
    <3>3. QED
      BY <2>2, <3>1, <3>2
  <2>3. QED
    BY <1>9, <2>1, <2>2
<1>12. QED
  BY <1>5, <1>11

LEMMA UpdateType ==
    ASSUME NEW old \in Held, NEW new \in Held, NEW idx \in Indexes \cup {Refused},
           NEW r \in UpdateIndex(idx, old, new)
    PROVE  r \in Indexes
<1>1. CASE idx = Refused
  <2>1. r = FullIndex(CollectLeaves(new))
    BY <1>1 DEF UpdateIndex
  <2>2. QED
    BY <2>1, FullType
<1>2. CASE idx # Refused
  <2>1. PICK s \in DeltaOrders(Deltas(CollectLeaves(old), CollectLeaves(new))) : r = ApplyDelta(idx, s)
    BY <1>2 DEF UpdateIndex
  <2>2. PICK n : n = Len(s)
    OBVIOUS
  <2>3. /\ n \in Nat /\ DOMAIN s = 1 .. n
        /\ \A i \in 1 .. n : /\ s[i].path \in Differing(old, new)
                             /\ s[i].old = LeafEntry(old, s[i].path)
                             /\ s[i].new = LeafEntry(new, s[i].path)
    BY <2>2, OrdersAre
  <2>4. /\ Shaped(r)
        /\ r.postings = Posted(idx.postings, s)[n]
        /\ DocsApplied(idx, s, n, r)
    BY <2>1, <2>2, <2>3, UpdateIs
  <2>5. idx.docs \subseteq Notes \X Ways /\ idx.postings \in SUBSET (Words \X Notes)
    BY <1>2 DEF Indexes, Words
  <2>6. \A i \in 1 .. n : s[i].new \in Notes \cup {Refused} /\ s[i].path \in Ways
    BY <2>3, LeafHeld DEF Differing
  <2>7. r.docs \subseteq Notes \X Ways
    BY <2>4, <2>5, <2>6 DEF InDocs, DocsApplied
  <2>8. PICK ps \in SUBSET (Words \X Notes) : ps = idx.postings
    BY <2>5
  <2>9. Posted(ps, s)[n] \subseteq Words \X Notes
    BY <2>2, <2>3, <2>6, PostedType
  <2>10. r.postings \subseteq Words \X Notes
    BY <2>4, <2>8, <2>9
  <2>11. QED
    BY <2>4, <2>7, <2>10 DEF Indexes, Words, Shaped
<1>3. QED
  BY <1>1, <1>2

-----------------------------------------------------------------------------
(* Steps.                                                                     *)

LEMMA CommitIs ==
    ASSUME Typed, NEW t, t # Refused => t \in Held, Commit(t)
    PROVE  /\ t \in Held /\ hist' = Append(hist, t)
           /\ Len(hist') = Len(hist) + 1 /\ DOMAIN hist' = 1 .. Len(hist) + 1
           /\ \A i \in 1 .. Len(hist) : hist'[i] = hist[i]
           /\ hist'[Len(hist) + 1] = t
           /\ hist' \in Seq(Held) /\ Len(hist') <= MaxCommits /\ hist' # <<>> /\ Tree' = t
           /\ index' \in UpdateIndex(index, Tree, t) /\ index' \in Indexes /\ index' # Refused
           /\ ahead' = TRUE
<1>1. t \in Held /\ hist' = Append(hist, t) /\ Len(hist) < MaxCommits /\ index' \in UpdateIndex(index, Tree, t)
      /\ ahead' = TRUE
  BY DEF Commit, Room
<1>2. PICK l : l = Len(hist) /\ l \in Nat
  BY HistIs
<1>3. hist \in Seq(Held) /\ MaxCommits \in Nat
  BY LimitsAssumption DEF Typed
<1>4. PICK h : h = hist'
  OBVIOUS
<1>5. /\ h \in Seq(Held) /\ Len(h) = l + 1
      /\ \A i \in 1 .. l : h[i] = hist[i]
      /\ h[l+1] = t
  BY <1>1, <1>2, <1>3, <1>4, AppendProperties
<1>6. l + 1 <= MaxCommits /\ l + 1 # 0
  BY <1>1, <1>2, <1>3
<1>7. DOMAIN h = 1 .. l + 1 /\ h # <<>>
  BY <1>5, <1>6, LenProperties, EmptySeq
<1>8. Tree' = t
  BY <1>4, <1>5, <1>7 DEF Tree, Last
<1>9. PICK idx : idx = index /\ idx \in Indexes \cup {Refused}
  BY DEF Typed
<1>10. PICK j : j = index'
  OBVIOUS
<1>11. PICK old : old = Tree /\ old \in Held
  BY HistIs
<1>12. j \in UpdateIndex(idx, old, t)
  BY <1>1, <1>9, <1>10, <1>11
<1>13. j \in Indexes
  BY <1>1, <1>9, <1>11, <1>12, UpdateType
<1>14. j # Refused
  BY <1>13, SentinelAssumption
<1>15. QED
  BY <1>1, <1>2, <1>4, <1>5, <1>6, <1>7, <1>8, <1>10, <1>13, <1>14

LEMMA DistinctIs ==
    ASSUME NEW h
    PROVE  (\A i, j \in DOMAIN h :
                LET f == CollectLeaves(h[i])
                    g == CollectLeaves(h[j])
                IN  \A p \in DOMAIN f, q \in DOMAIN g : f[p] = g[q] => p = q)
           => \A i, j \in DOMAIN h : Apart(h[i], h[j])
<1>1. ASSUME \A i, j \in DOMAIN h :
                \A p \in DOMAIN CollectLeaves(h[i]), q \in DOMAIN CollectLeaves(h[j]) :
                   CollectLeaves(h[i])[p] = CollectLeaves(h[j])[q] => p = q,
             NEW i \in DOMAIN h, NEW j \in DOMAIN h,
             NEW p \in Ways \ {<<>>}, NEW q \in Ways \ {<<>>},
             LeafEntry(h[i], p) # Refused, LeafEntry(h[i], p) = LeafEntry(h[j], q)
      PROVE  p = q
  <2>1. PICK u, v : u = h[i] /\ v = h[j]
    OBVIOUS
  <2>2. PICK f : f = CollectLeaves(u)
    OBVIOUS
  <2>3. PICK g : g = CollectLeaves(v)
    OBVIOUS
  <2>4. p \in DOMAIN f /\ f[p] = LeafEntry(u, p)
    <3>1. p \in Leaves(u)
      BY <1>1, <2>1 DEF Leaves
    <3>2. QED
      BY <2>2, <3>1, LeavesAre
  <2>5. q \in DOMAIN g /\ g[q] = LeafEntry(v, q)
    <3>1. q \in Leaves(v)
      BY <1>1, <2>1 DEF Leaves
    <3>2. QED
      BY <2>3, <3>1, LeavesAre
  <2>6. QED
    BY <1>1, <2>1, <2>2, <2>3, <2>4, <2>5
<1>2. QED
  BY <1>1 DEF Apart

Indexed == hist # <<>> /\ Distinct => index = FullIndex(CollectLeaves(Tree))

LEMMA CommitIndexed ==
    ASSUME Typed, Indexed, NEW t, t # Refused => t \in Held, Commit(t)
    PROVE  Indexed'
<1>1. PICK h, l : h = hist' /\ l = Len(hist)
  OBVIOUS
<1>2. /\ t \in Held /\ l \in Nat /\ DOMAIN h = 1 .. l + 1
      /\ \A i \in 1 .. l : h[i] = hist[i]
      /\ h[l+1] = t /\ Tree' = t
      /\ index' \in UpdateIndex(index, Tree, t)
  BY <1>1, CommitIs, HistIs
<1>3. SUFFICES ASSUME \A i, j \in DOMAIN h :
                          LET f == CollectLeaves(h[i])
                              g == CollectLeaves(h[j])
                          IN  \A p \in DOMAIN f, q \in DOMAIN g : f[p] = g[q] => p = q
               PROVE  index' = FullIndex(CollectLeaves(t))
  BY <1>1, <1>2 DEF Indexed, Distinct
<1>4. \A i, j \in DOMAIN h : Apart(h[i], h[j])
  BY <1>3, DistinctIs
<1>5. CASE index = Refused
  BY <1>2, <1>5 DEF UpdateIndex
<1>6. CASE index # Refused
  <2>1. hist # <<>> /\ DOMAIN hist = 1 .. l /\ l \in DOMAIN hist /\ Tree = hist[l]
    BY <1>1, <1>6, HistIs DEF Typed
  <2>2. Distinct
    <3>1. DOMAIN hist \subseteq DOMAIN h /\ \A i \in DOMAIN hist : h[i] = hist[i]
      BY <1>2, <2>1
    <3>2. QED
      BY <1>3, <3>1 DEF Distinct
  <2>3. PICK old : old = Tree /\ old \in Held
    BY HistIs
  <2>4. PICK idx : idx = index
    OBVIOUS
  <2>5. idx = FullIndex(CollectLeaves(old))
    BY <2>1, <2>2, <2>3, <2>4 DEF Indexed
  <2>6. old = h[l] /\ t = h[l+1] /\ l \in DOMAIN h /\ l + 1 \in DOMAIN h
    BY <1>2, <2>1, <2>3
  <2>7. Apart(old, old) /\ Apart(old, t) /\ Apart(t, t)
    BY <1>4, <2>6
  <2>8. PICK s \in DeltaOrders(Deltas(CollectLeaves(old), CollectLeaves(t))) : index' = ApplyDelta(idx, s)
    BY <1>2, <1>6, <2>3, <2>4 DEF UpdateIndex
  <2>9. QED
    BY <1>2, <2>3, <2>5, <2>7, <2>8, IndexStep
<1>7. QED
  BY <1>5, <1>6

LEMMA InitTyped == Init => Typed
<1>1. ASSUME Init PROVE Typed
  <2>1. hist = <<>> /\ Len(hist) = 0 /\ hist \in Seq(Held) /\ index = Refused /\ ahead = FALSE /\ edits = 0
    BY <1>1, EmptySeq DEF Init
  <2>2. theirs \in Held /\ base \in Held
    BY <1>1, EmptyHeld DEF Init
  <2>3. PICK d : d = {}
    OBVIOUS
  <2>4. files \in [d -> Texts]
    BY <1>1, <2>3 DEF Init, EmptyTree
  <2>5. d \in SUBSET Paths
    BY <2>3
  <2>6. 0 <= MaxCommits /\ 0 \in 0 .. MaxTheirs
    BY LimitsAssumption
  <2>7. QED
    BY <2>1, <2>2, <2>4, <2>5, <2>6 DEF Typed
<1>2. QED
  BY <1>1

(* A commit beside which nothing else changes, or only the base.              *)
LEMMA CommitTyped ==
    ASSUME Typed, NEW t, t # Refused => t \in Held, Commit(t), base' \in Held,
           UNCHANGED <<theirs, edits, files>>
    PROVE  Typed'
<1>1. hist' \in Seq(Held) /\ Len(hist') <= MaxCommits /\ hist' # <<>> /\ index' \in Indexes /\ index' # Refused
      /\ ahead' = TRUE
  BY CommitIs
<1>2. theirs' \in Held
  BY DEF Typed
<1>3. files' \in UNION {[d -> Texts] : d \in SUBSET Paths}
  BY DEF Typed
<1>4. edits' \in 0 .. MaxTheirs
  BY DEF Typed
<1>5. QED
  BY <1>1, <1>2, <1>3, <1>4 DEF Typed

LEMMA NotesNow == ASSUME Typed, NEW x \in Texts PROVE Note(x, Now) \in Notes
BY NowIs DEF Notes

LEMMA EditHeld ==
    ASSUME Typed, NEW t \in Held, NEW p \in Paths, NEW r, r # Refused,
           \/ \E x \in Texts : r = SetNote(t, p, Note(x, Now))
           \/ r = RemoveNote(t, p)
           \/ \E all : r = RemoveDir(t, p, all)
           \/ r = Mkdir(t, p) /\ ~DirExists(t, p)
    PROVE  r \in Held
<1>1. CASE \E x \in Texts : r = SetNote(t, p, Note(x, Now))
  <2>1. PICK x \in Texts : r = SetNote(t, p, Note(x, Now))
    BY <1>1
  <2>2. PICK a : a = Note(x, Now) /\ a \in Notes
    BY NotesNow
  <2>3. QED
    BY <2>1, <2>2, SetNoteIs
<1>2. CASE r = RemoveNote(t, p)
  BY <1>2, RemoveNoteIs
<1>3. CASE \E all : r = RemoveDir(t, p, all)
  BY <1>3, RemoveDirHeld
<1>4. CASE r = Mkdir(t, p) /\ ~DirExists(t, p)
  BY <1>4, MkdirHeld
<1>5. QED
  BY <1>1, <1>2, <1>3, <1>4

LEMMA BulkHeld ==
    ASSUME Typed, NEW s, PathItems(s), NEW r, r = BulkImport(Tree, s), r # Refused
    PROVE  r \in Held
<1>1. PICK t : t = Tree /\ t \in Held
  BY HistIs
<1>2. QED
  BY <1>1, BulkIs

(* The tree each command commits.                                             *)
Commits(t) ==
    \/ \E p \in Paths, x \in Texts : t = SetNote(Tree, p, Note(x, Now))
    \/ \E p \in Paths : t = RemoveNote(Tree, p)
    \/ \E p \in Paths : t = Mkdir(Tree, p) /\ ~DirExists(Tree, p)
    \/ \E p \in Paths, r \in BOOLEAN : t = RemoveDir(Tree, p, r)
    \/ \E items \in Batches : t = BulkImport(Tree, BulkItems(items))
    \/ t = BulkImport(Tree, ImportItems) /\ Importable

LEMMA CommitsHeld ==
    ASSUME Typed, NEW t, Commits(t), t # Refused
    PROVE  t \in Held
<1>1. PICK o : o = Tree /\ o \in Held
  BY HistIs
<1>2. CASE \/ \E p \in Paths, x \in Texts : t = SetNote(Tree, p, Note(x, Now))
           \/ \E p \in Paths : t = RemoveNote(Tree, p)
           \/ \E p \in Paths : t = Mkdir(Tree, p) /\ ~DirExists(Tree, p)
           \/ \E p \in Paths, r \in BOOLEAN : t = RemoveDir(Tree, p, r)
  BY <1>1, <1>2, EditHeld
<1>3. CASE \E items \in Batches : t = BulkImport(Tree, BulkItems(items))
  <2>1. PICK items \in Batches : t = BulkImport(Tree, BulkItems(items))
    BY <1>3
  <2>2. PICK s : s = BulkItems(items)
    OBVIOUS
  <2>3. PathItems(s)
    BY <2>2, BatchItems
  <2>4. QED
    BY <2>1, <2>2, <2>3, BulkHeld
<1>4. CASE t = BulkImport(Tree, ImportItems) /\ Importable
  <2>1. PICK s : s = ImportItems
    OBVIOUS
  <2>2. PathItems(s)
    BY <1>4, <2>1, ImportItemsAre
  <2>3. QED
    BY <1>4, <2>1, <2>2, BulkHeld
<1>5. QED
  BY <1>2, <1>3, <1>4 DEF Commits

LEMMA MergedHeld ==
    ASSUME Typed, NEW m, m = MergeTrees(base, Tree, theirs)
    PROVE  m.tree \in Held
<1>1. PICK b, o, t : b = base /\ o = Tree /\ t = theirs /\ b \in Held /\ o \in Held /\ t \in Held
  BY HistIs DEF Typed
<1>2. QED
  BY <1>1, MergeHeld

(* Every step commits a tree of one of the commands, merges, or leaves the    *)
(* branch alone.                                                              *)
CommitStep == \E t : Commits(t) /\ Commit(t) /\ UNCHANGED Beside

QuietStep == \/ \E i \in DOMAIN hist, force \in BOOLEAN : ExportMd(i, force)
             \/ Clone
             \/ \E t : TheirEdit(t) /\ \E p \in Paths :
                   \/ \E x \in Texts : t = SetNote(theirs, p, Note(x, Now))
                   \/ t = RemoveNote(theirs, p)
                   \/ t = RemoveDir(theirs, p, TRUE)

LEMMA NextIs == Next => CommitStep \/ QuietStep \/ MergeIn
<1>1. ASSUME \/ \E p \in Paths, x \in Texts : NoteSet(p, x)
             \/ \E p \in Paths : NoteRm(p)
             \/ \E p \in Paths : DirAdd(p)
             \/ \E p \in Paths, r \in BOOLEAN : DirRm(p, r)
      PROVE  CommitStep
  BY <1>1 DEF NoteSet, NoteRm, DirAdd, DirRm, CommitStep, Commits
<1>2. ASSUME NEW items \in Batches, Bulk(items) PROVE CommitStep
  BY <1>2 DEF Bulk, CommitStep, Commits
<1>3. ASSUME ImportMd PROVE CommitStep
  BY <1>3 DEF ImportMd, CommitStep, Commits
<1>4. ASSUME \/ \E p \in Paths, x \in Texts : TheirEdit(SetNote(theirs, p, Note(x, Now)))
             \/ \E p \in Paths : TheirEdit(RemoveNote(theirs, p))
             \/ \E p \in Paths : TheirEdit(RemoveDir(theirs, p, TRUE))
      PROVE  QuietStep
  BY <1>4 DEF QuietStep
<1>5. QED
  BY <1>1, <1>2, <1>3, <1>4 DEF Next, QuietStep

LEMMA StepTyped == Typed /\ [Next]_vars => Typed'
<1>1. ASSUME Typed, NEW t, Commits(t), Commit(t), UNCHANGED Beside PROVE Typed'
  <2>1. base' \in Held /\ UNCHANGED <<theirs, edits, files>>
    BY <1>1 DEF Beside, Typed
  <2>2. t # Refused => t \in Held
    BY <1>1, CommitsHeld
  <2>3. QED
    BY <1>1, <2>1, <2>2, CommitTyped
<1>2. ASSUME Typed, MergeIn PROVE Typed'
  <2>1. PICK m : m = MergeTrees(base, Tree, theirs)
    OBVIOUS
  <2>2. Commit(m.tree) /\ base' = theirs /\ UNCHANGED <<theirs, edits, files>>
    BY <1>2, <2>1 DEF MergeIn
  <2>3. PICK t : t = m.tree /\ t \in Held
    BY <1>2, <2>1, MergedHeld
  <2>4. base' \in Held
    BY <1>2, <2>2 DEF Typed
  <2>5. QED
    BY <1>2, <2>2, <2>3, <2>4, CommitTyped
<1>3. ASSUME Typed, NEW i \in DOMAIN hist, NEW force \in BOOLEAN, ExportMd(i, force) PROVE Typed'
  <2>1. PICK docs : docs = CollectLeaves(hist[i])
    OBVIOUS
  <2>2. /\ files' = [p \in DOMAIN docs \cup DOMAIN files |->
                        IF p \in DOMAIN docs THEN docs[p].text ELSE files[p]]
        /\ UNCHANGED <<theirs, base, edits>> /\ UNCHANGED <<hist, index, ahead>>
    BY <1>3, <2>1 DEF ExportMd, Library
  <2>3. PICK u : u = hist[i] /\ u \in Held
    BY <1>3, HistIs
  <2>4. DOMAIN docs = Leaves(u) /\ \A p \in Leaves(u) : docs[p] = LeafEntry(u, p)
    BY <2>1, <2>3, LeavesAre
  <2>5. \A p \in DOMAIN docs : p \in Paths /\ docs[p].text \in Texts
    BY <2>3, <2>4, LeafHeld, NoteIs DEF Leaves
  <2>6. PICK d \in SUBSET Paths : files \in [d -> Texts]
    BY <1>3 DEF Typed
  <2>7. PICK D : D = DOMAIN docs \cup d
    OBVIOUS
  <2>8. D \in SUBSET Paths
    BY <2>5, <2>6, <2>7
  <2>9. files' \in [D -> Texts]
    BY <2>2, <2>5, <2>6, <2>7
  <2>10. files' \in UNION {[e -> Texts] : e \in SUBSET Paths}
    BY <2>8, <2>9
  <2>11. QED
    BY <1>3, <2>2, <2>10 DEF Typed
<1>4. ASSUME Typed, Clone PROVE Typed'
  BY <1>4, HistIs DEF Clone, Typed
<1>5. ASSUME Typed, NEW t, TheirEdit(t), NEW p \in Paths,
             \/ \E x \in Texts : t = SetNote(theirs, p, Note(x, Now))
             \/ t = RemoveNote(theirs, p)
             \/ t = RemoveDir(theirs, p, TRUE)
      PROVE  Typed'
  <2>1. PICK o : o = theirs /\ o \in Held
    BY <1>5 DEF Typed
  <2>2. t \in Held
    BY <1>5, <2>1, EditHeld DEF TheirEdit
  <2>3. /\ theirs' = t /\ edits' = edits + 1 /\ edits < MaxTheirs /\ hist' = hist /\ index' = index
        /\ ahead' = ahead /\ base' = base /\ files' = files
    BY <1>5 DEF TheirEdit, Library
  <2>4. edits' \in 0 .. MaxTheirs
    BY <1>5, <2>3, LimitsAssumption DEF Typed
  <2>5. QED
    BY <1>5, <2>2, <2>3, <2>4 DEF Typed
<1>6. ASSUME Typed, UNCHANGED vars PROVE Typed'
  BY <1>6 DEF Typed, vars
<1>7. QED
  BY <1>1, <1>2, <1>3, <1>4, <1>5, <1>6, NextIs DEF CommitStep, QuietStep

LEMMA AlwaysTyped == Spec => []Typed
BY InitTyped, StepTyped, PTL DEF Spec

LEMMA StepIndexed == Typed /\ Indexed /\ [Next]_vars => Indexed'
<1>1. ASSUME Typed, Indexed, NEW t, Commits(t), Commit(t) PROVE Indexed'
  <2>1. t # Refused => t \in Held
    BY <1>1, CommitsHeld
  <2>2. QED
    BY <1>1, <2>1, CommitIndexed
<1>2. ASSUME Typed, Indexed, MergeIn PROVE Indexed'
  <2>1. PICK m : m = MergeTrees(base, Tree, theirs)
    OBVIOUS
  <2>2. PICK t : t = m.tree /\ t \in Held
    BY <1>2, <2>1, MergedHeld
  <2>3. Commit(t)
    BY <1>2, <2>1, <2>2 DEF MergeIn
  <2>4. QED
    BY <1>2, <2>2, <2>3, CommitIndexed
<1>3. ASSUME Indexed, hist' = hist, index' = index PROVE Indexed'
  BY <1>3 DEF Indexed, Distinct, Tree
<1>4. ASSUME Indexed, QuietStep PROVE Indexed'
  <2>1. hist' = hist /\ index' = index
    BY <1>4 DEF QuietStep, ExportMd, Clone, TheirEdit, Library
  <2>2. QED
    BY <1>3, <1>4, <2>1
<1>5. ASSUME Indexed, UNCHANGED vars PROVE Indexed'
  BY <1>3, <1>5 DEF vars
<1>6. QED
  BY <1>1, <1>2, <1>4, <1>5, NextIs DEF CommitStep

LEMMA AlwaysIndexed == Spec => []Indexed
<1>1. Init => Indexed
  BY DEF Init, Indexed
<1>2. Typed /\ Indexed /\ [Next]_vars => Indexed'
  BY StepIndexed
<1>3. QED
  BY <1>1, <1>2, AlwaysTyped, PTL DEF Spec

(* In a full index a word is found at the notes that have it, and there only. *)
LEMMA SearchIs ==
    ASSUME NEW t \in Held, NEW idx, idx = FullIndex(CollectLeaves(t)), NEW w
    PROVE  Search(idx, w) = {x \in idx.docs : w \in WordsOf[x[1].text]}
<1>1. /\ \A z : z \in idx.docs <=> \E p \in Leaves(t) : z = <<LeafEntry(t, p), p>>
      /\ \A z : z \in idx.postings <=> \E p \in Leaves(t) : z \in NoteTerms(LeafEntry(t, p))
  BY FullIs
<1>2. PICK found : found = {x[2] : x \in {y \in idx.postings : y[1] = w}}
  OBVIOUS
<1>3. Search(idx, w) = {x \in idx.docs : x[1] \in found} \cup {<<a, Refused>> : a \in found \ {x[1] : x \in idx.docs}}
  BY <1>2 DEF Search
<1>4. ASSUME NEW a \in found PROVE w \in WordsOf[a.text] /\ \E p \in Leaves(t) : a = LeafEntry(t, p)
  <2>1. PICK z \in idx.postings : z[1] = w /\ z[2] = a
    BY <1>2
  <2>2. PICK p \in Leaves(t) : z \in NoteTerms(LeafEntry(t, p))
    BY <1>1, <2>1
  <2>3. PICK e : e = LeafEntry(t, p)
    OBVIOUS
  <2>4. z[2] = e /\ z[1] \in WordsOf[e.text]
    BY <2>2, <2>3 DEF NoteTerms
  <2>5. QED
    BY <2>1, <2>3, <2>4
<1>5. ASSUME NEW p \in Leaves(t), NEW a, a = LeafEntry(t, p), w \in WordsOf[a.text] PROVE a \in found
  <2>1. PICK z : z = <<w, a>>
    OBVIOUS
  <2>2. z \in NoteTerms(a)
    BY <1>5, <2>1 DEF NoteTerms
  <2>3. z \in idx.postings /\ z[1] = w /\ z[2] = a
    BY <1>1, <1>5, <2>1, <2>2
  <2>4. QED
    BY <1>2, <2>3
<1>6. \A p \in Leaves(t) : \E x \in idx.docs : x[1] = LeafEntry(t, p)
  <2>1. ASSUME NEW p \in Leaves(t) PROVE \E x \in idx.docs : x[1] = LeafEntry(t, p)
    <3>1. PICK x : x = <<LeafEntry(t, p), p>>
      OBVIOUS
    <3>2. x \in idx.docs /\ x[1] = LeafEntry(t, p)
      BY <1>1, <3>1
    <3>3. QED
      BY <3>2
  <2>2. QED
    BY <2>1
<1>7. found \ {x[1] : x \in idx.docs} = {}
  BY <1>4, <1>6
<1>8. ASSUME NEW x \in idx.docs PROVE x[1] \in found <=> w \in WordsOf[x[1].text]
  <2>1. PICK p \in Leaves(t) : x = <<LeafEntry(t, p), p>>
    BY <1>1
  <2>2. PICK a : a = LeafEntry(t, p) /\ x[1] = a
    BY <2>1
  <2>3. QED
    BY <1>4, <1>5, <2>2
<1>9. QED
  BY <1>3, <1>7, <1>8

(* Whatever was edited, imported and merged, a search finds every note with   *)
(* the word where the note is now and nothing else, unless a note with equal  *)
(* bytes has stood at two paths: the updates of the index, delta by delta,    *)
(* come to what a full build would give (build.go:152).                       *)
THEOREM SearchIsExact == Spec => []SearchExact
<1>1. ASSUME Typed, Indexed PROVE SearchExact
  <2>1. SUFFICES ASSUME hist # <<>>, Distinct
                 PROVE  LET leaves == CollectLeaves(Tree)
                            docs   == {<<leaves[p], p>> : p \in DOMAIN leaves}
                        IN  /\ index.docs = docs
                            /\ \A w \in UNION Range(WordsOf) :
                                   Search(index, w) = {x \in docs : w \in WordsOf[x[1].text]}
    BY DEF SearchExact
  <2>2. PICK t, idx : t = Tree /\ t \in Held /\ idx = index /\ idx = FullIndex(CollectLeaves(t))
    BY <1>1, <2>1, HistIs DEF Indexed
  <2>3. PICK leaves : leaves = CollectLeaves(t)
    OBVIOUS
  <2>4. idx.docs = {<<leaves[p], p>> : p \in DOMAIN leaves}
    BY <2>2, <2>3 DEF FullIndex
  <2>5. ASSUME NEW w PROVE Search(idx, w) = {x \in idx.docs : w \in WordsOf[x[1].text]}
    BY <2>2, SearchIs
  <2>6. QED
    BY <2>2, <2>3, <2>4, <2>5
<1>2. QED
  BY <1>1, AlwaysTyped, AlwaysIndexed, PTL

(* Whoever merges, the same paths conflict in the same ways, and a merge      *)
(* without conflict comes to the same tree (merge.go:371).                    *)
THEOREM MergesAreSymmetric == Spec => []MergeIsSymmetric
<1>1. ASSUME Typed PROVE MergeIsSymmetric
  <2>1. PICK b, o, t : b = base /\ o = Tree /\ t = theirs /\ b \in Held /\ o \in Held /\ t \in Held
    BY <1>1, HistIs DEF Typed
  <2>2. b \in TreesOf(Notes) /\ o \in TreesOf(Notes) /\ t \in TreesOf(Notes)
    BY <2>1 DEF Held
  <2>3. PICK m, n : m = MergeTrees(b, o, t) /\ n = MergeTrees(b, t, o)
    OBVIOUS
  <2>4. m.conflicts = n.conflicts /\ (m.conflicts = {} => m.tree = n.tree)
    BY <2>2, <2>3, NotesAre, MergeSymmetric
  <2>5. QED
    BY <2>1, <2>3, <2>4 DEF MergeIsSymmetric
<1>2. QED
  BY <1>1, AlwaysTyped, PTL

LEMMA LeafAt ==
    ASSUME NEW t \in Held, NEW q \in Ways \ {<<>>}
    PROVE  /\ LeafEntry(t, q) = IF IsTree(EntryAt(t, q)) THEN Refused ELSE EntryAt(t, q)
           /\ WalkDir(t, q) = IF IsTree(EntryAt(t, q)) THEN EntryAt(t, q) ELSE Refused
BY NotesAre, EntryIs DEF Held

LEMMA NoTree == \A a \in Notes \cup {Refused} : ~IsTree(a)
BY NotesAre DEF TreeNotes, IsTree

(* An import that is not refused leaves at every path the note the last of    *)
(* its items has for it, unless another item goes through that path           *)
(* (bulk.go:78).                                                              *)
THEOREM BulkLanding == Spec => []BulkLandsApart
<1>1. ASSUME Typed, NEW items \in Batches, NEW t, t = BulkImport(Tree, BulkItems(items)), t # Refused,
             NEW x \in Landing(items, t)
      PROVE  x[2] = x[3] \/ \E it \in Range(items) : Above(x[1], it[1])
  <2>1. PICK o : o = Tree /\ o \in Held
    BY <1>1, HistIs
  <2>2. PICK s, n : s = BulkItems(items) /\ n = Len(items)
    OBVIOUS
  <2>3. /\ PathItems(s) /\ Len(s) = n /\ DOMAIN items = 1 .. n
        /\ \A i \in 1 .. n : /\ items[i] = <<items[i][1], items[i][2]>>
                             /\ items[i][1] \in Paths
                             /\ s[i][1] = items[i][1] /\ s[i][2] = Note(items[i][2], Now)
    BY <1>1, <2>2, BatchItems
  <2>4. n \in Nat
    BY <2>3 DEF PathItems
  <2>5. PICK p \in {it[1] : it \in Range(items)} :
           LET i == Max({k \in DOMAIN items : items[k][1] = p})
           IN  x = <<p, Note(items[i][2], Now), LeafEntry(t, p)>>
    BY <1>1 DEF Landing
  <2>6. PICK T : T = {k \in DOMAIN items : items[k][1] = p}
    OBVIOUS
  <2>7. PICK j : j = Max(T)
    OBVIOUS
  <2>8. T # {}
    BY <2>5, <2>6 DEF Range
  <2>9. T \in SUBSET (1 .. n)
    BY <2>3, <2>6
  <2>10. j \in T /\ \A y \in T : j >= y
    BY <2>4, <2>7, <2>8, <2>9, MaxIs
  <2>11. j \in 1 .. n /\ items[j][1] = p /\ s[j][1] = p /\ p \in Paths /\ p \in Ways \ {<<>>}
    BY <2>3, <2>6, <2>10, PathsAre
  <2>12. x[1] = p /\ x[2] = Note(items[j][2], Now) /\ x[3] = LeafEntry(t, p)
    BY <2>5, <2>6, <2>7
  <2>13. LastFor(s, Len(s), j)
    <3>1. ASSUME NEW i \in 1 .. n, i > j PROVE s[i][1] # s[j][1]
      <4>1. i \notin T
        BY <2>10, <2>11, <3>1
      <4>2. QED
        BY <2>3, <2>6, <2>11, <4>1
    <3>2. QED
      BY <2>3, <3>1 DEF LastFor
  <2>14. CASE Through(s, p)
    <3>1. PICK i \in 1 .. n : Above(p, s[i][1])
      BY <2>3, <2>14 DEF Through
    <3>2. items[i] \in Range(items) /\ Above(p, items[i][1])
      BY <2>3, <3>1 DEF Range
    <3>3. QED
      BY <2>12, <3>2
  <2>15. CASE ~Through(s, p)
    <3>1. t = BulkImport(o, s)
      BY <1>1, <2>1, <2>2
    <3>2. t \in Held /\ EntryAt(t, s[j][1]) = s[j][2]
      <4>1. t \in Held
        BY <1>1, <2>1, <2>3, <3>1, BulkIs
      <4>2. j \in 1 .. Len(s) /\ ~Through(s, s[j][1])
        BY <2>3, <2>11, <2>15
      <4>3. \A i \in 1 .. Len(s) : LastFor(s, Len(s), i) /\ ~Through(s, s[i][1]) =>
                 EntryAt(t, s[i][1]) = s[i][2]
        BY <1>1, <2>1, <2>3, <3>1, BulkIs
      <4>4. QED
        BY <2>13, <4>1, <4>2, <4>3
    <3>3. s[j][2] \in Notes
      BY <2>3, <2>11 DEF PathItems
    <3>4. LeafEntry(t, p) = s[j][2]
      BY <2>11, <3>2, <3>3, LeafAt, NoTree
    <3>5. QED
      BY <2>3, <2>11, <2>12, <3>4
  <2>16. QED
    BY <2>14, <2>15
<1>2. Typed => BulkLandsApart
  BY <1>1 DEF BulkLandsApart
<1>3. QED
  BY <1>2, AlwaysTyped, PTL

(* An import of Markdown files leaves at each path a note with the text its   *)
(* file reads back as, and one that has stood there before wherever the       *)
(* branch has had that text at that path (markdown.go:144).  It does not say  *)
(* that a file reads back as the text it was written from.                    *)
THEOREM ImportKeepsTimes == Spec => ImportRestores
<1>1. ASSUME Typed, ImportMd, NEW p \in DOMAIN files
      PROVE  LET e == LeafEntry(Tree', p)
                 before == {LeafEntry(hist[i], p) : i \in DOMAIN hist}
                 known  == \E d \in before \ {Refused} : d.text = e.text
             IN  e # Refused /\ e.text = MdOf[files[p]] /\ (known => e \in before)
  <2>1. PICK o, s : o = Tree /\ s = ImportItems
    OBVIOUS
  <2>2. PICK r : r = BulkImport(o, s)
    OBVIOUS
  <2>3. o \in Held
    BY <1>1, <2>1, HistIs
  <2>4. Importable /\ Commit(r)
    BY <1>1, <2>1, <2>2 DEF ImportMd
  <2>5. Commits(r) /\ r # Refused
    BY <2>1, <2>2, <2>4 DEF Commits, Commit
  <2>6. r \in Held
    BY <1>1, <2>5, CommitsHeld
  <2>7. Tree' = r
    BY <1>1, <2>4, <2>6, CommitIs
  <2>8. PICK x : x = MdOf[files[p]] /\ x \in Texts
    BY <1>1, <2>4, FilesAre
  <2>9. p \in Paths /\ p \in Ways \ {<<>>}
    BY <1>1, FilesAre, PathsAre
  <2>10. /\ PathItems(s) /\ Len(s) \in Nat
         /\ \A i \in 1 .. Len(s) : Differs(s[i][1]) /\ s[i][2] = Written(s[i][1])
         /\ \A q : Differs(q) => \E i \in 1 .. Len(s) : s[i][1] = q
    BY <1>1, <2>1, <2>4, ImportItemsAre DEF PathItems
  <2>11. ~Through(s, p)
    <3>1. SUFFICES ASSUME NEW i \in 1 .. Len(s), Above(p, s[i][1]) PROVE FALSE
      BY DEF Through
    <3>2. s[i][1] \in DOMAIN files
      BY <2>10 DEF Differs
    <3>3. \A a, b \in DOMAIN files : ~Above(a, b)
      BY <2>4 DEF Importable
    <3>4. QED
      BY <3>1, <3>2, <3>3
  <2>12. /\ \A j \in 1 .. Len(s) : LastFor(s, Len(s), j) /\ ~Through(s, s[j][1]) => EntryAt(r, s[j][1]) = s[j][2]
         /\ \A q \in Ways \ {<<>>} : ~Through(s, q) /\ (\A j \in 1 .. Len(s) : s[j][1] # q) =>
                 EntryAt(r, q) = EntryAt(o, q)
    <3>1. PathItems(s) /\ r # Refused
      BY <2>5, <2>10
    <3>2. QED
      BY <2>2, <2>3, <3>1, BulkIs
  <2>13. PICK before : before = {LeafEntry(hist[i], p) : i \in DOMAIN hist}
    OBVIOUS
  <2>14. PICK e : e = LeafEntry(r, p)
    OBVIOUS
  <2>15. CASE Differs(p)
    <3>1. PICK i \in 1 .. Len(s) : s[i][1] = p
      BY <2>10, <2>15
    <3>2. PICK j \in 1 .. Len(s) : s[j][1] = p /\ LastFor(s, Len(s), j)
      BY <2>10, <3>1, LastForExists
    <3>3. EntryAt(r, p) = Written(p)
      BY <2>10, <2>11, <2>12, <3>2
    <3>4. PICK n : n = InheritTime(p, x)
      OBVIOUS
    <3>5. /\ n \in 1 .. MaxCommits + 1
          /\ (\E k \in DOMAIN hist : LeafEntry(hist[k], p) # Refused /\ LeafEntry(hist[k], p).text = x)
                 => \E k \in DOMAIN hist : LeafEntry(hist[k], p) = Note(x, n)
      BY <1>1, <2>8, <2>9, <3>4, InheritTimeIs
    <3>6. Written(p) = Note(x, n)
      BY <2>8, <3>4 DEF Written
    <3>7. PICK a : a = Note(x, n) /\ a \in Notes
      BY <2>8, <3>5 DEF Notes
    <3>8. e = a /\ e.text = x
      BY <2>6, <2>9, <2>14, <3>3, <3>6, <3>7, LeafAt, NoTree DEF Note
    <3>9. e # Refused
      BY <3>7, <3>8, SentinelAssumption
    <3>10. ASSUME NEW d \in before \ {Refused}, d.text = e.text PROVE e \in before
      <4>1. PICK k \in DOMAIN hist : d = LeafEntry(hist[k], p)
        BY <2>13
      <4>2. \E k1 \in DOMAIN hist : LeafEntry(hist[k1], p) = Note(x, n)
        BY <3>5, <3>8, <3>10, <4>1
      <4>3. QED
        BY <2>13, <3>7, <3>8, <4>2
    <3>11. QED
      BY <2>7, <2>8, <2>13, <2>14, <3>8, <3>9, <3>10
  <2>16. CASE ~Differs(p)
    <3>1. LeafEntry(o, p) # Refused /\ LeafEntry(o, p).text = x
      BY <1>1, <2>1, <2>8, <2>16 DEF Differs
    <3>2. \A j \in 1 .. Len(s) : s[j][1] # p
      BY <2>10, <2>16
    <3>3. EntryAt(r, p) = EntryAt(o, p)
      BY <2>9, <2>11, <2>12, <3>2
    <3>4. e = LeafEntry(o, p)
      BY <2>3, <2>6, <2>9, <2>14, <3>3, LeafAt
    <3>5. hist # <<>>
      <4>1. SUFFICES ASSUME hist = <<>> PROVE FALSE
        OBVIOUS
      <4>2. o = EmptyTree
        BY <2>1, <4>1 DEF Tree
      <4>3. LeafEntry(EmptyTree, p) = Refused
        BY <2>9, NotesAre, EmptyHas
      <4>4. QED
        BY <3>1, <4>2, <4>3
    <3>6. e \in before
      BY <1>1, <2>1, <2>13, <3>4, <3>5, HistIs
    <3>7. QED
      BY <2>7, <2>8, <2>13, <2>14, <3>1, <3>4, <3>6
  <2>17. QED
    BY <2>15, <2>16
<1>2. Typed => (ImportMd => \A p \in DOMAIN files :
          LET e == LeafEntry(Tree', p)
              before == {LeafEntry(hist[i], p) : i \in DOMAIN hist}
              known  == \E d \in before \ {Refused} : d.text = e.text
          IN  e # Refused /\ e.text = MdOf[files[p]] /\ (known => e \in before))
  BY <1>1
<1>3. QED
  BY <1>2, AlwaysTyped, PTL DEF ImportRestores

-----------------------------------------------------------------------------
(* The flat view.                                                             *)

LEMMA FlatPaths == F!AllPaths = AllPaths
BY DEF AllPaths, F!AllPaths, F!Prefixes

LEMMA PrefixIs ==
    ASSUME NEW p \in Ways \ {<<>>}
    PROVE  /\ \A q : q \in F!Prefixes(p) <=> q \in Ways \ {<<>>} /\ Above(q, p)
           /\ \A d \in Ways \ {<<>>} : F!Under(d, p) <=> Starts(d, p)
<1>1. ASSUME NEW q \in F!Prefixes(p) PROVE q \in Ways \ {<<>>} /\ Above(q, p)
  <2>1. PICK i \in 1 .. Len(p) - 1 : q = Pre(p, i)
    BY DEF F!Prefixes, Pre
  <2>2. p \in Seq(Names) /\ Len(p) \in 0 .. Depth /\ Depth \in Nat
    BY WaysAre, DepthAssumption
  <2>3. i \in 0 .. Len(p) /\ i # 0 /\ i < Len(p)
    BY <2>1, <2>2
  <2>4. q \in Ways /\ q # <<>> /\ Len(q) = i
    BY <2>1, <2>2, <2>3, PreWays
  <2>5. QED
    BY <2>1, <2>3, <2>4 DEF Above, Pre
<1>2. ASSUME NEW q \in Ways \ {<<>>}, Above(q, p) PROVE q \in F!Prefixes(p)
  <2>1. PICK i : i = Len(q)
    OBVIOUS
  <2>2. i \in Nat /\ i # 0 /\ Len(p) \in Nat /\ i < Len(p)
    BY <1>2, <2>1, WaysAre, PathParts DEF Above
  <2>3. i \in 1 .. Len(p) - 1
    BY <2>2
  <2>4. q = SubSeq(p, 1, i)
    BY <1>2, <2>1 DEF Above
  <2>5. QED
    BY <2>3, <2>4 DEF F!Prefixes
<1>3. ASSUME NEW d \in Ways \ {<<>>} PROVE F!Under(d, p) <=> Starts(d, p)
  <2>1. d \in F!Prefixes(p) <=> Above(d, p)
    BY <1>1, <1>2
  <2>2. QED
    BY <2>1, AboveIs DEF F!Under
<1>4. QED
  BY <1>1, <1>2, <1>3

NoteAt(t, p) == IF LeafEntry(t, p) = Refused THEN Absent ELSE LeafEntry(t, p)

LEMMA FlatIs ==
    ASSUME NEW t \in Held, NEW f, f = Flat(t)
    PROVE  /\ f = [notes |-> f.notes, dirs |-> f.dirs]
           /\ f.notes = [p \in AllPaths |-> NoteAt(t, p)]
           /\ f.dirs \subseteq AllPaths
           /\ \A p \in Ways \ {<<>>} : p \in f.dirs <=> IsTree(EntryAt(t, p))
<1>1. /\ f = [notes |-> f.notes, dirs |-> f.dirs]
      /\ f.notes = [p \in AllPaths |-> NoteAt(t, p)]
      /\ f.dirs = BuildNode(t)
  BY DEF Flat, NoteAt
<1>2. ASSUME NEW p \in Ways \ {<<>>} PROVE p \in f.dirs <=> IsTree(EntryAt(t, p))
  <2>1. p \in f.dirs <=> WalkDir(t, p) # Refused
    BY <1>1 DEF BuildNode
  <2>2. QED
    BY <2>1, LeafAt DEF IsTree
<1>3. ASSUME NEW p \in f.dirs PROVE p \in AllPaths
  <2>1. p \in Ways \ {<<>>}
    BY <1>1 DEF BuildNode
  <2>2. QED
    BY <1>2, <2>1, HeldHas DEF IsTree
<1>4. QED
  BY <1>1, <1>2, <1>3

LEMMA NoteAtIs ==
    ASSUME NEW t \in Held, NEW p \in Ways \ {<<>>}
    PROVE  /\ NoteAt(t, p) = IF EntryAt(t, p) = Refused \/ IsTree(EntryAt(t, p)) THEN Absent ELSE EntryAt(t, p)
           /\ NoteAt(t, p) \in Notes \cup {Absent}
           /\ NoteAt(t, p) # Absent <=> LeafEntry(t, p) # Refused
           /\ NoteAt(t, p) # Absent <=> NoteAt(t, p) \in Notes
           /\ NoteAt(t, p) # Absent => p \in Paths /\ ~IsTree(EntryAt(t, p))
<1>1. LeafEntry(t, p) = IF IsTree(EntryAt(t, p)) THEN Refused ELSE EntryAt(t, p)
  BY LeafAt
<1>2. LeafEntry(t, p) \in Notes \cup {Refused} /\ (LeafEntry(t, p) # Refused => p \in Paths)
  BY LeafHeld
<1>3. QED
  BY <1>1, <1>2, SentinelAssumption DEF NoteAt

LEMMA AboveTree ==
    ASSUME NEW t \in Held, NEW p \in Ways \ {<<>>}, EntryAt(t, p) # Refused, NEW q \in Ways \ {<<>>}, Above(q, p)
    PROVE  IsTree(EntryAt(t, q))
<1>1. SUFFICES ASSUME ~IsTree(EntryAt(t, q)) PROVE FALSE
  OBVIOUS
<1>2. t \in TreesOf(Notes)
  BY DEF Held
<1>3. EntryAt(t, p) = Refused
  BY <1>1, <1>2, NotesAre, NothingBelow
<1>4. QED
  BY <1>3

LEMMA FlatType ==
    ASSUME NEW t \in Held
    PROVE  Flat(t) \in F!FlatTrees
<1>1. PICK f : f = Flat(t)
  OBVIOUS
<1>2. /\ f = [notes |-> f.notes, dirs |-> f.dirs]
      /\ f.notes = [p \in AllPaths |-> NoteAt(t, p)]
      /\ f.dirs \subseteq AllPaths
      /\ \A p \in Ways \ {<<>>} : p \in f.dirs <=> IsTree(EntryAt(t, p))
  BY <1>1, FlatIs
<1>3. \A p \in AllPaths : p \in Ways \ {<<>>}
  BY PathsAre
<1>4. f.notes \in [AllPaths -> Notes \cup {Absent}]
  BY <1>2, <1>3, NoteAtIs
<1>5. f \in [notes : [AllPaths -> Notes \cup {Absent}], dirs : SUBSET AllPaths]
  BY <1>2, <1>4
<1>6. ASSUME NEW p \in AllPaths, f.notes[p] # Absent
      PROVE  p \notin f.dirs /\ F!Prefixes(p) \subseteq f.dirs
  <2>1. p \in Ways \ {<<>>} /\ NoteAt(t, p) # Absent
    BY <1>2, <1>3, <1>6
  <2>2. ~IsTree(EntryAt(t, p)) /\ LeafEntry(t, p) # Refused
    BY <2>1, NoteAtIs
  <2>3. EntryAt(t, p) # Refused
    BY <2>1, <2>2, LeafAt
  <2>4. ASSUME NEW q \in F!Prefixes(p) PROVE q \in f.dirs
    <3>1. q \in Ways \ {<<>>} /\ Above(q, p)
      BY <2>1, PrefixIs
    <3>2. IsTree(EntryAt(t, q))
      BY <2>1, <2>3, <3>1, AboveTree
    <3>3. QED
      BY <1>2, <3>1, <3>2
  <2>5. QED
    BY <1>2, <2>1, <2>2, <2>4
<1>7. f \in F!FlatTrees
  BY <1>5, <1>6, FlatPaths DEF F!FlatTrees
<1>8. QED
  BY <1>1, <1>7

(* Every tree of the branch, of the clone and of the base is one of notes and *)
(* directories, and the index is there from the first commit on.              *)
THEOREM LibraryTypes == Spec => []TypeOK
<1>1. ASSUME Typed PROVE TypeOK
  <2>1. \A i \in DOMAIN hist : Flat(hist[i]) \in F!FlatTrees
    BY <1>1, HistIs, FlatType
  <2>2. Flat(theirs) \in F!FlatTrees /\ Flat(base) \in F!FlatTrees
    BY <1>1, FlatType DEF Typed
  <2>3. QED
    BY <1>1, <2>1, <2>2 DEF TypeOK, Typed
<1>2. QED
  BY <1>1, AlwaysTyped, PTL

LEMMA SameFlat ==
    ASSUME NEW u \in Held, NEW v \in Held, NEW p \in Ways \ {<<>>},
           \A q \in AllPaths : F!Under(p, q) =>
              NoteAt(u, q) = NoteAt(v, q) /\ (IsTree(EntryAt(u, q)) <=> IsTree(EntryAt(v, q)))
    PROVE  EntryAt(u, p) = EntryAt(v, p)
<1>1. u \in TreesOf(Notes) /\ v \in TreesOf(Notes)
  BY DEF Held
<1>2. ASSUME NEW q \in Ways, Starts(p, q) PROVE Agree(u, v, q)
  <2>1. q \in Ways \ {<<>>}
    BY <1>2, WaysAre, PathParts, EmptySeq DEF Starts
  <2>2. F!Under(p, q)
    BY <1>2, <2>1, PrefixIs
  <2>3. CASE q \in AllPaths
    <3>1. NoteAt(u, q) = NoteAt(v, q) /\ (IsTree(EntryAt(u, q)) <=> IsTree(EntryAt(v, q)))
      BY <2>2, <2>3
    <3>2. LeafEntry(u, q) \in Notes \cup {Refused} /\ LeafEntry(v, q) \in Notes \cup {Refused}
      BY <2>1, LeafHeld
    <3>3. LeafEntry(u, q) = LeafEntry(v, q)
      BY <3>1, <3>2, SentinelAssumption DEF NoteAt
    <3>4. WalkDir(u, q) = Refused <=> WalkDir(v, q) = Refused
      BY <2>1, <3>1, LeafAt DEF IsTree
    <3>5. QED
      BY <3>3, <3>4 DEF Agree
  <2>4. CASE q \notin AllPaths
    <3>1. EntryAt(u, q) = Refused /\ EntryAt(v, q) = Refused
      BY <2>1, <2>4, HeldHas
    <3>2. QED
      BY <2>1, <3>1, LeafAt DEF Agree
  <2>5. QED
    BY <2>3, <2>4
<1>3. QED
  BY <1>1, <1>2, NotesAre, SameBelow

LEMMA MergeFlat ==
    ASSUME NEW b \in Held, NEW o \in Held, NEW t \in Held, NEW m, m = MergeTrees(b, o, t),
           NEW r, r = m.tree, NEW p \in Ways \ {<<>>}
    PROVE  /\ Conflicts(m.conflicts, p) =>
                 /\ NoteAt(r, p) = NoteAt(o, p)
                 /\ IsTree(EntryAt(r, p)) <=> IsTree(EntryAt(o, p))
           /\ ~Conflicts(m.conflicts, p) =>
                 /\ NoteAt(r, p) = IF NoteAt(o, p) = NoteAt(b, p) THEN NoteAt(t, p) ELSE NoteAt(o, p)
                 /\ IsTree(EntryAt(r, p)) <=> IF IsTree(EntryAt(o, p)) <=> IsTree(EntryAt(b, p))
                                              THEN IsTree(EntryAt(t, p)) ELSE IsTree(EntryAt(o, p))
<1>1. r \in Held
  BY MergeHeld
<1>2. \A u, v \in Held : EntryAt(u, p) = EntryAt(v, p) =>
         NoteAt(u, p) = NoteAt(v, p) /\ (IsTree(EntryAt(u, p)) <=> IsTree(EntryAt(v, p)))
  BY NoteAtIs
<1>3. CASE DownTo(b, o, t, p) /\ ~Conflicts(m.conflicts, p) /\ IsTree(EntryAt(r, p))
  <2>1. Starts(p, p)
    BY AboveIs
  <2>2. IsTree(EntryAt(o, p)) /\ IsTree(EntryAt(t, p))
    BY <1>3, <2>1 DEF DownTo, Descended
  <2>3. NoteAt(o, p) = Absent /\ NoteAt(t, p) = Absent /\ NoteAt(r, p) = Absent
    BY <1>1, <1>3, <2>2, NoteAtIs
  <2>4. QED
    BY <1>3, <2>2, <2>3
<1>4. CASE EntryAt(r, p) = EntryAt(o, p) /\ Conflicts(m.conflicts, p)
  BY <1>1, <1>2, <1>4
<1>5. CASE EntryAt(r, p) = EntryAt(o, p) /\ ~Conflicts(m.conflicts, p) /\ EntryAt(o, p) = EntryAt(t, p)
  BY <1>1, <1>2, <1>5
<1>6. CASE EntryAt(r, p) = EntryAt(o, p) /\ ~Conflicts(m.conflicts, p) /\ EntryAt(t, p) = EntryAt(b, p)
  BY <1>1, <1>2, <1>6
<1>7. CASE EntryAt(r, p) = EntryAt(t, p) /\ ~Conflicts(m.conflicts, p) /\ EntryAt(o, p) = EntryAt(b, p)
  BY <1>1, <1>2, <1>7
<1>8. QED
  BY <1>3, <1>4, <1>5, <1>6, <1>7, MergeHeld

LEMMA ConflictPath ==
    ASSUME NEW b \in Held, NEW o \in Held, NEW t \in Held, NEW m, m = MergeTrees(b, o, t), NEW c \in m.conflicts
    PROVE  /\ c.path \in Ways \ {<<>>}
           /\ EntryAt(o, c.path) # EntryAt(b, c.path) /\ EntryAt(t, c.path) # EntryAt(b, c.path)
<1>1. IsConflict(b, o, t, c)
  BY MergeHeld
<1>2. PICK p \in Ways : p # <<>> /\ Clash(b, o, t, p) /\ c = ConflictAt(o, t, p)
  BY <1>1 DEF IsConflict
<1>3. c.path = p
  BY <1>2 DEF ConflictAt
<1>4. QED
  BY <1>2, <1>3 DEF Clash

LEMMA UnderConflict ==
    ASSUME NEW b \in Held, NEW o \in Held, NEW t \in Held, NEW m, m = MergeTrees(b, o, t),
           NEW p \in Ways \ {<<>>}
    PROVE  (\E c \in m.conflicts : F!Under(c.path, p)) <=> Conflicts(m.conflicts, p)
<1>1. \A c \in m.conflicts : c.path \in Ways \ {<<>>}
  BY ConflictPath
<1>2. \A c \in m.conflicts : F!Under(c.path, p) <=> Starts(c.path, p)
  BY <1>1, PrefixIs
<1>3. QED
  BY <1>2 DEF Conflicts

(* ConflictsAreExact of a merge m and the flat views.                         *)
Exact(m, b, o, t, r) ==
    LET at(p) == \E c \in m.conflicts : F!Under(c.path, p)
        three == F!Merge3(b, o, t)
        same(f, g, d) == \A p \in AllPaths : F!Under(d, p) =>
                            f.notes[p] = g.notes[p] /\ (p \in f.dirs <=> p \in g.dirs)
    IN  /\ \A p \in AllPaths : LET as == IF at(p) THEN o ELSE three
                                IN  r.notes[p] = as.notes[p] /\ (p \in r.dirs <=> p \in as.dirs)
        /\ \A c \in m.conflicts : ~same(b, o, c.path) /\ ~same(b, t, c.path)

(* A merge, with conflicts or without: at and under the paths it reports it   *)
(* leaves ours, everywhere else the merge path by path, and it reports none   *)
(* where one side has changed nothing (merge.go:282).                         *)
THEOREM MergeIsExact == Spec => []ConflictsAreExact
<1>1. ASSUME NEW x \in Held, NEW y \in Held, NEW z \in Held, NEW m, m = MergeTrees(x, y, z),
             NEW b, b = Flat(x), NEW o, o = Flat(y), NEW t, t = Flat(z), NEW r, r = Flat(m.tree)
      PROVE  Exact(m, b, o, t, r)
  <2>1. PICK w : w = m.tree /\ w \in Held
    BY <1>1, MergeHeld
  <2>2. ASSUME NEW p \in AllPaths
        PROVE  /\ p \in Ways \ {<<>>}
               /\ b.notes[p] = NoteAt(x, p) /\ (p \in b.dirs <=> IsTree(EntryAt(x, p)))
               /\ o.notes[p] = NoteAt(y, p) /\ (p \in o.dirs <=> IsTree(EntryAt(y, p)))
               /\ t.notes[p] = NoteAt(z, p) /\ (p \in t.dirs <=> IsTree(EntryAt(z, p)))
               /\ r.notes[p] = NoteAt(w, p) /\ (p \in r.dirs <=> IsTree(EntryAt(w, p)))
    <3>1. p \in Ways \ {<<>>}
      BY PathsAre
    <3>2. ASSUME NEW u \in Held, NEW f, f = Flat(u)
          PROVE  f.notes[p] = NoteAt(u, p) /\ (p \in f.dirs <=> IsTree(EntryAt(u, p)))
      <4>1. f.notes = [q \in AllPaths |-> NoteAt(u, q)] /\ \A q \in Ways \ {<<>>} : q \in f.dirs <=> IsTree(EntryAt(u, q))
        BY <3>2, FlatIs
      <4>2. QED
        BY <3>1, <4>1
    <3>3. QED
      BY <1>1, <2>1, <3>1, <3>2
  <2>3. PICK three : three = F!Merge3(b, o, t)
    OBVIOUS
  <2>4. ASSUME NEW p \in AllPaths
        PROVE  /\ three.notes[p] = IF NoteAt(y, p) = NoteAt(x, p) THEN NoteAt(z, p) ELSE NoteAt(y, p)
               /\ p \in three.dirs <=> IF IsTree(EntryAt(y, p)) <=> IsTree(EntryAt(x, p))
                                       THEN IsTree(EntryAt(z, p)) ELSE IsTree(EntryAt(y, p))
    <3>1. /\ three.notes = [q \in AllPaths |-> F!ThreeWay(b.notes[q], o.notes[q], t.notes[q])]
          /\ three.dirs = {q \in AllPaths : F!ThreeWay(q \in b.dirs, q \in o.dirs, q \in t.dirs)}
      BY <2>3, FlatPaths DEF F!Merge3
    <3>2. three.notes[p] = F!ThreeWay(b.notes[p], o.notes[p], t.notes[p])
      BY <3>1
    <3>3. p \in three.dirs <=> F!ThreeWay(p \in b.dirs, p \in o.dirs, p \in t.dirs)
      BY <3>1
    <3>4. p \in three.dirs <=> IF (p \in o.dirs) = (p \in b.dirs) THEN p \in t.dirs ELSE p \in o.dirs
      BY <3>3 DEF F!ThreeWay
    <3>5. QED
      BY <2>2, <3>2, <3>4 DEF F!ThreeWay
  <2>5. ASSUME NEW p \in AllPaths
        PROVE  /\ (\E c \in m.conflicts : F!Under(c.path, p)) =>
                      r.notes[p] = o.notes[p] /\ (p \in r.dirs <=> p \in o.dirs)
               /\ ~(\E c \in m.conflicts : F!Under(c.path, p)) =>
                      r.notes[p] = three.notes[p] /\ (p \in r.dirs <=> p \in three.dirs)
    <3>1. p \in Ways \ {<<>>}
      BY <2>2
    <3>2. (\E c \in m.conflicts : F!Under(c.path, p)) <=> Conflicts(m.conflicts, p)
      BY <1>1, <3>1, UnderConflict
    <3>3. /\ Conflicts(m.conflicts, p) =>
                 /\ NoteAt(w, p) = NoteAt(y, p)
                 /\ IsTree(EntryAt(w, p)) <=> IsTree(EntryAt(y, p))
          /\ ~Conflicts(m.conflicts, p) =>
                 /\ NoteAt(w, p) = IF NoteAt(y, p) = NoteAt(x, p) THEN NoteAt(z, p) ELSE NoteAt(y, p)
                 /\ IsTree(EntryAt(w, p)) <=> IF IsTree(EntryAt(y, p)) <=> IsTree(EntryAt(x, p))
                                              THEN IsTree(EntryAt(z, p)) ELSE IsTree(EntryAt(y, p))
      BY <1>1, <2>1, <3>1, MergeFlat
    <3>4. QED
      BY <2>2, <2>4, <3>2, <3>3
  <2>6. ASSUME NEW c \in m.conflicts, NEW v \in Held, NEW g, g = Flat(v), EntryAt(v, c.path) # EntryAt(x, c.path)
        PROVE  ~ \A p \in AllPaths : F!Under(c.path, p) =>
                    b.notes[p] = g.notes[p] /\ (p \in b.dirs <=> p \in g.dirs)
    <3>1. SUFFICES ASSUME \A p \in AllPaths : F!Under(c.path, p) =>
                              b.notes[p] = g.notes[p] /\ (p \in b.dirs <=> p \in g.dirs)
                   PROVE  FALSE
      OBVIOUS
    <3>2. PICK d : d = c.path /\ d \in Ways \ {<<>>}
      BY <1>1, ConflictPath
    <3>3. ASSUME NEW p \in AllPaths
          PROVE  p \in Ways /\ g.notes[p] = NoteAt(v, p) /\ (p \in g.dirs <=> IsTree(EntryAt(v, p)))
      <4>1. g.notes = [q \in AllPaths |-> NoteAt(v, q)] /\ \A q \in Ways \ {<<>>} : q \in g.dirs <=> IsTree(EntryAt(v, q))
        BY <2>6, FlatIs
      <4>2. QED
        BY <2>2, <4>1
    <3>4. ASSUME NEW q \in AllPaths, F!Under(d, q)
          PROVE  NoteAt(x, q) = NoteAt(v, q) /\ (IsTree(EntryAt(x, q)) <=> IsTree(EntryAt(v, q)))
      BY <2>2, <3>1, <3>2, <3>3, <3>4
    <3>5. EntryAt(x, d) = EntryAt(v, d)
      BY <3>2, <3>4, SameFlat
    <3>6. QED
      BY <2>6, <3>2, <3>5
  <2>7. ASSUME NEW c \in m.conflicts
        PROVE  /\ ~ \A p \in AllPaths : F!Under(c.path, p) =>
                       b.notes[p] = o.notes[p] /\ (p \in b.dirs <=> p \in o.dirs)
               /\ ~ \A p \in AllPaths : F!Under(c.path, p) =>
                       b.notes[p] = t.notes[p] /\ (p \in b.dirs <=> p \in t.dirs)
    <3>1. EntryAt(y, c.path) # EntryAt(x, c.path) /\ EntryAt(z, c.path) # EntryAt(x, c.path)
      BY <1>1, ConflictPath
    <3>2. QED
      BY <1>1, <2>6, <3>1
  <2>8. QED
    BY <2>3, <2>5, <2>7 DEF Exact
<1>2. ASSUME Typed PROVE ConflictsAreExact
  <2>1. PICK x, y, z : x = base /\ y = Tree /\ z = theirs /\ x \in Held /\ y \in Held /\ z \in Held
    BY <1>2, HistIs DEF Typed
  <2>2. PICK m : m = MergeTrees(x, y, z)
    OBVIOUS
  <2>3. PICK b, o, t, r : b = Flat(x) /\ o = Flat(y) /\ t = Flat(z) /\ r = Flat(m.tree)
    OBVIOUS
  <2>4. Exact(m, b, o, t, r)
    BY <1>1, <2>1, <2>2, <2>3
  <2>5. Exact(MergeTrees(base, Tree, theirs), Flat(base), Flat(Tree), Flat(theirs),
              Flat(MergeTrees(base, Tree, theirs).tree))
    BY <2>1, <2>2, <2>3, <2>4
  <2>6. QED
    BY <2>5 DEF ConflictsAreExact, Exact
<1>3. QED
  BY <1>2, AlwaysTyped, PTL

-----------------------------------------------------------------------------
(* The refinement of FlatNotes.                                               *)

LEMMA FlatEq ==
    ASSUME NEW r \in Held, NEW notes, NEW dirs,
           notes = [q \in AllPaths |-> NoteAt(r, q)],
           dirs \subseteq AllPaths,
           \A q \in AllPaths : q \in dirs <=> IsTree(EntryAt(r, q))
    PROVE  Flat(r) = [notes |-> notes, dirs |-> dirs]
<1>1. PICK g : g = Flat(r)
  OBVIOUS
<1>2. /\ g = [notes |-> g.notes, dirs |-> g.dirs]
      /\ g.notes = [p \in AllPaths |-> NoteAt(r, p)]
      /\ g.dirs \subseteq AllPaths
      /\ \A p \in Ways \ {<<>>} : p \in g.dirs <=> IsTree(EntryAt(r, p))
  BY <1>1, FlatIs
<1>3. \A q \in AllPaths : q \in Ways \ {<<>>}
  BY PathsAre
<1>4. g.dirs = dirs
  BY <1>2, <1>3
<1>5. QED
  BY <1>1, <1>2, <1>4

(* Directories stand only where a command can put one.                        *)
LEMMA FlatPut ==
    ASSUME NEW t \in Held, NEW r \in Held, NEW f, f = Flat(t), NEW batch \in SUBSET Paths,
           NEW new, DOMAIN new = batch,
           \A q \in AllPaths : NoteAt(r, q) = IF q \in batch THEN new[q] ELSE NoteAt(t, q),
           \A q \in Ways \ {<<>>} : IsTree(EntryAt(r, q)) <=>
                                       IsTree(EntryAt(t, q)) \/ \E p \in batch : Above(q, p)
    PROVE  Flat(r) = F!Put(f, new)
<1>1. /\ f.notes = [p \in AllPaths |-> NoteAt(t, p)]
      /\ f.dirs \subseteq AllPaths
      /\ \A p \in Ways \ {<<>>} : p \in f.dirs <=> IsTree(EntryAt(t, p))
  BY FlatIs
<1>2. PICK notes : notes = [p \in AllPaths |-> IF p \in DOMAIN new THEN new[p] ELSE f.notes[p]]
  OBVIOUS
<1>3. PICK dirs : dirs = f.dirs \cup UNION {F!Prefixes(p) : p \in DOMAIN new}
  OBVIOUS
<1>4. \A q \in AllPaths : q \in Ways \ {<<>>}
  BY PathsAre
<1>5. notes = [q \in AllPaths |-> NoteAt(r, q)]
  BY <1>1, <1>2
<1>6. \A q : q \in dirs <=> q \in f.dirs \/ (q \in Ways \ {<<>>} /\ \E p \in batch : Above(q, p))
  <2>1. \A p \in batch : p \in Ways \ {<<>>}
    BY PathsAre
  <2>2. \A p \in batch : \A q : q \in F!Prefixes(p) <=> q \in Ways \ {<<>>} /\ Above(q, p)
    BY <2>1, PrefixIs
  <2>3. QED
    BY <1>3, <2>2
<1>7. \A q \in AllPaths : q \in dirs <=> IsTree(EntryAt(r, q))
  BY <1>1, <1>4, <1>6
<1>8. ASSUME NEW q \in dirs PROVE q \in AllPaths
  <2>1. CASE q \in f.dirs
    BY <1>1, <2>1
  <2>2. CASE q \in Ways \ {<<>>} /\ \E p \in batch : Above(q, p)
    <3>1. PICK p \in batch : Above(q, p)
      BY <2>2
    <3>2. IsTree(EntryAt(r, q))
      BY <2>2
    <3>3. QED
      BY <2>2, <3>2, HeldHas DEF IsTree
  <2>3. QED
    BY <1>6, <2>1, <2>2
<1>9. Flat(r) = [notes |-> notes, dirs |-> dirs]
  BY <1>5, <1>7, <1>8, FlatEq
<1>10. F!Put(f, new) = [notes |-> notes, dirs |-> dirs]
  BY <1>2, <1>3, FlatPaths DEF F!Put
<1>11. QED
  BY <1>9, <1>10

LEMMA FlatRemoved ==
    ASSUME NEW t \in Held, NEW r \in Held, NEW f, f = Flat(t), NEW d \in Paths,
           Changed(t, r, d, Refused), EntryAt(t, d) # Refused
    PROVE  Flat(r) = F!Removed(f, d)
<1>1. /\ f.notes = [p \in AllPaths |-> NoteAt(t, p)]
      /\ f.dirs \subseteq AllPaths
      /\ \A p \in Ways \ {<<>>} : p \in f.dirs <=> IsTree(EntryAt(t, p))
  BY FlatIs
<1>2. PICK notes : notes = [p \in AllPaths |-> IF F!Under(d, p) THEN Absent ELSE f.notes[p]]
  OBVIOUS
<1>3. PICK dirs : dirs = {q \in f.dirs : ~F!Under(d, q)}
  OBVIOUS
<1>4. d \in Ways \ {<<>>} /\ \A q \in AllPaths : q \in Ways \ {<<>>}
  BY PathsAre
<1>5. ASSUME NEW q \in AllPaths
      PROVE  /\ F!Under(d, q) => NoteAt(r, q) = Absent /\ ~IsTree(EntryAt(r, q))
             /\ ~F!Under(d, q) => /\ NoteAt(r, q) = NoteAt(t, q)
                                  /\ IsTree(EntryAt(r, q)) <=> IsTree(EntryAt(t, q))
  <2>1. q \in Ways \ {<<>>} /\ (F!Under(d, q) <=> Starts(d, q))
    BY <1>4, PrefixIs
  <2>2. CASE Starts(d, q)
    <3>1. EntryAt(r, q) = Refused
      BY <1>4, <2>1, <2>2, AboveIs DEF Changed
    <3>2. QED
      BY <2>1, <2>2, <3>1, NoteAtIs DEF IsTree
  <2>3. CASE ~Starts(d, q) /\ Above(q, d)
    <3>1. IsTree(EntryAt(r, q)) /\ IsTree(EntryAt(t, q))
      BY <1>4, <2>1, <2>3, AboveTree DEF Changed
    <3>2. QED
      BY <2>1, <2>3, <3>1, NoteAtIs
  <2>4. CASE ~Starts(d, q) /\ ~Above(q, d)
    <3>1. ~Starts(q, d)
      BY <1>4, <2>1, <2>4, AboveIs
    <3>2. EntryAt(r, q) = EntryAt(t, q)
      BY <2>1, <2>4, <3>1 DEF Changed
    <3>3. QED
      BY <2>1, <2>4, <3>2, NoteAtIs
  <2>5. QED
    BY <2>2, <2>3, <2>4
<1>6. notes = [q \in AllPaths |-> NoteAt(r, q)]
  BY <1>1, <1>2, <1>5
<1>7. \A q \in AllPaths : q \in dirs <=> IsTree(EntryAt(r, q))
  BY <1>1, <1>3, <1>4, <1>5
<1>8. dirs \subseteq AllPaths
  BY <1>1, <1>3
<1>9. Flat(r) = [notes |-> notes, dirs |-> dirs]
  BY <1>6, <1>7, <1>8, FlatEq
<1>10. F!Removed(f, d) = [notes |-> notes, dirs |-> dirs]
  BY <1>2, <1>3, FlatPaths DEF F!Removed
<1>11. QED
  BY <1>9, <1>10

LEMMA FlatFits ==
    ASSUME NEW t \in Held, NEW f, f = Flat(t), NEW p \in Paths, ~IsTree(EntryAt(t, p)),
           \A q \in Ways \ {<<>>} : Above(q, p) => EntryAt(t, q) = Refused \/ IsTree(EntryAt(t, q))
    PROVE  F!Fits(f, p)
<1>1. /\ f.notes = [q \in AllPaths |-> NoteAt(t, q)]
      /\ \A q \in Ways \ {<<>>} : q \in f.dirs <=> IsTree(EntryAt(t, q))
  BY FlatIs
<1>2. p \in Ways \ {<<>>}
  BY PathsAre
<1>3. ASSUME NEW q \in F!Prefixes(p) PROVE f.notes[q] = Absent
  <2>1. q \in Ways \ {<<>>} /\ Above(q, p)
    BY <1>2, PrefixIs
  <2>2. q \in AllPaths
    BY <1>2, <2>1, AboveIs, PathsAre
  <2>3. QED
    BY <1>1, <2>1, <2>2, NoteAtIs
<1>4. QED
  BY <1>1, <1>2, <1>3 DEF F!Fits

LEMMA FlatSetNote ==
    ASSUME NEW t \in Held, NEW p \in Paths, NEW a \in Notes, NEW r, r = SetNote(t, p, a), r # Refused
    PROVE  F!IsEdit(Flat(t), Flat(r))
<1>1. /\ r \in Held /\ Changed(t, r, p, a) /\ ~IsTree(EntryAt(t, p))
      /\ \A q \in Ways \ {<<>>} : LeafEntry(r, q) = IF q = p THEN a ELSE LeafEntry(t, q)
  BY SetNoteIs
<1>2. PICK f, g : f = Flat(t) /\ g = Flat(r)
  OBVIOUS
<1>3. p \in Ways \ {<<>>} /\ p \in AllPaths /\ \A q \in AllPaths : q \in Ways \ {<<>>}
  BY PathsAre
<1>4. F!Fits(f, p)
  BY <1>1, <1>2, FlatFits DEF Changed
<1>5. a # Refused
  BY SentinelAssumption
<1>6. g.notes = [q \in AllPaths |-> NoteAt(r, q)]
  BY <1>1, <1>2, FlatIs
<1>7. \A q \in AllPaths : NoteAt(r, q) = IF q = p THEN a ELSE NoteAt(t, q)
  BY <1>1, <1>3, <1>5 DEF NoteAt
<1>8. g.notes[p] = a
  BY <1>3, <1>6, <1>7
<1>9. PICK new : new = [q \in {p} |-> g.notes[p]]
  OBVIOUS
<1>10. ASSUME NEW q \in Ways \ {<<>>}
       PROVE  IsTree(EntryAt(r, q)) <=> IsTree(EntryAt(t, q)) \/ \E x \in {p} : Above(q, x)
  <2>1. CASE q = p
    <3>1. EntryAt(r, q) = a /\ ~Above(q, p)
      BY <1>1, <1>3, <2>1, AboveIs DEF Changed
    <3>2. QED
      BY <1>1, <2>1, <3>1, NoTree
  <2>2. CASE Above(q, p)
    BY <1>1, <2>2 DEF Changed
  <2>3. CASE Above(p, q)
    <3>1. t \in TreesOf(Notes)
      BY DEF Held
    <3>2. EntryAt(r, q) = Refused /\ EntryAt(t, q) = Refused
      BY <1>1, <1>3, <2>3, <3>1, NotesAre, NothingBelow DEF Changed
    <3>3. ~Above(q, p)
      BY <1>3, <2>3, WaysAre DEF Above
    <3>4. QED
      BY <3>2, <3>3 DEF IsTree
  <2>4. CASE q # p /\ ~Above(q, p) /\ ~Above(p, q)
    <3>1. ~Starts(q, p) /\ ~Starts(p, q)
      BY <1>3, <2>4, AboveIs
    <3>2. QED
      BY <1>1, <2>4, <3>1 DEF Changed
  <2>5. QED
    BY <2>1, <2>2, <2>3, <2>4
<1>11. g = F!Put(f, new)
  <2>1. PICK batch \in SUBSET Paths : batch = {p}
    OBVIOUS
  <2>2. DOMAIN new = batch /\ new[p] = a
    BY <1>8, <1>9, <2>1
  <2>3. \A q \in AllPaths : NoteAt(r, q) = IF q \in batch THEN new[q] ELSE NoteAt(t, q)
    BY <1>7, <2>1, <2>2
  <2>4. \A q \in Ways \ {<<>>} : IsTree(EntryAt(r, q)) <=>
                                    IsTree(EntryAt(t, q)) \/ \E x \in batch : Above(q, x)
    BY <1>10, <2>1
  <2>5. Flat(r) = F!Put(f, new)
    BY <1>1, <1>2, <2>2, <2>3, <2>4, FlatPut
  <2>6. QED
    BY <1>2, <2>5
<1>12. F!IsEdit(f, g)
  BY <1>4, <1>8, <1>9, <1>11 DEF F!IsEdit
<1>13. QED
  BY <1>2, <1>12

LEMMA FlatMkdir ==
    ASSUME NEW t \in Held, NEW p \in Paths, ~DirExists(t, p), NEW r, r = Mkdir(t, p), r # Refused
    PROVE  F!IsEdit(Flat(t), Flat(r))
<1>1. /\ r \in Held
      /\ \A q \in Ways \ {<<>>} : Starts(q, p) =>
            IsTree(EntryAt(r, q)) /\ (EntryAt(t, q) = Refused \/ IsTree(EntryAt(t, q)))
      /\ \A q \in Ways \ {<<>>} : ~Starts(q, p) => EntryAt(r, q) = EntryAt(t, q)
  BY MkdirHeld
<1>2. PICK f : f = Flat(t)
  OBVIOUS
<1>3. /\ f = [notes |-> f.notes, dirs |-> f.dirs]
      /\ f.notes = [q \in AllPaths |-> NoteAt(t, q)]
      /\ f.dirs \subseteq AllPaths
      /\ \A q \in Ways \ {<<>>} : q \in f.dirs <=> IsTree(EntryAt(t, q))
  BY <1>2, FlatIs
<1>4. p \in Ways \ {<<>>} /\ p \in AllPaths /\ \A q \in AllPaths : q \in Ways \ {<<>>}
  BY PathsAre
<1>5. \A q : q \in F!Prefixes(p) <=> q \in Ways \ {<<>>} /\ Above(q, p)
  BY <1>4, PrefixIs
<1>6. \A q \in Ways \ {<<>>} : Starts(q, p) <=> q = p \/ q \in F!Prefixes(p)
  BY <1>4, <1>5, AboveIs
<1>7. \A q \in Ways \ {<<>>} : Starts(q, p) => q \in AllPaths /\ NoteAt(t, q) = Absent /\ NoteAt(r, q) = Absent
  <2>1. ASSUME NEW q \in Ways \ {<<>>}, Starts(q, p)
        PROVE  q \in AllPaths /\ NoteAt(t, q) = Absent /\ NoteAt(r, q) = Absent
    <3>1. q \in AllPaths
      BY <2>1, PathsAre
    <3>2. IsTree(EntryAt(r, q)) /\ (EntryAt(t, q) = Refused \/ IsTree(EntryAt(t, q)))
      BY <1>1, <2>1
    <3>3. QED
      BY <1>1, <3>1, <3>2, NoteAtIs
  <2>2. QED
    BY <2>1
<1>8. PICK dirs : dirs = f.dirs \cup {p} \cup F!Prefixes(p)
  OBVIOUS
<1>9. dirs \subseteq AllPaths
  <2>1. ASSUME NEW q \in F!Prefixes(p) PROVE q \in AllPaths
    BY <1>5, <1>6, <1>7
  <2>2. QED
    BY <1>3, <1>4, <1>8, <2>1
<1>10. ASSUME NEW q \in AllPaths
       PROVE  NoteAt(r, q) = NoteAt(t, q) /\ (q \in dirs <=> IsTree(EntryAt(r, q)))
  <2>1. CASE Starts(q, p)
    BY <1>1, <1>4, <1>6, <1>7, <1>8, <2>1
  <2>2. CASE ~Starts(q, p)
    <3>1. EntryAt(r, q) = EntryAt(t, q)
      BY <1>1, <1>4, <2>2
    <3>2. q \in dirs <=> q \in f.dirs
      BY <1>4, <1>6, <1>8, <2>2
    <3>3. QED
      BY <1>1, <1>3, <1>4, <3>1, <3>2, NoteAtIs
  <2>3. QED
    BY <2>1, <2>2
<1>11. f.notes = [q \in AllPaths |-> NoteAt(r, q)]
  BY <1>3, <1>10
<1>12. Flat(r) = [notes |-> f.notes, dirs |-> dirs]
  <2>1. PICK notes : notes = f.notes
    OBVIOUS
  <2>2. notes = [q \in AllPaths |-> NoteAt(r, q)]
    BY <1>11, <2>1
  <2>3. \A q \in AllPaths : q \in dirs <=> IsTree(EntryAt(r, q))
    BY <1>10
  <2>4. r \in Held
    BY <1>1
  <2>5. Flat(r) = [notes |-> notes, dirs |-> dirs]
    BY <1>9, <2>2, <2>3, <2>4, FlatEq
  <2>6. QED
    BY <2>1, <2>5
<1>13. Flat(r) = [f EXCEPT !.dirs = @ \cup {p} \cup F!Prefixes(p)]
  <2>1. f = [notes |-> f.notes, dirs |-> f.dirs]
    BY <1>3
  <2>2. [f EXCEPT !.dirs = @ \cup {p} \cup F!Prefixes(p)] = [notes |-> f.notes, dirs |-> f.dirs \cup {p} \cup F!Prefixes(p)]
    BY <2>1
  <2>3. QED
    BY <1>8, <1>12, <2>2
<1>14. f.notes[p] = Absent /\ \A d \in F!Prefixes(p) : f.notes[d] = Absent
  <2>1. f.notes[p] = Absent
    BY <1>3, <1>4, <1>6, <1>7
  <2>2. ASSUME NEW d \in F!Prefixes(p) PROVE f.notes[d] = Absent
    <3>1. d \in Ways \ {<<>>} /\ Starts(d, p)
      BY <1>5, <1>6
    <3>2. QED
      BY <1>3, <1>7, <3>1
  <2>3. QED
    BY <2>1, <2>2
<1>15. F!IsEdit(f, Flat(r))
  BY <1>13, <1>14 DEF F!IsEdit
<1>16. QED
  BY <1>2, <1>15

LEMMA FlatEdit ==
    ASSUME Typed, NEW t \in Held, NEW p \in Paths, NEW r, r # Refused,
           \/ \E x \in Texts : r = SetNote(t, p, Note(x, Now))
           \/ r = RemoveNote(t, p)
           \/ \E all : r = RemoveDir(t, p, all)
           \/ r = Mkdir(t, p) /\ ~DirExists(t, p)
    PROVE  F!IsEdit(Flat(t), Flat(r))
<1>1. CASE \E x \in Texts : r = SetNote(t, p, Note(x, Now))
  <2>1. PICK x \in Texts : r = SetNote(t, p, Note(x, Now))
    BY <1>1
  <2>2. PICK a : a = Note(x, Now) /\ a \in Notes
    BY NotesNow
  <2>3. QED
    BY <2>1, <2>2, FlatSetNote
<1>2. PICK f : f = Flat(t)
  OBVIOUS
<1>3. /\ f.notes = [q \in AllPaths |-> NoteAt(t, q)]
      /\ \A q \in Ways \ {<<>>} : q \in f.dirs <=> IsTree(EntryAt(t, q))
  BY <1>2, FlatIs
<1>4. p \in AllPaths /\ p \in Ways \ {<<>>}
  BY PathsAre
<1>5. CASE r = RemoveNote(t, p)
  <2>1. r \in Held /\ Changed(t, r, p, Refused) /\ LeafEntry(t, p) # Refused
    BY <1>5, RemoveNoteIs
  <2>2. EntryAt(t, p) # Refused /\ f.notes[p] # Absent
    BY <1>3, <1>4, <2>1, LeafAt, NoteAtIs
  <2>3. Flat(r) = F!Removed(f, p)
    BY <1>2, <2>1, <2>2, FlatRemoved
  <2>4. F!IsEdit(f, Flat(r))
    BY <2>2, <2>3 DEF F!IsEdit
  <2>5. QED
    BY <1>2, <2>4
<1>6. CASE \E all : r = RemoveDir(t, p, all)
  <2>1. r \in Held /\ Changed(t, r, p, Refused) /\ IsTree(EntryAt(t, p))
    BY <1>6, RemoveDirHeld
  <2>2. EntryAt(t, p) # Refused /\ p \in f.dirs
    BY <1>3, <1>4, <2>1 DEF IsTree
  <2>3. Flat(r) = F!Removed(f, p)
    BY <1>2, <2>1, <2>2, FlatRemoved
  <2>4. F!IsEdit(f, Flat(r))
    BY <2>2, <2>3 DEF F!IsEdit
  <2>5. QED
    BY <1>2, <2>4
<1>7. CASE r = Mkdir(t, p) /\ ~DirExists(t, p)
  BY <1>7, FlatMkdir
<1>8. QED
  BY <1>1, <1>5, <1>6, <1>7

(* The last item below a directory an import goes through: nothing goes       *)
(* through its path.                                                          *)
LEMMA ItemBelow ==
    ASSUME NEW s, PathItems(s), NEW q \in Ways \ {<<>>}, Through(s, q)
    PROVE  \E j \in 1 .. Len(s) : Above(q, s[j][1]) /\ ~Through(s, s[j][1])
<1> DEFINE D == {w \in Ways : Above(q, w) /\ \E j \in 1 .. Len(s) : w = s[j][1]}
<1>1. \A j \in 1 .. Len(s) : s[j][1] \in Paths /\ s[j][1] \in Ways
  BY PathsAre DEF PathItems
<1>2. D \in SUBSET Ways /\ D # {}
  <2>1. PICK j \in 1 .. Len(s) : Above(q, s[j][1])
    BY DEF Through
  <2>2. s[j][1] \in D
    BY <1>1, <2>1
  <2>3. QED
    BY <2>2
<1>3. PICK d \in D : \A w \in Ways : Len(w) > Len(d) => w \notin D
  BY <1>2, DeepestOf
<1>4. PICK j \in 1 .. Len(s) : d = s[j][1]
  BY <1>3
<1>5. d \in Ways /\ Above(q, d)
  BY <1>3
<1>6. ASSUME NEW i \in 1 .. Len(s), Above(d, s[i][1]) PROVE FALSE
  <2>1. PICK w : w = s[i][1] /\ w \in Ways
    BY <1>1
  <2>2. Starts(q, d) /\ Starts(d, w)
    BY <1>5, <1>6, <2>1, AboveIs
  <2>3. Starts(q, w)
    BY <1>5, <2>1, <2>2, StartsTrans
  <2>4. Len(q) \in Nat /\ Len(d) \in Nat /\ Len(w) \in Nat /\ Len(q) < Len(d) /\ Len(d) < Len(w)
    BY <1>5, <1>6, <2>1, WaysAre DEF Above
  <2>5. Len(w) > Len(d) /\ q # w
    BY <2>4
  <2>6. Above(q, w)
    BY <2>1, <2>3, <2>5, AboveIs
  <2>7. w \in D
    BY <2>1, <2>6
  <2>8. QED
    BY <1>3, <2>1, <2>5, <2>7
<1>7. ~Through(s, d)
  BY <1>6 DEF Through
<1>8. QED
  BY <1>4, <1>5, <1>7

LEMMA FlatBulk ==
    ASSUME NEW t \in Held, NEW s, PathItems(s), NEW r, r = BulkImport(t, s), r # Refused
    PROVE  F!IsImport(Flat(t), Flat(r))
<1>1. PICK n : n = Len(s)
  OBVIOUS
<1>2. n \in Nat /\ \A j \in 1 .. n : s[j][1] \in Paths /\ s[j][2] \in Notes
  BY <1>1 DEF PathItems
<1>3. /\ r \in Held
      /\ \A q \in Ways \ {<<>>} : Through(s, q) =>
            IsTree(EntryAt(r, q)) /\ (EntryAt(t, q) = Refused \/ IsTree(EntryAt(t, q)))
      /\ \A j \in 1 .. n : LastFor(s, n, j) /\ ~Through(s, s[j][1]) => EntryAt(r, s[j][1]) = s[j][2]
      /\ \A j \in 1 .. n : ~IsTree(EntryAt(t, s[j][1]))
      /\ \A q \in Ways \ {<<>>} : ~Through(s, q) /\ (\A j \in 1 .. n : s[j][1] # q) =>
            EntryAt(r, q) = EntryAt(t, q)
  BY <1>1, BulkIs
<1>4. PICK f, g : f = Flat(t) /\ g = Flat(r)
  OBVIOUS
<1>5. /\ f.notes = [q \in AllPaths |-> NoteAt(t, q)] /\ g.notes = [q \in AllPaths |-> NoteAt(r, q)]
  BY <1>3, <1>4, FlatIs
<1>6. PICK batch : batch = {p \in Paths : ~Through(s, p) /\ \E j \in 1 .. n : s[j][1] = p}
  OBVIOUS
<1>7. batch \in SUBSET Paths
  BY <1>6
<1>8. \A p \in Paths : p \in Ways \ {<<>>} /\ p \in AllPaths
  BY PathsAre
<1>9. \A q \in AllPaths : q \in Ways \ {<<>>}
  BY PathsAre
<1>10. ASSUME NEW p \in batch
       PROVE  /\ EntryAt(r, p) \in Notes /\ ~IsTree(EntryAt(r, p)) /\ ~IsTree(EntryAt(t, p))
              /\ g.notes[p] \in Notes /\ F!Fits(f, p)
  <2>1. PICK i \in 1 .. n : s[i][1] = p
    BY <1>6
  <2>2. PICK j \in 1 .. n : s[j][1] = p /\ LastFor(s, n, j)
    BY <1>2, <2>1, LastForExists
  <2>3. EntryAt(r, p) = s[j][2]
    BY <1>3, <1>6, <2>2
  <2>4. EntryAt(r, p) \in Notes /\ ~IsTree(EntryAt(r, p))
    BY <1>2, <2>3, NoTree
  <2>5. ~IsTree(EntryAt(t, p))
    BY <1>3, <2>2
  <2>6. g.notes[p] \in Notes
    <3>1. p \in Ways \ {<<>>} /\ p \in AllPaths
      BY <1>7, <1>8
    <3>2. EntryAt(r, p) # Refused
      BY <2>4, SentinelAssumption
    <3>3. NoteAt(r, p) = EntryAt(r, p)
      BY <1>3, <2>4, <3>1, <3>2, NoteAtIs
    <3>4. QED
      BY <1>5, <2>4, <3>1, <3>3
  <2>7. ASSUME NEW q \in Ways \ {<<>>}, Above(q, p) PROVE EntryAt(t, q) = Refused \/ IsTree(EntryAt(t, q))
    <3>1. Through(s, q)
      BY <1>1, <2>1, <2>7 DEF Through
    <3>2. QED
      BY <1>3, <3>1
  <2>8. F!Fits(f, p)
    BY <1>4, <1>7, <2>5, <2>7, FlatFits
  <2>9. QED
    BY <2>4, <2>5, <2>6, <2>8
<1>11. ASSUME NEW q \in Ways \ {<<>>}, q \notin batch
       PROVE  NoteAt(r, q) = NoteAt(t, q)
  <2>1. CASE Through(s, q)
    <3>1. IsTree(EntryAt(r, q)) /\ (EntryAt(t, q) = Refused \/ IsTree(EntryAt(t, q)))
      BY <1>3, <2>1
    <3>2. QED
      BY <1>3, <3>1, NoteAtIs
  <2>2. CASE ~Through(s, q)
    <3>1. \A j \in 1 .. n : s[j][1] # q
      BY <1>2, <1>6, <1>11, <2>2
    <3>2. EntryAt(r, q) = EntryAt(t, q)
      BY <1>3, <2>2, <3>1
    <3>3. QED
      BY <1>3, <3>2, NoteAtIs
  <2>3. QED
    BY <2>1, <2>2
<1>12. ASSUME NEW q \in Ways \ {<<>>}
       PROVE  IsTree(EntryAt(r, q)) <=> IsTree(EntryAt(t, q)) \/ \E p \in batch : Above(q, p)
  <2>1. CASE Through(s, q)
    <3>1. PICK j \in 1 .. n : Above(q, s[j][1]) /\ ~Through(s, s[j][1])
      BY <1>1, <2>1, ItemBelow
    <3>2. s[j][1] \in batch
      BY <1>2, <1>6, <3>1
    <3>3. IsTree(EntryAt(r, q))
      BY <1>3, <2>1
    <3>4. QED
      BY <3>1, <3>2, <3>3
  <2>2. CASE ~Through(s, q)
    <3>1. ~ \E p \in batch : Above(q, p)
      BY <1>1, <1>6, <2>2 DEF Through
    <3>2. CASE q \in batch
      BY <1>10, <3>1, <3>2
    <3>3. CASE q \notin batch
      <4>1. \A j \in 1 .. n : s[j][1] # q
        BY <1>2, <1>6, <2>2, <3>3
      <4>2. EntryAt(r, q) = EntryAt(t, q)
        BY <1>3, <2>2, <4>1
      <4>3. QED
        BY <3>1, <4>2
    <3>4. QED
      BY <3>2, <3>3
  <2>3. QED
    BY <2>1, <2>2
<1>13. PICK new : new = [p \in batch |-> g.notes[p]]
  OBVIOUS
<1>14. \A q \in AllPaths : NoteAt(r, q) = IF q \in batch THEN new[q] ELSE NoteAt(t, q)
  BY <1>5, <1>9, <1>11, <1>13
<1>15. g = F!Put(f, new)
  <2>1. DOMAIN new = batch
    BY <1>13
  <2>2. Flat(r) = F!Put(f, new)
    BY <1>3, <1>4, <1>7, <1>12, <1>14, <2>1, FlatPut
  <2>3. QED
    BY <1>4, <2>2
<1>16. Cardinality(batch) <= Cardinality(Paths)
  BY <1>7, PathsAssumption, FS_Subset
<1>17. batch \in SUBSET {p \in Paths : g.notes[p] \in Notes /\ F!Fits(f, p)}
  BY <1>7, <1>10
<1>18. F!IsImport(f, g)
  <2>1. g = F!Put(f, [p \in batch |-> g.notes[p]])
    BY <1>13, <1>15
  <2>2. \E x \in SUBSET {p \in Paths : g.notes[p] \in Notes /\ F!Fits(f, p)} :
           /\ Cardinality(x) <= Cardinality(Paths)
           /\ g = F!Put(f, [p \in x |-> g.notes[p]])
    <3>1. WITNESS batch \in SUBSET {p \in Paths : g.notes[p] \in Notes /\ F!Fits(f, p)}
    <3>2. QED
      BY <1>16, <2>1
  <2>3. QED
    BY <2>2 DEF F!IsImport, F!Cardinality, Cardinality, F!IsFiniteSet, IsFiniteSet
<1>19. QED
  BY <1>4, <1>18

LEMMA FlatCommits ==
    ASSUME Typed, NEW t, Commits(t), t # Refused
    PROVE  F!IsEdit(Flat(Tree), Flat(t)) \/ F!IsImport(Flat(Tree), Flat(t))
<1>1. PICK o : o = Tree /\ o \in Held
  BY HistIs
<1>2. CASE \/ \E p \in Paths, x \in Texts : t = SetNote(Tree, p, Note(x, Now))
           \/ \E p \in Paths : t = RemoveNote(Tree, p)
           \/ \E p \in Paths : t = Mkdir(Tree, p) /\ ~DirExists(Tree, p)
           \/ \E p \in Paths, r \in BOOLEAN : t = RemoveDir(Tree, p, r)
  BY <1>1, <1>2, FlatEdit
<1>3. CASE \/ \E items \in Batches : t = BulkImport(Tree, BulkItems(items))
           \/ t = BulkImport(Tree, ImportItems) /\ Importable
  <2>1. PICK s : PathItems(s) /\ t = BulkImport(o, s)
    BY <1>1, <1>3, BatchItems, ImportItemsAre
  <2>2. F!IsImport(Flat(o), Flat(t))
    BY <1>1, <2>1, FlatBulk
  <2>3. QED
    BY <1>1, <2>2
<1>4. QED
  BY <1>2, <1>3 DEF Commits

ThreeWayAt(b, o, t, r, p) ==
    /\ NoteAt(r, p) = IF NoteAt(o, p) = NoteAt(b, p) THEN NoteAt(t, p) ELSE NoteAt(o, p)
    /\ IsTree(EntryAt(r, p)) <=> IF IsTree(EntryAt(o, p)) <=> IsTree(EntryAt(b, p))
                                 THEN IsTree(EntryAt(t, p)) ELSE IsTree(EntryAt(o, p))

LEMMA MergeFlatNone ==
    ASSUME NEW b \in Held, NEW o \in Held, NEW t \in Held, NEW m, m = MergeTrees(b, o, t),
           NEW r, r = m.tree, NEW p \in Ways \ {<<>>}, ~Conflicts(m.conflicts, p)
    PROVE  ThreeWayAt(b, o, t, r, p)
BY MergeFlat DEF ThreeWayAt

LEMMA FlatMerge ==
    ASSUME NEW b \in Held, NEW o \in Held, NEW t \in Held, NEW m, m = MergeTrees(b, o, t), m.conflicts = {},
           NEW r, r = m.tree
    PROVE  Flat(r) = F!Merge3(Flat(b), Flat(o), Flat(t))
<1>1. r \in Held
  BY MergeHeld
<1>2. PICK x, y, z : x = Flat(b) /\ y = Flat(o) /\ z = Flat(t)
  OBVIOUS
<1>3. /\ x.notes = [p \in AllPaths |-> NoteAt(b, p)] /\ \A p \in Ways \ {<<>>} : p \in x.dirs <=> IsTree(EntryAt(b, p))
      /\ y.notes = [p \in AllPaths |-> NoteAt(o, p)] /\ \A p \in Ways \ {<<>>} : p \in y.dirs <=> IsTree(EntryAt(o, p))
      /\ z.notes = [p \in AllPaths |-> NoteAt(t, p)] /\ \A p \in Ways \ {<<>>} : p \in z.dirs <=> IsTree(EntryAt(t, p))
  BY <1>2, FlatIs
<1>4. \A p \in AllPaths : p \in Ways \ {<<>>}
  BY PathsAre
<1>5. PICK notes : notes = [p \in AllPaths |-> F!ThreeWay(x.notes[p], y.notes[p], z.notes[p])]
  OBVIOUS
<1>6. PICK dirs : dirs = {p \in AllPaths : F!ThreeWay(p \in x.dirs, p \in y.dirs, p \in z.dirs)}
  OBVIOUS
<1>7. ASSUME NEW p \in AllPaths
      PROVE  /\ NoteAt(r, p) = F!ThreeWay(x.notes[p], y.notes[p], z.notes[p])
             /\ p \in dirs <=> IsTree(EntryAt(r, p))
  <2>1. p \in Ways \ {<<>>}
    BY <1>4
  <2>2. ~Conflicts(m.conflicts, p)
    BY DEF Conflicts
  <2>3. /\ NoteAt(r, p) = IF NoteAt(o, p) = NoteAt(b, p) THEN NoteAt(t, p) ELSE NoteAt(o, p)
        /\ IsTree(EntryAt(r, p)) <=> IF IsTree(EntryAt(o, p)) <=> IsTree(EntryAt(b, p))
                                     THEN IsTree(EntryAt(t, p)) ELSE IsTree(EntryAt(o, p))
    <3>1. ThreeWayAt(b, o, t, r, p)
      BY <2>1, <2>2, MergeFlatNone
    <3>2. QED
      BY <3>1 DEF ThreeWayAt
  <2>4. NoteAt(r, p) = F!ThreeWay(x.notes[p], y.notes[p], z.notes[p])
    BY <1>3, <2>3 DEF F!ThreeWay
  <2>5. p \in dirs <=> IF (p \in y.dirs) = (p \in x.dirs) THEN p \in z.dirs ELSE p \in y.dirs
    BY <1>6 DEF F!ThreeWay
  <2>6. QED
    BY <1>3, <2>1, <2>3, <2>4, <2>5
<1>8. notes = [p \in AllPaths |-> NoteAt(r, p)]
  BY <1>5, <1>7
<1>9. dirs \subseteq AllPaths /\ \A p \in AllPaths : p \in dirs <=> IsTree(EntryAt(r, p))
  BY <1>6, <1>7
<1>10. Flat(r) = [notes |-> notes, dirs |-> dirs]
  BY <1>1, <1>8, <1>9, FlatEq
<1>11. F!Merge3(x, y, z) = [notes |-> notes, dirs |-> dirs]
  BY <1>5, <1>6, FlatPaths DEF F!Merge3
<1>12. QED
  BY <1>2, <1>10, <1>11

LEMMA FlatInit == Init => F!Init
<1>1. PICK f : f = Flat(EmptyTree)
  OBVIOUS
<1>2. EmptyTree \in Held
  BY EmptyHeld
<1>3. \A q \in Ways \ {<<>>} : EntryAt(EmptyTree, q) = Refused
  BY NotesAre, EmptyHas
<1>4. PICK notes, dirs : notes = [p \in AllPaths |-> Absent] /\ dirs = {}
  OBVIOUS
<1>5. \A q \in AllPaths : q \in Ways \ {<<>>} /\ NoteAt(EmptyTree, q) = Absent /\ ~IsTree(EntryAt(EmptyTree, q))
  BY <1>2, <1>3, PathsAre, NoteAtIs DEF IsTree
<1>6. notes = [q \in AllPaths |-> NoteAt(EmptyTree, q)]
  BY <1>4, <1>5
<1>7. dirs \subseteq AllPaths /\ \A q \in AllPaths : q \in dirs <=> IsTree(EntryAt(EmptyTree, q))
  BY <1>4, <1>5
<1>8. Flat(EmptyTree) = [notes |-> notes, dirs |-> dirs]
  BY <1>2, <1>6, <1>7, FlatEq
<1>9. Flat(EmptyTree) = F!Nothing
  BY <1>4, <1>8, FlatPaths DEF F!Nothing
<1>10. QED
  BY <1>9 DEF Init, F!Init, Tree

LEMMA FlatStep == Typed /\ [Next]_vars => [F!Next]_(F!vars)
<1> DEFINE x == <<Flat(Tree), Flat(theirs), Flat(base)>>
           y == <<Flat(Tree)', Flat(theirs)', Flat(base)'>>
<1>1. SUFFICES ASSUME Typed, [Next]_vars
               PROVE  (F!Edit(x, y) \/ F!Their(x, y) \/ F!Clone(x, y) \/ F!Merge(x, y)) \/ y = x
  BY DEF F!Next, F!vars
<1>2. ASSUME NEW t, Commits(t), Commit(t), UNCHANGED Beside PROVE F!Edit(x, y)
  <2>1. t # Refused /\ t \in Held
    BY <1>1, <1>2, CommitsHeld DEF Commit
  <2>2. Tree' = t /\ theirs' = theirs /\ base' = base
    BY <1>1, <1>2, <2>1, CommitIs DEF Beside
  <2>3. F!IsEdit(Flat(Tree), Flat(t)) \/ F!IsImport(Flat(Tree), Flat(t))
    BY <1>1, <1>2, <2>1, FlatCommits
  <2>4. y = <<Flat(t), Flat(theirs), Flat(base)>>
    BY <2>2
  <2>5. QED
    BY <2>3, <2>4 DEF F!Edit
<1>3. ASSUME MergeIn PROVE F!Merge(x, y)
  <2>1. PICK b, o, t : b = base /\ o = Tree /\ t = theirs /\ b \in Held /\ o \in Held /\ t \in Held
    BY <1>1, HistIs DEF Typed
  <2>2. PICK m : m = MergeTrees(b, o, t)
    OBVIOUS
  <2>3. PICK r : r = m.tree /\ r \in Held
    BY <2>1, <2>2, MergeHeld
  <2>4. m.conflicts = {} /\ Commit(r) /\ base' = theirs /\ theirs' = theirs
    BY <1>3, <2>1, <2>2, <2>3 DEF MergeIn
  <2>5. Tree' = r
    BY <1>1, <2>3, <2>4, CommitIs
  <2>6. Flat(r) = F!Merge3(Flat(b), Flat(o), Flat(t))
    BY <2>1, <2>2, <2>3, <2>4, FlatMerge
  <2>7. y = <<Flat(r), Flat(t), Flat(t)>> /\ x = <<Flat(o), Flat(t), Flat(b)>>
    BY <2>1, <2>4, <2>5
  <2>8. QED
    BY <2>6, <2>7 DEF F!Merge
<1>4. ASSUME Clone PROVE F!Clone(x, y)
  <2>1. theirs' = Tree /\ base' = Tree /\ Tree' = Tree
    BY <1>4 DEF Clone, Tree
  <2>2. y = <<Flat(Tree), Flat(Tree), Flat(Tree)>>
    BY <2>1
  <2>3. QED
    BY <2>2 DEF F!Clone
<1>5. ASSUME NEW t, TheirEdit(t), NEW p \in Paths,
             \/ \E z \in Texts : t = SetNote(theirs, p, Note(z, Now))
             \/ t = RemoveNote(theirs, p)
             \/ t = RemoveDir(theirs, p, TRUE)
      PROVE  F!Their(x, y)
  <2>1. PICK o : o = theirs /\ o \in Held
    BY <1>1 DEF Typed
  <2>2. t # Refused /\ theirs' = t /\ hist' = hist /\ base' = base
    BY <1>5 DEF TheirEdit, Library
  <2>3. F!IsEdit(Flat(o), Flat(t))
    BY <1>1, <1>5, <2>1, <2>2, FlatEdit
  <2>4. Tree' = Tree
    BY <2>2 DEF Tree
  <2>5. y = <<Flat(Tree), Flat(t), Flat(base)>>
    BY <2>2, <2>4
  <2>6. QED
    BY <2>1, <2>3, <2>5 DEF F!Their
<1>6. ASSUME UNCHANGED <<hist, theirs, base>> PROVE y = x
  BY <1>6 DEF Tree
<1>7. ASSUME NEW i \in DOMAIN hist, NEW force \in BOOLEAN, ExportMd(i, force) PROVE y = x
  BY <1>6, <1>7 DEF ExportMd, Library
<1>8. CASE UNCHANGED vars
  BY <1>6, <1>8 DEF vars
<1>9. CASE Next
  <2>1. CASE CommitStep
    BY <1>2, <2>1 DEF CommitStep
  <2>2. CASE MergeIn
    BY <1>3, <2>2
  <2>3. CASE QuietStep
    BY <1>4, <1>5, <1>7, <2>3 DEF QuietStep
  <2>4. QED
    BY <1>9, <2>1, <2>2, <2>3, NextIs
<1>10. QED
  BY <1>1, <1>8, <1>9

(* Every command does to the trees what FlatNotes says of paths: the paths it *)
(* names change and no other, the directories they need are made and no       *)
(* other, and a merge takes from each side what that side has changed         *)
(* (dir.go:43, bulk.go:170, merge.go:282).                                    *)
THEOREM LibraryIsFlat == Spec => ImplementsFlat
<1>1. Spec => F!Init /\ [][F!Next]_(F!vars)
  BY FlatInit, FlatStep, AlwaysTyped, PTL DEF Spec
<1>2. QED
  BY <1>1 DEF ImplementsFlat, F!Spec
=============================================================================
