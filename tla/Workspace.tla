------------------------------ MODULE Workspace ------------------------------
(***************************************************************************)
(* One library and the commands that edit it, one at a time: note set and  *)
(* rm, dir add and rm, bulk and Markdown import, Markdown export, and the  *)
(* merge of a clone; with the search index each commit brings up to date.  *)
(***************************************************************************)
EXTENDS NoteIndex

CONSTANTS
    Paths,       \* the paths commands name
    Absent,      \* stands for no note in the flat view
    MdOf,        \* what a text is after EncodeMdNote and DecodeMdNote, Refused if rejected
    Batches,     \* what bulk import is given: sequences of pairs of path and text
    MaxCommits,  \* bound on the commits of the library
    MaxTheirs    \* bound on the edits of the clone

\* what can stand at a path: a text, and the second in which it was written
Notes == {Note(x, s) : x \in Texts, s \in 1 .. MaxCommits + 1}

Indexes == [docs     : SUBSET (Notes \X Ways),
            postings : SUBSET ((UNION {WordsOf[x] : x \in Texts}) \X Notes)]

ASSUME PathsAssumption    == Paths \subseteq Ways \ {<<>>} /\ IsFiniteSet(Paths)
ASSUME MdAssumption       == MdOf \in [Texts -> Texts \cup {Refused}]
ASSUME BatchesAssumption  == Batches \subseteq Seq(Paths \X Texts)
ASSUME LimitsAssumption   == {MaxCommits, MaxTheirs} \subseteq Nat
ASSUME SentinelAssumption == {Absent, Refused} \cap Notes = {} /\ Refused \notin Texts \cup Indexes
ASSUME RefusedAssumption  == \A k \in 0 .. Depth : Refused \notin Levels(Notes)[k]

VARIABLES
    hist,     \* the trees of the branch along the first parents, its head last
    index,    \* the index the head names, Refused without a head
    theirs,   \* the tree of the clone
    base,     \* the tree of the nearest common ancestor of branch and clone
    ahead,    \* the branch has commits the clone does not have
    edits,    \* edits of the clone so far
    files     \* Markdown files: a map from paths to the texts they encode

vars == <<hist, index, theirs, base, ahead, edits, files>>

\* the second in which a command runs: later than all commits before it
Now == Len(hist) + 1

Tree == IF hist = <<>> THEN EmptyTree ELSE Last(hist)

Init == /\ hist = <<>> /\ index = Refused
        /\ theirs = EmptyTree /\ base = EmptyTree /\ ahead = FALSE /\ edits = 0
        /\ files = EmptyTree

\* a bound: what can only matter to a later commit happens while there can be one
Room == Len(hist) < MaxCommits

\* commitTree
Commit(t) == /\ t # Refused
             /\ Room
             /\ hist' = Append(hist, t)
             /\ index' \in UpdateIndex(index, Tree, t)
             /\ ahead' = TRUE

Library == <<hist, index, ahead>>
Beside  == <<theirs, base, edits, files>>

NoteSet(p, x) == Commit(SetNote(Tree, p, Note(x, Now))) /\ UNCHANGED Beside
NoteRm(p)     == Commit(RemoveNote(Tree, p)) /\ UNCHANGED Beside
DirAdd(p)     == ~DirExists(Tree, p) /\ Commit(Mkdir(Tree, p)) /\ UNCHANGED Beside
DirRm(p, r)   == Commit(RemoveDir(Tree, p, r)) /\ UNCHANGED Beside

BulkItems(items) == [i \in DOMAIN items |-> <<items[i][1], Note(items[i][2], Now)>>]
Bulk(items)      == Commit(BulkImport(Tree, BulkItems(items))) /\ UNCHANGED Beside

----------------------------------------------------------------------------
(* Markdown.                                                                 *)

\* cmdExport: all files or, when one is there and --force is not given, none
ExportMd(i, force) ==
    LET docs == CollectLeaves(hist[i])
    IN  /\ Room
        /\ force \/ DOMAIN docs \cap DOMAIN files = {}
        /\ files' = [p \in DOMAIN docs \cup DOMAIN files |->
                        IF p \in DOMAIN docs THEN docs[p].text ELSE files[p]]
        /\ UNCHANGED <<theirs, base, edits>> /\ UNCHANGED Library

\* scanMarkdownDir: every file parses, and none is a directory for another
Importable == /\ files # EmptyTree
              /\ \A p \in DOMAIN files : MdOf[files[p]] # Refused
              /\ \A p, q \in DOMAIN files : ~Above(p, q)

\* mdInheritTime: the newest tree with that text at that path tells when it was
\* written, a new text is written now
\* mistake: the time of a text without a predecessor is that of the zero value
InheritTimeZero(p, x) ==
    LET found == {i \in DOMAIN hist : LET e == LeafEntry(hist[i], p) IN e # Refused /\ e.text = x}
    IN  IF found = {} THEN 0 ELSE LeafEntry(hist[Max(found)], p).at

\* mistake: only the head is searched
InheritTimeHead(p, x) ==
    LET e == LeafEntry(Tree, p) IN IF e # Refused /\ e.text = x THEN e.at ELSE Now

InheritTime(p, x) ==
    LET found == {i \in DOMAIN hist : LET e == LeafEntry(hist[i], p) IN e # Refused /\ e.text = x}
    IN  IF found = {} THEN Now ELSE LeafEntry(hist[Max(found)], p).at

\* the documents that differ from the notes they stand for
ImportItems ==
    LET leaves == CollectLeaves(Tree)
        differ == {p \in DOMAIN files : p \notin DOMAIN leaves \/ leaves[p].text # MdOf[files[p]]}
        item(p) == <<p, Note(MdOf[files[p]], InheritTime(p, MdOf[files[p]]))>>
    IN  SetToSeq({item(p) : p \in differ})

ImportMd == /\ Importable
            /\ ImportItems # <<>>
            /\ Commit(BulkImport(Tree, ImportItems))
            /\ UNCHANGED Beside

----------------------------------------------------------------------------
(* The clone.                                                                *)

\* pull into an empty library, or a merge that fast-forwards
Clone == /\ Room /\ hist # <<>> /\ ahead
         /\ theirs = base
         /\ theirs' = Tree /\ base' = Tree
         /\ ahead' = FALSE
         /\ UNCHANGED <<hist, index, edits, files>>

TheirEdit(t) == /\ t # Refused /\ t # theirs
                /\ Room /\ hist # <<>> /\ edits < MaxTheirs
                /\ theirs' = t /\ edits' = edits + 1
                /\ UNCHANGED <<base, files>> /\ UNCHANGED Library

\* Merge, when both have gone on and there is no conflict
MergeIn == LET m == MergeTrees(base, Tree, theirs)
           IN  /\ theirs # base /\ ahead
               /\ m.conflicts = {}
               /\ Commit(m.tree)
               /\ base' = theirs
               /\ UNCHANGED <<theirs, edits, files>>

Next == \/ \E p \in Paths, x \in Texts : NoteSet(p, x)
        \/ \E p \in Paths : NoteRm(p)
        \/ \E p \in Paths : DirAdd(p)
        \/ \E p \in Paths, r \in BOOLEAN : DirRm(p, r)
        \/ \E items \in Batches : Bulk(items)
        \/ \E i \in DOMAIN hist, force \in BOOLEAN : ExportMd(i, force)
        \/ ImportMd
        \/ Clone
        \/ \E p \in Paths, x \in Texts : TheirEdit(SetNote(theirs, p, Note(x, Now)))
        \/ \E p \in Paths : TheirEdit(RemoveNote(theirs, p))
        \/ \E p \in Paths : TheirEdit(RemoveDir(theirs, p, TRUE))
        \/ MergeIn

Spec == Init /\ [][Next]_vars

----------------------------------------------------------------------------
(* What must hold.                                                           *)

AllPaths == Paths \cup UNION {{SubSeq(p, 1, i) : i \in 1 .. Len(p) - 1} : p \in Paths}

\* a tree as its set of directories and its map from paths to notes
Flat(t) == [notes |-> [p \in AllPaths |->
                         LET e == LeafEntry(t, p) IN IF e = Refused THEN Absent ELSE e],
            dirs  |-> BuildNode(t)]

F == INSTANCE FlatNotes WITH ours <- Flat(Tree), theirs <- Flat(theirs), base <- Flat(base),
                             MaxBatch <- Cardinality(Paths)

\* Every tree is one of notes and directories, and the index is there with a head.
TypeOK == /\ \A i \in DOMAIN hist : Flat(hist[i]) \in F!FlatTrees
          /\ {Flat(theirs), Flat(base)} \subseteq F!FlatTrees
          /\ (index = Refused) <=> (hist = <<>>)
          /\ files \in UNION {[d -> Texts] : d \in SUBSET Paths}
          /\ ahead \in BOOLEAN /\ edits \in 0 .. MaxTheirs

\* Each command changes the paths it names and no other, creates the directories they
\* need and no other, and a merge takes from each side what that side has changed:
\* copying trees on write loses nothing beside the path (dir.go:43, bulk.go:170,
\* merge.go:282).
ImplementsFlat == F!Spec

\* a note has only ever stood at one path: nothing was written twice in a second
Distinct == \A i, j \in DOMAIN hist :
                LET f == CollectLeaves(hist[i])
                    g == CollectLeaves(hist[j])
                IN  \A p \in DOMAIN f, q \in DOMAIN g : f[p] = g[q] => p = q

\* A search finds every note with the word, where the note is now, and nothing else, and
\* the table the scores are computed from has every note and no other, after any series
\* of incremental updates (build.go:152).  Notes with equal bytes at two paths are the
\* exception: the index has one document for both.
SearchExact ==
    hist # <<>> /\ Distinct =>
        LET leaves == CollectLeaves(Tree)
            docs   == {<<leaves[p], p>> : p \in DOMAIN leaves}
        IN  /\ index.docs = docs
            /\ \A w \in UNION Range(WordsOf) :
                   Search(index, w) = {x \in docs : w \in WordsOf[x[1].text]}

\* Ours and theirs with or without conflicts: outside the paths reported, the merge is
\* the path-by-path merge, at and under them it is ours, and both sides have changed
\* something at or under each of them (merge.go:282).
ConflictsAreExact ==
    LET m == MergeTrees(base, Tree, theirs)
        at(p) == \E c \in m.conflicts : F!Under(c.path, p)
        b == Flat(base)  o == Flat(Tree)  t == Flat(theirs)  r == Flat(m.tree)
        three == F!Merge3(b, o, t)
        same(f, g, d) == \A p \in AllPaths : F!Under(d, p) =>
                            f.notes[p] = g.notes[p] /\ (p \in f.dirs <=> p \in g.dirs)
    IN  /\ \A p \in AllPaths : LET as == IF at(p) THEN o ELSE three
                                IN  r.notes[p] = as.notes[p] /\ (p \in r.dirs <=> p \in as.dirs)
        /\ \A c \in m.conflicts : ~same(b, o, c.path) /\ ~same(b, t, c.path)

\* Merged the other way round, the same paths conflict in the same ways, and without a
\* conflict the result is the same tree (merge.go:371).
MergeIsSymmetric ==
    LET m == MergeTrees(base, Tree, theirs)
        n == MergeTrees(base, theirs, Tree)
    IN  m.conflicts = n.conflicts /\ (m.conflicts = {} => m.tree = n.tree)

\* A Markdown import leaves at every path the text that its file reads back as, and where
\* the branch has had that text before, a note of that time with its address, whatever the
\* branch has become since (markdown.go:144).  A text that does not read back as itself is
\* a new text: see RoundTripKeeps.
ImportRestores ==
    [][ImportMd => \A p \in DOMAIN files :
          LET e == LeafEntry(Tree', p)
              before == {LeafEntry(hist[i], p) : i \in DOMAIN hist}
              known  == \E d \in before \ {Refused} : d.text = e.text
          IN  e # Refused /\ e.text = MdOf[files[p]] /\ (known => e \in before)]_hist

\* An export of the branch that is imported as it is finds nothing to write: no note and
\* no address changes, as markdown.go:19 says.
RoundTripKeeps ==
    LET leaves == CollectLeaves(Tree)
    IN  hist # <<>> /\ Importable /\ files = [p \in DOMAIN leaves |-> leaves[p].text]
           => ImportItems = <<>>

\* for the last item of each path in a batch: the path, its note, what came of it in t
Landing(items, t) ==
    {LET i == Max({k \in DOMAIN items : items[k][1] = p})
     IN  <<p, Note(items[i][2], Now), LeafEntry(t, p)>> : p \in {it[1] : it \in Range(items)}}

\* An import leaves at every path the note that the last of its items has for it, or
\* fails as a whole (bulk.go:78).  A path that another item goes through is the
\* exception, see BulkLands.
BulkLandsApart ==
    \A items \in Batches :
        LET t == BulkImport(Tree, BulkItems(items))
        IN  t # Refused => \A x \in Landing(items, t) :
                x[2] = x[3] \/ \E it \in Range(items) : Above(x[1], it[1])

\* The same without the exception: what bulk.go:63 says, a path that is a note and a
\* directory is an error, as it is in note set.
BulkLands ==
    \A items \in Batches :
        LET t == BulkImport(Tree, BulkItems(items))
        IN  t # Refused => \A x \in Landing(items, t) : x[2] = x[3]
=============================================================================
