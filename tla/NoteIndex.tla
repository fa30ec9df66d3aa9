------------------------------ MODULE NoteIndex ------------------------------
(***************************************************************************)
(* The search index of a tree: internal/index build.go and query.go, with  *)
(* updateIndex of internal/repo.                                           *)
(*                                                                         *)
(* An index is its document table, pairs of note and path, and its         *)
(* postings, pairs of word and note.  Both are keyed by the note: two      *)
(* paths with the same note share one document.  Shards are left out, an   *)
(* update rewrites every shard a changed word is in.  So are the scores:   *)
(* a posting always has a positive one.                                    *)
(***************************************************************************)
EXTENDS NoteTrees

CONSTANTS
    Texts,      \* titles, tags and bodies of notes
    WordsOf     \* the words of a text

ASSUME WordsAssumption == DOMAIN WordsOf = Texts

\* NoteTerms: the postings of a note
NoteTerms(a) == {<<w, a>> : w \in WordsOf[a.text]}

\* FullBuild
FullIndex(leaves) ==
    [docs     |-> {<<leaves[p], p>> : p \in DOMAIN leaves},
     postings |-> UNION {NoteTerms(leaves[p]) : p \in DOMAIN leaves}]

\* What one path contributes: its old note, its new note, or Refused for none.
Deltas(old, new) ==
    {[path |-> p, old |-> IF p \in DOMAIN old THEN old[p] ELSE Refused, new |-> new[p]] :
        p \in {q \in DOMAIN new : q \notin DOMAIN old \/ old[q] # new[q]}}
    \cup {[path |-> p, old |-> old[p], new |-> Refused] : p \in DOMAIN old \ DOMAIN new}

\* the deltas of removed paths come last, a map yields the others in any order
DeltaOrders(deltas) ==
    {s \in SetToSeqs(deltas) :
        \A i, j \in DOMAIN s : i < j /\ s[i].new = Refused => s[j].new = Refused}

PostDelta(postings, d) ==
    (postings \ (IF d.old = Refused THEN {} ELSE NoteTerms(d.old)))
    \cup (IF d.new = Refused THEN {} ELSE NoteTerms(d.new))

\* the postings after each of the deltas
Posted(postings, s) ==
    LET done[i \in 0 .. Len(s)] == IF i = 0 THEN postings ELSE PostDelta(done[i-1], s[i])
    IN  done

\* mistake: the documents of changed notes stay in the table beside the new ones
ApplyDeltaKeepsDocs(index, s) ==
    [docs     |-> index.docs \cup {<<d.new, d.path>> : d \in {e \in Range(s) : e.new # Refused}},
     postings |-> Posted(index.postings, s)[Len(s)]]

\* ApplyDelta: the notes a delta names leave the document table, the new ones come
\* back with the path of the last delta that brings them
ApplyDelta(index, s) ==
    LET touched == {d.old : d \in Range(s)} \cup {d.new : d \in Range(s)}
        last    == {i \in DOMAIN s : s[i].new # Refused
                                     /\ \A j \in DOMAIN s : j > i => s[j].new # s[i].new}
    IN  [docs     |-> {x \in index.docs : x[1] \notin touched}
                      \cup {<<s[i].new, s[i].path>> : i \in last},
         postings |-> Posted(index.postings, s)[Len(s)]]

\* updateIndex: without an old index a full build, without a difference the old index
UpdateIndex(index, old, new) ==
    IF index = Refused THEN {FullIndex(CollectLeaves(new))}
    ELSE {ApplyDelta(index, s) : s \in DeltaOrders(Deltas(CollectLeaves(old), CollectLeaves(new)))}

\* Search for one word: each note with the word, with its path in the table, Refused when
\* the table does not have it
Search(index, w) ==
    LET found == {x[2] : x \in {y \in index.postings : y[1] = w}}
    IN  {x \in index.docs : x[1] \in found}
        \cup {<<a, Refused>> : a \in found \ {x[1] : x \in index.docs}}
=============================================================================
