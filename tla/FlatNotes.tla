------------------------------ MODULE FlatNotes ------------------------------
(***************************************************************************)
(* What a library promises about its paths, without trees: a library is a  *)
(* set of directories and a map from paths to notes, and a command changes *)
(* the paths it names and no other.                                        *)
(*                                                                         *)
(* `ours` is the library, `theirs` a clone of it, `base` what the two had  *)
(* in common when the clone was made or last merged.                       *)
(***************************************************************************)
EXTENDS Integers, Sequences, FiniteSets

CONSTANTS
    Paths,     \* the paths commands name, sequences of names
    Notes,     \* what can stand at a path
    Absent,    \* nothing stands at a path
    MaxBatch   \* bound on the notes of one import

VARIABLES ours, theirs, base

Prefixes(p)   == {SubSeq(p, 1, i) : i \in 1 .. Len(p) - 1}
Under(d, p)   == d = p \/ d \in Prefixes(p)
AllPaths      == Paths \cup UNION {Prefixes(p) : p \in Paths}

\* no path is a note and a directory, what a path passes through is a directory
FlatTrees == {f \in [notes : [AllPaths -> Notes \cup {Absent}], dirs : SUBSET AllPaths] :
                 \A p \in AllPaths : f.notes[p] # Absent =>
                     p \notin f.dirs /\ Prefixes(p) \subseteq f.dirs}

Nothing == [notes |-> [p \in AllPaths |-> Absent], dirs |-> {}]

Fits(f, p) == p \notin f.dirs /\ \A q \in Prefixes(p) : f.notes[q] = Absent

\* new: a map from some paths to notes
Put(f, new) ==
    [notes |-> [p \in AllPaths |-> IF p \in DOMAIN new THEN new[p] ELSE f.notes[p]],
     dirs  |-> f.dirs \cup UNION {Prefixes(p) : p \in DOMAIN new}]

Removed(f, d) ==
    [notes |-> [p \in AllPaths |-> IF Under(d, p) THEN Absent ELSE f.notes[p]],
     dirs  |-> {q \in f.dirs : ~Under(d, q)}]

\* from f to g: one note written or removed, a directory made or removed with all that
\* is in it
IsEdit(f, g) ==
    \/ \E p \in Paths : Fits(f, p) /\ g.notes[p] \in Notes /\ g = Put(f, [q \in {p} |-> g.notes[p]])
    \/ \E p \in Paths : f.notes[p] # Absent /\ g = Removed(f, p)
    \/ \E p \in Paths : /\ f.notes[p] = Absent /\ \A d \in Prefixes(p) : f.notes[d] = Absent
                        /\ g = [f EXCEPT !.dirs = @ \cup {p} \cup Prefixes(p)]
    \/ \E p \in f.dirs : g = Removed(f, p)

\* several notes written together; none of them is a directory for another
IsImport(f, g) ==
    \E batch \in SUBSET {p \in Paths : g.notes[p] \in Notes /\ Fits(f, p)} :
        /\ Cardinality(batch) <= MaxBatch
        /\ g = Put(f, [p \in batch |-> g.notes[p]])

\* path by path, what the one side has changed and what the other has
ThreeWay(b, o, t) == IF o = b THEN t ELSE o

Merge3(b, o, t) ==
    [notes |-> [p \in AllPaths |-> ThreeWay(b.notes[p], o.notes[p], t.notes[p])],
     dirs  |-> {p \in AllPaths : ThreeWay(p \in b.dirs, p \in o.dirs, p \in t.dirs)}]

Init == ours = Nothing /\ theirs = Nothing /\ base = Nothing

\* from the libraries <<ours, theirs, base>> = x to y
Edit(x, y)  == y[2] = x[2] /\ y[3] = x[3] /\ (IsEdit(x[1], y[1]) \/ IsImport(x[1], y[1]))
Their(x, y) == y[1] = x[1] /\ y[3] = x[3] /\ IsEdit(x[2], y[2])
Clone(x, y) == y = <<x[1], x[1], x[1]>>
Merge(x, y) == y = <<Merge3(x[3], x[1], x[2]), x[2], x[2]>>

vars == <<ours, theirs, base>>

Next == \E x \in {vars}, y \in {vars'} : Edit(x, y) \/ Their(x, y) \/ Clone(x, y) \/ Merge(x, y)

Spec == Init /\ [][Next]_vars
=============================================================================
