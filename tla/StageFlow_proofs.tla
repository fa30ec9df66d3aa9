-------------------------- MODULE StageFlow_proofs --------------------------
(***************************************************************************)
(* Theorems about staging, for any number of clients, any paths and notes  *)
(* and trees of any depth: what StageFlow checks on two clients.  They     *)
(* rest on what NoteTrees_proofs says of edits and of the replay.          *)
(***************************************************************************)
EXTENDS StageFlow, NoteTrees_proofs

(* The trees of the library: no note stands where no command puts one.        *)
Library == {t \in Trees : \A q \in Ways \ {<<>>} : LeafEntry(t, q) # Refused => q \in Paths}

Stages == {Stage(b, t) : b \in Library \cup {Refused}, t \in Library}

StageType == stage = None \/ stage \in Stages

(* What a client in the middle of a command holds.                            *)
ClientOK(r) ==
    \/ r = Idle
    \/ r.pc \in {"direct", "publish"} /\ r.draft \in Library
    \/ r.pc \in {"lay", "parent"} /\ r.edit \in Edits /\ r.draft \in Library
    \/ r.pc = "view" /\ r.edit \in Edits
    \/ r.pc = "put" /\ r.edit \in Edits /\ r.draft \in Stages
    \/ r.pc = "replay" /\ \E b, s \in Library : r.changes = StagedChanges(b, s)
    \/ r.pc \in {"drop", "abort"}

ClientsOK == /\ c = [p \in Clients |-> c[p]]
             /\ \A p \in Clients : ClientOK(c[p])

(* While staging commands have not overlapped, what the one that runs has     *)
(* read of the stage is still so.                                             *)
Reads(r) ==
    /\ r.pc = "lay" => stage = None
    /\ r.pc = "view" => stage # None
    /\ r.pc = "parent" => stage # None /\ r.draft = Edited(stage.tip, r.edit)
    /\ r.pc = "put" => stage # None /\ r.draft = Stage(stage.base, Edited(stage.tip, r.edit))
    /\ r.pc = "replay" => /\ stage # None /\ stage.base # Refused
                          /\ r.changes = StagedChanges(stage.base, stage.tip)

Working == {p \in Clients : Staging(p)}

Alone == ~crossed => /\ \A p, q \in Working : p = q
                     /\ \A p \in Clients : Reads(c[p])

(* While they have not overlapped, a commit on its way to the branch carries  *)
(* all that is wanted, and one on its way to drop the stage has brought it.   *)
Carries(t) ==
    /\ stage # None /\ stage.base # Refused
    /\ \A q \in Paths : wanted[q] \in {None, Leaf(stage.base, q), Leaf(t, q)}

Delivers(r) == /\ r.pc = "publish" => Carries(r.draft)
               /\ r.pc = "drop" => settled

Delivered == /\ Landed => settled
             /\ ~crossed => \A p \in Clients : Delivers(c[p])

NoStage == stage = None => wanted = Nothing

-----------------------------------------------------------------------------
(* Trees and edits.                                                           *)

LEMMA NotesAre == TreeNotes(Notes)
BY NotesAssumption, SentinelAssumption, RefusedAssumption DEF TreeNotes

LEMMA LibraryIs ==
    \A t : t \in Library <=> /\ t \in TreesOf(Notes)
                             /\ \A q \in Ways \ {<<>>} : LeafEntry(t, q) # Refused => q \in Paths
BY DEF Library, Trees

LEMMA LibraryTree == \A t \in Library : t # Refused
BY NotesAre, DepthAssumption DEF Library, Trees, TreesOf, TreeNotes

LEMMA LeafIs ==
    ASSUME NEW t \in Library, NEW u \in Library, NEW p \in Paths
    PROVE  /\ Leaf(t, p) \in Notes \cup {Absent}
           /\ Leaf(t, p) = Leaf(u, p) <=> LeafEntry(t, p) = LeafEntry(u, p)
           /\ Leaf(t, p) = IF LeafEntry(t, p) = Refused THEN Absent ELSE LeafEntry(t, p)
<1>1. p \in Ways \ {<<>>} /\ t \in TreesOf(Notes) /\ u \in TreesOf(Notes)
  BY PathsAssumption, LibraryIs
<1>2. LeafEntry(t, p) \in Notes \cup {Refused} /\ LeafEntry(u, p) \in Notes \cup {Refused}
  BY <1>1, NotesAre, LeafType
<1>3. QED
  BY <1>2, SentinelAssumption DEF Leaf

(* A command leaves at each path what it says, and elsewhere what there was.  *)
Left(e, q, there) == IF ~Touches(e, q) THEN there ELSE IF e.op = "set" THEN e.note ELSE Absent

LEMMA EditedIs ==
    ASSUME NEW t \in Library, NEW e \in Edits, NEW r, r = Edited(t, e), r # Refused
    PROVE  /\ r \in Library
           /\ \A q \in Paths : Leaf(r, q) = Left(e, q, Leaf(t, q))
<1>1. PICK p : p = e.path /\ p \in Paths /\ p \in Ways /\ p # <<>>
  BY PathsAssumption DEF Edits
<1>2. t \in TreesOf(Notes) /\ \A q \in Ways \ {<<>>} : LeafEntry(t, q) # Refused => q \in Paths
  BY LibraryIs
<1>3. e.op \in {"set", "rm", "rmdir"} /\ (e.op = "set" => e.note \in Notes)
  BY DEF Edits
<1>4. /\ r \in TreesOf(Notes)
      /\ \A q \in Ways \ {<<>>} :
            LeafEntry(r, q) = IF ~Touches(e, q) THEN LeafEntry(t, q)
                              ELSE IF e.op = "set" THEN e.note ELSE Refused
  <2>1. CASE e.op = "set"
    <3>1. PICK a \in Notes : a = e.note
      BY <1>3, <2>1
    <3>2. r = MutateAt(t, Front(p), PutNote(Last(p), a))
      BY <1>1, <2>1, <3>1 DEF Edited, SetNote, DirPart, LeafName
    <3>3. /\ r \in TreesOf(Notes)
          /\ \A q \in Ways \ {<<>>} : LeafEntry(r, q) = IF q = p THEN a ELSE LeafEntry(t, q)
      BY <1>1, <1>2, <3>2, NotesAre, PutIs
    <3>4. \A q : Touches(e, q) <=> q = p
      BY <1>1, <2>1 DEF Touches
    <3>5. QED
      BY <2>1, <3>1, <3>3, <3>4
  <2>2. CASE e.op = "rm"
    <3>1. r = MutateAt(t, Front(p), DropNote(Last(p)))
      BY <1>1, <2>2 DEF Edited, RemoveNote, DirPart, LeafName
    <3>2. PICK x \in {DropNote(Last(p)), ForgetNote(Last(p))} : x = DropNote(Last(p)) /\ x.op = "remove"
      BY DEF DropNote
    <3>3. r = MutateAt(t, Front(p), x)
      BY <3>1, <3>2
    <3>4. /\ r \in TreesOf(Notes)
          /\ \A q \in Ways \ {<<>>} : LeafEntry(r, q) = IF q = p THEN Refused ELSE LeafEntry(t, q)
      BY <1>1, <1>2, <3>2, <3>3, NotesAre, DropIs
    <3>5. \A q : Touches(e, q) <=> q = p
      BY <1>1, <2>2 DEF Touches
    <3>6. QED
      BY <2>2, <3>4, <3>5
  <2>3. CASE e.op = "rmdir"
    <3>1. PICK all : r = RemoveDir(t, p, all)
      BY <1>1, <2>3 DEF Edited
    <3>2. /\ r \in TreesOf(Notes)
          /\ \A q \in Ways \ {<<>>} : LeafEntry(r, q) = IF Starts(p, q) THEN Refused ELSE LeafEntry(t, q)
      BY <1>1, <1>2, <3>1, NotesAre, RemoveDirIs
    <3>3. \A q \in Ways : Touches(e, q) <=> Starts(p, q)
      BY <1>1, <2>3, AboveIs DEF Touches
    <3>4. QED
      BY <2>3, <3>2, <3>3
  <2>4. QED
    BY <1>3, <2>1, <2>2, <2>3
<1>5. ASSUME NEW q \in Ways \ {<<>>}, LeafEntry(r, q) # Refused PROVE q \in Paths
  <2>1. CASE ~Touches(e, q)
    BY <1>2, <1>4, <1>5, <2>1
  <2>2. CASE Touches(e, q)
    <3>1. e.op = "set"
      BY <1>4, <1>5, <2>2
    <3>2. q = p
      BY <1>1, <2>2, <3>1 DEF Touches
    <3>3. QED
      BY <1>1, <3>2
  <2>3. QED
    BY <2>1, <2>2
<1>6. r \in Library
  BY <1>4, <1>5, LibraryIs
<1>7. ASSUME NEW q \in Paths PROVE Leaf(r, q) = Left(e, q, Leaf(t, q))
  <2>1. q \in Ways \ {<<>>}
    BY PathsAssumption
  <2>2. Refused \notin Notes
    BY SentinelAssumption
  <2>3. QED
    BY <1>3, <1>4, <2>1, <2>2 DEF Leaf, Left
<1>8. QED
  BY <1>6, <1>7

LEMMA EmptyLibrary == EmptyTree \in Library
BY NotesAre, EmptyHas, LibraryIs

(* What the replay of a stage gives.                                          *)
LEMMA StageReplay ==
    ASSUME NEW b \in Library, NEW s \in Library, NEW t \in Library,
           NEW cs, cs = StagedChanges(b, s), NEW r, r = ApplyStagedChanges(t, cs), r # Refused
    PROVE  /\ r \in Library
           /\ \A q \in Paths : Leaf(r, q) = IF Leaf(b, q) # Leaf(s, q) THEN Leaf(s, q) ELSE Leaf(t, q)
           /\ ApplyStagedChanges(r, cs) = r
<1>1. /\ b \in TreesOf(Notes) /\ \A q \in Ways \ {<<>>} : LeafEntry(b, q) # Refused => q \in Paths
      /\ s \in TreesOf(Notes) /\ \A q \in Ways \ {<<>>} : LeafEntry(s, q) # Refused => q \in Paths
      /\ t \in TreesOf(Notes) /\ \A q \in Ways \ {<<>>} : LeafEntry(t, q) # Refused => q \in Paths
  BY LibraryIs
<1>2. IsFiniteSet(Differing(b, s))
  <2>1. Differing(b, s) \in SUBSET Paths
    BY <1>1 DEF Differing
  <2>2. QED
    BY <2>1, PathsAssumption, FS_Subset
<1>3. /\ r \in TreesOf(Notes)
      /\ \A q \in Ways \ {<<>>} : LeafEntry(r, q) = IF LeafEntry(b, q) # LeafEntry(s, q)
                                                   THEN LeafEntry(s, q) ELSE LeafEntry(t, q)
      /\ ApplyStagedChanges(r, cs) = r
  BY <1>1, <1>2, NotesAre, ReplayStaged
<1>4. \A q \in Ways \ {<<>>} : LeafEntry(r, q) # Refused => q \in Paths
  BY <1>1, <1>3
<1>5. r \in Library
  BY <1>3, <1>4, LibraryIs
<1>6. ASSUME NEW q \in Paths
      PROVE  Leaf(r, q) = IF Leaf(b, q) # Leaf(s, q) THEN Leaf(s, q) ELSE Leaf(t, q)
  <2>1. q \in Ways \ {<<>>}
    BY PathsAssumption
  <2>2. Leaf(b, q) = Leaf(s, q) <=> LeafEntry(b, q) = LeafEntry(s, q)
    BY LeafIs
  <2>3. LeafEntry(r, q) = IF LeafEntry(b, q) # LeafEntry(s, q) THEN LeafEntry(s, q) ELSE LeafEntry(t, q)
    BY <1>3, <2>1
  <2>4. QED
    BY <2>2, <2>3 DEF Leaf
<1>7. QED
  BY <1>3, <1>5, <1>6

-----------------------------------------------------------------------------
(* The types.                                                                 *)

LEMMA StageIs ==
    \A s \in Stages : /\ s # None /\ s.base \in Library \cup {Refused} /\ s.tip \in Library
                      /\ s = Stage(s.base, s.tip)
<1>1. SUFFICES ASSUME NEW b \in Library \cup {Refused}, NEW t \in Library
               PROVE  Stage(b, t) # None
  BY DEF Stages, Stage
<1>2. b \in TreesOf(Notes) \cup {Refused} /\ t \in TreesOf(Notes)
  BY LibraryIs
<1>3. QED
  BY <1>2, NoneAssumption DEF Stage

LEMMA StageMade ==
    ASSUME NEW b \in Library \cup {Refused}, NEW t \in Library
    PROVE  Stage(b, t) \in Stages /\ Stage(b, t).base = b /\ Stage(b, t).tip = t
BY DEF Stages, Stage

LEMMA ClientSet ==
    ASSUME ClientsOK, NEW p \in Clients, NEW r, c' = [c EXCEPT ![p] = r]
    PROVE  /\ c'[p] = r /\ \A q \in Clients : q # p => c'[q] = c[q]
           /\ ClientOK(r) => ClientsOK'
<1>1. c' = [q \in Clients |-> IF q = p THEN r ELSE c[q]]
  BY DEF ClientsOK
<1>2. /\ c'[p] = r /\ \A q \in Clients : q # p => c'[q] = c[q]
      /\ c' = [q \in Clients |-> c'[q]]
  BY <1>1
<1>3. ClientOK(r) => \A q \in Clients : ClientOK(c'[q])
  BY <1>2 DEF ClientsOK
<1>4. QED
  BY <1>2, <1>3 DEF ClientsOK, ClientOK

Typed == /\ main \in Library /\ StageType /\ ClientsOK
         /\ wanted \in [Paths -> Notes \cup {Absent, None}]
         /\ settled \in BOOLEAN /\ crossed \in BOOLEAN
         /\ NoStage

LEMMA InitTyped == Init => Typed /\ Alone /\ StageIsWanted /\ Delivered
<1>1. SUFFICES ASSUME Init PROVE Typed /\ Alone /\ StageIsWanted /\ Delivered
  OBVIOUS
<1>2. main \in Library
  <2>1. CASE main = EmptyTree
    BY <2>1, EmptyLibrary
  <2>2. CASE main # EmptyTree
    <3>1. PICK p \in Paths, a \in Notes : main = SetNote(EmptyTree, p, a)
      BY <1>1, <2>2 DEF Init
    <3>2. p \in Ways /\ p # <<>> /\ Front(p) \in Ways
      BY PathsAssumption, NotesAre, EmptyHas, EntryIs
    <3>3. /\ EmptyTree \in TreesOf(Notes)
          /\ \A q \in Ways : q # <<>> => EntryAt(EmptyTree, q) = Refused
      BY NotesAre, EmptyHas
    <3>4. ~NoteOnWay(EmptyTree, Front(p))
      BY <3>2, <3>3, NotesAre, OnWay
    <3>5. ~IsTree(EntryAt(EmptyTree, p))
      BY <3>2, <3>3 DEF IsTree
    <3>6. main # Refused
      BY <3>1, <3>2, <3>3, <3>4, <3>5, NotesAre, PutWorks DEF SetNote, DirPart, LeafName
    <3>7. PICK e \in Edits : e.op = "set" /\ e.path = p /\ e.note = a
      <4>1. [op |-> "set", path |-> p, note |-> a] \in Edits
        BY DEF Edits
      <4>2. QED
        BY <4>1
    <3>8. main = Edited(EmptyTree, e)
      BY <3>1, <3>7 DEF Edited
    <3>9. QED
      BY <3>6, <3>8, EmptyLibrary, EditedIs
  <2>3. QED
    BY <2>1, <2>2
<1>3. ClientsOK /\ \A p \in Clients : c[p] = Idle
  BY <1>1 DEF Init, ClientsOK, ClientOK
<1>4. wanted \in [Paths -> Notes \cup {Absent, None}]
  BY <1>1 DEF Init, Nothing
<1>5. Alone
  BY <1>3 DEF Alone, Working, Staging, Reads, Idle
<1>6. Delivered
  BY <1>1, <1>3 DEF Init, Delivered, Landed, Delivers, Idle
<1>7. QED
  BY <1>1, <1>2, <1>3, <1>4, <1>5, <1>6 DEF Init, Typed, StageType, NoStage, StageIsWanted

LEMMA StepTyped == Typed /\ [Next]_vars => Typed'
<1>1. SUFFICES ASSUME Typed, Next PROVE Typed'
  <2>1. ASSUME Typed, UNCHANGED vars PROVE Typed'
    BY <2>1 DEF Typed, vars, StageType, ClientsOK, NoStage
  <2>2. QED
    BY <2>1
<1>2. PICK p \in Clients : Step(p) /\ Crossing
  BY <1>1 DEF Next
<1>3. /\ main \in Library /\ StageType /\ ClientsOK /\ NoStage
      /\ wanted \in [Paths -> Notes \cup {Absent, None}] /\ settled \in BOOLEAN /\ crossed \in BOOLEAN
  BY <1>1 DEF Typed
<1>4. crossed' \in BOOLEAN
  BY <1>2 DEF Crossing
<1>5. ClientOK(c[p]) /\ ClientOK(Idle)
  BY <1>3 DEF ClientsOK, ClientOK
<1>6. stage # None => stage \in Stages /\ stage.base \in Library \cup {Refused} /\ stage.tip \in Library
  BY <1>3, StageIs DEF StageType
<1>7. ASSUME NEW r, ClientOK(r), c' = [c EXCEPT ![p] = r] PROVE ClientsOK'
  BY <1>3, <1>7, ClientSet
<1>8. ASSUME ClientsOK', main' \in Library, UNCHANGED <<stage, wanted>>, settled' \in BOOLEAN
      PROVE  Typed'
  BY <1>3, <1>4, <1>8 DEF Typed, StageType, NoStage
<1>9. CASE \E e \in Edits : BeginDirect(p, e)
  <2>1. PICK e \in Edits : BeginDirect(p, e)
    BY <1>9
  <2>2. PICK r : /\ r = [pc |-> "direct", draft |-> Edited(main, e)] /\ c' = [c EXCEPT ![p] = r]
    BY <2>1 DEF BeginDirect
  <2>3. Edited(main, e) \in Library
    BY <1>3, <2>1, EditedIs DEF BeginDirect
  <2>4. ClientOK(r)
    BY <2>2, <2>3 DEF ClientOK
  <2>5. QED
    BY <1>3, <1>7, <1>8, <2>1, <2>2, <2>4 DEF BeginDirect
<1>10. CASE SetDirect(p)
  <2>1. c[p].draft \in Library
    BY <1>5, <1>10 DEF SetDirect, ClientOK, Idle
  <2>2. QED
    BY <1>3, <1>5, <1>7, <1>8, <1>10, <2>1 DEF SetDirect
<1>11. CASE \E e \in Edits : BeginStaged(p, e)
  <2>1. PICK e \in Edits : BeginStaged(p, e)
    BY <1>11
  <2>2. PICK r : /\ r = IF stage # None THEN [pc |-> "view", edit |-> e]
                        ELSE [pc |-> "lay", edit |-> e, draft |-> main]
                 /\ c' = [c EXCEPT ![p] = r]
    BY <2>1 DEF BeginStaged
  <2>3. ClientOK(r)
    BY <1>3, <2>2 DEF ClientOK
  <2>4. QED
    BY <1>3, <1>7, <1>8, <2>1, <2>2, <2>3 DEF BeginStaged
<1>12. CASE LayBase(p)
  <2>1. c[p].draft \in Library /\ c[p].edit \in Edits
    BY <1>5, <1>12 DEF LayBase, ClientOK, Idle
  <2>2. PICK r : r = [pc |-> "view", edit |-> c[p].edit] /\ c' = [c EXCEPT ![p] = r]
    BY <1>12 DEF LayBase
  <2>3. ClientOK(r)
    BY <2>1, <2>2 DEF ClientOK
  <2>4. stage' \in Stages /\ stage' # None
    BY <1>12, <2>1, StageMade, StageIs DEF LayBase
  <2>5. ClientsOK'
    BY <1>7, <2>2, <2>3
  <2>6. settled' \in BOOLEAN
    BY <1>12 DEF LayBase, Landed
  <2>7. QED
    BY <1>3, <1>4, <1>12, <2>4, <2>5, <2>6 DEF LayBase, Typed, StageType, NoStage
<1>13. CASE ReadStage(p)
  <2>1. c[p].edit \in Edits
    BY <1>5, <1>13 DEF ReadStage, ClientOK, Idle
  <2>2. PICK u : u = IF stage = None THEN EmptyTree ELSE stage.tip
    OBVIOUS
  <2>3. u \in Library
    BY <1>6, <2>2, EmptyLibrary
  <2>4. PICK t : t = Edited(u, c[p].edit)
    OBVIOUS
  <2>5. t # Refused => t \in Library
    BY <2>1, <2>3, <2>4, EditedIs
  <2>6. PICK r : /\ r = IF t = Refused THEN Idle
                        ELSE IF stage = None
                        THEN [pc |-> "put", edit |-> c[p].edit, draft |-> Stage(Refused, t)]
                        ELSE [pc |-> "parent", edit |-> c[p].edit, draft |-> t]
                 /\ c' = [c EXCEPT ![p] = r]
    BY <1>13, <2>2, <2>4 DEF ReadStage
  <2>7. t # Refused => Stage(Refused, t) \in Stages
    BY <2>5, StageMade
  <2>8. ClientOK(r)
    BY <1>5, <2>1, <2>5, <2>6, <2>7 DEF ClientOK
  <2>9. QED
    BY <1>3, <1>7, <1>8, <1>13, <2>6, <2>8 DEF ReadStage
<1>14. CASE ReadStageParent(p)
  <2>1. c[p].edit \in Edits /\ c[p].draft \in Library
    BY <1>5, <1>14 DEF ReadStageParent, ClientOK, Idle
  <2>2. PICK r : /\ r = IF stage = None THEN Idle
                        ELSE [pc |-> "put", edit |-> c[p].edit, draft |-> Stage(stage.base, c[p].draft)]
                 /\ c' = [c EXCEPT ![p] = r]
    BY <1>14 DEF ReadStageParent
  <2>3. stage # None => Stage(stage.base, c[p].draft) \in Stages
    BY <1>6, <2>1, StageMade
  <2>4. ClientOK(r)
    BY <1>5, <2>1, <2>2, <2>3 DEF ClientOK
  <2>5. QED
    BY <1>3, <1>7, <1>8, <1>14, <2>2, <2>4 DEF ReadStageParent
<1>15. CASE SetStage(p)
  <2>1. c[p].edit \in Edits /\ c[p].draft \in Stages
    BY <1>5, <1>15 DEF SetStage, ClientOK, Idle
  <2>2. ClientsOK'
    BY <1>5, <1>7, <1>15 DEF SetStage
  <2>3. wanted' \in [Paths -> Notes \cup {Absent, None}]
    <3>1. c[p].edit.op = "set" => c[p].edit.note \in Notes
      BY <2>1 DEF Edits
    <3>2. QED
      BY <1>3, <1>15, <3>1 DEF SetStage
  <2>4. settled' \in BOOLEAN
    BY <1>15 DEF SetStage, Landed
  <2>5. QED
    BY <1>3, <1>4, <1>15, <2>1, <2>2, <2>3, <2>4, StageIs DEF SetStage, Typed, StageType, NoStage
<1>16. CASE BeginCommit(p)
  <2>1. PICK r : /\ r = [pc |-> "replay", changes |-> StagedChanges(stage.base, stage.tip)]
                 /\ c' = [c EXCEPT ![p] = r]
    BY <1>16 DEF BeginCommit
  <2>2. stage.base \in Library /\ stage.tip \in Library
    BY <1>6, <1>16 DEF BeginCommit
  <2>3. ClientOK(r)
    BY <2>1, <2>2 DEF ClientOK
  <2>4. QED
    BY <1>3, <1>7, <1>8, <1>16, <2>1, <2>3 DEF BeginCommit
<1>17. CASE Replay(p)
  <2>1. PICK b \in Library, s \in Library : c[p].changes = StagedChanges(b, s)
    BY <1>5, <1>17 DEF Replay, ClientOK, Idle
  <2>2. PICK t : t = ApplyStagedChanges(main, c[p].changes)
    OBVIOUS
  <2>3. t # Refused => t \in Library
    BY <1>3, <2>1, <2>2, StageReplay
  <2>4. PICK r : /\ r = IF c[p].changes = <<>> THEN [pc |-> "drop"]
                        ELSE IF t = Refused THEN Idle ELSE [pc |-> "publish", draft |-> t]
                 /\ c' = [c EXCEPT ![p] = r]
    BY <1>17, <2>2 DEF Replay
  <2>5. ClientOK(r)
    BY <1>5, <2>3, <2>4 DEF ClientOK
  <2>6. QED
    BY <1>3, <1>7, <1>8, <1>17, <2>4, <2>5 DEF Replay
<1>18. CASE Publish(p)
  <2>1. c[p].draft \in Library
    BY <1>5, <1>18 DEF Publish, ClientOK, Idle
  <2>2. PICK r : r = [pc |-> "drop"] /\ c' = [c EXCEPT ![p] = r]
    BY <1>18 DEF Publish
  <2>3. ClientOK(r)
    BY <2>2 DEF ClientOK
  <2>4. QED
    BY <1>7, <1>8, <1>18, <2>1, <2>2, <2>3 DEF Publish
<1>19. CASE Drop(p)
  <2>1. ClientsOK'
    BY <1>5, <1>7, <1>19 DEF Drop
  <2>2. wanted' \in [Paths -> Notes \cup {Absent, None}]
    BY <1>19 DEF Drop, Nothing
  <2>3. QED
    BY <1>3, <1>4, <1>19, <2>1, <2>2 DEF Drop, Typed, StageType, NoStage
<1>20. CASE BeginAbort(p)
  <2>1. PICK r : r = [pc |-> "abort"] /\ c' = [c EXCEPT ![p] = r]
    BY <1>20 DEF BeginAbort
  <2>2. ClientOK(r)
    BY <2>1 DEF ClientOK
  <2>3. QED
    BY <1>3, <1>7, <1>8, <1>20, <2>1, <2>2 DEF BeginAbort
<1>21. CASE Stop(p)
  BY <1>3, <1>5, <1>7, <1>8, <1>21 DEF Stop
<1>22. QED
  BY <1>2, <1>9, <1>10, <1>11, <1>12, <1>13, <1>14, <1>15, <1>16, <1>17, <1>18, <1>19, <1>20, <1>21
     DEF Step

-----------------------------------------------------------------------------
(* One staging command at a time.                                             *)

LEMMA AtMostOne ==
    ASSUME NEW S, IsFiniteSet(S), ~ (Cardinality(S) > 1), NEW x \in S, NEW y \in S
    PROVE  x = y
<1>1. SUFFICES ASSUME x # y PROVE FALSE
  OBVIOUS
<1>2. PICK T : T = {x}
  OBVIOUS
<1>3. IsFiniteSet(T) /\ Cardinality(T) = 1 /\ y \notin T
  BY <1>1, <1>2, FS_Singleton
<1>4. PICK U : U = T \cup {y}
  OBVIOUS
<1>5. Cardinality(U) = 2
  <2>1. Cardinality(T \cup {y}) = IF y \in T THEN Cardinality(T) ELSE Cardinality(T) + 1
    BY <1>3, FS_AddElement
  <2>2. QED
    BY <1>3, <1>4, <2>1
<1>6. U \in SUBSET S
  BY <1>2, <1>4
<1>7. Cardinality(S) \in Nat /\ Cardinality(U) <= Cardinality(S)
  BY <1>6, FS_Subset, FS_CardinalityType
<1>8. QED
  BY <1>5, <1>7

(* Where they have not crossed after a step, they had not before, unless      *)
(* there is no stage and no staging command.                                  *)
LEMMA Uncrossed ==
    ASSUME Crossing, ~crossed'
    PROVE  /\ \A p, q \in Working' : p = q
           /\ stage' # None \/ Working' # {} => ~crossed
<1>1. Working' = {p \in Clients : Staging(p)'}
  BY DEF Working
<1>2. CASE stage' = None /\ ~ \E p \in Clients : Staging(p)'
  BY <1>1, <1>2
<1>3. CASE ~ (stage' = None /\ ~ \E p \in Clients : Staging(p)')
  <2>1. ~crossed /\ ~ (Cardinality({p \in Clients : Staging(p)'}) > 1)
    BY <1>3 DEF Crossing
  <2>2. PICK S : S = {p \in Clients : Staging(p)'}
    OBVIOUS
  <2>3. IsFiniteSet(S)
    BY <2>2, ClientsAssumption, FS_Subset
  <2>4. \A p, q \in S : p = q
    BY <2>1, <2>2, <2>3, AtMostOne
  <2>5. QED
    BY <1>1, <2>1, <2>2, <2>4
<1>4. QED
  BY <1>2, <1>3

LEMMA StepAlone == Typed /\ Alone /\ [Next]_vars => Alone'
<1>1. SUFFICES ASSUME Typed, Alone, Next PROVE Alone'
  <2>1. ASSUME Alone, UNCHANGED vars PROVE Alone'
    BY <2>1 DEF Alone, vars, Working, Staging, Reads
  <2>2. QED
    BY <2>1
<1>2. SUFFICES ASSUME ~crossed' PROVE \A q \in Clients : Reads(c[q])'
  <2>1. Crossing
    BY <1>1 DEF Next
  <2>2. ~crossed' => \A p, q \in Working' : p = q
    BY <2>1, Uncrossed
  <2>3. QED
    BY <1>2, <2>2 DEF Alone
<1>3. PICK p \in Clients : Step(p) /\ Crossing
  BY <1>1 DEF Next
<1>4. ClientsOK /\ ClientOK(c[p])
  BY <1>1 DEF Typed, ClientsOK
<1>5. \A q \in Clients : c[q].pc \in {"idle", "direct"} => Reads(c[q])
  BY DEF Reads
<1>6. SUFFICES ASSUME NEW q \in Working' PROVE Reads(c[q])'
  BY DEF Working, Staging, Reads
<1>7. ~crossed /\ \A x, y \in Working' : x = y
  BY <1>2, <1>3, Uncrossed
<1>8. /\ \A x, y \in Working : x = y
      /\ \A x \in Clients : Reads(c[x])
  BY <1>1, <1>7 DEF Alone
<1>9. q \in Clients /\ c'[q].pc \notin {"idle", "direct"}
  BY DEF Working, Staging
<1>10. CASE q # p
  <2>1. c'[q] = c[q]
    <3>1. \E r : c' = [c EXCEPT ![p] = r]
      BY <1>3 DEF Step, BeginDirect, SetDirect, BeginStaged, LayBase, ReadStage, ReadStageParent,
                  SetStage, BeginCommit, Replay, Publish, Drop, BeginAbort, Stop
    <3>2. QED
      BY <1>4, <1>9, <1>10, <3>1, ClientSet
  <2>2. q \in Working
    BY <1>9, <2>1 DEF Working, Staging
  <2>3. p \notin Working
    BY <1>8, <1>10, <2>2
  <2>4. c[p].pc \in {"idle", "direct"}
    BY <2>3 DEF Working, Staging
  <2>5. UNCHANGED stage
    BY <1>3, <2>4 DEF Step, BeginDirect, SetDirect, BeginStaged, LayBase, ReadStage, ReadStageParent,
                      SetStage, BeginCommit, Replay, Publish, Drop, BeginAbort, Stop
  <2>6. QED
    BY <1>8, <1>9, <2>1, <2>5 DEF Reads
<1>11. CASE q = p
  <2>1. ASSUME NEW r, c' = [c EXCEPT ![p] = r] PROVE c'[q] = r
    BY <1>4, <1>11, <2>1, ClientSet
  <2>2. ASSUME NEW e \in Edits, BeginDirect(p, e) PROVE FALSE
    <3>1. c'[q] = [pc |-> "direct", draft |-> Edited(main, e)]
      BY <2>1, <2>2 DEF BeginDirect
    <3>2. QED
      BY <1>9, <3>1
  <2>3. ASSUME c' = [c EXCEPT ![p] = Idle] PROVE FALSE
    <3>1. c'[q] = Idle
      BY <2>1, <2>3
    <3>2. QED
      BY <1>9, <3>1 DEF Idle
  <2>4. ASSUME NEW e \in Edits, BeginStaged(p, e) PROVE Reads(c[q])'
    <3>1. c'[q] = IF stage # None THEN [pc |-> "view", edit |-> e]
                  ELSE [pc |-> "lay", edit |-> e, draft |-> main]
      BY <2>1, <2>4 DEF BeginStaged
    <3>2. UNCHANGED stage
      BY <2>4 DEF BeginStaged
    <3>3. QED
      BY <3>1, <3>2 DEF Reads
  <2>5. ASSUME LayBase(p) PROVE Reads(c[q])'
    <3>1. c'[q] = [pc |-> "view", edit |-> c[p].edit]
      BY <2>1, <2>5 DEF LayBase
    <3>2. c[p].draft \in Library
      BY <1>4, <2>5 DEF LayBase, ClientOK, Idle
    <3>3. stage' # None
      BY <2>5, <3>2, StageMade, StageIs DEF LayBase
    <3>4. QED
      BY <3>1, <3>3 DEF Reads
  <2>6. ASSUME ReadStage(p) PROVE Reads(c[q])'
    <3>1. stage # None
      BY <1>8, <2>6 DEF ReadStage, Reads
    <3>2. PICK t : t = Edited(stage.tip, c[p].edit)
      OBVIOUS
    <3>3. c'[q] = IF t = Refused THEN Idle ELSE [pc |-> "parent", edit |-> c[p].edit, draft |-> t]
      <4>1. c' = [c EXCEPT ![p] = IF t = Refused THEN Idle
                                  ELSE [pc |-> "parent", edit |-> c[p].edit, draft |-> t]]
        BY <2>6, <3>1, <3>2 DEF ReadStage
      <4>2. QED
        BY <2>1, <4>1
    <3>4. UNCHANGED stage
      BY <2>6 DEF ReadStage
    <3>5. QED
      BY <1>9, <3>1, <3>2, <3>3, <3>4 DEF Reads, Idle
  <2>7. ASSUME ReadStageParent(p) PROVE Reads(c[q])'
    <3>1. stage # None /\ c[p].draft = Edited(stage.tip, c[p].edit)
      BY <1>8, <2>7 DEF ReadStageParent, Reads
    <3>2. c'[q] = [pc |-> "put", edit |-> c[p].edit, draft |-> Stage(stage.base, c[p].draft)]
      <4>1. c' = [c EXCEPT ![p] = [pc |-> "put", edit |-> c[p].edit,
                                   draft |-> Stage(stage.base, c[p].draft)]]
        BY <2>7, <3>1 DEF ReadStageParent
      <4>2. QED
        BY <2>1, <4>1
    <3>3. UNCHANGED stage
      BY <2>7 DEF ReadStageParent
    <3>4. QED
      BY <3>1, <3>2, <3>3 DEF Reads
  <2>8. ASSUME BeginCommit(p) PROVE Reads(c[q])'
    <3>1. c'[q] = [pc |-> "replay", changes |-> StagedChanges(stage.base, stage.tip)]
      BY <2>1, <2>8 DEF BeginCommit
    <3>2. stage # None /\ stage.base # Refused /\ UNCHANGED stage
      BY <2>8 DEF BeginCommit
    <3>3. QED
      BY <3>1, <3>2 DEF Reads
  <2>9. ASSUME Replay(p) PROVE Reads(c[q])'
    <3>1. \E r : c' = [c EXCEPT ![p] = r] /\ (r = Idle \/ r.pc \in {"drop", "publish"})
      <4>1. PICK t : t = ApplyStagedChanges(main, c[p].changes)
        OBVIOUS
      <4>2. PICK r : r = IF c[p].changes = <<>> THEN [pc |-> "drop"]
                         ELSE IF t = Refused THEN Idle ELSE [pc |-> "publish", draft |-> t]
        OBVIOUS
      <4>3. c' = [c EXCEPT ![p] = r]
        BY <2>9, <4>1, <4>2 DEF Replay
      <4>4. r = Idle \/ r.pc \in {"drop", "publish"}
        BY <4>2
      <4>5. QED
        BY <4>3, <4>4
    <3>2. c'[q] = Idle \/ c'[q].pc \in {"drop", "publish"}
      BY <2>1, <3>1
    <3>3. QED
      BY <1>9, <3>2 DEF Reads, Idle
  <2>10. ASSUME Publish(p) \/ BeginAbort(p) PROVE Reads(c[q])'
    <3>1. c'[q] = [pc |-> "drop"] \/ c'[q] = [pc |-> "abort"]
      BY <2>1, <2>10 DEF Publish, BeginAbort
    <3>2. QED
      BY <3>1 DEF Reads
  <2>11. QED
    BY <1>3, <2>2, <2>3, <2>4, <2>5, <2>6, <2>7, <2>8, <2>9, <2>10
       DEF Step, SetDirect, SetStage, Drop, Stop
<1>12. QED
  BY <1>10, <1>11

-----------------------------------------------------------------------------
(* What is staged.                                                            *)

LEMMA StepWanted == Typed /\ Alone /\ StageIsWanted /\ [Next]_vars => StageIsWanted'
<1>1. SUFFICES ASSUME Typed, Alone, StageIsWanted, Next PROVE StageIsWanted'
  <2>1. ASSUME StageIsWanted, UNCHANGED vars PROVE StageIsWanted'
    BY <2>1 DEF StageIsWanted, vars
  <2>2. QED
    BY <2>1
<1>2. SUFFICES ASSUME stage' # None, ~crossed' PROVE StageIsWanted'
  BY DEF StageIsWanted
<1>3. PICK p \in Clients : Step(p) /\ Crossing
  BY <1>1 DEF Next
<1>4. ~crossed
  BY <1>2, <1>3, Uncrossed
<1>5. ClientOK(c[p]) /\ Reads(c[p]) /\ StageType /\ NoStage
      /\ wanted \in [Paths -> Notes \cup {Absent, None}]
  BY <1>1, <1>4 DEF Typed, ClientsOK, Alone
<1>6. CASE UNCHANGED <<stage, wanted>>
  BY <1>1, <1>4, <1>6 DEF StageIsWanted
<1>7. CASE LayBase(p)
  <2>1. c[p].draft \in Library /\ stage = None
    BY <1>5, <1>7 DEF LayBase, ClientOK, Idle, Reads
  <2>2. wanted' = Nothing /\ stage' = Stage(c[p].draft, c[p].draft)
    BY <1>5, <1>7, <2>1 DEF NoStage, LayBase
  <2>3. stage'.base = c[p].draft /\ stage'.tip = c[p].draft /\ c[p].draft # Refused
    BY <2>1, <2>2, LibraryTree DEF Stage
  <2>4. \A q \in Paths : wanted'[q] = None
    BY <2>2 DEF Nothing
  <2>5. QED
    BY <2>3, <2>4 DEF StageIsWanted
<1>8. CASE SetStage(p)
  <2>1. PICK e, d : e = c[p].edit /\ d = Edited(stage.tip, e)
    OBVIOUS
  <2>2. stage # None /\ c[p].draft = Stage(stage.base, d) /\ e \in Edits /\ c[p].draft \in Stages
    BY <1>5, <1>8, <2>1 DEF SetStage, ClientOK, Idle, Reads
  <2>3. /\ stage.base \in Library /\ stage.tip \in Library
        /\ \A q \in Paths : Leaf(stage.tip, q) =
               IF wanted[q] = None THEN Leaf(stage.base, q) ELSE wanted[q]
    BY <1>1, <1>4, <1>5, <2>2, StageIs DEF StageIsWanted, StageType
  <2>4. d \in Library
    BY <2>2, StageIs DEF Stage
  <2>5. \A q \in Paths : Leaf(d, q) = Left(e, q, Leaf(stage.tip, q))
    BY <2>1, <2>2, <2>3, <2>4, LibraryTree, EditedIs
  <2>6. stage'.base = stage.base /\ stage'.tip = d
    BY <1>8, <2>2 DEF SetStage, Stage
  <2>7. \A q \in Paths : wanted'[q] = Left(e, q, wanted[q])
    BY <1>8, <2>1 DEF SetStage, Left
  <2>8. e.op = "set" => e.note # None
    BY <2>2, SentinelAssumption DEF Edits
  <2>9. ASSUME NEW q \in Paths
        PROVE  Leaf(d, q) = IF wanted'[q] = None THEN Leaf(stage.base, q) ELSE wanted'[q]
    <3>1. CASE Touches(e, q)
      <4>1. wanted'[q] # None /\ Leaf(d, q) = wanted'[q]
        BY <2>5, <2>7, <2>8, <3>1, SentinelAssumption DEF Left
      <4>2. QED
        BY <4>1
    <3>2. CASE ~Touches(e, q)
      BY <2>3, <2>5, <2>7, <3>2 DEF Left
    <3>3. QED
      BY <3>1, <3>2
  <2>10. stage.base # Refused
    BY <2>3, LibraryTree
  <2>11. QED
    BY <2>6, <2>9, <2>10 DEF StageIsWanted
<1>9. CASE Drop(p)
  BY <1>2, <1>9 DEF Drop
<1>10. QED
  BY <1>3, <1>6, <1>7, <1>8, <1>9
     DEF Step, BeginDirect, SetDirect, BeginStaged, ReadStage, ReadStageParent,
         BeginCommit, Replay, Publish, BeginAbort, Stop

-----------------------------------------------------------------------------
(* What a commit has brought to the branch when it drops the stage.           *)

(* Where nothing has changed the tip has the notes of the base.               *)
LEMMA NoChanges ==
    ASSUME NEW b \in Library, NEW s \in Library, StagedChanges(b, s) = <<>>, NEW q \in Paths
    PROVE  Leaf(b, q) = Leaf(s, q)
<1>1. /\ s \in TreesOf(Notes) /\ q \in Ways \ {<<>>}
      /\ \A w \in Ways \ {<<>>} : LeafEntry(b, w) # Refused => w \in Paths
      /\ \A w \in Ways \ {<<>>} : LeafEntry(s, w) # Refused => w \in Paths
  BY LibraryIs, PathsAssumption
<1>2. IsFiniteSet(Differing(b, s))
  <2>1. Differing(b, s) \in SUBSET Paths
    BY <1>1 DEF Differing
  <2>2. QED
    BY <2>1, PathsAssumption, FS_Subset
<1>3. PICK cs : cs = StagedChanges(b, s)
  OBVIOUS
<1>4. \A p \in Differing(b, s) : \E i \in 1 .. Len(cs) : cs[i].path = p
  BY <1>1, <1>2, <1>3, NotesAre, StagedIs
<1>5. Len(cs) = 0
  BY <1>3
<1>6. q \notin Differing(b, s)
  BY <1>4, <1>5
<1>7. QED
  BY <1>1, <1>6 DEF Differing, Leaf

LEMMA StepDelivered ==
    Typed /\ Alone /\ StageIsWanted /\ Delivered /\ [Next]_vars => Delivered'
<1>1. SUFFICES ASSUME Typed, Alone, StageIsWanted, Delivered, Next PROVE Delivered'
  <2>1. ASSUME Delivered, UNCHANGED vars PROVE Delivered'
    BY <2>1 DEF Delivered, Delivers, Carries, Landed, vars
  <2>2. QED
    BY <2>1
<1>2. PICK p \in Clients : Step(p) /\ Crossing
  BY <1>1 DEF Next
<1>3. ClientsOK /\ ClientOK(c[p]) /\ StageType /\ main \in Library
  BY <1>1 DEF Typed, ClientsOK
<1>4. Landed' => settled'
  <2>1. CASE UNCHANGED <<main, stage, wanted, settled>>
    BY <1>1, <2>1 DEF Delivered, Landed
  <2>2. CASE SetDirect(p) \/ LayBase(p) \/ SetStage(p) \/ Publish(p)
    BY <2>2 DEF SetDirect, LayBase, SetStage, Publish
  <2>3. CASE Drop(p)
    BY <2>3 DEF Drop, Landed
  <2>4. QED
    BY <1>2, <2>1, <2>2, <2>3
       DEF Step, BeginDirect, BeginStaged, ReadStage, ReadStageParent, BeginCommit, Replay, BeginAbort, Stop
<1>5. ASSUME ~crossed', NEW q \in Clients, c'[q].pc \in {"publish", "drop"} PROVE Delivers(c[q])'
  <2>1. q \in Working'
    BY <1>5 DEF Working, Staging
  <2>2. ~crossed /\ \A x, y \in Working' : x = y
    BY <1>2, <1>5, <2>1, Uncrossed
  <2>3. /\ \A x, y \in Working : x = y
        /\ \A x \in Clients : Reads(c[x]) /\ Delivers(c[x])
    BY <1>1, <2>2 DEF Alone, Delivered
  <2>4. CASE q # p
    <3>1. c'[q] = c[q]
      <4>1. \E r : c' = [c EXCEPT ![p] = r]
        BY <1>2 DEF Step, BeginDirect, SetDirect, BeginStaged, LayBase, ReadStage, ReadStageParent,
                    SetStage, BeginCommit, Replay, Publish, Drop, BeginAbort, Stop
      <4>2. QED
        BY <1>3, <2>4, <4>1, ClientSet
    <3>2. q \in Working
      BY <1>5, <3>1 DEF Working, Staging
    <3>3. c[p].pc \in {"idle", "direct"}
      BY <2>3, <2>4, <3>2 DEF Working, Staging
    <3>4. UNCHANGED <<stage, wanted>> /\ (settled' = settled \/ settled' = (settled \/ Landed'))
      BY <1>2, <3>3 DEF Step, BeginDirect, SetDirect, BeginStaged, LayBase, ReadStage, ReadStageParent,
                        SetStage, BeginCommit, Replay, Publish, Drop, BeginAbort, Stop
    <3>5. settled => settled'
      BY <3>4, Zenon
    <3>6. QED
      BY <2>3, <3>1, <3>4, <3>5 DEF Delivers, Carries
  <2>5. CASE q = p
    <3>1. ASSUME NEW r, c' = [c EXCEPT ![p] = r] PROVE c'[q] = r
      BY <1>3, <2>5, <3>1, ClientSet
    <3>2. CASE Replay(p)
      <4>1. /\ stage # None /\ stage.base # Refused
            /\ c[p].changes = StagedChanges(stage.base, stage.tip)
        BY <2>3, <3>2 DEF Replay, Reads
      <4>2. stage.base \in Library /\ stage.tip \in Library
        BY <1>3, <4>1, StageIs DEF StageType
      <4>3. \A w \in Paths : Leaf(stage.tip, w) = IF wanted[w] = None THEN Leaf(stage.base, w) ELSE wanted[w]
        BY <1>1, <2>2, <4>1 DEF StageIsWanted
      <4>4. PICK t : t = ApplyStagedChanges(main, c[p].changes)
        OBVIOUS
      <4>5. c'[q] = IF c[p].changes = <<>> THEN [pc |-> "drop"]
                    ELSE IF t = Refused THEN Idle ELSE [pc |-> "publish", draft |-> t]
        <5>1. c' = [c EXCEPT ![p] = IF c[p].changes = <<>> THEN [pc |-> "drop"]
                                    ELSE IF t = Refused THEN Idle
                                    ELSE [pc |-> "publish", draft |-> t]]
          BY <3>2, <4>4 DEF Replay
        <5>2. QED
          BY <3>1, <5>1
      <4>6. UNCHANGED <<stage, wanted, settled>>
        BY <3>2 DEF Replay
      <4>7. CASE c[p].changes = <<>>
        <5>1. \A w \in Paths : Leaf(stage.base, w) = Leaf(stage.tip, w)
          BY <4>1, <4>2, <4>7, NoChanges
        <5>2. Landed
          BY <4>1, <4>3, <5>1 DEF Landed
        <5>3. settled' /\ c'[q].pc = "drop"
          BY <1>1, <4>5, <4>6, <4>7, <5>2 DEF Delivered
        <5>4. QED
          BY <5>3 DEF Delivers
      <4>8. CASE c[p].changes # <<>> /\ t # Refused
        <5>1. \A w \in Paths : Leaf(t, w) = IF Leaf(stage.base, w) # Leaf(stage.tip, w)
                                           THEN Leaf(stage.tip, w) ELSE Leaf(main, w)
          BY <1>3, <4>1, <4>2, <4>4, <4>8, StageReplay
        <5>2. \A w \in Paths : wanted[w] \in {None, Leaf(stage.base, w), Leaf(t, w)}
          BY <4>3, <5>1
        <5>3. c'[q].pc = "publish" /\ c'[q].draft = t
          BY <4>5, <4>8
        <5>4. Carries(t)'
          BY <4>1, <4>6, <5>2 DEF Carries
        <5>5. QED
          BY <4>6, <5>2, <5>3, <4>1 DEF Delivers, Carries
      <4>9. QED
        BY <1>5, <4>5, <4>7, <4>8 DEF Idle
    <3>3. CASE Publish(p)
      <4>1. Carries(c[p].draft)
        BY <2>3, <3>3 DEF Delivers, Publish
      <4>2. UNCHANGED <<stage, wanted>> /\ main' = c[p].draft
        BY <3>3 DEF Publish
      <4>3. Landed'
        BY <4>1, <4>2 DEF Landed, Carries
      <4>4. c'[q] = [pc |-> "drop"]
        BY <3>1, <3>3 DEF Publish
      <4>5. QED
        BY <1>4, <4>3, <4>4 DEF Delivers
    <3>4. ASSUME NEW r, c' = [c EXCEPT ![p] = r], r.pc \notin {"publish", "drop"} PROVE FALSE
      BY <1>5, <3>1, <3>4
    <3>5. CASE \/ \E e \in Edits : BeginDirect(p, e) \/ BeginStaged(p, e)
               \/ LayBase(p) \/ ReadStageParent(p) \/ BeginCommit(p) \/ BeginAbort(p)
      <4>1. \E r : /\ c' = [c EXCEPT ![p] = r]
                   /\ \/ r = Idle
                      \/ r.pc \in {"direct", "view", "lay", "put", "replay", "abort"}
        BY <3>5 DEF BeginDirect, BeginStaged, LayBase, ReadStageParent, BeginCommit, BeginAbort
      <4>2. QED
        BY <3>4, <4>1 DEF Idle
    <3>6. CASE SetDirect(p) \/ SetStage(p) \/ Drop(p) \/ Stop(p)
      <4>1. c' = [c EXCEPT ![p] = Idle]
        BY <3>6 DEF SetDirect, SetStage, Drop, Stop
      <4>2. QED
        BY <3>4, <4>1 DEF Idle
    <3>7. CASE ReadStage(p)
      <4>1. PICK t : t = Edited(IF stage = None THEN EmptyTree ELSE stage.tip, c[p].edit)
        OBVIOUS
      <4>2. PICK r : /\ r = IF t = Refused THEN Idle
                            ELSE IF stage = None
                            THEN [pc |-> "put", edit |-> c[p].edit, draft |-> Stage(Refused, t)]
                            ELSE [pc |-> "parent", edit |-> c[p].edit, draft |-> t]
                     /\ c' = [c EXCEPT ![p] = r]
        BY <3>7, <4>1 DEF ReadStage
      <4>3. r.pc \notin {"publish", "drop"}
        BY <4>2 DEF Idle
      <4>4. QED
        BY <3>4, <4>2, <4>3
    <3>8. QED
      BY <1>2, <3>2, <3>3, <3>5, <3>6, <3>7 DEF Step
  <2>6. QED
    BY <2>4, <2>5
<1>6. QED
  BY <1>4, <1>5 DEF Delivered, Delivers

-----------------------------------------------------------------------------
(* The theorems.                                                              *)

Inv == Typed /\ Alone /\ StageIsWanted /\ Delivered

LEMMA Inductive == Spec => []Inv
<1>1. Init => Inv
  BY InitTyped DEF Inv
<1>2. Inv /\ [Next]_vars => Inv'
  BY StepTyped, StepAlone, StepWanted, StepDelivered DEF Inv
<1>3. QED
  BY <1>1, <1>2, PTL DEF Spec

(* Types: the trees of branch and stage are ones the commands can make.       *)
THEOREM StageTypes == Spec => []TypeOK
<1>1. Typed => TypeOK
  <2>1. SUFFICES ASSUME Typed PROVE TypeOK
    OBVIOUS
  <2>2. stage # None => stage.base \in Library \cup {Refused} /\ stage.tip \in Library
    BY <2>1, StageIs DEF Typed, StageType
  <2>3. \A t \in Library : t \in Trees
    BY DEF Library
  <2>4. QED
    BY <2>1, <2>2, <2>3 DEF Typed, TypeOK
<1>2. QED
  BY <1>1, Inductive, PTL DEF Inv

(* The tip of the stage is its base with the edits staged since, for any      *)
(* clients and any deaths, while staging commands do not overlap (stage.go:43).*)
THEOREM StageKeepsEdits == Spec => []StageIsWanted
BY Inductive, PTL DEF Inv

(* Unless the user aborts or staging commands overlap, the stage goes only    *)
(* once the branch has had all the staged edits that differ from the base, at *)
(* one moment (stage.go:315).                                                 *)
THEOREM StageLosesNothing == Spec => NothingStagedIsLost
<1>1. ASSUME Inv, Next, stage # None, stage' = None, ~crossed,
             ~ \E p \in Clients : c[p].pc = "abort" /\ c'[p] # c[p]
      PROVE  settled
  <2>1. PICK p \in Clients : Step(p)
    BY <1>1 DEF Next
  <2>2. ClientsOK /\ ClientOK(c[p]) /\ Delivers(c[p])
    BY <1>1 DEF Inv, Typed, ClientsOK, Delivered
  <2>3. CASE Drop(p)
    <3>1. c'[p] = Idle
      BY <2>2, <2>3, ClientSet DEF Drop
    <3>2. c[p].pc # "abort"
      BY <1>1, <3>1 DEF Idle
    <3>3. QED
      BY <2>2, <2>3, <3>2 DEF Drop, Delivers
  <2>4. CASE LayBase(p)
    <3>1. c[p].draft \in Library
      BY <2>2, <2>4 DEF LayBase, ClientOK, Idle
    <3>2. QED
      BY <1>1, <2>4, <3>1, StageMade, StageIs DEF LayBase
  <2>5. CASE SetStage(p)
    <3>1. c[p].draft \in Stages
      BY <2>2, <2>5 DEF SetStage, ClientOK, Idle
    <3>2. QED
      BY <1>1, <2>5, <3>1, StageIs DEF SetStage
  <2>6. QED
    BY <1>1, <2>1, <2>3, <2>4, <2>5
       DEF Step, BeginDirect, SetDirect, BeginStaged, ReadStage, ReadStageParent, BeginCommit, Replay,
           Publish, BeginAbort, Stop
<1>2. QED
  BY <1>1, Inductive, PTL DEF Spec, NothingStagedIsLost, vars

(* A commit publishes the branch it finds with the staged edits on top, path  *)
(* by path (mergestate.go:357).                                               *)
THEOREM CommitPublishesEdits == Spec => []CommitIsWanted
<1>1. Typed /\ Alone /\ StageIsWanted => CommitIsWanted
  <2>1. SUFFICES ASSUME Typed, Alone, StageIsWanted,
                        NEW p \in Clients, c[p].pc = "replay", ~crossed,
                        NEW t, t = ApplyStagedChanges(main, c[p].changes), t # Refused,
                        NEW q \in Paths
                 PROVE  Leaf(t, q) = IF wanted[q] \notin {None, Leaf(stage.base, q)}
                                     THEN wanted[q] ELSE Leaf(main, q)
    BY DEF CommitIsWanted
  <2>2. /\ stage # None /\ stage.base # Refused
        /\ c[p].changes = StagedChanges(stage.base, stage.tip)
    BY <2>1 DEF Alone, Reads
  <2>3. stage.base \in Library /\ stage.tip \in Library /\ main \in Library
    BY <2>1, <2>2, StageIs DEF Typed, StageType
  <2>4. Leaf(t, q) = IF Leaf(stage.base, q) # Leaf(stage.tip, q) THEN Leaf(stage.tip, q) ELSE Leaf(main, q)
    BY <2>1, <2>2, <2>3, StageReplay
  <2>5. Leaf(stage.tip, q) = IF wanted[q] = None THEN Leaf(stage.base, q) ELSE wanted[q]
    BY <2>1, <2>2 DEF StageIsWanted
  <2>6. QED
    BY <2>4, <2>5
<1>2. QED
  BY <1>1, Inductive, PTL DEF Inv

(* A commit repeated after it moved the branch gives the same tree again      *)
(* (stage.go:315).                                                            *)
THEOREM CommitRepeats == Spec => []CommitTwiceIsOnce
<1>1. Typed => CommitTwiceIsOnce
  <2>1. SUFFICES ASSUME Typed, stage # None, stage.base # Refused,
                        NEW cs, cs = StagedChanges(stage.base, stage.tip),
                        NEW once, once = ApplyStagedChanges(main, cs), once # Refused
                 PROVE  ApplyStagedChanges(once, cs) = once
    BY DEF CommitTwiceIsOnce
  <2>2. stage.base \in Library /\ stage.tip \in Library /\ main \in Library
    BY <2>1, StageIs DEF Typed, StageType
  <2>3. QED
    BY <2>1, <2>2, StageReplay
<1>2. QED
  BY <1>1, Inductive, PTL DEF Inv
=============================================================================
