------------------------------ MODULE StageFlow ------------------------------
(***************************************************************************)
(* Staging: internal/repo stage.go and cmd/kb commit.go.  Staged edits go  *)
(* to the branch <branch>-stage, on top of a base snapshot that has the    *)
(* tree of the branch at that time; commit replays the difference of base  *)
(* and tip on the branch, and drops the stage branch in a second call.     *)
(*                                                                         *)
(* Several processes run commands, and a command may die between any two   *)
(* of its store calls.  A branch is its tree; its history, its index and   *)
(* the second look at its head are in BranchWriters.  The library is not   *)
(* merging (then staged edits are decisions: MergeFlow).                   *)
(***************************************************************************)
EXTENDS NoteTrees

CONSTANTS
    Clients,   \* processes that run commands
    Paths,     \* the paths commands name
    Notes,     \* the notes they write
    Absent,    \* no note at a path
    None       \* no branch, nothing asked for

ASSUME ClientsAssumption  == IsFiniteSet(Clients)
ASSUME PathsAssumption    == Paths \subseteq Ways \ {<<>>} /\ IsFiniteSet(Paths)
ASSUME NotesAssumption    == \A a \in Notes : ~IsDir(a)
ASSUME SentinelAssumption == {Absent, None, Refused} \cap Notes = {} /\ None # Absent
ASSUME NoneAssumption     == \A b \in TreesOf(Notes) \cup {Refused}, t \in TreesOf(Notes) :
                                None # [base |-> b, tip |-> t]
ASSUME RefusedAssumption  == \A k \in 0 .. Depth : Refused \notin Levels(Notes)[k]

VARIABLES
    main,      \* the tree of the branch
    stage,     \* the stage branch: the trees of its base and its tip, or None
    c,         \* what each client is doing
    wanted,    \* history: at each path, the last edit staged since the stage was laid
    settled,   \* history: the branch has had all that is wanted at one moment
    crossed    \* history: two staging commands have overlapped since there was no stage

vars == <<main, stage, c, wanted, settled, crossed>>

Edits == [op : {"set"}, path : Paths, note : Notes] \cup [op : {"rm", "rmdir"}, path : Paths]

Edited(t, e) == CASE e.op = "set"   -> SetNote(t, e.path, e.note)
                  [] e.op = "rm"    -> RemoveNote(t, e.path)
                  [] e.op = "rmdir" -> RemoveDir(t, e.path, TRUE)

Leaf(t, p) == LET e == LeafEntry(t, p) IN IF e = Refused THEN Absent ELSE e

\* a stage branch whose base is gone is rooted nowhere: base is Refused
Stage(base, tip) == [base |-> base, tip |-> tip]

Idle == [pc |-> "idle"]
Nothing == [p \in Paths |-> None]

\* a client that runs a command on the stage branch
Staging(p) == c[p].pc \notin {"idle", "direct"}

Init == /\ main \in {SetNote(EmptyTree, p, a) : p \in Paths, a \in Notes} \cup {EmptyTree}
        /\ stage = None
        /\ c = [p \in Clients |-> Idle]
        /\ wanted = Nothing /\ settled = FALSE /\ crossed = FALSE

\* the branch has every edit that is wanted and makes a difference to the base
Landed == /\ stage # None /\ stage.base # Refused
          /\ \A p \in Paths : wanted[p] \in {None, Leaf(stage.base, p), Leaf(main, p)}

\* the histories follow from the step: one that leaves no stage and no staging command
\* ends what has crossed
Crossing == crossed' = /\ \/ crossed
                          \/ Cardinality({p \in Clients : Staging(p)'}) > 1
                       /\ stage' # None \/ \E p \in Clients : Staging(p)'

----------------------------------------------------------------------------
(* note set, note rm and dir rm on the branch itself.                        *)

BeginDirect(p, e) ==
    /\ c[p].pc = "idle"
    /\ Edited(main, e) # Refused
    /\ c' = [c EXCEPT ![p] = [pc |-> "direct", draft |-> Edited(main, e)]]
    /\ UNCHANGED <<main, stage, wanted, settled>>

SetDirect(p) ==
    /\ c[p].pc = "direct"
    /\ main' = c[p].draft
    /\ c' = [c EXCEPT ![p] = Idle]
    /\ UNCHANGED <<stage, wanted>>
    /\ settled' = (settled \/ Landed')

----------------------------------------------------------------------------
(* The same with --stage: first there must be a base, then the stage view    *)
(* is edited like any branch.                                                *)

\* mistake: a base is laid whenever the command starts
BeginStagedAnew(p, e) ==
    /\ c[p].pc = "idle"
    /\ c' = [c EXCEPT ![p] = [pc |-> "lay", edit |-> e, draft |-> main]]
    /\ UNCHANGED <<main, stage, wanted, settled>>

\* ensureStageBase looks for the stage branch; without one it reads the branch
BeginStaged(p, e) ==
    /\ c[p].pc = "idle"
    /\ c' = [c EXCEPT ![p] = IF stage # None THEN [pc |-> "view", edit |-> e]
                             ELSE [pc |-> "lay", edit |-> e, draft |-> main]]
    /\ UNCHANGED <<main, stage, wanted, settled>>

\* mistake: a library without a head gets a base without a root
LayBaseNoRoot(p) ==
    /\ c[p].pc = "lay"
    /\ stage' = IF c[p].draft = EmptyTree THEN Stage(None, EmptyTree) ELSE Stage(c[p].draft, c[p].draft)
    /\ c' = [c EXCEPT ![p] = [pc |-> "view", edit |-> c[p].edit]]
    /\ UNCHANGED <<main, wanted, settled>>

\* ensureStageBase sets the stage branch to the base it has put
LayBase(p) ==
    /\ c[p].pc = "lay"
    /\ stage' = Stage(c[p].draft, c[p].draft)
    /\ c' = [c EXCEPT ![p] = [pc |-> "view", edit |-> c[p].edit]]
    /\ UNCHANGED <<main, wanted>>
    /\ settled' = Landed'

\* currentTree and mutateAt in the stage view; without the branch the tree is empty and
\* the snapshot will have no parent
ReadStage(p) ==
    /\ c[p].pc = "view"
    /\ LET t == Edited(IF stage = None THEN EmptyTree ELSE stage.tip, c[p].edit)
       IN  c' = [c EXCEPT ![p] =
                    IF t = Refused THEN Idle
                    ELSE IF stage = None
                    THEN [pc |-> "put", edit |-> c[p].edit, draft |-> Stage(Refused, t)]
                    ELSE [pc |-> "parent", edit |-> c[p].edit, draft |-> t]]
    /\ UNCHANGED <<main, stage, wanted, settled>>

\* commitTree reads the head of the stage branch again, for the parent
ReadStageParent(p) ==
    /\ c[p].pc = "parent"
    /\ c' = [c EXCEPT ![p] = IF stage = None THEN Idle
                             ELSE [pc |-> "put", edit |-> c[p].edit,
                                   draft |-> Stage(stage.base, c[p].draft)]]
    /\ UNCHANGED <<main, stage, wanted, settled>>

Touches(e, p) == e.path = p \/ (e.op = "rmdir" /\ Above(e.path, p))

SetStage(p) ==
    /\ c[p].pc = "put"
    /\ stage' = c[p].draft
    /\ LET e == c[p].edit
       IN  wanted' = [q \in Paths |-> IF ~Touches(e, q) THEN wanted[q]
                                      ELSE IF e.op = "set" THEN e.note ELSE Absent]
    /\ c' = [c EXCEPT ![p] = Idle]
    /\ UNCHANGED main
    /\ settled' = Landed'

----------------------------------------------------------------------------
(* commit and commit --abort.                                                *)

\* CommitStage reads the stage branch once; what hangs below it never changes.  A stage
\* without a base ends the command.
BeginCommit(p) ==
    /\ c[p].pc = "idle" /\ stage # None /\ stage.base # Refused
    /\ c' = [c EXCEPT ![p] = [pc |-> "replay", changes |-> StagedChanges(stage.base, stage.tip)]]
    /\ UNCHANGED <<main, stage, wanted, settled>>

\* mistake: changes that do not apply are taken for changes there is nothing left to do about
ReplayDropsRefused(p) ==
    /\ c[p].pc = "replay"
    /\ LET t == ApplyStagedChanges(main, c[p].changes)
       IN  c' = [c EXCEPT ![p] = IF c[p].changes = <<>> \/ t = Refused THEN [pc |-> "drop"]
                                 ELSE [pc |-> "publish", draft |-> t]]
    /\ UNCHANGED <<main, stage, wanted, settled>>

\* the changes on top of the tree the branch has now; one that does not apply ends the
\* command and the stage stays, a stage without changes is dropped
Replay(p) ==
    /\ c[p].pc = "replay"
    /\ LET t == ApplyStagedChanges(main, c[p].changes)
       IN  c' = [c EXCEPT ![p] = IF c[p].changes = <<>> THEN [pc |-> "drop"]
                                 ELSE IF t = Refused THEN Idle
                                 ELSE [pc |-> "publish", draft |-> t]]
    /\ UNCHANGED <<main, stage, wanted, settled>>

Publish(p) ==
    /\ c[p].pc = "publish"
    /\ main' = c[p].draft
    /\ c' = [c EXCEPT ![p] = [pc |-> "drop"]]
    /\ UNCHANGED <<stage, wanted>>
    /\ settled' = (settled \/ Landed')

\* AbortStage, at the end of a commit or as a command
Drop(p) ==
    /\ c[p].pc \in {"drop", "abort"}
    /\ stage' = None
    /\ c' = [c EXCEPT ![p] = Idle]
    /\ wanted' = Nothing /\ settled' = FALSE
    /\ UNCHANGED main

BeginAbort(p) ==
    /\ c[p].pc = "idle" /\ stage # None
    /\ c' = [c EXCEPT ![p] = [pc |-> "abort"]]
    /\ UNCHANGED <<main, stage, wanted, settled>>

\* killed, or the store returned an error
Stop(p) ==
    /\ c[p].pc # "idle"
    /\ c' = [c EXCEPT ![p] = Idle]
    /\ UNCHANGED <<main, stage, wanted, settled>>

Step(p) == \/ \E e \in Edits : BeginDirect(p, e)
           \/ SetDirect(p)
           \/ \E e \in Edits : BeginStaged(p, e)
           \/ LayBase(p) \/ ReadStage(p) \/ ReadStageParent(p) \/ SetStage(p)
           \/ BeginCommit(p) \/ Replay(p) \/ Publish(p) \/ Drop(p)
           \/ BeginAbort(p)
           \/ Stop(p)

Next == (\E p \in Clients : Step(p)) /\ Crossing

Spec == Init /\ [][Next]_vars

----------------------------------------------------------------------------
(* What must hold.                                                           *)

Trees == TreesOf(Notes)

\* Every tree has the notes and directories the commands can make.
TypeOK == /\ main \in Trees
          /\ stage # None => stage.base \in Trees \cup {Refused} /\ stage.tip \in Trees
          /\ wanted \in [Paths -> Notes \cup {Absent, None}]
          /\ settled \in BOOLEAN /\ crossed \in BOOLEAN

\* Unless staging commands have overlapped, the stage has a base, and its tip is the base
\* with the edits that were staged since, no more and no less, whatever died on the way
\* and whatever the branch did meanwhile (stage.go:43).
StageIsWanted ==
    stage # None /\ ~crossed =>
        /\ stage.base # Refused
        /\ \A p \in Paths : Leaf(stage.tip, p) =
               IF wanted[p] = None THEN Leaf(stage.base, p) ELSE wanted[p]

\* Unless staging commands have overlapped or the user aborts, the stage goes only once the
\* branch has had, at one moment, every staged edit that differs from the base: a commit
\* that dies, does not apply or finds nothing to do loses nothing (stage.go:315).
NothingStagedIsLost ==
    [][stage # None /\ stage' = None /\ ~crossed =>
          settled \/ \E p \in Clients : c[p].pc = "abort" /\ c'[p] # c[p]]_vars

\* What a commit publishes is the branch as the commit found it with the staged edits on
\* top, path by path, where these differ from the base: a staged removal takes nothing
\* else away and directories on the way do not hide anything (mergestate.go:357).
CommitIsWanted ==
    \A p \in Clients : c[p].pc = "replay" /\ ~crossed =>
        LET t == ApplyStagedChanges(main, c[p].changes)
        IN  t # Refused =>
                \A q \in Paths : Leaf(t, q) =
                    IF wanted[q] \notin {None, Leaf(stage.base, q)} THEN wanted[q] ELSE Leaf(main, q)

\* A commit that died after it moved the branch is repeated by the next one: applied a
\* second time the changes are the same tree again (stage.go:315).
CommitTwiceIsOnce ==
    stage # None /\ stage.base # Refused =>
        LET changes == StagedChanges(stage.base, stage.tip)
            once == ApplyStagedChanges(main, changes)
        IN  once # Refused => ApplyStagedChanges(once, changes) = once
=============================================================================
