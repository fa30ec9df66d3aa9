------------------------------ MODULE MergeFlow ------------------------------
(***************************************************************************)
(* `kb pull --merge` and what follows a conflict: internal/repo            *)
(* mergestate.go with Merge of merge.go, Pull of pull.go, the stage        *)
(* commands in their role of decisions, and gc over all of it.             *)
(*                                                                         *)
(* A merge with conflicts leaves an intermediate state in two rows of the  *)
(* store, the branch <branch>-merge (`side`) and a key of the meta table   *)
(* (`meta`), that are written and removed by separate store calls.  While  *)
(* the key is there the branch is frozen: every direct write looks for it, *)
(* once, before it starts.                                                 *)
(*                                                                         *)
(* A tree has one directory level here, what mergeTrees does with          *)
(* directories is not visible to this protocol.  What a snapshot owns      *)
(* comes and goes with it: BranchWriters has the finer grain.  A command   *)
(* that meets an error stops where it is, like one that is killed: Stop.   *)
(***************************************************************************)
EXTENDS Integers, Sequences, FiniteSets

CONSTANTS
    Clients,      \* processes that run commands against the library
    Paths,        \* note paths
    Values,       \* note contents
    Absent,       \* there is no note at this path
    None,         \* no merge under way, no decision taken
    Commands,     \* the commands this instance runs
    GcInMerge,    \* TRUE: gc may run while a merge is under way
    MaxSnaps,     \* bound on the snapshots ever written, here and in the remote
    MaxKills      \* bound on the commands that die half way

Direct   == {"set", "pull", "reset"}                    \* refused while merging
Mergers  == {"merge", "decide", "continue", "abort"}
Kinds    == Direct \cup Mergers
Trees    == [Paths -> Values \cup {Absent}]
Empty    == [q \in Paths |-> Absent]
SnapIds  == 1 .. MaxSnaps

ASSUME CommandsAssumption == Commands \subseteq Kinds \cup {"gc", "push"}
ASSUME ClientsAssumption  == IsFiniteSet(Clients)
ASSUME GcAssumption       == GcInMerge \in BOOLEAN
ASSUME BoundsAssumption   == MaxSnaps \in Nat \ (0 .. 2) /\ MaxKills \in Nat
ASSUME SentinelAssumption == Absent \notin Values /\ None \notin Values \cup {Absent}

\* object.Snapshot: its tree and its first and second parent, 0 without one.  Two
\* fields are what its hash pins down: `past`, the snapshot and all its ancestors,
\* and `basis`, the snapshot with the message "merge base" that a walk along the
\* first parents meets first, 0 without one.
Snapshots == [tree : Trees, first : 0 .. MaxSnaps, second : 0 .. MaxSnaps,
              past : SUBSET SnapIds, basis : 0 .. MaxSnaps]

\* a snapshot a command is going to put; one that is a base has that message
Drafts == [tree : Trees, first : 0 .. MaxSnaps, second : 0 .. MaxSnaps, base : BOOLEAN]

\* the JSON under the meta key
States == [base : 0 .. MaxSnaps, ours : SnapIds, theirs : SnapIds]

VARIABLES
    snaps,    \* the snapshots ever hashed, here and in the remote
    held,     \* the snapshots in the local objects table
    remote,   \* head of the branch in the remote library, whose history is held there
    main,     \* head of the branch, 0 when it has no row
    side,     \* head of <branch>-merge, 0 when it has no row
    meta,     \* the merge state, or None
    c,        \* what each client is doing
    decided,  \* history: the decisions taken since the merge state was set
    kills     \* how many commands have died half way

vars == <<snaps, held, remote, main, side, meta, c, decided, kills>>

Draft(t, first, second, base) == [tree |-> t, first |-> first, second |-> second, base |-> base]
NoDraft == Draft(Empty, 0, 0, FALSE)
NoState == [base |-> 0, ours |-> 1, theirs |-> 1]
Idle == [pc |-> "idle", kind |-> "set", st |-> NoState, draft |-> NoDraft, snap |-> 0,
         edit |-> <<>>]

\* the draft a command is going to put, the snapshot it will point the branch to
\* when it puts none, the merge state it has read or is going to write, its edit
ClientStates ==
    [pc : {"idle", "read", "publish", "open", "signal", "unsignal", "drop"}, kind : Kinds,
     st : States, draft : Drafts, snap : 0 .. MaxSnaps, edit : {<<>>} \cup (Paths \X (Values \cup {Absent}))]

\* Every variable has its type.
TypeOK == /\ snaps \in Seq(Snapshots) /\ Len(snaps) <= MaxSnaps
          /\ held \in SUBSET SnapIds
          /\ remote \in SnapIds
          /\ main \in 0 .. MaxSnaps /\ side \in 0 .. MaxSnaps
          /\ meta \in States \cup {None}
          /\ c \in [Clients -> ClientStates]
          /\ decided \in [Paths -> Values \cup {Absent, None}]
          /\ kills \in 0 .. MaxKills

Undecided == [q \in Paths |-> None]

Root == [tree |-> Empty, first |-> 0, second |-> 0, past |-> {1}, basis |-> 0]
Child(t, i) == [tree |-> t, first |-> 1, second |-> 0, past |-> {1, i}, basis |-> 0]

\* the local library is new, or a clone of the remote, each since edited or not
Init == /\ \E t, u \in Trees : snaps = <<Root, Child(t, 2), Child(u, 3)>>
        /\ remote = 3
        /\ main \in {0, 1, 2}
        /\ held = IF main = 0 THEN {} ELSE snaps[main].past
        /\ side = 0
        /\ meta = None
        /\ c = [p \in Clients |-> Idle]
        /\ decided = Undecided
        /\ kills = 0

----------------------------------------------------------------------------
(* Histories and three-way merges.                                           *)

Past(i) == IF i = 0 THEN {} ELSE snaps[i].past
Tree(i) == IF i = 0 THEN Empty ELSE snaps[i].tree

\* MergeBase: the common ancestors no other common ancestor descends from.  The
\* remote never merges, so there is at most one; 0 stands for the empty base of
\* unrelated histories.
MergeBase(o, t) ==
    LET common == Past(o) \cap Past(t)
    IN  IF common = {} THEN 0
        ELSE CHOOSE a \in common : \A x \in common \ {a} : a \notin Past(x)

Conflicts(b, o, t) == {q \in Paths : o[q] # t[q] /\ b[q] # t[q] /\ b[q] # o[q]}

\* mergeTrees: a conflict keeps ours in its place
Merged(b, o, t) == [q \in Paths |-> IF o[q] = b[q] THEN t[q] ELSE o[q]]

\* applyStagedChanges: the differences from one tree to another, replayed on a third
Replayed(t, from, to) == [q \in Paths |-> IF to[q] # from[q] THEN to[q] ELSE t[q]]

Changed(t, e) == [t EXCEPT ![e[1]] = e[2]]

Recorded(d) ==
    [tree |-> d.tree, first |-> d.first, second |-> d.second,
     past |-> {Len(snaps) + 1} \cup Past(d.first) \cup Past(d.second),
     basis |-> IF d.base THEN Len(snaps) + 1
               ELSE IF d.first = 0 THEN 0 ELSE snaps[d.first].basis]

----------------------------------------------------------------------------
(* Commands begin by looking for the merge state.                            *)

\* there is room for the snapshots of the commands under way and of one more
Writing == {p \in Clients : c[p].pc \in {"read", "publish", "open"}
                              /\ c[p].kind \notin {"pull", "reset"}}
Room == Len(snaps) + Cardinality(Writing) < MaxSnaps

Begin(p, k, pc, edit, st) ==
    /\ c[p].pc = "idle"
    /\ k \in Commands
    /\ k \in Mergers => \A x \in Clients : c[x].pc = "idle" \/ c[x].kind \in Direct
    /\ c' = [c EXCEPT ![p] = [Idle EXCEPT !.pc = pc, !.kind = k, !.edit = edit, !.st = st]]
    /\ UNCHANGED <<snaps, held, remote, main, side, meta, decided, kills>>

\* mistake: a direct write does not look for the merge state
BeginWriteUnfrozen(p) ==
    /\ \/ Room /\ \E e \in Paths \X (Values \cup {Absent}) : Begin(p, "set", "read", e, NoState)
       \/ \E k \in {"pull", "reset"} : Begin(p, k, "read", <<>>, NoState)

\* rejectIfMerging of a direct write: note set and rm, pull, reset
BeginWrite(p) ==
    /\ meta = None
    /\ \/ Room /\ \E e \in Paths \X (Values \cup {Absent}) : Begin(p, "set", "read", e, NoState)
       \/ \E k \in {"pull", "reset"} : Begin(p, k, "read", <<>>, NoState)

BeginMerge(p) == meta = None /\ Room /\ Begin(p, "merge", "read", <<>>, NoState)

\* note set --stage or note rm --stage while the branch is frozen
BeginDecide(p) ==
    /\ meta # None
    /\ Room
    /\ \E e \in Paths \X (Values \cup {Absent}) : Begin(p, "decide", "read", e, meta)

BeginContinue(p) == meta # None /\ Room /\ Begin(p, "continue", "read", <<>>, meta)
BeginAbort(p)    == meta # None /\ Begin(p, "abort", "unsignal", <<>>, meta)

----------------------------------------------------------------------------
(* What a command reads decides what it will write.                          *)

Goes(p, pc, draft, snap, st) ==
    /\ c' = [c EXCEPT ![p] = [@ EXCEPT !.pc = pc, !.draft = draft, !.snap = snap, !.st = st]]
    /\ UNCHANGED <<snaps, remote, main, side, meta, decided, kills>>
GiveUp(p) ==
    /\ c' = [c EXCEPT ![p] = Idle]
    /\ UNCHANGED <<snaps, remote, main, side, meta, decided, kills>>

Reading(p, k) == c[p].pc = "read" /\ c[p].kind = k

\* an edit of the note at c[p].edit on the branch whose head is h
ReadEdit(p, h) ==
    LET e == c[p].edit
    IN  /\ UNCHANGED held
        /\ IF e[2] = Absent /\ Tree(h)[e[1]] = Absent
           THEN GiveUp(p)
           ELSE Goes(p, "publish", Draft(Changed(Tree(h), e), h, 0, FALSE), 0, c[p].st)

ReadSet(p)    == Reading(p, "set") /\ ReadEdit(p, main)
ReadDecide(p) == Reading(p, "decide") /\ ReadEdit(p, side)

ReadReset(p) ==
    /\ Reading(p, "reset")
    /\ UNCHANGED held
    /\ \/ \E i \in Past(main) : Goes(p, "publish", NoDraft, i, NoState)
       \/ main = 0 /\ GiveUp(p)

\* Pull: nothing to do; a fast-forward, or --force over whatever is there; refused
ReadPull(p) ==
    /\ Reading(p, "pull")
    /\ \/ remote \in Past(main) /\ GiveUp(p) /\ UNCHANGED held
       \/ /\ remote # main
          /\ held' = held \cup Past(remote)
          /\ Goes(p, "publish", NoDraft, remote, NoState)
       \/ /\ remote \notin Past(main) /\ main \notin Past(remote) \cup {0}
          /\ held' = held \cup Past(remote)
          /\ GiveUp(p)

\* mistake: the transfer copies the head of the remote but not its ancestors
ReadMergeShallow(p) ==
    LET o == main
        t == remote
        b == MergeBase(o, t)
        tree == Merged(Tree(b), Tree(o), Tree(t))
    IN  /\ Reading(p, "merge")
        /\ meta = None /\ t \notin Past(o)
        /\ held' = held \cup {t}
        /\ \/ o \in Past(t) \cup {0} /\ Goes(p, "publish", NoDraft, t, NoState)
           \/ o \notin Past(t) \cup {0} /\ Goes(p, "publish", Draft(tree, o, t, FALSE), 0, NoState)

\* Merge, up to its first write of the branch or of the merge state
ReadMerge(p) ==
    LET o == main
        t == remote
        b == MergeBase(o, t)
        tree == Merged(Tree(b), Tree(o), Tree(t))
        st == [base |-> b, ours |-> o, theirs |-> t]
    IN  /\ Reading(p, "merge")
        /\ \/ (meta # None \/ t \in Past(o)) /\ GiveUp(p) /\ UNCHANGED held
           \/ /\ meta = None /\ t \notin Past(o)
              /\ held' = held \cup Past(t)
              /\ \/ /\ o \in Past(t) \cup {0}
                    /\ Goes(p, "publish", NoDraft, t, NoState)
                 \/ o # 0 /\ b = 0 /\ GiveUp(p)     \* without --allow-unrelated
                 \/ /\ o \notin Past(t) \cup {0}
                    /\ IF Conflicts(Tree(b), Tree(o), Tree(t)) = {}
                       THEN Goes(p, "publish", Draft(tree, o, t, FALSE), 0, NoState)
                       ELSE Goes(p, "open", Draft(tree, o, 0, TRUE), 0, st)

\* mistake: the decisions are replayed on the tree of the branch, not of the base
ReadContinueOnOurs(p) ==
    LET st == c[p].st
        base == IF side = 0 THEN 0 ELSE snaps[side].basis
    IN  /\ Reading(p, "continue")
        /\ UNCHANGED held
        /\ IF main = st.ours /\ base # 0 /\ Tree(side) # Tree(base)
           THEN Goes(p, "publish",
                     Draft(Replayed(Tree(st.ours), Tree(base), Tree(side)), st.ours, st.theirs, FALSE),
                     0, st)
           ELSE GiveUp(p)

\* MergeContinue, up to its first write: the head has not moved, there is a side
\* branch with a base, and at least one decision
ReadContinue(p) ==
    LET st == c[p].st
        base == IF side = 0 THEN 0 ELSE snaps[side].basis
    IN  /\ Reading(p, "continue")
        /\ UNCHANGED held
        /\ IF main = st.ours /\ base # 0 /\ Tree(side) # Tree(base)
           THEN Goes(p, "publish",
                     Draft(Replayed(Tree(base), Tree(base), Tree(side)), st.ours, st.theirs, FALSE),
                     0, st)
           ELSE GiveUp(p)

----------------------------------------------------------------------------
(* Writes.                                                                   *)

\* what a client publishes: the snapshot it puts now, or one that was there
Target(p) == IF c[p].snap = 0 THEN Len(snaps) + 1 ELSE c[p].snap
PutDraft(p) ==
    IF c[p].snap = 0
    THEN /\ Len(snaps) < MaxSnaps
         /\ snaps' = Append(snaps, Recorded(c[p].draft))
         /\ held' = held \cup {Len(snaps) + 1}
    ELSE /\ c[p].snap \in held          \* the foreign key of the branches table
         /\ UNCHANGED <<snaps, held>>

\* the snapshot is put and the branch set to it
Publish(p) ==
    /\ c[p].pc = "publish"
    /\ c[p].kind # "decide"
    /\ PutDraft(p)
    /\ main' = Target(p)
    /\ c' = [c EXCEPT ![p] = IF c[p].kind = "continue"
                             THEN [Idle EXCEPT !.pc = "unsignal", !.kind = "continue",
                                               !.st = c[p].st]
                             ELSE Idle]
    /\ UNCHANGED <<remote, side, meta, decided, kills>>

\* a decision moves <branch>-merge
PublishDecision(p) ==
    /\ c[p].pc = "publish"
    /\ c[p].kind = "decide"
    /\ PutDraft(p)
    /\ side' = Target(p)
    /\ decided' = [decided EXCEPT ![c[p].edit[1]] = c[p].edit[2]]
    /\ c' = [c EXCEPT ![p] = Idle]
    /\ UNCHANGED <<remote, main, meta, kills>>

\* mistake: a side branch that is there already is taken for the one to open
OpenSideReuses(p) ==
    /\ c[p].pc = "open"
    /\ PutDraft(p)
    /\ side' = IF side = 0 THEN Target(p) ELSE side
    /\ c' = [c EXCEPT ![p] = [Idle EXCEPT !.pc = "signal", !.kind = "merge", !.st = c[p].st]]
    /\ UNCHANGED <<remote, main, meta, decided, kills>>

\* beginMergeState: the side branch first, the key after it
OpenSide(p) ==
    /\ c[p].pc = "open"
    /\ PutDraft(p)
    /\ side' = Target(p)
    /\ c' = [c EXCEPT ![p] = [Idle EXCEPT !.pc = "signal", !.kind = "merge", !.st = c[p].st]]
    /\ UNCHANGED <<remote, main, meta, decided, kills>>

\* the key is set, and the merge is under way
Signal(p) ==
    /\ c[p].pc = "signal"
    /\ meta' = c[p].st
    /\ decided' = Undecided
    /\ c' = [c EXCEPT ![p] = Idle]
    /\ UNCHANGED <<snaps, held, remote, main, side, kills>>

\* mistake: the key is emptied instead of deleted
UnsignalEmpties(p) ==
    /\ c[p].pc = "unsignal"
    /\ meta' = [base |-> 0, ours |-> 0, theirs |-> 0]
    /\ c' = [c EXCEPT ![p].pc = "drop"]
    /\ UNCHANGED <<snaps, held, remote, main, side, decided, kills>>

\* the end of continue and abort: the key first, the side branch after it
Unsignal(p) ==
    /\ c[p].pc = "unsignal"
    /\ meta' = None
    /\ c' = [c EXCEPT ![p].pc = "drop"]
    /\ UNCHANGED <<snaps, held, remote, main, side, decided, kills>>

DropSide(p) ==
    /\ c[p].pc = "drop"
    /\ side' = 0
    /\ c' = [c EXCEPT ![p] = Idle]
    /\ UNCHANGED <<snaps, held, remote, main, meta, decided, kills>>

Stop(p) ==
    /\ c[p].pc # "idle"
    /\ kills < MaxKills
    /\ kills' = kills + 1
    /\ c' = [c EXCEPT ![p] = Idle]
    /\ UNCHANGED <<snaps, held, remote, main, side, meta, decided>>

\* somebody edits the remote branch
Push(e) ==
    /\ "push" \in Commands
    /\ Room
    /\ Tree(remote)[e[1]] # e[2]
    /\ snaps' = Append(snaps, Recorded(Draft(Changed(Tree(remote), e), remote, 0, FALSE)))
    /\ remote' = Len(snaps) + 1
    /\ UNCHANGED <<held, main, side, meta, c, decided, kills>>

\* GC: everything the two branch heads reach stays, if it is all there
Gc ==
    /\ "gc" \in Commands
    /\ meta # None => GcInMerge
    /\ \A p \in Clients : c[p].pc = "idle"
    /\ Past(main) \cup Past(side) \subseteq held
    /\ held' = Past(main) \cup Past(side)
    /\ UNCHANGED <<snaps, remote, main, side, meta, c, decided, kills>>

ClientStep(p) ==
    \/ BeginWrite(p) \/ BeginMerge(p) \/ BeginDecide(p) \/ BeginContinue(p) \/ BeginAbort(p)
    \/ ReadSet(p) \/ ReadPull(p) \/ ReadReset(p)
    \/ ReadMerge(p) \/ ReadDecide(p) \/ ReadContinue(p)
    \/ Publish(p) \/ PublishDecision(p) \/ OpenSide(p) \/ Signal(p)
    \/ Unsignal(p) \/ DropSide(p) \/ Stop(p)

Next == \/ \E p \in Clients : ClientStep(p)
        \/ \E e \in Paths \X (Values \cup {Absent}) : Push(e)
        \/ Gc

Spec == Init /\ [][Next]_vars

----------------------------------------------------------------------------
(* Properties.                                                               *)

Automatic(st) == Merged(Tree(st.base), Tree(st.ours), Tree(st.theirs))

\* While a merge is under way its side branch is there, and it starts from the
\* automatic merge of exactly the heads the state names: however commands died in
\* earlier merges, no decision is ever taken on what one of them left behind
\* (beginMergeState, MergeContinue and MergeAbort in mergestate.go).
StateIsWhole ==
    meta # None =>
        /\ side # 0
        /\ snaps[side].basis # 0
        /\ LET base == snaps[snaps[side].basis]
           IN  base.first = meta.ours /\ base.tree = Automatic(meta)

\* What merge --continue publishes is the three-way merge of the two heads with the
\* decisions taken, the last one on each path, and nothing else: nothing one side
\* alone has changed is lost (applyStagedChanges in mergestate.go).
Concluding(p) == c[p].kind = "continue" /\ c[p].pc = "publish" /\ c'[p].pc = "unsignal"
ContinueIsFaithful ==
    [][\A p \in Clients : Concluding(p) =>
          snaps'[main'].tree =
              [q \in Paths |-> IF decided[q] = None THEN Automatic(c[p].st)[q] ELSE decided[q]]]_vars

\* Without overlapping commands the freeze holds: from the moment the merge state is
\* there the branch stays where it was, until merge --continue moves it to the merge
\* of the two heads, even if that command dies before it removes the state
\* (rejectIfMerging in mergestate.go).
FrozenHead ==
    meta # None => \/ main = meta.ours
                   \/ main # 0 /\ snaps[main].first = meta.ours
                              /\ snaps[main].second = meta.theirs

\* The whole history of the branch and of its side branch is in the local store, so
\* that log, fsck and the next gc succeed (transfer.go, gc.go).
HistoryHeld == Past(main) \cup Past(side) \subseteq held
=============================================================================
