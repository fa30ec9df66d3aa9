-------------------------- MODULE MergeFlow_proofs --------------------------
(***************************************************************************)
(* Theorems about MergeFlow, for every number of clients, paths and values *)
(* and every bound: what a merge with conflicts leaves behind, and what    *)
(* `merge --continue` makes of it.                                         *)
(***************************************************************************)
EXTENDS MergeFlow, FiniteSetTheorems, WellFoundedInduction, TLAPS

Edits == Paths \X (Values \cup {Absent})

(* TypeOK is not inductive: a number read from one variable is used as the    *)
(* name of a snapshot.  SnapRefs is what a hash pins down, a history that     *)
(* holds the histories of all its members, oldest first; ClientRefs that a    *)
(* command only names snapshots there are; the mergers exclude each other.    *)
SnapRefs == \A i \in 1 .. Len(snaps) :
    /\ i \in snaps[i].past /\ snaps[i].past \subseteq 1 .. i
    /\ \A j \in snaps[i].past : snaps[j].past \subseteq snaps[i].past
    /\ snaps[i].basis \in 0 .. i
HeadRefs == /\ Len(snaps) >= 3
            /\ main \in 0 .. Len(snaps) /\ side \in 0 .. Len(snaps)
            /\ remote \in 1 .. Len(snaps) /\ held \subseteq 1 .. Len(snaps)
StateRefs(st) == /\ st.base \in 0 .. Len(snaps)
                 /\ st.ours \in 1 .. Len(snaps) /\ st.theirs \in 1 .. Len(snaps)
ClientRefs == \A p \in Clients :
    /\ StateRefs(c[p].st)
    /\ c[p].snap \in 0 .. Len(snaps)
    /\ c[p].draft.first \in 0 .. Len(snaps) /\ c[p].draft.second \in 0 .. Len(snaps)
    /\ c[p].pc \in {"read", "publish"} /\ c[p].kind \in {"set", "decide"} => c[p].edit \in Edits
    /\ c[p].pc \in {"open", "signal"} => c[p].kind = "merge"
    /\ c[p].pc \in {"unsignal", "drop"} => c[p].kind \in {"continue", "abort"}
Refs == SnapRefs /\ HeadRefs /\ (meta # None => StateRefs(meta)) /\ ClientRefs
TInv == TypeOK /\ Refs

(* Two commands that deal with the merge state never overlap.                 *)
Merging(p) == c[p].pc # "idle" /\ c[p].kind \in Mergers
OneMerger == \A p, q \in Clients : Merging(p) /\ Merging(q) => p = q

(* The side branch s is the one that was opened for the merge state st.       *)
Whole(st, s) ==
    /\ s # 0
    /\ snaps[s].basis # 0
    /\ snaps[snaps[s].basis].first = st.ours
    /\ snaps[snaps[s].basis].tree = Automatic(st)
Decided(st) == [q \in Paths |-> IF decided[q] = None THEN Automatic(st)[q] ELSE decided[q]]

(* What a command that deals with the merge state has still to write, related *)
(* to the state and the side branch as they are now.                          *)
MergerOf(p) ==
    /\ c[p].pc = "open" => /\ meta = None
                           /\ c[p].snap = 0 /\ c[p].draft.base
                           /\ c[p].draft.first = c[p].st.ours
                           /\ c[p].draft.tree = Automatic(c[p].st)
    /\ c[p].pc = "signal" => /\ meta = None
                             /\ Whole(c[p].st, side)
                             /\ Tree(side) = Automatic(c[p].st)
    /\ c[p].pc = "drop" => meta = None
    /\ c[p].kind = "decide" /\ c[p].pc \in {"read", "publish"} => meta # None
    /\ c[p].kind = "decide" /\ c[p].pc = "publish" =>
          /\ c[p].snap = 0 /\ ~ c[p].draft.base
          /\ c[p].draft.first = side
          /\ c[p].draft.tree = Changed(Tree(side), c[p].edit)
    /\ c[p].kind = "continue" /\ c[p].pc \in {"read", "publish"} => meta # None /\ meta = c[p].st
    /\ c[p].kind = "continue" /\ c[p].pc = "publish" =>
          /\ c[p].snap = 0
          /\ c[p].draft.first = meta.ours /\ c[p].draft.second = meta.theirs
          /\ c[p].draft.tree = Tree(side)
StateInv == meta # None => Whole(meta, side) /\ Tree(side) = Decided(meta)
MergerInv == OneMerger /\ StateInv /\ \A p \in Clients : MergerOf(p)

(* Where the histories a command is going to build on are held.               *)
Covered(i) == Past(i) \subseteq held
HeldOf(p) ==
    /\ c[p].pc = "publish" /\ c[p].snap # 0 => Covered(c[p].snap)
    /\ c[p].pc \in {"publish", "open"} /\ c[p].snap = 0 =>
          Covered(c[p].draft.first) /\ Covered(c[p].draft.second)
    /\ c[p].pc \in {"open", "signal"} => Covered(c[p].st.ours) /\ Covered(c[p].st.theirs)
HeldInv == /\ Covered(main) /\ Covered(side)
           /\ (meta # None => Covered(meta.ours) /\ Covered(meta.theirs))
           /\ \A p \in Clients : HeldOf(p)

(* With one client at a time, nothing moves the branch between the look at    *)
(* the merge state and the write.                                             *)
FrozenOf(p) ==
    /\ c[p].pc \in {"open", "signal"} => main = c[p].st.ours
    /\ c[p].pc # "idle" /\ c[p].kind \in Direct => meta = None
    /\ c[p].pc \in {"read", "publish"} /\ c[p].kind = "merge" => meta = None
    /\ c[p].pc \in {"read", "publish"} => c[p].kind # "abort"
FrozenInv == FrozenHead /\ \A p \in Clients : FrozenOf(p)
----------------------------------------------------------------------------
(* Numbers.                                                                   *)

(* A set of natural numbers that is not empty has a least element.            *)
LEMMA LeastNumber ==
    ASSUME NEW T \in SUBSET Nat, T # {}
    PROVE  \E x \in T : \A y \in T : x <= y
<1>1. PICK x \in T : \A y \in T : ~ (<<y, x>> \in OpToRel(<, Nat))
  BY NatLessThanWellFounded, WFMin
<1>2. \A y \in T : ~ (y < x)
  BY <1>1 DEF OpToRel
<1>3. QED
  BY <1>2

(* And a greatest one, when it is bounded.                                    *)
LEMMA GreatestNumber ==
    ASSUME NEW n \in Nat, NEW T \in SUBSET (1 .. n), T # {}
    PROVE  \E x \in T : \A y \in T : y <= x
<1> DEFINE bounds == {m \in Nat : \A y \in T : y <= m}
<1>1. n \in bounds
  OBVIOUS
<1>2. PICK m \in bounds : \A k \in bounds : m <= k
  BY <1>1, LeastNumber
<1>3. m \in T
  <2> SUFFICES ASSUME m \notin T
               PROVE  FALSE
    OBVIOUS
  <2>1. m \in Nat /\ \A y \in T : y \in Nat /\ 1 <= y /\ y <= m /\ y # m
    OBVIOUS
  <2>2. PICK z \in T : TRUE
    OBVIOUS
  <2>3. 1 <= m /\ m - 1 \in Nat
    BY <2>1, <2>2
  <2>4. \A y \in T : y <= m - 1
    BY <2>1
  <2>5. m - 1 \in bounds
    BY <2>3, <2>4
  <2>6. m <= m - 1
    BY <1>2, <2>5
  <2>7. QED
    BY <2>1, <2>6
<1>4. QED
  BY <1>3

----------------------------------------------------------------------------
(* What the operators return.                                                 *)

LEMMA SentinelTypes ==
    /\ Empty \in Trees /\ NoDraft \in Drafts /\ NoState \in States /\ Idle \in ClientStates
    /\ Undecided \in [Paths -> Values \cup {Absent, None}]
<1>1. Empty \in Trees
  BY DEF Empty, Trees
<1>2. /\ 0 \in 0 .. MaxSnaps /\ 1 \in SnapIds
  BY BoundsAssumption DEF SnapIds
<1>3. NoDraft \in Drafts
  BY <1>1, <1>2 DEF NoDraft, Draft, Drafts
<1>4. NoState \in States
  BY <1>2 DEF NoState, States
<1>5. Idle \in ClientStates
  BY <1>2, <1>3, <1>4 DEF Idle, ClientStates, Kinds, Direct
<1>6. QED
  BY <1>1, <1>3, <1>4, <1>5 DEF Undecided

(* A snapshot that is there is a record, with a history of snapshots no newer *)
(* than itself that holds the history of each of them.                        *)
LEMMA SnapshotType ==
    ASSUME TInv, NEW i \in 1 .. Len(snaps)
    PROVE  /\ snaps[i] \in Snapshots /\ snaps[i].tree \in Trees
           /\ i \in snaps[i].past /\ snaps[i].past \subseteq 1 .. i
           /\ snaps[i].past \subseteq 1 .. Len(snaps)
           /\ \A j \in snaps[i].past : snaps[j].past \subseteq snaps[i].past
           /\ snaps[i].basis \in 0 .. Len(snaps)
<1>1. snaps[i] \in Snapshots /\ Len(snaps) \in Nat
  BY DEF TInv, TypeOK
<1>2. /\ i \in snaps[i].past /\ snaps[i].past \subseteq 1 .. i
      /\ \A j \in snaps[i].past : snaps[j].past \subseteq snaps[i].past
      /\ snaps[i].basis \in 0 .. i
  BY DEF TInv, Refs, SnapRefs
<1>3. QED
  BY <1>1, <1>2 DEF Snapshots

LEMMA PastType ==
    ASSUME TInv, NEW i \in 0 .. Len(snaps)
    PROVE  /\ Past(i) \subseteq 1 .. Len(snaps)
           /\ \A j \in Past(i) : j <= i /\ Past(j) \subseteq Past(i)
           /\ i # 0 => i \in Past(i)
<1>1. CASE i = 0
  BY <1>1 DEF Past
<1>2. CASE i # 0
  <2>1. i \in 1 .. Len(snaps)
    BY <1>2
  <2>2. Past(i) = snaps[i].past
    BY <1>2 DEF Past
  <2>3. /\ i \in snaps[i].past /\ snaps[i].past \subseteq 1 .. i
        /\ snaps[i].past \subseteq 1 .. Len(snaps)
        /\ \A j \in snaps[i].past : snaps[j].past \subseteq snaps[i].past
    BY <2>1, SnapshotType
  <2>4. \A j \in snaps[i].past : j # 0 /\ j <= i
    BY <2>1, <2>3
  <2>5. QED
    BY <2>2, <2>3, <2>4 DEF Past
<1>3. QED
  BY <1>1, <1>2

LEMMA TreeType ==
    ASSUME TInv, NEW i \in 0 .. Len(snaps)
    PROVE  Tree(i) \in Trees
BY SnapshotType, SentinelTypes DEF Tree

(* MergeBase finds one of the common ancestors: the newest of them is one no  *)
(* other descends from, so that there is something to choose.                 *)
LEMMA MergeBaseType ==
    ASSUME TInv, NEW o \in 0 .. Len(snaps), NEW t \in 0 .. Len(snaps)
    PROVE  /\ MergeBase(o, t) \in 0 .. Len(snaps)
           /\ MergeBase(o, t) # 0 => MergeBase(o, t) \in Past(o) \cap Past(t)
<1> DEFINE common == Past(o) \cap Past(t)
<1>1. Len(snaps) \in Nat /\ common \subseteq 1 .. Len(snaps)
  BY PastType DEF TInv, TypeOK
<1>2. CASE common = {}
  BY <1>1, <1>2 DEF MergeBase
<1>3. CASE common # {}
  <2>1. PICK a \in common : \A x \in common : x <= a
    BY <1>1, <1>3, GreatestNumber
  <2>2. \A x \in common \ {a} : a \notin Past(x)
    <3> SUFFICES ASSUME NEW x \in common, x # a, a \in Past(x)
                 PROVE  FALSE
      OBVIOUS
    <3>1. x \in 0 .. Len(snaps) /\ a \in 1 .. Len(snaps) /\ x <= a
      BY <1>1, <2>1
    <3>2. a <= x
      BY <3>1, PastType
    <3>3. QED
      BY <3>1, <3>2
  <2>3. (CHOOSE y \in common : \A x \in common \ {y} : y \notin Past(x)) \in common
    BY <2>2
  <2>4. MergeBase(o, t) \in common
    BY <1>3, <2>3 DEF MergeBase
  <2>5. QED
    BY <1>1, <2>4
<1>4. QED
  BY <1>2, <1>3

LEMMA TreeOperatorsType ==
    ASSUME NEW b \in Trees, NEW o \in Trees, NEW t \in Trees
    PROVE  /\ Merged(b, o, t) \in Trees /\ Replayed(b, o, t) \in Trees
           /\ \A e \in Edits : Changed(t, e) \in Trees
<1>1. Merged(b, o, t) \in Trees /\ Replayed(b, o, t) \in Trees
  BY DEF Merged, Replayed, Trees
<1>2. ASSUME NEW e \in Edits
      PROVE  Changed(t, e) \in Trees
  <2>1. e[1] \in Paths /\ e[2] \in Values \cup {Absent}
    BY DEF Edits
  <2>2. QED
    BY <2>1 DEF Changed, Trees
<1>3. QED
  BY <1>1, <1>2

(* Replaying the differences between two trees on the first gives the second. *)
LEMMA ReplayedIsTarget ==
    ASSUME NEW b \in Trees, NEW t \in Trees
    PROVE  Replayed(b, b, t) = t
BY DEF Replayed, Trees

LEMMA AutomaticType ==
    ASSUME TInv, NEW st, StateRefs(st)
    PROVE  Automatic(st) \in Trees
<1>1. /\ st.base \in 0 .. Len(snaps) /\ st.ours \in 0 .. Len(snaps)
      /\ st.theirs \in 0 .. Len(snaps)
  BY DEF StateRefs
<1>2. Tree(st.base) \in Trees /\ Tree(st.ours) \in Trees /\ Tree(st.theirs) \in Trees
  BY <1>1, TreeType
<1>3. QED
  BY <1>2, TreeOperatorsType DEF Automatic
----------------------------------------------------------------------------
(* What each step does to the client that takes it.                           *)

OthersSame(p) == \A y \in Clients : y # p => c'[y] = c[y]
Grows == /\ Len(snaps') >= Len(snaps)
         /\ \A i \in 1 .. Len(snaps) : snaps'[i] = snaps[i]
LibrarySame == UNCHANGED <<snaps, remote, main, side, meta, decided>>

(* What TInv says of one client.                                              *)
LEMMA ClientType ==
    ASSUME TInv, NEW p \in Clients
    PROVE  /\ c \in [Clients -> ClientStates] /\ c[p] \in ClientStates
           /\ c[p].st \in States /\ StateRefs(c[p].st)
           /\ c[p].draft \in Drafts /\ c[p].draft.tree \in Trees
           /\ c[p].draft.first \in 0 .. Len(snaps) /\ c[p].draft.second \in 0 .. Len(snaps)
           /\ c[p].snap \in 0 .. Len(snaps)
           /\ (c[p].pc \in {"read", "publish"} /\ c[p].kind \in {"set", "decide"}
                 => c[p].edit \in Edits)
<1>1. c \in [Clients -> ClientStates] /\ c[p] \in ClientStates
  BY DEF TInv, TypeOK
<1>2. c[p].st \in States /\ c[p].draft \in Drafts
  BY <1>1 DEF ClientStates
<1>3. c[p].draft.tree \in Trees
  BY <1>2 DEF Drafts
<1>4. QED
  BY <1>1, <1>2, <1>3 DEF TInv, Refs, ClientRefs

LEMMA BeginEffect ==
    ASSUME TInv, NEW p \in Clients, NEW k, NEW pc, NEW edit, NEW st, Begin(p, k, pc, edit, st)
    PROVE  /\ c[p].pc = "idle" /\ c' = [c EXCEPT ![p] = c'[p]]
           /\ c'[p].pc = pc /\ c'[p].kind = k /\ c'[p].st = st /\ c'[p].edit = edit
           /\ c'[p].draft = NoDraft /\ c'[p].snap = 0
           /\ OthersSame(p) /\ LibrarySame /\ UNCHANGED <<held, kills>>
<1> DEFINE x == [Idle EXCEPT !.pc = pc, !.kind = k, !.edit = edit, !.st = st]
<1>1. /\ c[p].pc = "idle" /\ c' = [c EXCEPT ![p] = x]
      /\ LibrarySame /\ UNCHANGED <<held, kills>>
  BY DEF Begin, LibrarySame
<1>2. /\ x.pc = pc /\ x.kind = k /\ x.st = st /\ x.edit = edit
      /\ x.draft = NoDraft /\ x.snap = 0
  BY DEF Idle
<1> HIDE DEF x
<1>3. c \in [Clients -> ClientStates]
  BY DEF TInv, TypeOK
<1>4. c'[p] = x /\ OthersSame(p)
  BY <1>1, <1>3 DEF OthersSame
<1>5. QED
  BY <1>1, <1>2, <1>4

LEMMA GoesEffect ==
    ASSUME TInv, NEW p \in Clients, NEW pc, NEW draft, NEW snap, NEW st,
           Goes(p, pc, draft, snap, st)
    PROVE  /\ c'[p].pc = pc /\ c'[p].kind = c[p].kind /\ c'[p].st = st
           /\ c'[p].edit = c[p].edit /\ c'[p].draft = draft /\ c'[p].snap = snap
           /\ OthersSame(p) /\ LibrarySame /\ UNCHANGED kills
<1> DEFINE x == [c[p] EXCEPT !.pc = pc, !.draft = draft, !.snap = snap, !.st = st]
<1>1. /\ c' = [c EXCEPT ![p] = x] /\ LibrarySame /\ UNCHANGED kills
  BY DEF Goes, LibrarySame
<1>2. c \in [Clients -> ClientStates]
  BY DEF TInv, TypeOK
<1>3. /\ x.pc = pc /\ x.kind = c[p].kind /\ x.st = st /\ x.edit = c[p].edit
      /\ x.draft = draft /\ x.snap = snap
  BY <1>2 DEF ClientStates
<1>4. c'[p] = x
  BY <1>1, <1>2
<1> HIDE DEF x
<1>5. OthersSame(p)
  BY <1>1, <1>2 DEF OthersSame
<1>6. QED
  BY <1>1, <1>3, <1>4, <1>5

LEMMA GiveUpEffect ==
    ASSUME TInv, NEW p \in Clients, GiveUp(p)
    PROVE  /\ c'[p] = Idle /\ c' = [c EXCEPT ![p] = Idle]
           /\ OthersSame(p) /\ LibrarySame /\ UNCHANGED kills
BY DEF GiveUp, LibrarySame, OthersSame, TInv, TypeOK

----------------------------------------------------------------------------
(* Types.                                                                     *)

(* The references are kept when snapshots are added and each client names     *)
(* snapshots there are.                                                       *)
XRefs(x) ==
    /\ StateRefs(x.st)
    /\ x.snap \in 0 .. Len(snaps)
    /\ x.draft.first \in 0 .. Len(snaps) /\ x.draft.second \in 0 .. Len(snaps)
    /\ (x.pc \in {"read", "publish"} /\ x.kind \in {"set", "decide"} => x.edit \in Edits)
    /\ (x.pc \in {"open", "signal"} => x.kind = "merge")
    /\ (x.pc \in {"unsignal", "drop"} => x.kind \in {"continue", "abort"})

LEMMA ClientRefsX == ClientRefs <=> \A p \in Clients : XRefs(c[p])
BY DEF ClientRefs, XRefs

LEMMA IdleRefs ==
    ASSUME TInv
    PROVE  XRefs(Idle)
<1>1. Len(snaps) \in Nat /\ Len(snaps) >= 3
  BY DEF TInv, TypeOK, Refs, HeadRefs
<1>2. 0 \in 0 .. Len(snaps) /\ 1 \in 1 .. Len(snaps)
  BY <1>1
<1>3. QED
  BY <1>2 DEF XRefs, Idle, NoDraft, Draft, NoState, StateRefs

(* A step that changes one client, and perhaps what is held, and nothing else *)
(* of the library.                                                            *)
LEMMA LocalTInv ==
    ASSUME TInv, NEW p \in Clients, NEW x \in ClientStates, XRefs(x),
           c' = [c EXCEPT ![p] = x], LibrarySame,
           held' \subseteq 1 .. Len(snaps), kills' \in 0 .. MaxKills
    PROVE  TInv'
<1>1. held' \in SUBSET SnapIds
  BY BoundsAssumption DEF TInv, TypeOK, SnapIds
<1>2. TypeOK'
  BY <1>1 DEF TInv, TypeOK, LibrarySame
<1>3. \A y \in Clients : XRefs(c[y])' <=> XRefs(c'[y])
  BY DEF XRefs, StateRefs, LibrarySame
<1>4. \A y \in Clients : XRefs(c'[y])
  BY ClientRefsX DEF TInv, TypeOK, Refs
<1>5. ClientRefs'
  BY <1>3, <1>4 DEF ClientRefs, XRefs
<1>6. SnapRefs' /\ HeadRefs' /\ (meta' # None => StateRefs(meta)')
  BY DEF TInv, Refs, SnapRefs, HeadRefs, StateRefs, LibrarySame
<1>7. QED
  BY <1>2, <1>5, <1>6 DEF TInv, Refs

LEMMA BeginTInv ==
    ASSUME TInv, NEW p \in Clients, NEW k \in Kinds, NEW pc \in {"read", "unsignal"},
           NEW edit \in {<<>>} \cup Edits, NEW st \in States, StateRefs(st),
           pc = "unsignal" => k = "abort", k \in {"set", "decide"} => edit \in Edits,
           Begin(p, k, pc, edit, st)
    PROVE  TInv'
<1> DEFINE x == [Idle EXCEPT !.pc = pc, !.kind = k, !.edit = edit, !.st = st]
<1>1. c' = [c EXCEPT ![p] = x]
  BY DEF Begin
<1>2. x \in ClientStates
  BY SentinelTypes DEF ClientStates, Idle, Edits
<1>3. XRefs(x)
  BY IdleRefs DEF XRefs, Idle
<1> HIDE DEF x
<1>4. LibrarySame /\ held' \subseteq 1 .. Len(snaps) /\ kills' \in 0 .. MaxKills
  BY DEF Begin, LibrarySame, TInv, TypeOK, Refs, HeadRefs
<1>5. QED
  BY <1>1, <1>2, <1>3, <1>4, LocalTInv

LEMMA GoesTInv ==
    ASSUME TInv, NEW p \in Clients, NEW pc \in {"publish", "open"}, NEW draft \in Drafts,
           NEW snap \in 0 .. Len(snaps), NEW st \in States, StateRefs(st),
           draft.first \in 0 .. Len(snaps), draft.second \in 0 .. Len(snaps),
           c[p].pc = "read", pc = "open" => c[p].kind = "merge",
           Goes(p, pc, draft, snap, st), held' \subseteq 1 .. Len(snaps)
    PROVE  TInv'
<1> DEFINE x == [c[p] EXCEPT !.pc = pc, !.draft = draft, !.snap = snap, !.st = st]
<1>1. c' = [c EXCEPT ![p] = x] /\ c[p] \in ClientStates
  BY ClientType DEF Goes
<1>2. snap \in 0 .. MaxSnaps
  BY BoundsAssumption DEF TInv, TypeOK
<1>3. x \in ClientStates
  BY <1>1, <1>2 DEF ClientStates
<1>4. /\ x.pc = pc /\ x.kind = c[p].kind /\ x.st = st /\ x.edit = c[p].edit
      /\ x.draft = draft /\ x.snap = snap
  BY <1>1 DEF ClientStates
<1> HIDE DEF x
<1>5. XRefs(x)
  BY <1>4, ClientType DEF XRefs
<1>6. LibrarySame /\ kills' \in 0 .. MaxKills
  BY DEF Goes, LibrarySame, TInv, TypeOK
<1>7. QED
  BY <1>1, <1>3, <1>5, <1>6, LocalTInv

LEMMA IdleTInv ==
    ASSUME TInv, NEW p \in Clients, c' = [c EXCEPT ![p] = Idle], LibrarySame,
           held' \subseteq 1 .. Len(snaps), kills' \in 0 .. MaxKills
    PROVE  TInv'
BY IdleRefs, SentinelTypes, LocalTInv

LEMMA GiveUpTInv ==
    ASSUME TInv, NEW p \in Clients, GiveUp(p), held' \subseteq 1 .. Len(snaps)
    PROVE  TInv'
<1>1. kills' \in 0 .. MaxKills
  BY GiveUpEffect DEF TInv, TypeOK
<1>2. QED
  BY <1>1, GiveUpEffect, IdleTInv

(* What is known of the numbers in the library and in the merge state.        *)
LEMMA HeadTypes ==
    ASSUME TInv
    PROVE  /\ Len(snaps) \in Nat /\ Len(snaps) >= 3 /\ Len(snaps) <= MaxSnaps
           /\ main \in 0 .. Len(snaps) /\ side \in 0 .. Len(snaps)
           /\ remote \in 0 .. Len(snaps) /\ remote \in 1 .. Len(snaps)
           /\ held \subseteq 1 .. Len(snaps)
           /\ (meta # None => meta \in States /\ StateRefs(meta))
           /\ NoState \in States /\ StateRefs(NoState)
           /\ NoDraft \in Drafts /\ NoDraft.first = 0 /\ NoDraft.second = 0
<1>1. Len(snaps) \in Nat /\ Len(snaps) >= 3 /\ Len(snaps) <= MaxSnaps
  BY DEF TInv, TypeOK, Refs, HeadRefs
<1>2. /\ main \in 0 .. Len(snaps) /\ side \in 0 .. Len(snaps)
      /\ remote \in 1 .. Len(snaps) /\ held \subseteq 1 .. Len(snaps)
  BY DEF TInv, Refs, HeadRefs
<1>3. meta # None => meta \in States /\ StateRefs(meta)
  BY DEF TInv, TypeOK, Refs
<1>4. StateRefs(NoState)
  BY <1>1 DEF StateRefs, NoState
<1>5. NoDraft.first = 0 /\ NoDraft.second = 0
  BY DEF NoDraft, Draft
<1>6. remote \in 0 .. Len(snaps)
  BY <1>2
<1>7. NoState \in States /\ NoDraft \in Drafts
  BY SentinelTypes
<1>8. QED
  BY <1>1, <1>2, <1>3, <1>4, <1>5, <1>6, <1>7

(* A draft with parents that are there is a draft.                            *)
LEMMA DraftType ==
    ASSUME TInv, NEW t \in Trees, NEW i \in 0 .. Len(snaps)
    PROVE  /\ \A j \in 0 .. Len(snaps) : /\ Draft(t, i, j, FALSE) \in Drafts
                                         /\ Draft(t, i, j, FALSE).first = i
                                         /\ Draft(t, i, j, FALSE).second = j
           /\ Draft(t, i, 0, FALSE) \in Drafts
           /\ Draft(t, i, 0, FALSE).first = i /\ Draft(t, i, 0, FALSE).second = 0
           /\ Draft(t, i, 0, TRUE) \in Drafts
           /\ Draft(t, i, 0, TRUE).first = i /\ Draft(t, i, 0, TRUE).second = 0
<1>1. /\ i \in 0 .. MaxSnaps /\ 0 \in 0 .. MaxSnaps
      /\ \A j \in 0 .. Len(snaps) : j \in 0 .. MaxSnaps
  BY HeadTypes, BoundsAssumption
<1>2. QED
  BY <1>1 DEF Draft, Drafts

(* The commands that begin.                                                   *)
LEMMA BeginsTInv ==
    ASSUME TInv, NEW p \in Clients,
           \/ BeginWrite(p) \/ BeginMerge(p) \/ BeginDecide(p)
           \/ BeginContinue(p) \/ BeginAbort(p)
    PROVE  TInv'
<1>1. /\ NoState \in States /\ StateRefs(NoState)
      /\ (meta # None => meta \in States /\ StateRefs(meta))
  BY HeadTypes
<1>2. CASE BeginWrite(p)
  <2>1. CASE \E e \in Edits : Begin(p, "set", "read", e, NoState)
    <3>1. PICK e \in Edits : Begin(p, "set", "read", e, NoState)
      BY <2>1
    <3>2. QED
      BY <1>1, <3>1, BeginTInv DEF Kinds, Direct
  <2>2. CASE \E k \in {"pull", "reset"} : Begin(p, k, "read", <<>>, NoState)
    <3>1. PICK k \in {"pull", "reset"} : Begin(p, k, "read", <<>>, NoState)
      BY <2>2
    <3>2. k \in Kinds /\ k \notin {"set", "decide"}
      BY DEF Kinds, Direct
    <3>3. QED
      BY <1>1, <3>1, <3>2, BeginTInv
  <2>3. QED
    BY <1>2, <2>1, <2>2 DEF BeginWrite, Edits
<1>3. CASE BeginMerge(p)
  <2>1. Begin(p, "merge", "read", <<>>, NoState) /\ "merge" \in Kinds
    BY <1>3 DEF BeginMerge, Kinds, Mergers
  <2>2. QED
    BY <1>1, <2>1, BeginTInv
<1>4. CASE BeginDecide(p)
  <2>1. PICK e \in Edits : Begin(p, "decide", "read", e, meta)
    BY <1>4 DEF BeginDecide, Edits
  <2>2. "decide" \in Kinds /\ meta # None
    BY <1>4 DEF BeginDecide, Kinds, Mergers
  <2>3. QED
    BY <1>1, <2>1, <2>2, BeginTInv
<1>5. CASE BeginContinue(p)
  <2>1. Begin(p, "continue", "read", <<>>, meta) /\ "continue" \in Kinds /\ meta # None
    BY <1>5 DEF BeginContinue, Kinds, Mergers
  <2>2. QED
    BY <1>1, <2>1, BeginTInv
<1>6. CASE BeginAbort(p)
  <2>1. Begin(p, "abort", "unsignal", <<>>, meta) /\ "abort" \in Kinds /\ meta # None
    BY <1>6 DEF BeginAbort, Kinds, Mergers
  <2>2. QED
    BY <1>1, <2>1, BeginTInv
<1>7. QED
  BY <1>2, <1>3, <1>4, <1>5, <1>6

(* The reads.                                                                 *)
LEMMA ReadEditTInv ==
    ASSUME TInv, NEW p \in Clients, NEW h \in 0 .. Len(snaps),
           c[p].pc = "read", c[p].kind \in {"set", "decide"}, ReadEdit(p, h)
    PROVE  TInv'
<1>1. held' \subseteq 1 .. Len(snaps)
  BY HeadTypes DEF ReadEdit
<1>2. CASE GiveUp(p)
  BY <1>1, <1>2, GiveUpTInv
<1>3. CASE Goes(p, "publish", Draft(Changed(Tree(h), c[p].edit), h, 0, FALSE), 0, c[p].st)
  <2>1. c[p].edit \in Edits /\ c[p].st \in States /\ StateRefs(c[p].st)
    BY ClientType
  <2>2. Changed(Tree(h), c[p].edit) \in Trees
    BY <2>1, TreeType, TreeOperatorsType
  <2>3. 0 \in 0 .. Len(snaps)
    BY HeadTypes
  <2> DEFINE d == Draft(Changed(Tree(h), c[p].edit), h, 0, FALSE)
  <2>4. d \in Drafts /\ d.first = h /\ d.second = 0
    BY <2>2, <2>3, DraftType, Zenon
  <2> HIDE DEF d
  <2>5. Goes(p, "publish", d, 0, c[p].st)
    BY <1>3 DEF d
  <2>6. QED
    BY <1>1, <2>1, <2>3, <2>4, <2>5, GoesTInv
<1>4. QED
  BY <1>2, <1>3 DEF ReadEdit

LEMMA ReadResetTInv ==
    ASSUME TInv, NEW p \in Clients, ReadReset(p)
    PROVE  TInv'
<1>1. held' \subseteq 1 .. Len(snaps)
  BY HeadTypes DEF ReadReset
<1>2. CASE GiveUp(p)
  BY <1>1, <1>2, GiveUpTInv
<1>3. CASE \E i \in Past(main) : Goes(p, "publish", NoDraft, i, NoState)
  <2>1. PICK i \in Past(main) : Goes(p, "publish", NoDraft, i, NoState)
    BY <1>3
  <2>2. i \in 0 .. Len(snaps) /\ 0 \in 0 .. Len(snaps)
    BY HeadTypes, PastType
  <2>3. c[p].pc = "read"
    BY DEF ReadReset, Reading
  <2>4. QED
    BY <1>1, <2>1, <2>2, <2>3, HeadTypes, GoesTInv
<1>4. QED
  BY <1>2, <1>3 DEF ReadReset

LEMMA ReadPullTInv ==
    ASSUME TInv, NEW p \in Clients, ReadPull(p)
    PROVE  TInv'
<1>1. held \subseteq 1 .. Len(snaps) /\ Past(remote) \subseteq 1 .. Len(snaps)
  BY HeadTypes, PastType
<1>2. held' = held \/ held' = held \cup Past(remote)
  BY DEF ReadPull
<1>3. held' \subseteq 1 .. Len(snaps)
  BY <1>1, <1>2
<1>4. CASE GiveUp(p)
  BY <1>3, <1>4, GiveUpTInv
<1>5. CASE Goes(p, "publish", NoDraft, remote, NoState)
  <2>1. c[p].pc = "read" /\ 0 \in 0 .. Len(snaps)
    BY HeadTypes DEF ReadPull, Reading
  <2>2. QED
    BY <1>3, <1>5, <2>1, HeadTypes, GoesTInv
<1>6. QED
  BY <1>4, <1>5 DEF ReadPull

(* The outcomes of the first half of a merge.                                 *)
MergedTree == Merged(Tree(MergeBase(main, remote)), Tree(main), Tree(remote))
MergedState == [base |-> MergeBase(main, remote), ours |-> main, theirs |-> remote]
LEMMA ReadMergeOutcomes ==
    ASSUME NEW p \in Clients, ReadMerge(p)
    PROVE  /\ c[p].pc = "read" /\ c[p].kind = "merge"
           /\ \/ held' = held /\ GiveUp(p)
              \/ /\ meta = None /\ held' = held \cup Past(remote)
                 /\ \/ GiveUp(p)
                    \/ Goes(p, "publish", NoDraft, remote, NoState)
                    \/ main # 0 /\ Goes(p, "publish", Draft(MergedTree, main, remote, FALSE), 0, NoState)
                    \/ main # 0 /\ Goes(p, "open", Draft(MergedTree, main, 0, TRUE), 0, MergedState)
BY DEF ReadMerge, Reading, MergedTree, MergedState

LEMMA MergedTypes ==
    ASSUME TInv
    PROVE  /\ MergedTree \in Trees
           /\ MergedState.base = MergeBase(main, remote)
           /\ MergedState.ours = main /\ MergedState.theirs = remote
           /\ MergedTree = Automatic(MergedState)
           /\ (main # 0 => MergedState \in States /\ StateRefs(MergedState))
<1>1. MergeBase(main, remote) \in 0 .. Len(snaps)
  BY HeadTypes, MergeBaseType
<1>2. MergedTree \in Trees
  BY <1>1, HeadTypes, TreeType, TreeOperatorsType DEF MergedTree
<1>3. /\ MergedState.base = MergeBase(main, remote)
      /\ MergedState.ours = main /\ MergedState.theirs = remote
  BY DEF MergedState
<1>4. ASSUME main # 0
      PROVE  MergedState \in States /\ StateRefs(MergedState)
  <2>1. main \in 1 .. Len(snaps) /\ remote \in 1 .. Len(snaps)
    BY <1>4, HeadTypes
  <2>2. /\ MergeBase(main, remote) \in 0 .. MaxSnaps
        /\ main \in SnapIds /\ remote \in SnapIds
    BY <1>1, <2>1, HeadTypes, BoundsAssumption DEF SnapIds
  <2>3. MergedState \in States
    BY <2>2 DEF MergedState, States
  <2>4. QED
    BY <1>1, <1>3, <2>1, <2>3 DEF StateRefs
<1>5. QED
  BY <1>2, <1>3, <1>4 DEF MergedTree, Automatic

LEMMA ReadMergeTInv ==
    ASSUME TInv, NEW p \in Clients, ReadMerge(p)
    PROVE  TInv'
<1>1. held \subseteq 1 .. Len(snaps) /\ Past(remote) \subseteq 1 .. Len(snaps)
  BY HeadTypes, PastType
<1>0. 0 \in 0 .. Len(snaps)
  BY HeadTypes
<1>2. c[p].pc = "read" /\ c[p].kind = "merge" /\ 0 \in 0 .. Len(snaps)
  BY <1>0, ReadMergeOutcomes, Zenon
<1>3. held' \subseteq 1 .. Len(snaps)
  BY <1>1, ReadMergeOutcomes
<1>4. CASE GiveUp(p)
  BY <1>3, <1>4, GiveUpTInv
<1>5. CASE Goes(p, "publish", NoDraft, remote, NoState)
  BY <1>2, <1>3, <1>5, HeadTypes, GoesTInv
<1> DEFINE d1 == Draft(MergedTree, main, remote, FALSE)
           d2 == Draft(MergedTree, main, 0, TRUE)
<1>6. /\ d1 \in Drafts /\ d1.first = main /\ d1.second = remote
      /\ d2 \in Drafts /\ d2.first = main /\ d2.second = 0
  <2>0. MergedTree \in Trees /\ main \in 0 .. Len(snaps) /\ remote \in 0 .. Len(snaps)
    BY HeadTypes, MergedTypes
  <2>1. d1 \in Drafts /\ d1.first = main /\ d1.second = remote
    BY <2>0, DraftType, Zenon
  <2>2. d2 \in Drafts /\ d2.first = main /\ d2.second = 0
    BY <1>2, <2>0, DraftType, Zenon
  <2>3. QED
    BY <2>1, <2>2
<1>7. \/ GiveUp(p) \/ Goes(p, "publish", NoDraft, remote, NoState)
      \/ Goes(p, "publish", d1, 0, NoState)
      \/ main # 0 /\ Goes(p, "open", d2, 0, MergedState)
  BY ReadMergeOutcomes
<1> HIDE DEF d1, d2
<1>8. CASE Goes(p, "publish", d1, 0, NoState)
  BY <1>2, <1>3, <1>6, <1>8, HeadTypes, GoesTInv
<1>9. CASE main # 0 /\ Goes(p, "open", d2, 0, MergedState)
  BY <1>2, <1>3, <1>6, <1>9, HeadTypes, MergedTypes, GoesTInv
<1>10. QED
  BY <1>4, <1>5, <1>7, <1>8, <1>9

(* The outcomes of the first half of merge --continue: what it is going to    *)
(* publish has the tree of the side branch.                                   *)
LEMMA ReadContinueOutcomes ==
    ASSUME TInv, NEW p \in Clients, ReadContinue(p)
    PROVE  /\ c[p].pc = "read" /\ c[p].kind = "continue" /\ held' = held
           /\ \/ GiveUp(p)
              \/ /\ main = c[p].st.ours
                 /\ Goes(p, "publish", Draft(Tree(side), c[p].st.ours, c[p].st.theirs, FALSE),
                         0, c[p].st)
<1> DEFINE st == c[p].st
           base == IF side = 0 THEN 0 ELSE snaps[side].basis
<1>1. /\ c[p].pc = "read" /\ c[p].kind = "continue" /\ held' = held
      /\ \/ GiveUp(p)
         \/ /\ main = st.ours
            /\ Goes(p, "publish", Draft(Replayed(Tree(base), Tree(base), Tree(side)),
                                        st.ours, st.theirs, FALSE), 0, st)
  BY DEF ReadContinue, Reading
<1>2. side \in 0 .. Len(snaps) /\ base \in 0 .. Len(snaps)
  BY HeadTypes, SnapshotType
<1> HIDE DEF base
<1>3. Replayed(Tree(base), Tree(base), Tree(side)) = Tree(side)
  BY <1>2, TreeType, ReplayedIsTarget
<1>4. QED
  BY <1>1, <1>3

LEMMA ReadContinueTInv ==
    ASSUME TInv, NEW p \in Clients, ReadContinue(p)
    PROVE  TInv'
<1>0. 0 \in 0 .. Len(snaps) /\ held \subseteq 1 .. Len(snaps)
  BY HeadTypes
<1>1. c[p].pc = "read" /\ held' \subseteq 1 .. Len(snaps) /\ 0 \in 0 .. Len(snaps)
  BY <1>0, ReadContinueOutcomes, Zenon
<1>2. CASE GiveUp(p)
  BY <1>1, <1>2, GiveUpTInv
<1> DEFINE d == Draft(Tree(side), c[p].st.ours, c[p].st.theirs, FALSE)
<1>3. GiveUp(p) \/ Goes(p, "publish", d, 0, c[p].st)
  BY ReadContinueOutcomes
<1>4. /\ c[p].st \in States /\ StateRefs(c[p].st)
      /\ c[p].st.ours \in 0 .. Len(snaps) /\ c[p].st.theirs \in 0 .. Len(snaps)
  BY ClientType DEF StateRefs
<1>41. Tree(side) \in Trees
  BY HeadTypes, TreeType
<1>5. d \in Drafts /\ d.first = c[p].st.ours /\ d.second = c[p].st.theirs
  <2>1. PICK t, i, j : t = Tree(side) /\ i = c[p].st.ours /\ j = c[p].st.theirs
    OBVIOUS
  <2>2. t \in Trees /\ i \in 0 .. Len(snaps) /\ j \in 0 .. Len(snaps)
    BY <1>4, <1>41, <2>1
  <2>3. /\ Draft(t, i, j, FALSE) \in Drafts
        /\ Draft(t, i, j, FALSE).first = i /\ Draft(t, i, j, FALSE).second = j
    BY <2>2, DraftType
  <2>4. QED
    BY <2>1, <2>3
<1> HIDE DEF d
<1>6. CASE Goes(p, "publish", d, 0, c[p].st)
  BY <1>1, <1>4, <1>5, <1>6, GoesTInv
<1>7. QED
  BY <1>2, <1>3, <1>6

(* A new snapshot: its history is complete and it is the newest of it.        *)
LEMMA AppendEffect ==
    ASSUME TInv, NEW d \in Drafts,
           d.first \in 0 .. Len(snaps), d.second \in 0 .. Len(snaps),
           Len(snaps) < MaxSnaps, snaps' = Append(snaps, Recorded(d))
    PROVE  /\ snaps' \in Seq(Snapshots) /\ Len(snaps') = Len(snaps) + 1
           /\ Grows /\ SnapRefs'
           /\ snaps'[Len(snaps) + 1].tree = d.tree
           /\ snaps'[Len(snaps) + 1].first = d.first
           /\ snaps'[Len(snaps) + 1].second = d.second
           /\ snaps'[Len(snaps) + 1].past =
                 {Len(snaps) + 1} \cup Past(d.first) \cup Past(d.second)
           /\ snaps'[Len(snaps) + 1].basis =
                 (IF d.base THEN Len(snaps) + 1
                  ELSE IF d.first = 0 THEN 0 ELSE snaps[d.first].basis)
<1> DEFINE n == Len(snaps) + 1
           past == {n} \cup Past(d.first) \cup Past(d.second)
           basis == IF d.base THEN n ELSE IF d.first = 0 THEN 0 ELSE snaps[d.first].basis
           r == Recorded(d)
<1>1. /\ r.tree = d.tree /\ r.first = d.first /\ r.second = d.second
      /\ r.past = past /\ r.basis = basis
      /\ r = [tree |-> d.tree, first |-> d.first, second |-> d.second,
              past |-> past, basis |-> basis]
  BY DEF Recorded
<1>2. Len(snaps) \in Nat /\ MaxSnaps \in Nat /\ n \in 1 .. MaxSnaps /\ Len(snaps) >= 3
  BY HeadTypes, BoundsAssumption
<1>3. /\ Past(d.first) \subseteq 1 .. Len(snaps) /\ Past(d.second) \subseteq 1 .. Len(snaps)
      /\ \A j \in Past(d.first) : Past(j) \subseteq Past(d.first)
      /\ \A j \in Past(d.second) : Past(j) \subseteq Past(d.second)
  BY PastType
<1>4. past \subseteq 1 .. n /\ past \in SUBSET SnapIds
  BY <1>2, <1>3 DEF SnapIds
<1>5. basis \in 0 .. n /\ basis \in 0 .. MaxSnaps
  <2>1. CASE d.base
    BY <1>2, <2>1
  <2>2. CASE ~ d.base /\ d.first = 0
    BY <1>2, <2>2
  <2>3. CASE ~ d.base /\ d.first # 0
    <3>1. d.first \in 1 .. Len(snaps)
      BY <2>3
    <3>2. basis = snaps[d.first].basis /\ snaps[d.first].basis \in 0 .. Len(snaps)
      BY <2>3, <3>1, SnapshotType
    <3>3. QED
      BY <1>2, <3>2
  <2>4. QED
    BY <2>1, <2>2, <2>3
<1> HIDE DEF past, basis
<1>6. r \in Snapshots
  <2>1. d.tree \in Trees /\ d.first \in 0 .. MaxSnaps /\ d.second \in 0 .. MaxSnaps
    BY DEF Drafts
  <2>2. QED
    BY <1>1, <1>4, <1>5, <2>1 DEF Snapshots
<1> HIDE DEF r
<1>7. snaps \in Seq(Snapshots) /\ snaps' = Append(snaps, r)
  BY DEF r, TInv, TypeOK
<1>8. /\ snaps' \in Seq(Snapshots) /\ Len(snaps') = n /\ snaps'[n] = r
      /\ \A i \in 1 .. Len(snaps) : snaps'[i] = snaps[i]
  BY <1>6, <1>7
<1>9. Grows
  BY <1>2, <1>8 DEF Grows
<1>10. \A j \in 1 .. Len(snaps) : Past(j) = snaps[j].past /\ snaps'[j].past = snaps[j].past
  BY <1>8 DEF Past
<1>11. ASSUME NEW i \in 1 .. Len(snaps)
       PROVE  /\ i \in snaps'[i].past /\ snaps'[i].past \subseteq 1 .. i
              /\ \A j \in snaps'[i].past : snaps'[j].past \subseteq snaps'[i].past
              /\ snaps'[i].basis \in 0 .. i
  <2>1. /\ i \in snaps[i].past /\ snaps[i].past \subseteq 1 .. i
        /\ snaps[i].past \subseteq 1 .. Len(snaps)
        /\ \A j \in snaps[i].past : snaps[j].past \subseteq snaps[i].past
    BY SnapshotType
  <2>2. snaps[i].basis \in 0 .. i
    BY DEF TInv, Refs, SnapRefs
  <2>3. snaps'[i] = snaps[i] /\ \A j \in snaps[i].past : snaps'[j] = snaps[j]
    BY <1>8, <2>1
  <2>4. QED
    BY <2>1, <2>2, <2>3
<1>12. \A j \in past : snaps'[j].past \subseteq past
  <2> SUFFICES ASSUME NEW j \in past
               PROVE  snaps'[j].past \subseteq past
    OBVIOUS
  <2>1. CASE j = n
    BY <1>1, <1>8, <2>1
  <2>2. CASE j \in Past(d.first)
    BY <1>3, <1>10, <2>2 DEF past
  <2>3. CASE j \in Past(d.second)
    BY <1>3, <1>10, <2>3 DEF past
  <2>4. QED
    BY <2>1, <2>2, <2>3 DEF past
<1>13. n \in past
  BY DEF past
<1>14. SnapRefs'
  <2> SUFFICES ASSUME NEW i \in 1 .. n
               PROVE  /\ i \in snaps'[i].past /\ snaps'[i].past \subseteq 1 .. i
                      /\ \A j \in snaps'[i].past : snaps'[j].past \subseteq snaps'[i].past
                      /\ snaps'[i].basis \in 0 .. i
    BY <1>8 DEF SnapRefs
  <2>1. CASE i \in 1 .. Len(snaps)
    BY <1>11, <2>1
  <2>2. CASE i = n
    BY <1>1, <1>4, <1>5, <1>8, <1>12, <1>13, <2>2
  <2>3. QED
    BY <1>2, <2>1, <2>2
<1>15. QED
  BY <1>1, <1>8, <1>9, <1>14 DEF past, basis

LEMMA PutDraftEffect ==
    ASSUME TInv, NEW p \in Clients, PutDraft(p)
    PROVE  /\ snaps' \in Seq(Snapshots) /\ Len(snaps') \in Nat /\ Len(snaps') <= MaxSnaps
           /\ Grows /\ SnapRefs'
           /\ Target(p) \in 1 .. Len(snaps') /\ held' \subseteq 1 .. Len(snaps')
           /\ held \subseteq held' /\ Target(p) \in held'
<1>1. CASE c[p].snap = 0
  <2>1. /\ Len(snaps) < MaxSnaps /\ snaps' = Append(snaps, Recorded(c[p].draft))
        /\ held' = held \cup {Len(snaps) + 1} /\ Target(p) = Len(snaps) + 1
    BY <1>1 DEF PutDraft, Target
  <2>2. /\ c[p].draft \in Drafts /\ c[p].draft.first \in 0 .. Len(snaps)
        /\ c[p].draft.second \in 0 .. Len(snaps)
    BY ClientType
  <2>3. /\ snaps' \in Seq(Snapshots) /\ Len(snaps') = Len(snaps) + 1 /\ Grows /\ SnapRefs'
    BY <2>1, <2>2, AppendEffect
  <2>4. Len(snaps) \in Nat /\ MaxSnaps \in Nat /\ held \subseteq 1 .. Len(snaps)
    BY HeadTypes, BoundsAssumption
  <2>5. Len(snaps') \in Nat /\ Len(snaps') <= MaxSnaps
    BY <2>1, <2>3, <2>4
  <2>6. Target(p) \in 1 .. Len(snaps')
    BY <2>1, <2>3, <2>4
  <2>7. held' \subseteq 1 .. Len(snaps') /\ held \subseteq held' /\ Target(p) \in held'
    <3>1. 1 .. Len(snaps) \subseteq 1 .. Len(snaps')
      BY <2>3, <2>4
    <3>2. QED
      BY <2>1, <2>4, <2>6, <3>1, Zenon
  <2>8. QED
    BY <2>3, <2>5, <2>6, <2>7
<1>2. CASE c[p].snap # 0
  <2>1. c[p].snap \in held /\ snaps' = snaps /\ held' = held /\ Target(p) = c[p].snap
    BY <1>2 DEF PutDraft, Target
  <2>2. Len(snaps) \in Nat /\ held \subseteq 1 .. Len(snaps) /\ Len(snaps) <= MaxSnaps
    BY HeadTypes
  <2>3. SnapRefs' /\ Grows
    BY <2>1, <2>2 DEF TInv, Refs, SnapRefs, Grows
  <2>4. QED
    BY <2>1, <2>2, <2>3 DEF TInv, TypeOK
<1>3. QED
  BY <1>1, <1>2

(* The same for the one snapshot a command puts.                              *)
LEMMA PutDraftNew ==
    ASSUME TInv, NEW p \in Clients, PutDraft(p), c[p].snap = 0
    PROVE  /\ Target(p) = Len(snaps) + 1 /\ Len(snaps') = Len(snaps) + 1
           /\ held' = held \cup {Len(snaps) + 1}
           /\ snaps'[Len(snaps) + 1].tree = c[p].draft.tree
           /\ snaps'[Len(snaps) + 1].first = c[p].draft.first
           /\ snaps'[Len(snaps) + 1].second = c[p].draft.second
           /\ snaps'[Len(snaps) + 1].past =
                 {Len(snaps) + 1} \cup Past(c[p].draft.first) \cup Past(c[p].draft.second)
           /\ snaps'[Len(snaps) + 1].basis =
                 (IF c[p].draft.base THEN Len(snaps) + 1
                  ELSE IF c[p].draft.first = 0 THEN 0 ELSE snaps[c[p].draft.first].basis)
<1>1. /\ Len(snaps) < MaxSnaps /\ snaps' = Append(snaps, Recorded(c[p].draft))
      /\ held' = held \cup {Len(snaps) + 1} /\ Target(p) = Len(snaps) + 1
  BY DEF PutDraft, Target
<1>2. /\ c[p].draft \in Drafts /\ c[p].draft.first \in 0 .. Len(snaps)
      /\ c[p].draft.second \in 0 .. Len(snaps)
  BY ClientType
<1>3. QED
  BY <1>1, <1>2, AppendEffect, Zenon

(* A step that adds snapshots, keeps the numbers below their number and gives *)
(* every variable a value of its type.                                        *)
LEMMA GrowingTInv ==
    ASSUME TInv, snaps' \in Seq(Snapshots), Len(snaps') <= MaxSnaps, Grows, SnapRefs',
           held' \subseteq 1 .. Len(snaps'), remote' \in 1 .. Len(snaps'),
           main' \in 0 .. Len(snaps'), side' \in 0 .. Len(snaps'),
           meta' \in States \cup {None}, meta' # None => StateRefs(meta'),
           c' \in [Clients -> ClientStates], \A y \in Clients : XRefs(c'[y]),
           decided' \in [Paths -> Values \cup {Absent, None}], kills' \in 0 .. MaxKills
    PROVE  TInv'
<1>1. /\ Len(snaps) \in Nat /\ Len(snaps') \in Nat /\ MaxSnaps \in Nat
      /\ Len(snaps) >= 3 /\ Len(snaps') >= Len(snaps)
  BY HeadTypes, BoundsAssumption DEF Grows
<1>2. /\ held' \in SUBSET SnapIds /\ remote' \in SnapIds
      /\ main' \in 0 .. MaxSnaps /\ side' \in 0 .. MaxSnaps
  BY <1>1 DEF SnapIds
<1>3. TypeOK'
  BY <1>2 DEF TypeOK
<1>4. HeadRefs'
  BY <1>1 DEF HeadRefs
<1>41. /\ \A i \in 0 .. Len(snaps) : i \in 0 .. Len(snaps')
       /\ \A i \in 1 .. Len(snaps) : i \in 1 .. Len(snaps')
  BY <1>1
<1>5. ASSUME NEW st, StateRefs(st)
      PROVE  /\ st.base \in 0 .. Len(snaps')
             /\ st.ours \in 1 .. Len(snaps') /\ st.theirs \in 1 .. Len(snaps')
  BY <1>41, <1>5 DEF StateRefs
<1>6. meta' # None => StateRefs(meta)'
  BY <1>5 DEF StateRefs
<1>7. ClientRefs'
  <2> SUFFICES ASSUME NEW y \in Clients
               PROVE  XRefs(c[y])'
    BY DEF ClientRefs, XRefs
  <2>1. XRefs(c'[y])
    OBVIOUS
  <2>2. /\ c'[y].st.base \in 0 .. Len(snaps')
        /\ c'[y].st.ours \in 1 .. Len(snaps') /\ c'[y].st.theirs \in 1 .. Len(snaps')
    BY <1>5, <2>1 DEF XRefs
  <2>3. /\ c'[y].snap \in 0 .. Len(snaps')
        /\ c'[y].draft.first \in 0 .. Len(snaps') /\ c'[y].draft.second \in 0 .. Len(snaps')
    BY <1>41, <2>1 DEF XRefs
  <2>4. QED
    BY <2>1, <2>2, <2>3 DEF XRefs, StateRefs
<1>8. QED
  BY <1>3, <1>4, <1>6, <1>7 DEF TInv, Refs

LEMMA SameSnapshots ==
    ASSUME TInv, snaps' = snaps
    PROVE  snaps' \in Seq(Snapshots) /\ Len(snaps') <= MaxSnaps /\ Grows /\ SnapRefs'
<1>1. SnapRefs' /\ Grows
  BY HeadTypes DEF TInv, Refs, SnapRefs, Grows
<1>2. QED
  BY <1>1 DEF TInv, TypeOK

LEMMA ExceptRefs ==
    ASSUME TInv, NEW p \in Clients, NEW x \in ClientStates, XRefs(x), c' = [c EXCEPT ![p] = x]
    PROVE  /\ c' \in [Clients -> ClientStates] /\ \A y \in Clients : XRefs(c'[y])
           /\ c'[p] = x /\ OthersSame(p)
<1>1. c \in [Clients -> ClientStates] /\ \A y \in Clients : XRefs(c[y])
  BY ClientRefsX DEF TInv, TypeOK, Refs
<1>2. QED
  BY <1>1 DEF OthersSame

(* The numbers that were below the number of snapshots still are.             *)
LEMMA StillBelow ==
    ASSUME TInv, Grows, Len(snaps') \in Nat
    PROVE  /\ remote \in 1 .. Len(snaps') /\ main \in 0 .. Len(snaps')
           /\ side \in 0 .. Len(snaps') /\ held \subseteq 1 .. Len(snaps')
           /\ 0 .. Len(snaps) \subseteq 0 .. Len(snaps')
BY HeadTypes DEF Grows

(* What stays of the types when a command ends one of its writes.             *)
UnsignalState(p) == [Idle EXCEPT !.pc = "unsignal", !.kind = "continue", !.st = c[p].st]
SignalState(p)   == [Idle EXCEPT !.pc = "signal", !.kind = "merge", !.st = c[p].st]
LEMMA AfterWrite ==
    ASSUME TInv, NEW p \in Clients
    PROVE  /\ Idle \in ClientStates /\ XRefs(Idle)
           /\ UnsignalState(p) \in ClientStates /\ XRefs(UnsignalState(p))
           /\ SignalState(p) \in ClientStates /\ XRefs(SignalState(p))
<1>1. Idle \in ClientStates /\ XRefs(Idle)
  BY IdleRefs, SentinelTypes
<1>2. c[p].st \in States /\ StateRefs(c[p].st)
  BY ClientType
<1>3. UnsignalState(p) \in ClientStates /\ SignalState(p) \in ClientStates
  BY <1>1, <1>2 DEF UnsignalState, SignalState, ClientStates, Kinds, Mergers
<1>4. Idle.snap = 0 /\ Idle.draft = NoDraft
  BY DEF Idle
<1>5. /\ UnsignalState(p).st = c[p].st /\ UnsignalState(p).pc = "unsignal"
      /\ UnsignalState(p).kind = "continue" /\ UnsignalState(p).snap = Idle.snap
      /\ UnsignalState(p).draft = Idle.draft
  BY DEF UnsignalState, Idle
<1>6. /\ SignalState(p).st = c[p].st /\ SignalState(p).pc = "signal"
      /\ SignalState(p).kind = "merge" /\ SignalState(p).snap = Idle.snap
      /\ SignalState(p).draft = Idle.draft
  BY DEF SignalState, Idle
<1>7. XRefs(UnsignalState(p)) /\ XRefs(SignalState(p))
  BY <1>1, <1>2, <1>5, <1>6 DEF XRefs
<1>8. QED
  BY <1>1, <1>3, <1>7

(* The writes.                                                                *)
LEMMA PublishTInv ==
    ASSUME TInv, NEW p \in Clients, Publish(p)
    PROVE  TInv'
<1> DEFINE x == IF c[p].kind = "continue" THEN UnsignalState(p) ELSE Idle
<1>1. /\ PutDraft(p) /\ main' = Target(p) /\ c' = [c EXCEPT ![p] = x]
      /\ UNCHANGED <<remote, side, meta, decided, kills>>
  BY DEF Publish, UnsignalState
<1>2. x \in ClientStates /\ XRefs(x)
  BY AfterWrite
<1> HIDE DEF x
<1>3. c' \in [Clients -> ClientStates] /\ \A y \in Clients : XRefs(c'[y])
  BY <1>1, <1>2, ExceptRefs
<1>4. /\ snaps' \in Seq(Snapshots) /\ Len(snaps') \in Nat /\ Len(snaps') <= MaxSnaps
      /\ Grows /\ SnapRefs' /\ held' \subseteq 1 .. Len(snaps') /\ main' \in 1 .. Len(snaps')
  BY <1>1, PutDraftEffect
<1>5. remote' \in 1 .. Len(snaps') /\ side' \in 0 .. Len(snaps')
  BY <1>1, <1>4, StillBelow
<1>6. /\ meta' \in States \cup {None} /\ (meta' # None => StateRefs(meta'))
      /\ decided' \in [Paths -> Values \cup {Absent, None}] /\ kills' \in 0 .. MaxKills
  BY <1>1 DEF TInv, TypeOK, Refs
<1>7. main' \in 0 .. Len(snaps')
  BY <1>4
<1>8. QED
  BY <1>3, <1>4, <1>5, <1>6, <1>7, GrowingTInv, Zenon

LEMMA PublishDecisionTInv ==
    ASSUME TInv, NEW p \in Clients, PublishDecision(p)
    PROVE  TInv'
<1>1. /\ PutDraft(p) /\ side' = Target(p) /\ c' = [c EXCEPT ![p] = Idle]
      /\ decided' = [decided EXCEPT ![c[p].edit[1]] = c[p].edit[2]]
      /\ UNCHANGED <<remote, main, meta, kills>>
      /\ c[p].pc = "publish" /\ c[p].kind = "decide"
  BY DEF PublishDecision
<1>2. Idle \in ClientStates /\ XRefs(Idle)
  BY AfterWrite
<1>3. c' \in [Clients -> ClientStates] /\ \A y \in Clients : XRefs(c'[y])
  BY <1>1, <1>2, ExceptRefs
<1>4. /\ snaps' \in Seq(Snapshots) /\ Len(snaps') \in Nat /\ Len(snaps') <= MaxSnaps
      /\ Grows /\ SnapRefs' /\ held' \subseteq 1 .. Len(snaps') /\ side' \in 1 .. Len(snaps')
  BY <1>1, PutDraftEffect
<1>5. remote' \in 1 .. Len(snaps') /\ main' \in 0 .. Len(snaps')
  BY <1>1, <1>4, StillBelow
<1>6. /\ meta' \in States \cup {None} /\ (meta' # None => StateRefs(meta'))
      /\ kills' \in 0 .. MaxKills
  BY <1>1 DEF TInv, TypeOK, Refs
<1>7. decided' \in [Paths -> Values \cup {Absent, None}]
  <2>1. c[p].edit \in Edits
    BY <1>1, ClientType
  <2>2. c[p].edit[2] \in Values \cup {Absent}
    BY <2>1 DEF Edits
  <2>3. decided \in [Paths -> Values \cup {Absent, None}]
    BY DEF TInv, TypeOK
  <2>4. QED
    BY <1>1, <2>2, <2>3
<1>8. side' \in 0 .. Len(snaps')
  BY <1>4
<1>9. QED
  BY <1>3, <1>4, <1>5, <1>6, <1>7, <1>8, GrowingTInv, Zenon

LEMMA OpenSideTInv ==
    ASSUME TInv, NEW p \in Clients, OpenSide(p)
    PROVE  TInv'
<1>1. /\ PutDraft(p) /\ side' = Target(p) /\ c' = [c EXCEPT ![p] = SignalState(p)]
      /\ UNCHANGED <<remote, main, meta, decided, kills>>
  BY DEF OpenSide, SignalState
<1>2. SignalState(p) \in ClientStates /\ XRefs(SignalState(p))
  BY AfterWrite
<1>3. c' \in [Clients -> ClientStates] /\ \A y \in Clients : XRefs(c'[y])
  BY <1>1, <1>2, ExceptRefs
<1>4. /\ snaps' \in Seq(Snapshots) /\ Len(snaps') \in Nat /\ Len(snaps') <= MaxSnaps
      /\ Grows /\ SnapRefs' /\ held' \subseteq 1 .. Len(snaps') /\ side' \in 1 .. Len(snaps')
  BY <1>1, PutDraftEffect
<1>5. remote' \in 1 .. Len(snaps') /\ main' \in 0 .. Len(snaps')
  BY <1>1, <1>4, StillBelow
<1>6. /\ meta' \in States \cup {None} /\ (meta' # None => StateRefs(meta'))
      /\ decided' \in [Paths -> Values \cup {Absent, None}] /\ kills' \in 0 .. MaxKills
  BY <1>1 DEF TInv, TypeOK, Refs
<1>7. side' \in 0 .. Len(snaps')
  BY <1>4
<1>8. QED
  BY <1>3, <1>4, <1>5, <1>6, <1>7, GrowingTInv, Zenon

LEMMA EndingsTInv ==
    ASSUME TInv, NEW p \in Clients, Signal(p) \/ Unsignal(p) \/ DropSide(p) \/ Stop(p)
    PROVE  TInv'
<1>1. /\ UNCHANGED <<snaps, held, remote, main>>
      /\ meta' \in {meta, c[p].st, None} /\ side' \in {side, 0}
      /\ decided' \in {decided, Undecided}
      /\ (kills' = kills \/ (kills < MaxKills /\ kills' = kills + 1))
  <2>1. UNCHANGED <<snaps, held, remote, main>>
    BY DEF Signal, Unsignal, DropSide, Stop
  <2>2. meta' \in {meta, c[p].st, None}
    BY DEF Signal, Unsignal, DropSide, Stop
  <2>3. side' \in {side, 0} /\ decided' \in {decided, Undecided}
    BY DEF Signal, Unsignal, DropSide, Stop
  <2>4. kills' = kills \/ (kills < MaxKills /\ kills' = kills + 1)
    BY DEF Signal, Unsignal, DropSide, Stop
  <2>5. QED
    BY <2>1, <2>2, <2>3, <2>4, Zenon
<1>2. c \in [Clients -> ClientStates] /\ c[p] \in ClientStates
  BY ClientType
<1>3. \E y \in ClientStates : XRefs(y) /\ c' = [c EXCEPT ![p] = y]
  <2>1. CASE Unsignal(p)
    <3> DEFINE y == [c[p] EXCEPT !.pc = "drop"]
    <3>1. c' = [c EXCEPT ![p] = y] /\ c[p].pc = "unsignal"
      BY <1>2, <2>1 DEF Unsignal
    <3>2. y \in ClientStates
      BY <1>2 DEF ClientStates
    <3>3. /\ y.pc = "drop" /\ y.kind = c[p].kind /\ y.st = c[p].st /\ y.snap = c[p].snap
          /\ y.draft = c[p].draft /\ y.edit = c[p].edit
      BY <1>2 DEF ClientStates
    <3> HIDE DEF y
    <3>4. XRefs(c[p])
      BY ClientRefsX DEF TInv, Refs
    <3>5. XRefs(y)
      BY <3>1, <3>3, <3>4 DEF XRefs
    <3>6. QED
      BY <3>1, <3>2, <3>5
  <2>2. CASE c' = [c EXCEPT ![p] = Idle]
    BY <2>2, AfterWrite
  <2>3. QED
    BY <2>1, <2>2 DEF Signal, DropSide, Stop
<1>4. c' \in [Clients -> ClientStates] /\ \A y \in Clients : XRefs(c'[y])
  BY <1>3, ExceptRefs
<1>5. snaps' \in Seq(Snapshots) /\ Len(snaps') <= MaxSnaps /\ Grows /\ SnapRefs'
  BY <1>1, SameSnapshots
<1>6. /\ held' \subseteq 1 .. Len(snaps') /\ remote' \in 1 .. Len(snaps')
      /\ main' \in 0 .. Len(snaps') /\ side' \in 0 .. Len(snaps')
  BY <1>1, HeadTypes
<1>7. meta' \in States \cup {None} /\ (meta' # None => StateRefs(meta'))
  BY <1>1, HeadTypes, ClientType
<1>8. decided' \in [Paths -> Values \cup {Absent, None}]
  BY <1>1, SentinelTypes DEF TInv, TypeOK
<1>9. kills' \in 0 .. MaxKills
  BY <1>1, BoundsAssumption DEF TInv, TypeOK
<1>10. QED
  BY <1>4, <1>5, <1>6, <1>7, <1>8, <1>9, GrowingTInv, Zenon

LEMMA PushEffect ==
    ASSUME TInv, NEW e \in Edits, Push(e)
    PROVE  /\ UNCHANGED <<held, main, side, meta, c, decided, kills>>
           /\ snaps' \in Seq(Snapshots) /\ Len(snaps') = Len(snaps) + 1
           /\ Len(snaps') <= MaxSnaps /\ Grows /\ SnapRefs' /\ remote' = Len(snaps')
<1> DEFINE d == Draft(Changed(Tree(remote), e), remote, 0, FALSE)
<1>1. /\ Room /\ snaps' = Append(snaps, Recorded(d)) /\ remote' = Len(snaps) + 1
      /\ UNCHANGED <<held, main, side, meta, c, decided, kills>>
  BY DEF Push
<1>2. Len(snaps) \in Nat /\ MaxSnaps \in Nat /\ remote \in 0 .. Len(snaps) /\ 0 \in 0 .. Len(snaps)
  BY HeadTypes, BoundsAssumption
<1>3. Len(snaps) < MaxSnaps
  <2>1. Writing \subseteq Clients /\ IsFiniteSet(Clients)
    BY ClientsAssumption DEF Writing
  <2>2. Cardinality(Writing) \in Nat
    BY <2>1, FS_Subset, FS_CardinalityType
  <2>3. QED
    BY <1>1, <1>2, <2>2 DEF Room
<1>4. Changed(Tree(remote), e) \in Trees
  BY <1>2, TreeType, TreeOperatorsType
<1>5. d \in Drafts /\ d.first = remote /\ d.second = 0
  BY <1>2, <1>4, DraftType, Zenon
<1> HIDE DEF d
<1>6. snaps' \in Seq(Snapshots) /\ Len(snaps') = Len(snaps) + 1 /\ Grows /\ SnapRefs'
  BY <1>1, <1>2, <1>3, <1>5, AppendEffect
<1>7. Len(snaps') <= MaxSnaps
  BY <1>2, <1>3, <1>6
<1>8. QED
  BY <1>1, <1>6, <1>7

LEMMA PushTInv ==
    ASSUME TInv, NEW e \in Edits, Push(e)
    PROVE  TInv'
<1>1. /\ UNCHANGED <<held, main, side, meta, c, decided, kills>>
      /\ snaps' \in Seq(Snapshots) /\ Len(snaps') = Len(snaps) + 1
      /\ Len(snaps') <= MaxSnaps /\ Grows /\ SnapRefs' /\ remote' = Len(snaps')
  BY PushEffect
<1>2. Len(snaps') \in Nat /\ remote' \in 1 .. Len(snaps')
  BY <1>1, HeadTypes
<1>3. /\ held' \subseteq 1 .. Len(snaps') /\ main' \in 0 .. Len(snaps')
      /\ side' \in 0 .. Len(snaps')
  BY <1>1, <1>2, StillBelow
<1>4. /\ meta' \in States \cup {None} /\ (meta' # None => StateRefs(meta'))
      /\ decided' \in [Paths -> Values \cup {Absent, None}] /\ kills' \in 0 .. MaxKills
      /\ c' \in [Clients -> ClientStates]
  BY <1>1 DEF TInv, TypeOK, Refs
<1>5. \A y \in Clients : XRefs(c'[y])
  BY <1>1, ClientRefsX DEF TInv, Refs
<1>6. QED
  BY <1>1, <1>2, <1>3, <1>4, <1>5, GrowingTInv, Zenon

(* A step that changes at most what is held.                                  *)
LEMMA HeldTInv ==
    ASSUME TInv, UNCHANGED <<snaps, remote, main, side, meta, c, decided, kills>>,
           held' \subseteq 1 .. Len(snaps)
    PROVE  TInv'
<1>1. snaps' \in Seq(Snapshots) /\ Len(snaps') <= MaxSnaps /\ Grows /\ SnapRefs'
  BY SameSnapshots
<1>2. /\ held' \subseteq 1 .. Len(snaps') /\ remote' \in 1 .. Len(snaps')
      /\ main' \in 0 .. Len(snaps') /\ side' \in 0 .. Len(snaps')
  BY HeadTypes
<1>3. /\ meta' \in States \cup {None} /\ (meta' # None => StateRefs(meta'))
      /\ decided' \in [Paths -> Values \cup {Absent, None}] /\ kills' \in 0 .. MaxKills
      /\ c' \in [Clients -> ClientStates]
  BY DEF TInv, TypeOK, Refs
<1>4. \A y \in Clients : XRefs(c'[y])
  BY ClientRefsX DEF TInv, Refs
<1>5. QED
  BY <1>1, <1>2, <1>3, <1>4, GrowingTInv, Zenon

LEMMA GcTInv ==
    ASSUME TInv, Gc
    PROVE  TInv'
<1>1. /\ held' = Past(main) \cup Past(side)
      /\ UNCHANGED <<snaps, remote, main, side, meta, c, decided, kills>>
  BY DEF Gc
<1>2. held' \subseteq 1 .. Len(snaps)
  BY <1>1, HeadTypes, PastType
<1>3. QED
  BY <1>1, <1>2, HeldTInv

LEMMA InitTInv ==
    ASSUME Init
    PROVE  TInv
<1>1. PICK t \in Trees, u \in Trees : snaps = <<Root, Child(t, 2), Child(u, 3)>>
  BY DEF Init
<1>2. /\ remote = 3 /\ main \in {0, 1, 2} /\ side = 0 /\ meta = None /\ kills = 0
      /\ held = (IF main = 0 THEN {} ELSE snaps[main].past)
      /\ c = [p \in Clients |-> Idle] /\ decided = Undecided
  BY DEF Init
<1>3. MaxSnaps \in Nat /\ MaxSnaps >= 3 /\ MaxKills \in Nat
  BY BoundsAssumption
<1>4. /\ Len(snaps) = 3
      /\ snaps[1].past = {1} /\ snaps[2].past = {1, 2} /\ snaps[3].past = {1, 3}
      /\ snaps[1].basis = 0 /\ snaps[2].basis = 0 /\ snaps[3].basis = 0
  BY <1>1 DEF Root, Child
<1>5. snaps \in Seq(Snapshots)
  <2>1. /\ Empty \in Trees /\ 0 \in 0 .. MaxSnaps /\ 1 \in 0 .. MaxSnaps
        /\ {1} \in SUBSET SnapIds /\ {1, 2} \in SUBSET SnapIds /\ {1, 3} \in SUBSET SnapIds
    BY <1>3, SentinelTypes DEF SnapIds
  <2>2. Root \in Snapshots /\ Child(t, 2) \in Snapshots /\ Child(u, 3) \in Snapshots
    BY <2>1 DEF Root, Child, Snapshots
  <2>3. QED
    BY <1>1, <2>2
<1>6. held \subseteq {1, 2}
  BY <1>2, <1>4
<1>7. TypeOK
  <2>1. held \in SUBSET SnapIds /\ remote \in SnapIds
    BY <1>2, <1>3, <1>6 DEF SnapIds
  <2>2. main \in 0 .. MaxSnaps /\ side \in 0 .. MaxSnaps /\ kills \in 0 .. MaxKills
    BY <1>2, <1>3
  <2>3. c \in [Clients -> ClientStates] /\ decided \in [Paths -> Values \cup {Absent, None}]
    BY <1>2, SentinelTypes
  <2>4. QED
    BY <1>2, <1>3, <1>4, <1>5, <2>1, <2>2, <2>3 DEF TypeOK
<1>8. SnapRefs
  BY <1>4 DEF SnapRefs
<1>9. HeadRefs
  BY <1>2, <1>4, <1>6 DEF HeadRefs
<1>10. XRefs(Idle)
  BY <1>4 DEF XRefs, Idle, NoDraft, Draft, NoState, StateRefs
<1>11. ClientRefs
  BY <1>2, <1>10, ClientRefsX
<1>12. QED
  BY <1>2, <1>7, <1>8, <1>9, <1>11 DEF TInv, Refs

LEMMA NextTInv ==
    ASSUME TInv, [Next]_vars
    PROVE  TInv'
<1>1. ASSUME NEW p \in Clients, ClientStep(p)
      PROVE  TInv'
  <2>1. CASE \/ BeginWrite(p) \/ BeginMerge(p) \/ BeginDecide(p)
             \/ BeginContinue(p) \/ BeginAbort(p)
    BY <2>1, BeginsTInv
  <2>2. CASE ReadSet(p) \/ ReadDecide(p)
    <3>1. main \in 0 .. Len(snaps) /\ side \in 0 .. Len(snaps)
      BY HeadTypes
    <3>2. CASE ReadSet(p)
      BY <3>1, <3>2, ReadEditTInv DEF ReadSet, Reading
    <3>3. CASE ReadDecide(p)
      BY <3>1, <3>3, ReadEditTInv DEF ReadDecide, Reading
    <3>4. QED
      BY <2>2, <3>2, <3>3
  <2>3. CASE ReadPull(p) \/ ReadReset(p) \/ ReadMerge(p) \/ ReadContinue(p)
    BY <2>3, ReadPullTInv, ReadResetTInv, ReadMergeTInv, ReadContinueTInv
  <2>4. CASE Publish(p) \/ PublishDecision(p) \/ OpenSide(p)
    BY <2>4, PublishTInv, PublishDecisionTInv, OpenSideTInv
  <2>5. CASE Signal(p) \/ Unsignal(p) \/ DropSide(p) \/ Stop(p)
    BY <2>5, EndingsTInv
  <2>6. QED
    BY <1>1, <2>1, <2>2, <2>3, <2>4, <2>5 DEF ClientStep
<1>2. ASSUME NEW e \in Edits, Push(e)
      PROVE  TInv'
  BY <1>2, PushTInv
<1>3. CASE Gc
  BY <1>3, GcTInv
<1>4. CASE UNCHANGED vars
  <2>1. /\ UNCHANGED <<snaps, remote, main, side, meta, c, decided, kills>> /\ held' = held
    BY <1>4 DEF vars
  <2>2. held' \subseteq 1 .. Len(snaps)
    BY <2>1, HeadTypes
  <2>3. QED
    BY <2>1, <2>2, HeldTInv
<1>5. QED
  BY <1>1, <1>2, <1>3, <1>4 DEF Next, Edits

(* Every variable keeps its type, and what is written with one snapshot in it *)
(* never names another that is not there: TInv is inductive.                  *)
THEOREM TypeCorrect == Spec => []TypeOK
<1>1. Init => TInv
  BY InitTInv
<1>2. TInv /\ [Next]_vars => TInv'
  BY NextTInv
<1>3. TInv => TypeOK
  BY DEF TInv
<1>4. QED
  BY <1>1, <1>2, <1>3, PTL DEF Spec

----------------------------------------------------------------------------
(* The merge state and the side branch.                                       *)

(* Snapshots never change, and with them all that is computed from snapshots  *)
(* that were there.                                                           *)
LEMMA StableOperators ==
    ASSUME TInv, Grows
    PROVE  /\ \A i \in 0 .. Len(snaps) : Tree(i)' = Tree(i) /\ Past(i)' = Past(i)
           /\ \A st : StateRefs(st) => Automatic(st)' = Automatic(st)
           /\ \A st, s : StateRefs(st) /\ s \in 0 .. Len(snaps) /\ Whole(st, s) => Whole(st, s)'
<1>1. ASSUME NEW i \in 0 .. Len(snaps)
      PROVE  Tree(i)' = Tree(i) /\ Past(i)' = Past(i)
  <2>1. i = 0 \/ snaps'[i] = snaps[i]
    BY DEF Grows
  <2>2. QED
    BY <2>1 DEF Tree, Past
<1>2. ASSUME NEW st, StateRefs(st)
      PROVE  Automatic(st)' = Automatic(st)
  <2>1. /\ st.base \in 0 .. Len(snaps) /\ st.ours \in 0 .. Len(snaps)
        /\ st.theirs \in 0 .. Len(snaps)
    BY <1>2 DEF StateRefs
  <2>2. /\ Tree(st.base)' = Tree(st.base) /\ Tree(st.ours)' = Tree(st.ours)
        /\ Tree(st.theirs)' = Tree(st.theirs)
    BY <1>1, <2>1
  <2>3. QED
    BY <2>2 DEF Automatic
<1>3. ASSUME NEW st, NEW s, StateRefs(st), s \in 0 .. Len(snaps), Whole(st, s)
      PROVE  Whole(st, s)'
  <2>1. s \in 1 .. Len(snaps)
    BY <1>3 DEF Whole
  <2>2. snaps[s].basis \in 1 .. Len(snaps)
    BY <1>3, <2>1, SnapshotType DEF Whole
  <2>3. snaps'[s] = snaps[s] /\ snaps'[snaps[s].basis] = snaps[snaps[s].basis]
    BY <2>1, <2>2 DEF Grows
  <2>4. Automatic(st)' = Automatic(st)
    BY <1>2, <1>3
  <2>5. QED
    BY <1>3, <2>3, <2>4 DEF Whole
<1>4. QED
  BY <1>1, <1>2, <1>3

(* A promise is kept while the state, the side branch and the client stay.    *)
LEMMA PromiseKept ==
    ASSUME TInv, Grows, NEW p \in Clients, MergerOf(p), c'[p] = c[p], UNCHANGED <<meta, side>>
    PROVE  MergerOf(p)'
<1>1. PICK st \in States, s \in 0 .. Len(snaps) : st = c[p].st /\ s = side /\ StateRefs(st)
  BY ClientType, HeadTypes
<1>2. /\ Tree(s)' = Tree(s) /\ Automatic(st)' = Automatic(st)
      /\ (Whole(st, s) => Whole(st, s)')
  BY <1>1, StableOperators
<1>3. Tree(side)' = Tree(s)' /\ Automatic(c[p].st)' = Automatic(st)'
  BY <1>1 DEF Tree, Automatic
<1>4. (Whole(c[p].st, side) <=> Whole(st, s)) /\ (Whole(c[p].st, side)' <=> Whole(st, s)')
  BY <1>1 DEF Whole, Automatic, Tree
<1>5. Tree(side) = Tree(s) /\ Automatic(c[p].st) = Automatic(st)
  BY <1>1
<1> DEFINE based == c[p].draft.base
<1>6. c'[p].draft.base <=> based
  OBVIOUS
<1>7. QED
  BY <1>1, <1>2, <1>3, <1>4, <1>5, <1>6 DEF MergerOf

LEMMA StateInvKept ==
    ASSUME TInv, Grows, StateInv, UNCHANGED <<meta, side, decided>>
    PROVE  StateInv'
<1> SUFFICES ASSUME meta # None
             PROVE  Whole(meta, side)' /\ Tree(side)' = Decided(meta)'
  BY DEF StateInv
<1>1. PICK st \in States, s \in 0 .. Len(snaps) : st = meta /\ s = side /\ StateRefs(st)
  BY HeadTypes
<1>2. /\ Tree(s)' = Tree(s) /\ Automatic(st)' = Automatic(st)
      /\ (Whole(st, s) => Whole(st, s)')
  BY <1>1, StableOperators
<1>3. Whole(st, s) /\ Tree(s) = Decided(st)
  BY <1>1 DEF StateInv
<1>4. Decided(st)' = Decided(st)
  BY <1>2 DEF Decided
<1>5. Whole(meta, side)' <=> Whole(st, s)'
  BY <1>1 DEF Whole, Automatic, Tree
<1>6. Tree(side)' = Tree(s)' /\ Decided(meta)' = Decided(st)'
  BY <1>1 DEF Tree, Decided, Automatic
<1>7. QED
  BY <1>2, <1>3, <1>4, <1>5, <1>6

LEMMA OneMergerKept ==
    ASSUME OneMerger, NEW p \in Clients, OthersSame(p), Merging(p)' => Merging(p)
    PROVE  OneMerger'
BY DEF OneMerger, OthersSame, Merging

(* A step that leaves the merge state and the side branch alone.              *)
LEMMA QuietMergerInv ==
    ASSUME TInv, MergerInv, Grows, UNCHANGED <<meta, side, decided>>,
           NEW p \in Clients, OthersSame(p), MergerOf(p)', OneMerger'
    PROVE  MergerInv'
<1>1. StateInv'
  BY StateInvKept DEF MergerInv
<1>2. ASSUME NEW y \in Clients, y # p
      PROVE  MergerOf(y)'
  BY <1>2, PromiseKept DEF MergerInv, OthersSame
<1>3. QED
  BY <1>1, <1>2 DEF MergerInv

(* A step of the one command that deals with the merge state: the others      *)
(* promise nothing of it.                                                     *)
LEMMA MergingMergerInv ==
    ASSUME TInv, TInv', MergerInv, NEW p \in Clients, Merging(p), OthersSame(p),
           Merging(p)' => MergerOf(p)', StateInv'
    PROVE  MergerInv'
<1>1. OneMerger'
  BY OneMergerKept DEF MergerInv
<1>2. ASSUME NEW y \in Clients
      PROVE  MergerOf(y)'
  <2>1. CASE Merging(y)'
    <3>1. y = p
      BY <2>1 DEF MergerInv, OneMerger, OthersSame, Merging
    <3>2. QED
      BY <2>1, <3>1
  <2>2. CASE ~ Merging(y)'
    <3>1. /\ (c'[y].pc \in {"open", "signal"} => c'[y].kind = "merge")
          /\ (c'[y].pc \in {"unsignal", "drop"} => c'[y].kind \in {"continue", "abort"})
      BY DEF TInv, Refs, ClientRefs
    <3>2. QED
      BY <2>2, <3>1 DEF MergerOf, Merging, Mergers
  <2>3. QED
    BY <2>1, <2>2
<1>3. QED
  BY <1>1, <1>2 DEF MergerInv

LEMMA IdlePromises ==
    ASSUME NEW p \in Clients, c'[p] = Idle
    PROVE  MergerOf(p)' /\ ~ Merging(p)'
<1>1. c'[p].pc = "idle" /\ c'[p].kind = "set"
  BY DEF Idle
<1>2. QED
  BY <1>1 DEF MergerOf, Merging

LEMMA BeginMergerInv ==
    ASSUME TInv, MergerInv, NEW p \in Clients, NEW k \in Kinds,
           NEW pc \in {"read", "unsignal"}, NEW edit, NEW st, Begin(p, k, pc, edit, st),
           k \in {"decide", "continue"} => meta # None /\ meta = st
    PROVE  MergerInv'
<1>1. /\ c[p].pc = "idle" /\ c'[p].pc = pc /\ c'[p].kind = k /\ c'[p].st = st
      /\ OthersSame(p) /\ LibrarySame
  BY BeginEffect
<1>2. Grows /\ UNCHANGED <<meta, side, decided>>
  BY <1>1, SameSnapshots DEF LibrarySame
<1>3. MergerOf(p)'
  BY <1>1, <1>2 DEF MergerOf
<1>4. OneMerger'
  <2>1. CASE k \in Mergers
    <3>1. \A x \in Clients : ~ Merging(x)
      BY <2>1 DEF Begin, Merging, Direct, Mergers
    <3>2. \A x \in Clients : Merging(x)' => x = p
      BY <1>1, <3>1 DEF OthersSame, Merging
    <3>3. QED
      BY <3>2 DEF OneMerger
  <2>2. CASE k \notin Mergers
    <3>1. ~ Merging(p)'
      BY <1>1, <2>2 DEF Merging
    <3>2. QED
      BY <1>1, <3>1, OneMergerKept DEF MergerInv
  <2>3. QED
    BY <2>1, <2>2
<1>5. QED
  BY <1>1, <1>2, <1>3, <1>4, QuietMergerInv

LEMMA BeginsMergerInv ==
    ASSUME TInv, MergerInv, NEW p \in Clients,
           \/ BeginWrite(p) \/ BeginMerge(p) \/ BeginDecide(p)
           \/ BeginContinue(p) \/ BeginAbort(p)
    PROVE  MergerInv'
<1>1. CASE BeginWrite(p)
  <2>1. CASE \E e \in Edits : Begin(p, "set", "read", e, NoState)
    <3>1. PICK e \in Edits : Begin(p, "set", "read", e, NoState)
      BY <2>1
    <3>2. QED
      BY <3>1, BeginMergerInv DEF Kinds, Direct
  <2>2. CASE \E k \in {"pull", "reset"} : Begin(p, k, "read", <<>>, NoState)
    <3>1. PICK k \in {"pull", "reset"} : Begin(p, k, "read", <<>>, NoState)
      BY <2>2
    <3>2. k \in Kinds /\ k \notin {"decide", "continue"}
      BY DEF Kinds, Direct
    <3>3. QED
      BY <3>1, <3>2, BeginMergerInv
  <2>3. QED
    BY <1>1, <2>1, <2>2 DEF BeginWrite, Edits
<1>2. CASE BeginMerge(p)
  <2>1. Begin(p, "merge", "read", <<>>, NoState) /\ "merge" \in Kinds
    BY <1>2 DEF BeginMerge, Kinds, Mergers
  <2>2. QED
    BY <2>1, BeginMergerInv
<1>3. CASE BeginDecide(p)
  <2>1. PICK e \in Edits : Begin(p, "decide", "read", e, meta)
    BY <1>3 DEF BeginDecide, Edits
  <2>2. "decide" \in Kinds /\ meta # None
    BY <1>3 DEF BeginDecide, Kinds, Mergers
  <2>3. QED
    BY <2>1, <2>2, BeginMergerInv
<1>4. CASE BeginContinue(p)
  <2>1. Begin(p, "continue", "read", <<>>, meta) /\ "continue" \in Kinds /\ meta # None
    BY <1>4 DEF BeginContinue, Kinds, Mergers
  <2>2. QED
    BY <2>1, BeginMergerInv
<1>5. CASE BeginAbort(p)
  <2>1. Begin(p, "abort", "unsignal", <<>>, meta) /\ "abort" \in Kinds
    BY <1>5 DEF BeginAbort, Kinds, Mergers
  <2>2. QED
    BY <2>1, BeginMergerInv
<1>6. QED
  BY <1>1, <1>2, <1>3, <1>4, <1>5

(* A read of the library that decides what p is going to write.               *)
LEMMA GoesMergerInv ==
    ASSUME TInv, MergerInv, NEW p \in Clients, NEW pc \in {"publish", "open"},
           NEW draft, NEW snap, NEW st,
           Goes(p, pc, draft, snap, st), c[p].pc = "read", MergerOf(p)'
    PROVE  MergerInv'
<1>1. /\ c'[p].pc = pc /\ c'[p].kind = c[p].kind /\ OthersSame(p) /\ LibrarySame
  BY GoesEffect
<1>2. Grows /\ UNCHANGED <<meta, side, decided>>
  BY <1>1, SameSnapshots DEF LibrarySame
<1>3. OneMerger'
  BY <1>1, OneMergerKept DEF Merging, MergerInv
<1>4. QED
  BY <1>1, <1>2, <1>3, QuietMergerInv

(* A client that ends and leaves the merge state and the side branch alone.   *)
LEMMA EndsMergerInv ==
    ASSUME TInv, MergerInv, NEW p \in Clients, c' = [c EXCEPT ![p] = Idle], Grows,
           UNCHANGED <<meta, side, decided>>
    PROVE  MergerInv'
<1>1. c'[p] = Idle /\ OthersSame(p)
  BY DEF TInv, TypeOK, OthersSame
<1>2. MergerOf(p)' /\ ~ Merging(p)'
  BY <1>1, IdlePromises
<1>3. OneMerger'
  BY <1>1, <1>2, OneMergerKept DEF MergerInv
<1>4. QED
  BY <1>1, <1>2, <1>3, QuietMergerInv

LEMMA GiveUpMergerInv ==
    ASSUME TInv, MergerInv, NEW p \in Clients, GiveUp(p)
    PROVE  MergerInv'
<1>1. c' = [c EXCEPT ![p] = Idle] /\ LibrarySame
  BY GiveUpEffect
<1>2. Grows /\ UNCHANGED <<meta, side, decided>>
  BY <1>1, SameSnapshots DEF LibrarySame
<1>3. QED
  BY <1>1, <1>2, EndsMergerInv

LEMMA ReadSetMergerInv ==
    ASSUME TInv, MergerInv, NEW p \in Clients, ReadSet(p)
    PROVE  MergerInv'
<1> DEFINE d == Draft(Changed(Tree(main), c[p].edit), main, 0, FALSE)
<1>1. /\ c[p].pc = "read" /\ c[p].kind = "set"
      /\ (GiveUp(p) \/ Goes(p, "publish", d, 0, c[p].st))
  BY DEF ReadSet, Reading, ReadEdit
<1> HIDE DEF d
<1>2. CASE GiveUp(p)
  BY <1>2, GiveUpMergerInv
<1>3. CASE Goes(p, "publish", d, 0, c[p].st)
  <2>1. c'[p].pc = "publish" /\ c'[p].kind = "set"
    BY <1>1, <1>3, GoesEffect
  <2>2. MergerOf(p)'
    BY <2>1 DEF MergerOf
  <2>3. QED
    BY <1>1, <1>3, <2>2, GoesMergerInv
<1>4. QED
  BY <1>1, <1>2, <1>3

LEMMA ReadDecideMergerInv ==
    ASSUME TInv, MergerInv, NEW p \in Clients, ReadDecide(p)
    PROVE  MergerInv'
<1> DEFINE d == Draft(Changed(Tree(side), c[p].edit), side, 0, FALSE)
<1>1. /\ c[p].pc = "read" /\ c[p].kind = "decide"
      /\ (GiveUp(p) \/ Goes(p, "publish", d, 0, c[p].st))
  BY DEF ReadDecide, Reading, ReadEdit
<1>2. d.tree = Changed(Tree(side), c[p].edit) /\ d.first = side /\ ~ d.base
  BY DEF Draft
<1> HIDE DEF d
<1>3. CASE GiveUp(p)
  BY <1>3, GiveUpMergerInv
<1>4. CASE Goes(p, "publish", d, 0, c[p].st)
  <2>0. /\ c'[p].pc = "publish" /\ c'[p].kind = c[p].kind /\ c'[p].st = c[p].st
        /\ c'[p].edit = c[p].edit /\ c'[p].draft = d /\ c'[p].snap = 0
        /\ OthersSame(p) /\ LibrarySame /\ UNCHANGED kills
    BY <1>4, GoesEffect, Zenon
  <2>1. /\ c'[p].pc = "publish" /\ c'[p].kind = "decide" /\ c'[p].snap = 0
        /\ c'[p].draft = d /\ c'[p].edit = c[p].edit /\ LibrarySame
    BY <1>1, <2>0
  <2>2. meta # None
    BY <1>1 DEF MergerInv, MergerOf
  <2>3. Tree(side)' = Tree(side) /\ meta' = meta /\ side' = side
    BY <2>1 DEF LibrarySame, Tree
  <2>4. MergerOf(p)'
    BY <1>2, <2>1, <2>2, <2>3 DEF MergerOf
  <2>5. QED
    BY <1>1, <1>4, <2>4, GoesMergerInv
<1>5. QED
  BY <1>1, <1>3, <1>4

LEMMA ReadDirectMergerInv ==
    ASSUME TInv, MergerInv, NEW p \in Clients, ReadPull(p) \/ ReadReset(p)
    PROVE  MergerInv'
<1>1. /\ c[p].pc = "read" /\ c[p].kind \in {"pull", "reset"}
      /\ (GiveUp(p) \/ \E i : Goes(p, "publish", NoDraft, i, NoState))
  BY DEF ReadPull, ReadReset, Reading
<1>2. CASE GiveUp(p)
  BY <1>2, GiveUpMergerInv
<1>3. ASSUME NEW i, Goes(p, "publish", NoDraft, i, NoState)
      PROVE  MergerInv'
  <2>1. c'[p].pc = "publish" /\ c'[p].kind \in {"pull", "reset"}
    BY <1>1, <1>3, GoesEffect
  <2>2. MergerOf(p)'
    BY <2>1 DEF MergerOf
  <2>3. QED
    BY <1>1, <1>3, <2>2, GoesMergerInv
<1>4. QED
  BY <1>1, <1>2, <1>3

LEMMA ReadMergeMergerInv ==
    ASSUME TInv, MergerInv, NEW p \in Clients, ReadMerge(p)
    PROVE  MergerInv'
<1> DEFINE d1 == Draft(MergedTree, main, remote, FALSE)
           d2 == Draft(MergedTree, main, 0, TRUE)
<1>1. /\ c[p].pc = "read" /\ c[p].kind = "merge"
      /\ \/ GiveUp(p)
         \/ Goes(p, "publish", NoDraft, remote, NoState)
         \/ Goes(p, "publish", d1, 0, NoState)
         \/ /\ meta = None /\ main # 0
            /\ Goes(p, "open", d2, 0, MergedState)
  BY ReadMergeOutcomes
<1>2. d2.tree = MergedTree /\ d2.first = main /\ d2.base
  BY DEF Draft
<1> HIDE DEF d1, d2
<1>3. CASE GiveUp(p)
  BY <1>3, GiveUpMergerInv
<1>4. ASSUME NEW d, NEW i, Goes(p, "publish", d, i, NoState)
      PROVE  MergerInv'
  <2>1. c'[p].pc = "publish" /\ c'[p].kind = "merge"
    BY <1>1, <1>4, GoesEffect
  <2>2. MergerOf(p)'
    BY <2>1 DEF MergerOf
  <2>3. QED
    BY <1>1, <1>4, <2>2, GoesMergerInv
<1>5. CASE meta = None /\ main # 0 /\ Goes(p, "open", d2, 0, MergedState)
  <2>0. /\ c'[p].pc = "open" /\ c'[p].kind = c[p].kind /\ c'[p].st = MergedState
        /\ c'[p].edit = c[p].edit /\ c'[p].draft = d2 /\ c'[p].snap = 0
        /\ OthersSame(p) /\ LibrarySame /\ UNCHANGED kills
    BY <1>5, GoesEffect, Zenon
  <2>1. /\ c'[p].pc = "open" /\ c'[p].kind = "merge" /\ c'[p].snap = 0
        /\ c'[p].draft = d2 /\ c'[p].st = MergedState /\ LibrarySame
    BY <1>1, <2>0
  <2>2. PICK st : st = MergedState
    OBVIOUS
  <2>3. StateRefs(st) /\ st.ours = main /\ MergedTree = Automatic(st)
    BY <1>5, <2>2, MergedTypes DEF StateRefs, Automatic
  <2>4. Automatic(st)' = Automatic(st)
    BY <2>1 DEF Automatic, Tree, LibrarySame
  <2>5. Automatic(c[p].st)' = Automatic(st)'
    BY <2>1, <2>2 DEF Automatic, Tree
  <2>6. meta' = None
    BY <1>5, <2>1 DEF LibrarySame
  <2>7. MergerOf(p)'
    BY <1>2, <2>1, <2>2, <2>3, <2>4, <2>5, <2>6 DEF MergerOf
  <2>8. QED
    BY <1>1, <1>5, <2>7, GoesMergerInv
<1>6. QED
  BY <1>1, <1>3, <1>4, <1>5

LEMMA ReadContinueMergerInv ==
    ASSUME TInv, MergerInv, NEW p \in Clients, ReadContinue(p)
    PROVE  MergerInv'
<1> DEFINE d == Draft(Tree(side), c[p].st.ours, c[p].st.theirs, FALSE)
<1>1. /\ c[p].pc = "read" /\ c[p].kind = "continue"
      /\ (GiveUp(p) \/ Goes(p, "publish", d, 0, c[p].st))
  BY ReadContinueOutcomes
<1>2. d.tree = Tree(side) /\ d.first = c[p].st.ours /\ d.second = c[p].st.theirs
  BY DEF Draft
<1> HIDE DEF d
<1>3. CASE GiveUp(p)
  BY <1>3, GiveUpMergerInv
<1>4. CASE Goes(p, "publish", d, 0, c[p].st)
  <2>0. /\ c'[p].pc = "publish" /\ c'[p].kind = c[p].kind /\ c'[p].st = c[p].st
        /\ c'[p].edit = c[p].edit /\ c'[p].draft = d /\ c'[p].snap = 0
        /\ OthersSame(p) /\ LibrarySame /\ UNCHANGED kills
    BY <1>4, GoesEffect, Zenon
  <2>1. /\ c'[p].pc = "publish" /\ c'[p].kind = "continue" /\ c'[p].snap = 0
        /\ c'[p].draft = d /\ c'[p].st = c[p].st /\ LibrarySame
    BY <1>1, <2>0
  <2>2. meta # None /\ meta = c[p].st
    BY <1>1 DEF MergerInv, MergerOf
  <2>3. Tree(side)' = Tree(side) /\ meta' = meta /\ side' = side
    BY <2>1 DEF LibrarySame, Tree
  <2>4. MergerOf(p)'
    BY <1>2, <2>1, <2>2, <2>3 DEF MergerOf
  <2>5. QED
    BY <1>1, <1>4, <2>4, GoesMergerInv
<1>5. QED
  BY <1>1, <1>3, <1>4

LEMMA PublishMergerInv ==
    ASSUME TInv, MergerInv, NEW p \in Clients, Publish(p)
    PROVE  MergerInv'
<1>1. /\ PutDraft(p) /\ UNCHANGED <<meta, side, decided>> /\ c[p].pc = "publish"
      /\ c' = [c EXCEPT ![p] = IF c[p].kind = "continue" THEN UnsignalState(p) ELSE Idle]
  BY DEF Publish, UnsignalState
<1>2. Grows
  BY <1>1, PutDraftEffect
<1>3. CASE c[p].kind = "continue"
  <2>1. c' = [c EXCEPT ![p] = UnsignalState(p)]
    BY <1>1, <1>3
  <2>2. /\ c'[p].pc = "unsignal" /\ c'[p].kind = "continue" /\ OthersSame(p)
    <3>1. UnsignalState(p).pc = "unsignal" /\ UnsignalState(p).kind = "continue"
      BY DEF UnsignalState, Idle
    <3>2. c'[p] = UnsignalState(p) /\ OthersSame(p)
      BY <2>1 DEF TInv, TypeOK, OthersSame
    <3>3. QED
      BY <3>1, <3>2
  <2>3. MergerOf(p)'
    BY <2>2 DEF MergerOf
  <2>4. OneMerger'
    BY <1>1, <1>3, <2>2, OneMergerKept DEF MergerInv, Merging, Mergers
  <2>5. QED
    BY <1>1, <1>2, <2>2, <2>3, <2>4, QuietMergerInv
<1>4. CASE c[p].kind # "continue"
  <2>1. c' = [c EXCEPT ![p] = Idle]
    BY <1>1, <1>4
  <2>2. QED
    BY <1>1, <1>2, <2>1, EndsMergerInv
<1>5. QED
  BY <1>3, <1>4

(* A decision builds on the side branch, whose base stays what it was.        *)
LEMMA PublishDecisionMergerInv ==
    ASSUME TInv, TInv', MergerInv, NEW p \in Clients, PublishDecision(p)
    PROVE  MergerInv'
<1>1. /\ PutDraft(p) /\ side' = Target(p) /\ c' = [c EXCEPT ![p] = Idle]
      /\ decided' = [decided EXCEPT ![c[p].edit[1]] = c[p].edit[2]]
      /\ meta' = meta /\ c[p].pc = "publish" /\ c[p].kind = "decide"
  BY DEF PublishDecision
<1>2. /\ meta # None /\ c[p].snap = 0 /\ ~ c[p].draft.base /\ c[p].draft.first = side
      /\ c[p].draft.tree = Changed(Tree(side), c[p].edit)
      /\ Whole(meta, side) /\ Tree(side) = Decided(meta)
  BY <1>1 DEF MergerInv, MergerOf, StateInv
<1>3. Grows
  BY <1>1, PutDraftEffect
<1>4. PICK st \in States : st = meta /\ StateRefs(st)
  BY <1>2, HeadTypes
<1>5. PICK s \in 1 .. Len(snaps) : s = side
  BY <1>2, HeadTypes DEF Whole
<1>6. PICK n : n = Len(snaps) + 1
  OBVIOUS
<1>7. /\ side' = n /\ snaps'[n].tree = Changed(Tree(s), c[p].edit)
      /\ snaps'[n].basis = snaps[s].basis
  <2>1. /\ Target(p) = Len(snaps) + 1 /\ Len(snaps') = Len(snaps) + 1
        /\ held' = held \cup {Len(snaps) + 1}
        /\ snaps'[Len(snaps) + 1].tree = c[p].draft.tree
        /\ snaps'[Len(snaps) + 1].first = c[p].draft.first
        /\ snaps'[Len(snaps) + 1].second = c[p].draft.second
        /\ snaps'[Len(snaps) + 1].past =
              {Len(snaps) + 1} \cup Past(c[p].draft.first) \cup Past(c[p].draft.second)
        /\ snaps'[Len(snaps) + 1].basis =
              (IF c[p].draft.base THEN Len(snaps) + 1
               ELSE IF c[p].draft.first = 0 THEN 0 ELSE snaps[c[p].draft.first].basis)
    BY <1>1, <1>2, PutDraftNew, Zenon
  <2>2. snaps'[Len(snaps) + 1].basis =
           (IF c[p].draft.first = 0 THEN 0 ELSE snaps[c[p].draft.first].basis)
    BY <1>2, <2>1, Zenon
  <2>3. s # 0
    OBVIOUS
  <2>4. QED
    BY <1>1, <1>2, <1>5, <1>6, <2>1, <2>2, <2>3
<1>8. n # 0 /\ n \in Nat
  BY <1>6, HeadTypes
<1>9. Whole(st, s)'
  <2>1. Whole(st, s) <=> Whole(meta, side)
    BY <1>4, <1>5 DEF Whole, Automatic, Tree
  <2>2. s \in 0 .. Len(snaps)
    OBVIOUS
  <2>3. QED
    BY <1>2, <1>3, <1>4, <2>1, <2>2, StableOperators
<1>10. Whole(st, n)'
  BY <1>3, <1>7, <1>8, <1>9 DEF Whole, Grows
<1>11. Tree(n)' = Decided(st)'
  <2>1. Tree(n)' = Changed(Tree(s), c[p].edit)
    BY <1>7, <1>8 DEF Tree
  <2>2. Tree(s) = Decided(st)
    BY <1>2, <1>4, <1>5 DEF Decided
  <2>3. Automatic(st)' = Automatic(st)
    BY <1>3, <1>4, StableOperators
  <2>4. PICK e \in Edits : e = c[p].edit
    BY <1>1, ClientType
  <2>5. e[1] \in Paths /\ e[2] \in Values \cup {Absent} /\ e[2] # None
    BY SentinelAssumption DEF Edits
  <2>6. decided \in [Paths -> Values \cup {Absent, None}]
    BY DEF TInv, TypeOK
  <2> DEFINE a == Automatic(st)
  <2> HIDE DEF a
  <2>7. /\ Decided(st) = [q \in Paths |-> IF decided[q] = None THEN a[q] ELSE decided[q]]
        /\ Decided(st)' = [q \in Paths |-> IF decided'[q] = None THEN a[q] ELSE decided'[q]]
    BY <2>3 DEF Decided, a
  <2>8. decided' = [decided EXCEPT ![e[1]] = e[2]]
    BY <1>1, <2>4
  <2>9. Decided(st)' = [Decided(st) EXCEPT ![e[1]] = e[2]]
    BY <2>5, <2>6, <2>7, <2>8
  <2>10. QED
    BY <2>1, <2>2, <2>4, <2>9 DEF Changed
<1>12. StateInv'
  <2>1. Whole(meta, side)' <=> Whole(st, n)'
    BY <1>1, <1>4, <1>7 DEF Whole, Automatic, Tree
  <2>2. Tree(side)' = Tree(n)' /\ Decided(meta)' = Decided(st)'
    BY <1>1, <1>4, <1>7 DEF Tree, Decided, Automatic
  <2>3. QED
    BY <1>10, <1>11, <2>1, <2>2 DEF StateInv
<1>13. c'[p] = Idle /\ OthersSame(p)
  BY <1>1 DEF TInv, TypeOK, OthersSame
<1>14. Merging(p) /\ ~ Merging(p)'
  BY <1>1, <1>13, IdlePromises DEF Merging, Mergers
<1>15. QED
  BY <1>12, <1>13, <1>14, MergingMergerInv

(* The side branch is opened on the automatic merge.                          *)
LEMMA OpenSideMergerInv ==
    ASSUME TInv, TInv', MergerInv, NEW p \in Clients, OpenSide(p)
    PROVE  MergerInv'
<1>1. /\ PutDraft(p) /\ side' = Target(p) /\ c' = [c EXCEPT ![p] = SignalState(p)]
      /\ meta' = meta /\ c[p].pc = "open"
  BY DEF OpenSide, SignalState
<1>2. /\ meta = None /\ c[p].snap = 0 /\ c[p].draft.base
      /\ c[p].draft.first = c[p].st.ours /\ c[p].draft.tree = Automatic(c[p].st)
  BY <1>1 DEF MergerInv, MergerOf
<1>3. PICK st \in States : st = c[p].st /\ StateRefs(st)
  BY ClientType
<1>4. PICK n : n = Len(snaps) + 1
  OBVIOUS
<1>5. /\ side' = n /\ snaps'[n].tree = Automatic(st) /\ snaps'[n].first = st.ours
      /\ snaps'[n].basis = n
  <2>1. /\ Target(p) = Len(snaps) + 1 /\ Len(snaps') = Len(snaps) + 1
        /\ held' = held \cup {Len(snaps) + 1}
        /\ snaps'[Len(snaps) + 1].tree = c[p].draft.tree
        /\ snaps'[Len(snaps) + 1].first = c[p].draft.first
        /\ snaps'[Len(snaps) + 1].second = c[p].draft.second
        /\ snaps'[Len(snaps) + 1].past =
              {Len(snaps) + 1} \cup Past(c[p].draft.first) \cup Past(c[p].draft.second)
        /\ snaps'[Len(snaps) + 1].basis =
              (IF c[p].draft.base THEN Len(snaps) + 1
               ELSE IF c[p].draft.first = 0 THEN 0 ELSE snaps[c[p].draft.first].basis)
    BY <1>1, <1>2, PutDraftNew, Zenon
  <2>2. snaps'[Len(snaps) + 1].basis = Len(snaps) + 1
    BY <1>2, <2>1, Zenon
  <2>3. QED
    BY <1>1, <1>2, <1>3, <1>4, <2>1, <2>2
<1>6. n # 0 /\ Automatic(st)' = Automatic(st)
  <2>1. Grows
    BY <1>1, PutDraftEffect
  <2>2. QED
    BY <1>3, <1>4, <2>1, HeadTypes, StableOperators
<1>7. Whole(st, n)' /\ Tree(n)' = Automatic(st)'
  BY <1>5, <1>6 DEF Whole, Tree
<1>8. /\ c'[p].pc = "signal" /\ c'[p].kind = "merge" /\ c'[p].st = st /\ OthersSame(p)
  <2>1. /\ SignalState(p).pc = "signal" /\ SignalState(p).kind = "merge"
        /\ SignalState(p).st = st
    BY <1>3 DEF SignalState, Idle
  <2>2. c'[p] = SignalState(p) /\ OthersSame(p)
    BY <1>1 DEF TInv, TypeOK, OthersSame
  <2>3. QED
    BY <2>1, <2>2
<1>9. MergerOf(p)'
  <2>1. Whole(c[p].st, side)' <=> Whole(st, n)'
    BY <1>5, <1>8 DEF Whole, Automatic, Tree
  <2>2. Tree(side)' = Tree(n)' /\ Automatic(c[p].st)' = Automatic(st)'
    BY <1>5, <1>8 DEF Tree, Automatic
  <2>3. meta' = None
    BY <1>1, <1>2
  <2>4. QED
    BY <1>7, <1>8, <2>1, <2>2, <2>3 DEF MergerOf
<1>10. StateInv'
  BY <1>1, <1>2 DEF StateInv
<1>11. Merging(p)
  BY <1>1 DEF TInv, Refs, ClientRefs, Merging, Mergers
<1>12. QED
  BY <1>8, <1>9, <1>10, <1>11, MergingMergerInv

LEMMA EndingsMergerInv ==
    ASSUME TInv, TInv', MergerInv, NEW p \in Clients, Signal(p) \/ Unsignal(p) \/ DropSide(p)
    PROVE  MergerInv'
<1>1. /\ c[p].pc \in {"signal", "unsignal", "drop"} /\ OthersSame(p)
      /\ (c'[p] = Idle \/ (Unsignal(p) /\ c'[p].pc = "drop"))
  <2>1. c \in [Clients -> ClientStates] /\ c[p] \in ClientStates
    BY ClientType
  <2>2. CASE Unsignal(p)
    <3>1. c' = [c EXCEPT ![p] = [c[p] EXCEPT !.pc = "drop"]] /\ c[p].pc = "unsignal"
      BY <2>1, <2>2 DEF Unsignal
    <3>2. [c[p] EXCEPT !.pc = "drop"].pc = "drop"
      BY <2>1 DEF ClientStates
    <3>3. QED
      BY <2>1, <2>2, <3>1, <3>2 DEF OthersSame
  <2>3. CASE Signal(p) \/ DropSide(p)
    BY <2>1, <2>3 DEF Signal, DropSide, OthersSame
  <2>4. QED
    BY <2>2, <2>3
<1>2. Merging(p)
  BY <1>1 DEF TInv, Refs, ClientRefs, Merging, Mergers
<1>3. Merging(p)' => MergerOf(p)'
  <2>1. CASE c'[p] = Idle
    BY <2>1, IdlePromises
  <2>2. CASE Unsignal(p) /\ c'[p].pc = "drop"
    BY <2>2 DEF Unsignal, MergerOf
  <2>3. QED
    BY <1>1, <2>1, <2>2
<1>4. StateInv'
  <2>1. CASE Signal(p)
    <3>1. meta' = c[p].st /\ decided' = Undecided /\ UNCHANGED <<snaps, side>> /\ c[p].pc = "signal"
      BY <2>1 DEF Signal
    <3>2. Whole(c[p].st, side) /\ Tree(side) = Automatic(c[p].st)
      BY <3>1 DEF MergerInv, MergerOf
    <3>3. PICK st, s : st = c[p].st /\ s = side
      OBVIOUS
    <3>4. Whole(st, s) /\ Tree(s) = Automatic(st)
      BY <3>2, <3>3
    <3>5. Automatic(st) \in Trees
      BY <3>3, ClientType, AutomaticType
    <3>6. Automatic(st)' = Automatic(st) /\ Tree(s)' = Tree(s)
      BY <3>1 DEF Automatic, Tree
    <3>7. Whole(st, s)'
      BY <3>1, <3>4, <3>6 DEF Whole
    <3> DEFINE a == Automatic(st)
    <3> HIDE DEF a
    <3>8. Decided(st)' = [q \in Paths |-> IF Undecided[q] = None THEN a[q] ELSE Undecided[q]]
      BY <3>1, <3>6 DEF Decided, a
    <3>9. Decided(st)' = a
      BY <3>5, <3>8 DEF Undecided, Trees, a
    <3>10. Whole(meta, side)' <=> Whole(st, s)'
      BY <3>1, <3>3 DEF Whole, Automatic, Tree
    <3>11. Tree(side)' = Tree(s)' /\ Decided(meta)' = Decided(st)'
      BY <3>1, <3>3 DEF Tree, Decided, Automatic
    <3>12. QED
      BY <3>4, <3>6, <3>7, <3>9, <3>10, <3>11 DEF StateInv, a
  <2>2. CASE Unsignal(p) \/ DropSide(p)
    <3>1. meta' = None
      BY <2>2 DEF Unsignal, DropSide, MergerInv, MergerOf
    <3>2. QED
      BY <3>1 DEF StateInv
  <2>3. QED
    BY <2>1, <2>2
<1>5. QED
  BY <1>1, <1>2, <1>3, <1>4, MergingMergerInv

LEMMA ClientStepMergerInv ==
    ASSUME TInv, TInv', MergerInv, NEW p \in Clients, ClientStep(p)
    PROVE  MergerInv'
<1>1. CASE \/ BeginWrite(p) \/ BeginMerge(p) \/ BeginDecide(p)
           \/ BeginContinue(p) \/ BeginAbort(p)
  BY <1>1, BeginsMergerInv
<1>2. CASE ReadSet(p) \/ ReadDecide(p) \/ ReadPull(p) \/ ReadReset(p)
  BY <1>2, ReadSetMergerInv, ReadDecideMergerInv, ReadDirectMergerInv
<1>3. CASE ReadMerge(p) \/ ReadContinue(p)
  BY <1>3, ReadMergeMergerInv, ReadContinueMergerInv
<1>4. CASE Publish(p) \/ PublishDecision(p) \/ OpenSide(p)
  BY <1>4, PublishMergerInv, PublishDecisionMergerInv, OpenSideMergerInv
<1>5. CASE Signal(p) \/ Unsignal(p) \/ DropSide(p)
  BY <1>5, EndingsMergerInv
<1>6. CASE Stop(p)
  <2>1. c' = [c EXCEPT ![p] = Idle] /\ UNCHANGED <<snaps, meta, side, decided>>
    BY <1>6 DEF Stop
  <2>2. Grows
    BY <2>1, SameSnapshots
  <2>3. QED
    BY <2>1, <2>2, EndsMergerInv
<1>7. QED
  BY <1>1, <1>2, <1>3, <1>4, <1>5, <1>6 DEF ClientStep

LEMMA NextMergerInv ==
    ASSUME TInv, TInv', MergerInv, [Next]_vars
    PROVE  MergerInv'
<1>1. ASSUME Grows, UNCHANGED <<meta, side, decided, c>>
      PROVE  MergerInv'
  <2>1. StateInv'
    BY <1>1, StateInvKept DEF MergerInv
  <2>2. \A p \in Clients : MergerOf(p)'
    BY <1>1, PromiseKept DEF MergerInv
  <2>3. OneMerger'
    BY <1>1 DEF MergerInv, OneMerger, Merging
  <2>4. QED
    BY <2>1, <2>2, <2>3 DEF MergerInv
<1>2. CASE \E p \in Clients : ClientStep(p)
  BY <1>2, ClientStepMergerInv
<1>3. ASSUME NEW e \in Edits, Push(e)
      PROVE  MergerInv'
  <2>1. UNCHANGED <<meta, side, decided, c>> /\ Grows
    BY <1>3, PushEffect
  <2>2. QED
    BY <1>1, <2>1
<1>4. CASE Gc \/ UNCHANGED vars
  <2>1. UNCHANGED <<snaps, meta, side, decided, c>>
    BY <1>4 DEF Gc, vars
  <2>2. Grows
    BY <2>1, SameSnapshots
  <2>3. QED
    BY <1>1, <2>1, <2>2
<1>5. QED
  BY <1>2, <1>3, <1>4 DEF Next, Edits

LEMMA InitMergerInv ==
    ASSUME Init
    PROVE  MergerInv
<1>1. meta = None /\ \A p \in Clients : c[p].pc = "idle" /\ c[p].kind = "set"
  BY DEF Init, Idle
<1>2. QED
  BY <1>1 DEF MergerInv, OneMerger, Merging, StateInv, MergerOf

LEMMA MergerInvariant == Spec => [](TInv /\ MergerInv)
<1>1. Init => TInv /\ MergerInv
  BY InitTInv, InitMergerInv
<1>2. TInv /\ MergerInv /\ [Next]_vars => (TInv /\ MergerInv)'
  BY NextTInv, NextMergerInv
<1>3. QED
  BY <1>1, <1>2, PTL DEF Spec

(* However commands die, a merge under way has its side branch, and that      *)
(* starts from the automatic merge of the two heads the state names: a        *)
(* command that opens, decides on, continues or aborts a merge promises it    *)
(* while the others, which never deal with the state, only add snapshots.     *)
THEOREM StateStaysWhole == Spec => []StateIsWhole
<1>1. TInv /\ MergerInv => StateIsWhole
  BY DEF MergerInv, StateInv, Whole, StateIsWhole
<1>2. QED
  BY <1>1, MergerInvariant, PTL

(* Whatever a client does, it does to itself.                                 *)
LEMMA ClientStepLocal ==
    ASSUME TInv, NEW p \in Clients, ClientStep(p)
    PROVE  OthersSame(p)
<1>1. c \in [Clients -> ClientStates]
  BY ClientType
<1>2. ASSUME NEW x, c' = [c EXCEPT ![p] = x]
      PROVE  OthersSame(p)
  BY <1>1, <1>2 DEF OthersSame
<1>3. CASE \/ BeginWrite(p) \/ BeginMerge(p) \/ BeginDecide(p)
           \/ BeginContinue(p) \/ BeginAbort(p)
  BY <1>2, <1>3 DEF BeginWrite, BeginMerge, BeginDecide, BeginContinue, BeginAbort, Begin
<1>4. CASE ReadSet(p) \/ ReadDecide(p) \/ ReadPull(p) \/ ReadReset(p)
  BY <1>2, <1>4 DEF ReadSet, ReadDecide, ReadEdit, ReadPull, ReadReset, Goes, GiveUp
<1>5. CASE ReadMerge(p) \/ ReadContinue(p)
  BY <1>2, <1>5 DEF ReadMerge, ReadContinue, Goes, GiveUp
<1>6. CASE Publish(p) \/ PublishDecision(p) \/ OpenSide(p)
  BY <1>2, <1>6 DEF Publish, PublishDecision, OpenSide
<1>7. CASE Signal(p) \/ Unsignal(p) \/ DropSide(p) \/ Stop(p)
  BY <1>2, <1>7 DEF Signal, Unsignal, DropSide, Stop
<1>8. QED
  BY <1>3, <1>4, <1>5, <1>6, <1>7 DEF ClientStep

LEMMA ConcludingPublishes ==
    ASSUME TInv, Next, NEW p \in Clients, Concluding(p)
    PROVE  Publish(p)
<1>1. c[p].kind = "continue" /\ c[p].pc = "publish" /\ c'[p].pc = "unsignal"
  BY DEF Concluding
<1>2. c' # c
  BY <1>1
<1>3. PICK x \in Clients : ClientStep(x)
  BY <1>2 DEF Next, Push, Gc
<1>4. x = p
  BY <1>1, <1>3, ClientStepLocal DEF OthersSame
<1>5. ~ (\/ BeginWrite(p) \/ BeginMerge(p) \/ BeginDecide(p)
         \/ BeginContinue(p) \/ BeginAbort(p))
  BY <1>1 DEF BeginWrite, BeginMerge, BeginDecide, BeginContinue, BeginAbort, Begin
<1>6. ~ (\/ ReadSet(p) \/ ReadDecide(p) \/ ReadPull(p) \/ ReadReset(p)
         \/ ReadMerge(p) \/ ReadContinue(p))
  BY <1>1 DEF ReadSet, ReadDecide, ReadPull, ReadReset, ReadMerge, ReadContinue, Reading
<1>7. ~ (PublishDecision(p) \/ OpenSide(p) \/ Signal(p) \/ Unsignal(p) \/ DropSide(p))
  BY <1>1 DEF PublishDecision, OpenSide, Signal, Unsignal, DropSide
<1>8. ~ Stop(p)
  BY <1>1 DEF Stop, Idle, TInv, TypeOK
<1>9. QED
  BY <1>3, <1>4, <1>5, <1>6, <1>7, <1>8 DEF ClientStep

LEMMA ConcludingStep ==
    ASSUME TInv, MergerInv, Next, NEW p \in Clients, Concluding(p)
    PROVE  snaps'[main'].tree =
              [q \in Paths |-> IF decided[q] = None THEN Automatic(c[p].st)[q] ELSE decided[q]]
<1>1. /\ PutDraft(p) /\ main' = Target(p) /\ c[p].pc = "publish" /\ c[p].kind = "continue"
  BY ConcludingPublishes DEF Publish, Concluding
<1>2. /\ meta # None /\ meta = c[p].st /\ c[p].snap = 0 /\ c[p].draft.tree = Tree(side)
  BY <1>1 DEF MergerInv, MergerOf
<1>3. Tree(side) = Decided(meta)
  BY <1>2 DEF MergerInv, StateInv
<1>4. PICK st : st = c[p].st
  OBVIOUS
<1>5. Tree(side) = Decided(st)
  BY <1>2, <1>3, <1>4
<1>6. /\ Len(snaps) < MaxSnaps /\ snaps' = Append(snaps, Recorded(c[p].draft))
      /\ Target(p) = Len(snaps) + 1
  BY <1>1, <1>2 DEF PutDraft, Target
<1>7. snaps'[Len(snaps) + 1].tree = c[p].draft.tree
  BY <1>6, ClientType, AppendEffect
<1>8. snaps'[main'].tree = Decided(st)
  BY <1>1, <1>2, <1>5, <1>6, <1>7
<1>9. QED
  BY <1>4, <1>8 DEF Decided

(* With any number of clients, and whichever of them die, what                *)
(* `merge --continue` publishes is the three-way merge of the two heads with  *)
(* the last decision on each path: the tree of the side branch is that at all *)
(* times a merge is under way, and what is replayed of it is all of it.       *)
THEOREM ContinueStaysFaithful == Spec => ContinueIsFaithful
<1>1. TInv /\ MergerInv /\ [Next]_vars =>
        [\A p \in Clients : Concluding(p) =>
          snaps'[main'].tree =
              [q \in Paths |-> IF decided[q] = None THEN Automatic(c[p].st)[q] ELSE decided[q]]]_vars
  <2> SUFFICES ASSUME TInv, MergerInv, Next, NEW p \in Clients, Concluding(p)
               PROVE  snaps'[main'].tree =
              [q \in Paths |-> IF decided[q] = None THEN Automatic(c[p].st)[q] ELSE decided[q]]
    OBVIOUS
  <2>1. QED
    BY ConcludingStep
<1>2. QED
  BY <1>1, MergerInvariant, PTL DEF Spec, ContinueIsFaithful

----------------------------------------------------------------------------
(* The local store.                                                           *)

(* What is held stays held while nothing is collected.                        *)
LEMMA StaysCovered ==
    ASSUME TInv, Grows, held \subseteq held'
    PROVE  /\ Covered(0) /\ Covered(0)'
           /\ \A i \in 0 .. Len(snaps) : Covered(i) => Covered(i)'
<1>1. Covered(0) /\ Covered(0)'
  BY DEF Covered, Past
<1>2. ASSUME NEW i \in 0 .. Len(snaps), Covered(i)
      PROVE  Covered(i)'
  <2>1. Past(i)' = Past(i)
    BY StableOperators
  <2>2. QED
    BY <1>2, <2>1 DEF Covered
<1>3. QED
  BY <1>1, <1>2

LEMMA HeldOfKept ==
    ASSUME TInv, Grows, held \subseteq held', NEW p \in Clients, HeldOf(p), c'[p] = c[p]
    PROVE  HeldOf(p)'
<1>1. PICK i \in 0 .. Len(snaps), f \in 0 .. Len(snaps), s \in 0 .. Len(snaps) :
         i = c[p].snap /\ f = c[p].draft.first /\ s = c[p].draft.second
  BY ClientType
<1>2. PICK o \in 0 .. Len(snaps), t \in 0 .. Len(snaps) : o = c[p].st.ours /\ t = c[p].st.theirs
  BY ClientType DEF StateRefs
<1>3. /\ (Covered(i) => Covered(i)') /\ (Covered(f) => Covered(f)') /\ (Covered(s) => Covered(s)')
      /\ (Covered(o) => Covered(o)') /\ (Covered(t) => Covered(t)')
  BY StaysCovered
<1>4. /\ (Covered(c[p].snap)' <=> Covered(i)')
      /\ (Covered(c[p].draft.first)' <=> Covered(f)')
      /\ (Covered(c[p].draft.second)' <=> Covered(s)')
      /\ (Covered(c[p].st.ours)' <=> Covered(o)')
      /\ (Covered(c[p].st.theirs)' <=> Covered(t)')
  BY <1>1, <1>2 DEF Covered, Past
<1>5. /\ (Covered(c[p].snap) <=> Covered(i))
      /\ (Covered(c[p].draft.first) <=> Covered(f))
      /\ (Covered(c[p].draft.second) <=> Covered(s))
      /\ (Covered(c[p].st.ours) <=> Covered(o))
      /\ (Covered(c[p].st.theirs) <=> Covered(t))
  BY <1>1, <1>2
<1>6. QED
  BY <1>1, <1>3, <1>4, <1>5 DEF HeldOf

LEMMA HeadsKept ==
    ASSUME TInv, HeldInv, Grows, held \subseteq held'
    PROVE  /\ (main' = main => Covered(main)')
           /\ (side' \in {side, 0} => Covered(side)')
           /\ (meta' \in {meta, None} =>
                 (meta' # None => Covered(meta.ours)' /\ Covered(meta.theirs)'))
<1>1. PICK m \in 0 .. Len(snaps), s \in 0 .. Len(snaps) : m = main /\ s = side
  BY HeadTypes
<1>2. Covered(m)' /\ Covered(s)' /\ Covered(0)'
  BY <1>1, StaysCovered DEF HeldInv
<1>3. main' = main => Covered(main)'
  BY <1>1, <1>2 DEF Covered, Past
<1>4. side' \in {side, 0} => Covered(side)'
  BY <1>1, <1>2 DEF Covered, Past
<1>5. ASSUME meta' = meta, meta # None
      PROVE  Covered(meta.ours)' /\ Covered(meta.theirs)'
  <2>1. PICK o \in 0 .. Len(snaps), t \in 0 .. Len(snaps) : o = meta.ours /\ t = meta.theirs
    BY <1>5, HeadTypes DEF StateRefs
  <2>2. Covered(o)' /\ Covered(t)'
    BY <1>5, <2>1, StaysCovered DEF HeldInv
  <2>3. QED
    BY <1>5, <2>1, <2>2 DEF Covered, Past
<1>6. QED
  BY <1>3, <1>4, <1>5

(* A step of p that leaves the heads and the merge state alone, or drops them. *)
LEMMA QuietHeldInv ==
    ASSUME TInv, HeldInv, Grows, held \subseteq held', main' = main,
           side' \in {side, 0}, meta' \in {meta, None},
           NEW p \in Clients, OthersSame(p), HeldOf(p)'
    PROVE  HeldInv'
<1>1. \A y \in Clients : y # p => HeldOf(y)'
  BY HeldOfKept DEF HeldInv, OthersSame
<1>2. QED
  BY <1>1, HeadsKept DEF HeldInv

LEMMA IdleHolds ==
    ASSUME NEW p \in Clients, c'[p].pc \notin {"publish", "open", "signal"}
    PROVE  HeldOf(p)'
BY DEF HeldOf

(* A command that begins, gives up, stops or ends.                            *)
LEMMA PassiveHeldInv ==
    ASSUME TInv, HeldInv, snaps' = snaps, held \subseteq held', main' = main,
           side' \in {side, 0}, meta' \in {meta, None},
           NEW p \in Clients, NEW x, c' = [c EXCEPT ![p] = x],
           x.pc \notin {"publish", "open", "signal"}
    PROVE  HeldInv'
<1>1. c'[p] = x /\ OthersSame(p)
  BY DEF TInv, TypeOK, OthersSame
<1>2. HeldOf(p)'
  BY <1>1, IdleHolds
<1>3. Grows
  BY SameSnapshots
<1>4. QED
  BY <1>1, <1>2, <1>3, QuietHeldInv

LEMMA BeginsHeldInv ==
    ASSUME TInv, HeldInv, NEW p \in Clients,
           \/ BeginWrite(p) \/ BeginMerge(p) \/ BeginDecide(p)
           \/ BeginContinue(p) \/ BeginAbort(p)
    PROVE  HeldInv'
<1>1. \E k, pc, edit, st : pc \in {"read", "unsignal"} /\ Begin(p, k, pc, edit, st)
  BY DEF BeginWrite, BeginMerge, BeginDecide, BeginContinue, BeginAbort
<1>2. PICK k, pc, edit, st : pc \in {"read", "unsignal"} /\ Begin(p, k, pc, edit, st)
  BY <1>1
<1>3. [Idle EXCEPT !.pc = pc, !.kind = k, !.edit = edit, !.st = st].pc = pc
  BY DEF Idle
<1>4. QED
  BY <1>2, <1>3, PassiveHeldInv DEF Begin

LEMMA GiveUpHeldInv ==
    ASSUME TInv, HeldInv, NEW p \in Clients, GiveUp(p), held \subseteq held'
    PROVE  HeldInv'
<1>1. Idle.pc = "idle"
  BY DEF Idle
<1>2. QED
  BY <1>1, PassiveHeldInv DEF GiveUp

LEMMA GoesHeldInv ==
    ASSUME TInv, HeldInv, NEW p \in Clients, NEW pc, NEW draft, NEW snap, NEW st,
           Goes(p, pc, draft, snap, st), held \subseteq held', HeldOf(p)'
    PROVE  HeldInv'
<1>1. OthersSame(p) /\ LibrarySame
  BY GoesEffect
<1>2. Grows /\ main' = main /\ side' = side /\ meta' = meta
  BY <1>1, SameSnapshots DEF LibrarySame
<1>3. QED
  BY <1>1, <1>2, QuietHeldInv

(* What a command is going to build on is held when it has made up its mind.  *)
LEMMA GoesHolds ==
    ASSUME TInv, NEW p \in Clients, NEW pc, NEW draft, NEW snap, NEW st,
           Goes(p, pc, draft, snap, st), held \subseteq held',
           pc = "publish" /\ snap # 0 => Past(snap) \subseteq held',
           pc \in {"publish", "open"} /\ snap = 0 =>
              Past(draft.first) \subseteq held' /\ Past(draft.second) \subseteq held',
           pc \in {"open", "signal"} => Past(st.ours) \subseteq held' /\ Past(st.theirs) \subseteq held'
    PROVE  HeldOf(p)'
<1>1. /\ c'[p].pc = pc /\ c'[p].draft = draft /\ c'[p].snap = snap /\ c'[p].st = st
      /\ snaps' = snaps
  BY GoesEffect DEF LibrarySame
<1>2. PICK f, s, o, t : /\ f = draft.first /\ s = draft.second
                        /\ o = st.ours /\ t = st.theirs
  OBVIOUS
<1>3. \A i : Covered(i)' <=> Past(i) \subseteq held'
  BY <1>1 DEF Covered, Past
<1>4. /\ (Covered(c[p].snap)' <=> Covered(snap)')
      /\ (Covered(c[p].draft.first)' <=> Covered(f)')
      /\ (Covered(c[p].draft.second)' <=> Covered(s)')
      /\ (Covered(c[p].st.ours)' <=> Covered(o)')
      /\ (Covered(c[p].st.theirs)' <=> Covered(t)')
  BY <1>1, <1>2 DEF Covered, Past
<1>5. QED
  BY <1>1, <1>2, <1>3, <1>4 DEF HeldOf

LEMMA ReadEditHeldInv ==
    ASSUME TInv, HeldInv, NEW p \in Clients, NEW h, Past(h) \subseteq held, ReadEdit(p, h)
    PROVE  HeldInv'
<1> DEFINE d == Draft(Changed(Tree(h), c[p].edit), h, 0, FALSE)
<1>1. held' = held /\ (GiveUp(p) \/ Goes(p, "publish", d, 0, c[p].st))
  BY DEF ReadEdit
<1>2. d.first = h /\ d.second = 0
  BY DEF Draft
<1>3. Past(d.first) \subseteq held /\ Past(d.second) \subseteq held
  BY <1>2 DEF Past
<1> HIDE DEF d
<1>4. CASE GiveUp(p)
  BY <1>1, <1>4, GiveUpHeldInv
<1>5. CASE Goes(p, "publish", d, 0, c[p].st)
  <2>1. HeldOf(p)'
    BY <1>1, <1>3, <1>5, GoesHolds
  <2>2. QED
    BY <1>1, <1>5, <2>1, GoesHeldInv
<1>6. QED
  BY <1>1, <1>4, <1>5

LEMMA ReadDirectHeldInv ==
    ASSUME TInv, HeldInv, NEW p \in Clients, ReadPull(p) \/ ReadReset(p)
    PROVE  HeldInv'
<1>1. held \subseteq held' /\ held' \in {held, held \cup Past(remote)}
  BY DEF ReadPull, ReadReset
<1>2. CASE GiveUp(p)
  BY <1>1, <1>2, GiveUpHeldInv
<1>3. ASSUME NEW i, Past(i) \subseteq held', i # 0, Goes(p, "publish", NoDraft, i, NoState)
      PROVE  HeldInv'
  <2>1. HeldOf(p)'
    BY <1>1, <1>3, GoesHolds
  <2>2. QED
    BY <1>1, <1>3, <2>1, GoesHeldInv
<1>4. CASE \E i \in Past(main) : Goes(p, "publish", NoDraft, i, NoState)
  <2>1. PICK i \in Past(main) : Goes(p, "publish", NoDraft, i, NoState)
    BY <1>4
  <2>2. i # 0 /\ Past(i) \subseteq Past(main) /\ Past(main) \subseteq held
    BY HeadTypes, PastType DEF HeldInv, Covered
  <2>3. QED
    BY <1>1, <1>3, <2>1, <2>2
<1>5. CASE Goes(p, "publish", NoDraft, remote, NoState) /\ held' = held \cup Past(remote)
  BY <1>3, <1>5, HeadTypes
<1>6. QED
  BY <1>2, <1>4, <1>5 DEF ReadPull, ReadReset

LEMMA ReadMergeHeldInv ==
    ASSUME TInv, HeldInv, NEW p \in Clients, ReadMerge(p)
    PROVE  HeldInv'
<1> DEFINE d1 == Draft(MergedTree, main, remote, FALSE)
           d2 == Draft(MergedTree, main, 0, TRUE)
<1>1. \/ held' = held /\ GiveUp(p)
      \/ /\ held' = held \cup Past(remote)
         /\ \/ GiveUp(p)
            \/ Goes(p, "publish", NoDraft, remote, NoState)
            \/ Goes(p, "publish", d1, 0, NoState)
            \/ Goes(p, "open", d2, 0, MergedState)
  BY ReadMergeOutcomes
<1>2. /\ d1.first = main /\ d1.second = remote /\ d2.first = main /\ d2.second = 0
      /\ MergedState.ours = main /\ MergedState.theirs = remote
  BY DEF Draft, MergedState
<1>3. Past(main) \subseteq held /\ Past(0) = {} /\ held \subseteq held'
  BY <1>1 DEF HeldInv, Covered, Past
<1> HIDE DEF d1, d2
<1>4. CASE GiveUp(p)
  BY <1>3, <1>4, GiveUpHeldInv
<1>5. ASSUME Past(remote) \subseteq held', Goes(p, "publish", NoDraft, remote, NoState)
      PROVE  HeldInv'
  <2>1. remote # 0
    BY HeadTypes
  <2>2. HeldOf(p)'
    BY <1>3, <1>5, <2>1, GoesHolds
  <2>3. QED
    BY <1>3, <1>5, <2>2, GoesHeldInv
<1>6. ASSUME Past(remote) \subseteq held', Goes(p, "publish", d1, 0, NoState)
      PROVE  HeldInv'
  <2>1. HeldOf(p)'
    BY <1>2, <1>3, <1>6, GoesHolds
  <2>2. QED
    BY <1>3, <1>6, <2>1, GoesHeldInv
<1>7. ASSUME Past(remote) \subseteq held', Goes(p, "open", d2, 0, MergedState)
      PROVE  HeldInv'
  <2>1. /\ Past(d2.first) \subseteq held' /\ Past(d2.second) \subseteq held'
        /\ Past(MergedState.ours) \subseteq held' /\ Past(MergedState.theirs) \subseteq held'
    BY <1>2, <1>3, <1>7
  <2>2. HeldOf(p)'
    BY <1>3, <1>7, <2>1, GoesHolds
  <2>3. QED
    BY <1>3, <1>7, <2>2, GoesHeldInv
<1>8. QED
  BY <1>1, <1>4, <1>5, <1>6, <1>7

LEMMA ReadContinueHeldInv ==
    ASSUME TInv, MergerInv, HeldInv, NEW p \in Clients, ReadContinue(p)
    PROVE  HeldInv'
<1> DEFINE d == Draft(Tree(side), c[p].st.ours, c[p].st.theirs, FALSE)
<1>1. /\ c[p].pc = "read" /\ c[p].kind = "continue" /\ held' = held
      /\ (GiveUp(p) \/ Goes(p, "publish", d, 0, c[p].st))
  BY ReadContinueOutcomes
<1>2. d.first = c[p].st.ours /\ d.second = c[p].st.theirs
  BY DEF Draft
<1>3. meta # None /\ meta = c[p].st
  BY <1>1 DEF MergerInv, MergerOf
<1>4. Past(d.first) \subseteq held /\ Past(d.second) \subseteq held
  BY <1>2, <1>3 DEF HeldInv, Covered
<1> HIDE DEF d
<1>5. CASE GiveUp(p)
  BY <1>1, <1>5, GiveUpHeldInv
<1>6. CASE Goes(p, "publish", d, 0, c[p].st)
  <2>1. HeldOf(p)'
    BY <1>1, <1>4, <1>6, GoesHolds
  <2>2. QED
    BY <1>1, <1>6, <2>1, GoesHeldInv
<1>7. QED
  BY <1>1, <1>5, <1>6

LEMMA PutDraftCovers ==
    ASSUME TInv, HeldInv, NEW p \in Clients, PutDraft(p),
           c[p].pc = "publish" \/ (c[p].pc = "open" /\ c[p].snap = 0),
           NEW n, n = Target(p)
    PROVE  Covered(n)'
<1>1. HeldOf(p) /\ held \subseteq held' /\ Grows
  BY PutDraftEffect DEF HeldInv
<1>2. CASE c[p].snap = 0
  <2>1. /\ Target(p) = Len(snaps) + 1 /\ Len(snaps') = Len(snaps) + 1
        /\ held' = held \cup {Len(snaps) + 1}
        /\ snaps'[Len(snaps) + 1].tree = c[p].draft.tree
        /\ snaps'[Len(snaps) + 1].first = c[p].draft.first
        /\ snaps'[Len(snaps) + 1].second = c[p].draft.second
        /\ snaps'[Len(snaps) + 1].past =
              {Len(snaps) + 1} \cup Past(c[p].draft.first) \cup Past(c[p].draft.second)
        /\ snaps'[Len(snaps) + 1].basis =
              (IF c[p].draft.base THEN Len(snaps) + 1
               ELSE IF c[p].draft.first = 0 THEN 0 ELSE snaps[c[p].draft.first].basis)
    BY <1>2, PutDraftNew, Zenon
  <2>2. Past(c[p].draft.first) \subseteq held /\ Past(c[p].draft.second) \subseteq held
    BY <1>1, <1>2 DEF HeldOf, Covered
  <2>3. n = Len(snaps) + 1 /\ n # 0
    BY <2>1, HeadTypes
  <2>4. snaps'[n].past \subseteq held'
    BY <2>1, <2>2, <2>3
  <2>5. QED
    BY <2>3, <2>4 DEF Covered, Past
<1>3. CASE c[p].snap # 0
  <2>1. n = c[p].snap /\ n \in 0 .. Len(snaps) /\ Covered(n)
    BY <1>1, <1>3, ClientType DEF HeldOf, Target
  <2>2. QED
    BY <1>1, <2>1, StaysCovered
<1>4. QED
  BY <1>2, <1>3

LEMMA WritesHeldInv ==
    ASSUME TInv, MergerInv, HeldInv, NEW p \in Clients,
           Publish(p) \/ PublishDecision(p) \/ OpenSide(p)
    PROVE  HeldInv'
<1>1. PutDraft(p) /\ meta' = meta
  BY DEF Publish, PublishDecision, OpenSide
<1>2. Grows /\ held \subseteq held'
  BY <1>1, PutDraftEffect
<1>3. c[p].pc = "publish" \/ (c[p].pc = "open" /\ c[p].snap = 0)
  BY DEF Publish, PublishDecision, OpenSide, MergerInv, MergerOf
<1>4. PICK n : n = Target(p)
  OBVIOUS
<1>5. Covered(n)'
  BY <1>1, <1>3, <1>4, PutDraftCovers
<1>6. Covered(main)' /\ Covered(side)'
  <2>1. \/ main' = n /\ side' = side
        \/ main' = main /\ side' = n
    BY <1>4 DEF Publish, PublishDecision, OpenSide
  <2>2. main' = n => Covered(main)'
    BY <1>5 DEF Covered, Past
  <2>3. side' = n => Covered(side)'
    BY <1>5 DEF Covered, Past
  <2>4. QED
    BY <1>2, <2>1, <2>2, <2>3, HeadsKept
<1>7. meta' # None => Covered(meta.ours)' /\ Covered(meta.theirs)'
  BY <1>1, <1>2, HeadsKept
<1>8. OthersSame(p) /\ HeldOf(p)'
  <2>1. c \in [Clients -> ClientStates]
    BY ClientType
  <2>2. CASE OpenSide(p)
    <3>1. c'[p] = SignalState(p) /\ OthersSame(p) /\ c[p].pc = "open"
      BY <2>1, <2>2 DEF OpenSide, SignalState, OthersSame
    <3>2. c'[p].pc = "signal" /\ c'[p].st = c[p].st
      BY <3>1 DEF SignalState, Idle
    <3>3. PICK o \in 0 .. Len(snaps), t \in 0 .. Len(snaps) :
             o = c[p].st.ours /\ t = c[p].st.theirs
      BY ClientType DEF StateRefs
    <3>4. Covered(o)' /\ Covered(t)'
      BY <1>2, <3>1, <3>3, StaysCovered DEF HeldInv, HeldOf
    <3>5. (Covered(c[p].st.ours)' <=> Covered(o)') /\ (Covered(c[p].st.theirs)' <=> Covered(t)')
      BY <3>2, <3>3 DEF Covered, Past
    <3>6. QED
      BY <3>1, <3>2, <3>4, <3>5 DEF HeldOf
  <2>3. CASE Publish(p) \/ PublishDecision(p)
    <3>1. /\ c' = [c EXCEPT ![p] = UnsignalState(p)] \/ c' = [c EXCEPT ![p] = Idle]
          /\ UnsignalState(p).pc = "unsignal" /\ Idle.pc = "idle"
      BY <2>3 DEF Publish, PublishDecision, UnsignalState, Idle
    <3>2. OthersSame(p) /\ c'[p].pc \in {"unsignal", "idle"}
      BY <2>1, <3>1 DEF OthersSame
    <3>3. QED
      BY <3>2, IdleHolds
  <2>4. QED
    BY <2>2, <2>3
<1>9. \A y \in Clients : y # p => HeldOf(y)'
  BY <1>2, <1>8, HeldOfKept DEF HeldInv, OthersSame
<1>10. QED
  BY <1>6, <1>7, <1>8, <1>9 DEF HeldInv

LEMMA EndingsHeldInv ==
    ASSUME TInv, HeldInv, NEW p \in Clients,
           Signal(p) \/ Unsignal(p) \/ DropSide(p) \/ Stop(p)
    PROVE  HeldInv'
<1>1. c \in [Clients -> ClientStates] /\ c[p] \in ClientStates /\ Idle.pc = "idle"
  BY ClientType DEF Idle
<1>2. CASE Unsignal(p)
  <2>1. /\ c' = [c EXCEPT ![p] = [c[p] EXCEPT !.pc = "drop"]] /\ meta' = None
        /\ UNCHANGED <<snaps, held, main, side>>
    BY <1>1, <1>2 DEF Unsignal
  <2>2. [c[p] EXCEPT !.pc = "drop"].pc = "drop"
    BY <1>1 DEF ClientStates
  <2>3. QED
    BY <2>1, <2>2, PassiveHeldInv
<1>3. CASE DropSide(p) \/ Stop(p)
  <2>1. /\ c' = [c EXCEPT ![p] = Idle] /\ meta' = meta /\ side' \in {side, 0}
        /\ UNCHANGED <<snaps, held, main>>
    BY <1>3 DEF DropSide, Stop
  <2>2. QED
    BY <1>1, <2>1, PassiveHeldInv
<1>4. CASE Signal(p)
  <2>1. /\ c' = [c EXCEPT ![p] = Idle] /\ meta' = c[p].st /\ c[p].pc = "signal"
        /\ UNCHANGED <<snaps, held, main, side>>
    BY <1>4 DEF Signal
  <2>2. Grows /\ held \subseteq held' /\ c'[p] = Idle /\ OthersSame(p)
    BY <1>1, <2>1, SameSnapshots DEF OthersSame
  <2>3. Covered(main)' /\ Covered(side)'
    BY <2>1, <2>2, HeadsKept
  <2>4. PICK o \in 0 .. Len(snaps), t \in 0 .. Len(snaps) :
           o = c[p].st.ours /\ t = c[p].st.theirs
    BY ClientType DEF StateRefs
  <2>5. Covered(o)' /\ Covered(t)'
    BY <2>1, <2>2, <2>4, StaysCovered DEF HeldInv, HeldOf
  <2>6. Covered(meta.ours)' /\ Covered(meta.theirs)'
    BY <2>1, <2>4, <2>5 DEF Covered, Past
  <2>7. HeldOf(p)'
    BY <1>1, <2>2, IdleHolds
  <2>8. \A y \in Clients : y # p => HeldOf(y)'
    BY <2>2, HeldOfKept DEF HeldInv, OthersSame
  <2>9. QED
    BY <2>3, <2>6, <2>7, <2>8 DEF HeldInv
<1>5. QED
  BY <1>2, <1>3, <1>4

(* gc collects nothing of the two branches; nobody is half way and, unless it *)
(* may run while a merge is under way, there is no merge state.               *)
LEMMA GcHeldInv ==
    ASSUME TInv, HeldInv, ~ GcInMerge, Gc
    PROVE  HeldInv'
<1>1. /\ meta = None /\ \A p \in Clients : c[p].pc = "idle"
      /\ held' = Past(main) \cup Past(side)
      /\ UNCHANGED <<snaps, main, side, meta, c>>
  BY DEF Gc
<1>2. Past(main)' = Past(main) /\ Past(side)' = Past(side)
  BY <1>1 DEF Past
<1>3. Covered(main)' /\ Covered(side)'
  BY <1>1, <1>2 DEF Covered
<1>4. \A p \in Clients : HeldOf(p)'
  BY <1>1, IdleHolds
<1>5. QED
  BY <1>1, <1>3, <1>4 DEF HeldInv

LEMMA NextHeldInv ==
    ASSUME TInv, MergerInv, HeldInv, ~ GcInMerge, [Next]_vars
    PROVE  HeldInv'
<1>1. ASSUME Grows, UNCHANGED <<held, main, side, meta, c>>
      PROVE  HeldInv'
  <2>1. \A p \in Clients : HeldOf(p)'
    BY <1>1, HeldOfKept DEF HeldInv
  <2>2. QED
    BY <1>1, <2>1, HeadsKept DEF HeldInv
<1>2. ASSUME NEW p \in Clients, ClientStep(p)
      PROVE  HeldInv'
  <2>1. CASE \/ BeginWrite(p) \/ BeginMerge(p) \/ BeginDecide(p)
             \/ BeginContinue(p) \/ BeginAbort(p)
    BY <2>1, BeginsHeldInv
  <2>2. CASE ReadSet(p) \/ ReadDecide(p)
    <3>1. Past(main) \subseteq held /\ Past(side) \subseteq held
      BY DEF HeldInv, Covered
    <3>2. QED
      BY <2>2, <3>1, ReadEditHeldInv DEF ReadSet, ReadDecide
  <2>3. CASE ReadPull(p) \/ ReadReset(p) \/ ReadMerge(p) \/ ReadContinue(p)
    BY <2>3, ReadDirectHeldInv, ReadMergeHeldInv, ReadContinueHeldInv
  <2>4. CASE Publish(p) \/ PublishDecision(p) \/ OpenSide(p)
    BY <2>4, WritesHeldInv
  <2>5. CASE Signal(p) \/ Unsignal(p) \/ DropSide(p) \/ Stop(p)
    BY <2>5, EndingsHeldInv
  <2>6. QED
    BY <1>2, <2>1, <2>2, <2>3, <2>4, <2>5 DEF ClientStep
<1>3. ASSUME NEW e \in Edits, Push(e)
      PROVE  HeldInv'
  BY <1>1, <1>3, PushEffect
<1>4. CASE Gc
  BY <1>4, GcHeldInv
<1>5. CASE UNCHANGED vars
  <2>1. UNCHANGED <<snaps, held, main, side, meta, c>>
    BY <1>5 DEF vars
  <2>2. QED
    BY <1>1, <2>1, SameSnapshots
<1>6. QED
  BY <1>2, <1>3, <1>4, <1>5 DEF Next, Edits

LEMMA InitHeldInv ==
    ASSUME Init
    PROVE  HeldInv
<1>1. /\ held = (IF main = 0 THEN {} ELSE snaps[main].past) /\ side = 0 /\ meta = None
      /\ \A p \in Clients : c[p].pc = "idle"
  BY DEF Init, Idle
<1>2. Covered(main) /\ Covered(side)
  BY <1>1 DEF Covered, Past
<1>3. QED
  BY <1>1, <1>2 DEF HeldInv, HeldOf

(* The local store always holds the whole history of both branches, as long   *)
(* as gc does not run while a merge is under way: what a command has read and *)
(* is going to build on stays held, and so do the two heads of the merge,     *)
(* which --continue makes the parents of what it publishes.  With gc during a *)
(* merge the head of the remote can go, which the runs show.                  *)
THEOREM HistoryStaysHeld ==
    ASSUME ~ GcInMerge
    PROVE  Spec => []HistoryHeld
<1>1. Init => TInv /\ MergerInv /\ HeldInv
  BY InitTInv, InitMergerInv, InitHeldInv
<1>2. TInv /\ MergerInv /\ HeldInv /\ [Next]_vars => (TInv /\ MergerInv /\ HeldInv)'
  BY NextTInv, NextMergerInv, NextHeldInv
<1>3. TInv /\ MergerInv /\ HeldInv => HistoryHeld
  BY DEF HeldInv, Covered, HistoryHeld
<1>4. QED
  BY <1>1, <1>2, <1>3, PTL DEF Spec

----------------------------------------------------------------------------
(* The freeze.                                                                *)

(* Nothing but the branch and the merge state can break the freeze.           *)
LEMMA FrozenHeadKept ==
    ASSUME TInv, FrozenHead, Grows, main' = main, meta' \in {meta, None}
    PROVE  FrozenHead'
<1> SUFFICES ASSUME meta' # None
             PROVE  \/ main' = meta'.ours
                    \/ main' # 0 /\ snaps'[main'].first = meta'.ours
                                 /\ snaps'[main'].second = meta'.theirs
  BY DEF FrozenHead
<1>1. meta' = meta /\ main \in 0 .. Len(snaps)
  BY HeadTypes
<1>2. main # 0 => snaps'[main] = snaps[main]
  BY <1>1 DEF Grows
<1>3. QED
  BY <1>1, <1>2 DEF FrozenHead

LEMMA BeginFrozen ==
    ASSUME TInv, NEW p \in Clients, NEW k, NEW pc, NEW edit, NEW st,
           pc \in {"read", "unsignal"}, pc = "unsignal" => k = "abort",
           pc = "read" => k # "abort",
           k \in Direct \cup {"merge"} => meta = None, Begin(p, k, pc, edit, st)
    PROVE  FrozenOf(p)'
<1>1. c'[p].pc = pc /\ c'[p].kind = k /\ meta' = meta
  BY BeginEffect DEF LibrarySame
<1>2. QED
  BY <1>1 DEF FrozenOf

LEMMA BeginsFrozen ==
    ASSUME TInv, NEW p \in Clients,
           \/ BeginWrite(p) \/ BeginMerge(p) \/ BeginDecide(p)
           \/ BeginContinue(p) \/ BeginAbort(p)
    PROVE  FrozenOf(p)' /\ LibrarySame
<1>1. \E k, pc, edit, st :
         /\ pc \in {"read", "unsignal"} /\ (pc = "unsignal" => k = "abort")
         /\ (pc = "read" => k # "abort")
         /\ (k \in Direct \cup {"merge"} => meta = None)
         /\ Begin(p, k, pc, edit, st)
  <2>1. CASE BeginWrite(p)
    BY <2>1 DEF BeginWrite
  <2>2. CASE BeginMerge(p) \/ BeginDecide(p)
    BY <2>2 DEF BeginMerge, BeginDecide, Direct
  <2>3. CASE BeginContinue(p) \/ BeginAbort(p)
    BY <2>3 DEF BeginContinue, BeginAbort, Direct
  <2>4. QED
    BY <2>1, <2>2, <2>3
<1>2. PICK k, pc, edit, st :
         /\ pc \in {"read", "unsignal"} /\ (pc = "unsignal" => k = "abort")
         /\ (pc = "read" => k # "abort")
         /\ (k \in Direct \cup {"merge"} => meta = None)
         /\ Begin(p, k, pc, edit, st)
  BY <1>1
<1>3. FrozenOf(p)'
  BY <1>2, BeginFrozen
<1>4. LibrarySame
  BY <1>2, BeginEffect
<1>5. QED
  BY <1>3, <1>4

LEMMA IdleFrozen ==
    ASSUME NEW p \in Clients, c'[p] = Idle
    PROVE  FrozenOf(p)'
BY DEF FrozenOf, Idle

LEMMA GoesFrozen ==
    ASSUME TInv, NEW p \in Clients, FrozenOf(p), c[p].pc = "read",
           NEW pc \in {"publish", "open"}, NEW draft, NEW snap, NEW st,
           Goes(p, pc, draft, snap, st), pc = "open" => st.ours = main
    PROVE  FrozenOf(p)' /\ LibrarySame
<1>1. /\ c'[p].pc = pc /\ c'[p].kind = c[p].kind /\ c'[p].st = st /\ LibrarySame
  BY GoesEffect
<1>2. main' = main /\ meta' = meta
  BY <1>1 DEF LibrarySame
<1>3. QED
  BY <1>1, <1>2 DEF FrozenOf

LEMMA ReadsFrozen ==
    ASSUME TInv, NEW p \in Clients, FrozenOf(p),
           \/ ReadSet(p) \/ ReadDecide(p) \/ ReadPull(p) \/ ReadReset(p)
           \/ ReadMerge(p) \/ ReadContinue(p)
    PROVE  FrozenOf(p)' /\ LibrarySame
<1>1. c[p].pc = "read"
  BY DEF ReadSet, ReadDecide, ReadPull, ReadReset, ReadMerge, ReadContinue, Reading
<1>2. CASE GiveUp(p)
  BY <1>2, GiveUpEffect, IdleFrozen
<1>3. CASE \E draft, snap, st : Goes(p, "publish", draft, snap, st)
  <2>1. PICK draft, snap, st : Goes(p, "publish", draft, snap, st)
    BY <1>3
  <2>2. QED
    BY <1>1, <2>1, GoesFrozen
<1>4. CASE \E draft, snap : Goes(p, "open", draft, snap, MergedState)
  <2>1. PICK draft, snap : Goes(p, "open", draft, snap, MergedState)
    BY <1>4
  <2>2. MergedState.ours = main
    BY DEF MergedState
  <2>3. QED
    BY <1>1, <2>1, <2>2, GoesFrozen
<1>5. CASE ReadSet(p) \/ ReadDecide(p)
  BY <1>2, <1>3, <1>5 DEF ReadSet, ReadDecide, ReadEdit
<1>6. CASE ReadPull(p) \/ ReadReset(p)
  BY <1>2, <1>3, <1>6 DEF ReadPull, ReadReset
<1>7. CASE ReadMerge(p)
  BY <1>2, <1>3, <1>4, <1>7, ReadMergeOutcomes
<1>8. CASE ReadContinue(p)
  BY <1>2, <1>3, <1>8, ReadContinueOutcomes
<1>9. QED
  BY <1>5, <1>6, <1>7, <1>8

(* The one write that moves the branch while it is frozen is that of          *)
(* merge --continue.                                                          *)
LEMMA PublishFrozen ==
    ASSUME TInv, MergerInv, FrozenInv, NEW p \in Clients, Publish(p)
    PROVE  FrozenHead' /\ FrozenOf(p)'
<1>1. /\ PutDraft(p) /\ main' = Target(p) /\ meta' = meta
      /\ c[p].pc = "publish" /\ c[p].kind # "decide"
      /\ c' = [c EXCEPT ![p] = IF c[p].kind = "continue" THEN UnsignalState(p) ELSE Idle]
  BY DEF Publish, UnsignalState
<1>2. c[p].kind \in Kinds /\ c[p].kind # "abort"
  BY <1>1, ClientType DEF ClientStates, FrozenInv, FrozenOf
<1>3. CASE c[p].kind = "continue"
  <2>1. /\ meta # None /\ c[p].snap = 0
        /\ c[p].draft.first = meta.ours /\ c[p].draft.second = meta.theirs
    BY <1>1, <1>3 DEF MergerInv, MergerOf
  <2>2. /\ Target(p) = Len(snaps) + 1 /\ Len(snaps') = Len(snaps) + 1
        /\ held' = held \cup {Len(snaps) + 1}
        /\ snaps'[Len(snaps) + 1].tree = c[p].draft.tree
        /\ snaps'[Len(snaps) + 1].first = c[p].draft.first
        /\ snaps'[Len(snaps) + 1].second = c[p].draft.second
        /\ snaps'[Len(snaps) + 1].past =
              {Len(snaps) + 1} \cup Past(c[p].draft.first) \cup Past(c[p].draft.second)
        /\ snaps'[Len(snaps) + 1].basis =
              (IF c[p].draft.base THEN Len(snaps) + 1
               ELSE IF c[p].draft.first = 0 THEN 0 ELSE snaps[c[p].draft.first].basis)
    BY <1>1, <2>1, PutDraftNew, Zenon
  <2>3. main' # 0 /\ snaps'[main'].first = meta.ours /\ snaps'[main'].second = meta.theirs
    BY <1>1, <2>1, <2>2, HeadTypes
  <2>4. FrozenHead'
    BY <1>1, <2>3 DEF FrozenHead
  <2>5. c'[p] = UnsignalState(p)
    BY <1>1, <1>3 DEF TInv, TypeOK
  <2>6. FrozenOf(p)'
    BY <2>5 DEF FrozenOf, UnsignalState, Idle, Direct
  <2>7. QED
    BY <2>4, <2>6
<1>4. CASE c[p].kind \in Direct \cup {"merge"}
  <2>1. meta = None
    BY <1>1, <1>4 DEF FrozenInv, FrozenOf
  <2>2. c'[p] = Idle
    BY <1>1, <1>4 DEF TInv, TypeOK, Direct
  <2>3. FrozenHead'
    BY <1>1, <2>1 DEF FrozenHead
  <2>4. QED
    BY <2>2, <2>3, IdleFrozen
<1>5. QED
  BY <1>1, <1>2, <1>3, <1>4 DEF Kinds, Mergers

LEMMA ClientStepFrozen ==
    ASSUME TInv, MergerInv, FrozenInv, NEW p \in Clients, ClientStep(p)
    PROVE  FrozenHead' /\ FrozenOf(p)'
<1>1. FrozenHead /\ FrozenOf(p) /\ c \in [Clients -> ClientStates]
  BY ClientType DEF FrozenInv
<1>2. ASSUME LibrarySame
      PROVE  FrozenHead'
  BY <1>1, <1>2, SameSnapshots, FrozenHeadKept DEF LibrarySame
<1>3. CASE \/ BeginWrite(p) \/ BeginMerge(p) \/ BeginDecide(p)
           \/ BeginContinue(p) \/ BeginAbort(p)
  BY <1>2, <1>3, BeginsFrozen
<1>4. CASE \/ ReadSet(p) \/ ReadDecide(p) \/ ReadPull(p) \/ ReadReset(p)
           \/ ReadMerge(p) \/ ReadContinue(p)
  BY <1>1, <1>2, <1>4, ReadsFrozen
<1>5. CASE Publish(p)
  BY <1>5, PublishFrozen
<1>6. CASE PublishDecision(p)
  <2>1. c'[p] = Idle /\ main' = main /\ meta' = meta /\ PutDraft(p)
    BY <1>1, <1>6 DEF PublishDecision
  <2>2. Grows
    BY <2>1, PutDraftEffect
  <2>3. QED
    BY <1>1, <2>1, <2>2, FrozenHeadKept, IdleFrozen
<1>7. CASE OpenSide(p)
  <2>1. /\ c'[p] = SignalState(p) /\ main' = main /\ meta' = meta /\ PutDraft(p)
        /\ c[p].pc = "open"
    BY <1>1, <1>7 DEF OpenSide, SignalState
  <2>2. Grows
    BY <2>1, PutDraftEffect
  <2>3. c'[p].pc = "signal" /\ c'[p].kind = "merge" /\ c'[p].st = c[p].st
    BY <2>1 DEF SignalState, Idle
  <2>4. FrozenOf(p)'
    BY <1>1, <2>1, <2>3 DEF FrozenOf, Direct
  <2>5. QED
    BY <1>1, <2>1, <2>2, <2>4, FrozenHeadKept
<1>8. CASE Signal(p)
  <2>1. c'[p] = Idle /\ main' = main /\ meta' = c[p].st /\ c[p].pc = "signal"
    BY <1>1, <1>8 DEF Signal
  <2>2. main = c[p].st.ours
    BY <1>1, <2>1 DEF FrozenOf
  <2>3. QED
    BY <2>1, <2>2, IdleFrozen DEF FrozenHead
<1>9. CASE Unsignal(p)
  <2>1. meta' = None /\ c' = [c EXCEPT ![p] = [c[p] EXCEPT !.pc = "drop"]]
    BY <1>1, <1>9 DEF Unsignal
  <2>2. c'[p].pc = "drop"
    BY <1>1, <2>1 DEF ClientStates
  <2>3. QED
    BY <2>1, <2>2 DEF FrozenHead, FrozenOf
<1>10. CASE DropSide(p) \/ Stop(p)
  <2>1. c'[p] = Idle /\ UNCHANGED <<snaps, main, meta>>
    BY <1>1, <1>10 DEF DropSide, Stop
  <2>2. QED
    BY <1>1, <2>1, SameSnapshots, FrozenHeadKept, IdleFrozen
<1>11. QED
  BY <1>3, <1>4, <1>5, <1>6, <1>7, <1>8, <1>9, <1>10 DEF ClientStep

LEMMA NextFrozenInv ==
    ASSUME \A p, q \in Clients : p = q, TInv, MergerInv, FrozenInv, [Next]_vars
    PROVE  FrozenInv'
<1>1. CASE \E p \in Clients : ClientStep(p)
  BY <1>1, ClientStepFrozen DEF FrozenInv
<1>2. ASSUME Grows, UNCHANGED <<main, meta, c>>
      PROVE  FrozenInv'
  <2>1. FrozenHead'
    BY <1>2, FrozenHeadKept DEF FrozenInv
  <2>2. ASSUME NEW p \in Clients
        PROVE  FrozenOf(p)'
    BY <1>2 DEF FrozenInv, FrozenOf
  <2>3. QED
    BY <2>1, <2>2 DEF FrozenInv
<1>3. ASSUME NEW e \in Edits, Push(e)
      PROVE  FrozenInv'
  BY <1>2, <1>3, PushEffect
<1>4. CASE Gc \/ UNCHANGED vars
  <2>1. UNCHANGED <<snaps, main, meta, c>>
    BY <1>4 DEF Gc, vars
  <2>2. QED
    BY <1>2, <2>1, SameSnapshots
<1>5. QED
  BY <1>1, <1>3, <1>4 DEF Next, Edits

LEMMA InitFrozenInv ==
    ASSUME Init
    PROVE  FrozenInv
<1>1. meta = None /\ \A p \in Clients : c[p].pc = "idle" /\ c[p].kind = "set"
  BY DEF Init, Idle
<1>2. QED
  BY <1>1 DEF FrozenInv, FrozenHead, FrozenOf

(* Where commands do not overlap, the branch stays at the head the merge      *)
(* state names until merge --continue moves it to the merge of the two heads, *)
(* however commands die: the look at the merge state at the beginning of a    *)
(* direct write is as good as one at its end.                                 *)
THEOREM FreezeHolds ==
    ASSUME \A p, q \in Clients : p = q
    PROVE  Spec => []FrozenHead
<1>1. Init => TInv /\ MergerInv /\ FrozenInv
  BY InitTInv, InitMergerInv, InitFrozenInv
<1>2. TInv /\ MergerInv /\ FrozenInv /\ [Next]_vars => (TInv /\ MergerInv /\ FrozenInv)'
  BY NextTInv, NextMergerInv, NextFrozenInv
<1>3. TInv /\ MergerInv /\ FrozenInv => FrozenHead
  BY DEF FrozenInv
<1>4. QED
  BY <1>1, <1>2, <1>3, PTL DEF Spec
=============================================================================
