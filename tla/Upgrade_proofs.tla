---------------------------- MODULE Upgrade_proofs ----------------------------
(***************************************************************************)
(* Theorems about SelfUpdate, about Serve and about both together: what kb *)
(* update never does, for every set of releases and any number of updates  *)
(* that run side by side, fail and die; what answers of kb serve promise,  *)
(* for any number of requests and writes beside them, over stops, crashes  *)
(* and restarts; and that a server and the updates of its binary, each     *)
(* unaware of the other, keep what each of them promises alone, and no     *)
(* restart goes back to an older build.                                    *)
(***************************************************************************)
EXTENDS Upgrade, WellFoundedInduction, TLAPS

-----------------------------------------------------------------------------
(* SelfUpdate.                                                               *)

-----------------------------------------------------------------------------
(* The inductive invariant. *)

\* What an update has learnt by the step it is at.
Informed(u) ==
    /\ upd[u].step # "idle" => upd[u].me \in Builds
    /\ upd[u].step \notin {"idle", "begun"}
         => upd[u].rel \in Releases /\ WorthInstalling(upd[u].rel, upd[u].me)
    /\ upd[u].step \in {"unpacked", "cleared", "moved"} => upd[u].bin = upd[u].rel
    /\ upd[u].step = "failing" => failures > 0

\* Where an update that is alone has left the two files.
Placed(u) ==
    /\ upd[u].step \in {"begun", "looked", "unpacked", "cleared"} => target = upd[u].me
    /\ upd[u].step \in {"moved", "failing"} => target = Absent /\ old = upd[u].me
    /\ upd[u].step = "placed" => target # Absent

\* As long as no update has begun during another there is one at most.
Alone ==
    ~ overlap =>
        /\ Found # Absent
        /\ \A u, w \in Updaters : Running(u) /\ Running(w) => u = w
        /\ \A u \in Updaters : Placed(u)

\* Without mishaps a binary that is not there is about to be put there.
OnItsWay ==
    failures = 0 /\ kills = 0
        => target # Absent \/ \E u \in Updaters : upd[u].step = "moved"

UpdInv == UpdTypeOK /\ (\A u \in Updaters : Informed(u)) /\ Alone /\ OnItsWay

-----------------------------------------------------------------------------
(* Records of updates. *)

LEMMA IdleIsUpdate == Idle \in Update /\ Idle.step = "idle"
  BY DEF Idle, Update, Steps

\* A step of one update leaves the records of the others alone.
LEMMA OneRecord ==
  ASSUME upd \in [Updaters -> Update], NEW u \in Updaters, NEW r \in Update,
         upd' = [upd EXCEPT ![u] = r]
  PROVE  /\ upd' \in [Updaters -> Update]
         /\ upd'[u] = r
         /\ \A w \in Updaters : w # u => upd'[w] = upd[w]
  OBVIOUS

LEMMA EndsRecord ==
  ASSUME upd \in [Updaters -> Update], NEW u \in Updaters, Ends(u)
  PROVE  /\ upd' \in [Updaters -> Update]
         /\ upd'[u].step = "idle"
         /\ \A w \in Updaters : w # u => upd'[w] = upd[w]
  BY IdleIsUpdate, OneRecord DEF Ends

LEMMA BecomesRecord ==
  ASSUME upd \in [Updaters -> Update], NEW u \in Updaters, NEW s \in Steps, Becomes(u, s)
  PROVE  /\ upd' \in [Updaters -> Update]
         /\ upd'[u].step = s
         /\ upd'[u].me = upd[u].me /\ upd'[u].rel = upd[u].rel
         /\ upd'[u].bin = upd[u].bin /\ upd'[u].hadOld = upd[u].hadOld
         /\ \A w \in Updaters : w # u => upd'[w] = upd[w]
<1> DEFINE r == [upd[u] EXCEPT !.step = s]
<1>1. upd[u] \in Update
  OBVIOUS
<1>2. /\ r \in Update /\ r.step = s /\ r.me = upd[u].me /\ r.rel = upd[u].rel
      /\ r.bin = upd[u].bin /\ r.hadOld = upd[u].hadOld
  BY <1>1 DEF Update
<1>3. upd' = [upd EXCEPT ![u] = r]
  BY DEF Becomes
<1> HIDE DEF r
<1> QED
  BY <1>2, <1>3, OneRecord

-----------------------------------------------------------------------------
(* The initial state. *)

LEMMA UpdInvInit == UpdInit => UpdInv
<1> SUFFICES ASSUME UpdInit PROVE UpdInv
  OBVIOUS
<1>1. \A u \in Updaters : upd[u] = Idle /\ upd[u].step = "idle"
  BY IdleIsUpdate DEF UpdInit
<1>2. UpdTypeOK
  BY IdleIsUpdate DEF UpdInit, UpdTypeOK, Builds
<1>3. target # Absent
  BY BuildsAssumption DEF UpdInit, Builds
<1>4. \A u \in Updaters : Informed(u)
  BY <1>1 DEF Informed
<1>5. Alone
  BY <1>1, <1>3 DEF Alone, Placed, Found, Running
<1>6. OnItsWay
  BY <1>3 DEF OnItsWay
<1> QED
  BY <1>2, <1>4, <1>5, <1>6 DEF UpdInv

-----------------------------------------------------------------------------
(* What the invariant says of the others when one update takes a step. *)

LEMMA BeginKeeps == ASSUME UpdInv, NEW u \in Updaters, BeginUpdate(u) PROVE UpdInv'
<1> DEFINE r == [Idle EXCEPT !.step = "begun", !.me = target]
<1>1. upd \in [Updaters -> Update] /\ target \in Builds
  BY DEF UpdInv, UpdTypeOK, BeginUpdate
<1>2. r \in Update /\ r.step = "begun" /\ r.me = target
  BY <1>1 DEF Idle, Update, Steps
<1>3. /\ upd' \in [Updaters -> Update]
      /\ upd'[u] = r
      /\ \A w \in Updaters : w # u => upd'[w] = upd[w]
  <2>1. upd' = [upd EXCEPT ![u] = r]
    BY DEF BeginUpdate
  <2> HIDE DEF r
  <2> QED
    BY <1>1, <1>2, <2>1, OneRecord
<1> HIDE DEF r
<1>4. UpdTypeOK'
  BY <1>3 DEF UpdInv, UpdTypeOK, BeginUpdate
<1>5. \A w \in Updaters : Informed(w)'
  BY <1>1, <1>2, <1>3 DEF UpdInv, Informed, BeginUpdate
<1>6. Alone'
  <2>1. SUFFICES ASSUME ~ overlap' PROVE Alone'
    BY DEF Alone
  <2>2. ~ overlap /\ \A w \in Updaters : ~ Running(w)
    BY <2>1 DEF BeginUpdate
  <2>3. \A w \in Updaters : w # u => upd'[w].step = "idle"
    BY <1>3, <2>2 DEF Running
  <2> QED
    BY <1>2, <1>3, <2>2, <2>3 DEF UpdInv, Alone, Placed, Found, Running, BeginUpdate
<1>7. OnItsWay'
  BY DEF OnItsWay, BeginUpdate
<1> QED
  BY <1>4, <1>5, <1>6, <1>7 DEF UpdInv

\* The frame of every other step of an update: it suffices to look at the update itself.
LEMMA UpdStepKeeps ==
  ASSUME UpdInv, NEW u \in Updaters, Running(u),
         upd' \in [Updaters -> Update],
         \A w \in Updaters : w # u => upd'[w] = upd[w],
         target' \in Builds \cup {Absent}, old' \in Builds \cup {Absent},
         newest' = newest, begun' = begun, overlap' = overlap,
         failures' \in Nat, failures' >= failures, kills' \in Nat,
         Informed(u)',
         ~ overlap => Found' # Absent /\ Placed(u)',
         OnItsWay'
  PROVE  UpdInv'
<1>1. UpdTypeOK'
  BY DEF UpdInv, UpdTypeOK
<1>2. \A w \in Updaters : Informed(w)'
  <2>1. SUFFICES ASSUME NEW w \in Updaters, w # u PROVE Informed(w)'
    OBVIOUS
  <2>2. Informed(w) /\ upd'[w] = upd[w] /\ failures \in Nat
    BY <2>1 DEF UpdInv, UpdTypeOK
  <2> QED
    BY <2>2 DEF Informed
<1>3. Alone'
  <2>1. SUFFICES ASSUME ~ overlap' PROVE Alone'
    BY DEF Alone
  <2>2. ~ overlap /\ \A w \in Updaters : w # u => upd'[w].step = "idle"
    BY <2>1 DEF UpdInv, Alone, Running
  <2>3. \A w \in Updaters : w # u => Placed(w)'
    BY <2>2 DEF Placed
  <2> QED
    BY <2>2, <2>3 DEF Alone, Running
<1> QED
  BY <1>1, <1>2, <1>3 DEF UpdInv

\* A step that ends the update.
LEMMA UpdEndKeeps ==
  ASSUME UpdInv, NEW u \in Updaters, Running(u), Ends(u),
         target' \in Builds \cup {Absent}, old' \in Builds \cup {Absent},
         newest' = newest, begun' = begun, overlap' = overlap,
         failures' \in Nat, failures' >= failures, kills' \in Nat,
         ~ overlap => Found' # Absent,
         OnItsWay'
  PROVE  UpdInv'
<1>1. /\ upd' \in [Updaters -> Update]
      /\ upd'[u].step = "idle"
      /\ \A w \in Updaters : w # u => upd'[w] = upd[w]
  BY EndsRecord DEF UpdInv, UpdTypeOK
<1>2. Informed(u)' /\ Placed(u)'
  BY <1>1 DEF Informed, Placed
<1> QED
  BY <1>1, <1>2, UpdStepKeeps

\* A binary that stays where it is, or a mishap, leaves nothing on its way.
LEMMA StaysOnItsWay ==
  ASSUME UpdInv, NEW u \in Updaters, upd[u].step # "moved",
         upd' \in [Updaters -> Update],
         \A w \in Updaters : w # u => upd'[w] = upd[w],
         target' = target, failures' = failures, kills' = kills
  PROVE  OnItsWay'
  BY DEF UpdInv, OnItsWay

LEMMA LookKeeps == ASSUME UpdInv, NEW u \in Updaters, Look(u) PROVE UpdInv'
<1>1. /\ Running(u) /\ upd[u].step = "begun" /\ Informed(u)
      /\ ~ overlap => Found # Absent /\ target = upd[u].me
      /\ UpdTypeOK
  BY DEF Look, Running, UpdInv, Alone, Placed
<1>2. CASE Ends(u)
  <2>1. OnItsWay'
    BY <1>1, <1>2, EndsRecord, StaysOnItsWay DEF Look, UpdTypeOK
  <2> QED
    BY <1>1, <1>2, <2>1, UpdEndKeeps DEF Look, UpdTypeOK, Found
<1>3. ASSUME WorthInstalling(newest, upd[u].me), target # Absent,
             upd' = [upd EXCEPT ![u].step = "looked", ![u].rel = newest]
      PROVE  UpdInv'
  <2> DEFINE r == [upd[u] EXCEPT !.step = "looked", !.rel = newest]
  <2>1. r \in Update /\ r.step = "looked" /\ r.me = upd[u].me /\ r.rel = newest
    BY <1>1 DEF Update, Steps, UpdTypeOK
  <2>2. upd' = [upd EXCEPT ![u] = r]
    BY <1>3
  <2> HIDE DEF r
  <2>3. /\ upd' \in [Updaters -> Update]
        /\ upd'[u] = r
        /\ \A w \in Updaters : w # u => upd'[w] = upd[w]
    BY <1>1, <2>1, <2>2, OneRecord DEF UpdTypeOK
  <2>4. newest \in Releases /\ WorthInstalling(upd'[u].rel, upd'[u].me)
    BY <1>1, <1>3, <2>1, <2>3 DEF UpdTypeOK
  <2>5. Informed(u)'
    BY <1>1, <2>1, <2>3, <2>4 DEF Informed
  <2>6. ~ overlap => Placed(u)'
    BY <1>1, <2>1, <2>3 DEF Placed, Look
  <2>7. OnItsWay'
    BY <1>1, <2>3, StaysOnItsWay DEF Look
  <2> QED
    BY <1>1, <2>3, <2>5, <2>6, <2>7, UpdStepKeeps DEF Look, UpdTypeOK, Found
<1> QED
  BY <1>2, <1>3 DEF Look

LEMMA DownloadKeeps == ASSUME UpdInv, NEW u \in Updaters, Download(u) PROVE UpdInv'
<1>1. /\ Running(u) /\ upd[u].step = "looked" /\ Informed(u)
      /\ ~ overlap => Found # Absent /\ target = upd[u].me
      /\ UpdTypeOK
  BY DEF Download, Running, UpdInv, Alone, Placed
<1>2. CASE Ends(u)
  <2>1. OnItsWay'
    BY <1>1, <1>2, EndsRecord, StaysOnItsWay DEF Download, UpdTypeOK
  <2> QED
    BY <1>1, <1>2, <2>1, UpdEndKeeps DEF Download, UpdTypeOK, Found
<1>3. ASSUME upd' = [upd EXCEPT ![u].step = "unpacked", ![u].bin = upd[u].rel]
      PROVE  UpdInv'
  <2> DEFINE r == [upd[u] EXCEPT !.step = "unpacked", !.bin = upd[u].rel]
  <2>1. /\ r \in Update /\ r.step = "unpacked" /\ r.me = upd[u].me
        /\ r.rel = upd[u].rel /\ r.bin = upd[u].rel
    BY <1>1 DEF Update, Steps, UpdTypeOK
  <2>2. upd' = [upd EXCEPT ![u] = r]
    BY <1>3
  <2> HIDE DEF r
  <2>3. /\ upd' \in [Updaters -> Update]
        /\ upd'[u] = r
        /\ \A w \in Updaters : w # u => upd'[w] = upd[w]
    BY <1>1, <2>1, <2>2, OneRecord DEF UpdTypeOK
  <2>5. Informed(u)'
    BY <1>1, <2>1, <2>3 DEF Informed
  <2>6. ~ overlap => Placed(u)'
    BY <1>1, <2>1, <2>3 DEF Placed, Download
  <2>7. OnItsWay'
    BY <1>1, <2>3, StaysOnItsWay DEF Download
  <2> QED
    BY <1>1, <2>3, <2>5, <2>6, <2>7, UpdStepKeeps DEF Download, UpdTypeOK, Found
<1> QED
  BY <1>2, <1>3 DEF Download

LEMMA RemoveOldKeeps == ASSUME UpdInv, NEW u \in Updaters, RemoveOld(u) PROVE UpdInv'
<1>1. /\ Running(u) /\ upd[u].step = "unpacked" /\ Informed(u)
      /\ ~ overlap => target = upd[u].me
      /\ UpdTypeOK
  BY DEF RemoveOld, Running, UpdInv, Alone, Placed
<1>2. /\ upd' \in [Updaters -> Update]
      /\ upd'[u].step = "cleared"
      /\ upd'[u].me = upd[u].me /\ upd'[u].rel = upd[u].rel /\ upd'[u].bin = upd[u].bin
      /\ \A w \in Updaters : w # u => upd'[w] = upd[w]
  BY <1>1, BecomesRecord DEF RemoveOld, UpdTypeOK, Steps
<1>3. Informed(u)'
  BY <1>1, <1>2 DEF Informed
<1>4. ~ overlap => Found' # Absent /\ Placed(u)'
  <2>1. upd[u].me # Absent
    BY <1>1, BuildsAssumption DEF Informed, Builds
  <2> QED
    BY <1>1, <1>2, <2>1 DEF Placed, Found, RemoveOld
<1>5. OnItsWay'
  BY <1>1, <1>2, StaysOnItsWay DEF RemoveOld
<1> QED
  BY <1>1, <1>2, <1>3, <1>4, <1>5, UpdStepKeeps DEF RemoveOld, UpdTypeOK

LEMMA MoveAsideKeeps == ASSUME UpdInv, NEW u \in Updaters, MoveAside(u) PROVE UpdInv'
<1>1. /\ Running(u) /\ upd[u].step = "cleared" /\ Informed(u)
      /\ ~ overlap => Found # Absent /\ target = upd[u].me
      /\ UpdTypeOK
  BY DEF MoveAside, Running, UpdInv, Alone, Placed
<1>2. upd[u].me # Absent
  BY <1>1, BuildsAssumption DEF Informed, Builds
<1>3. ASSUME target # Absent, old' = target, target' = Absent, failures' = failures,
             upd' = [upd EXCEPT ![u].step = "moved", ![u].hadOld = TRUE]
      PROVE  UpdInv'
  <2> DEFINE r == [upd[u] EXCEPT !.step = "moved", !.hadOld = TRUE]
  <2>1. /\ r \in Update /\ r.step = "moved" /\ r.me = upd[u].me
        /\ r.rel = upd[u].rel /\ r.bin = upd[u].bin
    BY <1>1 DEF Update, Steps, UpdTypeOK
  <2>2. upd' = [upd EXCEPT ![u] = r]
    BY <1>3
  <2> HIDE DEF r
  <2>3. /\ upd' \in [Updaters -> Update]
        /\ upd'[u] = r
        /\ \A w \in Updaters : w # u => upd'[w] = upd[w]
    BY <1>1, <2>1, <2>2, OneRecord DEF UpdTypeOK
  <2>4. Informed(u)'
    BY <1>1, <2>1, <2>3 DEF Informed
  <2>5. ~ overlap => Found' # Absent /\ Placed(u)'
    BY <1>1, <1>3, <2>1, <2>3 DEF Placed, Found
  <2>6. OnItsWay'
    BY <2>1, <2>3 DEF OnItsWay
  <2> QED
    BY <1>1, <1>3, <2>3, <2>4, <2>5, <2>6, UpdStepKeeps DEF MoveAside, UpdTypeOK
<1>4. ASSUME target = Absent, Becomes(u, "moved"), UNCHANGED <<target, old, failures>>
      PROVE  UpdInv'
  <2>1. /\ upd' \in [Updaters -> Update]
        /\ upd'[u].step = "moved"
        /\ upd'[u].me = upd[u].me /\ upd'[u].rel = upd[u].rel /\ upd'[u].bin = upd[u].bin
        /\ \A w \in Updaters : w # u => upd'[w] = upd[w]
    BY <1>1, <1>4, BecomesRecord DEF UpdTypeOK, Steps
  <2>2. Informed(u)'
    BY <1>1, <2>1 DEF Informed
  <2>3. overlap
    BY <1>1, <1>2, <1>4
  <2>4. OnItsWay'
    BY <2>1 DEF OnItsWay
  <2> QED
    BY <1>1, <1>4, <2>1, <2>2, <2>3, <2>4, UpdStepKeeps DEF MoveAside, UpdTypeOK
<1>5. ASSUME failures' = failures + 1, Ends(u), UNCHANGED <<target, old>>
      PROVE  UpdInv'
  <2>1. failures' \in Nat /\ failures' > failures /\ failures' # 0
    BY <1>1, <1>5 DEF UpdTypeOK
  <2>2. OnItsWay'
    BY <2>1 DEF OnItsWay
  <2> QED
    BY <1>1, <1>5, <2>1, <2>2, UpdEndKeeps DEF MoveAside, UpdTypeOK, Found
<1> QED
  BY <1>3, <1>4, <1>5 DEF MoveAside

LEMMA PutNewKeeps == ASSUME UpdInv, NEW u \in Updaters, PutNew(u) PROVE UpdInv'
<1>1. /\ Running(u) /\ upd[u].step = "moved" /\ Informed(u)
      /\ ~ overlap => target = Absent /\ old = upd[u].me
      /\ UpdTypeOK
  BY DEF PutNew, Running, UpdInv, Alone, Placed
<1>2. upd[u].me # Absent /\ upd[u].bin \in Releases /\ upd[u].bin # Absent
  BY <1>1, BuildsAssumption DEF Informed, Builds
<1>3. ASSUME target' = upd[u].bin, Becomes(u, "placed"), failures' = failures
      PROVE  UpdInv'
  <2>1. /\ upd' \in [Updaters -> Update]
        /\ upd'[u].step = "placed"
        /\ upd'[u].me = upd[u].me /\ upd'[u].rel = upd[u].rel
        /\ \A w \in Updaters : w # u => upd'[w] = upd[w]
    BY <1>1, <1>3, BecomesRecord DEF UpdTypeOK, Steps
  <2>2. Informed(u)'
    BY <1>1, <2>1 DEF Informed
  <2>3. Found' # Absent /\ Placed(u)'
    BY <1>2, <1>3, <2>1 DEF Placed, Found
  <2>4. OnItsWay'
    BY <1>2, <1>3 DEF OnItsWay
  <2> QED
    BY <1>1, <1>2, <1>3, <2>1, <2>2, <2>3, <2>4, UpdStepKeeps DEF PutNew, UpdTypeOK, Builds
<1>4. ASSUME failures' = failures + 1, UNCHANGED target,
             IF upd[u].hadOld THEN Becomes(u, "failing") ELSE Ends(u)
      PROVE  UpdInv'
  <2>1. failures' \in Nat /\ failures' > failures /\ failures' > 0
    BY <1>1, <1>4 DEF UpdTypeOK
  <2>2. OnItsWay'
    BY <2>1 DEF OnItsWay
  <2>3. ~ overlap => Found' # Absent
    BY <1>1, <1>2, <1>4 DEF PutNew, Found
  <2>4. CASE upd[u].hadOld
    <3>1. Becomes(u, "failing")
      BY <1>4, <2>4
    <3>2. /\ upd' \in [Updaters -> Update]
          /\ upd'[u].step = "failing"
          /\ upd'[u].me = upd[u].me /\ upd'[u].rel = upd[u].rel
          /\ \A w \in Updaters : w # u => upd'[w] = upd[w]
      BY <1>1, <3>1, BecomesRecord DEF UpdTypeOK, Steps
    <3>3. Informed(u)' /\ (~ overlap => Placed(u)')
      BY <1>1, <1>4, <2>1, <3>2 DEF Informed, Placed, PutNew
    <3> QED
      BY <1>1, <1>4, <2>1, <2>2, <2>3, <3>2, <3>3, UpdStepKeeps DEF PutNew, UpdTypeOK
  <2>5. CASE ~ upd[u].hadOld
    BY <1>1, <1>4, <2>1, <2>2, <2>3, <2>5, UpdEndKeeps DEF PutNew, UpdTypeOK
  <2> QED
    BY <2>4, <2>5
<1> QED
  BY <1>3, <1>4 DEF PutNew

LEMMA RollBackKeeps == ASSUME UpdInv, NEW u \in Updaters, RollBack(u) PROVE UpdInv'
<1>1. /\ Running(u) /\ upd[u].step = "failing" /\ Informed(u)
      /\ ~ overlap => Found # Absent
      /\ UpdTypeOK
  BY DEF RollBack, Running, UpdInv, Alone
<1>2. /\ failures' \in Nat /\ failures' >= failures /\ failures' # 0
      /\ target' \in Builds \cup {Absent} /\ old' \in Builds \cup {Absent}
      /\ Found # Absent => Found' # Absent
  BY <1>1 DEF RollBack, UpdTypeOK, Informed, Found
<1>3. OnItsWay'
  BY <1>2 DEF OnItsWay
<1> QED
  BY <1>1, <1>2, <1>3, UpdEndKeeps DEF RollBack, UpdTypeOK

LEMMA CleanUpKeeps == ASSUME UpdInv, NEW u \in Updaters, CleanUp(u) PROVE UpdInv'
<1>1. /\ Running(u) /\ upd[u].step = "placed"
      /\ ~ overlap => target # Absent
      /\ UpdTypeOK
  BY DEF CleanUp, Running, UpdInv, Alone, Placed
<1>2. OnItsWay'
  BY <1>1, EndsRecord, StaysOnItsWay DEF CleanUp, UpdTypeOK
<1> QED
  BY <1>1, <1>2, UpdEndKeeps DEF CleanUp, UpdTypeOK, Found

LEMMA KillKeeps == ASSUME UpdInv, NEW u \in Updaters, KillUpdate(u) PROVE UpdInv'
<1>1. /\ Running(u)
      /\ ~ overlap => Found # Absent
      /\ UpdTypeOK
  BY DEF KillUpdate, UpdInv, Alone
<1>2. kills' \in Nat /\ kills' # 0
  BY <1>1 DEF KillUpdate, UpdTypeOK
<1>3. OnItsWay'
  BY <1>2 DEF OnItsWay
<1> QED
  BY <1>1, <1>2, <1>3, UpdEndKeeps DEF KillUpdate, UpdTypeOK, Found

LEMMA UpdInvStep == UpdInv /\ [UpdNext]_updVars => UpdInv'
<1> SUFFICES ASSUME UpdInv, [UpdNext]_updVars PROVE UpdInv'
  OBVIOUS
<1>1. ASSUME NEW u \in Updaters, BeginUpdate(u) \/ UpdStep(u) \/ KillUpdate(u)
      PROVE  UpdInv'
  BY <1>1, BeginKeeps, LookKeeps, DownloadKeeps, RemoveOldKeeps, MoveAsideKeeps, PutNewKeeps,
     RollBackKeeps, CleanUpKeeps, KillKeeps DEF UpdStep
<1>2. CASE Publish
  BY <1>2 DEF Publish, UpdInv, UpdTypeOK, Informed, Alone, Placed, OnItsWay, Running, Found
<1>3. CASE UNCHANGED updVars
  BY <1>3 DEF updVars, UpdInv, UpdTypeOK, Informed, Alone, Placed, OnItsWay, Running, Found
<1> QED
  BY <1>1, <1>2, <1>3 DEF UpdNext

-----------------------------------------------------------------------------
(* The theorems. *)

LEMMA UpdInvariance == UpdSpec => []UpdInv
  BY UpdInvInit, UpdInvStep, PTL DEF UpdSpec

\* What stands at kb or kb.old is always a build that was installed or whose archive had
\* the hash of the list of checksums (Apply), however many updates run side by side.
THEOREM InstalledIsWhole == UpdSpec => []UpdTypeOK
<1>1. UpdInv => UpdTypeOK
  BY DEF UpdInv
<1> QED
  BY <1>1, UpdInvariance, PTL

\* No failure and no kill of an update on its own leaves both places empty, and updates
\* that overlap leave a kb when all have ended and none met with a mishap (swap).
THEOREM ABinarySurvives == UpdSpec => []BinarySurvives
<1>1. UpdInv => BinarySurvives
  <2>1. SUFFICES ASSUME UpdInv PROVE BinarySurvives
    OBVIOUS
  <2>2. ~ overlap => Found # Absent
    BY <2>1 DEF UpdInv, Alone
  <2>3. ASSUME failures = 0, kills = 0, \A u \in Updaters : ~ Running(u)
        PROVE  target # Absent
    BY <2>1, <2>3 DEF UpdInv, OnItsWay, Running
  <2> QED
    BY <2>2, <2>3 DEF BinarySurvives
<1> QED
  BY <1>1, UpdInvariance, PTL

\* The step that a reader of swap has to believe: only the second rename changes the build
\* that is found, and it puts there what the comparison of versions let through.
LEMMA StepNeverOlder ==
  ASSUME UpdInv, [UpdNext]_updVars
  PROVE  \/ Found' = Found
         \/ overlap
         \/ /\ Found' \in Releases
            /\ Found = Dev \/ CompareVersions(Found', Found) = 1
<1> SUFFICES ASSUME ~ overlap
             PROVE  \/ Found' = Found
                    \/ /\ Found' \in Releases
                       /\ Found = Dev \/ CompareVersions(Found', Found) = 1
  OBVIOUS
<1>1. \A u \in Updaters : Informed(u) /\ Placed(u)
  BY DEF UpdInv, Alone
<1>2. ASSUME NEW u \in Updaters, RemoveOld(u) \/ MoveAside(u) PROVE Found' = Found
  <2>1. target = upd[u].me /\ upd[u].me # Absent
    BY <1>1, <1>2, BuildsAssumption
       DEF Placed, Informed, Builds, RemoveOld, MoveAside
  <2> QED
    BY <1>2, <2>1 DEF Found, RemoveOld, MoveAside
<1>3. ASSUME NEW u \in Updaters, PutNew(u)
      PROVE  \/ Found' = Found
             \/ /\ Found' \in Releases
                /\ Found = Dev \/ CompareVersions(Found', Found) = 1
  <2>1. /\ target = Absent /\ old = upd[u].me
        /\ upd[u].bin = upd[u].rel /\ upd[u].rel \in Releases /\ upd[u].rel # Absent
        /\ WorthInstalling(upd[u].rel, upd[u].me)
    BY <1>1, <1>3, BuildsAssumption DEF Placed, Informed, Builds, PutNew
  <2>2. CASE target' = upd[u].bin
    <3>1. Found = upd[u].me /\ Found' = upd[u].rel
      BY <2>1, <2>2 DEF Found
    <3> QED
      BY <2>1, <3>1 DEF WorthInstalling
  <2>3. CASE UNCHANGED target
    BY <1>3, <2>3 DEF Found, PutNew
  <2> QED
    BY <1>3, <2>2, <2>3 DEF PutNew
<1>4. ASSUME NEW u \in Updaters, RollBack(u) \/ CleanUp(u) PROVE Found' = Found
  <2>1. /\ upd[u].step = "failing" => target = Absent
        /\ upd[u].step = "placed" => target # Absent
    BY <1>1 DEF Placed
  <2> QED
    BY <1>4, <2>1 DEF Found, RollBack, CleanUp
<1>5. ASSUME NEW u \in Updaters,
             BeginUpdate(u) \/ Look(u) \/ Download(u) \/ KillUpdate(u)
      PROVE  Found' = Found
  BY <1>5 DEF Found, BeginUpdate, Look, Download, KillUpdate
<1>6. CASE Publish
  BY <1>6 DEF Found, Publish
<1>7. CASE UNCHANGED updVars
  BY <1>7 DEF Found, updVars
<1> QED
  BY <1>2, <1>3, <1>4, <1>5, <1>6, <1>7 DEF UpdNext, UpdStep

\* An installation never goes back to an older build: not when the newest release is
\* withdrawn, not when a rename fails, not when the update dies between the renames.
THEOREM AnUpdateIsNeverOlder == UpdSpec => NeverOlder
<1>1. UpdInv /\ [UpdNext]_updVars
        => [\/ Found' = Found
            \/ Found = Dev
            \/ overlap
            \/ CompareVersions(Found', Found) = 1]_updVars
  BY StepNeverOlder
<1> QED
  BY <1>1, UpdInvariance, PTL DEF UpdSpec, NeverOlder

-----------------------------------------------------------------------------
(* Serve.                                                                    *)

-----------------------------------------------------------------------------
(* The inductive invariant. *)

\* A write is in the history exactly when its handler has decided so, and not before.
Truthful(r) ==
    /\ req[r].step \in {"unsent", "refused", "accepted", "writing"} => r \notin Written
    /\ req[r].step \in {"replying", "answered", "left"}
         => req[r].done = (r \in Written) \/ ~ req[r].write
    /\ req[r].step = "writing" => req[r].write

\* A read under way was sent at a head that is still in the history.
Fresh(r) ==
    ~ req[r].write /\ req[r].step \in {"accepted", "replying", "answered"}
        => /\ req[r].since \in Int
           /\ req[r].step = "accepted" => req[r].since <= Len(hist)
           /\ req[r].step # "accepted" /\ req[r].done => req[r].since >= 0

\* A stop that was not hurried has no handler left when the store is closed.
Drained == proc = "closed" /\ ~ late => \A r \in Requests : ~ InHandler(r)

ServeInv ==
    /\ ServeTypeOK
    /\ \A r \in Requests : Truthful(r) /\ Fresh(r)
    /\ Drained

-----------------------------------------------------------------------------
(* Records and histories. *)

\* A step of one request leaves the others alone.
LEMMA OneRequest ==
  ASSUME req \in [Requests -> Request], NEW r \in Requests, NEW q \in Request,
         req' = [req EXCEPT ![r] = q]
  PROVE  /\ req' \in [Requests -> Request]
         /\ req'[r] = q
         /\ \A s \in Requests : s # r => req'[s] = req[s]
  OBVIOUS

\* The branch moves: its author joins those who wrote, and nobody leaves them.
LEMMA Moves ==
  ASSUME hist \in Seq(Requests \cup {Cli}), NEW w \in Requests \cup {Cli},
         hist' = Append(hist, w)
  PROVE  /\ hist' \in Seq(Requests \cup {Cli})
         /\ Written' = Written \cup {w}
         /\ Len(hist') = Len(hist) + 1
<1>1. /\ hist' \in Seq(Requests \cup {Cli})
      /\ Len(hist') = Len(hist) + 1
      /\ \A i \in 1..Len(hist) : hist'[i] = hist[i]
      /\ hist'[Len(hist) + 1] = w
  OBVIOUS
<1>2. Len(hist) \in Nat
  OBVIOUS
<1>3. \A i : i \in 1..Len(hist') <=> i \in 1..Len(hist) \/ i = Len(hist) + 1
  BY <1>1, <1>2
<1>4. \A v : v \in Written' <=> \E i \in 1..Len(hist') : v = hist'[i]
  BY DEF Written
<1>5. \A v : v \in Written <=> \E i \in 1..Len(hist) : v = hist[i]
  BY DEF Written
<1>6. \A v : v \in Written' <=> v \in Written \/ v = w
  BY <1>1, <1>2, <1>3, <1>4, <1>5
<1> QED
  BY <1>1, <1>6

\* Without a move the history is what it was.
LEMMA Stays == ASSUME UNCHANGED hist PROVE Written' = Written
  BY DEF Written

-----------------------------------------------------------------------------
LEMMA ServeInvInit == ServeInit => ServeInv
<1> SUFFICES ASSUME ServeInit PROVE ServeInv
  OBVIOUS
<1>1. ToBeSent \in Request
  BY DEF ToBeSent, Request
<1>2. ServeTypeOK
  <2>1. <<>> \in Seq(Requests \cup {Cli})
    OBVIOUS
  <2>2. req \in [Requests -> Request]
    BY <1>1 DEF ServeInit
  <2> QED
    BY <2>1, <2>2 DEF ServeInit, ServeTypeOK
<1>3. Written = {}
  <2>1. Len(hist) = 0 /\ \A i : i \notin 1..0
    BY DEF ServeInit
  <2> QED
    BY <2>1 DEF Written
<1>4. \A r \in Requests : req[r].step = "unsent"
  BY DEF ServeInit, ToBeSent
<1>5. \A r \in Requests : Truthful(r) /\ Fresh(r)
  BY <1>3, <1>4 DEF Truthful, Fresh
<1>6. Drained
  BY DEF ServeInit, Drained
<1> QED
  BY <1>2, <1>5, <1>6 DEF ServeInv

\* The frame of a handler's step: it suffices to look at its own request.
LEMMA ServeStepKeeps ==
  ASSUME ServeInv, NEW r \in Requests, NEW q \in Request,
         req' = [req EXCEPT ![r] = q],
         UNCHANGED <<proc, late, stops, crashes>>,
         UNCHANGED hist \/ hist' = Append(hist, r),
         Truthful(r)', Fresh(r)',
         InHandler(r)' => InHandler(r) \/ proc = "up"
  PROVE  ServeInv'
<1>1. /\ req' \in [Requests -> Request]
      /\ req'[r] = q
      /\ \A s \in Requests : s # r => req'[s] = req[s]
  BY OneRequest DEF ServeInv, ServeTypeOK
<1>2. /\ hist' \in Seq(Requests \cup {Cli})
      /\ \A s \in Requests : s # r => (s \in Written') = (s \in Written)
      /\ Len(hist) \in Nat /\ Len(hist') \in Nat /\ Len(hist') >= Len(hist)
  BY Moves, Stays DEF ServeInv, ServeTypeOK
<1>3. ServeTypeOK'
  BY <1>1, <1>2 DEF ServeInv, ServeTypeOK
<1>4. ASSUME NEW s \in Requests PROVE Truthful(s)' /\ Fresh(s)'
  <2>1. CASE s = r
    BY <2>1
  <2>2. CASE s # r
    <3>1. Truthful(s) /\ Fresh(s) /\ req'[s] = req[s]
      BY <1>1, <2>2 DEF ServeInv
    <3> QED
      BY <1>2, <2>2, <3>1 DEF Truthful, Fresh
  <2> QED
    BY <2>1, <2>2
<1>5. Drained'
  BY <1>1 DEF ServeInv, Drained, InHandler
<1> QED
  BY <1>3, <1>4, <1>5 DEF ServeInv

\* What the record of a request is before a step of its handler.
LEMMA RequestOf == ASSUME ServeInv, NEW r \in Requests PROVE req[r] \in Request /\ req \in [Requests -> Request]
  BY DEF ServeInv, ServeTypeOK

\* A handler that has decided: the record it leaves.
LEMMA RepliesRecord ==
  ASSUME ServeInv, NEW r \in Requests, NEW d \in BOOLEAN, Replies(r, d)
  PROVE  \E q \in Request :
            /\ req' = [req EXCEPT ![r] = q]
            /\ req'[r] = q
            /\ q.step = "replying" /\ q.done = d
            /\ q.write = req[r].write /\ q.since = req[r].since
<1> DEFINE q == [req[r] EXCEPT !.step = "replying", !.done = d]
<1>1. /\ q \in Request /\ q.step = "replying" /\ q.done = d
      /\ q.write = req[r].write /\ q.since = req[r].since
  BY RequestOf DEF Request
<1>2. req' = [req EXCEPT ![r] = q]
  BY DEF Replies
<1> HIDE DEF q
<1>3. req'[r] = q
  BY <1>1, <1>2, RequestOf
<1> QED
  BY <1>1, <1>2, <1>3

\* A refusal, at whatever point before the branch has moved.
LEMMA RefusalKeeps ==
  ASSUME ServeInv, NEW r \in Requests, req[r].step \in {"accepted", "writing"},
         Replies(r, FALSE), UNCHANGED <<proc, late, hist, stops, crashes>>
  PROVE  ServeInv'
<1>1. PICK q \in Request :
            /\ req' = [req EXCEPT ![r] = q]
            /\ req'[r] = q
            /\ q.step = "replying" /\ q.done = FALSE
            /\ q.write = req[r].write /\ q.since = req[r].since
  BY RepliesRecord
<1>2. (r \in Written') = FALSE /\ InHandler(r)
  BY Stays DEF ServeInv, Truthful, InHandler
<1>3. Truthful(r)'
  BY <1>1, <1>2 DEF Truthful
<1>4. Fresh(r)'
  BY <1>1 DEF Fresh, Request
<1> QED
  BY <1>1, <1>2, <1>3, <1>4, ServeStepKeeps

LEMMA SendKeeps == ASSUME ServeInv, NEW r \in Requests, Send(r) PROVE ServeInv'
<1>1. PICK w \in BOOLEAN :
         req' = [req EXCEPT ![r].write = w,
                            ![r].since = IF w THEN 0 ELSE Len(hist),
                            ![r].step = IF proc = "up" THEN "accepted" ELSE "refused"]
  BY DEF Send
<1> DEFINE n == IF w THEN 0 ELSE Len(hist)
           t == IF proc = "up" THEN "accepted" ELSE "refused"
           q == [req[r] EXCEPT !.write = w, !.since = n, !.step = t]
<1>2. Len(hist) \in Nat
  BY DEF ServeInv, ServeTypeOK
<1>3. n \in Int /\ (~ w => n = Len(hist)) /\ t \in {"accepted", "refused"}
      /\ (t = "accepted" => proc = "up")
  BY <1>2
<1>4. req' = [req EXCEPT ![r] = q]
  BY <1>1
<1> HIDE DEF n, t
<1>5. /\ q \in Request /\ q.write = w
      /\ q.step \in {"accepted", "refused"}
      /\ q.step = "accepted" => proc = "up"
      /\ ~ w => q.since = Len(hist)
  BY <1>3, RequestOf DEF Request
<1> HIDE DEF q
<1>6. req'[r] = q
  BY <1>5, <1>4, RequestOf
<1>7. Truthful(r)'
  BY <1>5, <1>6, Stays DEF Send, ServeInv, Truthful
<1>8. Fresh(r)'
  BY <1>2, <1>5, <1>6 DEF Send, Fresh
<1>9. InHandler(r)' => proc = "up"
  BY <1>5, <1>6 DEF InHandler
<1> QED
  BY <1>5, <1>4, <1>7, <1>8, <1>9, ServeStepKeeps DEF Send

LEMMA ReadKeeps == ASSUME ServeInv, NEW r \in Requests, Read(r) PROVE ServeInv'
<1>1. CASE Replies(r, FALSE)
  BY <1>1, RefusalKeeps DEF Read
<1>2. ASSUME req' = [req EXCEPT ![r].step = "replying", ![r].done = TRUE,
                                ![r].since = Len(hist) - @]
      PROVE  ServeInv'
  <2> DEFINE n == Len(hist) - req[r].since
             q == [req[r] EXCEPT !.step = "replying", !.done = TRUE, !.since = n]
  <2>1. n \in Int /\ n >= 0
    BY DEF ServeInv, ServeTypeOK, Fresh, Read
  <2>3. req' = [req EXCEPT ![r] = q]
    BY <1>2
  <2> HIDE DEF n
  <2>2. q \in Request /\ q.step = "replying" /\ q.write = req[r].write /\ q.since = n
    BY <2>1, RequestOf DEF Request
  <2> HIDE DEF q
  <2>4. req'[r] = q
    BY <2>2, <2>3, RequestOf
  <2>5. Truthful(r)' /\ InHandler(r)
    BY <2>2, <2>4, Stays DEF Read, ServeInv, Truthful, InHandler
  <2>6. Fresh(r)'
    BY <2>1, <2>2, <2>4 DEF Fresh
  <2> QED
    BY <2>2, <2>3, <2>5, <2>6, ServeStepKeeps DEF Read
<1> QED
  BY <1>1, <1>2 DEF Read

LEMMA ReadForWriteKeeps == ASSUME ServeInv, NEW r \in Requests, ReadForWrite(r) PROVE ServeInv'
<1>1. CASE Replies(r, FALSE)
  BY <1>1, RefusalKeeps DEF ReadForWrite
<1>2. ASSUME req' = [req EXCEPT ![r].step = "writing"] PROVE ServeInv'
  <2> DEFINE q == [req[r] EXCEPT !.step = "writing"]
  <2>1. q \in Request /\ q.step = "writing" /\ q.write = req[r].write
    BY RequestOf DEF Request
  <2>2. req' = [req EXCEPT ![r] = q]
    BY <1>2
  <2> HIDE DEF q
  <2>3. req'[r] = q
    BY <2>1, <2>2, RequestOf
  <2>4. Truthful(r)' /\ Fresh(r)' /\ InHandler(r)
    BY <2>1, <2>3, Stays DEF ReadForWrite, ServeInv, Truthful, Fresh, InHandler
  <2> QED
    BY <2>1, <2>2, <2>4, ServeStepKeeps DEF ReadForWrite
<1> QED
  BY <1>1, <1>2 DEF ReadForWrite

LEMMA LandKeeps == ASSUME ServeInv, NEW r \in Requests, Land(r) PROVE ServeInv'
<1>1. PICK q \in Request :
            /\ req' = [req EXCEPT ![r] = q]
            /\ req'[r] = q
            /\ q.step = "replying" /\ q.done = TRUE
            /\ q.write = req[r].write /\ q.since = req[r].since
  BY RepliesRecord DEF Land
<1>2. r \in Written' /\ InHandler(r)
  BY Moves DEF Land, ServeInv, ServeTypeOK, InHandler
<1>3. req[r].write
  BY DEF Land, ServeInv, Truthful
<1>4. Truthful(r)' /\ Fresh(r)'
  BY <1>1, <1>2, <1>3 DEF Truthful, Fresh
<1> QED
  BY <1>1, <1>2, <1>4, ServeStepKeeps DEF Land

LEMMA AnswerKeeps == ASSUME ServeInv, NEW r \in Requests, Answer(r) PROVE ServeInv'
<1>1. PICK t \in {"answered", "left"} : req' = [req EXCEPT ![r].step = t]
  BY DEF Answer
<1> DEFINE q == [req[r] EXCEPT !.step = t]
<1>2. /\ q \in Request /\ q.step = t /\ q.write = req[r].write
      /\ q.since = req[r].since /\ q.done = req[r].done
  BY RequestOf DEF Request
<1>3. req' = [req EXCEPT ![r] = q]
  BY <1>1
<1> HIDE DEF q
<1>4. req'[r] = q
  BY <1>2, <1>3, RequestOf
<1>5. /\ InHandler(r) /\ ~ InHandler(r)'
      /\ Truthful(r) /\ Fresh(r) /\ Written' = Written
  BY <1>2, <1>4, Stays DEF Answer, ServeInv, InHandler
<1>6. Truthful(r)' /\ Fresh(r)'
  BY <1>2, <1>4, <1>5 DEF Answer, Truthful, Fresh
<1> QED
  BY <1>2, <1>3, <1>5, <1>6, ServeStepKeeps DEF Answer

LEMMA CliKeeps == ASSUME ServeInv, CliWrite PROVE ServeInv'
<1>1. /\ hist' \in Seq(Requests \cup {Cli})
      /\ Written' = Written \cup {Cli}
      /\ Len(hist') = Len(hist) + 1 /\ Len(hist) \in Nat
  BY Moves DEF CliWrite, ServeInv, ServeTypeOK
<1>2. \A r \in Requests : (r \in Written') = (r \in Written)
  BY <1>1, RequestsAssumption
<1>3. ServeTypeOK' /\ Drained'
  BY <1>1 DEF CliWrite, ServeInv, ServeTypeOK, Drained, InHandler
<1>4. ASSUME NEW r \in Requests PROVE Truthful(r)' /\ Fresh(r)'
  <2>1. Truthful(r) /\ Fresh(r) /\ req' = req
    BY DEF ServeInv, CliWrite
  <2> QED
    BY <1>1, <1>2, <2>1 DEF Truthful, Fresh
<1> QED
  BY <1>3, <1>4 DEF ServeInv

\* The process changes, the requests do not.
LEMMA ProcessKeeps ==
  ASSUME ServeInv, UNCHANGED <<hist, req>>,
         proc' \in {"down", "up", "draining", "closed", "broken"}, late' \in BOOLEAN,
         stops' \in Nat, crashes' \in Nat, Drained'
  PROVE  ServeInv'
<1>1. \A r \in Requests : Truthful(r)' /\ Fresh(r)'
  BY Stays DEF ServeInv, Truthful, Fresh
<1> QED
  BY <1>1 DEF ServeInv, ServeTypeOK

\* The process ends, and cuts off the requests it was handling.
LEMMA ServeEndKeeps ==
  ASSUME ServeInv, UNCHANGED <<late, hist, stops>>, proc' = "down", req' = CutOff,
         crashes' \in Nat
  PROVE  ServeInv'
<1>1. \A r \in Requests : req[r] \in Request
  BY RequestOf
<1>2. ASSUME NEW r \in Requests
      PROVE  /\ req'[r] \in Request
             /\ req'[r] = req[r] \/ req'[r].step = "cut"
  BY <1>1 DEF CutOff, Request
<1>3. req' \in [Requests -> Request]
  BY <1>2 DEF CutOff
<1>4. ASSUME NEW r \in Requests PROVE Truthful(r)' /\ Fresh(r)'
  BY <1>2, Stays DEF ServeInv, Truthful, Fresh
<1>5. ServeTypeOK' /\ Drained'
  BY <1>3 DEF ServeInv, ServeTypeOK, Drained
<1> QED
  BY <1>4, <1>5 DEF ServeInv

LEMMA ServeInvStep == ServeInv /\ [ServeNext]_serveVars => ServeInv'
<1> SUFFICES ASSUME ServeInv, [ServeNext]_serveVars PROVE ServeInv'
  OBVIOUS
<1>1. ASSUME NEW r \in Requests, Refuse(r) \/ WriteFails(r) PROVE ServeInv'
  BY <1>1, RefusalKeeps DEF Refuse, WriteFails
<1>2. ASSUME NEW r \in Requests, Send(r) \/ HandlerStep(r) PROVE ServeInv'
  BY <1>1, <1>2, SendKeeps, ReadKeeps, ReadForWriteKeeps, LandKeeps, AnswerKeeps
     DEF HandlerStep
<1>3. CASE CliWrite
  BY <1>3, CliKeeps
<1>4. CASE Start \/ Terminate \/ ListenerFails
  <2>1. /\ UNCHANGED <<hist, req>>
        /\ proc' \in {"up", "draining", "broken"}
        /\ late' \in BOOLEAN /\ stops' \in Nat /\ crashes' \in Nat
    <3>1. late \in BOOLEAN /\ stops \in Nat /\ crashes \in Nat
      BY DEF ServeInv, ServeTypeOK
    <3>2. CASE Start
      BY <3>1, <3>2 DEF Start
    <3>3. CASE Terminate
      BY <3>1, <3>3 DEF Terminate
    <3>4. CASE ListenerFails
      BY <3>1, <3>4 DEF ListenerFails
    <3> QED
      BY <1>4, <3>2, <3>3, <3>4
  <2>2. Drained'
    BY <2>1 DEF Drained
  <2> QED
    BY <2>1, <2>2, ProcessKeeps
<1>5. CASE Drain \/ GraceEnds
  <2>1. Drained'
    BY <1>5 DEF Drain, GraceEnds, Drained, InHandler
  <2> QED
    BY <1>5, <2>1, ProcessKeeps DEF Drain, GraceEnds, ServeInv, ServeTypeOK
<1>6. CASE Exit \/ Crash
  BY <1>6, ServeEndKeeps DEF Exit, Crash, ServeInv, ServeTypeOK
<1>7. CASE UNCHANGED serveVars
  BY <1>7, ProcessKeeps DEF serveVars, ServeInv, ServeTypeOK, Drained, InHandler
<1> QED
  BY <1>2, <1>3, <1>4, <1>5, <1>6, <1>7 DEF ServeNext, StopStep

-----------------------------------------------------------------------------
(* The theorems. *)

LEMMA ServeInvariance == ServeSpec => []ServeInv
  BY ServeInvInit, ServeInvStep, PTL DEF ServeSpec

\* The answer to a write is the truth about it, for any number of requests, whatever fails
\* under their handlers and however the server ends (handleNoteCreate, handleNoteDelete).
THEOREM AnswersTellTheTruth == ServeSpec => []AnswersTell
<1>1. ServeInv => AnswersTell
  BY DEF ServeInv, Truthful, AnswersTell
<1> QED
  BY <1>1, ServeInvariance, PTL

\* A read shows every write that was answered before it was sent, over restarts.
THEOREM ReadsAreNeverStale == ServeSpec => []ReadsAreFresh
<1>1. ServeInv => ReadsAreFresh
  BY DEF ServeInv, Fresh, ReadsAreFresh
<1> QED
  BY <1>1, ServeInvariance, PTL

\* The one step that can cut a request off without a crash is the end of a process whose
\* listener failed or whose grace ran out.
LEMMA CutsOnlyLate ==
  ASSUME ServeInv, [ServeNext]_serveVars, NEW r \in Requests,
         req'[r].step = "cut", req[r].step # "cut"
  PROVE  late \/ proc = "broken" \/ crashes' > crashes
<1> USE RequestOf
<1>1. ASSUME NEW s \in Requests, Send(s) \/ HandlerStep(s) PROVE FALSE
  <2>1. PICK q \in Request : q.step # "cut" /\ req' = [req EXCEPT ![s] = q]
    <3>1. CASE Send(s)
      <4>1. PICK w \in BOOLEAN :
               req' = [req EXCEPT ![s].write = w,
                                  ![s].since = IF w THEN 0 ELSE Len(hist),
                                  ![s].step = IF proc = "up" THEN "accepted" ELSE "refused"]
        BY <3>1 DEF Send
      <4> DEFINE n == IF w THEN 0 ELSE Len(hist)
                 t == IF proc = "up" THEN "accepted" ELSE "refused"
                 q == [req[s] EXCEPT !.write = w, !.since = n, !.step = t]
      <4>2. n \in Int /\ t \in {"accepted", "refused"}
        BY DEF ServeInv, ServeTypeOK
      <4>3. req' = [req EXCEPT ![s] = q]
        BY <4>1
      <4> HIDE DEF n, t
      <4>4. q \in Request /\ q.step # "cut"
        BY <4>2 DEF Request
      <4> QED
        BY <4>3, <4>4
    <3>2. CASE \E d \in BOOLEAN : Replies(s, d)
      BY <3>2, RepliesRecord
    <3>3. CASE Read(s)
      <4>1. CASE Replies(s, FALSE)
        BY <3>2, <4>1
      <4>2. ASSUME req' = [req EXCEPT ![s].step = "replying", ![s].done = TRUE,
                                      ![s].since = Len(hist) - @]
            PROVE  \E q \in Request : q.step # "cut" /\ req' = [req EXCEPT ![s] = q]
        <5> DEFINE n == Len(hist) - req[s].since
                   q == [req[s] EXCEPT !.step = "replying", !.done = TRUE, !.since = n]
        <5>1. n \in Int
          BY <3>3 DEF ServeInv, ServeTypeOK, Fresh, Read
        <5>2. req' = [req EXCEPT ![s] = q]
          BY <4>2
        <5> HIDE DEF n
        <5>3. q \in Request /\ q.step # "cut"
          BY <5>1 DEF Request
        <5> QED
          BY <5>2, <5>3
      <4> QED
        BY <3>3, <4>1, <4>2 DEF Read
    <3>4. ASSUME NEW t \in {"writing", "answered", "left"},
                 req' = [req EXCEPT ![s].step = t]
          PROVE  \E q \in Request : q.step # "cut" /\ req' = [req EXCEPT ![s] = q]
      <4> DEFINE q == [req[s] EXCEPT !.step = t]
      <4>1. q \in Request /\ q.step # "cut"
        BY DEF Request
      <4> QED
        BY <3>4, <4>1
    <3> QED
      BY <1>1, <3>1, <3>2, <3>3, <3>4
         DEF HandlerStep, Refuse, ReadForWrite, Land, WriteFails, Answer
  <2> QED
    BY <2>1
<1>2. CASE Exit
  <2>1. CASE InHandler(r)
    BY <1>2, <2>1 DEF Exit, ServeInv, Drained
  <2>2. CASE ~ InHandler(r)
    BY <1>2, <2>2 DEF Exit, CutOff
  <2> QED
    BY <2>1, <2>2
<1>3. CASE Crash
  BY <1>3 DEF Crash, ServeInv, ServeTypeOK
<1>4. CASE CliWrite \/ Start \/ Terminate \/ Drain \/ GraceEnds \/ ListenerFails
           \/ UNCHANGED serveVars
  BY <1>4 DEF CliWrite, Start, Terminate, Drain, GraceEnds, ListenerFails, serveVars
<1> QED
  BY <1>1, <1>2, <1>3, <1>4 DEF ServeNext, StopStep

\* A graceful stop that has the time loses no answer (serveProc.wait).
THEOREM AStopLosesNothing == ServeSpec => StopLosesNothing
<1>1. ServeInv /\ [ServeNext]_serveVars
        => [\A r \in Requests :
              req'[r].step = "cut" /\ req[r].step # "cut"
                 => late \/ proc = "broken" \/ crashes' > crashes]_serveVars
  BY CutsOnlyLate
<1> QED
  BY <1>1, ServeInvariance, PTL DEF ServeSpec, StopLosesNothing

-----------------------------------------------------------------------------
(* Upgrade.                                                                  *)

-----------------------------------------------------------------------------
(* Versions are ordered.                                                      *)

Segments == [num : Nat, pre : Nat]

\* A set of natural numbers that is not empty has a first one.
LEMMA FirstNumber ==
  ASSUME NEW T \in SUBSET Nat, T # {}
  PROVE  \E x \in T : \A y \in T : x <= y
<1>1. PICK x \in T : \A y \in T : ~ (<<y, x>> \in OpToRel(<, Nat))
  BY NatLessThanWellFounded, WFMin
<1>2. \A y \in T : ~ (y < x)
  BY <1>1 DEF OpToRel
<1> QED
  BY <1>2

\* The order of the segments: by number, and a pre-release before the final release.
LEMMA SegmentsAreOrdered ==
  ASSUME NEW a \in Segments, NEW b \in Segments
  PROVE  /\ CmpSeg(a, b) \in {-1, 0, 1}
         /\ CmpSeg(a, b) = 0 <=> a = b
         /\ CmpSeg(a, b) = 1 <=>
               \/ a.num > b.num
               \/ /\ a.num = b.num /\ a.pre # b.pre
                  /\ a.pre = 0 \/ (b.pre # 0 /\ a.pre > b.pre)
<1>1. /\ a.num \in Nat /\ a.pre \in Nat /\ b.num \in Nat /\ b.pre \in Nat
      /\ (a = b <=> a.num = b.num /\ a.pre = b.pre)
  BY DEF Segments
<1>2. CASE a.num < b.num
  BY <1>1, <1>2 DEF CmpSeg
<1>3. CASE a.num > b.num
  BY <1>1, <1>3 DEF CmpSeg
<1>4. CASE a = b
  BY <1>1, <1>4 DEF CmpSeg
<1>5. CASE a.num = b.num /\ a # b
  BY <1>1, <1>5 DEF CmpSeg
<1> QED
  BY <1>1, <1>2, <1>3, <1>4, <1>5

LEMMA SegmentsAreTransitive ==
  ASSUME NEW a \in Segments, NEW b \in Segments, NEW d \in Segments,
         CmpSeg(a, b) = 1, CmpSeg(b, d) = 1
  PROVE  CmpSeg(a, d) = 1
<1>1. /\ a.num \in Nat /\ a.pre \in Nat /\ b.num \in Nat /\ b.pre \in Nat
      /\ d.num \in Nat /\ d.pre \in Nat
  BY DEF Segments
<1>2. \/ a.num > b.num
      \/ /\ a.num = b.num /\ a.pre # b.pre
         /\ a.pre = 0 \/ (b.pre # 0 /\ a.pre > b.pre)
  BY SegmentsAreOrdered
<1>3. \/ b.num > d.num
      \/ /\ b.num = d.num /\ b.pre # d.pre
         /\ b.pre = 0 \/ (d.pre # 0 /\ b.pre > d.pre)
  BY SegmentsAreOrdered
<1>4. \/ a.num > d.num
      \/ /\ a.num = d.num /\ a.pre # d.pre
         /\ a.pre = 0 \/ (d.pre # 0 /\ a.pre > d.pre)
  BY <1>1, <1>2, <1>3
<1> QED
  BY <1>4, SegmentsAreOrdered

LEMMA SegAtType ==
  ASSUME NEW v \in Releases
  PROVE  v \in Seq(Segments) /\ Len(v) \in Nat
         /\ \A i \in Nat \ {0} : SegAt(v, i) \in Segments
<1>1. v \in Seq(Segments)
  BY BuildsAssumption DEF Segments
<1>2. ASSUME NEW i \in Nat \ {0} PROVE SegAt(v, i) \in Segments
  <2>1. CASE i <= Len(v)
    <3>1. i \in 1..Len(v)
      BY <1>1, <2>1
    <3> QED
      BY <1>1, <2>1, <3>1 DEF SegAt
  <2>2. CASE ~ (i <= Len(v))
    BY <2>2 DEF SegAt, Segments
  <2> QED
    BY <2>1, <2>2
<1> QED
  BY <1>1, <1>2

\* One version is newer than another when it is at the first segment they differ in, a
\* segment that is not written counting as .0.
NewerAt(a, b, i) ==
  /\ CmpSeg(SegAt(a, i), SegAt(b, i)) = 1
  /\ \A j \in 1..(i - 1) : SegAt(a, j) = SegAt(b, j)

LEMMA NewerIsAtFirstDifference ==
  ASSUME NEW a \in Releases, NEW b \in Releases
  PROVE  CompareVersions(a, b) = 1 <=> \E i \in Nat \ {0} : NewerAt(a, b, i)
<1>1. /\ Len(a) \in Nat /\ Len(b) \in Nat
      /\ \A i \in Nat \ {0} : SegAt(a, i) \in Segments /\ SegAt(b, i) \in Segments
  BY SegAtType
<1>2. \A i \in Nat \ {0} : CmpSeg(SegAt(a, i), SegAt(b, i)) = 0 <=> SegAt(a, i) = SegAt(b, i)
  BY <1>1, SegmentsAreOrdered
<1>3. \A i : i \in Differ(a, b) <=> /\ i \in 1..(Len(a) + Len(b))
                                   /\ CmpSeg(SegAt(a, i), SegAt(b, i)) # 0
  BY DEF Differ
<1>4. Differ(a, b) \subseteq Nat \ {0}
  BY <1>1, <1>3
<1>5. \A i \in Nat \ {0} : i > Len(a) + Len(b) => SegAt(a, i) = SegAt(b, i)
  BY <1>1 DEF SegAt
<1>6. \A i \in Nat \ {0} : i \in Differ(a, b) <=> SegAt(a, i) # SegAt(b, i)
  BY <1>1, <1>2, <1>3, <1>5
<1>7. CASE Differ(a, b) = {}
  <2>1. CompareVersions(a, b) = 0
    BY <1>7 DEF CompareVersions
  <2>2. \A i \in Nat \ {0} : CmpSeg(SegAt(a, i), SegAt(b, i)) = 0
    BY <1>2, <1>6, <1>7
  <2> QED
    BY <2>1, <2>2 DEF NewerAt
<1>8. CASE Differ(a, b) # {}
  <2> DEFINE first == CHOOSE k \in Differ(a, b) : \A j \in Differ(a, b) : k <= j
  <2>1. \E k \in Differ(a, b) : \A j \in Differ(a, b) : k <= j
    BY <1>4, <1>8, FirstNumber
  <2>2. first \in Differ(a, b) /\ \A j \in Differ(a, b) : first <= j
    BY <2>1
  <2>3. CompareVersions(a, b) = CmpSeg(SegAt(a, first), SegAt(b, first))
    BY <1>8 DEF CompareVersions
  <2> HIDE DEF first
  <2>4. first \in Nat \ {0} /\ \A j \in 1..(first - 1) : SegAt(a, j) = SegAt(b, j)
    BY <1>4, <1>6, <2>2
  <2>5. ASSUME NEW i \in Nat \ {0}, NewerAt(a, b, i)
        PROVE  i = first
    <3>1. SegAt(a, i) # SegAt(b, i) /\ \A j \in 1..(i - 1) : SegAt(a, j) = SegAt(b, j)
      BY <1>2, <2>5 DEF NewerAt
    <3>2. first <= i
      BY <1>6, <2>2, <3>1
    <3>3. ~ (first < i)
      BY <1>6, <2>2, <2>4, <3>1
    <3> QED
      BY <2>4, <3>2, <3>3
  <2> QED
    BY <2>3, <2>4, <2>5 DEF NewerAt
<1> QED
  BY <1>7, <1>8

\* Being newer is transitive, whatever pre-releases and segments left out are on the way: an
\* installation that only ever takes newer releases never comes back (compareVersions).
THEOREM NewerIsTransitive ==
  ASSUME NEW a \in Releases, NEW b \in Releases, NEW d \in Releases,
         CompareVersions(a, b) = 1, CompareVersions(b, d) = 1
  PROVE  CompareVersions(a, d) = 1
<1>1. PICK i \in Nat \ {0} : NewerAt(a, b, i)
  BY NewerIsAtFirstDifference
<1>2. PICK k \in Nat \ {0} : NewerAt(b, d, k)
  BY NewerIsAtFirstDifference
<1>3. \A j \in Nat \ {0} : /\ SegAt(a, j) \in Segments /\ SegAt(b, j) \in Segments
                          /\ SegAt(d, j) \in Segments
  BY SegAtType
<1>4. CASE i < k
  <2>1. SegAt(b, i) = SegAt(d, i) /\ \A j \in 1..(i - 1) : SegAt(a, j) = SegAt(d, j)
    BY <1>1, <1>2, <1>4 DEF NewerAt
  <2>2. NewerAt(a, d, i)
    BY <1>1, <2>1 DEF NewerAt
  <2> QED
    BY <2>2, NewerIsAtFirstDifference
<1>5. CASE k < i
  <2>1. SegAt(a, k) = SegAt(b, k) /\ \A j \in 1..(k - 1) : SegAt(a, j) = SegAt(d, j)
    BY <1>1, <1>2, <1>5 DEF NewerAt
  <2>2. NewerAt(a, d, k)
    BY <1>2, <2>1 DEF NewerAt
  <2> QED
    BY <2>2, NewerIsAtFirstDifference
<1>6. CASE i = k
  <2>1. CmpSeg(SegAt(a, i), SegAt(d, i)) = 1
    BY <1>1, <1>2, <1>3, <1>6, SegmentsAreTransitive DEF NewerAt
  <2>2. \A j \in 1..(i - 1) : SegAt(a, j) = SegAt(d, j)
    BY <1>1, <1>2, <1>6 DEF NewerAt
  <2>3. NewerAt(a, d, i)
    BY <2>1, <2>2 DEF NewerAt
  <2> QED
    BY <2>3, NewerIsAtFirstDifference
<1> QED
  BY <1>4, <1>5, <1>6

-----------------------------------------------------------------------------
(* The upgrade is an update and a server.                                     *)

\* A step of the one is no step of the other.
LEMMA BothStep ==
  ASSUME [Next]_vars
  PROVE  [UpdNext]_updVars /\ [ServeNext]_serveVars
<1>1. CASE StartServer
  BY <1>1 DEF StartServer, ServeNext
<1>2. CASE Serving
  BY <1>2 DEF Serving, ServeNext, HandlerStep
<1>3. CASE Updating
  BY <1>3 DEF Updating
<1>4. CASE UNCHANGED vars
  BY <1>4 DEF vars, updVars, serveVars
<1> QED
  BY <1>1, <1>2, <1>3, <1>4 DEF Next

LEMMA UpgradeIsUpdate == Spec => UpdSpec
<1>1. Init => UpdInit
  BY DEF Init
<1>2. [Next]_vars => [UpdNext]_updVars
  BY BothStep
<1> QED
  BY <1>1, <1>2, PTL DEF Spec, UpdSpec

LEMMA UpgradeIsServe == Spec => ServeSpec
<1>1. Init => ServeInit
  BY DEF Init
<1>2. [Next]_vars => [ServeNext]_serveVars
  BY BothStep
<1> QED
  BY <1>1, <1>2, PTL DEF Spec, ServeSpec

\* Whatever a server and the updates of its binary do at the same time, each keeps what it
\* promises alone: no answer lies and no stop in time loses one while the binary moves
\* about, and an update with a server in its way still leaves a binary, and no older one.
THEOREM UpgradeKeepsBoth ==
  Spec => /\ [](BinarySurvives /\ AnswersTell /\ ReadsAreFresh)
          /\ NeverOlder /\ StopLosesNothing
  BY UpgradeIsUpdate, UpgradeIsServe, ABinarySurvives, AnswersTellTheTruth,
     ReadsAreNeverStale, AnUpdateIsNeverOlder, AStopLosesNothing, PTL

-----------------------------------------------------------------------------
(* What runs. *)

\* As long as updates do not overlap, what an administrator would find is what the server
\* runs or newer.
Behind ==
  ~ overlap => \/ ver = Dev
               \/ Found = ver
               \/ Found \in Releases /\ CompareVersions(Found, ver) = 1

RunInv == UpdInv /\ ServeInv /\ ver \in Builds /\ Behind

LEMMA RunInit == Init => RunInv
<1> SUFFICES ASSUME Init PROVE RunInv
  OBVIOUS
<1>1. UpdInv /\ ServeInv
  BY UpdInvInit, ServeInvInit DEF Init
<1>2. ver = target /\ target \in Builds
  BY DEF Init, UpdInit
<1>3. Behind
  BY <1>2, BuildsAssumption DEF Behind, Found, Builds
<1> QED
  BY <1>1, <1>2, <1>3 DEF RunInv

\* An update in the background takes what is found only forward.
LEMMA UpdatingKeepsBehind ==
  ASSUME RunInv, [UpdNext]_updVars, ver' = ver
  PROVE  Behind'
<1>1. overlap => overlap'
  <2>1. ASSUME NEW u \in Updaters, BeginUpdate(u) \/ UpdStep(u) \/ KillUpdate(u)
        PROVE  overlap => overlap'
    BY <2>1 DEF BeginUpdate, UpdStep, Look, Download, RemoveOld, MoveAside, PutNew, RollBack,
                CleanUp, KillUpdate
  <2> QED
    BY <2>1 DEF UpdNext, Publish, updVars
<1> SUFFICES ASSUME ~ overlap, ver # Dev
             PROVE  Found' = ver \/ (Found' \in Releases /\ CompareVersions(Found', ver) = 1)
  BY <1>1 DEF Behind
<1>2. /\ Found = ver \/ (Found \in Releases /\ CompareVersions(Found, ver) = 1)
      /\ ver \in Releases
  BY DEF RunInv, Behind, Builds
<1>3. \/ Found' = Found
      \/ Found' \in Releases /\ (Found = Dev \/ CompareVersions(Found', Found) = 1)
  BY StepNeverOlder DEF RunInv
<1>4. Found # Dev
  BY <1>2, BuildsAssumption
<1>5. CASE Found' = Found
  BY <1>2, <1>5
<1>6. CASE Found' \in Releases /\ CompareVersions(Found', Found) = 1
  <2>1. PICK x, y : x = Found' /\ y = Found
    OBVIOUS
  <2>2. CASE Found = ver
    BY <1>6, <2>2
  <2>3. CASE Found \in Releases /\ CompareVersions(Found, ver) = 1
    <3>1. x \in Releases /\ y \in Releases
      BY <1>6, <2>1, <2>3
    <3>2. CompareVersions(x, y) = 1 /\ CompareVersions(y, ver) = 1
      BY <1>6, <2>1, <2>3
    <3>3. CompareVersions(x, ver) = 1
      BY <1>2, <3>1, <3>2, NewerIsTransitive
    <3> QED
      BY <1>6, <2>1, <3>3
  <2> QED
    BY <1>2, <2>2, <2>3
<1> QED
  BY <1>3, <1>4, <1>5, <1>6

LEMMA RunStep == RunInv /\ [Next]_vars => RunInv'
<1> SUFFICES ASSUME RunInv, [Next]_vars PROVE RunInv'
  OBVIOUS
<1>1. UpdInv' /\ ServeInv'
  BY BothStep, UpdInvStep, ServeInvStep DEF RunInv
<1>2. CASE StartServer
  <2>1. ver' = target /\ target # Absent /\ UNCHANGED updVars
    BY <1>2 DEF StartServer
  <2>2. ver' \in Builds
    BY <2>1 DEF RunInv, UpdInv, UpdTypeOK
  <2>3. Behind'
    BY <2>1 DEF Behind, Found, updVars
  <2> QED
    BY <1>1, <2>2, <2>3 DEF RunInv
<1>3. CASE ver' = ver
  <2>1. Behind'
    BY <1>3, BothStep, UpdatingKeepsBehind
  <2> QED
    BY <1>1, <1>3, <2>1 DEF RunInv
<1> QED
  BY <1>2, <1>3 DEF Next, Serving, Updating, vars

LEMMA RunInvariance == Spec => []RunInv
  BY RunInit, RunStep, PTL DEF Spec

\* Updates that overlap, fail and die never make a server run a download that was spoilt.
THEOREM WhatRunsIsABuild == Spec => []TypeOK
<1>1. RunInv => TypeOK
  BY DEF RunInv, UpdInv, ServeInv, TypeOK
<1> QED
  BY <1>1, RunInvariance, PTL

\* However many updates came, failed or died while a server ran or was down, the next one is
\* no older than the last: each of them took what is found to a newer release, and newer is
\* transitive.
THEOREM RestartsServeNoOlder == Spec => ServesNoOlder
<1>1. RunInv /\ [Next]_vars
        => [ver' = ver \/ ver = Dev \/ overlap \/ CompareVersions(ver', ver) = 1]_vars
  <2> SUFFICES ASSUME RunInv, Next, ver' # ver, ver # Dev, ~ overlap
               PROVE  CompareVersions(ver', ver) = 1
    OBVIOUS
  <2>1. ver' = target /\ target # Absent
    BY DEF Next, StartServer, Serving, Updating
  <2>2. Found = target
    BY <2>1 DEF Found
  <2> QED
    BY <2>1, <2>2 DEF RunInv, Behind
<1> QED
  BY <1>1, RunInvariance, PTL DEF Spec, ServesNoOlder
=============================================================================
