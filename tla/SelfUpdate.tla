------------------------------ MODULE SelfUpdate ------------------------------
(***************************************************************************)
(* kb update --yes (src/internal/selfupdate/selfupdate.go,                 *)
(* src/cmd/kb/update.go): ask for the newest release, fetch its checksums  *)
(* and its archive, unpack the binary beside the running one, and change   *)
(* the two by renames.  One action per request and per rename, so that a   *)
(* command that dies, or another update, can come between any two.  The    *)
(* content of a file is the build it holds, or Torn for bytes that are no  *)
(* release: an archive that was cut off or spoilt on its way.  The GitHub  *)
(* service is external: which release is the newest may change in either   *)
(* direction.                                                              *)
(***************************************************************************)
EXTENDS Integers, Sequences

CONSTANTS
    Updaters,     \* the kb update processes
    Releases,     \* the versions released: sequences of segments
    Dev,          \* a build without a version
    Absent, Torn, \* no file; a content that is no release
    MaxUpdates,   \* bound: updates begun
    MaxFailures,  \* bound: renames that fail
    MaxKills      \* bound: updates killed

ASSUME BuildsAssumption ==
    /\ Releases \subseteq Seq([num : Nat, pre : Nat])
    /\ Dev \notin Releases
    /\ Absent \notin Releases \cup {Dev}
    /\ Torn \notin Releases \cup {Dev, Absent}
ASSUME BoundsAssumption == MaxUpdates \in Nat /\ MaxFailures \in Nat /\ MaxKills \in Nat

VARIABLES
    target,   \* the file kb is started from
    old,      \* the file beside it, kb.old
    newest,   \* the release the service calls the newest
    upd,      \* the updates under way
    begun,    \* how many updates have begun
    overlap,  \* whether one has begun while another was under way
    failures, \* how many renames have failed
    kills     \* how many updates were killed

updVars == <<target, old, newest, upd, begun, overlap, failures, kills>>

Builds == Releases \cup {Dev}

-----------------------------------------------------------------------------
(* Versions.  A segment is its number and its suffix; a final release has the
   suffix 0, pre-releases have theirs numbered in the order of their names.  *)

SegAt(v, i) == IF i <= Len(v) THEN v[i] ELSE [num |-> 0, pre |-> 0]

\* A larger number is newer; of equal numbers the final release is the newest.
CmpSeg(a, b) ==
    CASE a.num < b.num -> -1
      [] a.num > b.num -> 1
      [] a = b -> 0
      [] a.num = b.num /\ a # b ->
            IF a.pre # 0 /\ (b.pre = 0 \/ a.pre < b.pre) THEN -1 ELSE 1

Differ(a, b) ==
    {i \in 1..(Len(a) + Len(b)) : CmpSeg(SegAt(a, i), SegAt(b, i)) # 0}

CompareVersions(a, b) ==
    IF Differ(a, b) = {} THEN 0
    ELSE LET i == CHOOSE k \in Differ(a, b) : \A j \in Differ(a, b) : k <= j
         IN  CmpSeg(SegAt(a, i), SegAt(b, i))

\* A development build takes every release; an equal or older one is no news.
WorthInstallingAny(rel, me) == TRUE

WorthInstalling(rel, me) == IF me = Dev THEN TRUE ELSE CompareVersions(rel, me) = 1

-----------------------------------------------------------------------------
Idle == [step |-> "idle", me |-> Absent, rel |-> Absent, bin |-> Absent, hadOld |-> FALSE]

Steps == {"idle", "begun", "looked", "unpacked", "cleared", "moved",
          "placed", "failing"}

\* The record of an update: its step, the build it was started from, the release it found,
\* the binary it unpacked, and whether it moved an old one aside.
Update == [step : Steps, me : Builds \cup {Absent}, rel : Releases \cup {Absent},
           bin : Releases \cup {Absent, Torn}, hadOld : BOOLEAN]

UpdInit ==
    /\ target \in Builds
    /\ old = Absent
    /\ newest \in Releases
    /\ upd = [u \in Updaters |-> Idle]
    /\ begun = 0
    /\ overlap = FALSE
    /\ failures = 0
    /\ kills = 0

Running(u) == upd[u].step # "idle"

Becomes(u, s) == upd' = [upd EXCEPT ![u].step = s]

Ends(u) == upd' = [upd EXCEPT ![u] = Idle]

\* The process is started from the target: the version compiled into it, and the
\* path it finds itself at, are those of that file.
BeginUpdate(u) ==
    /\ ~ Running(u)
    /\ begun < MaxUpdates
    /\ target # Absent
    /\ upd' = [upd EXCEPT ![u] = [Idle EXCEPT !.step = "begun", !.me = target]]
    /\ begun' = begun + 1
    /\ overlap' = (overlap \/ \E w \in Updaters : Running(w))
    /\ UNCHANGED <<target, old, newest, failures, kills>>

\* Latest, the comparison of versions and the choice of the assets.  Without news, or
\* without an answer, an asset of this platform or a list of checksums, it stops here.
Look(u) ==
    /\ upd[u].step = "begun"
    /\ \/ /\ WorthInstalling(newest, upd[u].me)
          /\ target # Absent
          /\ upd' = [upd EXCEPT ![u].step = "looked", ![u].rel = newest]
       \/ Ends(u)
    /\ UNCHANGED <<target, old, newest, begun, overlap, failures, kills>>

\* The form that unpacks the archive without looking at its hash.
DownloadUnchecked(u) ==
    /\ upd[u].step = "looked"
    /\ \E got \in {upd[u].rel, Torn} :
          upd' = [upd EXCEPT ![u].step = "unpacked", ![u].bin = got]
    /\ UNCHANGED <<target, old, newest, begun, overlap, failures, kills>>

\* The list of checksums, the archive, hashed as it arrives, and the binary in it, written
\* beside the target; no other process sees any of the three.  An archive that is not what
\* the list says is thrown away, and whatever fails removes the files it has written.
Download(u) ==
    /\ upd[u].step = "looked"
    /\ \/ \E got \in {upd[u].rel, Torn} :
             /\ got = upd[u].rel
             /\ upd' = [upd EXCEPT ![u].step = "unpacked", ![u].bin = got]
       \/ Ends(u)
    /\ UNCHANGED <<target, old, newest, begun, overlap, failures, kills>>

\* swap, its first step: what an earlier update left is removed.
RemoveOld(u) ==
    /\ upd[u].step = "unpacked"
    /\ Becomes(u, "cleared")
    /\ old' \in {old, Absent}
    /\ UNCHANGED <<target, newest, begun, overlap, failures, kills>>

\* swap, its first rename: target to .old.  A target that is not there is not an error.
MoveAside(u) ==
    /\ upd[u].step = "cleared"
    /\ \/ /\ target # Absent
          /\ old' = target
          /\ target' = Absent
          /\ upd' = [upd EXCEPT ![u].step = "moved", ![u].hadOld = TRUE]
          /\ UNCHANGED failures
       \/ /\ target = Absent
          /\ Becomes(u, "moved")
          /\ UNCHANGED <<target, old, failures>>
       \/ /\ failures < MaxFailures
          /\ failures' = failures + 1
          /\ Ends(u)
          /\ UNCHANGED <<target, old>>
    /\ UNCHANGED <<newest, begun, overlap, kills>>

\* swap, its second: the new binary to target.  After a failure the old one goes back, if this
\* update moved one aside.
PutNew(u) ==
    /\ upd[u].step = "moved"
    /\ \/ /\ target' = upd[u].bin
          /\ Becomes(u, "placed")
          /\ UNCHANGED failures
       \/ /\ failures < MaxFailures
          /\ failures' = failures + 1
          /\ IF upd[u].hadOld THEN Becomes(u, "failing") ELSE Ends(u)
          /\ UNCHANGED target
    /\ UNCHANGED <<old, newest, begun, overlap, kills>>

\* The form that clears the old binary away instead of putting it back.
RollBackNothing(u) ==
    /\ upd[u].step = "failing"
    /\ Ends(u)
    /\ old' = Absent
    /\ UNCHANGED <<target, newest, begun, overlap, failures, kills>>

\* swap: .old back to target; nobody looks whether it worked.
RollBack(u) ==
    /\ upd[u].step = "failing"
    /\ Ends(u)
    /\ \/ /\ old # Absent
          /\ target' = old
          /\ old' = Absent
          /\ UNCHANGED failures
       \/ /\ old = Absent
          /\ UNCHANGED <<target, old, failures>>
       \/ /\ failures < MaxFailures
          /\ failures' = failures + 1
          /\ UNCHANGED <<target, old>>
    /\ UNCHANGED <<newest, begun, overlap, kills>>

\* swap, its last step: .old is removed when the system lets it be.
CleanUp(u) ==
    /\ upd[u].step = "placed"
    /\ Ends(u)
    /\ old' \in {old, Absent}
    /\ UNCHANGED <<target, newest, begun, overlap, failures, kills>>

\* The process dies between two calls; files stay as they are.
KillUpdate(u) ==
    /\ Running(u)
    /\ kills < MaxKills
    /\ kills' = kills + 1
    /\ Ends(u)
    /\ UNCHANGED <<target, old, newest, begun, overlap, failures>>

\* A release is published, or the newest one is withdrawn.
Publish ==
    /\ \E v \in Releases \ {newest} : newest' = v
    /\ UNCHANGED <<target, old, upd, begun, overlap, failures, kills>>

UpdStep(u) ==
    \/ Look(u)
    \/ Download(u)
    \/ RemoveOld(u)
    \/ MoveAside(u)
    \/ PutNew(u)
    \/ RollBack(u)
    \/ CleanUp(u)

UpdNext ==
    \/ \E u \in Updaters : BeginUpdate(u) \/ UpdStep(u) \/ KillUpdate(u)
    \/ Publish

UpdSpec == UpdInit /\ [][UpdNext]_updVars

-----------------------------------------------------------------------------
(* Properties *)

\* What stands where kb is started from, or beside it, is a build and never a spoilt
\* download (the hash check of Apply); archives on their way may be.
UpdTypeOK ==
    /\ target \in Builds \cup {Absent}
    /\ old \in Builds \cup {Absent}
    /\ newest \in Releases
    /\ upd \in [Updaters -> Update]
    /\ begun \in Nat /\ failures \in Nat /\ kills \in Nat
    /\ overlap \in BOOLEAN

\* The build an administrator finds: kb, and kb.old when there is no kb.
Found == IF target # Absent THEN target ELSE old

\* Whatever fails, and wherever an update dies, a whole binary is left in one of the two
\* places ("any step that fails keeps the original binary", Apply and swap).  Updates that
\* overlap can clear away each other's kb.old: they promise it only when nothing goes wrong
\* and all of them have ended.
BinarySurvives ==
    /\ ~ overlap => Found # Absent
    /\ (failures = 0 /\ kills = 0 /\ \A u \in Updaters : ~ Running(u)) => target # Absent

\* An update never takes an installation back to an older build, also when the newest
\* release is withdrawn while it runs, when it fails half-way, or when it dies.
NeverOlder ==
    [][\/ Found' = Found
       \/ Found = Dev
       \/ overlap
       \/ CompareVersions(Found', Found) = 1]_updVars
=============================================================================
