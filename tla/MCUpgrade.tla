------------------------------ MODULE MCUpgrade ------------------------------
(***************************************************************************)
(* A small instance of Upgrade: a pre-release, and the release after it    *)
(* written with fewer segments.                                            *)
(***************************************************************************)
EXTENDS Upgrade

Seg(n, p) == [num |-> n, pre |-> p]

Candidate == <<Seg(1, 0), Seg(0, 1)>>
Final     == <<Seg(1, 0)>>

SmallReleases == {Candidate, Final}
=============================================================================
