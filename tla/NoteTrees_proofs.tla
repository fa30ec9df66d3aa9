-------------------------- MODULE NoteTrees_proofs --------------------------
(***************************************************************************)
(* Theorems about the operators of NoteTrees, for trees of any depth and   *)
(* any names: what a walk finds, and what an edit, a replay of staged      *)
(* changes, an import and a merge leave at every path.                     *)
(*                                                                         *)
(* A recursive definition is met by the least counterexample: a step where *)
(* it goes wrong has a first one, and what comes before is right.          *)
(***************************************************************************)
EXTENDS NoteTrees, SequenceTheorems, FiniteSetTheorems, WellFoundedInduction, TLAPS

(* A set of numbers that is not empty has a least one.                        *)
LEMMA LeastNumber ==
    ASSUME NEW T \in SUBSET Nat, T # {}
    PROVE  \E x \in T : \A y \in T : x <= y
<1>1. PICK x \in T : \A y \in T : ~ (<<y, x>> \in OpToRel(<, Nat))
  BY NatLessThanWellFounded, WFMin
<1>2. \A y \in T : ~ (y < x)
  BY <1>1 DEF OpToRel
<1>3. QED
  BY <1>2

-----------------------------------------------------------------------------
(* Paths.                                                                     *)

Pre(p, i) == SubSeq(p, 1, i)

LEMMA WaysAre == \A p : p \in Ways <=> p \in Seq(Names) /\ Len(p) \in 0 .. Depth
<1>1. ASSUME NEW p \in Ways PROVE p \in Seq(Names) /\ Len(p) \in 0 .. Depth
  <2>1. PICK m \in 0 .. Depth : p \in [1 .. m -> Names]
    BY DEF Ways, SeqOf
  <2>2. QED
    BY <2>1, DepthAssumption
<1>2. ASSUME NEW p \in Seq(Names), Len(p) \in 0 .. Depth PROVE p \in Ways
  <2>1. p \in [1 .. Len(p) -> Names]
    BY LenProperties
  <2>2. QED
    BY <1>2, <2>1 DEF Ways, SeqOf
<1>3. QED
  BY <1>1, <1>2

LEMMA PreType ==
    ASSUME NEW S, NEW p \in Seq(S), NEW i \in 0 .. Len(p)
    PROVE  /\ Pre(p, i) \in Seq(S) /\ Len(Pre(p, i)) = i
           /\ \A j \in 1 .. i : Pre(p, i)[j] = p[j]
<1>1. i \in Int /\ Len(p) \in Nat /\ \A j \in 1 .. i : p[j] \in S
  BY LenProperties, ElementOfSeq
<1>2. 1 <= i => i - 1 + 1 = i
  BY <1>1
<1>3. \A j \in 1 .. i - 1 + 1 : 1 + j - 1 = j
  BY <1>1
<1>4. /\ Pre(p, i) \in Seq(S) /\ Len(Pre(p, i)) = IF 1 <= i THEN i - 1 + 1 ELSE 0
      /\ \A j \in 1 .. i - 1 + 1 : Pre(p, i)[j] = p[1 + j - 1]
  BY <1>1, SubSeqProperties DEF Pre
<1>5. QED
  BY <1>1, <1>3, <1>4

LEMMA PreOfPre ==
    ASSUME NEW S, NEW p \in Seq(S), NEW i \in 0 .. Len(p), NEW j \in 0 .. i
    PROVE  Pre(Pre(p, i), j) = Pre(p, j)
<1>1. Len(p) \in Nat /\ i \in Nat /\ j \in 0 .. Len(p)
  BY LenProperties
<1>2. Pre(p, i) \in Seq(S) /\ Len(Pre(p, i)) = i /\ \A k \in 1 .. i : Pre(p, i)[k] = p[k]
  BY PreType
<1>3. /\ Pre(p, j) \in Seq(S) /\ Len(Pre(p, j)) = j
      /\ \A k \in 1 .. j : Pre(p, j)[k] = p[k]
  BY <1>1, PreType
<1>4. /\ Pre(Pre(p, i), j) \in Seq(S) /\ Len(Pre(Pre(p, i), j)) = j
      /\ \A k \in 1 .. j : Pre(Pre(p, i), j)[k] = Pre(p, i)[k]
  BY <1>2, PreType
<1>5. \A k \in 1 .. j : k \in 1 .. i
  BY <1>1
<1>6. \A k \in 1 .. Len(Pre(Pre(p, i), j)) : Pre(Pre(p, i), j)[k] = Pre(p, j)[k]
  BY <1>2, <1>3, <1>4, <1>5
<1>7. QED
  BY <1>3, <1>4, <1>6, SeqEqual

LEMMA PreFull ==
    ASSUME NEW S, NEW p \in Seq(S)
    PROVE  Pre(p, Len(p)) = p /\ Pre(p, 0) = <<>>
BY SubSeqFull, SubSeqEmpty DEF Pre

(* A path is a name in a directory.                                           *)
LEMMA PathParts ==
    ASSUME NEW S, NEW p \in Seq(S), p # <<>>
    PROVE  /\ Len(p) \in Nat \ {0}
           /\ Front(p) = Pre(p, Len(p) - 1) /\ Front(p) \in Seq(S) /\ Len(Front(p)) = Len(p) - 1
           /\ Last(p) \in S /\ Last(p) = p[Len(p)]
           /\ p = Append(Front(p), Last(p))
<1>1. Len(p) \in Nat \ {0} /\ Len(p) - 1 \in 0 .. Len(p) /\ Len(p) \in 1 .. Len(p)
  BY EmptySeq
<1>2. Front(p) = Pre(p, Len(p) - 1) /\ Last(p) = p[Len(p)] /\ Last(p) \in S
  BY <1>1, ElementOfSeq DEF Front, Last, Pre
<1>3. /\ Front(p) \in Seq(S) /\ Len(Front(p)) = Len(p) - 1
      /\ \A j \in 1 .. Len(p) - 1 : Front(p)[j] = p[j]
  <2>1. PICK i \in 0 .. Len(p) : i = Len(p) - 1
    BY <1>1
  <2>2. Pre(p, i) \in Seq(S) /\ Len(Pre(p, i)) = i /\ \A j \in 1 .. i : Pre(p, i)[j] = p[j]
    BY PreType
  <2>3. QED
    BY <1>2, <2>1, <2>2
<1>4. PICK q : q = Append(Front(p), Last(p))
  OBVIOUS
<1>5. /\ q \in Seq(S) /\ Len(q) = Len(Front(p)) + 1
      /\ \A i \in 1 .. Len(Front(p)) : q[i] = Front(p)[i]
      /\ q[Len(Front(p)) + 1] = Last(p)
  BY <1>2, <1>3, <1>4, AppendProperties
<1>6. Len(q) = Len(p) /\ \A i \in 1 .. Len(p) : q[i] = p[i]
  BY <1>1, <1>2, <1>3, <1>5
<1>7. QED
  BY <1>1, <1>2, <1>3, <1>4, <1>5, <1>6, SeqEqual

LEMMA PathOf ==
    ASSUME NEW S, NEW d \in Seq(S), NEW n \in S
    PROVE  /\ Append(d, n) \in Seq(S) /\ Append(d, n) # <<>> /\ Len(Append(d, n)) = Len(d) + 1
           /\ Front(Append(d, n)) = d /\ Last(Append(d, n)) = n
<1>1. PICK q : q = Append(d, n)
  OBVIOUS
<1>2. q \in Seq(S) /\ q # <<>> /\ Len(q) = Len(d) + 1
  BY <1>1, AppendProperties
<1>3. q = Append(Front(q), Last(q)) /\ Front(q) \in Seq(S) /\ Last(q) \in S
  BY <1>2, PathParts
<1>4. Front(q) = d /\ Last(q) = n
  BY <1>1, <1>3, AppendInjective
<1>5. QED
  BY <1>1, <1>2, <1>4

LEMMA PreNext ==
    ASSUME NEW S, NEW p \in Seq(S), NEW i \in 0 .. Len(p), i # Len(p)
    PROVE  /\ i + 1 \in 1 .. Len(p) /\ p[i+1] \in S
           /\ Pre(p, i + 1) = Append(Pre(p, i), p[i+1])
<1>1. Len(p) \in Nat /\ i \in Nat /\ i + 1 \in 1 .. Len(p) /\ i + 1 \in 0 .. Len(p)
  BY LenProperties
<1>2. PICK q : q = Pre(p, i + 1)
  OBVIOUS
<1>3. q \in Seq(S) /\ Len(q) = i + 1 /\ \A j \in 1 .. i + 1 : q[j] = p[j]
  BY <1>1, <1>2, PreType
<1>4. q # <<>>
  BY <1>1, <1>3, EmptySeq
<1>5. Front(q) = Pre(q, i) /\ Last(q) = p[i+1] /\ q = Append(Front(q), Last(q))
  BY <1>1, <1>3, <1>4, PathParts
<1>6. Pre(q, i) = Pre(p, i)
  BY <1>1, <1>2, PreOfPre
<1>7. p[i+1] \in S
  BY <1>1, ElementOfSeq
<1>8. QED
  BY <1>1, <1>2, <1>5, <1>6, <1>7

-----------------------------------------------------------------------------
(* Walks.                                                                     *)

Entered(dir, n) == IF dir # Refused /\ HasDir(dir, n) THEN dir[n] ELSE Refused

IsWalk(t, p, k, w) == w = [i \in 0 .. k |-> IF i = 0 THEN t ELSE Entered(w[i-1], p[i])]

LEMMA WalkExists ==
    ASSUME NEW t, NEW p, NEW k \in Nat
    PROVE  \E w : IsWalk(t, p, k, w)
<1> DEFINE bad == {n \in Nat : ~ \E w : IsWalk(t, p, n, w)}
<1>1. SUFFICES ASSUME bad # {} PROVE FALSE
  OBVIOUS
<1>2. PICK m \in bad : \A n \in bad : m <= n
  <2>1. bad \in SUBSET Nat
    OBVIOUS
  <2>2. QED
    BY <1>1, <2>1, LeastNumber
<1>3. m # 0
  <2>1. IsWalk(t, p, 0, [i \in 0 .. 0 |-> t])
    BY DEF IsWalk
  <2>2. QED
    BY <1>2, <2>1
<1>4. m \in Nat /\ m - 1 \in Nat /\ ~ (m <= m - 1)
  BY <1>2, <1>3
<1>5. m - 1 \notin bad
  BY <1>2, <1>4
<1>6. PICK v : IsWalk(t, p, m - 1, v)
  BY <1>4, <1>5
<1>7. PICK w : w = [i \in 0 .. m |-> IF i = m THEN Entered(v[m-1], p[m]) ELSE v[i]]
  OBVIOUS
<1>8. ASSUME NEW i \in 0 .. m
      PROVE  w[i] = IF i = 0 THEN t ELSE Entered(w[i-1], p[i])
  <2>1. \A j \in 0 .. m - 1 : v[j] = IF j = 0 THEN t ELSE Entered(v[j-1], p[j])
    BY <1>6 DEF IsWalk
  <2>2. CASE i = m
    <3>1. w[i] = Entered(v[m-1], p[m])
      BY <1>7, <2>2
    <3>2. w[m-1] = v[m-1]
      BY <1>4, <1>7
    <3>3. QED
      BY <1>3, <2>2, <3>1, <3>2
  <2>3. CASE i # m
    <3>1. i \in 0 .. m - 1 /\ w[i] = v[i]
      BY <1>4, <1>7, <2>3
    <3>2. i # 0 => i - 1 \in 0 .. m /\ i - 1 # m
      BY <1>4, <3>1
    <3>3. i # 0 => w[i-1] = v[i-1]
      BY <1>7, <3>2
    <3>4. QED
      BY <2>1, <3>1, <3>3
  <2>4. QED
    BY <2>2, <2>3
<1>9. w = [i \in 0 .. m |-> w[i]]
  BY <1>7
<1>10. IsWalk(t, p, m, w)
  BY <1>8, <1>9 DEF IsWalk
<1>11. QED
  BY <1>2, <1>10

LEMMA WalkIs ==
    ASSUME NEW t, NEW p, Len(p) \in Nat
    PROVE  \A i \in 0 .. Len(p) :
              Walk(t, p)[i] = IF i = 0 THEN t ELSE Entered(Walk(t, p)[i-1], p[i])
<1>1. Walk(t, p) = CHOOSE w : IsWalk(t, p, Len(p), w)
  BY DEF Walk, IsWalk, Entered
<1>2. IsWalk(t, p, Len(p), CHOOSE w : IsWalk(t, p, Len(p), w))
  BY WalkExists
<1>3. IsWalk(t, p, Len(p), Walk(t, p))
  BY <1>1, <1>2
<1>4. QED
  BY <1>3 DEF IsWalk

(* A walk depends on the part of the path it has gone.                        *)
LEMMA WalkPre ==
    ASSUME NEW t, NEW S, NEW p \in Seq(S), NEW i \in 0 .. Len(p)
    PROVE  Walk(t, p)[i] = WalkDir(t, Pre(p, i))
<1> DEFINE q == Pre(p, i)
           bad == {j \in 0 .. i : Walk(t, p)[j] # Walk(t, q)[j]}
<1>1. Len(p) \in Nat /\ i \in Nat
  BY LenProperties
<1>2. q \in Seq(S) /\ Len(q) = i /\ \A j \in 1 .. i : q[j] = p[j]
  BY PreType
<1> HIDE DEF q
<1>3. /\ \A j \in 0 .. Len(p) : Walk(t, p)[j] = IF j = 0 THEN t ELSE Entered(Walk(t, p)[j-1], p[j])
      /\ \A j \in 0 .. i : Walk(t, q)[j] = IF j = 0 THEN t ELSE Entered(Walk(t, q)[j-1], q[j])
  <2>1. Len(q) \in Nat
    BY <1>1, <1>2
  <2>2. \A j \in 0 .. Len(q) : Walk(t, q)[j] = IF j = 0 THEN t ELSE Entered(Walk(t, q)[j-1], q[j])
    BY <2>1, WalkIs
  <2>3. QED
    BY <1>1, <1>2, <2>2, WalkIs
<1>4. ASSUME bad # {} PROVE FALSE
  <2>1. PICK m \in bad : \A n \in bad : m <= n
    <3>1. bad \in SUBSET Nat
      BY <1>1
    <3>2. QED
      BY <1>4, <3>1, LeastNumber
  <2>2. m \in 0 .. i /\ m \in 0 .. Len(p) /\ Walk(t, p)[m] # Walk(t, q)[m]
    BY <1>1, <2>1
  <2>3. m # 0
    BY <1>3, <2>2
  <2>4. m - 1 \in 0 .. i /\ ~ (m <= m - 1) /\ m \in 1 .. i
    BY <1>1, <2>2, <2>3
  <2>5. Walk(t, p)[m-1] = Walk(t, q)[m-1]
    BY <2>1, <2>4
  <2>6. QED
    BY <1>2, <1>3, <2>2, <2>3, <2>4, <2>5
<1>5. i \in 0 .. i
  BY <1>1
<1>6. QED
  BY <1>2, <1>4, <1>5 DEF WalkDir, q

LEMMA WalkRoot == \A t : WalkDir(t, <<>>) = t
<1>1. Len(<<>>) = 0
  BY EmptySeq
<1>2. QED
  BY <1>1, WalkIs DEF WalkDir

LEMMA WalkNext ==
    ASSUME NEW t, NEW S, NEW p \in Seq(S), p # <<>>
    PROVE  WalkDir(t, p) = Entered(WalkDir(t, Front(p)), Last(p))
<1>1. Len(p) \in Nat \ {0} /\ Front(p) = Pre(p, Len(p) - 1) /\ Last(p) = p[Len(p)]
  BY PathParts
<1>2. Len(p) \in 0 .. Len(p) /\ Len(p) - 1 \in 0 .. Len(p)
  BY <1>1
<1>3. Walk(t, p)[Len(p) - 1] = WalkDir(t, Front(p))
  BY <1>1, <1>2, WalkPre
<1>4. WalkDir(t, p) = Entered(Walk(t, p)[Len(p) - 1], p[Len(p)])
  BY <1>1, <1>2, WalkIs DEF WalkDir
<1>5. QED
  BY <1>1, <1>3, <1>4

-----------------------------------------------------------------------------
(* Trees of notes.                                                            *)

IsLevels(A, k, f) ==
    f = [i \in 0 .. k |-> IF i = 0 THEN {EmptyTree}
                          ELSE UNION {[d -> A \cup f[i-1]] : d \in SUBSET Names}]

LEMMA LevelsExist ==
    ASSUME NEW A, NEW k \in Nat
    PROVE  \E f : IsLevels(A, k, f)
<1> DEFINE Above1(S) == UNION {[d -> A \cup S] : d \in SUBSET Names}
           bad == {n \in Nat : ~ \E f : IsLevels(A, n, f)}
<1>1. SUFFICES ASSUME bad # {} PROVE FALSE
  OBVIOUS
<1>2. PICK m \in bad : \A n \in bad : m <= n
  <2>1. bad \in SUBSET Nat
    OBVIOUS
  <2>2. QED
    BY <1>1, <2>1, LeastNumber
<1>3. m # 0
  <2>1. IsLevels(A, 0, [i \in 0 .. 0 |-> {EmptyTree}])
    BY DEF IsLevels
  <2>2. QED
    BY <1>2, <2>1
<1>4. m \in Nat /\ m - 1 \in Nat /\ ~ (m <= m - 1)
  BY <1>2, <1>3
<1>5. m - 1 \notin bad
  BY <1>2, <1>4
<1>6. PICK f : IsLevels(A, m - 1, f)
  BY <1>4, <1>5
<1> HIDE DEF bad
<1>7. f = [i \in 0 .. m - 1 |-> IF i = 0 THEN {EmptyTree} ELSE Above1(f[i-1])]
  BY <1>6 DEF IsLevels
<1> HIDE DEF Above1
<1>8. PICK g : g = [i \in 0 .. m |-> IF i = m THEN Above1(f[m-1]) ELSE f[i]]
  OBVIOUS
<1>9. ASSUME NEW i \in 0 .. m
      PROVE  g[i] = IF i = 0 THEN {EmptyTree} ELSE Above1(g[i-1])
  <2>1. \A j \in 0 .. m - 1 : f[j] = IF j = 0 THEN {EmptyTree} ELSE Above1(f[j-1])
    BY <1>7
  <2>2. CASE i = m
    <3>1. g[i] = Above1(f[m-1])
      BY <1>8, <2>2
    <3>2. g[m-1] = f[m-1]
      BY <1>4, <1>8
    <3>3. QED
      BY <1>3, <2>2, <3>1, <3>2
  <2>3. CASE i # m
    <3>1. i \in 0 .. m - 1 /\ g[i] = f[i]
      BY <1>4, <1>8, <2>3
    <3>2. i # 0 => i - 1 \in 0 .. m /\ i - 1 # m
      BY <1>4, <3>1
    <3>3. i # 0 => g[i-1] = f[i-1]
      BY <1>8, <3>2
    <3>4. QED
      BY <2>1, <3>1, <3>3
  <2>4. QED
    BY <2>2, <2>3
<1>10. g = [i \in 0 .. m |-> g[i]]
  BY <1>8
<1>11. g = [i \in 0 .. m |-> IF i = 0 THEN {EmptyTree} ELSE Above1(g[i-1])]
  BY <1>9, <1>10
<1>12. IsLevels(A, m, g)
  BY <1>11 DEF IsLevels, Above1
<1>13. QED
  BY <1>2, <1>12 DEF bad

LEMMA LevelsAre ==
    ASSUME NEW A
    PROVE  /\ Levels(A)[0] = {EmptyTree}
           /\ \A k \in 1 .. Depth :
                 Levels(A)[k] = UNION {[d -> A \cup Levels(A)[k-1]] : d \in SUBSET Names}
<1>1. Levels(A) = CHOOSE f : IsLevels(A, Depth, f)
  BY DEF Levels, IsLevels
<1>2. IsLevels(A, Depth, CHOOSE f : IsLevels(A, Depth, f))
  BY LevelsExist, DepthAssumption
<1>3. IsLevels(A, Depth, Levels(A))
  BY <1>1, <1>2
<1>4. Depth \in Nat
  BY DepthAssumption
<1>5. 0 \in 0 .. Depth /\ \A k \in 1 .. Depth : k \in 0 .. Depth /\ k # 0
  BY <1>4
<1>6. PICK f : f = Levels(A)
  OBVIOUS
<1>7. f = [i \in 0 .. Depth |-> IF i = 0 THEN {EmptyTree}
                                ELSE UNION {[d -> A \cup f[i-1]] : d \in SUBSET Names}]
  BY <1>3, <1>6 DEF IsLevels
<1>8. \A i \in 0 .. Depth : f[i] = IF i = 0 THEN {EmptyTree}
                                ELSE UNION {[d -> A \cup f[i-1]] : d \in SUBSET Names}
  BY <1>7
<1>9. f[0] = {EmptyTree}
  BY <1>5, <1>8
<1>10. \A k \in 1 .. Depth : f[k] = UNION {[d -> A \cup f[k-1]] : d \in SUBSET Names}
  <2>1. TAKE k \in 1 .. Depth
  <2>2. k \in 0 .. Depth /\ k # 0
    BY <1>5
  <2>3. QED
    BY <1>8, <2>2
<1>11. QED
  BY <1>6, <1>9, <1>10

(* What is put at paths can be told from directories and from an error, and   *)
(* so can trees.                                                              *)
TreeNotes(A) ==
    /\ \A a \in A : ~IsDir(a)
    /\ Refused \notin A
    /\ \A k \in 0 .. Depth : Refused \notin Levels(A)[k]

LEMMA EmptyTreeIs == EmptyTree \in [{} -> {}] /\ DOMAIN EmptyTree = {} /\ IsDir(EmptyTree)
BY DEF EmptyTree, IsDir

LEMMA LevelIs ==
    ASSUME NEW A, NEW k \in 0 .. Depth, NEW t \in Levels(A)[k]
    PROVE  /\ DOMAIN t \subseteq Names /\ IsDir(t)
           /\ t = [n \in DOMAIN t |-> t[n]]
           /\ k = 0 => t = EmptyTree
           /\ \A n \in DOMAIN t : k - 1 \in 0 .. Depth /\ t[n] \in A \cup Levels(A)[k-1]
<1>1. Depth \in Nat
  BY DepthAssumption
<1>2. CASE k = 0
  <2>1. t = EmptyTree
    BY <1>2, LevelsAre
  <2>2. QED
    BY <2>1 DEF EmptyTree, IsDir
<1>3. CASE k # 0
  <2>1. k \in 1 .. Depth /\ k - 1 \in 0 .. Depth
    BY <1>1, <1>3
  <2>2. t \in UNION {[d -> A \cup Levels(A)[k-1]] : d \in SUBSET Names}
    BY <2>1, LevelsAre
  <2>3. PICK d \in SUBSET Names : t \in [d -> A \cup Levels(A)[k-1]]
    BY <2>2
  <2>4. QED
    BY <1>3, <2>1, <2>3 DEF IsDir
<1>4. QED
  BY <1>2, <1>3

LEMMA LevelHas ==
    ASSUME NEW A, NEW k \in 1 .. Depth, NEW t, t = [n \in DOMAIN t |-> t[n]],
           DOMAIN t \subseteq Names, \A n \in DOMAIN t : t[n] \in A \cup Levels(A)[k-1]
    PROVE  t \in Levels(A)[k]
<1>1. t \in [DOMAIN t -> A \cup Levels(A)[k-1]]
  <2>1. PICK S : S = A \cup Levels(A)[k-1]
    OBVIOUS
  <2>2. \A n \in DOMAIN t : t[n] \in S
    BY <2>1
  <2>3. t \in [DOMAIN t -> S]
    BY <2>2
  <2>4. QED
    BY <2>1, <2>3
<1>2. t \in UNION {[d -> A \cup Levels(A)[k-1]] : d \in SUBSET Names}
  BY <1>1
<1>3. QED
  BY <1>2, LevelsAre

LEMMA EmptyIsLevel ==
    ASSUME NEW A, NEW k \in 0 .. Depth
    PROVE  EmptyTree \in Levels(A)[k]
<1>1. CASE k = 0
  BY <1>1, LevelsAre
<1>2. CASE k # 0
  <2>1. k \in 1 .. Depth
    BY <1>2, DepthAssumption
  <2>2. EmptyTree = [n \in DOMAIN EmptyTree |-> EmptyTree[n]]
    BY DEF EmptyTree
  <2>3. QED
    BY <2>1, <2>2, EmptyTreeIs, LevelHas
<1>3. QED
  BY <1>1, <1>2

(* What stands at a path: a note, a directory, or nothing.                    *)
EntryAt(t, q) == EntryOf(Opened(t, Front(q)), Last(q))

\* What a walk passes through.
LEMMA WalkType ==
    ASSUME NEW A, TreeNotes(A), NEW t \in TreesOf(A), NEW d \in Ways
    PROVE  WalkDir(t, d) \in Levels(A)[Depth - Len(d)] \cup {Refused}
<1> DEFINE Good(i) == WalkDir(t, Pre(d, i)) \in Levels(A)[Depth - i] \cup {Refused}
           bad == {i \in 0 .. Len(d) : ~ Good(i)}
<1>1. d \in Seq(Names) /\ Len(d) \in 0 .. Depth /\ Depth \in Nat /\ Len(d) \in Nat
  BY WaysAre, DepthAssumption
<1>2. ASSUME bad # {} PROVE FALSE
  <2>1. PICK m \in bad : \A n \in bad : m <= n
    <3>1. bad \in SUBSET Nat
      BY <1>1
    <3>2. QED
      BY <1>2, <3>1, LeastNumber
  <2>2. m \in 0 .. Len(d) /\ ~ Good(m)
    BY <2>1
  <2>3. m # 0
    <3>1. Pre(d, 0) = <<>> /\ Depth - 0 = Depth
      BY <1>1, PreFull
    <3>2. Good(0)
      BY <3>1, WalkRoot DEF TreesOf
    <3>3. QED
      BY <2>2, <3>2
  <2>4. PICK k : k = m - 1
    OBVIOUS
  <2>5. k \in 0 .. Len(d) /\ k # Len(d) /\ ~ (m <= k) /\ m = k + 1 /\ k \notin bad
    <3>1. m \in Nat /\ m # 0 /\ m <= Len(d)
      BY <1>1, <2>2, <2>3
    <3>2. k \in 0 .. Len(d) /\ k # Len(d) /\ ~ (m <= k) /\ m = k + 1
      BY <1>1, <2>4, <3>1
    <3>3. QED
      BY <2>1, <3>2
  <2>6. Good(k)
    BY <2>5
  <2>7. Pre(d, m) = Append(Pre(d, k), d[m]) /\ d[m] \in Names /\ Pre(d, k) \in Seq(Names)
    BY <1>1, <2>5, PreNext, PreType
  <2>8. WalkDir(t, Pre(d, m)) = Entered(WalkDir(t, Pre(d, k)), d[m])
    <3>1. PICK p : p = Append(Pre(d, k), d[m])
      OBVIOUS
    <3>2. p \in Seq(Names) /\ p # <<>> /\ Front(p) = Pre(d, k) /\ Last(p) = d[m]
      BY <2>7, <3>1, PathOf
    <3>3. QED
      BY <2>7, <3>1, <3>2, WalkNext
  <2>9. PICK w : w = WalkDir(t, Pre(d, k))
    OBVIOUS
  <2>10. Depth - k \in 0 .. Depth /\ Depth - k - 1 = Depth - m
    BY <1>1, <2>5
  <2>11. CASE w # Refused /\ HasDir(w, d[m])
    <3>1. PICK l : l = Depth - k
      OBVIOUS
    <3>2. l \in 0 .. Depth /\ l - 1 = Depth - m /\ w \in Levels(A)[l]
      BY <2>6, <2>9, <2>10, <2>11, <3>1
    <3>3. d[m] \in DOMAIN w /\ w[d[m]] \in A \cup Levels(A)[l-1]
      BY <2>11, <3>2, LevelIs DEF HasDir
    <3>4. w[d[m]] \notin A
      BY <2>11 DEF HasDir, TreeNotes
    <3>5. QED
      BY <2>2, <2>8, <2>9, <2>11, <3>2, <3>3, <3>4 DEF Entered
  <2>12. CASE ~ (w # Refused /\ HasDir(w, d[m]))
    BY <2>2, <2>8, <2>9, <2>12 DEF Entered
  <2>13. QED
    BY <2>11, <2>12
<1>3. Good(Len(d))
  BY <1>1, <1>2
<1>4. QED
  BY <1>1, <1>3, PreFull

LEMMA OpenedType ==
    ASSUME NEW A, TreeNotes(A), NEW t \in TreesOf(A), NEW d \in Ways
    PROVE  /\ Depth - Len(d) \in 0 .. Depth
           /\ Opened(t, d) \in Levels(A)[Depth - Len(d)]
           /\ IsDir(Opened(t, d)) /\ DOMAIN Opened(t, d) \subseteq Names
<1>1. Depth - Len(d) \in 0 .. Depth
  BY WaysAre, DepthAssumption
<1>2. Opened(t, d) \in Levels(A)[Depth - Len(d)]
  BY <1>1, WalkType, EmptyIsLevel DEF Opened
<1>3. QED
  BY <1>1, <1>2, LevelIs

(* What stands at a path says which directories are there and which notes.    *)
LEMMA EntryIs ==
    ASSUME NEW A, TreeNotes(A), NEW t \in TreesOf(A), NEW q \in Ways, q # <<>>
    PROVE  /\ Front(q) \in Ways /\ Last(q) \in Names /\ Len(q) \in 1 .. Depth
           /\ Len(Front(q)) = Len(q) - 1 /\ q = Append(Front(q), Last(q))
           /\ EntryAt(t, q) \in A \cup Levels(A)[Depth - Len(q)] \cup {Refused}
           /\ WalkDir(t, q) = IF IsTree(EntryAt(t, q)) THEN EntryAt(t, q) ELSE Refused
           /\ LeafEntry(t, q) = IF IsTree(EntryAt(t, q)) THEN Refused ELSE EntryAt(t, q)
<1>1. q \in Seq(Names) /\ Len(q) \in 0 .. Depth /\ Depth \in Nat
  BY WaysAre, DepthAssumption
<1>2. /\ Front(q) \in Seq(Names) /\ Last(q) \in Names /\ Len(Front(q)) = Len(q) - 1
      /\ Len(q) \in 1 .. Depth /\ q = Append(Front(q), Last(q))
  BY <1>1, PathParts
<1>3. Front(q) \in Ways
  BY <1>1, <1>2, WaysAre
<1>4. PICK d, n, w : d = Front(q) /\ n = Last(q) /\ w = WalkDir(t, d)
  OBVIOUS
<1>5. PICK k : k = Depth - Len(d)
  OBVIOUS
<1>6. k \in 0 .. Depth /\ k - 1 = Depth - Len(q)
  BY <1>1, <1>2, <1>4, <1>5
<1>7. w \in Levels(A)[k] \cup {Refused}
  BY <1>3, <1>4, <1>5, WalkType
<1>8. w # Refused => \A m \in DOMAIN w : w[m] \in A \cup Levels(A)[k-1] /\ k - 1 \in 0 .. Depth
  BY <1>6, <1>7, LevelIs
<1>9. EntryAt(t, q) = IF w # Refused /\ n \in DOMAIN w THEN w[n] ELSE Refused
  BY <1>4, EmptyTreeIs DEF EntryAt, EntryOf, Opened
<1>10. w # Refused /\ n \in DOMAIN w => w[n] # Refused
  BY <1>8 DEF TreeNotes
<1>11. WalkDir(t, q) = IF IsTree(EntryAt(t, q)) THEN EntryAt(t, q) ELSE Refused
  BY <1>1, <1>2, <1>4, <1>9, <1>10, WalkNext, EmptySeq DEF Entered, HasDir, IsTree
<1>12. LeafEntry(t, q) = IF IsTree(EntryAt(t, q)) THEN Refused ELSE EntryAt(t, q)
  BY <1>4, <1>9, <1>10 DEF LeafEntry, DirPart, LeafName, HasNote, IsTree
<1>13. EntryAt(t, q) \in A \cup Levels(A)[Depth - Len(q)] \cup {Refused}
  BY <1>6, <1>8, <1>9
<1>14. QED
  BY <1>2, <1>3, <1>11, <1>12, <1>13

LEMMA LeafType ==
    ASSUME NEW A, TreeNotes(A), NEW t \in TreesOf(A), NEW q \in Ways, q # <<>>
    PROVE  LeafEntry(t, q) \in A \cup {Refused}
<1>1. /\ EntryAt(t, q) \in A \cup Levels(A)[Depth - Len(q)] \cup {Refused} /\ Len(q) \in 1 .. Depth
      /\ LeafEntry(t, q) = IF IsTree(EntryAt(t, q)) THEN Refused ELSE EntryAt(t, q)
  BY EntryIs
<1>2. Depth - Len(q) \in 0 .. Depth
  BY <1>1, DepthAssumption
<1>3. EntryAt(t, q) \in Levels(A)[Depth - Len(q)] => IsTree(EntryAt(t, q))
  <2>1. PICK l, e : l = Depth - Len(q) /\ e = EntryAt(t, q)
    OBVIOUS
  <2>2. l \in 0 .. Depth /\ Refused \notin Levels(A)[l]
    BY <1>2, <2>1 DEF TreeNotes
  <2>3. e \in Levels(A)[l] => IsDir(e)
    BY <2>2, LevelIs
  <2>4. QED
    BY <2>1, <2>2, <2>3 DEF IsTree
<1>4. QED
  BY <1>1, <1>3

-----------------------------------------------------------------------------
(* Edits.                                                                     *)

IsRebuilt(t, p, new, k, f) ==
    f = [i \in k .. Len(p) |-> IF i = Len(p) THEN new ELSE With(Opened(t, Pre(p, i)), p[i+1], f[i+1])]

LEMMA RebuiltExists ==
    ASSUME NEW t, NEW p, NEW new, Len(p) \in Nat
    PROVE  \E f : IsRebuilt(t, p, new, 0, f)
<1> DEFINE Done(j) == \E f : IsRebuilt(t, p, new, Len(p) - j, f)
           bad == {j \in 0 .. Len(p) : ~ Done(j)}
<1>1. ASSUME bad # {} PROVE FALSE
  <2>1. PICK m \in bad : \A j \in bad : m <= j
    <3>1. bad \in SUBSET Nat
      OBVIOUS
    <3>2. QED
      BY <1>1, <3>1, LeastNumber
  <2>2. m # 0
    <3>1. IsRebuilt(t, p, new, Len(p), [i \in Len(p) .. Len(p) |-> new])
      BY DEF IsRebuilt
    <3>2. Len(p) - 0 = Len(p)
      OBVIOUS
    <3>3. QED
      BY <2>1, <3>1, <3>2
  <2>3. m - 1 \in 0 .. Len(p) /\ ~ (m <= m - 1)
    BY <2>1, <2>2
  <2>4. Done(m - 1)
    BY <2>1, <2>3
  <2>5. PICK k : k = Len(p) - m
    OBVIOUS
  <2>6. k \in 0 .. Len(p) /\ k # Len(p) /\ Len(p) - (m - 1) = k + 1
    BY <2>1, <2>2, <2>5
  <2>7. PICK f : IsRebuilt(t, p, new, k + 1, f)
    BY <2>4, <2>6
  <2>8. PICK g : g = [i \in k .. Len(p) |->
                        IF i = k THEN With(Opened(t, Pre(p, k)), p[k+1], f[k+1]) ELSE f[i]]
    OBVIOUS
  <2>9. ASSUME NEW i \in k .. Len(p)
        PROVE  g[i] = IF i = Len(p) THEN new ELSE With(Opened(t, Pre(p, i)), p[i+1], g[i+1])
    <3>1. \A j \in k + 1 .. Len(p) :
             f[j] = IF j = Len(p) THEN new ELSE With(Opened(t, Pre(p, j)), p[j+1], f[j+1])
      BY <2>7 DEF IsRebuilt
    <3>2. i # Len(p) => g[i+1] = f[i+1]
      <4>1. i # Len(p) => i + 1 \in k .. Len(p) /\ i + 1 # k
        BY <2>6
      <4>2. QED
        BY <2>8, <4>1
    <3>3. CASE i = k
      <4>1. g[i] = With(Opened(t, Pre(p, i)), p[i+1], f[i+1])
        BY <2>8, <3>3
      <4>2. QED
        BY <2>6, <3>2, <3>3, <4>1
    <3>4. CASE i # k
      <4>1. i \in k + 1 .. Len(p) /\ g[i] = f[i]
        BY <2>6, <2>8, <3>4
      <4>2. QED
        BY <3>1, <3>2, <4>1
    <3>5. QED
      BY <3>3, <3>4
  <2>10. g = [i \in k .. Len(p) |-> g[i]]
    BY <2>8
  <2>11. IsRebuilt(t, p, new, k, g)
    BY <2>9, <2>10 DEF IsRebuilt
  <2>12. Done(m)
    BY <2>5, <2>11
  <2>13. QED
    BY <2>1, <2>12
<1>2. Len(p) \in 0 .. Len(p) /\ Len(p) - Len(p) = 0
  OBVIOUS
<1>3. Done(Len(p))
  BY <1>1, <1>2
<1>4. QED
  BY <1>2, <1>3

LEMMA RebuiltIs ==
    ASSUME NEW t, NEW p, NEW new, Len(p) \in Nat
    PROVE  \A i \in 0 .. Len(p) :
              Rebuilt(t, p, new)[i] =
                 IF i = Len(p) THEN new
                 ELSE With(Opened(t, Pre(p, i)), p[i+1], Rebuilt(t, p, new)[i+1])
<1>1. Rebuilt(t, p, new) = CHOOSE f : IsRebuilt(t, p, new, 0, f)
  BY DEF Rebuilt, IsRebuilt, Pre
<1>2. IsRebuilt(t, p, new, 0, CHOOSE f : IsRebuilt(t, p, new, 0, f))
  BY RebuiltExists
<1>3. PICK f : f = Rebuilt(t, p, new) /\ IsRebuilt(t, p, new, 0, f)
  BY <1>1, <1>2
<1>4. \A i \in 0 .. Len(p) :
         f[i] = IF i = Len(p) THEN new ELSE With(Opened(t, Pre(p, i)), p[i+1], f[i+1])
  BY <1>3 DEF IsRebuilt
<1>5. QED
  BY <1>3, <1>4

\* Tree.Set
LEMMA WithIs ==
    ASSUME NEW t, NEW n, NEW e
    PROVE  /\ DOMAIN With(t, n, e) = DOMAIN t \cup {n}
           /\ With(t, n, e) = [m \in DOMAIN With(t, n, e) |-> With(t, n, e)[m]]
           /\ EntryOf(With(t, n, e), n) = e
           /\ \A m : m # n => EntryOf(With(t, n, e), m) = EntryOf(t, m)
           /\ \A m \in DOMAIN With(t, n, e) : With(t, n, e)[m] = IF m = n THEN e ELSE t[m]
BY DEF With, EntryOf

LEMMA WithType ==
    ASSUME NEW A, NEW k \in 1 .. Depth, NEW t \in Levels(A)[k], NEW n \in Names,
           NEW e \in A \cup Levels(A)[k-1]
    PROVE  With(t, n, e) \in Levels(A)[k]
<1>1. k \in 0 .. Depth
  BY DepthAssumption
<1>2. DOMAIN t \subseteq Names /\ \A m \in DOMAIN t : t[m] \in A \cup Levels(A)[k-1]
  BY <1>1, LevelIs
<1>3. PICK u : u = With(t, n, e)
  OBVIOUS
<1>4. /\ DOMAIN u = DOMAIN t \cup {n} /\ u = [m \in DOMAIN u |-> u[m]]
      /\ \A m \in DOMAIN u : u[m] = IF m = n THEN e ELSE t[m]
  BY <1>3 DEF With
<1>5. DOMAIN u \subseteq Names /\ \A m \in DOMAIN u : u[m] \in A \cup Levels(A)[k-1]
  BY <1>2, <1>4
<1>6. QED
  BY <1>3, <1>4, <1>5, LevelHas

LEMMA RebuiltType ==
    ASSUME NEW A, TreeNotes(A), NEW t \in TreesOf(A), NEW p \in Ways,
           NEW new \in Levels(A)[Depth - Len(p)]
    PROVE  \A i \in 0 .. Len(p) : Rebuilt(t, p, new)[i] \in Levels(A)[Depth - i]
<1> DEFINE Good(i) == Rebuilt(t, p, new)[i] \in Levels(A)[Depth - i]
           bad == {j \in 0 .. Len(p) : ~ Good(Len(p) - j)}
<1>1. p \in Seq(Names) /\ Len(p) \in 0 .. Depth /\ Depth \in Nat /\ Len(p) \in Nat
  BY WaysAre, DepthAssumption
<1>2. \A i \in 0 .. Len(p) :
         Rebuilt(t, p, new)[i] = IF i = Len(p) THEN new
                                 ELSE With(Opened(t, Pre(p, i)), p[i+1], Rebuilt(t, p, new)[i+1])
  BY <1>1, RebuiltIs
<1>3. ASSUME bad # {} PROVE FALSE
  <2>1. PICK m \in bad : \A j \in bad : m <= j
    <3>1. bad \in SUBSET Nat
      OBVIOUS
    <3>2. QED
      BY <1>3, <3>1, LeastNumber
  <2>2. PICK k : k = Len(p) - m
    OBVIOUS
  <2>3. k \in 0 .. Len(p) /\ ~ Good(k)
    BY <1>1, <2>1, <2>2
  <2>4. k # Len(p)
    BY <1>2, <2>3
  <2>5. m - 1 \in 0 .. Len(p) /\ ~ (m <= m - 1) /\ Len(p) - (m - 1) = k + 1
    BY <1>1, <2>1, <2>2, <2>4
  <2>6. Good(k + 1)
    BY <2>1, <2>5
  <2>7. Depth - k \in 1 .. Depth /\ Depth - k - 1 = Depth - (k + 1)
    BY <1>1, <2>3, <2>4
  <2>8. Pre(p, k) \in Ways /\ Len(Pre(p, k)) = k /\ p[k+1] \in Names
    <3>1. Pre(p, k) \in Seq(Names) /\ Len(Pre(p, k)) = k
      BY <1>1, <2>3, PreType
    <3>2. p[k+1] \in Names
      BY <1>1, <2>3, <2>4, PreNext
    <3>3. k \in 0 .. Depth
      BY <1>1, <2>3
    <3>4. QED
      BY <3>1, <3>2, <3>3, WaysAre
  <2>9. Opened(t, Pre(p, k)) \in Levels(A)[Depth - k]
    BY <2>8, OpenedType
  <2>10. PICK l : l = Depth - k
    OBVIOUS
  <2>11. With(Opened(t, Pre(p, k)), p[k+1], Rebuilt(t, p, new)[k+1]) \in Levels(A)[l]
    BY <2>6, <2>7, <2>8, <2>9, <2>10, WithType
  <2>12. QED
    BY <1>2, <2>3, <2>4, <2>10, <2>11
<1>4. ASSUME NEW i \in 0 .. Len(p) PROVE Good(i)
  <2>1. Len(p) - i \in 0 .. Len(p) /\ Len(p) - (Len(p) - i) = i
    BY <1>1
  <2>2. QED
    BY <1>3, <2>1
<1>5. QED
  BY <1>4

\* q is p or a directory on the way to it
Starts(q, p) == Len(q) <= Len(p) /\ Pre(p, Len(q)) = q

LEMMA PreWays ==
    ASSUME NEW p \in Ways, NEW i \in 0 .. Len(p)
    PROVE  /\ Pre(p, i) \in Ways /\ Len(Pre(p, i)) = i /\ Len(p) \in 0 .. Depth
           /\ i # 0 => /\ Pre(p, i) # <<>> /\ Front(Pre(p, i)) = Pre(p, i - 1)
                       /\ Last(Pre(p, i)) = p[i]
           /\ p \in Seq(Names)
<1>1. p \in Seq(Names) /\ Len(p) \in 0 .. Depth /\ Depth \in Nat
  BY WaysAre, DepthAssumption
<1>2. PICK q : q = Pre(p, i)
  OBVIOUS
<1>3. q \in Seq(Names) /\ Len(q) = i /\ \A j \in 1 .. i : q[j] = p[j]
  BY <1>1, <1>2, PreType
<1>4. q \in Ways
  BY <1>1, <1>3, WaysAre
<1>5. ASSUME i # 0 PROVE q # <<>> /\ Front(q) = Pre(p, i - 1) /\ Last(q) = p[i]
  <2>1. q # <<>>
    BY <1>3, <1>5, EmptySeq
  <2>2. Front(q) = Pre(q, i - 1) /\ Last(q) = q[i]
    BY <1>3, <2>1, PathParts
  <2>3. Pre(q, i - 1) = Pre(p, i - 1)
    BY <1>1, <1>2, <1>5, PreOfPre
  <2>4. QED
    BY <1>1, <1>3, <1>5, <2>1, <2>2, <2>3
<1>6. QED
  BY <1>1, <1>2, <1>3, <1>4, <1>5

(* On its own way an edit leaves the directories it has made.                 *)
LEMMA RebuiltOnWay ==
    ASSUME NEW A, TreeNotes(A), NEW t \in TreesOf(A), NEW d \in Ways,
           NEW new \in Levels(A)[Depth - Len(d)], NEW r, r = Rebuilt(t, d, new)[0]
    PROVE  /\ r \in TreesOf(A)
           /\ \A i \in 0 .. Len(d) : /\ WalkDir(r, Pre(d, i)) = Rebuilt(t, d, new)[i]
                                     /\ Opened(r, Pre(d, i)) = Rebuilt(t, d, new)[i]
                                     /\ i # 0 => IsTree(EntryAt(r, Pre(d, i)))
<1> DEFINE Good(i) == WalkDir(r, Pre(d, i)) = Rebuilt(t, d, new)[i]
           bad == {i \in 0 .. Len(d) : ~ Good(i)}
<1>1. d \in Seq(Names) /\ Len(d) \in 0 .. Depth /\ Depth \in Nat /\ Len(d) \in Nat
  BY WaysAre, DepthAssumption
<1>2. PICK f : f = Rebuilt(t, d, new)
  OBVIOUS
<1>3. \A i \in 0 .. Len(d) : f[i] = IF i = Len(d) THEN new
                                    ELSE With(Opened(t, Pre(d, i)), d[i+1], f[i+1])
  BY <1>1, <1>2, RebuiltIs
<1>4. ASSUME NEW i \in 0 .. Len(d)
      PROVE  /\ f[i] \in Levels(A)[Depth - i] /\ Depth - i \in 0 .. Depth
             /\ f[i] # Refused /\ IsDir(f[i])
  <2>1. PICK l : l = Depth - i
    OBVIOUS
  <2>2. f[i] \in Levels(A)[l] /\ l \in 0 .. Depth
    BY <1>1, <1>2, <2>1, RebuiltType
  <2>3. f[i] # Refused
    BY <2>2 DEF TreeNotes
  <2>4. IsDir(f[i])
    BY <2>2, LevelIs
  <2>5. QED
    BY <2>1, <2>2, <2>3, <2>4
<1>5. r \in TreesOf(A)
  <2>1. 0 \in 0 .. Len(d) /\ Depth - 0 = Depth
    BY <1>1
  <2>2. QED
    BY <1>2, <1>4, <2>1 DEF TreesOf
<1>6. ASSUME bad # {} PROVE FALSE
  <2>1. PICK m \in bad : \A n \in bad : m <= n
    <3>1. bad \in SUBSET Nat
      BY <1>1
    <3>2. QED
      BY <1>6, <3>1, LeastNumber
  <2>2. m \in 0 .. Len(d) /\ ~ Good(m)
    BY <2>1
  <2>3. m # 0
    <3>1. Pre(d, 0) = <<>> /\ 0 \in 0 .. Len(d)
      BY <1>1, PreFull
    <3>2. QED
      BY <2>2, <3>1, WalkRoot
  <2>4. PICK k : k = m - 1
    OBVIOUS
  <2>5. k \in 0 .. Len(d) /\ k # Len(d) /\ ~ (m <= k) /\ m = k + 1 /\ k \notin bad
    BY <1>1, <2>1, <2>2, <2>3, <2>4
  <2>6. WalkDir(r, Pre(d, k)) = f[k]
    BY <1>2, <2>5
  <2>7. PICK q : q = Pre(d, m)
    OBVIOUS
  <2>8. q \in Seq(Names) /\ q # <<>> /\ Front(q) = Pre(d, k) /\ Last(q) = d[m]
    <3>1. q \in Ways /\ q # <<>> /\ Front(q) = Pre(d, m - 1) /\ Last(q) = d[m]
      BY <2>2, <2>3, <2>7, PreWays
    <3>2. QED
      BY <2>4, <3>1, WaysAre
  <2>9. WalkDir(r, q) = Entered(f[k], d[m])
    BY <2>6, <2>8, WalkNext
  <2>10. f[k] = With(Opened(t, Pre(d, k)), d[m], f[m])
    BY <1>3, <2>5
  <2>11. d[m] \in DOMAIN f[k] /\ f[k][d[m]] = f[m]
    BY <2>10 DEF With
  <2>12. f[k] # Refused /\ IsDir(f[m])
    BY <1>4, <2>2, <2>5
  <2>13. WalkDir(r, q) = f[m]
    BY <2>9, <2>11, <2>12 DEF Entered, HasDir
  <2>14. QED
    BY <1>2, <2>2, <2>7, <2>13
<1>7. ASSUME NEW i \in 0 .. Len(d)
      PROVE  /\ WalkDir(r, Pre(d, i)) = f[i] /\ Opened(r, Pre(d, i)) = f[i]
             /\ i # 0 => IsTree(EntryAt(r, Pre(d, i)))
  <2>1. WalkDir(r, Pre(d, i)) = f[i] /\ f[i] # Refused
    BY <1>2, <1>4, <1>6
  <2>2. ASSUME i # 0 PROVE IsTree(EntryAt(r, Pre(d, i)))
    <3>1. PICK q : q = Pre(d, i)
      OBVIOUS
    <3>2. q \in Ways /\ q # <<>>
      BY <2>2, <3>1, PreWays
    <3>3. WalkDir(r, q) = IF IsTree(EntryAt(r, q)) THEN EntryAt(r, q) ELSE Refused
      BY <1>5, <3>2, EntryIs
    <3>4. QED
      BY <2>1, <3>1, <3>3
  <2>3. QED
    BY <2>1, <2>2 DEF Opened
<1>8. QED
  BY <1>2, <1>5, <1>7

(* Beside its way it leaves everything as it was, below its end what the new  *)
(* directory there says.                                                      *)
LEMMA RebuiltBeside ==
    ASSUME NEW A, TreeNotes(A), NEW t \in TreesOf(A), NEW d \in Ways,
           NEW new \in Levels(A)[Depth - Len(d)], NEW r, r = Rebuilt(t, d, new)[0],
           NEW q \in Ways, ~Starts(q, d),
           Above(d, q) => EntryOf(new, q[Len(d) + 1]) = EntryOf(Opened(t, d), q[Len(d) + 1])
    PROVE  EntryAt(r, q) = EntryAt(t, q)
<1> DEFINE Good(n) == EntryAt(r, Pre(q, n)) = EntryAt(t, Pre(q, n))
           bad == {n \in 1 .. Len(q) : ~Starts(Pre(q, n), d) /\ ~Good(n)}
<1>1. /\ d \in Seq(Names) /\ Len(d) \in 0 .. Depth /\ Depth \in Nat /\ Len(d) \in Nat
      /\ q \in Seq(Names) /\ Len(q) \in 0 .. Depth /\ Len(q) \in Nat
  BY WaysAre, DepthAssumption
<1>2. ASSUME bad # {} PROVE FALSE
  <2>1. PICK m \in bad : \A n \in bad : m <= n
    <3>1. bad \in SUBSET Nat
      BY <1>1
    <3>2. QED
      BY <1>2, <3>1, LeastNumber
  <2>2. m \in 1 .. Len(q) /\ m \in 0 .. Len(q) /\ ~Starts(Pre(q, m), d) /\ ~Good(m)
    BY <2>1
  <2>3. PICK k : k = m - 1
    OBVIOUS
  <2>4. k \in 0 .. Len(q) /\ k # Len(q) /\ m = k + 1 /\ ~ (m <= k) /\ m # 0
    BY <1>1, <2>2, <2>3
  <2>5. PICK u, f : u = Pre(q, m) /\ f = Pre(q, k)
    OBVIOUS
  <2>6. /\ u \in Ways /\ u # <<>> /\ Len(u) = m /\ Front(u) = f /\ Last(u) = q[m]
        /\ f \in Ways /\ Len(f) = k
    <3>1. u \in Ways /\ Len(u) = m /\ u # <<>> /\ Front(u) = Pre(q, m - 1) /\ Last(u) = q[m]
      BY <2>2, <2>4, <2>5, PreWays
    <3>2. f \in Ways /\ Len(f) = k
      BY <2>4, <2>5, PreWays
    <3>3. QED
      BY <2>3, <2>5, <3>1, <3>2
  <2>7. EntryOf(Opened(r, f), q[m]) # EntryOf(Opened(t, f), q[m])
    BY <2>2, <2>5, <2>6 DEF EntryAt
  <2>8. CASE Starts(f, d)
    <3>1. k \in 0 .. Len(d) /\ f = Pre(d, k)
      BY <1>1, <2>4, <2>6, <2>8 DEF Starts
    <3>2. Opened(r, f) = Rebuilt(t, d, new)[k]
      BY <3>1, RebuiltOnWay
    <3>3. CASE k = Len(d)
      <4>1. f = d /\ Rebuilt(t, d, new)[k] = new
        BY <1>1, <3>1, <3>3, PreFull, RebuiltIs
      <4>2. Above(d, q)
        BY <1>1, <2>4, <2>5, <3>3, <4>1 DEF Above, Pre
      <4>3. QED
        BY <2>4, <2>7, <3>2, <3>3, <4>1, <4>2
    <3>4. CASE k # Len(d)
      <4>1. Rebuilt(t, d, new)[k] = With(Opened(t, f), d[m], Rebuilt(t, d, new)[m])
        BY <1>1, <2>4, <3>1, <3>4, RebuiltIs
      <4>2. q[m] # d[m]
        <5>1. SUFFICES ASSUME q[m] = d[m] PROVE FALSE
          OBVIOUS
        <5>2. u = Append(f, d[m])
          BY <1>1, <2>4, <2>5, <5>1, PreNext
        <5>3. Pre(d, m) = Append(f, d[m]) /\ m \in 1 .. Len(d)
          BY <1>1, <2>4, <3>1, <3>4, PreNext
        <5>4. Starts(u, d)
          BY <1>1, <2>6, <5>2, <5>3 DEF Starts
        <5>5. QED
          BY <2>2, <2>5, <5>4
      <4>3. EntryOf(With(Opened(t, f), d[m], Rebuilt(t, d, new)[m]), q[m]) = EntryOf(Opened(t, f), q[m])
        <5>1. PICK o, n, e, x : /\ o = Opened(t, f) /\ n = d[m] /\ e = Rebuilt(t, d, new)[m]
                                /\ x = q[m] /\ x # n
          BY <4>2
        <5>2. EntryOf(With(o, n, e), x) = EntryOf(o, x)
          BY <5>1 DEF With, EntryOf
        <5>3. QED
          BY <5>1, <5>2
      <4>4. QED
        BY <2>7, <3>2, <4>1, <4>3
    <3>5. QED
      BY <3>3, <3>4
  <2>9. CASE ~Starts(f, d)
    <3>1. k # 0
      <4>1. Pre(d, 0) = <<>> /\ Pre(q, 0) = <<>>
        BY <1>1, PreFull
      <4>2. QED
        BY <1>1, <2>5, <2>6, <2>9, <4>1 DEF Starts
    <3>2. k \in 1 .. Len(q) /\ f # <<>>
      BY <2>4, <2>6, <3>1, EmptySeq
    <3>3. EntryAt(r, f) = EntryAt(t, f)
      BY <2>1, <2>4, <2>5, <2>9, <3>2
    <3>4. /\ WalkDir(r, f) = IF IsTree(EntryAt(r, f)) THEN EntryAt(r, f) ELSE Refused
          /\ WalkDir(t, f) = IF IsTree(EntryAt(t, f)) THEN EntryAt(t, f) ELSE Refused
      BY <2>6, <3>2, RebuiltOnWay, EntryIs
    <3>5. QED
      BY <2>7, <3>3, <3>4 DEF Opened
  <2>10. QED
    BY <2>8, <2>9
<1>3. Len(q) \in 1 .. Len(q) /\ Pre(q, Len(q)) = q
  <2>1. Len(q) # 0
    <3>1. Pre(d, 0) = <<>> /\ (Len(q) = 0 => q = Pre(q, 0)) /\ Pre(q, 0) = <<>>
      BY <1>1, PreFull
    <3>2. QED
      BY <1>1, <3>1 DEF Starts
  <2>2. QED
    BY <1>1, <2>1, PreFull
<1>4. QED
  BY <1>2, <1>3

LEMMA AboveIs ==
    ASSUME NEW q \in Ways, NEW p \in Ways
    PROVE  /\ Above(q, p) <=> Starts(q, p) /\ q # p
           /\ Starts(p, p)
           /\ Starts(q, p) => q = Pre(p, Len(q)) /\ Len(q) \in 0 .. Len(p)
           /\ Len(q) = Len(p) /\ Starts(q, p) => q = p
<1>1. /\ q \in Seq(Names) /\ Len(q) \in Nat /\ p \in Seq(Names) /\ Len(p) \in Nat
      /\ Pre(p, Len(p)) = p
  BY WaysAre, PreFull
<1>2. QED
  BY <1>1 DEF Above, Starts, Pre

LEMMA StartsTrans ==
    ASSUME NEW x \in Ways, NEW q \in Ways, NEW p \in Ways, Starts(x, q), Starts(q, p)
    PROVE  Starts(x, p)
<1>1. x = Pre(q, Len(x)) /\ Len(x) \in 0 .. Len(q) /\ q = Pre(p, Len(q)) /\ Len(q) \in 0 .. Len(p)
  BY AboveIs
<1>2. PICK i, l : i = Len(x) /\ l = Len(q)
  OBVIOUS
<1>3. p \in Seq(Names) /\ Len(p) \in Nat
  BY WaysAre
<1>4. Pre(Pre(p, l), i) = Pre(p, i)
  BY <1>1, <1>2, <1>3, PreOfPre
<1>5. i <= Len(p)
  BY <1>1, <1>2, <1>3
<1>6. Pre(p, i) = x
  BY <1>1, <1>2, <1>4
<1>7. QED
  BY <1>2, <1>5, <1>6 DEF Starts

(* The directories above a path are the directory it is in and those above it.*)
LEMMA AboveFront ==
    ASSUME NEW p \in Ways, p # <<>>, NEW q \in Ways
    PROVE  /\ Front(p) \in Ways
           /\ Above(q, p) <=> Starts(q, Front(p))
           /\ Starts(q, p) <=> Starts(q, Front(p)) \/ q = p
<1>1. PICK d : d = Front(p)
  OBVIOUS
<1>2. /\ p \in Seq(Names) /\ q \in Seq(Names) /\ Len(q) \in Nat /\ Len(p) \in Nat \ {0}
      /\ d = Pre(p, Len(p) - 1) /\ Len(d) = Len(p) - 1 /\ Len(p) - 1 \in 0 .. Len(p)
  BY <1>1, WaysAre, PathParts
<1>3. d \in Ways
  BY <1>2, PreWays
<1>4. ASSUME Len(q) <= Len(d) PROVE Pre(d, Len(q)) = Pre(p, Len(q))
  <2>1. PICK k, l : k = Len(q) /\ l = Len(p) - 1 /\ k \in 0 .. l
    BY <1>2, <1>4
  <2>2. Pre(Pre(p, l), k) = Pre(p, k)
    BY <1>2, <2>1, PreOfPre
  <2>3. QED
    BY <1>2, <2>1, <2>2
<1>5. Above(q, p) <=> Starts(q, d)
  BY <1>2, <1>4 DEF Above, Starts, Pre
<1>6. QED
  BY <1>1, <1>3, <1>5, AboveIs

(* What is below a note, or below nothing, is nothing.                        *)
LEMMA NothingBelow ==
    ASSUME NEW A, TreeNotes(A), NEW t \in TreesOf(A), NEW p \in Ways, p # <<>>,
           ~IsTree(EntryAt(t, p)), NEW q \in Ways, Above(p, q)
    PROVE  EntryAt(t, q) = Refused
<1> DEFINE bad == {n \in 1 .. Len(q) : Len(p) < n /\ EntryAt(t, Pre(q, n)) # Refused}
<1>1. /\ q \in Seq(Names) /\ Len(q) \in Nat /\ p \in Seq(Names) /\ Len(p) \in Nat \ {0}
      /\ Len(p) < Len(q) /\ Pre(q, Len(p)) = p /\ Pre(q, Len(q)) = q
  BY WaysAre, PathParts, PreFull DEF Above, Pre
<1>2. ASSUME bad # {} PROVE FALSE
  <2>1. PICK m \in bad : \A n \in bad : m <= n
    <3>1. bad \in SUBSET Nat
      BY <1>1
    <3>2. QED
      BY <1>2, <3>1, LeastNumber
  <2>2. PICK k : k = m - 1
    OBVIOUS
  <2>3. /\ k \in 1 .. Len(q) /\ k \in 0 .. Len(q) /\ m \in 0 .. Len(q) /\ m # 0
        /\ Len(p) <= k /\ ~ (m <= k) /\ EntryAt(t, Pre(q, m)) # Refused
    BY <1>1, <2>1, <2>2
  <2>4. PICK u, f : u = Pre(q, m) /\ f = Pre(q, k)
    OBVIOUS
  <2>5. u \in Ways /\ f \in Ways /\ f # <<>> /\ Front(u) = f
    BY <1>1, <2>2, <2>3, <2>4, PreWays
  <2>6. ~IsTree(EntryAt(t, f))
    <3>1. CASE k = Len(p)
      BY <1>1, <2>4, <3>1
    <3>2. CASE k # Len(p)
      BY <1>1, <2>1, <2>3, <2>4, <3>2 DEF IsTree
    <3>3. QED
      BY <3>1, <3>2
  <2>7. WalkDir(t, f) = Refused
    BY <2>5, <2>6, EntryIs
  <2>8. EntryAt(t, u) = Refused
    BY <2>5, <2>7, EmptyTreeIs DEF EntryAt, Opened, EntryOf
  <2>9. QED
    BY <2>3, <2>4, <2>8
<1>3. QED
  BY <1>1, <1>2

(* An edit of one entry, at p: there it leaves the new entry, above it        *)
(* directories, and beside it what there was.                                 *)
EditOf(A, t, p, new, r) ==
    /\ new \in Levels(A)[Depth - Len(Front(p))]
    /\ \A m : m # Last(p) => EntryOf(new, m) = EntryOf(Opened(t, Front(p)), m)
    /\ r = Rebuilt(t, Front(p), new)[0]

LEMMA EditIs ==
    ASSUME NEW A, TreeNotes(A), NEW t \in TreesOf(A), NEW p \in Ways, p # <<>>,
           NEW new, NEW r, EditOf(A, t, p, new, r)
    PROVE  /\ r \in TreesOf(A) /\ EntryAt(r, p) = EntryOf(new, Last(p))
           /\ \A q \in Ways : Above(q, p) /\ q # <<>> => IsTree(EntryAt(r, q))
           /\ \A q \in Ways : ~Starts(q, p) /\ ~Starts(p, q) => EntryAt(r, q) = EntryAt(t, q)
<1>1. PICK d, n : d = Front(p) /\ n = Last(p)
  OBVIOUS
<1>2. /\ d \in Ways /\ Len(d) = Len(p) - 1 /\ n \in Names /\ p = Append(d, n) /\ d \in Seq(Names)
      /\ p \in Seq(Names) /\ Len(p) \in Nat \ {0} /\ d = Pre(p, Len(d)) /\ Len(d) \in Nat
  <2>1. p \in Seq(Names)
    BY WaysAre
  <2>2. QED
    BY <1>1, <2>1, AboveFront, PathParts
<1>3. /\ new \in Levels(A)[Depth - Len(d)] /\ r = Rebuilt(t, d, new)[0]
      /\ \A m : m # n => EntryOf(new, m) = EntryOf(Opened(t, d), m)
  BY <1>1 DEF EditOf
<1>4. /\ r \in TreesOf(A)
      /\ \A i \in 0 .. Len(d) : /\ Opened(r, Pre(d, i)) = Rebuilt(t, d, new)[i]
                                /\ i # 0 => IsTree(EntryAt(r, Pre(d, i)))
  BY <1>2, <1>3, RebuiltOnWay
<1>5. EntryAt(r, p) = EntryOf(new, n)
  <2>1. PICK l : l = Len(d)
    OBVIOUS
  <2>2. l \in 0 .. Len(d) /\ Pre(d, l) = d /\ Rebuilt(t, d, new)[l] = new
    BY <1>2, <2>1, PreFull, RebuiltIs
  <2>3. Opened(r, d) = new
    BY <1>4, <2>2
  <2>4. QED
    BY <1>1, <2>3 DEF EntryAt
<1>6. ASSUME NEW q \in Ways, Above(q, p), q # <<>> PROVE IsTree(EntryAt(r, q))
  <2>1. Starts(q, d)
    BY <1>1, <1>6, AboveFront
  <2>2. q = Pre(d, Len(q)) /\ Len(q) \in 0 .. Len(d) /\ Len(q) # 0
    <3>1. q \in Seq(Names)
      BY WaysAre
    <3>2. QED
      BY <1>2, <1>6, <2>1, <3>1, AboveIs, EmptySeq
  <2>3. QED
    BY <1>4, <2>2
<1>7. ASSUME NEW q \in Ways, ~Starts(q, p), ~Starts(p, q) PROVE EntryAt(r, q) = EntryAt(t, q)
  <2>1. ~Starts(q, d)
    BY <1>1, <1>7, AboveFront
  <2>2. Above(d, q) => q[Len(d) + 1] # n
    <3>1. SUFFICES ASSUME Above(d, q), q[Len(d) + 1] = n PROVE FALSE
      OBVIOUS
    <3>2. PICK l : l = Len(d)
      OBVIOUS
    <3>3. q \in Seq(Names) /\ Len(q) \in Nat /\ l \in 0 .. Len(q) /\ l # Len(q) /\ Pre(q, l) = d
      BY <1>2, <3>1, <3>2, WaysAre DEF Above, Pre
    <3>4. Pre(q, l + 1) = Append(Pre(q, l), q[l+1]) /\ l + 1 \in 1 .. Len(q)
      BY <3>3, PreNext
    <3>5. Pre(q, Len(p)) = p /\ Len(p) <= Len(q)
      BY <1>2, <3>1, <3>2, <3>3, <3>4
    <3>6. QED
      BY <1>7, <3>5 DEF Starts
  <2>3. Above(d, q) => EntryOf(new, q[Len(d) + 1]) = EntryOf(Opened(t, d), q[Len(d) + 1])
    <3>1. PICK m : m = q[Len(d) + 1]
      OBVIOUS
    <3>2. QED
      BY <1>3, <2>2, <3>1
  <2>4. QED
    BY <1>2, <1>3, <2>1, <2>3, RebuiltBeside
<1>8. QED
  BY <1>1, <1>4, <1>5, <1>6, <1>7

(* Where no note is on the way, what is above a path is no note.              *)
LEMMA OnWay ==
    ASSUME NEW A, TreeNotes(A), NEW t \in TreesOf(A), NEW d \in Ways
    PROVE  NoteOnWay(t, d) <=> \E q \in Ways : /\ q # <<>> /\ Starts(q, d)
                                               /\ EntryAt(t, q) # Refused /\ ~IsTree(EntryAt(t, q))
<1>1. d \in Seq(Names) /\ Len(d) \in Nat /\ DOMAIN d = 1 .. Len(d)
  BY WaysAre, LenProperties
<1>2. ASSUME NEW i \in 1 .. Len(d)
      PROVE  /\ Pre(d, i) \in Ways /\ Pre(d, i) # <<>> /\ Starts(Pre(d, i), d)
             /\ HasNote(Opened(t, Pre(d, i - 1)), d[i])
                  <=> EntryAt(t, Pre(d, i)) # Refused /\ ~IsTree(EntryAt(t, Pre(d, i)))
  <2>1. PICK u : u = Pre(d, i)
    OBVIOUS
  <2>2. /\ u \in Ways /\ u # <<>> /\ Front(u) = Pre(d, i - 1) /\ Last(u) = d[i] /\ Len(u) = i
    BY <1>1, <2>1, PreWays
  <2>3. PICK o, n : o = Opened(t, Front(u)) /\ n = d[i] /\ EntryAt(t, u) = EntryOf(o, n)
    BY <2>2 DEF EntryAt
  <2>4. Front(u) \in Ways /\ Front(u) \in Seq(Names)
    BY <2>2, EntryIs, WaysAre
  <2>5. PICK k : k = Depth - Len(Front(u)) /\ k \in 0 .. Depth /\ o \in Levels(A)[k]
    BY <2>3, <2>4, OpenedType
  <2>6. \A m \in DOMAIN o : o[m] # Refused
    <3>1. \A m \in DOMAIN o : k - 1 \in 0 .. Depth /\ o[m] \in A \cup Levels(A)[k-1]
      BY <2>5, LevelIs
    <3>2. QED
      BY <3>1 DEF TreeNotes
  <2>7. HasNote(o, n) <=> EntryOf(o, n) # Refused /\ ~IsTree(EntryOf(o, n))
    BY <2>6 DEF HasNote, EntryOf, IsTree
  <2>8. Starts(u, d)
    BY <1>1, <2>1, <2>2 DEF Starts
  <2>9. QED
    BY <2>1, <2>2, <2>3, <2>7, <2>8
<1>3. ASSUME NoteOnWay(t, d)
      PROVE  \E q \in Ways : /\ q # <<>> /\ Starts(q, d)
                             /\ EntryAt(t, q) # Refused /\ ~IsTree(EntryAt(t, q))
  <2>1. PICK i \in 1 .. Len(d) : HasNote(Opened(t, Pre(d, i - 1)), d[i])
    BY <1>1, <1>3 DEF NoteOnWay, Pre
  <2>2. QED
    BY <1>2, <2>1
<1>4. ASSUME NEW q \in Ways, q # <<>>, Starts(q, d),
             EntryAt(t, q) # Refused, ~IsTree(EntryAt(t, q))
      PROVE  NoteOnWay(t, d)
  <2>1. q = Pre(d, Len(q)) /\ Len(q) \in 1 .. Len(d)
    <3>1. q \in Seq(Names)
      BY WaysAre
    <3>2. QED
      BY <1>1, <1>4, <3>1, AboveIs, EmptySeq
  <2>2. HasNote(Opened(t, Pre(d, Len(q) - 1)), d[Len(q)])
    BY <1>2, <1>4, <2>1
  <2>3. QED
    BY <1>1, <2>1, <2>2 DEF NoteOnWay, Pre
<1>5. QED
  BY <1>3, <1>4

(* r has e at p, directories above it, nothing below it, and beside it what t *)
(* has; no note of t is above p.                                              *)
Changed(t, r, p, e) ==
    \A q \in Ways \ {<<>>} :
        /\ q = p => EntryAt(r, q) = e
        /\ Above(q, p) => /\ IsTree(EntryAt(r, q))
                          /\ EntryAt(t, q) = Refused \/ IsTree(EntryAt(t, q))
        /\ Above(p, q) => EntryAt(r, q) = Refused
        /\ ~Starts(q, p) /\ ~Starts(p, q) => EntryAt(r, q) = EntryAt(t, q)

(* An edit that puts a note at p, or takes away what is there, changes no     *)
(* note but the one there and those below it.                                 *)
LEMMA EditLeaves ==
    ASSUME NEW A, TreeNotes(A), NEW t \in TreesOf(A), NEW p \in Ways, p # <<>>,
           NEW new, NEW r, EditOf(A, t, p, new, r), ~NoteOnWay(t, Front(p)),
           NEW e, e = EntryOf(new, Last(p)), ~IsTree(e)
    PROVE  /\ r \in TreesOf(A)
           /\ LeafEntry(r, p) = e
           /\ \A q \in Ways \ {<<>>} : q # p /\ Starts(p, q) => LeafEntry(r, q) = Refused
           /\ \A q \in Ways \ {<<>>} : ~Starts(p, q) => LeafEntry(r, q) = LeafEntry(t, q)
           /\ Changed(t, r, p, e)
<1>1. /\ r \in TreesOf(A) /\ EntryAt(r, p) = e
      /\ \A q \in Ways : Above(q, p) /\ q # <<>> => IsTree(EntryAt(r, q))
      /\ \A q \in Ways : ~Starts(q, p) /\ ~Starts(p, q) => EntryAt(r, q) = EntryAt(t, q)
  BY EditIs
<1>2. LeafEntry(r, p) = e
  BY <1>1, EntryIs
<1>3. ASSUME NEW q \in Ways \ {<<>>}, q # p, Starts(p, q) PROVE LeafEntry(r, q) = Refused
  <2>1. Above(p, q)
    BY <1>3, AboveIs
  <2>2. EntryAt(r, q) = Refused
    BY <1>1, <2>1, NothingBelow
  <2>3. QED
    BY <1>1, <2>2, EntryIs
<1>4. ASSUME NEW q \in Ways \ {<<>>}, ~Starts(p, q) PROVE LeafEntry(r, q) = LeafEntry(t, q)
  <2>1. /\ LeafEntry(r, q) = IF IsTree(EntryAt(r, q)) THEN Refused ELSE EntryAt(r, q)
        /\ LeafEntry(t, q) = IF IsTree(EntryAt(t, q)) THEN Refused ELSE EntryAt(t, q)
    BY <1>1, EntryIs
  <2>2. CASE Starts(q, p)
    <3>1. Above(q, p) /\ Starts(q, Front(p)) /\ Front(p) \in Ways
      BY <1>4, <2>2, AboveIs, AboveFront
    <3>2. IsTree(EntryAt(r, q))
      BY <1>1, <3>1
    <3>3. EntryAt(t, q) = Refused \/ IsTree(EntryAt(t, q))
      BY <3>1, OnWay
    <3>4. QED
      BY <2>1, <3>2, <3>3
  <2>3. CASE ~Starts(q, p)
    BY <1>1, <1>4, <2>1, <2>3
  <2>4. QED
    BY <2>2, <2>3
<1>5. Changed(t, r, p, e)
  <2>1. ASSUME NEW q \in Ways \ {<<>>}, Above(q, p)
        PROVE  IsTree(EntryAt(r, q)) /\ (EntryAt(t, q) = Refused \/ IsTree(EntryAt(t, q)))
    <3>1. Starts(q, Front(p)) /\ Front(p) \in Ways
      BY <2>1, AboveFront
    <3>2. EntryAt(t, q) = Refused \/ IsTree(EntryAt(t, q))
      BY <3>1, OnWay
    <3>3. QED
      BY <1>1, <2>1, <3>2
  <2>2. ASSUME NEW q \in Ways \ {<<>>}, Above(p, q) PROVE EntryAt(r, q) = Refused
    BY <1>1, <2>2, NothingBelow
  <2>3. QED
    BY <1>1, <2>1, <2>2 DEF Changed
<1>6. QED
  BY <1>1, <1>2, <1>3, <1>4, <1>5

LEMMA BelowNote ==
    ASSUME NEW A, TreeNotes(A), NEW t \in TreesOf(A), NEW p \in Ways, p # <<>>,
           ~IsTree(EntryAt(t, p)), NEW q \in Ways, q # p, Starts(p, q)
    PROVE  LeafEntry(t, q) = Refused /\ WalkDir(t, q) = Refused
<1>1. Above(p, q) /\ q # <<>>
  <2>1. p \in Seq(Names) /\ q \in Seq(Names)
    BY WaysAre
  <2>2. Above(p, q)
    BY AboveIs
  <2>3. Len(p) \in Nat \ {0} /\ Len(<<>>) = 0
    BY <2>1, PathParts, EmptySeq
  <2>4. QED
    BY <2>2, <2>3 DEF Above
<1>2. EntryAt(t, q) = Refused
  BY <1>1, NothingBelow
<1>3. QED
  BY <1>1, <1>2, EntryIs DEF IsTree

LEMMA WithoutIs ==
    ASSUME NEW t, NEW n
    PROVE  /\ EntryOf(Without(t, n), n) = Refused
           /\ \A m : m # n => EntryOf(Without(t, n), m) = EntryOf(t, m)
           /\ DOMAIN Without(t, n) = DOMAIN t \ {n}
           /\ Without(t, n) = [m \in DOMAIN Without(t, n) |-> Without(t, n)[m]]
           /\ \A m \in DOMAIN Without(t, n) : Without(t, n)[m] = t[m]
BY DEF Without, Restrict, EntryOf

LEMMA WithoutType ==
    ASSUME NEW A, NEW k \in 0 .. Depth, NEW t \in Levels(A)[k], NEW n
    PROVE  Without(t, n) \in Levels(A)[k]
<1>1. /\ DOMAIN t \subseteq Names /\ (k = 0 => t = EmptyTree)
      /\ \A m \in DOMAIN t : t[m] \in A \cup Levels(A)[k-1]
  BY LevelIs
<1>2. CASE k = 0
  <2>1. t = EmptyTree /\ DOMAIN t = {}
    BY <1>1, <1>2, EmptyTreeIs
  <2>2. Without(t, n) = EmptyTree
    BY <2>1 DEF Without, Restrict, EmptyTree
  <2>3. QED
    BY <2>1, <2>2
<1>3. CASE k # 0
  <2>1. k \in 1 .. Depth
    BY <1>3, DepthAssumption
  <2>2. PICK u : u = Without(t, n)
    OBVIOUS
  <2>3. /\ DOMAIN u = DOMAIN t \ {n} /\ u = [m \in DOMAIN u |-> u[m]]
        /\ \A m \in DOMAIN u : u[m] = t[m]
    BY <2>2 DEF Without, Restrict
  <2>4. u \in Levels(A)[k]
    BY <1>1, <2>1, <2>3, LevelHas
  <2>5. QED
    BY <2>2, <2>4
<1>4. QED
  BY <1>2, <1>3

(* What SetNote, RemoveNote and RemoveDir make of the notes of a tree.        *)
LEMMA PutIs ==
    ASSUME NEW A, TreeNotes(A), NEW t \in TreesOf(A), NEW p \in Ways, p # <<>>,
           NEW a \in A, NEW r, r = MutateAt(t, Front(p), PutNote(Last(p), a)), r # Refused
    PROVE  /\ r \in TreesOf(A)
           /\ \A q \in Ways \ {<<>>} : LeafEntry(r, q) = IF q = p THEN a ELSE LeafEntry(t, q)
           /\ ~IsTree(EntryAt(t, p))
           /\ ~NoteOnWay(t, Front(p))
           /\ Changed(t, r, p, a)
<1>1. PICK d, n, o, new : d = Front(p) /\ n = Last(p) /\ o = Opened(t, d) /\ new = With(o, n, a)
  OBVIOUS
<1>2. d \in Ways /\ n \in Names /\ Len(p) \in 1 .. Depth /\ Len(d) = Len(p) - 1
  BY <1>1, EntryIs
<1>3. PICK k : k = Depth - Len(d) /\ k \in 1 .. Depth /\ k \in 0 .. Depth
  BY <1>2, DepthAssumption
<1>4. o \in Levels(A)[k]
  BY <1>1, <1>2, <1>3, OpenedType
<1>5. Mutated(o, PutNote(n, a)) = IF HasDir(o, n) THEN Refused ELSE new
  BY <1>1 DEF Mutated, PutNote
<1>6. ~NoteOnWay(t, d) /\ ~HasDir(o, n) /\ r = Rebuilt(t, d, new)[0]
  BY <1>1, <1>5 DEF MutateAt
<1>7. new \in Levels(A)[k]
  BY <1>1, <1>2, <1>3, <1>4, WithType
<1>8. EntryOf(new, n) = a /\ \A m : m # n => EntryOf(new, m) = EntryOf(o, m)
  BY <1>1 DEF With, EntryOf
<1>9. EditOf(A, t, p, new, r)
  BY <1>1, <1>3, <1>6, <1>7, <1>8 DEF EditOf
<1>10. ~IsTree(a)
  BY DEF IsTree, TreeNotes
<1>11. ~IsTree(EntryAt(t, p))
  BY <1>1, <1>6 DEF EntryAt, EntryOf, IsTree, HasDir
<1>12. /\ r \in TreesOf(A)
       /\ LeafEntry(r, p) = a
       /\ \A q \in Ways \ {<<>>} : q # p /\ Starts(p, q) => LeafEntry(r, q) = Refused
       /\ \A q \in Ways \ {<<>>} : ~Starts(p, q) => LeafEntry(r, q) = LeafEntry(t, q)
       /\ Changed(t, r, p, a)
  BY <1>1, <1>6, <1>8, <1>9, <1>10, EditLeaves
<1>13. \A q \in Ways : q # p /\ Starts(p, q) => LeafEntry(t, q) = Refused
  BY <1>11, BelowNote
<1>14. QED
  BY <1>1, <1>6, <1>11, <1>12, <1>13

(* remove and forget take away a note that is there                           *)
LEMMA DropIs ==
    ASSUME NEW A, TreeNotes(A), NEW t \in TreesOf(A), NEW p \in Ways, p # <<>>,
           NEW e \in {DropNote(Last(p)), ForgetNote(Last(p))},
           NEW r, r = MutateAt(t, Front(p), e), r # Refused,
           HasNote(Opened(t, Front(p)), Last(p)) \/ e.op = "remove"
    PROVE  /\ r \in TreesOf(A)
           /\ \A q \in Ways \ {<<>>} : LeafEntry(r, q) = IF q = p THEN Refused ELSE LeafEntry(t, q)
           /\ LeafEntry(t, p) # Refused
           /\ Changed(t, r, p, Refused)
<1>1. PICK d, n, o, new : d = Front(p) /\ n = Last(p) /\ o = Opened(t, d) /\ new = Without(o, n)
  OBVIOUS
<1>2. d \in Ways /\ n \in Names /\ Len(p) \in 1 .. Depth /\ Len(d) = Len(p) - 1
  BY <1>1, EntryIs
<1>3. PICK k : k = Depth - Len(d) /\ k \in 0 .. Depth
  BY <1>2, DepthAssumption
<1>4. o \in Levels(A)[k]
  BY <1>1, <1>2, <1>3, OpenedType
<1>5. Mutated(o, e) = new /\ HasNote(o, n) /\ ~NoteOnWay(t, d) /\ r = Rebuilt(t, d, new)[0]
  <2>1. e = DropNote(n) \/ e = ForgetNote(n)
    BY <1>1
  <2>2. e = DropNote(n) => Mutated(o, e) = IF HasNote(o, n) THEN new ELSE Refused
    BY <1>1 DEF Mutated, DropNote
  <2>3. e = ForgetNote(n) => Mutated(o, e) = (IF HasNote(o, n) THEN new ELSE o) /\ e.op = "forget"
    BY <1>1 DEF Mutated, ForgetNote
  <2>4. HasNote(o, n)
    BY <1>1, <2>1, <2>2, <2>3 DEF MutateAt
  <2>5. Mutated(o, e) = new
    BY <2>1, <2>2, <2>3, <2>4
  <2>6. QED
    BY <1>1, <2>4, <2>5 DEF MutateAt
<1>6. new \in Levels(A)[k]
  BY <1>1, <1>3, <1>4, WithoutType
<1>7. EntryOf(new, n) = Refused /\ \A m : m # n => EntryOf(new, m) = EntryOf(o, m)
  BY <1>1 DEF Without, Restrict, EntryOf
<1>8. EditOf(A, t, p, new, r)
  BY <1>1, <1>3, <1>5, <1>6, <1>7 DEF EditOf
<1>9. ~IsTree(Refused)
  BY DEF IsTree
<1>10. EntryAt(t, p) = o[n] /\ ~IsTree(o[n])
  BY <1>1, <1>5 DEF EntryAt, EntryOf, IsTree, HasNote
<1>11. o[n] # Refused
  <2>1. \A m \in DOMAIN o : k - 1 \in 0 .. Depth /\ o[m] \in A \cup Levels(A)[k-1]
    BY <1>3, <1>4, LevelIs
  <2>2. n \in DOMAIN o
    BY <1>5 DEF HasNote
  <2>3. QED
    BY <2>1, <2>2 DEF TreeNotes
<1>12. LeafEntry(t, p) = o[n]
  BY <1>10, EntryIs
<1>13. /\ r \in TreesOf(A)
       /\ LeafEntry(r, p) = Refused
       /\ \A q \in Ways \ {<<>>} : q # p /\ Starts(p, q) => LeafEntry(r, q) = Refused
       /\ \A q \in Ways \ {<<>>} : ~Starts(p, q) => LeafEntry(r, q) = LeafEntry(t, q)
       /\ Changed(t, r, p, Refused)
  BY <1>1, <1>5, <1>7, <1>8, <1>9, EditLeaves
<1>14. \A q \in Ways : q # p /\ Starts(p, q) => LeafEntry(t, q) = Refused
  BY <1>10, BelowNote
<1>15. QED
  BY <1>11, <1>12, <1>13, <1>14

LEMMA RemoveDirIs ==
    ASSUME NEW A, TreeNotes(A), NEW t \in TreesOf(A), NEW p \in Ways, p # <<>>,
           NEW rec, NEW r, r = RemoveDir(t, p, rec), r # Refused
    PROVE  /\ r \in TreesOf(A)
           /\ \A q \in Ways \ {<<>>} : LeafEntry(r, q) = IF Starts(p, q) THEN Refused ELSE LeafEntry(t, q)
           /\ IsTree(EntryAt(t, p))
           /\ Changed(t, r, p, Refused)
<1>1. PICK d, n, o, new : d = Front(p) /\ n = Last(p) /\ o = Opened(t, d) /\ new = Without(o, n)
  OBVIOUS
<1>2. d \in Ways /\ n \in Names /\ Len(p) \in 1 .. Depth /\ Len(d) = Len(p) - 1
  BY <1>1, EntryIs
<1>3. PICK k : k = Depth - Len(d) /\ k \in 0 .. Depth
  BY <1>2, DepthAssumption
<1>4. o \in Levels(A)[k]
  BY <1>1, <1>2, <1>3, OpenedType
<1>5. /\ WalkDir(t, d) # Refused /\ HasDir(WalkDir(t, d), n)
      /\ r = MutateAt(t, d, DropDir(n))
  BY <1>1 DEF RemoveDir, DirPart, LeafName
<1>6. WalkDir(t, d) = o /\ HasDir(o, n)
  BY <1>1, <1>5 DEF Opened
<1>7. Mutated(o, DropDir(n)) = new
  BY <1>1 DEF Mutated, DropDir
<1>8. ~NoteOnWay(t, d) /\ r = Rebuilt(t, d, new)[0]
  BY <1>1, <1>5, <1>7 DEF MutateAt
<1>9. new \in Levels(A)[k]
  BY <1>1, <1>3, <1>4, WithoutType
<1>10. EntryOf(new, n) = Refused /\ \A m : m # n => EntryOf(new, m) = EntryOf(o, m)
  BY <1>1 DEF Without, Restrict, EntryOf
<1>11. EditOf(A, t, p, new, r)
  BY <1>1, <1>3, <1>8, <1>9, <1>10 DEF EditOf
<1>12. ~IsTree(Refused)
  BY DEF IsTree
<1>13. EntryAt(t, p) = o[n] /\ o[n] \in A \cup Levels(A)[k-1] /\ k - 1 \in 0 .. Depth
  <2>1. \A m \in DOMAIN o : k - 1 \in 0 .. Depth /\ o[m] \in A \cup Levels(A)[k-1]
    BY <1>3, <1>4, LevelIs
  <2>2. n \in DOMAIN o
    BY <1>6 DEF HasDir
  <2>3. QED
    BY <1>1, <2>1, <2>2 DEF EntryAt, EntryOf
<1>14. IsTree(EntryAt(t, p))
  BY <1>6, <1>13 DEF IsTree, HasDir, TreeNotes
<1>15. /\ r \in TreesOf(A)
       /\ LeafEntry(r, p) = Refused
       /\ \A q \in Ways \ {<<>>} : q # p /\ Starts(p, q) => LeafEntry(r, q) = Refused
       /\ \A q \in Ways \ {<<>>} : ~Starts(p, q) => LeafEntry(r, q) = LeafEntry(t, q)
       /\ Changed(t, r, p, Refused)
  BY <1>1, <1>8, <1>10, <1>11, <1>12, EditLeaves
<1>16. Starts(p, p)
  BY AboveIs
<1>17. QED
  BY <1>14, <1>15, <1>16

(* Where a walk ends in a directory, it came through directories, and it meets *)
(* no note.                                                                   *)
LEMMA WalkThrough ==
    ASSUME NEW A, TreeNotes(A), NEW t \in TreesOf(A), NEW d \in Ways, WalkDir(t, d) # Refused,
           NEW q \in Ways, q # <<>>, Starts(q, d)
    PROVE  IsTree(EntryAt(t, q)) /\ WalkDir(t, q) = EntryAt(t, q)
<1>1. IsTree(EntryAt(t, q))
  <2>1. SUFFICES ASSUME ~IsTree(EntryAt(t, q)) PROVE FALSE
    OBVIOUS
  <2>2. CASE q = d
    BY <2>1, <2>2, EntryIs
  <2>3. CASE q # d
    BY <2>1, <2>3, BelowNote
  <2>4. QED
    BY <2>2, <2>3
<1>2. QED
  BY <1>1, EntryIs

LEMMA NoNoteOnWay ==
    ASSUME NEW A, TreeNotes(A), NEW t \in TreesOf(A), NEW d \in Ways, WalkDir(t, d) # Refused
    PROVE  ~NoteOnWay(t, d)
BY WalkThrough, OnWay

IsFun(f) == f = [x \in DOMAIN f |-> f[x]]

LEMMA LevelFun ==
    ASSUME NEW A, NEW k \in 0 .. Depth, NEW t \in Levels(A)[k]
    PROVE  IsFun(t)
BY LevelIs DEF IsFun

(* To write a directory back as it was changes nothing.                       *)
LEMMA RebuiltSame ==
    ASSUME NEW A, TreeNotes(A), NEW t \in TreesOf(A), NEW d \in Ways, WalkDir(t, d) # Refused,
           NEW new, new = WalkDir(t, d)
    PROVE  Rebuilt(t, d, new)[0] = t
<1> DEFINE Good(i) == Rebuilt(t, d, new)[i] = Opened(t, Pre(d, i))
           bad == {j \in 0 .. Len(d) : ~ Good(Len(d) - j)}
<1>1. d \in Seq(Names) /\ Len(d) \in 0 .. Depth /\ Depth \in Nat /\ Len(d) \in Nat
  BY WaysAre, DepthAssumption
<1>2. PICK f : f = Rebuilt(t, d, new)
  OBVIOUS
<1>3. \A i \in 0 .. Len(d) :
         f[i] = IF i = Len(d) THEN new ELSE With(Opened(t, Pre(d, i)), d[i+1], f[i+1])
  BY <1>1, <1>2, RebuiltIs
<1>4. ASSUME bad # {} PROVE FALSE
  <2>1. PICK m \in bad : \A j \in bad : m <= j
    <3>1. bad \in SUBSET Nat
      BY <1>1
    <3>2. QED
      BY <1>4, <3>1, LeastNumber
  <2>2. PICK i : i = Len(d) - m
    OBVIOUS
  <2>3. i \in 0 .. Len(d) /\ m = Len(d) - i /\ f[i] # Opened(t, Pre(d, i))
    BY <1>1, <1>2, <2>1, <2>2
  <2>4. i # Len(d)
    <3>1. SUFFICES ASSUME i = Len(d) PROVE FALSE
      OBVIOUS
    <3>2. f[i] = new /\ Pre(d, i) = d
      BY <1>1, <1>3, <2>3, <3>1, PreFull
    <3>3. QED
      BY <2>3, <3>2 DEF Opened
  <2>5. PICK k : k = i + 1 /\ k \in 1 .. Len(d) /\ k \in 0 .. Len(d) /\ k # 0 /\ i = k - 1
    BY <1>1, <2>3, <2>4
  <2>6. f[k] = Opened(t, Pre(d, k))
    <3>1. PICK j : j = Len(d) - k
      OBVIOUS
    <3>2. j \in 0 .. Len(d) /\ ~ (m <= j) /\ k = Len(d) - j
      BY <1>1, <2>3, <2>5, <3>1
    <3>3. j \notin bad
      BY <2>1, <3>2
    <3>4. QED
      BY <1>2, <3>2, <3>3
  <2>7. PICK u, o, n : u = Pre(d, k) /\ o = Opened(t, Pre(d, i)) /\ n = d[k]
    OBVIOUS
  <2>8. u \in Ways /\ Len(u) = k /\ u # <<>> /\ Front(u) = Pre(d, i) /\ Last(u) = n /\ Pre(d, i) \in Ways
    BY <2>3, <2>5, <2>7, PreWays
  <2>9. EntryAt(t, u) = EntryOf(o, n)
    BY <2>7, <2>8 DEF EntryAt
  <2>10. Starts(u, d)
    BY <1>1, <2>5, <2>7, <2>8 DEF Starts
  <2>11. IsTree(EntryOf(o, n)) /\ WalkDir(t, u) = EntryOf(o, n)
    BY <2>8, <2>9, <2>10, WalkThrough
  <2>12. Opened(t, u) = EntryOf(o, n) /\ EntryOf(o, n) # Refused
    BY <2>11 DEF Opened, IsTree
  <2>13. n \in DOMAIN o /\ f[k] = o[n]
    BY <2>6, <2>7, <2>12 DEF EntryOf
  <2>14. o = [m2 \in DOMAIN o |-> o[m2]]
    <3>1. PICK l : l = Depth - Len(Pre(d, i)) /\ l \in 0 .. Depth /\ o \in Levels(A)[l]
      BY <2>7, <2>8, OpenedType
    <3>2. IsFun(o)
      BY <3>1, LevelFun
    <3>3. QED
      BY <3>2 DEF IsFun
  <2>15. With(o, n, o[n]) = o
    <3>1. DOMAIN o \cup {n} = DOMAIN o
      BY <2>13
    <3>2. With(o, n, o[n]) = [m2 \in DOMAIN o |-> o[m2]]
      BY <3>1 DEF With
    <3>3. QED
      BY <2>14, <3>2
  <2>16. f[i] = With(o, n, f[k])
    BY <1>3, <2>3, <2>4, <2>5, <2>7
  <2>17. QED
    BY <2>3, <2>7, <2>13, <2>15, <2>16
<1>5. Good(0)
  <2>1. PICK l : l = Len(d) /\ l \in 0 .. Len(d) /\ Len(d) - l = 0
    BY <1>1
  <2>2. l \notin bad
    BY <1>4
  <2>3. QED
    BY <2>1, <2>2
<1>6. t # Refused
  BY <1>1, DepthAssumption DEF TreesOf, TreeNotes
<1>7. Opened(t, <<>>) = t
  BY <1>6, WalkRoot DEF Opened
<1>8. QED
  BY <1>1, <1>5, <1>7, PreFull

-----------------------------------------------------------------------------
(* Staged changes.                                                            *)

IsChange(A, ch) == /\ ch.path \in Ways \ {<<>>} /\ ch.removed \in BOOLEAN
                   /\ ~ch.removed => ch.note \in A

Outcome(ch) == IF ch.removed THEN Refused ELSE ch.note

(* A change leaves its outcome at its path and every other note as it was.    *)
LEMMA ApplyIs ==
    ASSUME NEW A, TreeNotes(A), NEW t \in TreesOf(A), NEW ch, IsChange(A, ch),
           NEW r, r = ApplyChange(t, ch), r # Refused
    PROVE  /\ r \in TreesOf(A)
           /\ \A q \in Ways \ {<<>>} :
                 LeafEntry(r, q) = IF q = ch.path THEN Outcome(ch) ELSE LeafEntry(t, q)
<1>1. PICK p, n, w, o : /\ p = ch.path /\ n = Last(p) /\ w = WalkDir(t, Front(p)) /\ o = Opened(t, Front(p))
  OBVIOUS
<1>2. p \in Ways /\ p # <<>> /\ Front(p) \in Ways /\ n \in Names
  BY <1>1, EntryIs DEF IsChange
<1>3. t # Refused
  BY DepthAssumption DEF TreesOf, TreeNotes
<1>4. CASE ~ch.removed
  <2>1. r = MutateAt(t, Front(p), PutNote(Last(p), ch.note)) /\ ch.note \in A
    BY <1>1, <1>3, <1>4 DEF ApplyChange, DirPart, LeafName, IsChange
  <2>2. PICK a \in A : a = ch.note
    BY <2>1
  <2>3. r = MutateAt(t, Front(p), PutNote(Last(p), a))
    BY <2>1, <2>2
  <2>4. /\ r \in TreesOf(A)
        /\ \A q \in Ways \ {<<>>} : LeafEntry(r, q) = IF q = p THEN a ELSE LeafEntry(t, q)
    BY <1>2, <2>3, PutIs
  <2>5. QED
    BY <1>1, <1>4, <2>2, <2>4 DEF Outcome
<1>5. CASE ch.removed
  <2>1. LeafEntry(t, p) = IF w # Refused /\ HasNote(w, n) THEN w[n] ELSE Refused
    BY <1>1 DEF LeafEntry, DirPart, LeafName
  <2>2. CASE w = Refused
    <3>1. r = t
      BY <1>1, <1>3, <1>5, <2>2 DEF ApplyChange, DirPart, LeafName
    <3>2. QED
      BY <1>1, <1>5, <2>1, <2>2, <3>1 DEF Outcome
  <2>3. CASE w # Refused
    <3>1. r = MutateAt(t, Front(p), ForgetNote(n)) /\ o = w
      BY <1>1, <1>3, <1>5, <2>3 DEF ApplyChange, DirPart, LeafName, Opened
    <3>2. CASE HasNote(o, n)
      <4>1. PICK e \in {DropNote(Last(p)), ForgetNote(Last(p))} : e = ForgetNote(n)
        BY <1>1
      <4>2. r = MutateAt(t, Front(p), e)
        BY <3>1, <4>1
      <4>3. HasNote(Opened(t, Front(p)), Last(p))
        BY <1>1, <3>2
      <4>4. /\ r \in TreesOf(A)
            /\ \A q \in Ways \ {<<>>} : LeafEntry(r, q) = IF q = p THEN Refused ELSE LeafEntry(t, q)
        BY <1>2, <4>2, <4>3, DropIs
      <4>5. QED
        BY <1>1, <1>5, <4>4 DEF Outcome
    <3>3. CASE ~HasNote(o, n)
      <4>1. Mutated(o, ForgetNote(n)) = w
        BY <3>1, <3>3 DEF Mutated, ForgetNote
      <4>2. r = Rebuilt(t, Front(p), w)[0]
        BY <1>1, <3>1, <4>1 DEF MutateAt
      <4>3. r = t
        BY <1>1, <1>2, <2>3, <4>2, RebuiltSame
      <4>4. QED
        BY <1>1, <1>5, <2>1, <3>1, <3>3, <4>3 DEF Outcome
    <3>4. QED
      BY <3>2, <3>3
  <2>4. QED
    BY <2>2, <2>3
<1>6. QED
  BY <1>4, <1>5

(* A change whose outcome is there already changes nothing.                   *)
LEMMA ApplyAgain ==
    ASSUME NEW A, TreeNotes(A), NEW t \in TreesOf(A), NEW ch, IsChange(A, ch),
           LeafEntry(t, ch.path) = Outcome(ch)
    PROVE  ApplyChange(t, ch) = t
<1>1. PICK p, d, n, w : /\ p = ch.path /\ d = Front(p) /\ n = Last(p) /\ w = WalkDir(t, Front(p))
  OBVIOUS
<1>2. p \in Ways /\ p # <<>> /\ d \in Ways /\ n \in Names
  BY <1>1, EntryIs DEF IsChange
<1>3. t # Refused
  BY DepthAssumption DEF TreesOf, TreeNotes
<1>4. LeafEntry(t, p) = IF w # Refused /\ HasNote(w, n) THEN w[n] ELSE Refused
  BY <1>1 DEF LeafEntry, DirPart, LeafName
<1>5. w # Refused => /\ Opened(t, d) = w /\ ~NoteOnWay(t, d) /\ IsFun(w)
                     /\ \A m \in DOMAIN w : w[m] # Refused
  <2>1. SUFFICES ASSUME w # Refused
                 PROVE  /\ Opened(t, d) = w /\ ~NoteOnWay(t, d) /\ IsFun(w)
                        /\ \A m \in DOMAIN w : w[m] # Refused
    OBVIOUS
  <2>2. Opened(t, d) = w /\ ~NoteOnWay(t, d)
    BY <1>1, <1>2, <2>1, NoNoteOnWay DEF Opened
  <2>3. PICK k : k = Depth - Len(d) /\ k \in 0 .. Depth /\ w \in Levels(A)[k]
    BY <1>2, <2>2, OpenedType
  <2>4. \A m \in DOMAIN w : k - 1 \in 0 .. Depth /\ w[m] \in A \cup Levels(A)[k-1]
    BY <2>3, LevelIs
  <2>5. \A m \in DOMAIN w : w[m] # Refused
    BY <2>4 DEF TreeNotes
  <2>6. QED
    BY <2>2, <2>3, <2>5, LevelFun
<1>6. ASSUME NEW e, w # Refused, Mutated(w, e) = w PROVE MutateAt(t, d, e) = t
  <2>1. MutateAt(t, d, e) = Rebuilt(t, d, w)[0]
    BY <1>5, <1>6 DEF MutateAt
  <2>2. QED
    BY <1>1, <1>2, <1>6, <2>1, RebuiltSame
<1>7. CASE ~ch.removed
  <2>1. ch.note \in A /\ ch.note # Refused
    BY <1>7 DEF IsChange, TreeNotes
  <2>2. w # Refused /\ HasNote(w, n) /\ w[n] = ch.note
    BY <1>1, <1>4, <1>7, <2>1 DEF Outcome
  <2>3. With(w, n, ch.note) = w
    <3>1. DOMAIN w \cup {n} = DOMAIN w
      BY <2>2 DEF HasNote
    <3>2. With(w, n, ch.note) = [x \in DOMAIN w |-> w[x]]
      BY <2>2, <3>1 DEF With
    <3>3. QED
      BY <1>5, <2>2, <3>2 DEF IsFun
  <2>4. Mutated(w, PutNote(n, ch.note)) = w
    BY <2>2, <2>3 DEF Mutated, PutNote, HasNote, HasDir
  <2>5. ApplyChange(t, ch) = MutateAt(t, d, PutNote(n, ch.note))
    BY <1>1, <1>3, <1>7 DEF ApplyChange, DirPart, LeafName
  <2>6. QED
    BY <1>6, <2>2, <2>4, <2>5
<1>8. CASE ch.removed
  <2>1. CASE w = Refused
    BY <1>1, <1>3, <1>8, <2>1 DEF ApplyChange, DirPart, LeafName
  <2>2. CASE w # Refused
    <3>1. ~HasNote(w, n)
      <4>1. LeafEntry(t, p) = Refused
        BY <1>1, <1>8 DEF Outcome
      <4>2. QED
        BY <1>4, <1>5, <2>2, <4>1 DEF HasNote
    <3>2. Mutated(w, ForgetNote(n)) = w
      BY <3>1 DEF Mutated, ForgetNote
    <3>3. ApplyChange(t, ch) = MutateAt(t, d, ForgetNote(n))
      BY <1>1, <1>3, <1>8, <2>2 DEF ApplyChange, DirPart, LeafName
    <3>4. QED
      BY <1>6, <2>2, <3>2, <3>3
  <2>3. QED
    BY <2>1, <2>2
<1>9. QED
  BY <1>7, <1>8

IsApplied(t, cs, k, w) ==
    w = [i \in 0 .. k |-> IF i = 0 THEN t ELSE ApplyChange(w[i-1], cs[i])]

LEMMA AppliedExists ==
    ASSUME NEW t, NEW cs, NEW k \in Nat
    PROVE  \E w : IsApplied(t, cs, k, w)
<1> DEFINE bad == {n \in Nat : ~ \E w : IsApplied(t, cs, n, w)}
<1>1. SUFFICES ASSUME bad # {} PROVE FALSE
  OBVIOUS
<1>2. PICK m \in bad : \A n \in bad : m <= n
  <2>1. bad \in SUBSET Nat
    OBVIOUS
  <2>2. QED
    BY <1>1, <2>1, LeastNumber
<1>3. m # 0
  <2>1. IsApplied(t, cs, 0, [i \in 0 .. 0 |-> t])
    BY DEF IsApplied
  <2>2. QED
    BY <1>2, <2>1
<1>4. m \in Nat /\ m - 1 \in Nat /\ ~ (m <= m - 1)
  BY <1>2, <1>3
<1>5. m - 1 \notin bad
  BY <1>2, <1>4
<1>6. PICK v : IsApplied(t, cs, m - 1, v)
  BY <1>4, <1>5
<1>7. PICK w : w = [i \in 0 .. m |-> IF i = m THEN ApplyChange(v[m-1], cs[m]) ELSE v[i]]
  OBVIOUS
<1>8. ASSUME NEW i \in 0 .. m
      PROVE  w[i] = IF i = 0 THEN t ELSE ApplyChange(w[i-1], cs[i])
  <2>1. \A j \in 0 .. m - 1 : v[j] = IF j = 0 THEN t ELSE ApplyChange(v[j-1], cs[j])
    BY <1>6 DEF IsApplied
  <2>2. CASE i = m
    <3>1. w[i] = ApplyChange(v[m-1], cs[m])
      BY <1>7, <2>2
    <3>2. w[m-1] = v[m-1]
      BY <1>4, <1>7
    <3>3. QED
      BY <1>3, <2>2, <3>1, <3>2
  <2>3. CASE i # m
    <3>1. i \in 0 .. m - 1 /\ w[i] = v[i]
      BY <1>4, <1>7, <2>3
    <3>2. i # 0 => i - 1 \in 0 .. m /\ i - 1 # m
      BY <1>4, <3>1
    <3>3. i # 0 => w[i-1] = v[i-1]
      BY <1>7, <3>2
    <3>4. QED
      BY <2>1, <3>1, <3>3
  <2>4. QED
    BY <2>2, <2>3
<1>9. w = [i \in 0 .. m |-> w[i]]
  BY <1>7
<1>10. IsApplied(t, cs, m, w)
  BY <1>8, <1>9 DEF IsApplied
<1>11. QED
  BY <1>2, <1>10

LEMMA AppliedIs ==
    ASSUME NEW t, NEW cs, Len(cs) \in Nat
    PROVE  \A i \in 0 .. Len(cs) :
              Applied(t, cs)[i] = IF i = 0 THEN t ELSE ApplyChange(Applied(t, cs)[i-1], cs[i])
<1>1. Applied(t, cs) = CHOOSE w : IsApplied(t, cs, Len(cs), w)
  BY DEF Applied, IsApplied
<1>2. IsApplied(t, cs, Len(cs), CHOOSE w : IsApplied(t, cs, Len(cs), w))
  BY AppliedExists
<1>3. IsApplied(t, cs, Len(cs), Applied(t, cs))
  BY <1>1, <1>2
<1>4. QED
  BY <1>3 DEF IsApplied

IsChanges(A, cs) == /\ Len(cs) \in Nat
                    /\ \A i \in 1 .. Len(cs) : IsChange(A, cs[i])
                    /\ \A i, j \in 1 .. Len(cs) : i # j => cs[i].path # cs[j].path

(* A replay that is not refused leaves the outcome of each change at its path *)
(* and every other note as it was.                                            *)
LEMMA ReplayIs ==
    ASSUME NEW A, TreeNotes(A), NEW t \in TreesOf(A), NEW cs, IsChanges(A, cs),
           NEW r, r = ApplyStagedChanges(t, cs), r # Refused
    PROVE  /\ r \in TreesOf(A)
           /\ \A i \in 1 .. Len(cs) : LeafEntry(r, cs[i].path) = Outcome(cs[i])
           /\ \A q \in Ways \ {<<>>} :
                 (\A i \in 1 .. Len(cs) : cs[i].path # q) => LeafEntry(r, q) = LeafEntry(t, q)
<1> DEFINE f == Applied(t, cs)
           Good(i) == /\ f[i] \in TreesOf(A)
                      /\ \A j \in 1 .. i : LeafEntry(f[i], cs[j].path) = Outcome(cs[j])
                      /\ \A q \in Ways \ {<<>>} :
                            (\A j \in 1 .. i : cs[j].path # q) => LeafEntry(f[i], q) = LeafEntry(t, q)
           bad == {i \in 0 .. Len(cs) : ~ (f[i] = Refused \/ Good(i))}
<1>1. /\ Len(cs) \in Nat
      /\ \A i \in 1 .. Len(cs) : IsChange(A, cs[i])
      /\ \A i, j \in 1 .. Len(cs) : i # j => cs[i].path # cs[j].path
  BY DEF IsChanges
<1>2. \A i \in 0 .. Len(cs) : f[i] = IF i = 0 THEN t ELSE ApplyChange(f[i-1], cs[i])
  BY <1>1, AppliedIs
<1> HIDE DEF f
<1>3. ASSUME bad # {} PROVE FALSE
  <2>1. PICK m \in bad : \A j \in bad : m <= j
    <3>1. bad \in SUBSET Nat
      BY <1>1
    <3>2. QED
      BY <1>3, <3>1, LeastNumber
  <2>2. m \in 0 .. Len(cs) /\ f[m] # Refused /\ ~Good(m)
    BY <2>1
  <2>3. m # 0
    <3>1. SUFFICES ASSUME m = 0 PROVE FALSE
      OBVIOUS
    <3>2. f[m] = t
      BY <1>2, <2>2, <3>1
    <3>3. QED
      BY <2>2, <3>1, <3>2
  <2>4. PICK k : k = m - 1
    OBVIOUS
  <2>5. k \in 0 .. Len(cs) /\ m \in 1 .. Len(cs) /\ ~ (m <= k) /\ m = k + 1
    BY <1>1, <2>2, <2>3, <2>4
  <2>6. f[m] = ApplyChange(f[k], cs[m])
    BY <1>2, <2>2, <2>3, <2>4
  <2>7. f[k] # Refused
    BY <2>2, <2>6 DEF ApplyChange
  <2>8. Good(k)
    BY <2>1, <2>5, <2>7
  <2>9. PICK u, v, ch : u = f[k] /\ v = f[m] /\ ch = cs[m]
    OBVIOUS
  <2>10. /\ v \in TreesOf(A)
         /\ \A q \in Ways \ {<<>>} : LeafEntry(v, q) = IF q = ch.path THEN Outcome(ch) ELSE LeafEntry(u, q)
    <3>1. IsChange(A, ch) /\ u \in TreesOf(A) /\ v = ApplyChange(u, ch) /\ v # Refused
      BY <1>1, <2>2, <2>5, <2>6, <2>8, <2>9
    <3>2. QED
      BY <3>1, ApplyIs
  <2>11. ch.path \in Ways \ {<<>>}
    BY <1>1, <2>5, <2>9 DEF IsChange
  <2>12. ASSUME NEW j \in 1 .. m PROVE LeafEntry(v, cs[j].path) = Outcome(cs[j])
    <3>1. CASE j = m
      BY <2>9, <2>10, <2>11, <3>1
    <3>2. CASE j # m
      <4>1. j \in 1 .. k /\ j \in 1 .. Len(cs)
        BY <2>5, <3>2
      <4>2. cs[j].path # ch.path /\ cs[j].path \in Ways \ {<<>>}
        BY <1>1, <2>5, <2>9, <3>2, <4>1 DEF IsChange
      <4>3. LeafEntry(u, cs[j].path) = Outcome(cs[j])
        BY <2>8, <2>9, <4>1
      <4>4. PICK x : x = cs[j].path /\ x \in Ways \ {<<>>} /\ x # ch.path
        BY <4>2
      <4>5. QED
        BY <2>10, <4>3, <4>4
    <3>3. QED
      BY <3>1, <3>2
  <2>13. ASSUME NEW q \in Ways \ {<<>>}, \A j \in 1 .. m : cs[j].path # q
         PROVE  LeafEntry(v, q) = LeafEntry(t, q)
    <3>1. m \in 1 .. m /\ \A j \in 1 .. k : j \in 1 .. m
      BY <2>5
    <3>2. ch.path # q /\ \A j \in 1 .. k : cs[j].path # q
      BY <2>9, <2>13, <3>1
    <3>3. LeafEntry(u, q) = LeafEntry(t, q)
      BY <2>8, <2>9, <3>2
    <3>4. QED
      BY <2>10, <3>2, <3>3
  <2>14. QED
    BY <2>2, <2>9, <2>10, <2>12, <2>13
<1>4. r = f[Len(cs)]
  BY DEF ApplyStagedChanges, f
<1>5. PICK l : l = Len(cs) /\ l \in 0 .. Len(cs)
  BY <1>1
<1>6. Good(l)
  BY <1>3, <1>4, <1>5
<1>7. QED
  BY <1>4, <1>5, <1>6

(* A replay of changes whose outcomes are there changes nothing.              *)
LEMMA ReplayAgain ==
    ASSUME NEW A, TreeNotes(A), NEW t \in TreesOf(A), NEW cs, IsChanges(A, cs),
           \A i \in 1 .. Len(cs) : LeafEntry(t, cs[i].path) = Outcome(cs[i])
    PROVE  ApplyStagedChanges(t, cs) = t
<1> DEFINE f == Applied(t, cs)
           bad == {i \in 0 .. Len(cs) : f[i] # t}
<1>1. Len(cs) \in Nat /\ \A i \in 1 .. Len(cs) : IsChange(A, cs[i])
  BY DEF IsChanges
<1>2. \A i \in 0 .. Len(cs) : f[i] = IF i = 0 THEN t ELSE ApplyChange(f[i-1], cs[i])
  BY <1>1, AppliedIs
<1> HIDE DEF f
<1>3. ASSUME bad # {} PROVE FALSE
  <2>1. PICK m \in bad : \A j \in bad : m <= j
    <3>1. bad \in SUBSET Nat
      BY <1>1
    <3>2. QED
      BY <1>3, <3>1, LeastNumber
  <2>2. m \in 0 .. Len(cs) /\ m # 0 /\ f[m] # t
    BY <1>2, <2>1
  <2>3. PICK k : k = m - 1
    OBVIOUS
  <2>4. k \in 0 .. Len(cs) /\ m \in 1 .. Len(cs) /\ ~ (m <= k)
    BY <1>1, <2>2, <2>3
  <2>5. f[k] = t
    BY <2>1, <2>4
  <2>6. f[m] = ApplyChange(t, cs[m])
    BY <1>2, <2>2, <2>3, <2>5
  <2>7. PICK ch : ch = cs[m] /\ IsChange(A, ch) /\ LeafEntry(t, ch.path) = Outcome(ch)
    BY <1>1, <2>4
  <2>8. QED
    BY <2>2, <2>6, <2>7, ApplyAgain
<1>4. Len(cs) \in 0 .. Len(cs)
  BY <1>1
<1>5. QED
  BY <1>3, <1>4 DEF ApplyStagedChanges, f

(* An enumeration of a finite set has each of its elements once.              *)
LEMMA SeqsOf ==
    ASSUME NEW S, IsFiniteSet(S), NEW s \in SetToSeqs(S)
    PROVE  /\ Cardinality(S) \in Nat /\ Len(s) = Cardinality(S) /\ s \in Seq(S)
           /\ \A i \in 1 .. Len(s) : s[i] \in S
           /\ \A i, j \in 1 .. Len(s) : i # j => s[i] # s[j]
           /\ \A x \in S : \E i \in 1 .. Len(s) : s[i] = x
<1>1. PICK n : n = Cardinality(S) /\ n \in Nat
  BY FS_CardinalityType
<1>2. s \in [1 .. n -> S] /\ \A i, j \in 1 .. n : i # j => s[i] # s[j]
  BY <1>1 DEF SetToSeqs
<1>3. s \in Seq(S) /\ Len(s) = n
  BY <1>1, <1>2, SeqDef
<1>4. s \in Injection(1 .. n, S)
  BY <1>2 DEF Injection, IsInjective
<1>5. Cardinality(1 .. n) = n
  <2>1. 1 \in Int /\ n \in Int
    BY <1>1
  <2>2. Cardinality(1 .. n) = IF 1 > n THEN 0 ELSE n - 1 + 1
    BY <2>1, FS_Interval
  <2>3. QED
    BY <1>1, <2>2
<1>6. s \in Surjection(1 .. n, S)
  BY <1>1, <1>4, <1>5, FS_Injection
<1>7. \A x \in S : \E i \in 1 .. n : s[i] = x
  BY <1>6 DEF Surjection
<1>8. QED
  BY <1>1, <1>2, <1>3, <1>7

Sorted(s) == \A i, j \in DOMAIN s : i < j => Len(s[i].path) <= Len(s[j].path)

LEMMA SortedExists ==
    ASSUME NEW S, IsFiniteSet(S), \A x \in S : x.path \in Ways
    PROVE  \E s \in SetToSeqs(S) : Sorted(s)
<1> DEFINE Fails(T, n) == /\ IsFiniteSet(T) /\ Cardinality(T) = n /\ \A x \in T : x.path \in Ways
                          /\ ~ \E s \in SetToSeqs(T) : Sorted(s)
           bad == {n \in Nat : \E T : Fails(T, n)}
<1>1. SUFFICES ASSUME ~ \E s \in SetToSeqs(S) : Sorted(s) PROVE FALSE
  OBVIOUS
<1>2. bad # {}
  <2>1. Fails(S, Cardinality(S)) /\ Cardinality(S) \in Nat
    BY <1>1, FS_CardinalityType
  <2>2. QED
    BY <2>1
<1>3. PICK n \in bad : \A m \in bad : n <= m
  <2>1. bad \in SUBSET Nat
    OBVIOUS
  <2>2. QED
    BY <1>2, <2>1, LeastNumber
<1>4. PICK T : Fails(T, n)
  BY <1>3
<1>5. n \in Nat /\ IsFiniteSet(T) /\ Cardinality(T) = n /\ \A x \in T : x.path \in Ways
  BY <1>3, <1>4
<1>6. T # {}
  <2>1. SUFFICES ASSUME T = {} PROVE FALSE
    OBVIOUS
  <2>2. n = 0
    BY <1>5, <2>1, FS_EmptySet
  <2>3. PICK s : s = [i \in 1 .. 0 |-> 0]
    OBVIOUS
  <2>4. s \in SetToSeqs(T)
    BY <1>5, <2>2, <2>3 DEF SetToSeqs
  <2>5. Sorted(s)
    BY <2>3 DEF Sorted
  <2>6. QED
    BY <1>4, <2>4, <2>5
<1>7. PICK x \in T : \A y \in T : Len(y.path) <= Len(x.path)
  <2> DEFINE Short == {Depth - Len(y.path) : y \in T}
  <2>1. \A y \in T : Len(y.path) \in 0 .. Depth /\ Depth \in Nat
    BY <1>5, WaysAre, DepthAssumption
  <2>2. Short \in SUBSET Nat /\ Short # {}
    BY <1>6, <2>1
  <2>3. PICK l \in Short : \A k \in Short : l <= k
    BY <2>2, LeastNumber
  <2>4. PICK x \in T : l = Depth - Len(x.path)
    BY <2>3
  <2>5. ASSUME NEW y \in T PROVE Len(y.path) <= Len(x.path)
    <3>1. l <= Depth - Len(y.path)
      BY <2>3
    <3>2. QED
      BY <2>1, <2>4, <3>1
  <2>6. QED
    BY <2>4, <2>5
<1>8. PICK U : U = T \ {x}
  OBVIOUS
<1>9. IsFiniteSet(U) /\ Cardinality(U) = n - 1
  BY <1>5, <1>7, <1>8, FS_RemoveElement
<1>10. Cardinality(U) \in Nat
  BY <1>9, FS_CardinalityType
<1>11. PICK m : m = n - 1 /\ m \in Nat /\ ~ (n <= m) /\ n = m + 1
  BY <1>5, <1>9, <1>10
<1>12. PICK s \in SetToSeqs(U) : Sorted(s)
  <2>1. m \notin bad
    BY <1>3, <1>11
  <2>2. ~Fails(U, m)
    BY <1>11, <2>1
  <2>3. QED
    BY <1>5, <1>8, <1>9, <1>11, <2>2
<1>13. s \in [1 .. m -> U] /\ \A i, j \in 1 .. m : i # j => s[i] # s[j]
  BY <1>9, <1>11 DEF SetToSeqs
<1>14. PICK r : r = [i \in 1 .. n |-> IF i = n THEN x ELSE s[i]]
  OBVIOUS
<1>15. \A i \in 1 .. n : i # n => i \in 1 .. m
  BY <1>11
<1>16. r \in [1 .. n -> T] /\ \A i, j \in 1 .. n : i # j => r[i] # r[j]
  <2>1. ASSUME NEW i \in 1 .. n
        PROVE  (r[i] = x /\ i = n) \/ (r[i] = s[i] /\ r[i] \in U /\ i # n)
    <3>1. r[i] = IF i = n THEN x ELSE s[i]
      BY <1>14
    <3>2. i # n => s[i] \in U
      BY <1>13, <1>15
    <3>3. QED
      BY <3>1, <3>2
  <2>2. ASSUME NEW i \in 1 .. n, NEW j \in 1 .. n, i # j PROVE r[i] # r[j]
    BY <1>8, <1>13, <1>15, <2>1, <2>2
  <2>3. QED
    BY <1>7, <1>8, <1>14, <2>1, <2>2
<1>17. r \in SetToSeqs(T)
  BY <1>5, <1>16 DEF SetToSeqs
<1>18. Sorted(r)
  <2>1. SUFFICES ASSUME NEW i \in 1 .. n, NEW j \in 1 .. n, i < j
                 PROVE  Len(r[i].path) <= Len(r[j].path)
    BY <1>14 DEF Sorted
  <2>2. i # n
    BY <1>5, <2>1
  <2>3. i \in 1 .. m /\ r[i] = s[i] /\ s[i] \in T
    BY <1>8, <1>13, <1>14, <1>15, <2>2
  <2>4. CASE j = n
    <3>1. r[j] = x
      BY <1>14, <2>4
    <3>2. QED
      BY <1>7, <2>3, <3>1
  <2>5. CASE j # n
    <3>1. j \in 1 .. m /\ r[j] = s[j]
      BY <1>14, <1>15, <2>5
    <3>2. QED
      BY <1>12, <1>13, <2>1, <2>3, <3>1 DEF Sorted
  <2>6. QED
    BY <2>4, <2>5
<1>19. QED
  BY <1>4, <1>17, <1>18

LEMMA ByPathIs ==
    ASSUME NEW S, IsFiniteSet(S), \A x \in S : x.path \in Ways, NEW s, s = ByPath(S)
    PROVE  /\ Len(s) \in Nat /\ Sorted(s) /\ s \in Seq(S)
           /\ \A i \in 1 .. Len(s) : s[i] \in S
           /\ \A i, j \in 1 .. Len(s) : i # j => s[i] # s[j]
           /\ \A x \in S : \E i \in 1 .. Len(s) : s[i] = x
<1>1. s = CHOOSE z \in SetToSeqs(S) : Sorted(z)
  BY DEF ByPath, Sorted
<1>2. s \in SetToSeqs(S) /\ Sorted(s)
  BY <1>1, SortedExists
<1>3. QED
  BY <1>2, SeqsOf

Differing(base, stage) == {p \in Ways \ {<<>>} : LeafEntry(base, p) # LeafEntry(stage, p)}

ChangeAt(stage, p) ==
    IF LeafEntry(stage, p) = Refused THEN [path |-> p, removed |-> TRUE]
    ELSE [path |-> p, removed |-> FALSE, note |-> LeafEntry(stage, p)]

LEMMA StagedAre ==
    ASSUME NEW base, NEW stage
    PROVE  StagedChanges(base, stage) = ByPath({ChangeAt(stage, p) : p \in Differing(base, stage)})
<1> DEFINE from == CollectLeaves(base)
           to == CollectLeaves(stage)
           written == {[path |-> p, removed |-> FALSE, note |-> to[p]] :
                         p \in {q \in DOMAIN to : q \notin DOMAIN from \/ from[q] # to[q]}}
           dropped == {[path |-> p, removed |-> TRUE] : p \in DOMAIN from \ DOMAIN to}
<1>1. StagedChanges(base, stage) = ByPath(written \cup dropped)
  BY DEF StagedChanges
<1>2. /\ \A q : q \in DOMAIN to <=> q \in Ways \ {<<>>} /\ LeafEntry(stage, q) # Refused
      /\ \A q \in DOMAIN to : to[q] = LeafEntry(stage, q)
      /\ \A q : q \in DOMAIN from <=> q \in Ways \ {<<>>} /\ LeafEntry(base, q) # Refused
      /\ \A q \in DOMAIN from : from[q] = LeafEntry(base, q)
  BY DEF CollectLeaves
<1> HIDE DEF from, to
<1>3. ASSUME NEW x \in written \cup dropped
      PROVE  x \in {ChangeAt(stage, p) : p \in Differing(base, stage)}
  <2>1. CASE x \in written
    <3>1. PICK p \in DOMAIN to : /\ p \notin DOMAIN from \/ from[p] # to[p]
                                 /\ x = [path |-> p, removed |-> FALSE, note |-> to[p]]
      BY <2>1
    <3>2. p \in Differing(base, stage) /\ x = ChangeAt(stage, p)
      BY <1>2, <3>1 DEF Differing, ChangeAt
    <3>3. QED
      BY <3>2
  <2>2. CASE x \in dropped
    <3>1. PICK p \in DOMAIN from \ DOMAIN to : x = [path |-> p, removed |-> TRUE]
      BY <2>2
    <3>2. p \in Differing(base, stage) /\ x = ChangeAt(stage, p)
      BY <1>2, <3>1 DEF Differing, ChangeAt
    <3>3. QED
      BY <3>2
  <2>3. QED
    BY <1>3, <2>1, <2>2
<1>4. ASSUME NEW p \in Differing(base, stage)
      PROVE  ChangeAt(stage, p) \in written \cup dropped
  <2>1. p \in Ways \ {<<>>} /\ LeafEntry(base, p) # LeafEntry(stage, p)
    BY DEF Differing
  <2>2. CASE LeafEntry(stage, p) = Refused
    <3>1. p \in DOMAIN from \ DOMAIN to
      BY <1>2, <2>1, <2>2
    <3>2. [path |-> p, removed |-> TRUE] \in dropped
      BY <3>1
    <3>3. QED
      BY <2>2, <3>2 DEF ChangeAt
  <2>3. CASE LeafEntry(stage, p) # Refused
    <3>1. p \in {q \in DOMAIN to : q \notin DOMAIN from \/ from[q] # to[q]} /\ to[p] = LeafEntry(stage, p)
      BY <1>2, <2>1, <2>3
    <3>2. [path |-> p, removed |-> FALSE, note |-> to[p]] \in written
      BY <3>1
    <3>3. QED
      BY <2>3, <3>1, <3>2 DEF ChangeAt
  <2>4. QED
    BY <2>2, <2>3
<1>5. written \cup dropped = {ChangeAt(stage, p) : p \in Differing(base, stage)}
  BY <1>3, <1>4
<1>6. QED
  BY <1>1, <1>5

(* The staged changes are one for each path where the two trees differ, and   *)
(* its outcome is what the second tree has there.                             *)
LEMMA StagedIs ==
    ASSUME NEW A, TreeNotes(A), NEW base, NEW stage \in TreesOf(A),
           IsFiniteSet(Differing(base, stage)), NEW cs, cs = StagedChanges(base, stage)
    PROVE  /\ IsChanges(A, cs)
           /\ \A i \in 1 .. Len(cs) : /\ cs[i].path \in Differing(base, stage)
                                      /\ Outcome(cs[i]) = LeafEntry(stage, cs[i].path)
           /\ \A p \in Differing(base, stage) : \E i \in 1 .. Len(cs) : cs[i].path = p
<1>1. PICK D, S : D = Differing(base, stage) /\ S = {ChangeAt(stage, p) : p \in D}
  OBVIOUS
<1>2. cs = ByPath(S) /\ IsFiniteSet(D) /\ D \subseteq Ways \ {<<>>}
  BY <1>1, StagedAre DEF Differing
<1>3. PICK f : f = [p \in D |-> ChangeAt(stage, p)]
  OBVIOUS
<1>4. f \in Surjection(D, S)
  BY <1>1, <1>3 DEF Surjection
<1>5. IsFiniteSet(S)
  BY <1>2, <1>4, FS_Surjection
<1>6. ASSUME NEW x \in S
      PROVE  x.path \in D /\ x = ChangeAt(stage, x.path) /\ IsChange(A, x)
             /\ Outcome(x) = LeafEntry(stage, x.path)
  <2>1. PICK p \in D : x = ChangeAt(stage, p)
    BY <1>1
  <2>2. LeafEntry(stage, p) \in A \cup {Refused}
    BY <1>2, <2>1, LeafType
  <2>3. x.path = p
    BY <2>1 DEF ChangeAt
  <2>4. IsChange(A, x) /\ Outcome(x) = LeafEntry(stage, p)
    <3>1. CASE LeafEntry(stage, p) = Refused
      BY <1>2, <2>1, <3>1 DEF ChangeAt, IsChange, Outcome
    <3>2. CASE LeafEntry(stage, p) # Refused
      BY <1>2, <2>1, <2>2, <3>2 DEF ChangeAt, IsChange, Outcome
    <3>3. QED
      BY <3>1, <3>2
  <2>5. QED
    BY <2>1, <2>3, <2>4
<1>7. \A x \in S : x.path \in Ways
  BY <1>2, <1>6
<1>8. /\ Len(cs) \in Nat
      /\ \A i \in 1 .. Len(cs) : cs[i] \in S
      /\ \A i, j \in 1 .. Len(cs) : i # j => cs[i] # cs[j]
      /\ \A x \in S : \E i \in 1 .. Len(cs) : cs[i] = x
  BY <1>2, <1>5, <1>7, ByPathIs
<1>9. IsChanges(A, cs)
  <2>1. ASSUME NEW i \in 1 .. Len(cs), NEW j \in 1 .. Len(cs), i # j, cs[i].path = cs[j].path
        PROVE  FALSE
    <3>1. cs[i] = ChangeAt(stage, cs[i].path) /\ cs[j] = ChangeAt(stage, cs[j].path)
      BY <1>6, <1>8
    <3>2. QED
      BY <1>8, <2>1, <3>1
  <2>2. QED
    BY <1>6, <1>8, <2>1 DEF IsChanges
<1>10. ASSUME NEW p \in D PROVE \E i \in 1 .. Len(cs) : cs[i].path = p
  <2>1. PICK x : x = ChangeAt(stage, p)
    OBVIOUS
  <2>2. x \in S
    BY <1>1, <2>1
  <2>3. x.path = p
    BY <2>1 DEF ChangeAt
  <2>4. QED
    BY <1>8, <2>2, <2>3
<1>11. QED
  BY <1>1, <1>6, <1>8, <1>9, <1>10

(* Replayed on any tree the difference of two others gives, path by path, the *)
(* second where they differ and that tree elsewhere; and a second time it     *)
(* gives the same tree.                                                       *)
THEOREM ReplayStaged ==
    ASSUME NEW A, TreeNotes(A), NEW base, NEW stage \in TreesOf(A), NEW t \in TreesOf(A),
           IsFiniteSet(Differing(base, stage)), NEW cs, cs = StagedChanges(base, stage),
           NEW r, r = ApplyStagedChanges(t, cs), r # Refused
    PROVE  /\ r \in TreesOf(A)
           /\ \A q \in Ways \ {<<>>} : LeafEntry(r, q) = IF LeafEntry(base, q) # LeafEntry(stage, q)
                                                        THEN LeafEntry(stage, q) ELSE LeafEntry(t, q)
           /\ ApplyStagedChanges(r, cs) = r
<1>1. /\ IsChanges(A, cs)
      /\ \A i \in 1 .. Len(cs) : /\ cs[i].path \in Differing(base, stage)
                                 /\ Outcome(cs[i]) = LeafEntry(stage, cs[i].path)
      /\ \A p \in Differing(base, stage) : \E i \in 1 .. Len(cs) : cs[i].path = p
  BY StagedIs
<1>2. /\ r \in TreesOf(A)
      /\ \A i \in 1 .. Len(cs) : LeafEntry(r, cs[i].path) = Outcome(cs[i])
      /\ \A q \in Ways \ {<<>>} :
            (\A i \in 1 .. Len(cs) : cs[i].path # q) => LeafEntry(r, q) = LeafEntry(t, q)
  BY <1>1, ReplayIs
<1>3. ASSUME NEW q \in Ways \ {<<>>}
      PROVE  LeafEntry(r, q) = IF LeafEntry(base, q) # LeafEntry(stage, q)
                               THEN LeafEntry(stage, q) ELSE LeafEntry(t, q)
  <2>1. CASE q \in Differing(base, stage)
    <3>1. PICK i \in 1 .. Len(cs) : cs[i].path = q
      BY <1>1, <2>1
    <3>2. LeafEntry(r, q) = LeafEntry(stage, q)
      BY <1>1, <1>2, <3>1
    <3>3. QED
      BY <2>1, <3>2 DEF Differing
  <2>2. CASE q \notin Differing(base, stage)
    <3>1. \A i \in 1 .. Len(cs) : cs[i].path # q
      BY <1>1, <2>2
    <3>2. QED
      BY <1>2, <2>2, <3>1 DEF Differing
  <2>3. QED
    BY <2>1, <2>2
<1>4. ApplyStagedChanges(r, cs) = r
  BY <1>1, <1>2, ReplayAgain
<1>5. QED
  BY <1>2, <1>3, <1>4

-----------------------------------------------------------------------------
(* When an edit is done.                                                      *)

LEMMA RebuiltIsTree ==
    ASSUME NEW A, TreeNotes(A), NEW t \in TreesOf(A), NEW d \in Ways,
           NEW new \in Levels(A)[Depth - Len(d)]
    PROVE  Rebuilt(t, d, new)[0] \in TreesOf(A) /\ Rebuilt(t, d, new)[0] # Refused
<1>1. PICK r : r = Rebuilt(t, d, new)[0]
  OBVIOUS
<1>2. r \in TreesOf(A)
  BY <1>1, RebuiltOnWay
<1>3. r # Refused
  BY <1>2, DepthAssumption DEF TreesOf, TreeNotes
<1>4. QED
  BY <1>1, <1>2, <1>3

(* A note is put where no directory is and no note is on the way.             *)
LEMMA PutWorks ==
    ASSUME NEW A, TreeNotes(A), NEW t \in TreesOf(A), NEW p \in Ways, p # <<>>, NEW a \in A,
           ~NoteOnWay(t, Front(p)), ~IsTree(EntryAt(t, p))
    PROVE  MutateAt(t, Front(p), PutNote(Last(p), a)) # Refused
<1>1. PICK d, n, o, new : d = Front(p) /\ n = Last(p) /\ o = Opened(t, d) /\ new = With(o, n, a)
  OBVIOUS
<1>2. d \in Ways /\ n \in Names /\ Len(p) \in 1 .. Depth /\ Len(d) = Len(p) - 1
  BY <1>1, EntryIs
<1>3. PICK k : k = Depth - Len(d) /\ k \in 1 .. Depth /\ k \in 0 .. Depth
  BY <1>2, DepthAssumption
<1>4. o \in Levels(A)[k]
  BY <1>1, <1>2, <1>3, OpenedType
<1>5. \A m \in DOMAIN o : k - 1 \in 0 .. Depth /\ o[m] \in A \cup Levels(A)[k-1]
  BY <1>3, <1>4, LevelIs
<1>6. \A m \in DOMAIN o : o[m] # Refused
  BY <1>5 DEF TreeNotes
<1>7. ~HasDir(o, n)
  BY <1>1, <1>6 DEF EntryAt, EntryOf, IsTree, HasDir
<1>8. Mutated(o, PutNote(n, a)) = new
  BY <1>1, <1>7 DEF Mutated, PutNote
<1>9. new \in Levels(A)[k]
  BY <1>1, <1>2, <1>3, <1>4, WithType
<1>10. new # Refused
  BY <1>3, <1>9 DEF TreeNotes
<1>11. MutateAt(t, d, PutNote(n, a)) = Rebuilt(t, d, new)[0]
  BY <1>1, <1>8, <1>10 DEF MutateAt
<1>12. Rebuilt(t, d, new)[0] # Refused
  BY <1>2, <1>3, <1>9, RebuiltIsTree
<1>13. QED
  BY <1>1, <1>11, <1>12

(* The empty tree has nothing at any path.                                    *)
LEMMA EmptyHas ==
    ASSUME NEW A, TreeNotes(A)
    PROVE  /\ EmptyTree \in TreesOf(A)
           /\ \A q \in Ways : q # <<>> => /\ EntryAt(EmptyTree, q) = Refused
                                          /\ LeafEntry(EmptyTree, q) = Refused
                                          /\ WalkDir(EmptyTree, q) = Refused
<1>1. Depth \in 0 .. Depth
  BY DepthAssumption
<1>2. EmptyTree \in TreesOf(A)
  BY <1>1, EmptyIsLevel DEF TreesOf
<1>3. EmptyTree # Refused
  BY <1>1, <1>2 DEF TreesOf, TreeNotes
<1>4. Opened(EmptyTree, <<>>) = EmptyTree
  BY WalkRoot DEF Opened
<1>5. ASSUME NEW q \in Ways, q # <<>> PROVE EntryAt(EmptyTree, q) = Refused
  <2>1. q \in Seq(Names) /\ Len(q) \in Nat \ {0}
    BY <1>5, WaysAre, PathParts
  <2>2. PICK i, u : i = 1 /\ u = Pre(q, i)
    OBVIOUS
  <2>3. i \in 0 .. Len(q) /\ i - 1 = 0 /\ i # 0
    BY <2>1, <2>2
  <2>4. u \in Ways /\ u # <<>> /\ Front(u) = Pre(q, i - 1) /\ Len(u) = i
    BY <2>2, <2>3, PreWays
  <2>5. EntryAt(EmptyTree, u) = Refused
    <3>1. Front(u) = <<>>
      BY <2>1, <2>3, <2>4, PreFull
    <3>2. QED
      BY <1>4, <3>1, EmptyTreeIs DEF EntryAt, EntryOf
  <2>6. CASE q = u
    BY <2>5, <2>6
  <2>7. CASE q # u
    <3>1. Starts(u, q)
      <4>1. Len(u) <= Len(q)
        BY <2>1, <2>3, <2>4
      <4>2. Pre(q, Len(u)) = u
        BY <2>2, <2>4
      <4>3. QED
        BY <4>1, <4>2 DEF Starts
    <3>2. Above(u, q)
      BY <2>4, <2>7, <3>1, AboveIs
    <3>3. ~IsTree(EntryAt(EmptyTree, u))
      BY <2>5 DEF IsTree
    <3>4. QED
      BY <1>2, <2>4, <3>2, <3>3, NothingBelow
  <2>8. QED
    BY <2>6, <2>7
<1>6. QED
  BY <1>2, <1>5, EntryIs DEF IsTree

-----------------------------------------------------------------------------
(* Trees with the same entries.                                               *)

(* What is below an entry is a matter of that entry.                          *)
LEMMA EntryUnder ==
    ASSUME NEW A, TreeNotes(A), NEW t \in TreesOf(A), NEW u \in TreesOf(A),
           NEW p \in Ways, p # <<>>, EntryAt(t, p) = EntryAt(u, p), NEW q \in Ways, Starts(p, q)
    PROVE  EntryAt(t, q) = EntryAt(u, q)
<1> DEFINE bad == {n \in 1 .. Len(q) : Len(p) <= n /\ EntryAt(t, Pre(q, n)) # EntryAt(u, Pre(q, n))}
<1>1. /\ q \in Seq(Names) /\ Len(q) \in Nat /\ p \in Seq(Names) /\ Len(p) \in Nat \ {0}
      /\ Len(p) <= Len(q) /\ Pre(q, Len(p)) = p /\ Pre(q, Len(q)) = q
  BY WaysAre, PathParts, PreFull DEF Starts
<1>2. ASSUME bad # {} PROVE FALSE
  <2>1. PICK m \in bad : \A n \in bad : m <= n
    <3>1. bad \in SUBSET Nat
      BY <1>1
    <3>2. QED
      BY <1>2, <3>1, LeastNumber
  <2>2. m # Len(p) /\ m \in 1 .. Len(q) /\ Len(p) <= m /\ EntryAt(t, Pre(q, m)) # EntryAt(u, Pre(q, m))
    BY <1>1, <2>1
  <2>3. PICK k : k = m - 1
    OBVIOUS
  <2>4. /\ k \in 1 .. Len(q) /\ k \in 0 .. Len(q) /\ m \in 0 .. Len(q) /\ m # 0
        /\ Len(p) <= k /\ ~ (m <= k)
    BY <1>1, <2>2, <2>3
  <2>5. PICK v, f : v = Pre(q, m) /\ f = Pre(q, k)
    OBVIOUS
  <2>6. v \in Ways /\ f \in Ways /\ f # <<>> /\ Front(v) = f
    BY <1>1, <2>3, <2>4, <2>5, PreWays
  <2>7. EntryAt(t, f) = EntryAt(u, f)
    BY <2>1, <2>4, <2>5
  <2>8. Opened(t, f) = Opened(u, f)
    BY <2>6, <2>7, EntryIs DEF Opened
  <2>9. EntryAt(t, v) = EntryAt(u, v)
    BY <2>6, <2>8 DEF EntryAt
  <2>10. QED
    BY <2>2, <2>5, <2>9
<1>3. Len(q) \in 1 .. Len(q)
  BY <1>1
<1>4. QED
  BY <1>1, <1>2, <1>3

LEMMA TreeExt ==
    ASSUME NEW A, TreeNotes(A), NEW k \in 0 .. Depth, NEW o \in Levels(A)[k], NEW v \in Levels(A)[k],
           \A n \in Names : EntryOf(o, n) = EntryOf(v, n)
    PROVE  o = v
<1>1. /\ DOMAIN o \subseteq Names /\ \A n \in DOMAIN o : k - 1 \in 0 .. Depth /\ o[n] \in A \cup Levels(A)[k-1]
      /\ DOMAIN v \subseteq Names /\ \A n \in DOMAIN v : k - 1 \in 0 .. Depth /\ v[n] \in A \cup Levels(A)[k-1]
  BY LevelIs
<1>2. (\A n \in DOMAIN o : o[n] # Refused) /\ (\A n \in DOMAIN v : v[n] # Refused)
  BY <1>1 DEF TreeNotes
<1>3. \A n \in Names : n \in DOMAIN o <=> n \in DOMAIN v
  BY <1>2 DEF EntryOf
<1>4. DOMAIN o = DOMAIN v /\ \A n \in DOMAIN o : o[n] = v[n]
  BY <1>1, <1>3 DEF EntryOf
<1>5. IsFun(o) /\ IsFun(v)
  BY LevelFun
<1>6. QED
  BY <1>4, <1>5 DEF IsFun

(* Trees with the same notes and directories at a path and below have the     *)
(* same entry there.                                                          *)
Agree(t, u, q) == LeafEntry(t, q) = LeafEntry(u, q) /\ (WalkDir(t, q) = Refused <=> WalkDir(u, q) = Refused)

LEMMA SameBelow ==
    ASSUME NEW A, TreeNotes(A), NEW t \in TreesOf(A), NEW u \in TreesOf(A),
           NEW p \in Ways, p # <<>>, \A q \in Ways : Starts(p, q) => Agree(t, u, q)
    PROVE  EntryAt(t, p) = EntryAt(u, p)
<1> DEFINE Differ(q) == Starts(p, q) /\ EntryAt(t, q) # EntryAt(u, q)
           bad == {Depth - Len(q) : q \in {w \in Ways : Differ(w)}}
<1>1. SUFFICES ASSUME bad # {} PROVE FALSE
  <2>1. Starts(p, p)
    BY AboveIs
  <2>2. QED
    BY <2>1
<1>2. \A q \in Ways : Len(q) \in 0 .. Depth /\ Depth \in Nat
  BY WaysAre, DepthAssumption
<1>3. PICK l \in bad : \A j \in bad : l <= j
  <2>1. bad \in SUBSET Nat
    BY <1>2
  <2>2. QED
    BY <1>1, <2>1, LeastNumber
<1>4. PICK q \in Ways : Differ(q) /\ l = Depth - Len(q)
  BY <1>3
<1>5. q # <<>> /\ Starts(p, q) /\ EntryAt(t, q) # EntryAt(u, q)
  <2>1. p \in Seq(Names) /\ Len(p) \in Nat \ {0}
    BY WaysAre, PathParts
  <2>2. Len(<<>>) = 0
    BY EmptySeq
  <2>3. QED
    BY <1>4, <2>1, <2>2 DEF Starts
<1>6. /\ WalkDir(t, q) = IF IsTree(EntryAt(t, q)) THEN EntryAt(t, q) ELSE Refused
      /\ LeafEntry(t, q) = IF IsTree(EntryAt(t, q)) THEN Refused ELSE EntryAt(t, q)
      /\ WalkDir(u, q) = IF IsTree(EntryAt(u, q)) THEN EntryAt(u, q) ELSE Refused
      /\ LeafEntry(u, q) = IF IsTree(EntryAt(u, q)) THEN Refused ELSE EntryAt(u, q)
  BY <1>5, EntryIs
<1>7. IsTree(EntryAt(t, q)) /\ IsTree(EntryAt(u, q))
  BY <1>5, <1>6 DEF Agree, IsTree
<1>8. PICK o, v : o = EntryAt(t, q) /\ v = EntryAt(u, q) /\ o = Opened(t, q) /\ v = Opened(u, q)
  BY <1>6, <1>7 DEF Opened, IsTree
<1>9. PICK k : k = Depth - Len(q) /\ k \in 0 .. Depth /\ o \in Levels(A)[k] /\ v \in Levels(A)[k]
  BY <1>8, OpenedType
<1>10. ASSUME NEW n \in Names PROVE EntryOf(o, n) = EntryOf(v, n)
  <2>1. CASE k = 0
    BY <1>9, <2>1, LevelsAre
  <2>2. CASE k # 0
    <3>1. PICK w : w = Append(q, n)
      OBVIOUS
    <3>2. w \in Seq(Names) /\ w # <<>> /\ Len(w) = Len(q) + 1 /\ Front(w) = q /\ Last(w) = n
      BY <3>1, WaysAre, PathOf
    <3>3. w \in Ways
      BY <1>2, <1>9, <2>2, <3>2, WaysAre
    <3>4. Starts(p, w)
      BY <1>5, <3>2, <3>3, AboveFront
    <3>5. EntryAt(t, w) = EntryOf(o, n) /\ EntryAt(u, w) = EntryOf(v, n)
      BY <1>8, <3>2 DEF EntryAt
    <3>6. PICK j : j = Depth - Len(w)
      OBVIOUS
    <3>7. ~ (l <= j)
      BY <1>2, <1>4, <3>2, <3>6
    <3>8. j \notin bad
      BY <1>3, <3>7
    <3>9. ~Differ(w)
      BY <3>3, <3>6, <3>8
    <3>10. QED
      BY <3>4, <3>5, <3>9
  <2>3. QED
    BY <2>1, <2>2
<1>11. o = v
  BY <1>9, <1>10, TreeExt
<1>12. QED
  BY <1>5, <1>8, <1>11

-----------------------------------------------------------------------------
(* The merge.                                                                 *)

MergeNames(b, o, t, d) == DOMAIN BaseDir(b, d) \cup DOMAIN Opened(o, d) \cup DOMAIN Opened(t, d)

MergedEntry(b, o, t, f, d, n) ==
    Chosen(EntryOf(BaseDir(b, d), n), EntryOf(Opened(o, d), n), EntryOf(Opened(t, d), n),
           Append(d, n), f[Append(d, n)])

MergedDir(b, o, t, f, d) ==
    LET m == [n \in MergeNames(b, o, t, d) |-> MergedEntry(b, o, t, f, d, n)]
        kept == {n \in MergeNames(b, o, t, d) : m[n].entry # Refused}
    IN  [tree |-> [n \in kept |-> m[n].entry],
         conflicts |-> UNION {m[n].conflicts : n \in MergeNames(b, o, t, d)}]

Deep(k) == {d \in Ways : k <= Len(d)}

IsMerged(b, o, t, k, f) == f = [d \in Deep(k) |-> MergedDir(b, o, t, f, d)]

LEMMA MergeNamesAre ==
    ASSUME NEW A, TreeNotes(A), NEW b \in TreesOf(A), NEW o \in TreesOf(A), NEW t \in TreesOf(A),
           NEW d \in Ways, NEW n \in MergeNames(b, o, t, d)
    PROVE  n \in Names /\ Append(d, n) \in Ways /\ Len(Append(d, n)) = Len(d) + 1
<1>1. PICK k : /\ k = Depth - Len(d) /\ k \in 0 .. Depth
               /\ Opened(b, d) \in Levels(A)[k] /\ Opened(o, d) \in Levels(A)[k]
               /\ Opened(t, d) \in Levels(A)[k]
  BY OpenedType
<1>2. n \in Names
  BY OpenedType DEF MergeNames, BaseDir
<1>3. k # 0
  <2>1. SUFFICES ASSUME k = 0 PROVE FALSE
    OBVIOUS
  <2>2. Opened(b, d) = EmptyTree /\ Opened(o, d) = EmptyTree /\ Opened(t, d) = EmptyTree
    BY <1>1, <2>1, LevelsAre
  <2>3. QED
    BY <2>2, EmptyTreeIs DEF MergeNames, BaseDir
<1>4. d \in Seq(Names) /\ Len(d) \in 0 .. Depth /\ Depth \in Nat
  BY WaysAre, DepthAssumption
<1>5. PICK w : w = Append(d, n)
  OBVIOUS
<1>6. w \in Seq(Names) /\ Len(w) = Len(d) + 1
  BY <1>2, <1>4, <1>5, PathOf
<1>7. w \in Ways
  BY <1>1, <1>3, <1>4, <1>6, WaysAre
<1>8. QED
  BY <1>2, <1>5, <1>6, <1>7

LEMMA MergedDirSame ==
    ASSUME NEW b, NEW o, NEW t, NEW d, NEW f, NEW g,
           \A n \in MergeNames(b, o, t, d) : f[Append(d, n)] = g[Append(d, n)]
    PROVE  MergedDir(b, o, t, f, d) = MergedDir(b, o, t, g, d)
<1> DEFINE Rows(h) == [n \in MergeNames(b, o, t, d) |-> MergedEntry(b, o, t, h, d, n)]
           DirOf(m) == [tree |-> [n \in {x \in MergeNames(b, o, t, d) : m[x].entry # Refused} |-> m[n].entry],
                        conflicts |-> UNION {m[n].conflicts : n \in MergeNames(b, o, t, d)}]
<1>1. \A n \in MergeNames(b, o, t, d) : MergedEntry(b, o, t, f, d, n) = MergedEntry(b, o, t, g, d, n)
  BY DEF MergedEntry
<1>2. Rows(f) = Rows(g)
  BY <1>1
<1>3. MergedDir(b, o, t, f, d) = DirOf(Rows(f)) /\ MergedDir(b, o, t, g, d) = DirOf(Rows(g))
  BY DEF MergedDir
<1> HIDE DEF Rows, DirOf
<1>4. QED
  BY <1>2, <1>3

LEMMA MergedExists ==
    ASSUME NEW A, TreeNotes(A), NEW b \in TreesOf(A), NEW o \in TreesOf(A), NEW t \in TreesOf(A)
    PROVE  \E f : IsMerged(b, o, t, 0, f)
<1> DEFINE Done(j) == \E f : IsMerged(b, o, t, Depth + 1 - j, f)
           bad == {j \in 0 .. Depth + 1 : ~ Done(j)}
<1>1. Depth \in Nat /\ \A d \in Ways : Len(d) \in 0 .. Depth
  BY WaysAre, DepthAssumption
<1>2. ASSUME bad # {} PROVE FALSE
  <2>1. PICK m \in bad : \A j \in bad : m <= j
    <3>1. bad \in SUBSET Nat
      BY <1>1
    <3>2. QED
      BY <1>2, <3>1, LeastNumber
  <2>2. m # 0
    <3>1. \A d \in Ways : ~ (Depth + 1 <= Len(d))
      BY <1>1
    <3>2. Deep(Depth + 1) = {}
      BY <3>1 DEF Deep
    <3>3. PICK f : f = [d \in Deep(Depth + 1) |-> MergedDir(b, o, t, <<>>, d)]
      OBVIOUS
    <3>4. f = [d \in Deep(Depth + 1) |-> MergedDir(b, o, t, f, d)]
      BY <3>2, <3>3
    <3>5. Done(0)
      BY <1>1, <3>4 DEF IsMerged
    <3>6. QED
      BY <2>1, <3>5
  <2>3. PICK k : k = Depth + 1 - m
    OBVIOUS
  <2>4. k \in 0 .. Depth /\ m - 1 \in 0 .. Depth + 1 /\ ~ (m <= m - 1) /\ Depth + 1 - (m - 1) = k + 1
    BY <1>1, <2>1, <2>2, <2>3
  <2>5. Done(m - 1)
    BY <2>1, <2>4
  <2>6. PICK f : IsMerged(b, o, t, k + 1, f)
    BY <2>4, <2>5
  <2>7. PICK g : g = [d \in Deep(k) |-> IF Len(d) = k THEN MergedDir(b, o, t, f, d) ELSE f[d]]
    OBVIOUS
  <2>8. ASSUME NEW d \in Deep(k) PROVE g[d] = MergedDir(b, o, t, g, d)
    <3>1. d \in Ways /\ k <= Len(d) /\ Len(d) \in 0 .. Depth
      BY <1>1 DEF Deep
    <3>2. ASSUME NEW n \in MergeNames(b, o, t, d) PROVE g[Append(d, n)] = f[Append(d, n)]
      <4>1. PICK w : w = Append(d, n)
        OBVIOUS
      <4>2. w \in Ways /\ Len(w) = Len(d) + 1
        BY <3>1, <4>1, MergeNamesAre
      <4>3. w \in Deep(k) /\ Len(w) # k
        BY <2>4, <3>1, <4>2 DEF Deep
      <4>4. g[w] = f[w]
        BY <2>7, <4>3
      <4>5. QED
        BY <4>1, <4>4
    <3>3. MergedDir(b, o, t, g, d) = MergedDir(b, o, t, f, d)
      BY <3>2, MergedDirSame
    <3>4. CASE Len(d) = k
      BY <2>7, <3>3, <3>4
    <3>5. CASE Len(d) # k
      <4>1. d \in Deep(k + 1)
        BY <2>4, <3>1, <3>5 DEF Deep
      <4>2. f[d] = MergedDir(b, o, t, f, d)
        BY <2>6, <4>1 DEF IsMerged
      <4>3. QED
        BY <2>7, <3>3, <3>5, <4>2
    <3>6. QED
      BY <3>4, <3>5
  <2>9. g = [d \in Deep(k) |-> MergedDir(b, o, t, g, d)]
    <3>1. g = [d \in Deep(k) |-> g[d]]
      BY <2>7
    <3>2. QED
      BY <2>8, <3>1
  <2>10. Done(m)
    BY <2>3, <2>9 DEF IsMerged
  <2>11. QED
    BY <2>1, <2>10
<1>3. PICK l : l = Depth + 1 /\ l \in 0 .. Depth + 1 /\ Depth + 1 - l = 0
  BY <1>1
<1>4. l \notin bad
  BY <1>2
<1>5. Done(l)
  BY <1>3, <1>4
<1>6. QED
  BY <1>3, <1>5

LEMMA MergedIs ==
    ASSUME NEW A, TreeNotes(A), NEW b \in TreesOf(A), NEW o \in TreesOf(A), NEW t \in TreesOf(A),
           NEW M, M = Merged(b, o, t)
    PROVE  \A d \in Ways : M[d] = MergedDir(b, o, t, M, d)
<1>1. Deep(0) = Ways
  BY WaysAre DEF Deep
<1>2. M = CHOOSE f : f = [d \in Ways |-> MergedDir(b, o, t, f, d)]
  BY DEF Merged, MergedDir, MergedEntry, MergeNames
<1>3. M = CHOOSE f : IsMerged(b, o, t, 0, f)
  BY <1>1, <1>2 DEF IsMerged
<1>4. IsMerged(b, o, t, 0, M)
  BY <1>3, MergedExists
<1>5. QED
  BY <1>1, <1>4 DEF IsMerged

(* What comes of the entry at a path, and of a directory.                     *)
Choice(b, o, t, M, p) == Chosen(EntryAt(b, p), EntryAt(o, p), EntryAt(t, p), p, M[p])

LEMMA MergedRow ==
    ASSUME NEW A, TreeNotes(A), NEW b \in TreesOf(A), NEW o \in TreesOf(A), NEW t \in TreesOf(A),
           NEW M, M = Merged(b, o, t), NEW d \in Ways
    PROVE  /\ \A p \in Ways : p # <<>> /\ Front(p) = d =>
                 EntryOf(M[d].tree, Last(p)) = Choice(b, o, t, M, p).entry
           /\ \A x : x \in M[d].conflicts <=>
                 \E p \in Ways : p # <<>> /\ Front(p) = d /\ x \in Choice(b, o, t, M, p).conflicts
           /\ IsFun(M[d].tree) /\ DOMAIN M[d].tree \subseteq Names
           /\ \A n \in DOMAIN M[d].tree : Append(d, n) \in Ways /\ M[d].tree[n] # Refused
<1>1. PICK N : N = MergeNames(b, o, t, d)
  OBVIOUS
<1>2. PICK m : m = [n \in N |-> MergedEntry(b, o, t, M, d, n)]
  OBVIOUS
<1>3. PICK kept : kept = {n \in N : m[n].entry # Refused}
  OBVIOUS
<1>4. M[d] = [tree |-> [n \in kept |-> m[n].entry], conflicts |-> UNION {m[n].conflicts : n \in N}]
  <2>1. M[d] = MergedDir(b, o, t, M, d)
    BY MergedIs
  <2>2. QED
    BY <1>1, <1>2, <1>3, <2>1 DEF MergedDir
<1>5. M[d].tree = [n \in kept |-> m[n].entry] /\ M[d].conflicts = UNION {m[n].conflicts : n \in N}
  BY <1>4
<1>6. \A n \in N : n \in Names /\ Append(d, n) \in Ways
  BY <1>1, MergeNamesAre
<1>7. ASSUME NEW p \in Ways, p # <<>>, Front(p) = d
      PROVE  /\ p = Append(d, Last(p))
             /\ Last(p) \in N => m[Last(p)] = Choice(b, o, t, M, p)
             /\ Last(p) \notin N => /\ Choice(b, o, t, M, p).entry = Refused
                                    /\ Choice(b, o, t, M, p).conflicts = {}
  <2>1. PICK n : n = Last(p)
    OBVIOUS
  <2>2. p = Append(d, n)
    BY <1>7, <2>1, EntryIs
  <2>3. /\ EntryAt(b, p) = EntryOf(BaseDir(b, d), n) /\ EntryAt(o, p) = EntryOf(Opened(o, d), n)
        /\ EntryAt(t, p) = EntryOf(Opened(t, d), n)
    BY <1>7, <2>1 DEF EntryAt, BaseDir
  <2>4. MergedEntry(b, o, t, M, d, n) = Choice(b, o, t, M, p)
    BY <2>2, <2>3 DEF MergedEntry, Choice
  <2>5. n \in N => m[n] = Choice(b, o, t, M, p)
    BY <1>2, <2>4
  <2>6. ASSUME n \notin N
        PROVE  Choice(b, o, t, M, p).entry = Refused /\ Choice(b, o, t, M, p).conflicts = {}
    <3>1. EntryAt(o, p) = Refused /\ EntryAt(t, p) = Refused
      BY <1>1, <2>3, <2>6 DEF MergeNames, EntryOf
    <3>2. QED
      BY <3>1 DEF Choice, Chosen
  <2>7. QED
    BY <2>1, <2>2, <2>5, <2>6
<1>8. ASSUME NEW n \in N
      PROVE  \E p \in Ways : p # <<>> /\ Front(p) = d /\ Last(p) = n /\ m[n] = Choice(b, o, t, M, p)
  <2>1. PICK p : p = Append(d, n)
    OBVIOUS
  <2>2. p \in Ways /\ p # <<>> /\ Front(p) = d /\ Last(p) = n
    BY <1>6, <2>1, WaysAre, PathOf
  <2>3. QED
    BY <1>7, <2>2
<1>9. ASSUME NEW p \in Ways, p # <<>>, Front(p) = d
      PROVE  EntryOf(M[d].tree, Last(p)) = Choice(b, o, t, M, p).entry
  <2>1. PICK f : f = M[d].tree /\ DOMAIN f = kept /\ \A n \in kept : f[n] = m[n].entry
    BY <1>5
  <2>2. CASE Last(p) \in kept
    BY <1>3, <1>7, <1>9, <2>1, <2>2 DEF EntryOf
  <2>3. CASE Last(p) \notin kept
    <3>1. EntryOf(f, Last(p)) = Refused
      BY <2>1, <2>3 DEF EntryOf
    <3>2. CASE Last(p) \in N
      BY <1>3, <1>7, <1>9, <2>1, <2>3, <3>1, <3>2
    <3>3. CASE Last(p) \notin N
      BY <1>7, <1>9, <2>1, <3>1, <3>3
    <3>4. QED
      BY <3>2, <3>3
  <2>4. QED
    BY <2>2, <2>3
<1>10. ASSUME NEW x
       PROVE  x \in M[d].conflicts <=>
                 \E p \in Ways : p # <<>> /\ Front(p) = d /\ x \in Choice(b, o, t, M, p).conflicts
  <2>1. x \in M[d].conflicts <=> \E n \in N : x \in m[n].conflicts
    BY <1>5
  <2>2. ASSUME NEW n \in N, x \in m[n].conflicts
        PROVE  \E p \in Ways : p # <<>> /\ Front(p) = d /\ x \in Choice(b, o, t, M, p).conflicts
    <3>1. PICK p \in Ways : p # <<>> /\ Front(p) = d /\ m[n] = Choice(b, o, t, M, p)
      BY <1>8
    <3>2. QED
      BY <2>2, <3>1
  <2>3. ASSUME NEW p \in Ways, p # <<>>, Front(p) = d, x \in Choice(b, o, t, M, p).conflicts
        PROVE  \E n \in N : x \in m[n].conflicts
    <3>1. Last(p) \in N /\ m[Last(p)] = Choice(b, o, t, M, p)
      BY <1>7, <2>3
    <3>2. QED
      BY <2>3, <3>1
  <2>4. QED
    BY <2>1, <2>2, <2>3
<1>11. IsFun(M[d].tree) /\ DOMAIN M[d].tree = kept /\ \A n \in kept : M[d].tree[n] = m[n].entry
  <2>1. PICK f : f = [n \in kept |-> m[n].entry]
    OBVIOUS
  <2>2. IsFun(f) /\ DOMAIN f = kept /\ \A n \in kept : f[n] = m[n].entry
    BY <2>1 DEF IsFun
  <2>3. QED
    BY <1>5, <2>1, <2>2
<1>12. QED
  BY <1>3, <1>6, <1>9, <1>10, <1>11

(* An induction over the directories from the deepest up: where it fails it   *)
(* fails at a deepest one.                                                    *)
LEMMA DeepestOf ==
    ASSUME NEW D \in SUBSET Ways, D # {}
    PROVE  \E d \in D : \A q \in Ways : Len(q) > Len(d) => q \notin D
<1> DEFINE Short == {Depth - Len(d) : d \in D}
<1>1. \A q \in Ways : Len(q) \in 0 .. Depth /\ Depth \in Nat
  BY WaysAre, DepthAssumption
<1>2. Short \in SUBSET Nat /\ Short # {}
  BY <1>1
<1>3. PICK l \in Short : \A j \in Short : l <= j
  BY <1>2, LeastNumber
<1>4. PICK d \in D : l = Depth - Len(d)
  BY <1>3
<1>5. ASSUME NEW q \in Ways, Len(q) > Len(d), q \in D PROVE FALSE
  <2>1. l <= Depth - Len(q)
    BY <1>3, <1>5
  <2>2. QED
    BY <1>1, <1>4, <1>5, <2>1
<1>6. QED
  BY <1>5

LEMMA RootWay == <<>> \in Ways
<1>1. PICK e : e = <<>>
  OBVIOUS
<1>2. e \in Seq(Names) /\ Len(e) = 0
  BY <1>1, EmptySeq
<1>3. Len(e) \in 0 .. Depth
  BY <1>2, DepthAssumption
<1>4. e \in Ways
  BY <1>2, <1>3, WaysAre
<1>5. QED
  BY <1>1, <1>4

LEMMA ChildLonger ==
    \A p \in Ways : p # <<>> => Len(p) > Len(Front(p)) /\ Front(p) \in Ways
BY EntryIs, WaysAre, AboveFront, PathParts

LEMMA KindSymmetric == \A o, t : ConflictKind(o, t) = ConflictKind(t, o)
<1>1. ASSUME NEW o, NEW t PROVE ConflictKind(o, t) = ConflictKind(t, o)
  <2>1. (IsDir(o) # IsDir(t)) <=> (IsDir(t) # IsDir(o))
    OBVIOUS
  <2>2. QED
    BY <2>1 DEF ConflictKind
<1>2. QED
  BY <1>1

LEMMA ChosenSymmetric ==
    ASSUME NEW b, NEW o, NEW t, NEW p, NEW x, NEW y, x.conflicts = y.conflicts,
           x.conflicts = {} => x.tree = y.tree
    PROVE  /\ Chosen(b, o, t, p, x).conflicts = Chosen(b, t, o, p, y).conflicts
           /\ Chosen(b, o, t, p, x).conflicts = {}
                 => Chosen(b, o, t, p, x).entry = Chosen(b, t, o, p, y).entry
<1>1. CASE o = t
  BY <1>1 DEF Chosen
<1>2. CASE o # t /\ t = b
  BY <1>2 DEF Chosen
<1>3. CASE o # t /\ t # b /\ o = b
  BY <1>3 DEF Chosen
<1>4. CASE o # t /\ t # b /\ o # b
  <2>1. CASE IsTree(o) /\ IsTree(t)
    BY <1>4, <2>1 DEF Chosen
  <2>2. CASE ~ (IsTree(o) /\ IsTree(t))
    <3>1. Chosen(b, o, t, p, x).conflicts = {[path |-> p, kind |-> ConflictKind(o, t)]}
      BY <1>4, <2>2 DEF Chosen
    <3>2. Chosen(b, t, o, p, y).conflicts = {[path |-> p, kind |-> ConflictKind(t, o)]}
      BY <1>4, <2>2 DEF Chosen
    <3>3. QED
      BY <3>1, <3>2, KindSymmetric
  <2>3. QED
    BY <2>1, <2>2
<1>5. QED
  BY <1>1, <1>2, <1>3, <1>4

(* Whoever merges, the same paths conflict in the same ways; without a        *)
(* conflict the trees are the same.                                           *)
THEOREM MergeSymmetric ==
    ASSUME NEW A, TreeNotes(A), NEW b \in TreesOf(A), NEW o \in TreesOf(A), NEW t \in TreesOf(A),
           NEW m, m = MergeTrees(b, o, t), NEW n, n = MergeTrees(b, t, o)
    PROVE  m.conflicts = n.conflicts /\ (m.conflicts = {} => m.tree = n.tree)
<1>1. PICK M, W : M = Merged(b, o, t) /\ W = Merged(b, t, o)
  OBVIOUS
<1> DEFINE Same(d) == M[d].conflicts = W[d].conflicts /\ (M[d].conflicts = {} => M[d].tree = W[d].tree)
           bad == {d \in Ways : ~Same(d)}
<1>2. ASSUME bad # {} PROVE FALSE
  <2>1. PICK d \in bad : \A q \in Ways : Len(q) > Len(d) => q \notin bad
    <3>1. bad \in SUBSET Ways
      OBVIOUS
    <3>2. QED
      BY <1>2, <3>1, DeepestOf
  <2>2. d \in Ways /\ ~Same(d)
    BY <2>1
  <2>3. ASSUME NEW p \in Ways, p # <<>>, Front(p) = d
        PROVE  /\ Choice(b, o, t, M, p).conflicts = Choice(b, t, o, W, p).conflicts
               /\ Choice(b, o, t, M, p).conflicts = {}
                     => Choice(b, o, t, M, p).entry = Choice(b, t, o, W, p).entry
    <3>1. Len(p) > Len(d)
      BY <2>3, ChildLonger
    <3>2. Same(p)
      BY <2>1, <3>1
    <3>3. PICK x, y : x = M[p] /\ y = W[p]
      OBVIOUS
    <3>4. x.conflicts = y.conflicts /\ (x.conflicts = {} => x.tree = y.tree)
      BY <3>2, <3>3
    <3>5. PICK eb, eo, et : eb = EntryAt(b, p) /\ eo = EntryAt(o, p) /\ et = EntryAt(t, p)
      OBVIOUS
    <3>6. /\ Chosen(eb, eo, et, p, x).conflicts = Chosen(eb, et, eo, p, y).conflicts
          /\ Chosen(eb, eo, et, p, x).conflicts = {}
                => Chosen(eb, eo, et, p, x).entry = Chosen(eb, et, eo, p, y).entry
      BY <3>4, ChosenSymmetric
    <3>7. QED
      BY <3>3, <3>5, <3>6 DEF Choice
  <2>4. /\ \A p \in Ways : p # <<>> /\ Front(p) = d =>
              EntryOf(M[d].tree, Last(p)) = Choice(b, o, t, M, p).entry
        /\ \A x : x \in M[d].conflicts <=>
              \E p \in Ways : p # <<>> /\ Front(p) = d /\ x \in Choice(b, o, t, M, p).conflicts
        /\ IsFun(M[d].tree) /\ DOMAIN M[d].tree \subseteq Names
        /\ \A n2 \in DOMAIN M[d].tree : Append(d, n2) \in Ways /\ M[d].tree[n2] # Refused
    BY <1>1, <2>2, MergedRow
  <2>5. /\ \A p \in Ways : p # <<>> /\ Front(p) = d =>
              EntryOf(W[d].tree, Last(p)) = Choice(b, t, o, W, p).entry
        /\ \A x : x \in W[d].conflicts <=>
              \E p \in Ways : p # <<>> /\ Front(p) = d /\ x \in Choice(b, t, o, W, p).conflicts
        /\ IsFun(W[d].tree) /\ DOMAIN W[d].tree \subseteq Names
        /\ \A n2 \in DOMAIN W[d].tree : Append(d, n2) \in Ways /\ W[d].tree[n2] # Refused
    BY <1>1, <2>2, MergedRow
  <2>6. \A x : x \in M[d].conflicts <=> x \in W[d].conflicts
    BY <2>3, <2>4, <2>5
  <2>7. PICK X, Y : X = M[d].conflicts /\ Y = W[d].conflicts
    OBVIOUS
  <2>8. X = Y
    <3>1. \E S : X = UNION S
      <4>1. M[d] = MergedDir(b, o, t, M, d)
        BY <1>1, <2>2, MergedIs
      <4>2. QED
        BY <2>7, <4>1 DEF MergedDir
    <3>2. QED
      BY <2>6, <2>7
  <2>9. M[d].conflicts # {} \/ M[d].tree # W[d].tree
    BY <2>2, <2>7, <2>8
  <2>10. ASSUME M[d].conflicts = {} PROVE M[d].tree = W[d].tree
    <3>1. \A p \in Ways : p # <<>> /\ Front(p) = d => Choice(b, o, t, M, p).conflicts = {}
      BY <2>4, <2>10
    <3>2. \A p \in Ways : p # <<>> /\ Front(p) = d => EntryOf(M[d].tree, Last(p)) = EntryOf(W[d].tree, Last(p))
      BY <2>3, <2>4, <2>5, <3>1
    <3>3. PICK f, g : f = M[d].tree /\ g = W[d].tree
      OBVIOUS
    <3>4. ASSUME NEW k \in Names, Append(d, k) \in Ways PROVE EntryOf(f, k) = EntryOf(g, k)
      <4>1. PICK p : p = Append(d, k)
        OBVIOUS
      <4>2. p \in Ways /\ p # <<>> /\ Front(p) = d /\ Last(p) = k
        BY <2>2, <3>4, <4>1, WaysAre, PathOf
      <4>3. QED
        BY <3>2, <3>3, <4>2
    <3>5. \A k \in DOMAIN f \cup DOMAIN g : EntryOf(f, k) = EntryOf(g, k)
      BY <2>4, <2>5, <3>3, <3>4
    <3>6. (\A k \in DOMAIN f : f[k] # Refused) /\ (\A k \in DOMAIN g : g[k] # Refused)
      BY <2>4, <2>5, <3>3
    <3>7. DOMAIN f = DOMAIN g /\ \A k \in DOMAIN f : f[k] = g[k]
      BY <3>5, <3>6 DEF EntryOf
    <3>8. QED
      BY <2>4, <2>5, <3>3, <3>7 DEF IsFun
  <2>11. QED
    BY <2>2, <2>7, <2>8, <2>10
<1>3. <<>> \in Ways
  BY RootWay
<1>4. Same(<<>>)
  BY <1>2, <1>3
<1>5. QED
  BY <1>1, <1>4 DEF MergeTrees

Merging(A, b, o, t, M) == /\ b \in TreesOf(A) /\ o \in TreesOf(A) /\ t \in TreesOf(A)
                          /\ M = Merged(b, o, t)

(* What comes of a directory is a tree.                                       *)
LEMMA MergedType ==
    ASSUME NEW A, TreeNotes(A), NEW b, NEW o, NEW t, NEW M, Merging(A, b, o, t, M), NEW d \in Ways
    PROVE  M[d].tree \in Levels(A)[Depth - Len(d)]
<1> DEFINE bad == {q \in Ways : M[q].tree \notin Levels(A)[Depth - Len(q)]}
<1>1. ASSUME bad # {} PROVE FALSE
  <2>1. PICK q \in bad : \A x \in Ways : Len(x) > Len(q) => x \notin bad
    <3>1. bad \in SUBSET Ways
      OBVIOUS
    <3>2. QED
      BY <1>1, <3>1, DeepestOf
  <2>2. q \in Ways /\ M[q].tree \notin Levels(A)[Depth - Len(q)]
    BY <2>1
  <2>3. /\ \A p \in Ways : p # <<>> /\ Front(p) = q =>
              EntryOf(M[q].tree, Last(p)) = Choice(b, o, t, M, p).entry
        /\ IsFun(M[q].tree) /\ DOMAIN M[q].tree \subseteq Names
        /\ \A n \in DOMAIN M[q].tree : Append(q, n) \in Ways /\ M[q].tree[n] # Refused
    BY <2>2, MergedRow DEF Merging
  <2>4. PICK k : k = Depth - Len(q)
    OBVIOUS
  <2>5. PICK r : r = M[q].tree /\ IsFun(r) /\ DOMAIN r \subseteq Names
    BY <2>3
  <2>6. k \in 0 .. Depth /\ q \in Seq(Names)
    BY <2>2, <2>4, WaysAre, DepthAssumption
  <2>7. ASSUME NEW n \in DOMAIN r
        PROVE  k - 1 \in 0 .. Depth /\ r[n] \in A \cup Levels(A)[k-1]
    <3>1. PICK p : p = Append(q, n)
      OBVIOUS
    <3>2. p \in Ways /\ p # <<>> /\ Front(p) = q /\ Last(p) = n /\ Len(p) = Len(q) + 1
      BY <2>3, <2>5, <2>6, <3>1, PathOf
    <3>3. r[n] = Choice(b, o, t, M, p).entry /\ r[n] # Refused
      BY <2>3, <2>5, <3>2 DEF EntryOf
    <3>4. Len(p) \in 0 .. Depth /\ Depth - Len(p) = k - 1 /\ k - 1 \in 0 .. Depth
      BY <2>2, <2>4, <2>6, <3>2, WaysAre, DepthAssumption
    <3>5. p \notin bad
      BY <2>1, <2>6, <3>2, <3>4, WaysAre
    <3>6. M[p].tree \in Levels(A)[k-1]
      BY <3>2, <3>4, <3>5
    <3>7. /\ EntryAt(o, p) \in A \cup Levels(A)[k-1] \cup {Refused}
          /\ EntryAt(t, p) \in A \cup Levels(A)[k-1] \cup {Refused}
      BY <3>2, <3>4, EntryIs DEF Merging
    <3>8. Choice(b, o, t, M, p).entry \in {EntryAt(o, p), EntryAt(t, p), M[p].tree}
      BY DEF Choice, Chosen
    <3>9. QED
      BY <3>3, <3>4, <3>6, <3>7, <3>8
  <2>8. r \in Levels(A)[k]
    <3>1. CASE k = 0
      <4>1. DOMAIN r = {}
        <5>1. k - 1 \notin 0 .. Depth
          BY <3>1
        <5>2. QED
          BY <2>7, <5>1
      <4>2. r = EmptyTree
        BY <2>5, <4>1 DEF IsFun, EmptyTree
      <4>3. QED
        BY <2>6, <4>2, EmptyIsLevel
    <3>2. CASE k # 0
      <4>1. k \in 1 .. Depth
        BY <2>6, <3>2, DepthAssumption
      <4>2. r = [n \in DOMAIN r |-> r[n]]
        BY <2>5 DEF IsFun
      <4>3. QED
        BY <2>5, <2>7, <4>1, <4>2, LevelHas
    <3>3. QED
      BY <3>1, <3>2
  <2>9. QED
    BY <2>2, <2>4, <2>5, <2>8
<1>2. QED
  BY <1>1

(* A path where both sides have changed a directory, and a way down through   *)
(* such directories.                                                          *)
Descended(b, o, t, p) ==
    /\ EntryAt(o, p) # EntryAt(t, p) /\ EntryAt(t, p) # EntryAt(b, p) /\ EntryAt(o, p) # EntryAt(b, p)
    /\ IsTree(EntryAt(o, p)) /\ IsTree(EntryAt(t, p))

DownTo(b, o, t, d) == \A q \in Ways : q # <<>> /\ Starts(q, d) => Descended(b, o, t, q)

Clash(b, o, t, p) ==
    /\ EntryAt(o, p) # EntryAt(t, p) /\ EntryAt(t, p) # EntryAt(b, p) /\ EntryAt(o, p) # EntryAt(b, p)
    /\ ~(IsTree(EntryAt(o, p)) /\ IsTree(EntryAt(t, p)))

ConflictAt(o, t, p) == [path |-> p, kind |-> ConflictKind(EntryAt(o, p), EntryAt(t, p))]

LEMMA ChoiceIs ==
    ASSUME NEW b, NEW o, NEW t, NEW M, NEW p
    PROVE  /\ Descended(b, o, t, p) => /\ Choice(b, o, t, M, p).entry = M[p].tree
                                       /\ Choice(b, o, t, M, p).conflicts = M[p].conflicts
           /\ Clash(b, o, t, p) => /\ Choice(b, o, t, M, p).entry = EntryAt(o, p)
                                   /\ Choice(b, o, t, M, p).conflicts = {ConflictAt(o, t, p)}
           /\ ~Descended(b, o, t, p) /\ ~Clash(b, o, t, p) =>
                 /\ Choice(b, o, t, M, p).entry =
                       IF EntryAt(o, p) = EntryAt(b, p) THEN EntryAt(t, p) ELSE EntryAt(o, p)
                 /\ Choice(b, o, t, M, p).conflicts = {}
                 /\ \/ EntryAt(o, p) = EntryAt(t, p) \/ EntryAt(t, p) = EntryAt(b, p)
                    \/ EntryAt(o, p) = EntryAt(b, p)
<1>1. PICK eb, eo, et : eb = EntryAt(b, p) /\ eo = EntryAt(o, p) /\ et = EntryAt(t, p)
  OBVIOUS
<1>2. PICK c : c = Choice(b, o, t, M, p) /\ c = Chosen(eb, eo, et, p, M[p])
  BY <1>1 DEF Choice
<1>3. CASE eo = et \/ et = eb
  <2>1. c = [entry |-> eo, conflicts |-> {}]
    BY <1>2, <1>3 DEF Chosen
  <2>2. c.entry = eo /\ c.conflicts = {}
    BY <2>1
  <2>3. ~Descended(b, o, t, p) /\ ~Clash(b, o, t, p)
    BY <1>1, <1>3 DEF Descended, Clash
  <2>4. QED
    BY <1>1, <1>2, <1>3, <2>2, <2>3
<1>4. CASE ~(eo = et \/ et = eb) /\ eo = eb
  <2>1. c = [entry |-> et, conflicts |-> {}]
    BY <1>2, <1>4 DEF Chosen
  <2>2. c.entry = et /\ c.conflicts = {}
    BY <2>1
  <2>3. ~Descended(b, o, t, p) /\ ~Clash(b, o, t, p)
    BY <1>1, <1>4 DEF Descended, Clash
  <2>4. QED
    BY <1>1, <1>2, <1>4, <2>2, <2>3
<1>5. CASE ~(eo = et \/ et = eb) /\ eo # eb /\ IsTree(eo) /\ IsTree(et)
  <2>1. c = [entry |-> M[p].tree, conflicts |-> M[p].conflicts]
    BY <1>2, <1>5 DEF Chosen
  <2>2. c.entry = M[p].tree /\ c.conflicts = M[p].conflicts
    BY <2>1
  <2>3. Descended(b, o, t, p) /\ ~Clash(b, o, t, p)
    BY <1>1, <1>5 DEF Descended, Clash
  <2>4. QED
    BY <1>2, <2>2, <2>3
<1>6. CASE ~(eo = et \/ et = eb) /\ eo # eb /\ ~(IsTree(eo) /\ IsTree(et))
  <2>1. c = [entry |-> eo, conflicts |-> {[path |-> p, kind |-> ConflictKind(eo, et)]}]
    BY <1>2, <1>6 DEF Chosen
  <2>2. c.entry = eo /\ c.conflicts = {ConflictAt(o, t, p)}
    BY <1>1, <2>1 DEF ConflictAt
  <2>3. ~Descended(b, o, t, p) /\ Clash(b, o, t, p)
    BY <1>1, <1>6 DEF Descended, Clash
  <2>4. QED
    BY <1>1, <1>2, <2>2, <2>3
<1>7. QED
  BY <1>3, <1>4, <1>5, <1>6

(* Every path is on such a way, or a first path on its way is not.            *)
LEMMA MergePlace ==
    ASSUME NEW b, NEW o, NEW t, NEW p \in Ways, ~DownTo(b, o, t, p)
    PROVE  \E q \in Ways : /\ q # <<>> /\ Starts(q, p) /\ ~Descended(b, o, t, q)
                           /\ DownTo(b, o, t, Front(q))
<1> DEFINE T == {i \in 1 .. Len(p) : ~Descended(b, o, t, Pre(p, i))}
<1>1. Len(p) \in Nat /\ p \in Seq(Names)
  BY WaysAre
<1>2. T # {}
  <2>1. PICK q \in Ways : q # <<>> /\ Starts(q, p) /\ ~Descended(b, o, t, q)
    BY DEF DownTo
  <2>2. q = Pre(p, Len(q)) /\ Len(q) \in 0 .. Len(p) /\ Len(q) # 0
    BY <2>1, AboveIs, WaysAre, EmptySeq
  <2>3. Len(q) \in T
    BY <1>1, <2>1, <2>2
  <2>4. QED
    BY <2>3
<1>3. PICK i \in T : \A j \in T : i <= j
  <2>1. T \in SUBSET Nat
    BY <1>1
  <2>2. QED
    BY <1>2, <2>1, LeastNumber
<1>4. i \in 1 .. Len(p) /\ i \in 0 .. Len(p) /\ i # 0
  BY <1>1, <1>3
<1>5. PICK q : q = Pre(p, i) /\ q \in Ways /\ Len(q) = i /\ q # <<>>
  BY <1>4, PreWays
<1>6. Front(q) = Pre(p, i - 1) /\ Front(q) \in Ways /\ Len(Front(q)) = i - 1
  BY <1>4, <1>5, PreWays, EntryIs, PathParts, WaysAre
<1>7. ASSUME NEW x \in Ways, x # <<>>, Starts(x, Front(q)) PROVE Descended(b, o, t, x)
  <2>1. PICK l : l = Len(x) /\ l \in 0 .. i - 1 /\ x = Pre(Front(q), l)
    BY <1>6, <1>7, AboveIs
  <2>2. PICK k : k = i - 1 /\ k \in 0 .. Len(p)
    BY <1>1, <1>4
  <2>3. x = Pre(p, l)
    BY <1>1, <1>6, <2>1, <2>2, PreOfPre
  <2>4. l # 0
    BY <1>7, <2>1, WaysAre, EmptySeq
  <2>5. l \in 1 .. Len(p) /\ l < i
    BY <1>1, <1>4, <2>1, <2>4
  <2>6. l \notin T
    BY <1>1, <1>3, <2>5
  <2>7. QED
    BY <2>3, <2>5, <2>6
<1>8. Starts(q, p)
  BY <1>1, <1>4, <1>5 DEF Starts
<1>9. ~Descended(b, o, t, q)
  BY <1>3, <1>5
<1>10. QED
  BY <1>5, <1>7, <1>8, <1>9 DEF DownTo

LEMMA DownFront ==
    ASSUME NEW b, NEW o, NEW t, NEW p \in Ways, p # <<>>
    PROVE  DownTo(b, o, t, p) <=> DownTo(b, o, t, Front(p)) /\ Descended(b, o, t, p)
BY AboveFront, AboveIs DEF DownTo

(* On the way down the merge has the directories it has made.                 *)
LEMMA MergeWalk ==
    ASSUME NEW A, TreeNotes(A), NEW b, NEW o, NEW t, NEW M, Merging(A, b, o, t, M),
           NEW r, r = M[<<>>].tree, NEW d \in Ways, DownTo(b, o, t, d)
    PROVE  WalkDir(r, d) = M[d].tree
<1> DEFINE bad == {i \in Nat : \E q \in Ways : Len(q) = i /\ DownTo(b, o, t, q) /\ WalkDir(r, q) # M[q].tree}
<1>1. ASSUME bad # {} PROVE FALSE
  <2>1. PICK i \in bad : \A j \in bad : i <= j
    <3>1. bad \in SUBSET Nat
      OBVIOUS
    <3>2. QED
      BY <1>1, <3>1, LeastNumber
  <2>2. PICK q \in Ways : Len(q) = i /\ DownTo(b, o, t, q) /\ WalkDir(r, q) # M[q].tree
    BY <2>1
  <2>3. q # <<>>
    BY <2>2, WalkRoot
  <2>4. /\ Front(q) \in Ways /\ Len(Front(q)) = Len(q) - 1 /\ Len(q) \in 1 .. Depth /\ q \in Seq(Names)
        /\ Last(q) \in Names
    BY <2>3, WaysAre, PathParts, AboveFront, DepthAssumption
  <2>5. DownTo(b, o, t, Front(q)) /\ Descended(b, o, t, q)
    BY <2>2, <2>3, DownFront
  <2>6. WalkDir(r, Front(q)) = M[Front(q)].tree
    <3>1. Len(Front(q)) \in Nat /\ Len(Front(q)) < i
      BY <2>2, <2>4, DepthAssumption
    <3>2. Len(Front(q)) \notin bad
      BY <2>1, <3>1
    <3>3. QED
      BY <2>4, <2>5, <3>1, <3>2
  <2>7. PICK dir : dir = M[Front(q)].tree
    OBVIOUS
  <2>8. EntryOf(dir, Last(q)) = M[q].tree
    <3>1. EntryOf(dir, Last(q)) = Choice(b, o, t, M, q).entry
      BY <2>3, <2>4, <2>7, MergedRow DEF Merging
    <3>2. QED
      BY <2>5, <3>1, ChoiceIs
  <2>9. M[q].tree \in Levels(A)[Depth - Len(q)] /\ dir \in Levels(A)[Depth - Len(Front(q))]
    BY <2>4, <2>7, MergedType
  <2>10. Depth - Len(q) \in 0 .. Depth /\ Depth - Len(Front(q)) \in 0 .. Depth
    BY <2>4, DepthAssumption
  <2>11. IsDir(M[q].tree) /\ M[q].tree # Refused /\ dir # Refused
    <3>1. PICK k, l : k = Depth - Len(q) /\ l = Depth - Len(Front(q))
      OBVIOUS
    <3>2. k \in 0 .. Depth /\ l \in 0 .. Depth /\ M[q].tree \in Levels(A)[k] /\ dir \in Levels(A)[l]
      BY <2>9, <2>10, <3>1
    <3>3. IsDir(M[q].tree)
      BY <3>2, LevelIs
    <3>4. QED
      BY <3>2, <3>3 DEF TreeNotes
  <2>12. Last(q) \in DOMAIN dir /\ dir[Last(q)] = M[q].tree
    BY <2>8, <2>11 DEF EntryOf
  <2>13. WalkDir(r, q) = Entered(dir, Last(q))
    BY <2>3, <2>4, <2>6, <2>7, WalkNext
  <2>14. WalkDir(r, q) = M[q].tree
    BY <2>11, <2>12, <2>13 DEF Entered, HasDir
  <2>15. QED
    BY <2>2, <2>14
<1>2. Len(d) \in Nat /\ Len(d) \notin bad
  BY <1>1, WaysAre
<1>3. QED
  BY <1>2

LEMMA MergeEntry ==
    ASSUME NEW A, TreeNotes(A), NEW b, NEW o, NEW t, NEW M, Merging(A, b, o, t, M),
           NEW r, r = M[<<>>].tree, NEW p \in Ways, p # <<>>, DownTo(b, o, t, Front(p))
    PROVE  r \in TreesOf(A) /\ EntryAt(r, p) = Choice(b, o, t, M, p).entry
<1>1. Front(p) \in Ways /\ Depth - Len(Front(p)) \in 0 .. Depth
  BY AboveFront, WaysAre, DepthAssumption
<1>2. WalkDir(r, Front(p)) = M[Front(p)].tree
  BY <1>1, MergeWalk
<1>3. PICK dir : dir = M[Front(p)].tree
  OBVIOUS
<1>4. dir # Refused
  BY <1>1, <1>3, MergedType DEF TreeNotes
<1>5. Opened(r, Front(p)) = dir
  BY <1>2, <1>3, <1>4 DEF Opened
<1>6. EntryOf(dir, Last(p)) = Choice(b, o, t, M, p).entry
  BY <1>1, <1>3, MergedRow DEF Merging
<1>7. r \in TreesOf(A)
  <2>1. PICK e : e = <<>> /\ e \in Ways /\ Len(e) = 0
    BY RootWay, EmptySeq
  <2>2. M[e].tree \in Levels(A)[Depth - Len(e)]
    BY <2>1, MergedType
  <2>3. Depth - Len(e) = Depth
    BY <2>1, DepthAssumption
  <2>4. QED
    BY <2>1, <2>2, <2>3 DEF TreesOf
<1>8. QED
  BY <1>5, <1>6, <1>7 DEF EntryAt

(* What conflicts on the way down conflicts in the merge, and nothing else.   *)
LEMMA ConflictUp ==
    ASSUME NEW A, TreeNotes(A), NEW b, NEW o, NEW t, NEW M, Merging(A, b, o, t, M),
           NEW d \in Ways, DownTo(b, o, t, d)
    PROVE  M[d].conflicts \subseteq M[<<>>].conflicts
<1> DEFINE bad == {i \in Nat : \E q \in Ways : /\ Len(q) = i /\ DownTo(b, o, t, q)
                                               /\ ~(M[q].conflicts \subseteq M[<<>>].conflicts)}
<1>1. ASSUME bad # {} PROVE FALSE
  <2>1. PICK i \in bad : \A j \in bad : i <= j
    <3>1. bad \in SUBSET Nat
      OBVIOUS
    <3>2. QED
      BY <1>1, <3>1, LeastNumber
  <2>2. PICK q \in Ways : /\ Len(q) = i /\ DownTo(b, o, t, q)
                          /\ ~(M[q].conflicts \subseteq M[<<>>].conflicts)
    BY <2>1
  <2>3. q # <<>>
    BY <2>2
  <2>4. /\ Front(q) \in Ways /\ Len(Front(q)) = Len(q) - 1 /\ Len(q) \in 1 .. Depth /\ q \in Seq(Names)
        /\ Last(q) \in Names
    BY <2>3, WaysAre, PathParts, AboveFront, DepthAssumption
  <2>5. DownTo(b, o, t, Front(q)) /\ Descended(b, o, t, q)
    BY <2>2, <2>3, DownFront
  <2>6. M[Front(q)].conflicts \subseteq M[<<>>].conflicts
    <3>1. Len(Front(q)) \in Nat /\ Len(Front(q)) < i
      BY <2>2, <2>4, DepthAssumption
    <3>2. Len(Front(q)) \notin bad
      BY <2>1, <3>1
    <3>3. QED
      BY <2>4, <2>5, <3>1, <3>2
  <2>7. ASSUME NEW x \in M[q].conflicts PROVE x \in M[Front(q)].conflicts
    <3>1. x \in Choice(b, o, t, M, q).conflicts
      BY <2>5, <2>7, ChoiceIs
    <3>2. QED
      BY <2>3, <2>4, <3>1, MergedRow DEF Merging
  <2>8. QED
    BY <2>2, <2>6, <2>7
<1>2. Len(d) \in Nat /\ Len(d) \notin bad
  BY <1>1, WaysAre
<1>3. QED
  BY <1>2

LEMMA ConflictDown ==
    ASSUME NEW A, TreeNotes(A), NEW b, NEW o, NEW t, NEW M, Merging(A, b, o, t, M),
           NEW d \in Ways, DownTo(b, o, t, d), NEW x \in M[d].conflicts
    PROVE  \E p \in Ways : /\ p # <<>> /\ DownTo(b, o, t, Front(p)) /\ Clash(b, o, t, p)
                           /\ x = ConflictAt(o, t, p)
<1> DEFINE Found(y) == \E p \in Ways : /\ p # <<>> /\ DownTo(b, o, t, Front(p)) /\ Clash(b, o, t, p)
                                       /\ y = ConflictAt(o, t, p)
           bad == {q \in Ways : DownTo(b, o, t, q) /\ \E y \in M[q].conflicts : ~Found(y)}
<1>1. ASSUME bad # {} PROVE FALSE
  <2>1. PICK q \in bad : \A z \in Ways : Len(z) > Len(q) => z \notin bad
    <3>1. bad \in SUBSET Ways
      OBVIOUS
    <3>2. QED
      BY <1>1, <3>1, DeepestOf
  <2>2. PICK y \in M[q].conflicts : q \in Ways /\ DownTo(b, o, t, q) /\ ~Found(y)
    BY <2>1
  <2>3. PICK p \in Ways : p # <<>> /\ Front(p) = q /\ y \in Choice(b, o, t, M, p).conflicts
    BY <2>2, MergedRow DEF Merging
  <2>4. Len(p) > Len(q)
    BY <2>3, ChildLonger
  <2>5. CASE Descended(b, o, t, p)
    <3>1. y \in M[p].conflicts
      BY <2>3, <2>5, ChoiceIs
    <3>2. DownTo(b, o, t, p)
      BY <2>2, <2>3, <2>5, DownFront
    <3>3. QED
      BY <2>1, <2>2, <2>4, <3>1, <3>2
  <2>6. CASE Clash(b, o, t, p)
    <3>1. y = ConflictAt(o, t, p)
      BY <2>3, <2>6, ChoiceIs
    <3>2. QED
      BY <2>2, <2>3, <2>6, <3>1
  <2>7. CASE ~Descended(b, o, t, p) /\ ~Clash(b, o, t, p)
    BY <2>3, <2>7, ChoiceIs
  <2>8. QED
    BY <2>5, <2>6, <2>7
<1>2. d \notin bad
  BY <1>1
<1>3. QED
  BY <1>2

(* What a merge leaves at a path: the entry of ours, of theirs or of both, as *)
(* the one decides that the way there meets first; and a conflict there or    *)
(* above exactly when both sides have changed that one.                       *)
Conflicts(cs, p) == \E x \in cs : Starts(x.path, p)

IsConflict(b, o, t, x) ==
    \E p \in Ways : /\ p # <<>> /\ DownTo(b, o, t, Front(p))
                    /\ Clash(b, o, t, p) /\ x = ConflictAt(o, t, p)

LEMMA MergeConflicts ==
    ASSUME NEW A, TreeNotes(A), NEW b, NEW o, NEW t, NEW M, Merging(A, b, o, t, M),
           NEW cs, cs = M[<<>>].conflicts
    PROVE  \A x : x \in cs <=> IsConflict(b, o, t, x)
<1>1. PICK e : e = <<>> /\ e \in Ways /\ Len(e) = 0
  BY RootWay, EmptySeq
<1>2. DownTo(b, o, t, e)
  <2>1. ASSUME NEW q \in Ways, q # <<>>, Starts(q, e) PROVE FALSE
    BY <1>1, <2>1, WaysAre, EmptySeq DEF Starts
  <2>2. QED
    BY <2>1 DEF DownTo
<1>3. ASSUME NEW x \in cs
      PROVE  \E p \in Ways : /\ p # <<>> /\ DownTo(b, o, t, Front(p))
                             /\ Clash(b, o, t, p) /\ x = ConflictAt(o, t, p)
  <2>1. x \in M[e].conflicts
    BY <1>1, <1>3
  <2>2. QED
    BY <1>1, <1>2, <2>1, ConflictDown
<1>4. ASSUME NEW p \in Ways, p # <<>>, DownTo(b, o, t, Front(p)), Clash(b, o, t, p)
      PROVE  ConflictAt(o, t, p) \in cs
  <2>1. PICK d : d = Front(p) /\ d \in Ways
    BY <1>4, AboveFront
  <2>2. PICK y : y = ConflictAt(o, t, p)
    OBVIOUS
  <2>3. y \in Choice(b, o, t, M, p).conflicts
    BY <1>4, <2>2, ChoiceIs
  <2>4. y \in M[d].conflicts
    BY <1>4, <2>1, <2>3, MergedRow DEF Merging
  <2>5. M[d].conflicts \subseteq cs
    BY <1>4, <2>1, ConflictUp
  <2>6. QED
    BY <2>2, <2>4, <2>5
<1>5. QED
  BY <1>3, <1>4 DEF IsConflict

LEMMA MergeAt ==
    ASSUME NEW A, TreeNotes(A), NEW b, NEW o, NEW t, NEW M, Merging(A, b, o, t, M),
           NEW r, r = M[<<>>].tree, NEW cs, cs = M[<<>>].conflicts, NEW p \in Ways, p # <<>>
    PROVE  \/ DownTo(b, o, t, p) /\ ~Conflicts(cs, p) /\ IsTree(EntryAt(r, p))
           \/ EntryAt(r, p) = EntryAt(o, p) /\ Conflicts(cs, p)
           \/ EntryAt(r, p) = EntryAt(o, p) /\ ~Conflicts(cs, p) /\ EntryAt(o, p) = EntryAt(t, p)
           \/ EntryAt(r, p) = EntryAt(o, p) /\ ~Conflicts(cs, p) /\ EntryAt(t, p) = EntryAt(b, p)
           \/ EntryAt(r, p) = EntryAt(t, p) /\ ~Conflicts(cs, p) /\ EntryAt(o, p) = EntryAt(b, p)
<1>0. b \in TreesOf(A) /\ o \in TreesOf(A) /\ t \in TreesOf(A) /\ M = Merged(b, o, t)
  BY DEF Merging
<1>1. ASSUME NEW q \in Ways, q # <<>>, Starts(q, p), ~Descended(b, o, t, q), DownTo(b, o, t, Front(q)),
             NEW x \in cs, Starts(x.path, p)
      PROVE  Clash(b, o, t, q)
  <2>1. PICK z \in Ways : /\ z # <<>> /\ DownTo(b, o, t, Front(z)) /\ Clash(b, o, t, z)
                          /\ x = ConflictAt(o, t, z)
    BY <1>1, MergeConflicts DEF IsConflict
  <2>2. x.path = z
    BY <2>1 DEF ConflictAt
  <2>3. Starts(z, p)
    BY <1>1, <2>2
  <2>4. Starts(z, q) \/ Starts(q, z)
    <3>1. /\ z = Pre(p, Len(z)) /\ Len(z) \in 0 .. Len(p)
          /\ q = Pre(p, Len(q)) /\ Len(q) \in 0 .. Len(p)
      BY <1>1, <2>3, AboveIs
    <3>2. PICK i, j : i = Len(z) /\ j = Len(q)
      OBVIOUS
    <3>3. p \in Seq(Names) /\ Len(p) \in Nat /\ i \in 0 .. Len(p) /\ j \in 0 .. Len(p)
      BY <3>1, <3>2, WaysAre
    <3>4. CASE i <= j
      <4>1. i \in 0 .. j
        BY <3>3, <3>4
      <4>2. Pre(Pre(p, j), i) = Pre(p, i)
        BY <3>3, <4>1, PreOfPre
      <4>3. QED
        BY <3>1, <3>2, <3>4, <4>2 DEF Starts
    <3>5. CASE j <= i
      <4>1. j \in 0 .. i
        BY <3>3, <3>5
      <4>2. Pre(Pre(p, i), j) = Pre(p, j)
        BY <3>3, <4>1, PreOfPre
      <4>3. QED
        BY <3>1, <3>2, <3>5, <4>2 DEF Starts
    <3>6. QED
      BY <3>3, <3>4, <3>5
  <2>5. ~Descended(b, o, t, z)
    BY <2>1 DEF Clash, Descended
  <2>6. z = q
    <3>1. CASE z # q /\ Starts(z, q)
      <4>1. Starts(z, Front(q))
        BY <1>1, <2>1, <3>1, AboveFront
      <4>2. QED
        BY <1>1, <2>1, <2>5, <4>1 DEF DownTo
    <3>2. CASE z # q /\ Starts(q, z)
      <4>1. Starts(q, Front(z))
        BY <1>1, <2>1, <3>2, AboveFront
      <4>2. QED
        BY <1>1, <2>1, <4>1 DEF DownTo
    <3>3. QED
      BY <2>4, <3>1, <3>2
  <2>7. QED
    BY <2>1, <2>6
<1>2. CASE DownTo(b, o, t, p)
  <2>1. DownTo(b, o, t, Front(p)) /\ Descended(b, o, t, p)
    BY <1>2, DownFront
  <2>2. EntryAt(r, p) = M[p].tree
    BY <2>1, MergeEntry, ChoiceIs
  <2>3. IsTree(EntryAt(r, p))
    <3>1. PICK k : k = Depth - Len(p) /\ k \in 0 .. Depth
      BY WaysAre, DepthAssumption
    <3>2. M[p].tree \in Levels(A)[k]
      BY <3>1, MergedType
    <3>3. IsDir(M[p].tree) /\ M[p].tree # Refused
      BY <3>1, <3>2, LevelIs DEF TreeNotes
    <3>4. QED
      BY <2>2, <3>3 DEF IsTree
  <2>4. ASSUME NEW x \in cs, Starts(x.path, p) PROVE FALSE
    <3>1. PICK z \in Ways : /\ z # <<>> /\ DownTo(b, o, t, Front(z)) /\ Clash(b, o, t, z)
                            /\ x = ConflictAt(o, t, z)
      BY <2>4, MergeConflicts DEF IsConflict
    <3>2. x.path = z
      BY <3>1 DEF ConflictAt
    <3>3. Descended(b, o, t, z)
      BY <1>2, <2>4, <3>1, <3>2 DEF DownTo
    <3>4. QED
      BY <3>1, <3>3 DEF Clash, Descended
  <2>5. QED
    BY <1>2, <2>3, <2>4 DEF Conflicts
<1>3. CASE ~DownTo(b, o, t, p)
  <2>1. PICK q \in Ways : /\ q # <<>> /\ Starts(q, p) /\ ~Descended(b, o, t, q)
                          /\ DownTo(b, o, t, Front(q))
    BY <1>3, MergePlace
  <2>2. r \in TreesOf(A) /\ EntryAt(r, q) = Choice(b, o, t, M, q).entry
    BY <2>1, MergeEntry
  <2>3. \A u, v \in TreesOf(A) : EntryAt(u, q) = EntryAt(v, q) => EntryAt(u, p) = EntryAt(v, p)
    BY <2>1, EntryUnder
  <2>4. CASE Clash(b, o, t, q)
    <3>1. EntryAt(r, q) = EntryAt(o, q)
      BY <2>2, <2>4, ChoiceIs
    <3>2. PICK x : x = ConflictAt(o, t, q) /\ x \in cs
      BY <2>1, <2>4, MergeConflicts DEF IsConflict
    <3>3. x.path = q
      BY <3>2 DEF ConflictAt
    <3>4. QED
      BY <1>0, <2>1, <2>2, <2>3, <3>1, <3>2, <3>3 DEF Conflicts
  <2>5. CASE ~Clash(b, o, t, q)
    <3>1. ~Conflicts(cs, p)
      BY <1>1, <2>1, <2>5 DEF Conflicts
    <3>2. EntryAt(r, q) = IF EntryAt(o, q) = EntryAt(b, q) THEN EntryAt(t, q) ELSE EntryAt(o, q)
      BY <2>1, <2>2, <2>5, ChoiceIs
    <3>3. \/ EntryAt(o, q) = EntryAt(t, q) \/ EntryAt(t, q) = EntryAt(b, q)
          \/ EntryAt(o, q) = EntryAt(b, q)
      BY <2>1, <2>5, ChoiceIs
    <3>4. QED
      BY <1>0, <2>2, <2>3, <3>1, <3>2, <3>3
  <2>6. QED
    BY <2>4, <2>5
<1>4. QED
  BY <1>2, <1>3

-----------------------------------------------------------------------------
(* Bulk import.                                                               *)

MemRoot(t) == [d \in {<<>>} |-> t]

MemStep(t, mem, it) == IF mem = Refused THEN Refused ELSE MemPut(t, mem, it[1], it[2])

IsImported(t, items, k, w) ==
    w = [i \in 0 .. k |-> IF i = 0 THEN MemRoot(t) ELSE MemStep(t, w[i-1], items[i])]

LEMMA ImportExists ==
    ASSUME NEW t, NEW items, NEW k \in Nat
    PROVE  \E w : IsImported(t, items, k, w)
<1> DEFINE bad == {n \in Nat : ~ \E w : IsImported(t, items, n, w)}
<1>1. SUFFICES ASSUME bad # {} PROVE FALSE
  OBVIOUS
<1>2. PICK m \in bad : \A n \in bad : m <= n
  <2>1. bad \in SUBSET Nat
    OBVIOUS
  <2>2. QED
    BY <1>1, <2>1, LeastNumber
<1>3. m # 0
  <2>1. IsImported(t, items, 0, [i \in 0 .. 0 |-> MemRoot(t)])
    BY DEF IsImported
  <2>2. QED
    BY <1>2, <2>1
<1>4. m \in Nat /\ m - 1 \in Nat /\ ~ (m <= m - 1)
  BY <1>2, <1>3
<1>5. m - 1 \notin bad
  BY <1>2, <1>4
<1>6. PICK v : IsImported(t, items, m - 1, v)
  BY <1>4, <1>5
<1>7. PICK w : w = [i \in 0 .. m |-> IF i = m THEN MemStep(t, v[m-1], items[m]) ELSE v[i]]
  OBVIOUS
<1>8. ASSUME NEW i \in 0 .. m
      PROVE  w[i] = IF i = 0 THEN MemRoot(t) ELSE MemStep(t, w[i-1], items[i])
  <2>1. \A j \in 0 .. m - 1 : v[j] = IF j = 0 THEN MemRoot(t) ELSE MemStep(t, v[j-1], items[j])
    BY <1>6 DEF IsImported
  <2>2. CASE i = m
    <3>1. w[i] = MemStep(t, v[m-1], items[m])
      BY <1>7, <2>2
    <3>2. w[m-1] = v[m-1]
      BY <1>4, <1>7
    <3>3. QED
      BY <1>3, <2>2, <3>1, <3>2
  <2>3. CASE i # m
    <3>1. i \in 0 .. m - 1 /\ w[i] = v[i]
      BY <1>4, <1>7, <2>3
    <3>2. i # 0 => i - 1 \in 0 .. m /\ i - 1 # m
      BY <1>4, <3>1
    <3>3. i # 0 => w[i-1] = v[i-1]
      BY <1>7, <3>2
    <3>4. QED
      BY <2>1, <3>1, <3>3
  <2>4. QED
    BY <2>2, <2>3
<1>9. w = [i \in 0 .. m |-> w[i]]
  BY <1>7
<1>10. IsImported(t, items, m, w)
  BY <1>8, <1>9 DEF IsImported
<1>11. QED
  BY <1>2, <1>10

LEMMA ImportStepIs ==
    ASSUME NEW t, NEW items, Len(items) \in Nat
    PROVE  \A i \in 0 .. Len(items) :
              MemImport(t, items)[i] =
                 IF i = 0 THEN MemRoot(t) ELSE MemStep(t, MemImport(t, items)[i-1], items[i])
<1>1. MemImport(t, items) = CHOOSE w : IsImported(t, items, Len(items), w)
  BY DEF MemImport, IsImported, MemStep, MemRoot
<1>2. IsImported(t, items, Len(items), CHOOSE w : IsImported(t, items, Len(items), w))
  BY ImportExists
<1>3. IsImported(t, items, Len(items), MemImport(t, items))
  BY <1>1, <1>2
<1>4. QED
  BY <1>3 DEF IsImported

Items(A, items) == /\ Len(items) \in Nat
                   /\ \A i \in 1 .. Len(items) : items[i][1] \in Ways \ {<<>>} /\ items[i][2] \in A

\* the j-th item is the last for its path among the first k
LastFor(items, k, j) == \A i \in 1 .. k : i > j => items[i][1] # items[j][1]

(* The directories in memory after the first k items: those the items pass    *)
(* through, in each the last note put there and else what the tree has.       *)
MemOK(A, t, items, k, mem) ==
    /\ DOMAIN mem \subseteq Ways /\ IsFun(mem)
    /\ \A d \in Ways : d \in DOMAIN mem <=>
                          d = <<>> \/ \E i \in 1 .. k : Starts(d, Front(items[i][1]))
    /\ \A d \in DOMAIN mem : mem[d] \in Levels(A)[Depth - Len(d)]
    /\ \A q \in Ways : q # <<>> /\ Front(q) \in DOMAIN mem =>
          /\ \A j \in 1 .. k : items[j][1] = q /\ LastFor(items, k, j) =>
                EntryOf(mem[Front(q)], Last(q)) = items[j][2]
          /\ (\A j \in 1 .. k : items[j][1] # q) => EntryOf(mem[Front(q)], Last(q)) = EntryAt(t, q)
    /\ \A q \in DOMAIN mem : q # <<>> => EntryAt(t, q) = Refused \/ IsTree(EntryAt(t, q))
    /\ \A j \in 1 .. k : ~IsTree(EntryAt(t, items[j][1]))

LEMMA LastForExists ==
    ASSUME NEW items, NEW k \in Nat, NEW i \in 1 .. k
    PROVE  \E j \in 1 .. k : items[j][1] = items[i][1] /\ LastFor(items, k, j)
<1> DEFINE T == {n \in Nat : \E j \in 1 .. k : n = k - j /\ items[j][1] = items[i][1]}
<1>1. T \in SUBSET Nat /\ T # {}
  <2>1. k - i \in Nat
    OBVIOUS
  <2>2. QED
    BY <2>1
<1>2. PICK n \in T : \A m \in T : n <= m
  BY <1>1, LeastNumber
<1>3. PICK j \in 1 .. k : n = k - j /\ items[j][1] = items[i][1]
  BY <1>2
<1>4. ASSUME NEW l \in 1 .. k, l > j, items[l][1] = items[j][1] PROVE FALSE
  <2>1. k - l \in T /\ k - l < n
    BY <1>3, <1>4
  <2>2. QED
    BY <1>2, <2>1
<1>5. QED
  BY <1>3, <1>4 DEF LastFor

LEMMA MemRootOK ==
    ASSUME NEW A, TreeNotes(A), NEW t \in TreesOf(A), NEW items, Items(A, items)
    PROVE  MemOK(A, t, items, 0, MemRoot(t))
<1>1. PICK e, m : e = <<>> /\ m = MemRoot(t)
  OBVIOUS
<1>2. e \in Ways /\ Len(e) = 0 /\ DOMAIN m = {e} /\ m[e] = t /\ IsFun(m)
  BY <1>1, RootWay, EmptySeq DEF MemRoot, IsFun
<1>3. m[e] \in Levels(A)[Depth - Len(e)]
  <2>1. Depth - Len(e) = Depth
    BY <1>2, DepthAssumption
  <2>2. QED
    BY <1>2, <2>1 DEF TreesOf
<1>4. ASSUME NEW q \in Ways, q # <<>>, Front(q) \in DOMAIN m
      PROVE  EntryOf(m[Front(q)], Last(q)) = EntryAt(t, q)
  <2>1. Front(q) = e
    BY <1>2, <1>4
  <2>2. Opened(t, e) = t
    <3>1. WalkDir(t, e) = t
      BY <1>1, WalkRoot
    <3>2. QED
      BY <3>1, DepthAssumption DEF Opened, TreesOf, TreeNotes
  <2>3. QED
    BY <1>2, <2>1, <2>2 DEF EntryAt
<1>5. \A j : j \notin 1 .. 0
  OBVIOUS
<1>6. QED
  BY <1>1, <1>2, <1>3, <1>4, <1>5 DEF MemOK

(* What a directory has under a name.                                         *)
LEMMA HasIs ==
    ASSUME NEW dir, NEW n, NEW e, e = EntryOf(dir, n)
    PROVE  /\ HasNote(dir, n) <=> n \in DOMAIN dir /\ ~IsDir(e)
           /\ HasDir(dir, n) <=> n \in DOMAIN dir /\ IsDir(e)
           /\ e # Refused => n \in DOMAIN dir
BY DEF HasNote, HasDir, EntryOf

LEMMA MemStepOK ==
    ASSUME NEW A, TreeNotes(A), NEW t \in TreesOf(A), NEW items, Items(A, items),
           NEW k \in Nat, k + 1 \in 1 .. Len(items), NEW mem, MemOK(A, t, items, k, mem),
           NEW new, new = MemStep(t, mem, items[k+1]), new # Refused
    PROVE  MemOK(A, t, items, k + 1, new)
<1>1. PICK p, a : p = items[k+1][1] /\ a = items[k+1][2]
  OBVIOUS
<1>2. p \in Ways /\ p # <<>> /\ a \in A /\ a # Refused /\ ~IsDir(a)
  BY <1>1 DEF Items, TreeNotes
<1>3. PICK f, n : f = Front(p) /\ n = Last(p)
  OBVIOUS
<1>4. /\ f \in Ways /\ n \in Names /\ p = Append(f, n) /\ p \in Seq(Names) /\ Len(p) \in Nat \ {0}
      /\ Len(p) \in 1 .. Depth /\ f = Pre(p, Len(p) - 1) /\ Len(f) = Len(p) - 1
  BY <1>2, <1>3, WaysAre, PathParts, AboveFront, DepthAssumption
<1>5. PICK D : D = DOMAIN mem
  OBVIOUS
<1>6. PICK way : way = {SubSeq(p, 1, i) : i \in 0 .. Len(p) - 1}
  OBVIOUS
<1>7. \A q : q \in way <=> q \in Ways /\ Starts(q, f)
  <2>1. ASSUME NEW q \in way PROVE q \in Ways /\ Starts(q, f)
    <3>1. PICK i \in 0 .. Len(p) - 1 : q = Pre(p, i)
      BY <1>6, <2>1 DEF Pre
    <3>2. i \in 0 .. Len(p) /\ i <= Len(f) /\ Len(p) - 1 \in 0 .. Len(p) /\ i \in 0 .. Len(p) - 1
      BY <1>4, <3>1
    <3>3. q \in Ways /\ Len(q) = i
      BY <1>2, <3>1, <3>2, PreWays
    <3>4. Pre(f, i) = q
      <4>1. PICK l : l = Len(p) - 1
        OBVIOUS
      <4>2. Pre(Pre(p, l), i) = Pre(p, i)
        BY <1>4, <3>2, <4>1, PreOfPre
      <4>3. QED
        BY <1>4, <3>1, <4>1, <4>2
    <3>5. QED
      BY <3>2, <3>3, <3>4 DEF Starts
  <2>2. ASSUME NEW q \in Ways, Starts(q, f) PROVE q \in way
    <3>1. Starts(q, p) /\ q # p
      <4>1. Above(q, p)
        BY <1>2, <1>3, <2>2, AboveFront
      <4>2. QED
        BY <1>2, <2>2, <4>1, AboveIs
    <3>2. q = Pre(p, Len(q)) /\ Len(q) \in 0 .. Len(p)
      BY <1>2, <3>1, AboveIs
    <3>3. Len(q) # Len(p)
      BY <1>2, <3>1, AboveIs
    <3>4. Len(q) \in 0 .. Len(p) - 1
      BY <1>4, <3>2, <3>3
    <3>5. QED
      BY <1>6, <3>2, <3>4 DEF Pre
  <2>3. QED
    BY <2>1, <2>2
<1>8. PICK open : open = [d \in D \cup way |-> MemChild(t, mem, d)]
  OBVIOUS
<1>9. /\ \A d \in way \ D : ~HasNote(open[Front(d)], Last(d))
      /\ ~HasDir(open[f], n)
      /\ new = [open EXCEPT ![f] = With(@, n, a)]
  <2>1. new = MemPut(t, mem, p, a)
    BY <1>1 DEF MemStep
  <2>2. new = IF (\E d \in way \ D : HasNote(open[Front(d)], Last(d))) \/ HasDir(open[f], n)
              THEN Refused ELSE [open EXCEPT ![f] = With(@, n, a)]
    BY <1>3, <1>5, <1>6, <1>8, <2>1 DEF MemPut, DirPart, LeafName
  <2>3. QED
    BY <2>2
<1>10. f \in way
  BY <1>4, <1>7, AboveIs
<1>11. /\ DOMAIN new = D \cup way /\ IsFun(new)
       /\ \A d \in D \cup way : new[d] = IF d = f THEN With(open[f], n, a) ELSE open[d]
       /\ \A d \in D \cup way : open[d] = IF d \in D THEN mem[d] ELSE Opened(t, d)
  BY <1>5, <1>8, <1>9, <1>10 DEF IsFun, MemChild
<1>12. /\ D \subseteq Ways
       /\ \A d \in Ways : d \in D <=> d = <<>> \/ \E i \in 1 .. k : Starts(d, Front(items[i][1]))
       /\ \A d \in D : mem[d] \in Levels(A)[Depth - Len(d)]
       /\ \A q \in Ways : q # <<>> /\ Front(q) \in D =>
             /\ \A j \in 1 .. k : items[j][1] = q /\ LastFor(items, k, j) =>
                   EntryOf(mem[Front(q)], Last(q)) = items[j][2]
             /\ (\A j \in 1 .. k : items[j][1] # q) => EntryOf(mem[Front(q)], Last(q)) = EntryAt(t, q)
       /\ \A q \in D : q # <<>> => EntryAt(t, q) = Refused \/ IsTree(EntryAt(t, q))
       /\ \A j \in 1 .. k : ~IsTree(EntryAt(t, items[j][1]))
  BY <1>5 DEF MemOK
<1>13. D \cup way \subseteq Ways
  BY <1>7, <1>12
<1>14. \A i \in 1 .. k + 1 : i \in 1 .. k \/ i = k + 1
  OBVIOUS
<1>15. \A i \in 1 .. k : i \in 1 .. k + 1 /\ i # k + 1 /\ i \in 1 .. Len(items)
  <2>1. Len(items) \in Nat
    BY DEF Items
  <2>2. QED
    BY <2>1
<1>16. ASSUME NEW d \in Ways
       PROVE  d \in D \cup way <=> d = <<>> \/ \E i \in 1 .. k + 1 : Starts(d, Front(items[i][1]))
  BY <1>1, <1>3, <1>7, <1>12, <1>14, <1>15
<1>17. ASSUME NEW d \in D \cup way PROVE open[d] \in Levels(A)[Depth - Len(d)]
  BY <1>11, <1>12, <1>13, <1>17, OpenedType
<1>18. ASSUME NEW d \in D \cup way PROVE new[d] \in Levels(A)[Depth - Len(d)]
  <2>1. CASE d = f
    <3>1. PICK l : l = Depth - Len(f)
      OBVIOUS
    <3>2. l \in 1 .. Depth /\ open[f] \in Levels(A)[l]
      <4>1. l \in 1 .. Depth
        <5>1. Len(p) \in 1 .. Depth /\ Len(f) = Len(p) - 1
          BY <1>4
        <5>2. PICK x, y : x = Len(p) /\ y = Len(f)
          OBVIOUS
        <5>3. x \in 1 .. Depth /\ y = x - 1 /\ l = Depth - y
          BY <3>1, <5>1, <5>2
        <5>4. QED
          BY <5>3, DepthAssumption
      <4>2. f \in D \cup way
        BY <1>10
      <4>3. open[f] \in Levels(A)[Depth - Len(f)]
        BY <1>17, <4>2
      <4>4. QED
        BY <3>1, <4>1, <4>3
    <3>3. a \in A \cup Levels(A)[l-1]
      BY <1>2
    <3>4. PICK o : o = open[f]
      OBVIOUS
    <3>5. With(o, n, a) \in Levels(A)[l]
      BY <1>4, <3>2, <3>3, <3>4, WithType
    <3>6. QED
      BY <1>11, <2>1, <3>1, <3>4, <3>5
  <2>2. CASE d # f
    BY <1>11, <1>17, <2>2
  <2>3. QED
    BY <2>1, <2>2
<1>19. ASSUME NEW q \in Ways, q # <<>>, Front(q) \in D \cup way
       PROVE  /\ \A j \in 1 .. k : items[j][1] = q /\ LastFor(items, k, j) =>
                    EntryOf(open[Front(q)], Last(q)) = items[j][2]
              /\ (\A j \in 1 .. k : items[j][1] # q) => EntryOf(open[Front(q)], Last(q)) = EntryAt(t, q)
  <2>1. CASE Front(q) \in D
    BY <1>11, <1>12, <1>19, <2>1
  <2>2. CASE Front(q) \notin D
    <3>1. Front(q) \in Ways
      BY <1>13, <1>19
    <3>2. \A j \in 1 .. k : items[j][1] # q
      BY <1>12, <2>2, <3>1, AboveIs
    <3>3. open[Front(q)] = Opened(t, Front(q))
      BY <1>11, <1>19, <2>2
    <3>4. QED
      BY <3>2, <3>3 DEF EntryAt
  <2>3. QED
    BY <2>1, <2>2
<1>20. ASSUME NEW q \in Ways, q # <<>>, Front(q) \in D \cup way
       PROVE  EntryOf(new[Front(q)], Last(q)) = IF q = p THEN a ELSE EntryOf(open[Front(q)], Last(q))
  <2>1. q = Append(Front(q), Last(q))
    BY <1>20, EntryIs, WaysAre, PathParts
  <2>2. CASE Front(q) = f
    <3>1. q = p <=> Last(q) = n
      BY <1>3, <1>4, <2>1, <2>2
    <3>2. new[f] = With(open[f], n, a)
      BY <1>10, <1>11
    <3>3. QED
      BY <2>2, <3>1, <3>2 DEF With, EntryOf
  <2>3. CASE Front(q) # f
    BY <1>3, <1>11, <1>20, <2>3
  <2>4. QED
    BY <2>2, <2>3
<1>21. ASSUME NEW q \in Ways, q # <<>>, Front(q) \in D \cup way
       PROVE  /\ \A j \in 1 .. k + 1 : items[j][1] = q /\ LastFor(items, k + 1, j) =>
                    EntryOf(new[Front(q)], Last(q)) = items[j][2]
              /\ (\A j \in 1 .. k + 1 : items[j][1] # q) =>
                    EntryOf(new[Front(q)], Last(q)) = EntryAt(t, q)
  <2>1. ASSUME NEW j \in 1 .. k + 1, items[j][1] = q, LastFor(items, k + 1, j)
        PROVE  EntryOf(new[Front(q)], Last(q)) = items[j][2]
    <3>1. CASE j = k + 1
      BY <1>1, <1>20, <1>21, <2>1, <3>1
    <3>2. CASE j # k + 1
      <4>1. j \in 1 .. k /\ k + 1 > j /\ k + 1 \in 1 .. k + 1
        BY <2>1, <3>2
      <4>2. q # p
        BY <1>1, <2>1, <4>1 DEF LastFor
      <4>3. LastFor(items, k, j)
        BY <1>15, <2>1 DEF LastFor
      <4>4. QED
        BY <1>19, <1>20, <1>21, <2>1, <4>1, <4>2, <4>3
    <3>3. QED
      BY <3>1, <3>2
  <2>2. ASSUME \A j \in 1 .. k + 1 : items[j][1] # q
        PROVE  EntryOf(new[Front(q)], Last(q)) = EntryAt(t, q)
    <3>1. q # p
      BY <1>1, <2>2
    <3>2. \A j \in 1 .. k : items[j][1] # q
      BY <1>15, <2>2
    <3>3. QED
      BY <1>19, <1>20, <1>21, <3>1, <3>2
  <2>3. QED
    BY <2>1, <2>2
<1>22. ASSUME NEW q \in D \cup way, q # <<>>
       PROVE  EntryAt(t, q) = Refused \/ IsTree(EntryAt(t, q))
  <2>1. CASE q \in D
    BY <1>12, <1>22, <2>1
  <2>2. CASE q \notin D
    <3>1. q \in Ways /\ Starts(q, f) /\ q \in way
      BY <1>7, <1>22, <2>2
    <3>2. Front(q) \in way
      <4>1. Front(q) \in Ways /\ Starts(Front(q), q)
        BY <1>22, <3>1, AboveFront, AboveIs
      <4>2. \A z \in Ways : Starts(z, q) => Starts(z, f)
        <5>1. ASSUME NEW z \in Ways, Starts(z, q) PROVE Starts(z, f)
          <6>1. z = Pre(q, Len(z)) /\ Len(z) \in 0 .. Len(q) /\ q = Pre(f, Len(q)) /\ Len(q) \in 0 .. Len(f)
            BY <1>4, <3>1, <5>1, AboveIs
          <6>2. PICK i, l : i = Len(z) /\ l = Len(q)
            OBVIOUS
          <6>3. f \in Seq(Names) /\ Len(f) \in Nat
            BY <1>4, WaysAre
          <6>4. Pre(Pre(f, l), i) = Pre(f, i)
            BY <6>1, <6>2, <6>3, PreOfPre
          <6>5. QED
            BY <6>1, <6>2, <6>3, <6>4 DEF Starts
        <5>2. QED
          BY <5>1
      <4>3. QED
        BY <1>7, <4>1, <4>2
    <3>3. ~HasNote(open[Front(q)], Last(q))
      BY <1>9, <2>2, <3>1
    <3>4. PICK e : e = EntryOf(open[Front(q)], Last(q))
      OBVIOUS
    <3>5. e = Refused \/ IsDir(e)
      BY <3>3, <3>4, HasIs
    <3>6. CASE \E j \in 1 .. k : items[j][1] = q
      <4>1. PICK j \in 1 .. k : items[j][1] = q /\ LastFor(items, k, j)
        BY <3>6, LastForExists
      <4>2. e = items[j][2]
        BY <1>19, <1>22, <3>1, <3>2, <3>4, <4>1
      <4>3. e \in A
        BY <1>15, <4>1, <4>2 DEF Items
      <4>4. QED
        BY <3>5, <4>3 DEF TreeNotes
    <3>7. CASE \A j \in 1 .. k : items[j][1] # q
      <4>1. e = EntryAt(t, q)
        BY <1>19, <1>22, <3>1, <3>2, <3>4, <3>7
      <4>2. QED
        BY <3>5, <4>1 DEF IsTree
    <3>8. QED
      BY <3>6, <3>7
  <2>3. QED
    BY <2>1, <2>2
<1>23. ~IsTree(EntryAt(t, p))
  <2>1. CASE \E j \in 1 .. k : items[j][1] = p
    BY <1>12, <2>1
  <2>2. CASE \A j \in 1 .. k : items[j][1] # p
    <3>1. PICK e : e = EntryOf(open[f], n)
      OBVIOUS
    <3>2. e = EntryAt(t, p)
      BY <1>2, <1>3, <1>10, <1>19, <2>2, <3>1
    <3>3. ~IsTree(e)
      BY <1>9, <3>1, HasIs DEF IsTree
    <3>4. QED
      BY <3>2, <3>3
  <2>3. QED
    BY <2>1, <2>2
<1>24. \A j \in 1 .. k + 1 : ~IsTree(EntryAt(t, items[j][1]))
  BY <1>1, <1>12, <1>14, <1>23
<1>25. QED
  BY <1>11, <1>13, <1>16, <1>18, <1>21, <1>22, <1>24 DEF MemOK

(* What is written at the end.                                                *)
Below(mem, d) == DOMAIN mem[d] \cup {m \in Names : Append(d, m) \in DOMAIN mem}

FinalDir(mem, f, d) ==
    [n \in Below(mem, d) |-> IF Append(d, n) \in DOMAIN mem THEN f[Append(d, n)] ELSE mem[d][n]]

DeepIn(mem, k) == {d \in DOMAIN mem : k <= Len(d)}

IsFinal(mem, k, f) == f = [d \in DeepIn(mem, k) |-> FinalDir(mem, f, d)]

\* directories in memory
MemDirs(mem) == DOMAIN mem \subseteq Ways /\ \A d \in DOMAIN mem : DOMAIN mem[d] \subseteq Names

LEMMA FinalDirSame ==
    ASSUME NEW mem, MemDirs(mem), NEW d \in DOMAIN mem, NEW f, NEW g,
           \A q \in DOMAIN mem : Len(q) > Len(d) => f[q] = g[q]
    PROVE  FinalDir(mem, f, d) = FinalDir(mem, g, d)
<1>1. ASSUME NEW n \in Below(mem, d), Append(d, n) \in DOMAIN mem
      PROVE  f[Append(d, n)] = g[Append(d, n)]
  <2>1. n \in Names /\ d \in Seq(Names) /\ Len(d) \in Nat
    BY WaysAre DEF Below, MemDirs
  <2>2. PICK q : q = Append(d, n)
    OBVIOUS
  <2>3. Len(q) = Len(d) + 1
    BY <2>1, <2>2, PathOf
  <2>4. q \in DOMAIN mem /\ Len(q) > Len(d)
    <3>1. PICK i, j : i = Len(q) /\ j = Len(d)
      OBVIOUS
    <3>2. i > j
      BY <2>1, <2>3, <3>1
    <3>3. QED
      BY <1>1, <2>2, <3>1, <3>2
  <2>5. f[q] = g[q]
    BY <2>4
  <2>6. QED
    BY <2>2, <2>5
<1>2. QED
  BY <1>1 DEF FinalDir

LEMMA FinalExists ==
    ASSUME NEW mem, MemDirs(mem)
    PROVE  \E f : IsFinal(mem, 0, f)
<1> DEFINE Done(j) == \E f : IsFinal(mem, Depth + 1 - j, f)
           bad == {j \in 0 .. Depth + 1 : ~ Done(j)}
<1>1. Depth \in Nat /\ \A d \in DOMAIN mem : d \in Ways /\ Len(d) \in 0 .. Depth
  BY WaysAre, DepthAssumption DEF MemDirs
<1>2. ASSUME bad # {} PROVE FALSE
  <2>1. PICK m \in bad : \A j \in bad : m <= j
    <3>1. bad \in SUBSET Nat
      BY <1>1
    <3>2. QED
      BY <1>2, <3>1, LeastNumber
  <2>2. m # 0
    <3>1. \A d \in DOMAIN mem : ~ (Depth + 1 <= Len(d))
      BY <1>1
    <3>2. DeepIn(mem, Depth + 1) = {}
      BY <3>1 DEF DeepIn
    <3>3. PICK f : f = [d \in DeepIn(mem, Depth + 1) |-> FinalDir(mem, <<>>, d)]
      OBVIOUS
    <3>4. f = [d \in DeepIn(mem, Depth + 1) |-> FinalDir(mem, f, d)]
      BY <3>2, <3>3
    <3>5. Done(0)
      BY <1>1, <3>4 DEF IsFinal
    <3>6. QED
      BY <2>1, <3>5
  <2>3. PICK k : k = Depth + 1 - m
    OBVIOUS
  <2>4. k \in 0 .. Depth /\ m - 1 \in 0 .. Depth + 1 /\ ~ (m <= m - 1) /\ Depth + 1 - (m - 1) = k + 1
    BY <1>1, <2>1, <2>2, <2>3
  <2>5. Done(m - 1)
    BY <2>1, <2>4
  <2>6. PICK f : IsFinal(mem, k + 1, f)
    BY <2>4, <2>5
  <2>7. PICK g : g = [d \in DeepIn(mem, k) |-> IF Len(d) = k THEN FinalDir(mem, f, d) ELSE f[d]]
    OBVIOUS
  <2>8. ASSUME NEW d \in DeepIn(mem, k) PROVE g[d] = FinalDir(mem, g, d)
    <3>1. d \in DOMAIN mem /\ k <= Len(d) /\ Len(d) \in 0 .. Depth
      BY <1>1 DEF DeepIn
    <3>2. ASSUME NEW q \in DOMAIN mem, Len(q) > Len(d) PROVE g[q] = f[q]
      <4>1. q \in DeepIn(mem, k) /\ Len(q) # k
        BY <1>1, <2>4, <3>1, <3>2 DEF DeepIn
      <4>2. QED
        BY <2>7, <4>1
    <3>3. FinalDir(mem, g, d) = FinalDir(mem, f, d)
      BY <3>1, <3>2, FinalDirSame
    <3>4. CASE Len(d) = k
      BY <2>7, <3>3, <3>4
    <3>5. CASE Len(d) # k
      <4>1. d \in DeepIn(mem, k + 1)
        BY <2>4, <3>1, <3>5 DEF DeepIn
      <4>2. f[d] = FinalDir(mem, f, d)
        BY <2>6, <4>1 DEF IsFinal
      <4>3. QED
        BY <2>7, <3>3, <3>5, <4>2
    <3>6. QED
      BY <3>4, <3>5
  <2>9. g = [d \in DeepIn(mem, k) |-> FinalDir(mem, g, d)]
    <3>1. g = [d \in DeepIn(mem, k) |-> g[d]]
      BY <2>7
    <3>2. QED
      BY <2>8, <3>1
  <2>10. Done(m)
    BY <2>3, <2>9 DEF IsFinal
  <2>11. QED
    BY <2>1, <2>10
<1>3. PICK l : l = Depth + 1 /\ l \in 0 .. Depth + 1 /\ Depth + 1 - l = 0
  BY <1>1
<1>4. l \notin bad
  BY <1>2
<1>5. Done(l)
  BY <1>3, <1>4
<1>6. QED
  BY <1>3, <1>5

LEMMA FinalIs ==
    ASSUME NEW mem, MemDirs(mem), NEW R, R = FinalizeMem(mem), NEW d \in DOMAIN mem
    PROVE  R[d] = FinalDir(mem, R, d)
<1>1. DeepIn(mem, 0) = DOMAIN mem
  <2>1. \A x \in DOMAIN mem : 0 <= Len(x)
    BY WaysAre DEF MemDirs
  <2>2. QED
    BY <2>1 DEF DeepIn
<1>2. R = CHOOSE f : f = [x \in DOMAIN mem |-> FinalDir(mem, f, x)]
  BY DEF FinalizeMem, FinalDir, Below
<1>3. R = CHOOSE f : IsFinal(mem, 0, f)
  BY <1>1, <1>2 DEF IsFinal
<1>4. IsFinal(mem, 0, R)
  BY <1>3, FinalExists
<1>5. QED
  BY <1>1, <1>4 DEF IsFinal

LEMMA FinalRow ==
    ASSUME NEW mem, MemDirs(mem), NEW R, R = FinalizeMem(mem),
           NEW q \in Ways, q # <<>>, Front(q) \in DOMAIN mem
    PROVE  EntryOf(R[Front(q)], Last(q)) =
              IF q \in DOMAIN mem THEN R[q] ELSE EntryOf(mem[Front(q)], Last(q))
<1>1. PICK d, n : d = Front(q) /\ n = Last(q)
  OBVIOUS
<1>2. d \in DOMAIN mem /\ n \in Names /\ q = Append(d, n)
  BY <1>1, WaysAre, PathParts
<1>3. PICK r : r = R[d] /\ r = FinalDir(mem, R, d)
  BY <1>2, FinalIs
<1>4. DOMAIN r = Below(mem, d) /\ \A m \in Below(mem, d) :
          r[m] = IF Append(d, m) \in DOMAIN mem THEN R[Append(d, m)] ELSE mem[d][m]
  BY <1>3 DEF FinalDir
<1>5. n \in Below(mem, d) <=> n \in DOMAIN mem[d] \/ q \in DOMAIN mem
  BY <1>2 DEF Below
<1>6. EntryOf(r, n) = IF q \in DOMAIN mem THEN R[q] ELSE EntryOf(mem[d], n)
  BY <1>2, <1>4, <1>5 DEF EntryOf
<1>7. QED
  BY <1>1, <1>3, <1>6

LEMMA FinalType ==
    ASSUME NEW A, TreeNotes(A), NEW mem, MemDirs(mem),
           \A d \in DOMAIN mem : mem[d] \in Levels(A)[Depth - Len(d)],
           NEW R, R = FinalizeMem(mem), NEW x \in DOMAIN mem
    PROVE  R[x] \in Levels(A)[Depth - Len(x)]
<1> DEFINE bad == {q \in DOMAIN mem : R[q] \notin Levels(A)[Depth - Len(q)]}
<1>1. ASSUME bad # {} PROVE FALSE
  <2>1. PICK q \in bad : \A z \in Ways : Len(z) > Len(q) => z \notin bad
    <3>1. bad \in SUBSET Ways
      BY DEF MemDirs
    <3>2. QED
      BY <1>1, <3>1, DeepestOf
  <2>2. q \in DOMAIN mem /\ q \in Ways /\ R[q] \notin Levels(A)[Depth - Len(q)]
    BY <2>1 DEF MemDirs
  <2>3. PICK k : k = Depth - Len(q)
    OBVIOUS
  <2>4. k \in 0 .. Depth /\ q \in Seq(Names) /\ Len(q) \in Nat
    BY <2>2, <2>3, WaysAre, DepthAssumption
  <2>5. PICK dir : dir = mem[q] /\ dir \in Levels(A)[k]
    BY <2>2, <2>3
  <2>6. PICK r : r = R[q] /\ r = FinalDir(mem, R, q)
    BY <2>2, FinalIs
  <2>7. /\ DOMAIN r = Below(mem, q) /\ IsFun(r)
        /\ \A m \in Below(mem, q) :
              r[m] = IF Append(q, m) \in DOMAIN mem THEN R[Append(q, m)] ELSE dir[m]
    BY <2>5, <2>6 DEF FinalDir, IsFun
  <2>8. DOMAIN r \subseteq Names
    BY <2>2, <2>7 DEF Below, MemDirs
  <2>9. ASSUME NEW n \in DOMAIN r PROVE k - 1 \in 0 .. Depth /\ r[n] \in A \cup Levels(A)[k-1]
    <3>1. PICK p : p = Append(q, n)
      OBVIOUS
    <3>2. CASE p \in DOMAIN mem
      <4>1. p \in Ways /\ Len(p) = Len(q) + 1
        BY <2>4, <2>8, <3>1, <3>2, PathOf DEF MemDirs
      <4>2. Len(p) \in 0 .. Depth /\ Depth - Len(p) = k - 1 /\ k - 1 \in 0 .. Depth
        <5>1. PICK i, j : i = Len(p) /\ j = Len(q)
          OBVIOUS
        <5>2. i = j + 1 /\ i \in 0 .. Depth /\ j \in Nat /\ k = Depth - j
          BY <2>3, <2>4, <4>1, <5>1, WaysAre
        <5>3. QED
          BY <5>1, <5>2, DepthAssumption
      <4>3. p \notin bad
        BY <2>1, <2>4, <4>1, <4>2
      <4>4. R[p] \in Levels(A)[k-1]
        BY <3>2, <4>2, <4>3
      <4>5. QED
        BY <2>7, <3>1, <3>2, <4>2, <4>4
    <3>3. CASE p \notin DOMAIN mem
      <4>1. n \in DOMAIN dir /\ r[n] = dir[n]
        BY <2>5, <2>7, <3>1, <3>3 DEF Below
      <4>2. QED
        BY <2>4, <2>5, <4>1, LevelIs
    <3>4. QED
      BY <3>2, <3>3
  <2>10. r \in Levels(A)[k]
    <3>1. CASE k = 0
      <4>1. DOMAIN r = {}
        <5>1. k - 1 \notin 0 .. Depth
          BY <3>1
        <5>2. QED
          BY <2>9, <5>1
      <4>2. r = EmptyTree
        BY <2>7, <4>1 DEF IsFun, EmptyTree
      <4>3. QED
        BY <2>4, <4>2, EmptyIsLevel
    <3>2. CASE k # 0
      <4>1. k \in 1 .. Depth
        BY <2>4, <3>2, DepthAssumption
      <4>2. r = [n \in DOMAIN r |-> r[n]]
        BY <2>7 DEF IsFun
      <4>3. QED
        BY <2>8, <2>9, <4>1, <4>2, LevelHas
    <3>3. QED
      BY <3>1, <3>2
  <2>11. QED
    BY <2>2, <2>3, <2>6, <2>10
<1>2. QED
  BY <1>1

LEMMA FinalWalk ==
    ASSUME NEW A, TreeNotes(A), NEW mem, MemDirs(mem), <<>> \in DOMAIN mem,
           \A d \in DOMAIN mem : d # <<>> => Front(d) \in DOMAIN mem,
           \A d \in DOMAIN mem : mem[d] \in Levels(A)[Depth - Len(d)],
           NEW R, R = FinalizeMem(mem), NEW r, r = R[<<>>], NEW x \in DOMAIN mem
    PROVE  WalkDir(r, x) = R[x]
<1> DEFINE bad == {i \in Nat : \E q \in DOMAIN mem : Len(q) = i /\ WalkDir(r, q) # R[q]}
<1>1. ASSUME bad # {} PROVE FALSE
  <2>1. PICK i \in bad : \A j \in bad : i <= j
    <3>1. bad \in SUBSET Nat
      OBVIOUS
    <3>2. QED
      BY <1>1, <3>1, LeastNumber
  <2>2. PICK q \in DOMAIN mem : Len(q) = i /\ WalkDir(r, q) # R[q]
    BY <2>1
  <2>3. q # <<>>
    BY <2>2, WalkRoot
  <2>4. PICK f : f = Front(q) /\ f \in DOMAIN mem
    BY <2>2, <2>3
  <2>5. /\ q \in Ways /\ q \in Seq(Names) /\ f \in Ways /\ Len(f) \in Nat /\ Len(f) < Len(q)
        /\ Last(q) \in Names
    <3>1. q \in Ways /\ f \in Ways
      BY <2>2, <2>4 DEF MemDirs
    <3>2. Len(f) \in Nat /\ Len(q) \in Nat /\ q \in Seq(Names)
      BY <3>1, WaysAre
    <3>3. Len(q) > Len(f)
      BY <2>3, <2>4, <3>1, ChildLonger
    <3>4. QED
      BY <2>3, <3>1, <3>2, <3>3, PathParts
  <2>6. WalkDir(r, f) = R[f]
    <3>1. Len(f) \notin bad
      BY <2>1, <2>2, <2>5
    <3>2. QED
      BY <2>4, <2>5, <3>1
  <2>7. EntryOf(R[f], Last(q)) = R[q]
    BY <2>2, <2>3, <2>4, <2>5, FinalRow
  <2>8. IsDir(R[q]) /\ R[q] # Refused /\ R[f] # Refused
    <3>1. PICK k, l : k = Depth - Len(q) /\ l = Depth - Len(f)
      OBVIOUS
    <3>2. k \in 0 .. Depth /\ l \in 0 .. Depth
      BY <2>5, <3>1, WaysAre, DepthAssumption
    <3>3. R[q] \in Levels(A)[k] /\ R[f] \in Levels(A)[l]
      BY <2>2, <2>4, <3>1, FinalType
    <3>4. R[q] # Refused /\ R[f] # Refused
      BY <3>2, <3>3 DEF TreeNotes
    <3>5. IsDir(R[q])
      BY <3>2, <3>3, LevelIs
    <3>6. QED
      BY <3>4, <3>5
  <2>9. HasDir(R[f], Last(q)) /\ R[f][Last(q)] = R[q]
    BY <2>7, <2>8 DEF EntryOf, HasDir
  <2>10. WalkDir(r, q) = Entered(R[f], Last(q))
    BY <2>3, <2>4, <2>5, <2>6, WalkNext
  <2>11. QED
    BY <2>2, <2>8, <2>9, <2>10 DEF Entered
<1>2. Len(x) \in Nat /\ Len(x) \notin bad
  BY <1>1, WaysAre DEF MemDirs
<1>3. QED
  BY <1>2

(* An item goes through q.                                                    *)
Through(items, q) == \E i \in 1 .. Len(items) : Above(q, items[i][1])

(* What an import that is not refused leaves at a path.                       *)
LEMMA ImportIs ==
    ASSUME NEW A, TreeNotes(A), NEW t \in TreesOf(A), NEW items, Items(A, items),
           NEW r, r = BulkImport(t, items), r # Refused
    PROVE  /\ r \in TreesOf(A)
           /\ \A q \in Ways : q # <<>> /\ Through(items, q) =>
                 IsTree(EntryAt(r, q)) /\ (EntryAt(t, q) = Refused \/ IsTree(EntryAt(t, q)))
           /\ \A j \in 1 .. Len(items) : LastFor(items, Len(items), j) /\ ~Through(items, items[j][1]) =>
                 EntryAt(r, items[j][1]) = items[j][2]
           /\ \A j \in 1 .. Len(items) : ~IsTree(EntryAt(t, items[j][1]))
           /\ \A q \in Ways : q # <<>> /\ ~Through(items, q) /\ (\A j \in 1 .. Len(items) : items[j][1] # q) =>
                 EntryAt(r, q) = EntryAt(t, q)
<1>1. PICK L : L = Len(items) /\ L \in Nat
  BY DEF Items
<1>2. PICK W : W = MemImport(t, items)
  OBVIOUS
<1>3. \A i \in 0 .. L : W[i] = IF i = 0 THEN MemRoot(t) ELSE MemStep(t, W[i-1], items[i])
  BY <1>1, <1>2, ImportStepIs
<1>4. PICK mem : mem = W[L]
  OBVIOUS
<1>5. mem # Refused /\ r = FinalizeMem(mem)[<<>>]
  BY <1>1, <1>2, <1>4 DEF BulkImport
<1>6. MemOK(A, t, items, L, mem)
  <2> DEFINE bad == {i \in 0 .. L : W[i] # Refused /\ ~MemOK(A, t, items, i, W[i])}
  <2>1. ASSUME bad # {} PROVE FALSE
    <3>1. PICK i \in bad : \A j \in bad : i <= j
      <4>1. bad \in SUBSET Nat
        BY <1>1
      <4>2. QED
        BY <2>1, <4>1, LeastNumber
    <3>2. i \in 0 .. L /\ W[i] # Refused /\ ~MemOK(A, t, items, i, W[i])
      BY <3>1
    <3>3. i # 0
      BY <1>3, <3>2, MemRootOK
    <3>4. PICK k : k = i - 1
      OBVIOUS
    <3>5. k \in Nat /\ k \in 0 .. L /\ i = k + 1 /\ k + 1 \in 1 .. Len(items) /\ ~(i <= k)
      BY <1>1, <3>2, <3>3, <3>4
    <3>6. W[i] = MemStep(t, W[k], items[k+1])
      BY <1>3, <3>2, <3>3, <3>4, <3>5
    <3>7. W[k] # Refused
      BY <3>2, <3>6 DEF MemStep
    <3>8. k \notin bad
      BY <3>1, <3>5
    <3>9. MemOK(A, t, items, k, W[k])
      BY <3>5, <3>7, <3>8
    <3>10. PICK new : new = W[i]
      OBVIOUS
    <3>11. MemOK(A, t, items, k + 1, new)
      BY <3>2, <3>5, <3>6, <3>9, <3>10, MemStepOK
    <3>12. QED
      BY <3>2, <3>5, <3>10, <3>11
  <2>2. L \in 0 .. L /\ L \notin bad
    BY <1>1, <2>1
  <2>3. QED
    BY <1>4, <1>5, <2>2
<1>7. PICK D : D = DOMAIN mem
  OBVIOUS
<1>8. /\ D \subseteq Ways
      /\ \A d \in Ways : d \in D <=> d = <<>> \/ \E i \in 1 .. L : Starts(d, Front(items[i][1]))
      /\ \A d \in D : mem[d] \in Levels(A)[Depth - Len(d)]
      /\ \A q \in Ways : q # <<>> /\ Front(q) \in D =>
            /\ \A j \in 1 .. L : items[j][1] = q /\ LastFor(items, L, j) =>
                  EntryOf(mem[Front(q)], Last(q)) = items[j][2]
            /\ (\A j \in 1 .. L : items[j][1] # q) => EntryOf(mem[Front(q)], Last(q)) = EntryAt(t, q)
      /\ \A q \in D : q # <<>> => EntryAt(t, q) = Refused \/ IsTree(EntryAt(t, q))
      /\ \A j \in 1 .. L : ~IsTree(EntryAt(t, items[j][1]))
  BY <1>6, <1>7 DEF MemOK
<1>9. \A j \in 1 .. L : items[j][1] \in Ways /\ items[j][1] # <<>> /\ items[j][2] \in A
  BY <1>1 DEF Items
<1>10. \A q \in Ways : q # <<>> => (q \in D <=> Through(items, q))
  <2>1. ASSUME NEW q \in Ways, NEW i \in 1 .. L
        PROVE  Starts(q, Front(items[i][1])) <=> Above(q, items[i][1])
    <3>1. PICK p : p = items[i][1] /\ p \in Ways /\ p # <<>>
      BY <1>9
    <3>2. QED
      BY <3>1, AboveFront
  <2>2. QED
    BY <1>1, <1>8, <2>1 DEF Through
<1>11. MemDirs(mem) /\ <<>> \in D
  <2>1. ASSUME NEW d \in D PROVE DOMAIN mem[d] \subseteq Names
    <3>1. PICK k : k = Depth - Len(d)
      OBVIOUS
    <3>2. k \in 0 .. Depth /\ mem[d] \in Levels(A)[k]
      BY <1>8, <3>1, WaysAre, DepthAssumption
    <3>3. QED
      BY <3>2, LevelIs
  <2>2. QED
    BY <1>7, <1>8, <2>1, RootWay DEF MemDirs
<1>12. ASSUME NEW d \in Ways, d # <<>>, d \in D \/ \E i \in 1 .. L : items[i][1] = d
       PROVE  Front(d) \in D
  <2>1. Front(d) \in Ways
    BY <1>12, AboveFront
  <2>2. CASE d \in D
    <3>1. PICK i \in 1 .. L : Starts(d, Front(items[i][1]))
      BY <1>8, <1>12, <2>2
    <3>2. PICK f : f = Front(items[i][1]) /\ f \in Ways
      BY <1>9, AboveFront
    <3>3. Starts(d, f)
      BY <3>1, <3>2
    <3>4. d = Pre(f, Len(d)) /\ Len(d) \in 0 .. Len(f) /\ f \in Seq(Names) /\ Len(f) \in Nat
      BY <1>12, <3>2, <3>3, AboveIs, WaysAre
    <3>5. PICK l, j : l = Len(d) /\ j = Len(Front(d))
      OBVIOUS
    <3>6. Front(d) = Pre(d, l - 1) /\ j = l - 1 /\ l \in Nat \ {0}
      BY <1>12, <3>5, WaysAre, PathParts
    <3>7. j \in 0 .. l /\ l \in 0 .. Len(f) /\ j <= Len(f)
      BY <3>4, <3>5, <3>6
    <3>8. Pre(Pre(f, l), j) = Pre(f, j)
      BY <3>4, <3>7, PreOfPre
    <3>9. Front(d) = Pre(f, j)
      BY <3>4, <3>5, <3>6, <3>8
    <3>10. Starts(Front(d), f)
      BY <3>5, <3>7, <3>9 DEF Starts
    <3>11. QED
      BY <1>8, <2>1, <3>2, <3>10
  <2>3. CASE \E i \in 1 .. L : items[i][1] = d
    <3>1. Starts(Front(d), Front(d))
      BY <2>1, AboveIs
    <3>2. QED
      BY <1>8, <2>1, <2>3, <3>1
  <2>4. QED
    BY <1>12, <2>2, <2>3
<1>13. PICK R : R = FinalizeMem(mem)
  OBVIOUS
<1>14. r = R[<<>>]
  BY <1>5, <1>13
<1>15. \A d \in D : /\ WalkDir(r, d) = R[d] /\ R[d] \in Levels(A)[Depth - Len(d)]
                    /\ R[d] # Refused /\ IsDir(R[d])
  <2>1. ASSUME NEW d \in D PROVE WalkDir(r, d) = R[d]
    BY <1>7, <1>8, <1>11, <1>12, <1>13, <1>14, <2>1, FinalWalk
  <2>2. ASSUME NEW d \in D PROVE R[d] \in Levels(A)[Depth - Len(d)]
    BY <1>7, <1>8, <1>11, <1>13, <2>2, FinalType
  <2>3. ASSUME NEW d \in D PROVE R[d] # Refused /\ IsDir(R[d])
    <3>1. PICK k : k = Depth - Len(d)
      OBVIOUS
    <3>2. k \in 0 .. Depth /\ R[d] \in Levels(A)[k]
      BY <1>8, <2>2, <3>1, WaysAre, DepthAssumption
    <3>3. QED
      BY <3>2, LevelIs DEF TreeNotes
  <2>4. QED
    BY <2>1, <2>2, <2>3
<1>16. r \in TreesOf(A)
  <2>1. PICK e : e = <<>> /\ e \in D /\ Len(e) = 0
    BY <1>11, EmptySeq
  <2>2. r \in Levels(A)[Depth - Len(e)]
    BY <1>14, <1>15, <2>1
  <2>3. Depth - Len(e) = Depth
    BY <2>1, DepthAssumption
  <2>4. QED
    BY <2>2, <2>3 DEF TreesOf
<1>17. ASSUME NEW q \in Ways, q # <<>>, Front(q) \in D
       PROVE  EntryAt(r, q) = IF q \in D THEN R[q] ELSE EntryOf(mem[Front(q)], Last(q))
  <2>1. Opened(r, Front(q)) = R[Front(q)]
    BY <1>15, <1>17 DEF Opened
  <2>2. QED
    BY <1>7, <1>11, <1>13, <1>17, <2>1, FinalRow DEF EntryAt
<1>18. ASSUME NEW q \in Ways, q # <<>>, Through(items, q)
       PROVE  IsTree(EntryAt(r, q)) /\ (EntryAt(t, q) = Refused \/ IsTree(EntryAt(t, q)))
  <2>1. q \in D /\ Front(q) \in D
    BY <1>10, <1>12, <1>18
  <2>2. QED
    BY <1>8, <1>15, <1>17, <1>18, <2>1 DEF IsTree
<1>19. ASSUME NEW j \in 1 .. L, LastFor(items, L, j), ~Through(items, items[j][1])
       PROVE  EntryAt(r, items[j][1]) = items[j][2]
  <2>1. PICK q : q = items[j][1] /\ q \in Ways /\ q # <<>>
    BY <1>9
  <2>2. q \notin D /\ Front(q) \in D
    BY <1>10, <1>12, <1>19, <2>1
  <2>3. QED
    BY <1>8, <1>17, <1>19, <2>1, <2>2
<1>20. ASSUME NEW q \in Ways, q # <<>>, q \notin D, \A j \in 1 .. L : items[j][1] # q
       PROVE  EntryAt(r, q) = EntryAt(t, q)
  <2>1. CASE Front(q) \in D
    BY <1>8, <1>17, <1>20, <2>1
  <2>2. CASE Front(q) \notin D
    <3>1. PICK x \in Ways : x # <<>> /\ x \notin D /\ Front(x) \in D /\ Starts(x, q) /\ x # q
      <4> DEFINE T == {i \in Nat : \E z \in Ways : Len(z) = i /\ Starts(z, q) /\ z \notin D /\ z # q}
      <4>1. Front(q) \in Ways /\ Starts(Front(q), q) /\ Front(q) # q /\ Len(Front(q)) \in Nat
        <5>1. Front(q) \in Ways /\ Len(q) > Len(Front(q))
          BY <1>20, ChildLonger
        <5>2. Starts(Front(q), Front(q))
          BY <5>1, AboveIs
        <5>3. Above(Front(q), q)
          BY <1>20, <5>1, <5>2, AboveFront
        <5>4. QED
          BY <5>1, <5>3, AboveIs, WaysAre
      <4>2. Len(Front(q)) \in T
        BY <2>2, <4>1
      <4>3. PICK i \in T : \A j \in T : i <= j
        <5>1. T \in SUBSET Nat /\ T # {}
          BY <4>2
        <5>2. QED
          BY <5>1, LeastNumber
      <4>4. PICK z \in Ways : Len(z) = i /\ Starts(z, q) /\ z \notin D /\ z # q
        BY <4>3
      <4>5. z # <<>>
        BY <1>11, <4>4
      <4>6. PICK f : f = Front(z) /\ f \in Ways /\ Len(f) \in Nat /\ Len(z) > Len(f) /\ Len(z) \in Nat
        BY <4>5, ChildLonger, WaysAre
      <4>7. ASSUME f \notin D PROVE FALSE
        <5>1. Starts(f, q) /\ f # q
          <6>1. z = Pre(q, Len(z)) /\ Len(z) \in 0 .. Len(q) /\ q \in Seq(Names) /\ Len(q) \in Nat
            BY <4>4, AboveIs, WaysAre
          <6>2. PICK l, j : l = Len(z) /\ j = Len(f)
            OBVIOUS
          <6>3. f = Pre(z, l - 1) /\ j = l - 1 /\ l \in Nat \ {0}
            BY <4>5, <4>6, <6>2, WaysAre, PathParts
          <6>4. j \in 0 .. l /\ l \in 0 .. Len(q) /\ j <= Len(q) /\ j # Len(q)
            BY <6>1, <6>2, <6>3
          <6>5. Pre(Pre(q, l), j) = Pre(q, j)
            BY <6>1, <6>4, PreOfPre
          <6>6. f = Pre(q, j)
            BY <6>1, <6>2, <6>3, <6>5
          <6>7. QED
            BY <6>2, <6>4, <6>6 DEF Starts
        <5>2. Len(f) \in T
          BY <4>6, <4>7, <5>1
        <5>3. i <= Len(f)
          BY <4>3, <5>2
        <5>4. QED
          BY <4>4, <4>6, <5>3
      <4>8. QED
        BY <4>4, <4>5, <4>6, <4>7
    <3>2. CASE \E j \in 1 .. L : items[j][1] = x
      <4>1. PICK j \in 1 .. L : items[j][1] = x /\ LastFor(items, L, j)
        BY <1>1, <3>2, LastForExists
      <4>2. EntryAt(r, x) = items[j][2]
        BY <1>8, <1>17, <3>1, <4>1
      <4>3. ~IsTree(EntryAt(r, x)) /\ ~IsTree(EntryAt(t, x))
        BY <1>8, <1>9, <4>1, <4>2 DEF IsTree, TreeNotes
      <4>4. Above(x, q)
        BY <3>1, AboveIs
      <4>5. EntryAt(r, q) = Refused /\ EntryAt(t, q) = Refused
        BY <1>16, <3>1, <4>3, <4>4, NothingBelow
      <4>6. QED
        BY <4>5
    <3>3. CASE \A j \in 1 .. L : items[j][1] # x
      <4>1. EntryAt(r, x) = EntryAt(t, x)
        BY <1>8, <1>17, <3>1, <3>3
      <4>2. QED
        BY <1>16, <3>1, <4>1, EntryUnder
    <3>4. QED
      BY <3>2, <3>3
  <2>3. QED
    BY <2>1, <2>2
<1>21. \A q \in Ways : q # <<>> /\ ~Through(items, q) => q \notin D
  BY <1>10
<1>22. QED
  BY <1>1, <1>8, <1>16, <1>18, <1>19, <1>20, <1>21

-----------------------------------------------------------------------------
(* Mkdir makes the directories that are missing.                              *)
LEMMA MkdirIs ==
    ASSUME NEW A, TreeNotes(A), NEW t \in TreesOf(A), NEW p \in Ways, ~DirExists(t, p),
           NEW r, r = Mkdir(t, p), r # Refused
    PROVE  /\ r \in TreesOf(A)
           /\ \A q \in Ways \ {<<>>} : Starts(q, p) =>
                 IsTree(EntryAt(r, q)) /\ (EntryAt(t, q) = Refused \/ IsTree(EntryAt(t, q)))
           /\ \A q \in Ways \ {<<>>} : ~Starts(q, p) => EntryAt(r, q) = EntryAt(t, q)
<1>1. PICK new : new = Opened(t, p)
  OBVIOUS
<1>2. r = MutateAt(t, p, Touch)
  BY DEF Mkdir
<1>3. Mutated(new, Touch) = new
  BY DEF Mutated, Touch
<1>4. ~NoteOnWay(t, p) /\ r = Rebuilt(t, p, new)[0]
  BY <1>1, <1>2, <1>3 DEF MutateAt
<1>5. new \in Levels(A)[Depth - Len(p)]
  BY <1>1, OpenedType
<1>6. /\ r \in TreesOf(A)
      /\ \A i \in 0 .. Len(p) : i # 0 => IsTree(EntryAt(r, Pre(p, i)))
  BY <1>4, <1>5, RebuiltOnWay
<1>7. ASSUME NEW q \in Ways \ {<<>>}, Starts(q, p)
      PROVE  IsTree(EntryAt(r, q)) /\ (EntryAt(t, q) = Refused \/ IsTree(EntryAt(t, q)))
  <2>1. q = Pre(p, Len(q)) /\ Len(q) \in 0 .. Len(p)
    BY <1>7, AboveIs
  <2>2. Len(q) # 0
    BY WaysAre, EmptySeq
  <2>3. QED
    BY <1>4, <1>6, <1>7, <2>1, <2>2, OnWay
<1>8. ASSUME NEW q \in Ways \ {<<>>}, ~Starts(q, p) PROVE EntryAt(r, q) = EntryAt(t, q)
  BY <1>1, <1>4, <1>5, <1>8, RebuiltBeside
<1>9. QED
  BY <1>6, <1>7, <1>8
=============================================================================
