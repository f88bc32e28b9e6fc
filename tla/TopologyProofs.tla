--------------------------- MODULE TopologyProofs ---------------------------
(***************************************************************************)
(* Theorems about TopologyBuilder and SystemTopology, for any number of    *)
(* nodes, any parent links, cycles included, and any host: the walk of     *)
(* finalize records the topmost ancestors, and a host's devices share a    *)
(* switch when they share a bus.                                           *)
(***************************************************************************)
EXTENDS SystemTopology, OrderLemmas

-----------------------------------------------------------------------------
(* Lineages                                                                *)

Parents(N, S) == {N[m].parent : m \in S \cap DOMAIN N}

\* f climbs c parent links from n.
Climbs(N, n, c, f) ==
    f = [k \in 0 .. c |->
            IF k = 0 THEN {n} ELSE f[k - 1] \cup Parents(N, f[k - 1])]

\* The recursive definition of the ancestors within c links has a solution.
LEMMA ClimbExists ==
    ASSUME NEW N, NEW n, NEW c \in Nat
    PROVE  \E f : Climbs(N, n, c, f)
<1> DEFINE Bad == {k \in Nat : ~\E f : Climbs(N, n, k, f)}
<1>1. SUFFICES ASSUME Bad # {} PROVE FALSE
  OBVIOUS
<1>2. Bad \subseteq Nat
  OBVIOUS
<1>3. PICK k \in Bad : \A j \in Bad : k <= j
  <2> HIDE DEF Bad
  <2> QED
    BY <1>1, <1>2, LeastNatural
<1>4. k # 0
  <2>1. \E f : f = [j \in 0 .. 0 |-> {n}]
    OBVIOUS
  <2>2. PICK f : f = [j \in 0 .. 0 |-> {n}]
    BY <2>1
  <2>3. Climbs(N, n, 0, f)
    BY <2>2 DEF Climbs
  <2> QED
    BY <2>3
<1>5. k - 1 \in Nat /\ k - 1 \notin Bad
  BY <1>3, <1>4
<1>6. PICK f : Climbs(N, n, k - 1, f)
  BY <1>5
<1>7. PICK g : g = [j \in 0 .. k |->
                      IF j = k THEN f[k - 1] \cup Parents(N, f[k - 1]) ELSE f[j]]
  OBVIOUS
<1>8. \A j \in 0 .. k - 1 :
         f[j] = IF j = 0 THEN {n} ELSE f[j - 1] \cup Parents(N, f[j - 1])
  BY <1>6 DEF Climbs
<1>9. \A j \in 0 .. k :
         g[j] = IF j = 0 THEN {n} ELSE g[j - 1] \cup Parents(N, g[j - 1])
  <2> TAKE j \in 0 .. k
  <2>1. CASE j = k
    <3>1. g[j] = f[k - 1] \cup Parents(N, f[k - 1])
      BY <1>7, <2>1
    <3>2. g[j - 1] = f[k - 1]
      BY <1>4, <1>7, <2>1
    <3> QED
      BY <1>4, <2>1, <3>1, <3>2
  <2>2. CASE j # k
    <3>1. j \in 0 .. k - 1 /\ g[j] = f[j]
      BY <1>7, <2>2
    <3>2. j # 0 => g[j - 1] = f[j - 1]
      BY <1>7, <2>2
    <3> QED
      BY <1>8, <3>1, <3>2
  <2> QED
    BY <2>1, <2>2
<1>10. Climbs(N, n, k, g)
  BY <1>7, <1>9 DEF Climbs
<1> QED
  BY <1>10

\* Lineage is what such a solution holds after as many links as there are nodes.
LEMMA LineageClimbs ==
    ASSUME NEW N, NEW n, Cardinality(DOMAIN N) \in Nat
    PROVE  \E f : /\ Climbs(N, n, Cardinality(DOMAIN N), f)
                  /\ Lineage(N, n) = f[Cardinality(DOMAIN N)] \cap DOMAIN N
<1> DEFINE up == CHOOSE f : Climbs(N, n, Cardinality(DOMAIN N), f)
<1>1. Climbs(N, n, Cardinality(DOMAIN N), up)
  BY ClimbExists
<1>2. Lineage(N, n) = up[Cardinality(DOMAIN N)] \cap DOMAIN N
  BY Zenon DEF Lineage, Climbs, Parents
<1> QED
  BY <1>1, <1>2

Links(N, c, f) ==
    \A j, k \in 0 .. c : k = j + 1 => f[k] = f[j] \cup Parents(N, f[j])

\* What each link adds.
LEMMA ClimbStep ==
    ASSUME NEW N, NEW n, NEW c \in Nat, NEW f, Climbs(N, n, c, f)
    PROVE  f[0] = {n} /\ Links(N, c, f)
<1>1. \A k \in 0 .. c :
         f[k] = IF k = 0 THEN {n} ELSE f[k - 1] \cup Parents(N, f[k - 1])
  BY DEF Climbs
<1>2. f[0] = {n}
  <2>1. 0 \in 0 .. c
    OBVIOUS
  <2> QED
    BY <1>1, <2>1
<1>3. ASSUME NEW j \in 0 .. c, NEW k \in 0 .. c, k = j + 1
      PROVE  f[k] = f[j] \cup Parents(N, f[j])
  <2>1. k # 0 /\ k - 1 = j
    BY <1>3
  <2>2. f[k] = f[k - 1] \cup Parents(N, f[k - 1])
    BY <1>1, <2>1
  <2> QED
    BY <2>1, <2>2
<1> QED
  BY <1>2, <1>3 DEF Links

\* A set that holds n and the parent of each of its members holds the lineage.
LEMMA LineageLeast ==
    ASSUME NEW N, NEW n, NEW S, IsFiniteSet(DOMAIN N),
           n \in DOMAIN N => n \in S,
           \A x \in S \cap DOMAIN N :
              N[x].parent \in DOMAIN N => N[x].parent \in S
    PROVE  Lineage(N, n) \subseteq S
<1>1. PICK c \in Nat : c = Cardinality(DOMAIN N)
  BY FS_CardinalityType
<1>2. PICK f : Climbs(N, n, c, f) /\ Lineage(N, n) = f[c] \cap DOMAIN N
  BY <1>1, LineageClimbs
<1> DEFINE Bad == {k \in 0 .. c : ~(f[k] \cap DOMAIN N \subseteq S)}
<1>3. SUFFICES ASSUME Bad # {} PROVE FALSE
  BY <1>2
<1>4. Bad \subseteq Nat
  OBVIOUS
<1>5. PICK k \in Bad : \A j \in Bad : k <= j
  <2> HIDE DEF Bad
  <2> QED
    BY <1>3, <1>4, LeastNatural
<1>6. f[0] = {n}
  <2> HIDE DEF Bad
  <2> QED
    BY <1>2, ClimbStep
<1>7. PICK j \in 0 .. c : k = j + 1 /\ j \notin Bad /\ k \in 0 .. c
  BY <1>5, <1>6
<1>8. f[k] = f[j] \cup Parents(N, f[j])
  <2> HIDE DEF Bad
  <2>1. Links(N, c, f)
    BY <1>2, ClimbStep
  <2> QED
    BY <1>7, <2>1 DEF Links
<1>9. f[j] \cap DOMAIN N \subseteq S
  BY <1>7
<1>10. f[k] \cap DOMAIN N \subseteq S
  BY <1>8, <1>9 DEF Parents
<1> QED
  BY <1>5, <1>10

\* Each link keeps what was reached before.
LEMMA ClimbKeeps ==
    ASSUME NEW N, NEW n, NEW c \in Nat, NEW f, Climbs(N, n, c, f)
    PROVE  \A k \in 0 .. c : n \in f[k]
<1> DEFINE Bad == {k \in 0 .. c : n \notin f[k]}
<1>1. SUFFICES ASSUME Bad # {} PROVE FALSE
  OBVIOUS
<1>2. Bad \subseteq Nat
  OBVIOUS
<1>3. PICK k \in Bad : \A j \in Bad : k <= j
  <2> HIDE DEF Bad
  <2> QED
    BY <1>1, <1>2, LeastNatural
<1>4. f[0] = {n}
  BY ClimbStep
<1>5. PICK j \in 0 .. c : k = j + 1 /\ j \notin Bad /\ k \in 0 .. c
  BY <1>3, <1>4
<1>6. f[k] = f[j] \cup Parents(N, f[j])
  <2> HIDE DEF Bad
  <2>1. Links(N, c, f)
    BY ClimbStep
  <2> QED
    BY <1>5, <2>1 DEF Links
<1> QED
  BY <1>3, <1>5, <1>6

\* Among as many links as there are nodes one reaches nothing new: each one
\* before it adds a node.
LEMMA ClimbSettles ==
    ASSUME NEW N, NEW n \in DOMAIN N, IsFiniteSet(DOMAIN N),
           NEW c \in Nat, c = Cardinality(DOMAIN N),
           NEW f, Climbs(N, n, c, f)
    PROVE  \E k \in 0 .. c : Parents(N, f[k]) \cap DOMAIN N \subseteq f[k]
<1> DEFINE U(k) == f[k] \cap DOMAIN N
           Bad == {k \in 0 .. c : ~(Cardinality(U(k)) >= k + 1)}
<1>1. SUFFICES ASSUME \A k \in 0 .. c :
                         ~(Parents(N, f[k]) \cap DOMAIN N \subseteq f[k])
               PROVE  FALSE
  OBVIOUS
<1>2. \A k \in 0 .. c : /\ IsFiniteSet(U(k)) /\ Cardinality(U(k)) \in Nat
                        /\ Cardinality(U(k)) <= c
  <2> TAKE k \in 0 .. c
  <2>1. U(k) \in SUBSET DOMAIN N
    OBVIOUS
  <2> HIDE DEF U
  <2> QED
    BY <2>1, FS_Subset, FS_CardinalityType
<1>3. c \in Bad
  <2>1. Cardinality(U(c)) \in Nat /\ Cardinality(U(c)) <= c
    BY <1>2
  <2> HIDE DEF U
  <2> QED
    BY <2>1
<1>4. Bad \subseteq Nat
  OBVIOUS
<1>5. PICK k \in Bad : \A j \in Bad : k <= j
  <2> HIDE DEF Bad
  <2> QED
    BY <1>3, <1>4, LeastNatural
<1>6. k # 0
  <2>1. f[0] = {n}
    <3> HIDE DEF U, Bad
    <3> QED
      BY ClimbStep
  <2>2. U(0) = {n}
    BY <2>1
  <2>3. Cardinality(U(0)) = 1
    <3> HIDE DEF U
    <3> QED
      BY <2>2, FS_Singleton
  <2> HIDE DEF U
  <2> QED
    BY <2>3
<1>7. PICK j \in 0 .. c : k = j + 1 /\ j \notin Bad /\ k \in 0 .. c
  BY <1>5, <1>6
<1>8. U(j) \subseteq U(k) /\ U(j) # U(k)
  <2>1. f[k] = f[j] \cup Parents(N, f[j])
    <3> HIDE DEF U, Bad
    <3>1. Links(N, c, f)
      BY ClimbStep
    <3> QED
      BY <1>7, <3>1 DEF Links
  <2>2. ~(Parents(N, f[j]) \cap DOMAIN N \subseteq f[j])
    BY <1>1
  <2> QED
    BY <2>1, <2>2
<1>9. Cardinality(U(j)) >= j + 1
  BY <1>7
<1>10. k \in 0 .. c
  BY <1>5
<1>11. Cardinality(U(j)) < Cardinality(U(k))
  <2>1. /\ IsFiniteSet(U(k)) /\ Cardinality(U(k)) \in Nat
        /\ Cardinality(U(j)) \in Nat
    BY <1>2, <1>10
  <2> HIDE DEF U
  <2>2. /\ Cardinality(U(j)) <= Cardinality(U(k))
        /\ Cardinality(U(j)) # Cardinality(U(k))
    BY <1>8, <2>1, FS_Subset
  <2> QED
    BY <2>1, <2>2
<1>12. Cardinality(U(k)) >= k + 1
  <2>1. Cardinality(U(k)) \in Nat /\ Cardinality(U(j)) \in Nat
    BY <1>2, <1>10
  <2> HIDE DEF U, Bad
  <2> QED
    BY <1>7, <1>9, <1>11, <2>1
<1> QED
  BY <1>5, <1>12

\* From there on nothing new is reached.
LEMMA ClimbStaysSettled ==
    ASSUME NEW N, NEW n, NEW c \in Nat, NEW f, Climbs(N, n, c, f),
           NEW k \in 0 .. c, Parents(N, f[k]) \cap DOMAIN N \subseteq f[k]
    PROVE  Parents(N, f[c]) \cap DOMAIN N \subseteq f[c]
<1> DEFINE Bad == {j \in k .. c : f[j] \cap DOMAIN N # f[k] \cap DOMAIN N}
<1>1. Bad = {}
  <2> SUFFICES ASSUME Bad # {} PROVE FALSE
    OBVIOUS
  <2>1. Bad \subseteq Nat
    OBVIOUS
  <2>2. PICK j \in Bad : \A i \in Bad : j <= i
    <3> HIDE DEF Bad
    <3> QED
      BY <2>1, LeastNatural
  <2>3. j # k
    BY <2>2
  <2>4. PICK i \in k .. c :
           j = i + 1 /\ i \notin Bad /\ i \in 0 .. c /\ j \in 0 .. c
    BY <2>2, <2>3
  <2>5. f[i] \cap DOMAIN N = f[k] \cap DOMAIN N
    BY <2>4
  <2>6. Parents(N, f[i]) = Parents(N, f[k])
    BY <2>5 DEF Parents
  <2>7. f[j] = f[i] \cup Parents(N, f[i])
    <3> HIDE DEF Bad
    <3>1. Links(N, c, f)
      BY ClimbStep
    <3> QED
      BY <2>4, <3>1 DEF Links
  <2>8. f[j] \cap DOMAIN N = f[k] \cap DOMAIN N
    BY <2>5, <2>6, <2>7
  <2> QED
    BY <2>2, <2>8
<1>2. f[c] \cap DOMAIN N = f[k] \cap DOMAIN N
  BY <1>1
<1>3. Parents(N, f[c]) = Parents(N, f[k])
  BY <1>2 DEF Parents
<1> QED
  BY <1>2, <1>3

\* The lineage of a node: the node itself and the lineage of its parent.  An
\* unknown id has none.
LEMMA LineageUnfolds ==
    ASSUME NEW N, NEW n, IsFiniteSet(DOMAIN N)
    PROVE  /\ Lineage(N, n) \subseteq DOMAIN N
           /\ n \notin DOMAIN N => Lineage(N, n) = {}
           /\ n \in DOMAIN N => n \in Lineage(N, n)
           /\ \A x \in Lineage(N, n) :
                 N[x].parent \in DOMAIN N => N[x].parent \in Lineage(N, n)
<1>1. PICK c \in Nat : c = Cardinality(DOMAIN N)
  BY FS_CardinalityType
<1>2. PICK f : Climbs(N, n, c, f) /\ Lineage(N, n) = f[c] \cap DOMAIN N
  BY <1>1, LineageClimbs
<1>3. n \notin DOMAIN N => Lineage(N, n) = {}
  <2>1. n \notin DOMAIN N => Lineage(N, n) \subseteq {}
    <3> SUFFICES ASSUME n \notin DOMAIN N PROVE Lineage(N, n) \subseteq {}
      OBVIOUS
    <3> DEFINE S == {}
    <3>1. /\ n \in DOMAIN N => n \in S
          /\ \A x \in S \cap DOMAIN N :
                N[x].parent \in DOMAIN N => N[x].parent \in S
      OBVIOUS
    <3>2. Lineage(N, n) \subseteq S
      <4> HIDE DEF S
      <4> QED
        BY <3>1, LineageLeast
    <3> QED
      BY <3>2
  <2> QED
    BY <2>1
<1>4. n \in DOMAIN N => n \in Lineage(N, n)
  BY <1>2, ClimbKeeps
<1>5. ASSUME NEW x \in Lineage(N, n), N[x].parent \in DOMAIN N
      PROVE  N[x].parent \in Lineage(N, n)
  <2>1. n \in DOMAIN N
    BY <1>3
  <2>2. PICK k \in 0 .. c : Parents(N, f[k]) \cap DOMAIN N \subseteq f[k]
    BY <1>1, <1>2, <2>1, ClimbSettles
  <2>3. Parents(N, f[c]) \cap DOMAIN N \subseteq f[c]
    BY <1>2, <2>2, ClimbStaysSettled
  <2>4. N[x].parent \in Parents(N, f[c])
    BY <1>2 DEF Parents
  <2> QED
    BY <1>2, <1>5, <2>3, <2>4
<1> QED
  BY <1>2, <1>3, <1>4, <1>5

\* The lineage of an ancestor is part of one's own.
LEMMA LineageTransitive ==
    ASSUME NEW N, NEW n, NEW m \in Lineage(N, n), IsFiniteSet(DOMAIN N)
    PROVE  Lineage(N, m) \subseteq Lineage(N, n)
<1>1. PICK S : S = Lineage(N, n)
  OBVIOUS
<1>2. m \in S /\ \A x \in S : N[x].parent \in DOMAIN N => N[x].parent \in S
  BY <1>1, LineageUnfolds
<1> QED
  BY <1>1, <1>2, LineageLeast

\* One step up a lineage.
LEMMA LineageStep ==
    ASSUME NEW N, NEW n \in DOMAIN N, IsFiniteSet(DOMAIN N)
    PROVE  Lineage(N, n) = {n} \cup Lineage(N, N[n].parent)
<1>1. PICK p : p = N[n].parent
  OBVIOUS
<1>2. PICK S : S = {n} \cup Lineage(N, p)
  OBVIOUS
<1>3. n \in S /\ p \in DOMAIN N => p \in S
  BY <1>2, LineageUnfolds
<1>4. \A x \in S \cap DOMAIN N : N[x].parent \in DOMAIN N => N[x].parent \in S
  BY <1>1, <1>2, LineageUnfolds
<1>5. Lineage(N, n) \subseteq S
  BY <1>2, <1>4, LineageLeast
<1>6. n \in Lineage(N, n) /\ (p \in DOMAIN N => p \in Lineage(N, n))
  BY <1>1, LineageUnfolds
<1>7. Lineage(N, p) \subseteq Lineage(N, n)
  <2>1. CASE p \in DOMAIN N
    BY <1>6, <2>1, LineageTransitive
  <2>2. CASE p \notin DOMAIN N
    BY <2>2, LineageUnfolds
  <2> QED
    BY <2>1, <2>2
<1> QED
  BY <1>1, <1>2, <1>5, <1>6, <1>7

-----------------------------------------------------------------------------
(* One walk                                                                *)

\* v is the topmost node of a kind in the lineage of n, 0 when it has none.
IsTop(N, n, kind, v) ==
    /\ v = 0 => \A k \in Lineage(N, n) : N[k].kind # kind
    /\ v # 0 =>
          /\ v \in Lineage(N, n) /\ N[v].kind = kind
          /\ \A k \in Lineage(N, v) \ {v} : N[k].kind # kind
          /\ \A k \in Lineage(N, n) : N[k].kind = kind => v \in Lineage(N, k)

\* The walk from n has come to c and has found v: whatever it may have missed is
\* still above it.
SoFar(N, n, c, kind, v) ==
    /\ Lineage(N, c) \subseteq Lineage(N, n)
    /\ v # 0 =>
          /\ v \in Lineage(N, n) /\ N[v].kind = kind
          /\ Lineage(N, c) \subseteq Lineage(N, v)
          /\ \A k \in Lineage(N, v) \ {v} : N[k].kind = kind => k \in Lineage(N, c)
    /\ \A k \in Lineage(N, n) :
          N[k].kind = kind => \/ k \in Lineage(N, c)
                              \/ v # 0 /\ v \in Lineage(N, k)

\* Nothing is found before the first iteration.
LEMMA SoFarStart ==
    ASSUME NEW N, NEW n, NEW kind
    PROVE  SoFar(N, n, n, kind, 0)
  BY DEF SoFar

\* An iteration of the loop.
LEMMA SoFarStep ==
    ASSUME NEW N, NEW n, NEW c \in DOMAIN N, NEW kind, NEW v, NEW p, NEW u,
           IsFiniteSet(DOMAIN N), 0 \notin DOMAIN N,
           SoFar(N, n, c, kind, v), p = N[c].parent,
           u = IF N[c].kind = kind THEN c ELSE v
    PROVE  SoFar(N, n, p, kind, u)
<1>1. Lineage(N, c) = {c} \cup Lineage(N, p)
  BY LineageStep
<1>2. Lineage(N, p) \subseteq Lineage(N, n)
  BY <1>1 DEF SoFar
<1>3. CASE N[c].kind = kind
  <2>1. u = c /\ c # 0
    BY <1>3
  <2>2. c \in Lineage(N, n)
    BY <1>1 DEF SoFar
  <2>3. ASSUME NEW k \in Lineage(N, n), N[k].kind = kind
        PROVE  k \in Lineage(N, p) \/ c \in Lineage(N, k)
    <3>1. CASE k \in Lineage(N, c)
      <4>1. k = c \/ k \in Lineage(N, p)
        BY <1>1, <3>1
      <4> QED
        BY <1>1, <4>1
    <3>2. CASE v # 0 /\ v \in Lineage(N, k)
      <4>1. c \in Lineage(N, v)
        BY <1>1, <3>2 DEF SoFar
      <4>2. Lineage(N, v) \subseteq Lineage(N, k)
        BY <3>2, LineageTransitive
      <4> QED
        BY <4>1, <4>2
    <3> QED
      BY <2>3, <3>1, <3>2 DEF SoFar
  <2> QED
    BY <1>1, <1>2, <1>3, <2>1, <2>2, <2>3 DEF SoFar
<1>4. CASE N[c].kind # kind
  <2>1. u = v
    BY <1>4
  <2>2. \A k \in Lineage(N, c) : N[k].kind = kind => k \in Lineage(N, p)
    BY <1>1, <1>4
  <2> QED
    BY <1>1, <1>2, <2>1, <2>2 DEF SoFar
<1> QED
  BY <1>3, <1>4

\* A null or unknown parent ends the loop, and the topmost one is found.
LEMMA SoFarEnd ==
    ASSUME NEW N, NEW n, NEW c, c \notin DOMAIN N, NEW kind, NEW v,
           IsFiniteSet(DOMAIN N), SoFar(N, n, c, kind, v)
    PROVE  IsTop(N, n, kind, v)
<1>1. Lineage(N, c) = {}
  BY LineageUnfolds
<1> QED
  BY <1>1 DEF SoFar, IsTop

\* It is the one that Topmost defines.
LEMMA IsTopmost ==
    ASSUME NEW N, NEW n, NEW kind, NEW v,
           IsFiniteSet(DOMAIN N), 0 \notin DOMAIN N, IsTop(N, n, kind, v)
    PROVE  Topmost(N, n, kind) = v
<1> DEFINE top == {m \in Lineage(N, n) :
                      /\ N[m].kind = kind
                      /\ \A k \in Lineage(N, m) \ {m} : N[k].kind # kind}
<1>1. Topmost(N, n, kind) = IF top = {} THEN 0 ELSE CHOOSE m \in top : TRUE
  BY DEF Topmost
<1>2. CASE v = 0
  <2>1. top = {}
    BY <1>2 DEF IsTop
  <2> QED
    BY <1>1, <1>2, <2>1
<1>3. CASE v # 0
  <2>1. v \in top
    BY <1>3 DEF IsTop
  <2>2. \A m \in top : m = v
    BY <1>3 DEF IsTop
  <2>3. top = {v}
    BY <2>1, <2>2
  <2> HIDE DEF top
  <2> QED
    BY <1>1, <2>3
<1> QED
  BY <1>2, <1>3

\* What is above an ancestor is above all that have it as an ancestor.
LEMMA TopOfAncestor ==
    ASSUME NEW N, NEW n, NEW s \in Lineage(N, n), NEW kind, NEW v, NEW r,
           IsFiniteSet(DOMAIN N), IsTop(N, n, kind, v), IsTop(N, s, kind, r),
           r # 0
    PROVE  v = r
<1>1. r \in Lineage(N, n)
  BY LineageTransitive DEF IsTop
<1>2. N[r].kind = kind
  BY DEF IsTop
<1>3. v # 0 /\ v \in Lineage(N, r) /\ N[v].kind = kind
  BY <1>1, <1>2 DEF IsTop
<1> QED
  BY <1>3 DEF IsTop

-----------------------------------------------------------------------------
(* The inductive invariant of the builder                                  *)

\* The nodes before the one that is walked have their topmost ancestors, and
\* the walk has found what SoFar says; while staging nothing is recorded.
WalkInv ==
    /\ TopologyTypeOK
    /\ IsFiniteSet(DOMAIN nodes)
    /\ root_complex = [m \in DOMAIN root_complex |-> root_complex[m]]
    /\ switch = [m \in DOMAIN root_complex |-> switch[m]]
    /\ phase = "staging" => DOMAIN root_complex = {}
    /\ phase = "walking" =>
          /\ at \in DOMAIN nodes
          /\ DOMAIN root_complex = {m \in DOMAIN nodes : m < at}
          /\ SoFar(nodes, at, cur, "ROOT_COMPLEX", rc)
          /\ SoFar(nodes, at, cur, "SWITCH", sw)
    /\ phase = "built" => DOMAIN root_complex = DOMAIN nodes
    /\ \A m \in DOMAIN root_complex :
          /\ IsTop(nodes, m, "ROOT_COMPLEX", root_complex[m])
          /\ IsTop(nodes, m, "SWITCH", switch[m])

\* A step of a caller that adds nodes and edges.
StagingStep ==
    /\ phase = "staging"
    /\ UNCHANGED <<root_complex, switch, phase, at, cur, rc, sw>>
    /\ IsFiniteSet(DOMAIN nodes') /\ DOMAIN nodes' \subseteq PciNodes
    /\ \A n \in DOMAIN nodes' : nodes'[n] \in TopologyNode
    /\ edges' \subseteq PciNodes \X PciNodes

\* The builder starts with nothing.
LEMMA WalkInit == Init => WalkInv
<1> SUFFICES ASSUME Init PROVE WalkInv
  OBVIOUS
<1>1. DOMAIN nodes = {} /\ DOMAIN root_complex = {} /\ DOMAIN switch = {}
  BY DEF Init
<1>2. IsFiniteSet({})
  BY FS_EmptySet
<1>3. TopologyTypeOK
  BY <1>1 DEF Init, TopologyTypeOK
<1>4. /\ root_complex = [m \in {} |-> root_complex[m]]
      /\ switch = [m \in {} |-> switch[m]]
  BY DEF Init
<1> QED
  BY <1>1, <1>2, <1>3, <1>4 DEF Init, WalkInv

\* The walk goes to the least node after n, or is over.
LEMMA StartWalkGives ==
    ASSUME DOMAIN nodes \subseteq PciNodes, NEW n \in Nat, StartWalk(n)
    PROVE  \/ /\ phase' = "built" /\ \A m \in DOMAIN nodes : m <= n
              /\ at' = 0 /\ cur' = 0 /\ rc' = 0 /\ sw' = 0
           \/ /\ phase' = "walking" /\ at' \in DOMAIN nodes /\ at' > n
              /\ \A m \in DOMAIN nodes : m > n => at' <= m
              /\ cur' = at' /\ rc' = 0 /\ sw' = 0
<1>1. After(n) \subseteq Nat /\ DOMAIN nodes \subseteq Nat
  BY TopologyAssumption DEF After
<1>2. CASE After(n) = {}
  BY <1>1, <1>2 DEF StartWalk, After
<1>3. CASE After(n) # {}
  <2>1. \E m \in After(n) : \A k \in After(n) : m <= k
    BY <1>1, <1>3, LeastNatural
  <2>2. at' \in After(n) /\ \A k \in After(n) : at' <= k
    BY <1>3, <2>1 DEF StartWalk
  <2> QED
    BY <1>3, <2>2 DEF StartWalk, After
<1> QED
  BY <1>2, <1>3

\* Staging keeps the invariant: nothing is recorded yet.
LEMMA WalkStaging ==
    ASSUME WalkInv, StagingStep
    PROVE  WalkInv'
<1>1. TopologyTypeOK'
  BY DEF WalkInv, StagingStep, TopologyTypeOK
<1>2. DOMAIN root_complex = {} /\ phase' = "staging"
  BY DEF WalkInv, StagingStep
<1> QED
  BY <1>1, <1>2 DEF WalkInv, StagingStep

\* build begins the walk from the first node, if there is one.
LEMMA WalkBuild ==
    ASSUME WalkInv, Build
    PROVE  WalkInv'
<1>1. DOMAIN nodes \subseteq PciNodes /\ DOMAIN nodes \subseteq Nat \ {0}
  BY TopologyAssumption DEF WalkInv, TopologyTypeOK
<1>2. /\ UNCHANGED <<nodes, edges, root_complex, switch>>
      /\ DOMAIN root_complex = {} /\ StartWalk(0)
  BY DEF WalkInv, Build
<1>3. \/ /\ phase' = "built" /\ \A m \in DOMAIN nodes : m <= 0
         /\ at' = 0 /\ cur' = 0 /\ rc' = 0 /\ sw' = 0
      \/ /\ phase' = "walking" /\ at' \in DOMAIN nodes /\ at' > 0
         /\ \A m \in DOMAIN nodes : m > 0 => at' <= m
         /\ cur' = at' /\ rc' = 0 /\ sw' = 0
  BY <1>1, <1>2, StartWalkGives
<1>4. TopologyTypeOK'
  <2>1. /\ DOMAIN nodes' \subseteq PciNodes
        /\ \A n \in DOMAIN nodes' : nodes'[n] \in TopologyNode
        /\ edges' \subseteq PciNodes \X PciNodes
        /\ DOMAIN root_complex' = DOMAIN switch'
    BY <1>2 DEF WalkInv, TopologyTypeOK
  <2>2. phase' \in {"staging", "walking", "built"}
    BY <1>3
  <2>3. {at', cur', rc', sw'} \subseteq PciNodes \cup {0}
    BY <1>1, <1>3
  <2> QED
    BY <2>1, <2>2, <2>3 DEF TopologyTypeOK
<1>5. phase' = "built" => DOMAIN nodes = {}
  <2>1. phase' = "built" => \A m \in DOMAIN nodes : m <= 0
    BY <1>3
  <2>2. \A m \in DOMAIN nodes : ~(m <= 0)
    BY <1>1
  <2> QED
    BY <2>1, <2>2
<1>6. phase' = "walking" =>
         /\ at' \in DOMAIN nodes /\ {m \in DOMAIN nodes : m < at'} = {}
         /\ SoFar(nodes, at', cur', "ROOT_COMPLEX", rc')
         /\ SoFar(nodes, at', cur', "SWITCH", sw')
  <2> SUFFICES ASSUME phase' = "walking"
               PROVE  /\ at' \in DOMAIN nodes
                      /\ {m \in DOMAIN nodes : m < at'} = {}
                      /\ SoFar(nodes, at', cur', "ROOT_COMPLEX", rc')
                      /\ SoFar(nodes, at', cur', "SWITCH", sw')
    OBVIOUS
  <2>1. /\ at' \in DOMAIN nodes /\ cur' = at' /\ rc' = 0 /\ sw' = 0
        /\ \A m \in DOMAIN nodes : at' <= m
    BY <1>1, <1>3
  <2>2. {m \in DOMAIN nodes : m < at'} = {}
    BY <1>1, <2>1
  <2>3. PICK a : a = at'
    OBVIOUS
  <2>4. SoFar(nodes, a, a, "ROOT_COMPLEX", 0) /\ SoFar(nodes, a, a, "SWITCH", 0)
    BY SoFarStart
  <2> QED
    BY <2>1, <2>2, <2>3, <2>4
<1> QED
  BY <1>2, <1>3, <1>4, <1>5, <1>6 DEF WalkInv

\* An iteration of the inner loop.
LEMMA WalkUpKeeps ==
    ASSUME WalkInv, WalkUp
    PROVE  WalkInv'
<1>1. /\ DOMAIN nodes \subseteq PciNodes /\ DOMAIN nodes \subseteq Nat \ {0}
      /\ cur \in DOMAIN nodes /\ nodes[cur] \in TopologyNode
      /\ IsFiniteSet(DOMAIN nodes) /\ 0 \notin DOMAIN nodes
  BY TopologyAssumption DEF WalkInv, TopologyTypeOK, WalkUp
<1>2. /\ UNCHANGED <<nodes, edges, root_complex, switch, phase, at>>
      /\ phase = "walking"
      /\ rc' = IF nodes[cur].kind = "ROOT_COMPLEX" THEN cur ELSE rc
      /\ sw' = IF nodes[cur].kind = "SWITCH" THEN cur ELSE sw
      /\ cur' = nodes[cur].parent
  BY DEF WalkUp
<1>3. nodes[cur].parent \in PciNodes \cup {0}
  BY <1>1 DEF TopologyNode
<1>4. TopologyTypeOK'
  BY <1>1, <1>2, <1>3 DEF WalkInv, TopologyTypeOK
<1>5. /\ SoFar(nodes, at, cur, "ROOT_COMPLEX", rc)
      /\ SoFar(nodes, at, cur, "SWITCH", sw)
  BY <1>2 DEF WalkInv
<1>6. PICK p, r, w : p = cur' /\ r = rc' /\ w = sw'
  OBVIOUS
<1>7. SoFar(nodes, at, p, "ROOT_COMPLEX", r)
  BY <1>1, <1>2, <1>5, <1>6, SoFarStep
<1>8. SoFar(nodes, at, p, "SWITCH", w)
  BY <1>1, <1>2, <1>5, <1>6, SoFarStep
<1> QED
  BY <1>2, <1>4, <1>6, <1>7, <1>8 DEF WalkInv

\* The end of the inner loop records what was found and goes on.
LEMMA WalkEndKeeps ==
    ASSUME WalkInv, WalkEnd
    PROVE  WalkInv'
<1>1. /\ DOMAIN nodes \subseteq PciNodes /\ DOMAIN nodes \subseteq Nat \ {0}
      /\ cur \notin DOMAIN nodes /\ at \in DOMAIN nodes
      /\ IsFiniteSet(DOMAIN nodes)
      /\ DOMAIN root_complex = {m \in DOMAIN nodes : m < at}
      /\ DOMAIN switch = DOMAIN root_complex
  BY TopologyAssumption DEF WalkInv, TopologyTypeOK, WalkEnd
<1>2. /\ UNCHANGED <<nodes, edges>> /\ StartWalk(at)
      /\ root_complex' = With(root_complex, at, rc)
      /\ switch' = With(switch, at, sw)
  BY DEF WalkEnd
<1>3. \/ /\ phase' = "built" /\ \A m \in DOMAIN nodes : m <= at
         /\ at' = 0 /\ cur' = 0 /\ rc' = 0 /\ sw' = 0
      \/ /\ phase' = "walking" /\ at' \in DOMAIN nodes /\ at' > at
         /\ \A m \in DOMAIN nodes : m > at => at' <= m
         /\ cur' = at' /\ rc' = 0 /\ sw' = 0
  <2>1. at \in Nat
    BY <1>1
  <2> QED
    BY <1>1, <1>2, <2>1, StartWalkGives
<1>4. /\ DOMAIN root_complex' = {m \in DOMAIN nodes : m <= at}
      /\ DOMAIN switch' = DOMAIN root_complex'
      /\ root_complex'[at] = rc /\ switch'[at] = sw
      /\ \A m \in DOMAIN root_complex : /\ root_complex'[m] = root_complex[m]
                                        /\ switch'[m] = switch[m]
      /\ root_complex' = [m \in DOMAIN root_complex' |-> root_complex'[m]]
      /\ switch' = [m \in DOMAIN switch' |-> switch'[m]]
  <2> PICK g : g = root_complex' /\ g = With(root_complex, at, rc)
    BY <1>2
  <2> PICK h : h = switch' /\ h = With(switch, at, sw)
    BY <1>2
  <2>1. /\ DOMAIN root_complex' = DOMAIN root_complex \cup {at}
        /\ root_complex'[at] = rc
        /\ \A m \in DOMAIN root_complex :
              m # at => root_complex'[m] = root_complex[m]
        /\ root_complex' = [m \in DOMAIN root_complex' |-> root_complex'[m]]
    <3>1. /\ DOMAIN g = DOMAIN root_complex \cup {at} /\ g[at] = rc
          /\ \A m \in DOMAIN root_complex : m # at => g[m] = root_complex[m]
          /\ g = [m \in DOMAIN g |-> g[m]]
      BY DEF With
    <3> QED
      BY <3>1
  <2>2. /\ DOMAIN switch' = DOMAIN switch \cup {at}
        /\ switch'[at] = sw
        /\ \A m \in DOMAIN switch : m # at => switch'[m] = switch[m]
        /\ switch' = [m \in DOMAIN switch' |-> switch'[m]]
    <3>1. /\ DOMAIN h = DOMAIN switch \cup {at} /\ h[at] = sw
          /\ \A m \in DOMAIN switch : m # at => h[m] = switch[m]
          /\ h = [m \in DOMAIN h |-> h[m]]
      BY DEF With
    <3> QED
      BY <3>1
  <2>3. DOMAIN root_complex \cup {at} = {m \in DOMAIN nodes : m <= at}
    BY <1>1
  <2>4. at \notin DOMAIN root_complex
    BY <1>1
  <2> QED
    BY <1>1, <2>1, <2>2, <2>3, <2>4
<1>5. TopologyTypeOK'
  BY <1>1, <1>2, <1>3, <1>4 DEF WalkInv, TopologyTypeOK
<1>6. /\ IsTop(nodes, at, "ROOT_COMPLEX", rc)
      /\ IsTop(nodes, at, "SWITCH", sw)
  BY <1>1, SoFarEnd DEF WalkInv, WalkEnd
<1>7. \A m \in DOMAIN root_complex' :
         /\ IsTop(nodes, m, "ROOT_COMPLEX", root_complex'[m])
         /\ IsTop(nodes, m, "SWITCH", switch'[m])
  <2> TAKE m \in DOMAIN root_complex'
  <2>1. CASE m = at
    BY <1>4, <1>6, <2>1
  <2>2. CASE m # at
    <3>1. m \in DOMAIN root_complex
      BY <1>1, <1>4, <2>2
    <3> QED
      BY <1>4, <3>1 DEF WalkInv
  <2> QED
    BY <2>1, <2>2
<1>8. phase' = "built" => DOMAIN root_complex' = DOMAIN nodes
  BY <1>3, <1>4
<1>9. ASSUME phase' = "walking"
      PROVE  /\ at' \in DOMAIN nodes
             /\ DOMAIN root_complex' = {m \in DOMAIN nodes : m < at'}
             /\ SoFar(nodes, at', cur', "ROOT_COMPLEX", rc')
             /\ SoFar(nodes, at', cur', "SWITCH", sw')
  <2>1. /\ at' \in DOMAIN nodes /\ at' > at
        /\ \A m \in DOMAIN nodes : m > at => at' <= m
        /\ cur' = at' /\ rc' = 0 /\ sw' = 0
    BY <1>3, <1>9
  <2>2. \A m \in DOMAIN nodes : m <= at <=> m < at'
    BY <1>1, <2>1
  <2>3. PICK a : a = at'
    OBVIOUS
  <2>4. SoFar(nodes, a, a, "ROOT_COMPLEX", 0) /\ SoFar(nodes, a, a, "SWITCH", 0)
    BY SoFarStart
  <2> QED
    BY <1>4, <2>1, <2>2, <2>3, <2>4
<1>10. phase' # "staging"
  BY <1>3
<1> QED
  BY <1>1, <1>2, <1>4, <1>5, <1>7, <1>8, <1>9, <1>10 DEF WalkInv

\* What a caller stages is a staging step.
LEMMA StagingStages ==
    ASSUME WalkInv, Staging
    PROVE  StagingStep
<1>1. /\ DOMAIN nodes \subseteq PciNodes /\ IsFiniteSet(DOMAIN nodes)
      /\ \A n \in DOMAIN nodes : nodes[n] \in TopologyNode
      /\ edges \subseteq PciNodes \X PciNodes
  BY DEF WalkInv, TopologyTypeOK
<1>2. ASSUME NEW n \in PciNodes \ DOMAIN nodes,
             NEW node \in [kind : NodeKind, parent : ParentsOf[n], numa : Numas,
                           pci : StagedPcis, evidence : Evidences],
             AddNode(n, node)
      PROVE  StagingStep
  <2>1. node \in TopologyNode
    BY TopologyAssumption DEF TopologyNode
  <2>2. PICK g : g = nodes' /\ g = With(nodes, n, node)
    BY <1>2 DEF AddNode
  <2>3. /\ DOMAIN g = DOMAIN nodes \cup {n} /\ g[n] = node
        /\ \A m \in DOMAIN nodes : m # n => g[m] = nodes[m]
    BY <2>2 DEF With
  <2>4. IsFiniteSet(DOMAIN nodes \cup {n})
    BY <1>1, FS_AddElement
  <2>5. \A m \in DOMAIN g : g[m] \in TopologyNode
    BY <1>1, <2>1, <2>3
  <2> QED
    BY <1>1, <1>2, <2>2, <2>3, <2>4, <2>5 DEF AddNode, StagingStep
<1>3. ASSUME NEW m \in DOMAIN nodes, NEW n \in DOMAIN nodes, AddEdge(m, n)
      PROVE  StagingStep
  BY <1>1, <1>3 DEF AddEdge, StagingStep
<1> QED
  BY <1>2, <1>3 DEF Staging

\* WalkInv is inductive.
LEMMA WalkStep ==
    ASSUME WalkInv, StagingStep \/ Finalize \/ UNCHANGED tvars
    PROVE  WalkInv'
<1>1. CASE StagingStep
  BY <1>1, WalkStaging
<1>2. CASE Finalize
  BY <1>2, WalkBuild, WalkUpKeeps, WalkEndKeeps DEF Finalize
<1>3. CASE UNCHANGED tvars
  BY <1>3 DEF tvars, WalkInv, TopologyTypeOK
<1> QED
  BY <1>1, <1>2, <1>3

-----------------------------------------------------------------------------
(* Cycles                                                                  *)

\* The nodes above n that are above themselves.
Loops(N, n) == {k \in Lineage(N, n) : k \in Lineage(N, N[k].parent)}

\* A cycle above the node that is walked is still ahead of the walk; the nodes
\* that were walked have none above them.
LoopInv ==
    /\ phase = "walking" => Loops(nodes, at) \subseteq Lineage(nodes, cur)
    /\ \A m \in DOMAIN root_complex : Loops(nodes, m) = {}

\* Going up one link leaves no cycle behind.
LEMMA LoopsAhead ==
    ASSUME NEW N, NEW n, NEW c \in DOMAIN N, IsFiniteSet(DOMAIN N),
           Loops(N, n) \subseteq Lineage(N, c)
    PROVE  Loops(N, n) \subseteq Lineage(N, N[c].parent)
<1>1. Lineage(N, c) = {c} \cup Lineage(N, N[c].parent)
  BY LineageStep
<1>2. c \in Loops(N, n) => c \in Lineage(N, N[c].parent)
  BY DEF Loops
<1> QED
  BY <1>1, <1>2

\* LoopInv is inductive.
LEMMA LoopStep ==
    ASSUME WalkInv, LoopInv, StagingStep \/ Finalize \/ UNCHANGED tvars
    PROVE  LoopInv'
<1>1. /\ DOMAIN nodes \subseteq PciNodes /\ DOMAIN nodes \subseteq Nat \ {0}
      /\ IsFiniteSet(DOMAIN nodes)
  BY TopologyAssumption DEF WalkInv, TopologyTypeOK
<1>2. \A n : Loops(nodes, n) \subseteq Lineage(nodes, n)
  BY DEF Loops
<1>3. CASE StagingStep
  BY <1>3 DEF StagingStep, WalkInv, LoopInv
<1>4. CASE Build
  <2>1. /\ UNCHANGED <<nodes, root_complex>> /\ DOMAIN root_complex = {}
        /\ phase' = "walking" => cur' = at'
    BY <1>4 DEF Build, StartWalk, WalkInv
  <2> QED
    BY <1>2, <2>1 DEF LoopInv
<1>5. CASE WalkUp
  <2>1. /\ UNCHANGED <<nodes, root_complex, phase, at>> /\ phase = "walking"
        /\ cur \in DOMAIN nodes /\ cur' = nodes[cur].parent
    BY <1>5 DEF WalkUp
  <2>2. Loops(nodes, at) \subseteq Lineage(nodes, nodes[cur].parent)
    BY <1>1, <2>1, LoopsAhead DEF LoopInv
  <2> QED
    BY <2>1, <2>2 DEF LoopInv
<1>6. CASE WalkEnd
  <2>1. /\ UNCHANGED nodes /\ phase = "walking" /\ cur \notin DOMAIN nodes
        /\ root_complex' = With(root_complex, at, rc) /\ StartWalk(at)
    BY <1>6 DEF WalkEnd
  <2>2. Loops(nodes, at) = {}
    <3>1. Lineage(nodes, cur) = {}
      BY <1>1, <2>1, LineageUnfolds
    <3> QED
      BY <2>1, <3>1 DEF LoopInv
  <2>3. DOMAIN root_complex' = DOMAIN root_complex \cup {at}
    <3>1. PICK g : g = root_complex' /\ g = With(root_complex, at, rc)
      BY <2>1
    <3>2. DOMAIN g = DOMAIN root_complex \cup {at}
      BY <3>1 DEF With
    <3> QED
      BY <3>1, <3>2
  <2>4. \A m \in DOMAIN root_complex' : Loops(nodes, m) = {}
    BY <2>2, <2>3 DEF LoopInv
  <2>5. phase' = "walking" => cur' = at'
    BY <2>1 DEF StartWalk
  <2> QED
    BY <1>2, <2>1, <2>4, <2>5 DEF LoopInv
<1>7. CASE UNCHANGED tvars
  BY <1>7 DEF tvars, LoopInv
<1> QED
  BY <1>3, <1>4, <1>5, <1>6, <1>7 DEF Finalize

-----------------------------------------------------------------------------
(* The topology of a host                                                  *)

Corner(b) == [segment |-> 0, bus |-> b, slot |-> 0]
HostNode(kind, parent, address) ==
    [kind |-> kind, parent |-> parent, numa |-> 0, pci |-> address,
     evidence |-> "REAL"]

\* Every bus with a device has one switch, the segment one root complex, and
\* every other node is a device under the switch of its bus.
HostInv ==
    /\ placed \subseteq Pcis
    /\ placed = {} => nc = 1 /\ seg_rc = 0 /\ DOMAIN bus_switch = {}
    /\ placed # {} =>
          /\ nc \in Nat /\ DOMAIN nodes = 1 .. nc - 1
          /\ seg_rc \in DOMAIN nodes
          /\ nodes[seg_rc] = HostNode("ROOT_COMPLEX", 0, Corner(0))
          /\ DOMAIN bus_switch = {p.bus : p \in placed}
          /\ \A b \in DOMAIN bus_switch :
                /\ bus_switch[b] \in DOMAIN nodes
                /\ nodes[bus_switch[b]] = HostNode("SWITCH", 0, Corner(b))
          /\ \A n \in DOMAIN nodes :
                \/ n = seg_rc
                \/ \E b \in DOMAIN bus_switch : n = bus_switch[b]
                \/ \E p \in placed :
                      nodes[n] = HostNode("DEVICE", bus_switch[p.bus], p)
          /\ \A p \in placed :
                \E n \in DOMAIN nodes :
                    nodes[n] = HostNode("DEVICE", bus_switch[p.bus], p)

\* What an iteration of build_topology leaves: N is what was staged before and M
\* after it, with the device d, its switch s and the root complex r.
LEMMA PlacedNodes ==
    ASSUME WalkInv, HostInv, HostStaging
    PROVE  \E pci \in Pcis, s, r, d, c \in Nat \ {0} :
              /\ c = nc /\ DOMAIN nodes = 1 .. c - 1 /\ nc' = d + 1
              /\ d \in Nat /\ d >= c /\ s \in 1 .. d - 1 /\ r \in 1 .. d - 1
              /\ DOMAIN nodes' = 1 .. d /\ d <= kMaxNodes
              /\ \A n \in DOMAIN nodes : nodes'[n] = nodes[n]
              /\ \A n \in DOMAIN nodes' : n \in DOMAIN nodes \cup {s, r, d}
              /\ nodes'[s] = HostNode("SWITCH", 0, Corner(pci.bus))
              /\ nodes'[r] = HostNode("ROOT_COMPLEX", 0, Corner(0))
              /\ nodes'[d] = HostNode("DEVICE", s, pci)
              /\ edges' = edges \cup {<<s, r>>, <<d, s>>}
              /\ pci.bus \in DOMAIN bus_switch => s = bus_switch[pci.bus]
              /\ placed # {} => r = seg_rc
              /\ bus_switch' = With(bus_switch, pci.bus, s)
              /\ seg_rc' = r /\ placed' = placed \cup {pci}
              /\ phase = "staging"
              /\ UNCHANGED <<root_complex, switch, phase, at, cur, rc, sw>>
<1>1. PICK pci \in Pcis : PlaceDevice(pci)
  BY DEF HostStaging
<1>2. pci.segment = 0
  BY SystemAssumption
<1>3. PICK c : c = nc
  OBVIOUS
<1>4. c \in Nat \ {0} /\ DOMAIN nodes = 1 .. c - 1
  <2>1. CASE placed = {}
    <3>1. c = 1 /\ nodes = <<>>
      BY <1>3, <2>1 DEF HostInv, HostStaging
    <3>2. DOMAIN nodes = {}
      BY <3>1
    <3> QED
      BY <3>1, <3>2
  <2>2. CASE placed # {}
    <3>1. c \in Nat /\ DOMAIN nodes = 1 .. c - 1 /\ seg_rc \in DOMAIN nodes
      BY <1>3, <2>2 DEF HostInv
    <3> QED
      BY <3>1
  <2> QED
    BY <2>1, <2>2
<1>5. PICK e \in {0, 1} : e = IF pci.bus \notin DOMAIN bus_switch THEN 1 ELSE 0
  OBVIOUS
<1>6. PICK g \in {0, 1} : g = IF seg_rc = 0 THEN 1 ELSE 0
  OBVIOUS
<1>7. PICK s, r, d :
         /\ s = IF pci.bus \notin DOMAIN bus_switch THEN nc
                ELSE bus_switch[pci.bus]
         /\ r = IF seg_rc = 0
                THEN (IF pci.bus \notin DOMAIN bus_switch THEN nc + 1 ELSE nc)
                ELSE seg_rc
         /\ d = nc + (IF pci.bus \notin DOMAIN bus_switch THEN 1 ELSE 0)
                   + (IF seg_rc = 0 THEN 1 ELSE 0)
  OBVIOUS
<1>8. /\ e = 0 => bus_switch[pci.bus] \in 1 .. c - 1
      /\ g = 0 => seg_rc \in 1 .. c - 1
      /\ placed # {} => g = 0
  <2>1. CASE placed = {}
    BY <1>5, <1>6, <2>1 DEF HostInv
  <2>2. CASE placed # {}
    <3>1. seg_rc \in 1 .. c - 1
      BY <1>4, <2>2 DEF HostInv
    <3>2. g = 0
      BY <1>4, <1>6, <3>1
    <3>3. e = 0 => bus_switch[pci.bus] \in 1 .. c - 1
      <4>1. \A b \in DOMAIN bus_switch : bus_switch[b] \in DOMAIN nodes
        BY <2>2 DEF HostInv
      <4>2. e = 0 => pci.bus \in DOMAIN bus_switch
        BY <1>5
      <4> QED
        BY <1>4, <4>1, <4>2
    <3> QED
      BY <3>1, <3>2, <3>3
  <2> QED
    BY <2>1, <2>2
<1>9. /\ d \in Nat /\ d >= c
      /\ s \in 1 .. d - 1 /\ r \in 1 .. d - 1
      /\ e = 1 <=> s \notin 1 .. c - 1
      /\ g = 1 <=> r \notin 1 .. c - 1
      /\ g = 1 => r # s
      /\ (1 .. c - 1) \cup ({s, r, d} \ (1 .. c - 1)) = 1 .. d
  <2>1. /\ e = 1 => s = c
        /\ e = 0 => s \in 1 .. c - 1
        /\ g = 1 => r = c + e
        /\ g = 0 => r \in 1 .. c - 1
        /\ d = c + e + g
    BY <1>3, <1>4, <1>5, <1>6, <1>7, <1>8
  <2>2. c \in Nat \ {0}
    BY <1>4
  <2>3. CASE e = 1 /\ g = 1
    BY <2>1, <2>2, <2>3
  <2>4. CASE e = 1 /\ g = 0
    BY <2>1, <2>2, <2>4
  <2>5. CASE e = 0 /\ g = 1
    BY <2>1, <2>2, <2>5
  <2>6. CASE e = 0 /\ g = 0
    BY <2>1, <2>2, <2>6
  <2> QED
    BY <2>3, <2>4, <2>5, <2>6
<1>10. /\ phase = "staging"
       /\ Cardinality(DOMAIN nodes \cup ({s, r, d} \ DOMAIN nodes)) <= kMaxNodes
       /\ nodes' = [n \in DOMAIN nodes \cup ({s, r, d} \ DOMAIN nodes) |->
                      IF n = d THEN HostNode("DEVICE", s, pci)
                      ELSE IF n \in DOMAIN nodes THEN nodes[n]
                      ELSE IF n = s THEN HostNode("SWITCH", 0, Corner(pci.bus))
                      ELSE HostNode("ROOT_COMPLEX", 0, Corner(0))]
       /\ edges' = edges \cup {<<s, r>>, <<d, s>>}
       /\ bus_switch' = With(bus_switch, pci.bus, s)
       /\ seg_rc' = r /\ nc' = d + 1 /\ placed' = placed \cup {pci}
       /\ UNCHANGED <<root_complex, switch, phase, at, cur, rc, sw>>
  BY <1>1, <1>2, <1>7 DEF PlaceDevice, HostNode, Corner
<1>11. /\ DOMAIN nodes' = 1 .. d /\ Cardinality(1 .. d) <= kMaxNodes
       /\ \A n \in 1 .. d :
             nodes'[n] = IF n = d THEN HostNode("DEVICE", s, pci)
                         ELSE IF n \in 1 .. c - 1 THEN nodes[n]
                         ELSE IF n = s
                              THEN HostNode("SWITCH", 0, Corner(pci.bus))
                         ELSE HostNode("ROOT_COMPLEX", 0, Corner(0))
  BY <1>4, <1>9, <1>10
<1>12. d <= kMaxNodes
  <2>1. 1 \in Int /\ d \in Int /\ d >= 1
    BY <1>4, <1>9
  <2>2. Cardinality(1 .. d) = IF 1 > d THEN 0 ELSE d - 1 + 1
    BY <2>1, FS_Interval
  <2> QED
    BY <1>11, <2>1, <2>2
<1>13. /\ nodes'[d] = HostNode("DEVICE", s, pci)
       /\ \A n \in 1 .. c - 1 : nodes'[n] = nodes[n]
  BY <1>4, <1>9, <1>11
<1>14. nodes'[s] = HostNode("SWITCH", 0, Corner(pci.bus))
  <2>1. CASE e = 1
    BY <1>9, <1>11, <2>1
  <2>2. CASE e = 0
    <3>1. placed # {} /\ pci.bus \in DOMAIN bus_switch /\ s = bus_switch[pci.bus]
      BY <1>5, <1>7, <2>2 DEF HostInv
    <3>2. /\ s \in 1 .. c - 1
          /\ nodes[s] = HostNode("SWITCH", 0, Corner(pci.bus))
      BY <1>4, <3>1 DEF HostInv
    <3> QED
      BY <1>13, <3>2
  <2> QED
    BY <2>1, <2>2
<1>15. nodes'[r] = HostNode("ROOT_COMPLEX", 0, Corner(0))
  <2>1. CASE g = 1
    BY <1>9, <1>11, <2>1
  <2>2. CASE g = 0
    <3>1. placed # {} /\ r = seg_rc
      BY <1>6, <1>7, <2>2 DEF HostInv
    <3>2. /\ r \in 1 .. c - 1
          /\ nodes[r] = HostNode("ROOT_COMPLEX", 0, Corner(0))
      BY <1>4, <3>1 DEF HostInv
    <3> QED
      BY <1>13, <3>2
  <2> QED
    BY <2>1, <2>2
<1>16. /\ pci.bus \in DOMAIN bus_switch => s = bus_switch[pci.bus]
       /\ placed # {} => r = seg_rc
  BY <1>5, <1>6, <1>7, <1>8
<1>17. \A n \in DOMAIN nodes' : n \in DOMAIN nodes \cup {s, r, d}
  BY <1>4, <1>9, <1>11
<1>18. \A n \in DOMAIN nodes : nodes'[n] = nodes[n]
  BY <1>4, <1>13
<1>19. DOMAIN nodes' = 1 .. d
  BY <1>11
<1>20. /\ s \in Nat \ {0} /\ r \in Nat \ {0} /\ d \in Nat \ {0}
       /\ c \in Nat \ {0}
  BY <1>4, <1>9
<1> USE <1>20
<1> WITNESS pci \in Pcis, s \in Nat \ {0}, r \in Nat \ {0}, d \in Nat \ {0},
            c \in Nat \ {0}
<1> QED
  BY <1>3, <1>4, <1>9, <1>10, <1>12, <1>13, <1>14, <1>15, <1>16, <1>17, <1>18,
     <1>19

\* Placing a device is a staging step and keeps the shape of the host.
LEMMA HostPlaces ==
    ASSUME WalkInv, HostInv, HostStaging
    PROVE  StagingStep /\ HostInv'
<1>1. PICK pci \in Pcis, s, r, d, c \in Nat \ {0} :
         /\ c = nc /\ DOMAIN nodes = 1 .. c - 1 /\ nc' = d + 1
         /\ d \in Nat /\ d >= c /\ s \in 1 .. d - 1 /\ r \in 1 .. d - 1
         /\ DOMAIN nodes' = 1 .. d /\ d <= kMaxNodes
         /\ \A n \in DOMAIN nodes : nodes'[n] = nodes[n]
         /\ \A n \in DOMAIN nodes' : n \in DOMAIN nodes \cup {s, r, d}
         /\ nodes'[s] = HostNode("SWITCH", 0, Corner(pci.bus))
         /\ nodes'[r] = HostNode("ROOT_COMPLEX", 0, Corner(0))
         /\ nodes'[d] = HostNode("DEVICE", s, pci)
         /\ edges' = edges \cup {<<s, r>>, <<d, s>>}
         /\ pci.bus \in DOMAIN bus_switch => s = bus_switch[pci.bus]
         /\ placed # {} => r = seg_rc
         /\ bus_switch' = With(bus_switch, pci.bus, s)
         /\ seg_rc' = r /\ placed' = placed \cup {pci}
         /\ phase = "staging"
         /\ UNCHANGED <<root_complex, switch, phase, at, cur, rc, sw>>
  BY PlacedNodes
<1>2. s \in 1 .. d /\ r \in 1 .. d /\ d \in 1 .. d
  BY <1>1
<1>3. 1 .. d \subseteq PciNodes
  <2>1. 1 .. d \subseteq 1 .. kMaxNodes
    BY <1>1, TopologyAssumption
  <2> QED
    BY <2>1, SystemAssumption
<1>4. StagingStep
  <2>1. \A k \in NodeKind, p \in PciNodes \cup {0}, a \in Pcis :
           HostNode(k, p, a) \in TopologyNode
    BY SystemAssumption DEF HostNode, TopologyNode
  <2>2. Corner(pci.bus) \in Pcis /\ Corner(0) \in Pcis
    BY SystemAssumption DEF Corner
  <2>3. \A k \in {"SWITCH", "ROOT_COMPLEX", "DEVICE"} : k \in NodeKind
    BY DEF NodeKind
  <2>4. /\ nodes'[s] \in TopologyNode /\ nodes'[r] \in TopologyNode
        /\ nodes'[d] \in TopologyNode
    <3>1. HostNode("SWITCH", 0, Corner(pci.bus)) \in TopologyNode
      BY <2>1, <2>2, <2>3
    <3>2. HostNode("ROOT_COMPLEX", 0, Corner(0)) \in TopologyNode
      BY <2>1, <2>2, <2>3
    <3>3. s \in PciNodes
      BY <1>2, <1>3
    <3>4. HostNode("DEVICE", s, pci) \in TopologyNode
      BY <2>1, <2>3, <3>3
    <3> QED
      BY <1>1, <3>1, <3>2, <3>4
  <2>5. \A n \in DOMAIN nodes : nodes[n] \in TopologyNode
    BY DEF WalkInv, TopologyTypeOK
  <2>6. \A n \in DOMAIN nodes' : nodes'[n] \in TopologyNode
    BY <1>1, <2>4, <2>5
  <2>7. IsFiniteSet(1 .. d)
    BY <1>1, FS_Interval
  <2>8. edges' \subseteq PciNodes \X PciNodes
    <3>1. edges \subseteq PciNodes \X PciNodes
      BY DEF WalkInv, TopologyTypeOK
    <3> QED
      BY <1>1, <1>2, <1>3, <3>1
  <2> QED
    BY <1>1, <1>3, <2>6, <2>7, <2>8 DEF StagingStep
<1>5. PICK bs : bs = bus_switch' /\ bs = With(bus_switch, pci.bus, s)
  BY <1>1
<1>6. /\ DOMAIN bs = DOMAIN bus_switch \cup {pci.bus} /\ bs[pci.bus] = s
      /\ \A b \in DOMAIN bus_switch : bs[b] = bus_switch[b]
  <2>1. /\ DOMAIN bs = DOMAIN bus_switch \cup {pci.bus} /\ bs[pci.bus] = s
        /\ \A b \in DOMAIN bus_switch : b # pci.bus => bs[b] = bus_switch[b]
    BY <1>5 DEF With
  <2> QED
    BY <1>1, <2>1
<1>7. DOMAIN bus_switch = {p.bus : p \in placed}
  BY DEF HostInv
<1>8. DOMAIN bs = {p.bus : p \in placed \cup {pci}}
  BY <1>6, <1>7
<1>9. ASSUME NEW b \in DOMAIN bs
      PROVE  /\ bs[b] \in DOMAIN nodes'
             /\ nodes'[bs[b]] = HostNode("SWITCH", 0, Corner(b))
  <2>1. CASE b = pci.bus
    BY <1>1, <1>2, <1>6, <2>1
  <2>2. CASE b # pci.bus
    <3>1. b \in DOMAIN bus_switch /\ bs[b] = bus_switch[b] /\ placed # {}
      BY <1>6, <1>7, <2>2
    <3>2. /\ bus_switch[b] \in DOMAIN nodes
          /\ nodes[bus_switch[b]] = HostNode("SWITCH", 0, Corner(b))
      BY <3>1 DEF HostInv
    <3>3. DOMAIN nodes \subseteq DOMAIN nodes'
      BY <1>1
    <3> QED
      BY <1>1, <3>1, <3>2, <3>3
  <2> QED
    BY <2>1, <2>2
<1>10. \A p \in placed : bs[p.bus] = bus_switch[p.bus]
  BY <1>6, <1>7
<1>11. ASSUME NEW n \in DOMAIN nodes'
       PROVE  \/ n = r
              \/ \E b \in DOMAIN bs : n = bs[b]
              \/ \E p \in placed \cup {pci} :
                    nodes'[n] = HostNode("DEVICE", bs[p.bus], p)
  <2>1. CASE n = s
    BY <1>6, <2>1
  <2>2. CASE n = d
    BY <1>1, <1>6, <2>2
  <2>3. CASE n \in DOMAIN nodes /\ placed # {}
    <3>1. \/ n = seg_rc
          \/ \E b \in DOMAIN bus_switch : n = bus_switch[b]
          \/ \E p \in placed : nodes[n] = HostNode("DEVICE", bus_switch[p.bus], p)
      BY <2>3 DEF HostInv
    <3>2. n = seg_rc => n = r
      BY <1>1, <2>3
    <3>3. (\E b \in DOMAIN bus_switch : n = bus_switch[b]) =>
             \E b \in DOMAIN bs : n = bs[b]
      BY <1>6
    <3>4. ASSUME NEW p \in placed,
                 nodes[n] = HostNode("DEVICE", bus_switch[p.bus], p)
          PROVE  nodes'[n] = HostNode("DEVICE", bs[p.bus], p)
      BY <1>1, <1>10, <2>3, <3>4
    <3> QED
      BY <3>1, <3>2, <3>3, <3>4
  <2>4. CASE n \in DOMAIN nodes /\ placed = {}
    <3>1. c = 1
      BY <1>1, <2>4 DEF HostInv
    <3>2. DOMAIN nodes = 1 .. 0
      BY <1>1, <3>1
    <3> QED
      BY <2>4, <3>2
  <2> QED
    BY <1>1, <2>1, <2>2, <2>3, <2>4
<1>12. ASSUME NEW p \in placed \cup {pci}
       PROVE  \E n \in DOMAIN nodes' :
                 nodes'[n] = HostNode("DEVICE", bs[p.bus], p)
  <2>1. CASE p = pci
    BY <1>1, <1>2, <1>6, <2>1
  <2>2. CASE p \in placed
    <3>1. PICK n \in DOMAIN nodes :
             nodes[n] = HostNode("DEVICE", bus_switch[p.bus], p)
      BY <2>2 DEF HostInv
    <3>2. n \in DOMAIN nodes' /\ nodes'[n] = nodes[n]
      BY <1>1
    <3> QED
      BY <1>10, <2>2, <3>1, <3>2
  <2> QED
    BY <2>1, <2>2
<1>13. /\ placed' = placed \cup {pci} /\ placed' \subseteq Pcis /\ placed' # {}
       /\ nc' \in Nat /\ DOMAIN nodes' = 1 .. nc' - 1
       /\ seg_rc' = r /\ r \in DOMAIN nodes'
       /\ nodes'[r] = HostNode("ROOT_COMPLEX", 0, Corner(0))
  BY <1>1, <1>2 DEF HostInv
<1>14. HostInv'
  <2>1. bus_switch' = bs
    BY <1>5
  <2>2. DOMAIN bus_switch' = {p.bus : p \in placed'}
    BY <1>8, <1>13, <2>1
  <2>3. \A b \in DOMAIN bus_switch' :
           /\ bus_switch'[b] \in DOMAIN nodes'
           /\ nodes'[bus_switch'[b]] = HostNode("SWITCH", 0, Corner(b))
    BY <1>9, <2>1
  <2>4. \A n \in DOMAIN nodes' :
           \/ n = seg_rc'
           \/ \E b \in DOMAIN bus_switch' : n = bus_switch'[b]
           \/ \E p \in placed' :
                 nodes'[n] = HostNode("DEVICE", bus_switch'[p.bus], p)
    BY <1>11, <1>13, <2>1
  <2>5. \A p \in placed' : \E n \in DOMAIN nodes' :
           nodes'[n] = HostNode("DEVICE", bus_switch'[p.bus], p)
    BY <1>12, <1>13, <2>1
  <2> QED
    BY <1>13, <2>2, <2>3, <2>4, <2>5 DEF HostInv
<1> QED
  BY <1>4, <1>14

-----------------------------------------------------------------------------
(* The composed invariant                                                  *)

SystemInv == WalkInv /\ LoopInv /\ HostInv

\* SystemInv is inductive.
LEMMA SystemInvStep ==
    ASSUME SystemInv, [SystemNext]_svars
    PROVE  SystemInv'
<1> USE DEF SystemInv
<1>1. CASE HostStaging
  BY <1>1, HostPlaces, WalkStep, LoopStep
<1>2. CASE CallerStaging
  <2>1. WalkInv' /\ LoopInv'
    BY <1>2, StagingStages, WalkStep, LoopStep DEF CallerStaging
  <2>2. HostInv'
    BY <1>2 DEF CallerStaging, HostInv
  <2> QED
    BY <2>1, <2>2
<1>3. CASE Finalize /\ UNCHANGED <<bus_switch, seg_rc, nc, placed>>
  <2>1. UNCHANGED nodes
    BY <1>3 DEF Finalize, Build, WalkUp, WalkEnd
  <2>2. HostInv'
    BY <1>3, <2>1 DEF HostInv
  <2> QED
    BY <1>3, <2>2, WalkStep, LoopStep
<1>4. CASE UNCHANGED svars
  <2>1. UNCHANGED tvars
    BY <1>4 DEF svars
  <2>2. HostInv'
    BY <1>4 DEF svars, tvars, HostInv
  <2> QED
    BY <2>1, <2>2, WalkStep, LoopStep
<1> QED
  BY <1>1, <1>2, <1>3, <1>4 DEF SystemNext

\* Every reachable state of a builder, whoever stages its nodes, satisfies the
\* invariant.
THEOREM SystemInvHolds == SystemSpec => []SystemInv
<1>1. SystemInit => SystemInv
  <2> SUFFICES ASSUME SystemInit PROVE SystemInv
    OBVIOUS
  <2>1. WalkInv /\ LoopInv
    BY WalkInit DEF SystemInit, Init, LoopInv
  <2>2. HostInv
    BY DEF SystemInit, HostInv
  <2> QED
    BY <2>1, <2>2 DEF SystemInv
<1>2. SystemInv /\ [SystemNext]_svars => SystemInv'
  BY SystemInvStep
<1> QED
  BY <1>1, <1>2, PTL DEF SystemSpec

\* The builder alone, whatever parents its callers give.
LEMMA BuilderInvHolds == Spec => [](WalkInv /\ LoopInv)
<1>1. WalkInv /\ LoopInv /\ [Next]_tvars => WalkInv' /\ LoopInv'
  BY StagingStages, WalkStep, LoopStep DEF Next
<1>2. Init => LoopInv
  BY DEF Init, LoopInv
<1> QED
  BY <1>1, <1>2, WalkInit, PTL DEF Spec

-----------------------------------------------------------------------------
(* Theorems                                                                *)

\* Every reachable state of the builder is well typed: the nodes of a host stay
\* within the ids that add_node accepts.
THEOREM TopologyTypeCorrect ==
    (Spec => []TopologyTypeOK) /\ (SystemSpec => []TopologyTypeOK)
<1>1. WalkInv => TopologyTypeOK
  BY DEF WalkInv
<1>2. SystemInv => TopologyTypeOK
  BY <1>1 DEF SystemInv
<1>3. Spec => []TopologyTypeOK
  BY <1>1, BuilderInvHolds, PTL
<1>4. SystemSpec => []TopologyTypeOK
  BY <1>2, SystemInvHolds, PTL
<1> QED
  BY <1>3, <1>4

\* What build returns is what Finalized defines.
BuildsFinalized == phase = "built" => Snapshot = Finalized(nodes)

\* The loop of finalize computes what Finalized defines, so that the locality
\* queries, the policy and the engine may be checked on Finalized topologies:
\* whenever build returns, every node has the outermost root complex and switch
\* of its own lineage.
THEOREM BuildsFinalizedHolds ==
    (Spec => []BuildsFinalized) /\ (SystemSpec => []BuildsFinalized)
<1>1. WalkInv => BuildsFinalized
  <2> SUFFICES ASSUME WalkInv, phase = "built"
               PROVE  Snapshot = Finalized(nodes)
    BY DEF BuildsFinalized
  <2>1. /\ DOMAIN root_complex = DOMAIN nodes
        /\ root_complex = [m \in DOMAIN nodes |-> root_complex[m]]
        /\ switch = [m \in DOMAIN nodes |-> switch[m]]
        /\ IsFiniteSet(DOMAIN nodes)
    BY DEF WalkInv
  <2>2. 0 \notin DOMAIN nodes
    BY TopologyAssumption DEF WalkInv, TopologyTypeOK
  <2>3. \A m \in DOMAIN nodes :
           /\ IsTop(nodes, m, "ROOT_COMPLEX", root_complex[m])
           /\ IsTop(nodes, m, "SWITCH", switch[m])
    BY <2>1 DEF WalkInv
  <2>4. \A m \in DOMAIN nodes :
           /\ Topmost(nodes, m, "ROOT_COMPLEX") = root_complex[m]
           /\ Topmost(nodes, m, "SWITCH") = switch[m]
    BY <2>1, <2>2, <2>3, IsTopmost
  <2>5. root_complex = [m \in DOMAIN nodes |-> Topmost(nodes, m, "ROOT_COMPLEX")]
    BY <2>1, <2>4
  <2>6. switch = [m \in DOMAIN nodes |-> Topmost(nodes, m, "SWITCH")]
    BY <2>1, <2>4
  <2> QED
    BY <2>5, <2>6 DEF Snapshot, Finalized
<1>2. SystemInv => BuildsFinalized
  BY <1>1 DEF SystemInv
<1>3. Spec => []BuildsFinalized
  BY <1>1, BuilderInvHolds, PTL
<1>4. SystemSpec => []BuildsFinalized
  BY <1>2, SystemInvHolds, PTL
<1> QED
  BY <1>3, <1>4

\* What finalize records for a node is an ancestor of its own, of the right
\* kind, and it records none only where there is none, for nodes of any number
\* with any parents.
THEOREM AncestorsAreOwnHolds ==
    (Spec => []AncestorsAreOwn) /\ (SystemSpec => []AncestorsAreOwn)
<1>1. WalkInv => AncestorsAreOwn
  <2> SUFFICES ASSUME WalkInv, phase = "built"
               PROVE  /\ RecordsOwn(root_complex, "ROOT_COMPLEX")
                      /\ RecordsOwn(switch, "SWITCH")
    BY DEF AncestorsAreOwn
  <2>1. 0 \notin DOMAIN nodes /\ IsFiniteSet(DOMAIN nodes)
    BY TopologyAssumption DEF WalkInv, TopologyTypeOK
  <2>2. \A m \in DOMAIN nodes :
           /\ IsTop(nodes, m, "ROOT_COMPLEX", root_complex[m])
           /\ IsTop(nodes, m, "SWITCH", switch[m])
    BY DEF WalkInv
  <2>3. ASSUME NEW m \in DOMAIN nodes, NEW kind, NEW v,
               IsTop(nodes, m, kind, v)
        PROVE  LET own == {k \in Lineage(nodes, m) : nodes[k].kind = kind}
               IN  IF own = {} THEN v = 0 ELSE v \in own
    BY <2>3 DEF IsTop
  <2> QED
    BY <2>2, <2>3 DEF RecordsOwn
<1>2. SystemInv => AncestorsAreOwn
  BY <1>1 DEF SystemInv
<1>3. Spec => []AncestorsAreOwn
  BY <1>1, BuilderInvHolds, PTL
<1>4. SystemSpec => []AncestorsAreOwn
  BY <1>2, SystemInvHolds, PTL
<1> QED
  BY <1>3, <1>4

\* build never returns a topology with a cycle of parents, which add_node
\* accepts: the walk that meets it has no end.
THEOREM BuiltOnlyWithoutCyclesHolds ==
    (Spec => []BuiltOnlyWithoutCycles)
    /\ (SystemSpec => []BuiltOnlyWithoutCycles)
<1>1. WalkInv /\ LoopInv => BuiltOnlyWithoutCycles
  <2> SUFFICES ASSUME WalkInv, LoopInv, phase = "built",
                      NEW n \in DOMAIN nodes
               PROVE  n \notin Lineage(nodes, nodes[n].parent)
    BY DEF BuiltOnlyWithoutCycles, Acyclic
  <2>1. DOMAIN root_complex = DOMAIN nodes /\ IsFiniteSet(DOMAIN nodes)
    BY DEF WalkInv
  <2>2. n \in Lineage(nodes, n)
    BY <2>1, LineageUnfolds
  <2> QED
    BY <2>1, <2>2 DEF LoopInv, Loops
<1>2. SystemInv => BuiltOnlyWithoutCycles
  BY <1>1 DEF SystemInv
<1>3. Spec => []BuiltOnlyWithoutCycles
  BY <1>1, BuilderInvHolds, PTL
<1>4. SystemSpec => []BuiltOnlyWithoutCycles
  BY <1>2, SystemInvHolds, PTL
<1> QED
  BY <1>3, <1>4

\* Devices that share a switch share the root complex above it, for any tree of
\* nodes.
THEOREM SharedSwitchSharesRootHolds ==
    (Spec => []SharedSwitchSharesRoot)
    /\ (SystemSpec => []SharedSwitchSharesRoot)
<1>1. WalkInv => SharedSwitchSharesRoot
  <2> SUFFICES ASSUME WalkInv, phase = "built",
                      NEW m \in DOMAIN nodes, NEW n \in DOMAIN nodes,
                      SameValid(switch[m], switch[n]),
                      root_complex[switch[m]] # 0
               PROVE  root_complex[m] = root_complex[n]
    BY DEF SharedSwitchSharesRoot
  <2>1. DOMAIN root_complex = DOMAIN nodes /\ IsFiniteSet(DOMAIN nodes)
    BY DEF WalkInv
  <2>2. \A k \in DOMAIN nodes :
           /\ IsTop(nodes, k, "ROOT_COMPLEX", root_complex[k])
           /\ IsTop(nodes, k, "SWITCH", switch[k])
    BY <2>1 DEF WalkInv
  <2>3. PICK s : s = switch[m] /\ s = switch[n] /\ s # 0
    BY DEF SameValid
  <2>4. s \in Lineage(nodes, m) /\ s \in Lineage(nodes, n)
    <3>1. IsTop(nodes, m, "SWITCH", s) /\ IsTop(nodes, n, "SWITCH", s)
      BY <2>2, <2>3
    <3> QED
      BY <2>3, <3>1 DEF IsTop
  <2>5. s \in DOMAIN nodes
    BY <2>1, <2>4, LineageUnfolds
  <2>6. PICK q : q = root_complex[s] /\ q # 0
    BY <2>3
  <2>7. IsTop(nodes, s, "ROOT_COMPLEX", q)
    BY <2>2, <2>5, <2>6
  <2>8. root_complex[m] = q
    BY <2>1, <2>2, <2>4, <2>6, <2>7, TopOfAncestor
  <2>9. root_complex[n] = q
    BY <2>1, <2>2, <2>4, <2>6, <2>7, TopOfAncestor
  <2> QED
    BY <2>8, <2>9
<1>2. SystemInv => SharedSwitchSharesRoot
  BY <1>1 DEF SystemInv
<1>3. Spec => []SharedSwitchSharesRoot
  BY <1>1, BuilderInvHolds, PTL
<1>4. SystemSpec => []SharedSwitchSharesRoot
  BY <1>2, SystemInvHolds, PTL
<1> QED
  BY <1>3, <1>4

\* The switch that the snapshot gives for the address of a device is the one of
\* its bus, also where the address resolves to the switch itself.
LEMMA SwitchOfAddress ==
    ASSUME SystemInv, phase = "built",
           NEW a \in placed, a.bus # 0 \/ a.slot # 0
    PROVE  /\ NodeForPci(Snapshot, a) # 0
           /\ switch[NodeForPci(Snapshot, a)] = bus_switch[a.bus]
           /\ a.bus \in DOMAIN bus_switch /\ bus_switch[a.bus] # 0
<1> DEFINE ids == {n \in DOMAIN nodes : nodes[n].pci = a}
<1>1. /\ IsFiniteSet(DOMAIN nodes) /\ DOMAIN nodes \subseteq Nat \ {0}
      /\ \A k \in DOMAIN nodes : IsTop(nodes, k, "SWITCH", switch[k])
  BY TopologyAssumption DEF SystemInv, WalkInv, TopologyTypeOK
<1>2. /\ a.bus \in DOMAIN bus_switch
      /\ bus_switch[a.bus] \in DOMAIN nodes
      /\ nodes[bus_switch[a.bus]] = HostNode("SWITCH", 0, Corner(a.bus))
  BY DEF SystemInv, HostInv
<1>3. NodeForPci(Snapshot, a) = IF ids = {} THEN 0
                                ELSE CHOOSE n \in ids : \A m \in ids : n <= m
  BY DEF NodeForPci, Snapshot
<1>4. ids # {}
  <2>1. PICK n \in DOMAIN nodes :
           nodes[n] = HostNode("DEVICE", bus_switch[a.bus], a)
    BY DEF SystemInv, HostInv
  <2>2. nodes[n].pci = a
    BY <2>1 DEF HostNode
  <2> QED
    BY <2>2
<1>5. ids \subseteq Nat
  BY <1>1
<1>6. PICK n : n = NodeForPci(Snapshot, a)
  OBVIOUS
<1>7. n \in ids
  <2> HIDE DEF ids
  <2>1. \E x \in ids : \A y \in ids : x <= y
    BY <1>4, <1>5, LeastNatural
  <2> QED
    BY <1>3, <1>4, <1>6, <2>1
<1>8. n \in DOMAIN nodes /\ nodes[n].pci = a /\ n # 0
  BY <1>1, <1>7
<1>9. PICK w : w = bus_switch[a.bus]
  OBVIOUS
<1>10. /\ w \in DOMAIN nodes /\ w # 0 /\ nodes[w].kind = "SWITCH"
       /\ nodes[w].parent = 0
  BY <1>1, <1>2, <1>9 DEF HostNode
<1>11. Lineage(nodes, w) = {w}
  <2>1. Lineage(nodes, 0) = {}
    BY <1>1, LineageUnfolds
  <2> QED
    BY <1>1, <1>10, <2>1, LineageStep
<1>12. n = w \/ nodes[n] = HostNode("DEVICE", w, a)
  <2>1. placed # {}
    OBVIOUS
  <2>2. \/ n = seg_rc
        \/ \E b \in DOMAIN bus_switch : n = bus_switch[b]
        \/ \E p \in placed : nodes[n] = HostNode("DEVICE", bus_switch[p.bus], p)
    BY <1>8, <2>1 DEF SystemInv, HostInv
  <2>3. n # seg_rc
    <3> SUFFICES ASSUME n = seg_rc PROVE FALSE
      OBVIOUS
    <3>1. nodes[n] = HostNode("ROOT_COMPLEX", 0, Corner(0))
      BY <2>1 DEF SystemInv, HostInv
    <3>2. a = Corner(0)
      BY <1>8, <3>1 DEF HostNode
    <3> QED
      BY <3>2 DEF Corner
  <2>4. ASSUME NEW b \in DOMAIN bus_switch, n = bus_switch[b]
        PROVE  n = w
    <3>1. nodes[n] = HostNode("SWITCH", 0, Corner(b))
      BY <2>1, <2>4 DEF SystemInv, HostInv
    <3>2. a = Corner(b)
      BY <1>8, <3>1 DEF HostNode
    <3>3. a.bus = b
      BY <3>2 DEF Corner
    <3> QED
      BY <1>9, <2>4, <3>3
  <2>5. ASSUME NEW p \in placed,
               nodes[n] = HostNode("DEVICE", bus_switch[p.bus], p)
        PROVE  nodes[n] = HostNode("DEVICE", w, a)
    <3>1. a = p
      BY <1>8, <2>5 DEF HostNode
    <3> QED
      BY <1>9, <2>5, <3>1
  <2> QED
    BY <2>2, <2>3, <2>4, <2>5
<1>13. IsTop(nodes, n, "SWITCH", switch[n])
  BY <1>1, <1>8
<1>14. switch[n] = w
  <2>1. CASE n = w
    BY <1>10, <1>11, <1>13, <2>1 DEF IsTop
  <2>2. CASE nodes[n] = HostNode("DEVICE", w, a)
    <3>1. nodes[n].kind = "DEVICE" /\ nodes[n].parent = w
      BY <2>2 DEF HostNode
    <3>2. Lineage(nodes, n) = {n, w}
      BY <1>1, <1>8, <1>11, <3>1, LineageStep
    <3> QED
      BY <1>10, <1>13, <3>1, <3>2 DEF IsTop
  <2> QED
    BY <1>12, <2>1, <2>2
<1> QED
  BY <1>2, <1>6, <1>8, <1>9, <1>10, <1>14

\* The snapshot of a host tells devices of one bus from devices of different
\* buses, for any number of devices enumerated in any order.
THEOREM SwitchesFollowBusesHolds == SystemSpec => []SwitchesFollowBuses
<1>1. SystemInv => SwitchesFollowBuses
  <2> SUFFICES ASSUME SystemInv, phase = "built",
                      NEW a \in placed, a.bus # 0 \/ a.slot # 0,
                      NEW b \in placed, b.bus # 0 \/ b.slot # 0
               PROVE  SamePcieSwitch(Snapshot, a, b) <=> a.bus = b.bus
    BY DEF SwitchesFollowBuses
  <2>1. /\ NodeForPci(Snapshot, a) # 0
        /\ switch[NodeForPci(Snapshot, a)] = bus_switch[a.bus]
        /\ a.bus \in DOMAIN bus_switch /\ bus_switch[a.bus] # 0
    BY SwitchOfAddress
  <2>2. /\ NodeForPci(Snapshot, b) # 0
        /\ switch[NodeForPci(Snapshot, b)] = bus_switch[b.bus]
        /\ b.bus \in DOMAIN bus_switch /\ bus_switch[b.bus] # 0
    BY SwitchOfAddress
  <2>3. SamePcieSwitch(Snapshot, a, b) <=> bus_switch[a.bus] = bus_switch[b.bus]
    BY <2>1, <2>2 DEF SamePcieSwitch, SameValid, Snapshot
  <2>4. bus_switch[a.bus] = bus_switch[b.bus] => a.bus = b.bus
    <3> SUFFICES ASSUME bus_switch[a.bus] = bus_switch[b.bus]
                 PROVE  a.bus = b.bus
      OBVIOUS
    <3>1. HostNode("SWITCH", 0, Corner(a.bus)) = HostNode("SWITCH", 0, Corner(b.bus))
      <4>1. nodes[bus_switch[a.bus]] = HostNode("SWITCH", 0, Corner(a.bus))
        BY <2>1 DEF SystemInv, HostInv
      <4>2. nodes[bus_switch[b.bus]] = HostNode("SWITCH", 0, Corner(b.bus))
        BY <2>2 DEF SystemInv, HostInv
      <4> QED
        BY <4>1, <4>2
    <3>2. Corner(a.bus) = Corner(b.bus)
      BY <3>1 DEF HostNode
    <3> QED
      BY <3>2 DEF Corner
  <2> QED
    BY <2>3, <2>4
<1> QED
  BY <1>1, SystemInvHolds, PTL
=============================================================================
