---------------------------- MODULE TrackProofs ----------------------------
(***************************************************************************)
(* Theorems about the track server, for any layouts that fit together, any *)
(* trains, groups and stopping distances, and at the end about the lock    *)
(* that the trains take before they ask for a position.                    *)
(*                                                                         *)
(* reserveEdges and findNextSensorsHelper are recursive.  That each is     *)
(* defined at all rests on the tracks: a call goes down in distance or on  *)
(* the way to the next sensor.  What all their calls keep follows for the  *)
(* lowest call that would not keep it.                                     *)
(***************************************************************************)
EXTENDS Track, Lock, TLAPS, WellFoundedInduction, SequenceTheorems

----------------------------------------------------------------------------
(* Recursive functions.                                                    *)

\* Every set of natural numbers has a least member.
LEMMA LeastNatural ==
  ASSUME NEW B \in SUBSET Nat, B # {}
  PROVE  \E k \in B : \A m \in B : k <= m
<1>1. PICK k \in B : \A m \in B : ~(<<m, k>> \in OpToRel(<, Nat))
  BY WFMin, NatLessThanWellFounded
<1>2. \A m \in B : ~(m < k)
  BY <1>1 DEF OpToRel
<1> QED BY <1>2

\* x is a member of B, and none has a lower rank.
Lowest(S, rank, B, x) == x \in B /\ \A y \in S : rank[y] < rank[x] => y \notin B

\* Every set of things that have a rank has a lowest member.
LEMMA LeastRank ==
  ASSUME NEW S, NEW rank \in [S -> Nat], NEW B \in SUBSET S, B # {}
  PROVE  \E x : Lowest(S, rank, B, x)
<1> DEFINE R == {rank[x] : x \in B}
<1>1. R \in SUBSET Nat /\ R # {}
  OBVIOUS
<1>2. PICK k \in R : \A m \in R : k <= m
  <2> HIDE DEF R
  <2> QED BY <1>1, LeastNatural
<1>3. PICK x \in B : rank[x] = k
  OBVIOUS
<1>4. ASSUME NEW y \in S, rank[y] < rank[x]
      PROVE  y \notin B
  <2>1. y \in B => k <= rank[y]
    BY <1>2
  <2> QED BY <1>3, <1>4, <2>1
<1> QED BY <1>4 DEF Lowest

\* f obeys F wherever the rank is below k.
Obeys(S, rank, F, k, f) == \A x \in S : rank[x] < k => f[x] = F[<<x, f>>]

\* The value of F at x depends on f at arguments of lower rank only.
Descends(S, V, rank, F) ==
  \A x \in S : \A f, g \in [S -> V] :
      (\A y \in S : rank[y] < rank[x] => f[y] = g[y]) => F[<<x, f>>] = F[<<x, g>>]

\* Two functions that obey F below k agree below k.
LEMMA ObeyingIsUnique ==
  ASSUME NEW S, NEW V, NEW rank \in [S -> Nat], NEW F, Descends(S, V, rank, F),
         NEW k \in Nat, NEW f \in [S -> V], NEW g \in [S -> V],
         Obeys(S, rank, F, k, f), Obeys(S, rank, F, k, g),
         NEW x \in S, rank[x] < k
  PROVE  f[x] = g[x]
<1> DEFINE B == {y \in S : rank[y] < k /\ f[y] # g[y]}
<1>1. SUFFICES ASSUME B # {} PROVE FALSE
  OBVIOUS
<1>2. PICK y \in B : \A z \in S : rank[z] < rank[y] => z \notin B
  <2>1. B \in SUBSET S
    OBVIOUS
  <2> HIDE DEF B
  <2>2. \E y : Lowest(S, rank, B, y)
    BY <1>1, <2>1, LeastRank
  <2> QED BY <2>2 DEF Lowest
<1>3. \A z \in S : rank[z] < rank[y] => f[z] = g[z]
  BY <1>2
<1>4. F[<<y, f>>] = F[<<y, g>>]
  BY <1>2, <1>3 DEF Descends
<1>5. f[y] = F[<<y, f>>] /\ g[y] = F[<<y, g>>]
  BY <1>2 DEF Obeys
<1> QED BY <1>2, <1>4, <1>5

\* Below every k some function obeys F.
LEMMA ObeyingExists ==
  ASSUME NEW S, NEW V, V # {}, NEW rank \in [S -> Nat],
         NEW F, \A x \in S : \A f \in [S -> V] : F[<<x, f>>] \in V,
         Descends(S, V, rank, F)
  PROVE  \A k \in Nat : \E f \in [S -> V] : Obeys(S, rank, F, k, f)
<1> DEFINE B == {k \in Nat : ~ \E f \in [S -> V] : Obeys(S, rank, F, k, f)}
<1>1. SUFFICES ASSUME B # {} PROVE FALSE
  OBVIOUS
<1>2. PICK k \in B : \A m \in B : k <= m
  <2>1. B \in SUBSET Nat
    OBVIOUS
  <2> HIDE DEF B
  <2> QED BY <1>1, <2>1, LeastNatural
<1>3. CASE k = 0
  <2>1. PICK v \in V : TRUE
    OBVIOUS
  <2>2. [x \in S |-> v] \in [S -> V]
    OBVIOUS
  <2>3. Obeys(S, rank, F, 0, [x \in S |-> v])
    BY DEF Obeys
  <2> QED BY <1>2, <1>3, <2>2, <2>3
<1>4. CASE k # 0
  <2>1. k - 1 \in Nat /\ ~(k <= k - 1)
    BY <1>2, <1>4
  <2>2. k - 1 \notin B
    <3> HIDE DEF B
    <3> QED BY <1>2, <2>1
  <2>3. PICK f \in [S -> V] : Obeys(S, rank, F, k - 1, f)
    BY <2>1, <2>2
  <2> DEFINE g == [x \in S |-> F[<<x, f>>]]
  <2>4. g \in [S -> V] /\ \A x \in S : g[x] = F[<<x, f>>]
    OBVIOUS
  <2> HIDE DEF g
  <2>5. ASSUME NEW x \in S, rank[x] < k
        PROVE  g[x] = F[<<x, g>>]
    <3>1. ASSUME NEW y \in S, rank[y] < rank[x]
          PROVE  f[y] = g[y]
      <4>1. rank[y] \in Nat /\ rank[x] \in Nat /\ k \in Nat
        BY <1>2
      <4>2. rank[y] < k - 1
        BY <2>5, <3>1, <4>1
      <4> QED BY <2>3, <2>4, <4>2 DEF Obeys
    <3>2. F[<<x, f>>] = F[<<x, g>>]
      BY <2>4, <3>1 DEF Descends
    <3> QED BY <2>4, <3>2
  <2>6. Obeys(S, rank, F, k, g)
    BY <2>5 DEF Obeys
  <2> QED BY <1>2, <2>4, <2>6
<1> QED BY <1>3, <1>4

\* f is a function that obeys F everywhere.
Defines(S, V, F, f) == f \in [S -> V] /\ \A x \in S : f[x] = F[<<x, f>>]

\* What F says of every argument, some function obeys: a definition whose
\* calls go down in rank defines a function.
LEMMA Recursion ==
  ASSUME NEW S, NEW V, V # {}, NEW rank \in [S -> Nat],
         NEW F, \A x \in S : \A f \in [S -> V] : F[<<x, f>>] \in V,
         Descends(S, V, rank, F)
  PROVE  \E f : Defines(S, V, F, f)
<1> DEFINE Below(k) == CHOOSE f \in [S -> V] : Obeys(S, rank, F, k, f)
<1>1. \A k \in Nat : Below(k) \in [S -> V] /\ Obeys(S, rank, F, k, Below(k))
  BY ObeyingExists
<1> HIDE DEF Below
<1> DEFINE f == [x \in S |-> Below(rank[x] + 1)[x]]
<1>2. \A x \in S : rank[x] \in Nat /\ rank[x] + 1 \in Nat /\ rank[x] < rank[x] + 1
  OBVIOUS
<1>3. f \in [S -> V] /\ \A x \in S : f[x] = Below(rank[x] + 1)[x]
  BY <1>1, <1>2
<1> HIDE DEF f
<1>4. ASSUME NEW x \in S
      PROVE  f[x] = F[<<x, f>>]
  <2> DEFINE h == Below(rank[x] + 1)
  <2>1. h \in [S -> V] /\ Obeys(S, rank, F, rank[x] + 1, h)
    BY <1>1, <1>2
  <2>2. ASSUME NEW y \in S, rank[y] < rank[x]
        PROVE  h[y] = f[y]
    <3> DEFINE e == Below(rank[y] + 1)
    <3>1. e \in [S -> V] /\ Obeys(S, rank, F, rank[y] + 1, e)
      BY <1>1, <1>2
    <3> HIDE DEF h, e
    <3>2. Obeys(S, rank, F, rank[y] + 1, h)
      <4>1. \A z \in S : rank[z] < rank[y] + 1 => rank[z] < rank[x] + 1
        BY <1>2, <2>2
      <4> QED BY <2>1, <4>1 DEF Obeys
    <3>3. h[y] = e[y]
      BY <1>2, <2>1, <3>1, <3>2, ObeyingIsUnique
    <3> QED BY <1>3, <3>3 DEF e
  <2>3. F[<<x, h>>] = F[<<x, f>>]
    <3> HIDE DEF h
    <3> QED BY <1>3, <2>1, <2>2 DEF Descends
  <2>4. h[x] = F[<<x, h>>]
    <3> HIDE DEF h
    <3> QED BY <1>2, <2>1 DEF Obeys
  <2> QED BY <1>3, <2>3, <2>4
<1> QED BY <1>3, <1>4 DEF Defines

\* f is what a loop of k steps computes from z, F being a step.
Loops(k, V, z, F, f) ==
  /\ f \in [0 .. k -> V]
  /\ \A i \in 0 .. k : f[i] = IF i = 0 THEN z ELSE F[<<i, f[i - 1]>>]

\* A loop of k steps defines a function on 0 .. k.
LEMMA Chain ==
  ASSUME NEW k \in Nat, NEW V, NEW z \in V,
         NEW F, \A i \in 1 .. k : \A v \in V : F[<<i, v>>] \in V
  PROVE  \E f : Loops(k, V, z, F, f)
<1> DEFINE S    == 0 .. k
           rank == [i \in S |-> i]
           G    == [p \in S \X [S -> V] |-> IF p[1] = 0 THEN z ELSE F[<<p[1], p[2][p[1] - 1]>>]]
<1>1. rank \in [S -> Nat] /\ \A i \in S : rank[i] = i
  OBVIOUS
<1>2. \A i \in S : \A f \in [S -> V] : G[<<i, f>>] = IF i = 0 THEN z ELSE F[<<i, f[i - 1]>>]
  OBVIOUS
<1> HIDE DEF rank, G
<1>3. ASSUME NEW i \in S, NEW f \in [S -> V]
      PROVE  G[<<i, f>>] \in V
  <2>1. i # 0 => i - 1 \in S /\ i \in 1 .. k
    OBVIOUS
  <2>2. i # 0 => f[i - 1] \in V
    BY <2>1
  <2>3. i # 0 => F[<<i, f[i - 1]>>] \in V
    BY <2>1, <2>2
  <2> HIDE DEF S
  <2> QED BY <1>2, <2>3
<1>4. Descends(S, V, rank, G)
  <2> SUFFICES ASSUME NEW i \in S, NEW f \in [S -> V], NEW g \in [S -> V],
                      \A j \in S : rank[j] < rank[i] => f[j] = g[j]
               PROVE  G[<<i, f>>] = G[<<i, g>>]
    BY DEF Descends
  <2>1. i # 0 => i - 1 \in S /\ rank[i - 1] < rank[i]
    BY <1>1
  <2>2. i # 0 => f[i - 1] = g[i - 1]
    BY <2>1
  <2>3. G[<<i, f>>] = IF i = 0 THEN z ELSE F[<<i, f[i - 1]>>]
    BY <1>2
  <2>4. G[<<i, g>>] = IF i = 0 THEN z ELSE F[<<i, g[i - 1]>>]
    BY <1>2
  <2> QED BY <2>2, <2>3, <2>4
<1>5. V # {}
  OBVIOUS
<1>6. PICK f : Defines(S, V, G, f)
  <2> HIDE DEF S
  <2> QED BY <1>1, <1>3, <1>4, <1>5, Recursion
<1>7. f \in [S -> V] /\ \A i \in S : f[i] = IF i = 0 THEN z ELSE F[<<i, f[i - 1]>>]
  <2>1. f \in [S -> V] /\ \A i \in S : f[i] = G[<<i, f>>]
    BY <1>6 DEF Defines
  <2> HIDE DEF S
  <2> QED BY <1>2, <2>1
<1> QED BY <1>7 DEF Loops

\* What the first value has and each step keeps, every value of a loop has.
LEMMA ChainKeeps ==
  ASSUME NEW k \in Nat, NEW V, NEW g, g[0] \in V,
         \A i \in 1 .. k : g[i - 1] \in V => g[i] \in V
  PROVE  \A i \in 0 .. k : g[i] \in V
<1> DEFINE B == {i \in 0 .. k : g[i] \notin V}
<1>1. SUFFICES ASSUME B # {} PROVE FALSE
  OBVIOUS
<1>2. PICK i \in B : \A j \in B : i <= j
  <2>1. B \in SUBSET Nat
    OBVIOUS
  <2> HIDE DEF B
  <2> QED BY <1>1, <2>1, LeastNatural
<1>3. i \in 1 .. k /\ i - 1 \in 0 .. k /\ ~(i <= i - 1)
  BY <1>2
<1>4. i - 1 \notin B
  <2> HIDE DEF B
  <2> QED BY <1>2, <1>3
<1> QED BY <1>2, <1>3, <1>4

----------------------------------------------------------------------------
(* The layouts.                                                            *)

\* The edges of a node start there and are edges of the layout.
LEMMA LegsAreEdges ==
  ASSUME NEW g, IsLayout(g)
  PROVE  /\ \A n \in Nodes(g) : Legs(g, n) \subseteq g.edge
         /\ \A n \in Nodes(g) : \A e \in Legs(g, n) : e[1] = n
         /\ \A e \in g.edge : e[1] \in Nodes(g) /\ e \in Legs(g, e[1])
         /\ \A n \in Nodes(g) : Type(g, n) # "EXIT" => <<n, 0>> \in g.edge
         /\ \A n \in Nodes(g) : Type(g, n) = "BRANCH" => <<n, 1>> \in g.edge
<1>1. g.edge = UNION {Legs(g, n) : n \in Nodes(g)}
  BY DEF IsLayout
<1>2. ASSUME NEW n \in Nodes(g), NEW e \in Legs(g, n)
      PROVE  e[1] = n /\ e \in g.edge
  BY <1>1, <1>2 DEF Legs
<1>3. ASSUME NEW e \in g.edge
      PROVE  e[1] \in Nodes(g) /\ e \in Legs(g, e[1])
  <2>1. PICK n \in Nodes(g) : e \in Legs(g, n)
    BY <1>1
  <2> QED BY <1>2, <2>1
<1>4. ASSUME NEW n \in Nodes(g)
      PROVE  /\ Type(g, n) # "EXIT" => <<n, 0>> \in Legs(g, n)
             /\ Type(g, n) = "BRANCH" => <<n, 1>> \in Legs(g, n)
  BY DEF IsLayout
<1> QED BY <1>2, <1>3, <1>4

\* The way back along an edge leads to the reverse of the node it starts at,
\* the switch a merge closes is its reverse, and a way back that starts at no
\* branch is the only edge of its node.
LEMMA WaysBack ==
  ASSUME NEW g, IsLayout(g)
  PROVE  /\ \A e \in g.edge : Dest(g, Back(g, e)) = Rev(g, e[1])
         /\ \A e \in g.edge : Type(g, Dest(g, e)) # "MERGE" => Back(g, e) = <<Rev(g, Dest(g, e)), 0>>
         /\ \A n \in Nodes(g) : Type(g, n) = "MERGE" =>
                Facing(g, n) = Rev(g, n) /\ Facing(g, n) \in Nodes(g) /\ Type(g, Facing(g, n)) = "BRANCH"
<1>1. ASSUME NEW e \in g.edge
      PROVE  Dest(g, Back(g, e)) = Rev(g, e[1])
  <2>1. Back(g, e) \in g.edge /\ Back(g, Back(g, e)) = e /\ Dest(g, Back(g, e)) \in Nodes(g)
    BY DEF IsLayout
  <2>2. e[1] = Rev(g, Dest(g, Back(g, e)))
    BY <2>1 DEF IsLayout
  <2> QED BY <2>1, <2>2 DEF IsLayout
<1>2. ASSUME NEW e \in g.edge, Type(g, Dest(g, e)) # "MERGE"
      PROVE  Back(g, e) = <<Rev(g, Dest(g, e)), 0>>
  <2> DEFINE m == Rev(g, Dest(g, e))
  <2>1. Back(g, e) \in g.edge /\ Back(g, e)[1] = m /\ Dest(g, e) \in Nodes(g)
    BY DEF IsLayout
  <2>2. m \in Nodes(g) /\ Rev(g, m) = Dest(g, e)
    BY <2>1 DEF IsLayout
  <2>3. Type(g, m) # "BRANCH"
    BY <1>2, <2>2 DEF IsLayout
  <2>4. Legs(g, m) \subseteq {<<m, 0>>}
    BY <2>2, <2>3 DEF IsLayout
  <2>5. Back(g, e) \in Legs(g, m)
    BY <2>1, LegsAreEdges
  <2> QED BY <2>4, <2>5
<1>3. ASSUME NEW n \in Nodes(g), Type(g, n) = "MERGE"
      PROVE  Facing(g, n) = Rev(g, n) /\ Facing(g, n) \in Nodes(g) /\ Type(g, Facing(g, n)) = "BRANCH"
  <2>1. <<n, 0>> \in g.edge /\ <<n, 0>>[1] = n
    BY <1>3, LegsAreEdges
  <2>2. Facing(g, n) = Rev(g, n)
    BY <1>1, <2>1 DEF Facing
  <2>3. Rev(g, n) \in Nodes(g) /\ Rev(g, Rev(g, n)) = n
    BY DEF IsLayout
  <2> QED BY <1>3, <2>2, <2>3 DEF IsLayout
<1> QED BY <1>1, <1>2, <1>3

\* rank goes down along every edge that does not start at a sensor.
Ranks(g, rank) ==
  \A e \in g.edge : ~PassesSensor(g, e[1]) => rank[Dest(g, e)] < rank[e[1]]

\* The nodes of a layout have such a rank: how long one can go on from the
\* node without coming past a sensor.
LEMMA Ranked ==
  ASSUME NEW g, IsLayout(g)
  PROVE  \E rank \in [Nodes(g) -> 0 .. Len(g.node)] : Ranks(g, rank)
<1> DEFINE N == Len(g.node)
           U == Unsensed(g)
           V == SUBSET Nodes(g)
           F == [p \in (1 .. N) \X V |-> Before(g, p[2])]
<1>1. N \in Nat
  BY DEF IsLayout
<1>2. \A i \in 1 .. N : \A v \in V : F[<<i, v>>] = Before(g, v) /\ F[<<i, v>>] \in V
  BY DEF Before
<1>3. \E f : f = [k \in 0 .. N |-> IF k = 0 THEN Nodes(g) ELSE Before(g, f[k - 1])]
  <2> HIDE DEF F, N
  <2>1. Nodes(g) \in V
    OBVIOUS
  <2> HIDE DEF V
  <2>2. PICK f : Loops(N, V, Nodes(g), F, f)
    BY <1>1, <1>2, <2>1, Chain
  <2>3. ASSUME NEW i \in 0 .. N
        PROVE  f[i] = IF i = 0 THEN Nodes(g) ELSE Before(g, f[i - 1])
    <3>1. i # 0 => i - 1 \in 0 .. N /\ i \in 1 .. N
      BY <1>1
    <3>2. i # 0 => f[i - 1] \in V
      BY <2>2, <3>1 DEF Loops
    <3> QED BY <1>2, <2>2, <3>1, <3>2 DEF Loops
  <2>4. f = [k \in 0 .. N |-> f[k]]
    BY <2>2 DEF Loops
  <2> QED BY <2>3, <2>4
<1>4. U = [k \in 0 .. N |-> IF k = 0 THEN Nodes(g) ELSE Before(g, U[k - 1])]
  BY <1>3 DEF Unsensed
<1>5. /\ U[0] = Nodes(g)
      /\ \A k \in 1 .. N : U[k] = Before(g, U[k - 1])
      /\ \E k \in 0 .. N : U[k] = {}
  <2>1. 0 \in 0 .. N /\ \A k \in 1 .. N : k \in 0 .. N /\ k # 0
    BY <1>1
  <2>2. \E k \in 0 .. N : U[k] = {}
    BY DEF IsLayout
  <2> HIDE DEF U, N
  <2> QED BY <1>4, <2>1, <2>2
<1> DEFINE Least(n, j) == n \notin U[j] /\ \A i \in 0 .. N : n \notin U[i] => j <= i
<1> HIDE DEF U, F, N
<1>6. ASSUME NEW n \in Nodes(g)
      PROVE  \E j \in 0 .. N : Least(n, j)
  <2> DEFINE B == {i \in 0 .. N : n \notin U[i]}
  <2>1. B \in SUBSET Nat /\ B # {}
    BY <1>5
  <2>2. PICK j \in B : \A i \in B : j <= i
    <3> HIDE DEF B
    <3> QED BY <2>1, LeastNatural
  <2> QED BY <2>2
<1> DEFINE rank == [n \in Nodes(g) |-> CHOOSE j \in 0 .. N : Least(n, j)]
<1>7. rank \in [Nodes(g) -> 0 .. N] /\ \A n \in Nodes(g) : Least(n, rank[n])
  <2> HIDE DEF Least
  <2> QED BY <1>6
<1> HIDE DEF rank
<1>8. ASSUME NEW e \in g.edge, ~PassesSensor(g, e[1])
      PROVE  rank[Dest(g, e)] < rank[e[1]]
  <2>1. e[1] \in Nodes(g) /\ e \in Legs(g, e[1]) /\ Dest(g, e) \in Nodes(g)
    BY LegsAreEdges DEF IsLayout
  <2>2. rank[e[1]] \in 0 .. N /\ rank[e[1]] # 0
    BY <1>5, <1>7, <2>1
  <2>3. rank[e[1]] \in 1 .. N /\ rank[e[1]] - 1 \in 0 .. N
    BY <1>1, <2>2
  <2>4. Dest(g, e) \notin U[rank[e[1]] - 1]
    BY <1>5, <1>7, <1>8, <2>1, <2>3 DEF Before
  <2>5. rank[Dest(g, e)] <= rank[e[1]] - 1
    BY <1>7, <2>1, <2>3, <2>4
  <2>6. rank[Dest(g, e)] \in 0 .. N
    BY <1>7, <2>1
  <2> QED BY <1>1, <2>2, <2>5, <2>6
<1> QED BY <1>7, <1>8 DEF Ranks, N

----------------------------------------------------------------------------
(* The marks of a node.                                                    *)

\* With an edge, the set has its other direction.
Paired(g, S) == S \subseteq g.edge /\ \A e \in S : Back(g, e) \in S

LEMMA WithBacksIsPaired ==
  ASSUME NEW g, IsLayout(g), NEW S \in SUBSET g.edge
  PROVE  Paired(g, WithBacks(g, S))
<1>1. \A e \in S : e \in g.edge /\ Back(g, e) \in g.edge /\ Back(g, Back(g, e)) = e
  BY DEF IsLayout
<1> QED BY <1>1 DEF Paired, WithBacks

\* Pairs of edges stay together.
LEMMA PairedParts ==
  ASSUME NEW g, IsLayout(g), NEW A, NEW B, Paired(g, A), Paired(g, B)
  PROVE  Paired(g, A \cup B) /\ Paired(g, A \ B) /\ Paired(g, A \cap B)
<1>1. ASSUME NEW e \in A \ B
      PROVE  Back(g, e) \in A \ B
  <2>1. e \in g.edge /\ Back(g, e) \in A
    BY DEF Paired
  <2>2. Back(g, Back(g, e)) = e
    BY <2>1 DEF IsLayout
  <2>3. Back(g, e) \in B => e \in B
    BY <2>2 DEF Paired
  <2> QED BY <2>1, <2>3
<1> QED BY <1>1 DEF Paired

\* Every mark a node makes is made on both directions of a piece of track.
LEMMA MarksArePaired ==
  ASSUME NEW g, IsLayout(g), NEW n \in Nodes(g), Type(g, n) # "EXIT", NEW own
  PROVE  /\ Paired(g, Claim(g, n))
         /\ Paired(g, CentreEdges(g, n))
         /\ Paired(g, Marked(g, n, own))
<1>1. Type(g, n) = "MERGE" => Facing(g, n) \in Nodes(g) /\ Type(g, Facing(g, n)) = "BRANCH"
  BY WaysBack
<1>2. Paired(g, Claim(g, n))
  <2>1. Legs(g, n) \subseteq g.edge /\ (Type(g, n) = "MERGE" => Legs(g, Facing(g, n)) \subseteq g.edge)
    BY <1>1, LegsAreEdges
  <2> QED BY <2>1, WithBacksIsPaired DEF Claim
<1>3. Paired(g, CentreEdges(g, n))
  <2>1. CASE Centre(g, n) = -1
    BY <2>1 DEF CentreEdges, Paired
  <2>2. CASE Centre(g, n) # -1
    <3>1. Type(g, n) = "MERGE" /\ Centre(g, n) = Dest(g, <<Facing(g, n), 0>>)
      BY <2>2 DEF Centre
    <3>2. <<Facing(g, n), 0>> \in g.edge
      BY <1>1, <3>1, LegsAreEdges
    <3>3. Centre(g, n) \in Nodes(g)
      BY <3>1, <3>2 DEF IsLayout
    <3>4. Legs(g, Centre(g, n)) \in SUBSET g.edge
      BY <3>3, LegsAreEdges
    <3> QED BY <2>2, <3>4, WithBacksIsPaired DEF CentreEdges
  <2> QED BY <2>1, <2>2
<1>4. Paired(g, Taken(g, n, own))
  BY <1>3 DEF Taken, Paired
<1> QED BY <1>2, <1>3, <1>4, PairedParts DEF Marked

\* What a train may see of the owners when both directions of every piece of
\* track have one.
PairedSides(g) == {own \in Sides(g) : /\ Paired(g, own.mine) /\ Paired(g, own.others)
                                      /\ own.mine \cap own.others = {}}

\* Q has the sides that marks and their removal lead to.
Kept(g, Q) ==
  /\ Q \subseteq Sides(g)
  /\ \A own \in Q : \A S \in SUBSET g.edge :
         Paired(g, S) => /\ [mine |-> own.mine \cup S, others |-> own.others \ S] \in Q
                         /\ [mine |-> own.mine \ S, others |-> own.others \ S] \in Q
  /\ \A old, own \in Q : \A S, T \in SUBSET g.edge :
         Paired(g, S) /\ Paired(g, T) /\ T \subseteq S =>
             [mine   |-> (own.mine \ S) \cup (old.mine \cap T),
              others |-> (own.others \ S) \cup (old.others \cap T)] \in Q

LEMMA SidesKept ==
  ASSUME NEW g, IsLayout(g)
  PROVE  Kept(g, Sides(g)) /\ Kept(g, PairedSides(g))
<1>1. Kept(g, Sides(g))
  BY DEF Kept, Sides
<1>2. ASSUME NEW own \in PairedSides(g), NEW S \in SUBSET g.edge, Paired(g, S)
      PROVE  /\ [mine |-> own.mine \cup S, others |-> own.others \ S] \in PairedSides(g)
             /\ [mine |-> own.mine \ S, others |-> own.others \ S] \in PairedSides(g)
  <2>1. /\ own \in Sides(g) /\ Paired(g, own.mine) /\ Paired(g, own.others)
        /\ own.mine \cap own.others = {}
    BY DEF PairedSides
  <2>2. /\ Paired(g, own.mine \cup S) /\ Paired(g, own.mine \ S)
        /\ Paired(g, own.others \ S)
    BY <1>2, <2>1, PairedParts
  <2> QED BY <1>1, <1>2, <2>1, <2>2 DEF PairedSides, Kept
<1>3. ASSUME NEW old \in PairedSides(g), NEW own \in PairedSides(g),
             NEW S \in SUBSET g.edge, NEW T \in SUBSET g.edge, Paired(g, S), Paired(g, T), T \subseteq S
      PROVE  [mine   |-> (own.mine \ S) \cup (old.mine \cap T),
              others |-> (own.others \ S) \cup (old.others \cap T)] \in PairedSides(g)
  <2>1. /\ own \in Sides(g) /\ Paired(g, own.mine) /\ Paired(g, own.others)
        /\ old \in Sides(g) /\ Paired(g, old.mine) /\ Paired(g, old.others)
        /\ own.mine \cap own.others = {} /\ old.mine \cap old.others = {}
    BY DEF PairedSides
  <2>2. /\ Paired(g, own.mine \ S) /\ Paired(g, own.others \ S)
        /\ Paired(g, old.mine \cap T) /\ Paired(g, old.others \cap T)
    BY <1>3, <2>1, PairedParts
  <2>3. /\ Paired(g, (own.mine \ S) \cup (old.mine \cap T))
        /\ Paired(g, (own.others \ S) \cup (old.others \cap T))
    BY <2>2, PairedParts
  <2> QED BY <1>1, <1>3, <2>1, <2>3 DEF PairedSides, Kept
<1>4. PairedSides(g) \subseteq Sides(g)
  BY DEF PairedSides
<1> QED BY <1>1, <1>2, <1>3, <1>4 DEF Kept

\* What reserveEdges may return.
Results(Q) == [ok : BOOLEAN, own : Q, clash : BOOLEAN]

\* Leaving a node ends with sides of Q.
LEMMA LeaveKeeps ==
  ASSUME NEW g, IsLayout(g), NEW Q, Kept(g, Q), NEW dryrun \in BOOLEAN,
         NEW n \in Nodes(g), Type(g, n) # "EXIT", NEW own \in Q, NEW r \in Results(Q)
  PROVE  Leave(g, dryrun, n, own, r) \in Results(Q)
<1> DEFINE marked == Marked(g, n, own)
           all    == marked \cup CentreEdges(g, n)
           back   == [mine   |-> (r.own.mine \ all) \cup (own.mine \cap marked),
                      others |-> (r.own.others \ all) \cup (own.others \cap marked)]
           fail   == [mine |-> r.own.mine \ all, others |-> r.own.others \ all]
<1>1. Paired(g, marked) /\ Paired(g, all)
  BY MarksArePaired, PairedParts
<1>2. marked \in SUBSET g.edge /\ all \in SUBSET g.edge /\ marked \subseteq all
  BY <1>1 DEF Paired
<1>3. r.own \in Q /\ r.ok \in BOOLEAN /\ r.clash \in BOOLEAN
      /\ r = [ok |-> r.ok, own |-> r.own, clash |-> r.clash]
  BY DEF Results
<1>4. back \in Q /\ fail \in Q
  <2> HIDE DEF marked, all
  <2> QED BY <1>1, <1>2, <1>3 DEF Kept
<1>5. Leave(g, dryrun, n, own, r) = IF dryrun THEN [r EXCEPT !.own = back]
                                    ELSE IF ~r.ok THEN [r EXCEPT !.own = fail] ELSE r
  BY DEF Leave
<1> HIDE DEF back, fail
<1> QED BY <1>3, <1>4, <1>5 DEF Results

----------------------------------------------------------------------------
(* reserveEdges is defined: its calls go down.                             *)

\* How much is left of a call: first the distance, then the way to a sensor.
Weight(g, n, D)    == IF D > 0 THEN D + 1 ELSE IF PassesSensor(g, n) THEN 1 ELSE 0
Height(g, rank, n, D) == Weight(g, n, D) * (Len(g.node) + 1) + rank[n]
HeightOf(g, rank)  == [c \in Calls(g) |-> Height(g, rank, c.node, c.dist)]

\* The first of two numbers decides.
LEMMA FirstDecides ==
  ASSUME NEW N \in Nat, NEW v \in Nat, NEW w \in Nat, NEW a \in 0 .. N, NEW b \in 0 .. N,
         v < w \/ (v = w /\ a < b)
  PROVE  v * (N + 1) + a < w * (N + 1) + b
<1>1. CASE v < w
  <2>1. PICK k \in Nat : w = v + 1 + k
    <3>1. w - v - 1 \in Nat /\ w = v + 1 + (w - v - 1)
      BY <1>1
    <3> QED BY <3>1
  <2>2. w * (N + 1) = v * (N + 1) + (N + 1) + k * (N + 1)
    BY <2>1
  <2>3. k * (N + 1) \in Nat /\ v * (N + 1) \in Nat /\ w * (N + 1) \in Nat
    OBVIOUS
  <2> DEFINE x == v * (N + 1)
             y == w * (N + 1)
             z == k * (N + 1)
  <2>4. y = x + (N + 1) + z /\ x \in Nat /\ z \in Nat
    BY <2>2, <2>3
  <2> HIDE DEF x, y, z
  <2>5. x + a < y + b
    BY <2>4
  <2> QED BY <2>5 DEF x, y
<1>2. CASE v = w /\ a < b
  <2> DEFINE x == v * (N + 1)
  <2>1. x \in Nat
    OBVIOUS
  <2> HIDE DEF x
  <2>2. x + a < x + b
    BY <1>2, <2>1
  <2> QED BY <1>2, <2>2 DEF x
<1> QED BY <1>1, <1>2

LEMMA HeightIsNatural ==
  ASSUME NEW g, IsLayout(g), NEW rank \in [Nodes(g) -> 0 .. Len(g.node)]
  PROVE  HeightOf(g, rank) \in [Calls(g) -> Nat]
<1>1. ASSUME NEW c \in Calls(g)
      PROVE  Height(g, rank, c.node, c.dist) \in Nat
  <2>1. c.node \in Nodes(g) /\ c.dist \in Int
    BY DEF Calls
  <2>2. Weight(g, c.node, c.dist) \in Nat /\ Len(g.node) + 1 \in Nat /\ rank[c.node] \in Nat
    BY <2>1 DEF Weight, IsLayout
  <2>3. Weight(g, c.node, c.dist) * (Len(g.node) + 1) \in Nat
    BY <2>2
  <2> QED BY <2>2, <2>3 DEF Height
<1> QED BY <1>1 DEF HeightOf

\* The call for the next node is lower than that for the node it comes from.
LEMMA FollowDescends ==
  ASSUME NEW g, IsLayout(g), NEW rank \in [Nodes(g) -> 0 .. Len(g.node)], Ranks(g, rank),
         NEW D \in Int, NEW e \in g.edge,
         IsSwitch(g, Dest(g, e)) \/ D - Dist(g, e) > 0
  PROVE  Height(g, rank, Dest(g, e), D - Dist(g, e)) < Height(g, rank, e[1], D)
<1> DEFINE n == e[1]
           m == Dest(g, e)
           l == Dist(g, e)
<1>1. n \in Nodes(g) /\ m \in Nodes(g) /\ l \in Nat /\ (l = 0 => ~PassesSensor(g, n))
  BY LegsAreEdges DEF IsLayout
<1>2. IsSwitch(g, m) => ~PassesSensor(g, m)
  BY DEF IsSwitch, PassesSensor
<1>3. ~PassesSensor(g, n) => rank[m] < rank[n]
  BY DEF Ranks
<1>4. Weight(g, m, D - l) \in Nat /\ Weight(g, n, D) \in Nat
      /\ rank[m] \in 0 .. Len(g.node) /\ rank[n] \in 0 .. Len(g.node)
  BY <1>1 DEF Weight
<1>5. \/ Weight(g, m, D - l) < Weight(g, n, D)
      \/ Weight(g, m, D - l) = Weight(g, n, D) /\ rank[m] < rank[n]
  <2> HIDE DEF n, m, l
  <2>1. IsSwitch(g, m) \/ D - l > 0
    BY DEF m, l
  <2>2. CASE D > 0 /\ D - l > 0
    BY <1>1, <1>3, <2>2 DEF Weight
  <2>3. CASE D > 0 /\ ~(D - l > 0)
    BY <1>1, <1>2, <2>1, <2>3 DEF Weight
  <2>4. CASE ~(D > 0)
    <3>1. ~(D - l > 0)
      BY <1>1, <2>4
    <3>2. Weight(g, m, D - l) = 0
      BY <1>2, <2>1, <3>1 DEF Weight
    <3> QED BY <1>3, <2>4, <3>2 DEF Weight
  <2> QED BY <2>2, <2>3, <2>4
<1> HIDE DEF n, m, l
<1>6. Len(g.node) \in Nat
  BY DEF IsLayout
<1>7. Height(g, rank, m, D - l) < Height(g, rank, n, D)
  BY <1>4, <1>5, <1>6, FirstDecides DEF Height
<1> QED BY <1>7 DEF n, m, l
\* Calls lower than one for n with D left.
Lower(g, rank, n, D) == {c \in Calls(g) : Height(g, rank, c.node, c.dist) < Height(g, rank, n, D)}

\* The call an edge leads to is lower than the one for the node before.
LEMMA FollowIsLower ==
  ASSUME NEW g, IsLayout(g), NEW rank \in [Nodes(g) -> 0 .. Len(g.node)], Ranks(g, rank),
         NEW D \in Int, NEW e \in g.edge, NEW own \in Sides(g),
         IsSwitch(g, Dest(g, e)) \/ D - Dist(g, e) > 0
  PROVE  Call(Dest(g, e), D - Dist(g, e), own) \in Lower(g, rank, e[1], D)
<1>1. Dest(g, e) \in Nodes(g) /\ D - Dist(g, e) \in Int
  BY DEF IsLayout
<1>2. Call(Dest(g, e), D - Dist(g, e), own) \in Calls(g)
  BY <1>1 DEF Call, Calls
<1>3. Height(g, rank, Dest(g, e), D - Dist(g, e)) < Height(g, rank, e[1], D)
  BY FollowDescends
<1> QED BY <1>2, <1>3 DEF Lower, Call

LEMMA FollowKeeps ==
  ASSUME NEW g, IsLayout(g), NEW rank \in [Nodes(g) -> 0 .. Len(g.node)], Ranks(g, rank),
         NEW Q, Kept(g, Q), NEW D \in Int, NEW e \in g.edge, NEW r \in Results(Q), NEW walk,
         \A c \in Lower(g, rank, e[1], D) : c.own \in Q => walk[c] \in Results(Q)
  PROVE  Follow(g, walk, D, r, e) \in Results(Q)
<1> DEFINE c == Call(Dest(g, e), D - Dist(g, e), r.own)
           goes == r.ok /\ (IsSwitch(g, Dest(g, e)) \/ D - Dist(g, e) > 0)
<1>1. r.own \in Q /\ r.own \in Sides(g) /\ r.clash \in BOOLEAN
  BY DEF Results, Kept
<1>2. Follow(g, walk, D, r, e) =
        IF goes THEN [walk[c] EXCEPT !.clash = @ \/ r.clash] ELSE r
  BY DEF Follow
<1>3. goes => walk[c] \in Results(Q)
  <2> SUFFICES ASSUME goes PROVE walk[c] \in Results(Q)
    OBVIOUS
  <2>1. c \in Lower(g, rank, e[1], D)
    BY <1>1, FollowIsLower
  <2>2. c.own = r.own
    BY DEF Call
  <2> HIDE DEF c
  <2> QED BY <1>1, <2>1, <2>2
<1> HIDE DEF c, goes
<1>4. ASSUME NEW w \in Results(Q)
      PROVE  [w EXCEPT !.clash = @ \/ r.clash] \in Results(Q)
  BY DEF Results
<1> QED BY <1>2, <1>3, <1>4

LEMMA FollowLocal ==
  ASSUME NEW g, IsLayout(g), NEW rank \in [Nodes(g) -> 0 .. Len(g.node)], Ranks(g, rank),
         NEW D \in Int, NEW e \in g.edge, NEW r \in Results(Sides(g)), NEW f, NEW h,
         \A c \in Lower(g, rank, e[1], D) : f[c] = h[c]
  PROVE  Follow(g, f, D, r, e) = Follow(g, h, D, r, e)
<1> DEFINE c == Call(Dest(g, e), D - Dist(g, e), r.own)
           goes == r.ok /\ (IsSwitch(g, Dest(g, e)) \/ D - Dist(g, e) > 0)
<1>1. r.own \in Sides(g)
  BY DEF Results
<1>2. /\ Follow(g, f, D, r, e) = IF goes THEN [f[c] EXCEPT !.clash = @ \/ r.clash] ELSE r
      /\ Follow(g, h, D, r, e) = IF goes THEN [h[c] EXCEPT !.clash = @ \/ r.clash] ELSE r
  BY DEF Follow
<1>3. goes => f[c] = h[c]
  BY <1>1, FollowIsLower
<1> HIDE DEF c, goes
<1> QED BY <1>2, <1>3

\* What a node starts with: its marks made.
Start(g, n, own) ==
  Result(TRUE, [mine |-> own.mine \cup Marked(g, n, own), others |-> own.others \ Marked(g, n, own)],
        Taken(g, n, own) # CentreEdges(g, n))

LEMMA StartKeeps ==
  ASSUME NEW g, IsLayout(g), NEW Q, Kept(g, Q), NEW n \in Nodes(g), Type(g, n) # "EXIT", NEW own \in Q
  PROVE  Start(g, n, own) \in Results(Q)
<1>1. Paired(g, Marked(g, n, own))
  BY MarksArePaired
<1>2. Marked(g, n, own) \in SUBSET g.edge
  BY <1>1 DEF Paired
<1>3. [mine |-> own.mine \cup Marked(g, n, own), others |-> own.others \ Marked(g, n, own)] \in Q
  BY <1>1, <1>2 DEF Kept
<1> QED BY <1>3 DEF Start, Result, Results

\* A visit answers with sides of Q if the calls it makes do.
LEMMA VisitKeeps ==
  ASSUME NEW g, IsLayout(g), NEW rank \in [Nodes(g) -> 0 .. Len(g.node)], Ranks(g, rank),
         NEW Q, Kept(g, Q), NEW dryrun \in BOOLEAN, NEW walk,
         NEW n \in Nodes(g), NEW D \in Int, NEW own \in Q,
         \A c \in Lower(g, rank, n, D) : c.own \in Q => walk[c] \in Results(Q)
  PROVE  Visit(g, dryrun, walk, n, D, own) \in Results(Q)
<1> DEFINE stops == \/ Type(g, n) = "EXIT"
                    \/ Type(g, n) # "ENTER" /\ <<n, 0>> \in own.mine /\ D < 0
           taken == Claim(g, n) \cap own.others # {}
           ahead == Follow(g, walk, D, Start(g, n, own), <<n, 0>>)
           both  == IF Type(g, n) = "BRANCH" THEN Follow(g, walk, D, ahead, <<n, 1>>) ELSE ahead
<1>1. Visit(g, dryrun, walk, n, D, own) =
        IF stops THEN Result(TRUE, own, FALSE)
        ELSE IF taken THEN Result(FALSE, own, TRUE)
        ELSE Leave(g, dryrun, n, own, both)
  BY DEF Visit, Start
<1>2. Result(TRUE, own, FALSE) \in Results(Q) /\ Result(FALSE, own, TRUE) \in Results(Q)
  BY DEF Result, Results
<1>3. CASE Type(g, n) # "EXIT"
  <2>1. <<n, 0>> \in g.edge /\ (Type(g, n) = "BRANCH" => <<n, 1>> \in g.edge)
    BY <1>3, LegsAreEdges
  <2>2. <<n, 0>>[1] = n /\ <<n, 1>>[1] = n
    OBVIOUS
  <2>3. ahead \in Results(Q)
    BY <1>3, <2>1, <2>2, StartKeeps, FollowKeeps
  <2> HIDE DEF ahead
  <2>4. both \in Results(Q)
    BY <2>1, <2>2, <2>3, FollowKeeps
  <2> HIDE DEF both
  <2>5. Leave(g, dryrun, n, own, both) \in Results(Q)
    BY <1>3, <2>4, LeaveKeeps
  <2> QED BY <1>1, <1>2, <2>5
<1>4. CASE Type(g, n) = "EXIT"
  BY <1>1, <1>2, <1>4
<1> QED BY <1>3, <1>4

\* A visit depends on lower calls only.
LEMMA VisitLocal ==
  ASSUME NEW g, IsLayout(g), NEW rank \in [Nodes(g) -> 0 .. Len(g.node)], Ranks(g, rank),
         NEW dryrun \in BOOLEAN, NEW f \in [Calls(g) -> Results(Sides(g))], NEW h,
         NEW n \in Nodes(g), NEW D \in Int, NEW own \in Sides(g),
         \A c \in Lower(g, rank, n, D) : f[c] = h[c]
  PROVE  Visit(g, dryrun, f, n, D, own) = Visit(g, dryrun, h, n, D, own)
<1> DEFINE Ahead0(w) == Follow(g, w, D, Start(g, n, own), <<n, 0>>)
           Both(w)   == IF Type(g, n) = "BRANCH" THEN Follow(g, w, D, Ahead0(w), <<n, 1>>) ELSE Ahead0(w)
           stops == \/ Type(g, n) = "EXIT"
                    \/ Type(g, n) # "ENTER" /\ <<n, 0>> \in own.mine /\ D < 0
           taken == Claim(g, n) \cap own.others # {}
<1>1. ASSUME NEW w
      PROVE  Visit(g, dryrun, w, n, D, own) =
               IF stops THEN Result(TRUE, own, FALSE)
               ELSE IF taken THEN Result(FALSE, own, TRUE)
               ELSE Leave(g, dryrun, n, own, Both(w))
  BY DEF Visit, Start
<1>2. CASE Type(g, n) # "EXIT"
  <2>1. <<n, 0>> \in g.edge /\ (Type(g, n) = "BRANCH" => <<n, 1>> \in g.edge)
    BY <1>2, LegsAreEdges
  <2>2. <<n, 0>>[1] = n /\ <<n, 1>>[1] = n
    OBVIOUS
  <2>3. Kept(g, Sides(g))
    BY SidesKept
  <2>4. Start(g, n, own) \in Results(Sides(g))
    BY <1>2, <2>3, StartKeeps
  <2>5. \A c \in Lower(g, rank, n, D) : f[c] \in Results(Sides(g))
    BY DEF Lower
  <2>6. Ahead0(f) \in Results(Sides(g))
    BY <2>1, <2>2, <2>3, <2>4, <2>5, FollowKeeps
  <2>7. Ahead0(f) = Ahead0(h)
    BY <2>1, <2>2, <2>4, FollowLocal
  <2> DEFINE a == Ahead0(f)
  <2>8. Both(f) = Both(h)
    <3>1. Type(g, n) = "BRANCH" => Follow(g, f, D, a, <<n, 1>>) = Follow(g, h, D, a, <<n, 1>>)
      <4>1. a \in Results(Sides(g))
        BY <2>6
      <4> HIDE DEF a
      <4> QED BY <2>1, <2>2, <4>1, FollowLocal
    <3>2. Both(f) = IF Type(g, n) = "BRANCH" THEN Follow(g, f, D, a, <<n, 1>>) ELSE a
      OBVIOUS
    <3>3. Both(h) = IF Type(g, n) = "BRANCH" THEN Follow(g, h, D, a, <<n, 1>>) ELSE a
      BY <2>7
    <3> QED BY <3>1, <3>2, <3>3
  <2> HIDE DEF Both
  <2> QED BY <1>1, <2>8
<1>3. CASE Type(g, n) = "EXIT"
  BY <1>1, <1>3
<1> QED BY <1>2, <1>3

\* reserveEdges answers every call, by what its body says of it.
LEMMA ReserveEdgesVisits ==
  ASSUME NEW g, IsLayout(g), NEW dryrun \in BOOLEAN, NEW c \in Calls(g)
  PROVE  reserveEdges(g, dryrun)[c] = Visit(g, dryrun, reserveEdges(g, dryrun), c.node, c.dist, c.own)
<1>1. PICK rank \in [Nodes(g) -> 0 .. Len(g.node)] : Ranks(g, rank)
  BY Ranked
<1> DEFINE S == Calls(g)
           V == Results(Sides(g))
           height == HeightOf(g, rank)
           F == [p \in S \X [S -> V] |-> Visit(g, dryrun, p[2], p[1].node, p[1].dist, p[1].own)]
           W == reserveEdges(g, dryrun)
<1>2. /\ height \in [S -> Nat]
      /\ \A x \in S : height[x] = Height(g, rank, x.node, x.dist)
  BY HeightIsNatural DEF HeightOf
<1>3. \A x \in S : \A f \in [S -> V] : F[<<x, f>>] = Visit(g, dryrun, f, x.node, x.dist, x.own)
  OBVIOUS
<1>4. \A x \in S : x.node \in Nodes(g) /\ x.dist \in Int /\ x.own \in Sides(g)
  BY DEF Calls
<1>5. \A x, y \in S : y \in Lower(g, rank, x.node, x.dist) <=> height[y] < height[x]
  BY <1>2 DEF Lower
<1> HIDE DEF height, F
<1>6. \E f : f = [x \in Calls(g) |-> Visit(g, dryrun, f, x.node, x.dist, x.own)]
  <2>1. V # {}
    <3>1. Result(TRUE, [mine |-> {}, others |-> {}], FALSE) \in V
      BY DEF Result, Results, Sides
    <3> QED BY <3>1
  <2>2. ASSUME NEW x \in S, NEW f \in [S -> V]
        PROVE  F[<<x, f>>] \in V
    <3>1. \A y \in Lower(g, rank, x.node, x.dist) : y.own \in Sides(g) => f[y] \in V
      BY DEF Lower
    <3> HIDE DEF S
    <3>2. Visit(g, dryrun, f, x.node, x.dist, x.own) \in V
      BY <1>1, <1>4, <3>1, SidesKept, VisitKeeps
    <3> QED BY <1>3, <3>2
  <2>3. Descends(S, V, height, F)
    <3> SUFFICES ASSUME NEW x \in S, NEW f \in [S -> V], NEW h \in [S -> V],
                        \A y \in S : height[y] < height[x] => f[y] = h[y]
                 PROVE  F[<<x, f>>] = F[<<x, h>>]
      BY DEF Descends
    <3>1. \A y \in Lower(g, rank, x.node, x.dist) : f[y] = h[y]
      BY <1>5 DEF Lower
    <3>2. x.node \in Nodes(g) /\ x.dist \in Int /\ x.own \in Sides(g)
      BY <1>4
    <3>3. Visit(g, dryrun, f, x.node, x.dist, x.own) = Visit(g, dryrun, h, x.node, x.dist, x.own)
      BY <1>1, <3>1, <3>2, VisitLocal
    <3> QED BY <1>3, <3>3
  <2>4. PICK f : Defines(S, V, F, f)
    <3> HIDE DEF S, V
    <3> QED BY <1>2, <2>1, <2>2, <2>3, Recursion
  <2>5. \A x \in Calls(g) : f[x] = Visit(g, dryrun, f, x.node, x.dist, x.own)
    BY <1>3, <2>4 DEF Defines
  <2>6. f = [x \in Calls(g) |-> f[x]]
    BY <2>4 DEF Defines
  <2> HIDE DEF S, V
  <2> QED BY <2>5, <2>6
<1>7. W = [x \in Calls(g) |-> Visit(g, dryrun, W, x.node, x.dist, x.own)]
  BY <1>6 DEF reserveEdges
<1> HIDE DEF W
<1>8. W[c] = Visit(g, dryrun, W, c.node, c.dist, c.own)
  BY <1>7
<1> QED BY <1>8 DEF W

\* What holds of a call if it holds of all lower ones, holds of every call.
LEMMA AllCalls ==
  ASSUME NEW g, IsLayout(g), NEW rank \in [Nodes(g) -> 0 .. Len(g.node)], NEW Good,
         \A x \in Calls(g) : Lower(g, rank, x.node, x.dist) \subseteq Good => x \in Good
  PROVE  \A x \in Calls(g) : x \in Good
<1> DEFINE S == Calls(g)
           height == HeightOf(g, rank)
           B == {x \in S : x \notin Good}
<1>1. /\ height \in [S -> Nat]
      /\ \A x \in S : height[x] = Height(g, rank, x.node, x.dist)
  BY HeightIsNatural DEF HeightOf
<1> HIDE DEF height
<1>2. SUFFICES ASSUME B # {} PROVE FALSE
  OBVIOUS
<1>3. PICK x \in B : \A y \in S : height[y] < height[x] => y \notin B
  <2>1. B \in SUBSET S
    OBVIOUS
  <2>2. \E x : Lowest(S, height, B, x)
    <3> HIDE DEF B, S
    <3> QED BY <1>1, <1>2, <2>1, LeastRank
  <2> HIDE DEF B, S
  <2> QED BY <2>2 DEF Lowest
<1>4. Lower(g, rank, x.node, x.dist) \subseteq Good
  BY <1>1, <1>3 DEF Lower
<1> QED BY <1>3, <1>4

\* reserveEdges leaves both directions of every piece of track with one owner.
LEMMA ReserveEdgesKeeps ==
  ASSUME NEW g, IsLayout(g), NEW dryrun \in BOOLEAN,
         NEW c \in Calls(g), c.own \in PairedSides(g)
  PROVE  reserveEdges(g, dryrun)[c] \in Results(PairedSides(g))
<1> DEFINE W == reserveEdges(g, dryrun)
           Q == PairedSides(g)
           Good == {x \in Calls(g) : x.own \in Q => W[x] \in Results(Q)}
<1>1. PICK rank \in [Nodes(g) -> 0 .. Len(g.node)] : Ranks(g, rank)
  BY Ranked
<1>2. ASSUME NEW x \in Calls(g), Lower(g, rank, x.node, x.dist) \subseteq Good
      PROVE  x \in Good
  <2>1. x.node \in Nodes(g) /\ x.dist \in Int
    BY DEF Calls
  <2>2. W[x] = Visit(g, dryrun, W, x.node, x.dist, x.own)
    BY ReserveEdgesVisits
  <2>3. \A y \in Lower(g, rank, x.node, x.dist) : y.own \in Q => W[y] \in Results(Q)
    BY <1>2
  <2> HIDE DEF W
  <2>4. x.own \in Q => Visit(g, dryrun, W, x.node, x.dist, x.own) \in Results(Q)
    BY <1>1, <2>1, <2>3, SidesKept, VisitKeeps
  <2> QED BY <2>2, <2>4
<1>3. c \in Good
  <2> HIDE DEF Good
  <2> QED BY <1>1, <1>2, AllCalls
<1> QED BY <1>3

----------------------------------------------------------------------------
(* The parts of a call.                                                    *)

\* A call that asks for nothing, and one that finds its node taken.
Stops(g, n, D, own) == Type(g, n) = "EXIT" \/ (Type(g, n) # "ENTER" /\ <<n, 0>> \in own.mine /\ D < 0)
IsTaken(g, n, own)  == Claim(g, n) \cap own.others # {}

\* What is known after the first leg of a node, and after all of them.
OneLeg(g, dryrun, n, D, own) ==
  Follow(g, reserveEdges(g, dryrun), D, Start(g, n, own), <<n, 0>>)
AllLegs(g, dryrun, n, D, own) ==
  IF Type(g, n) = "BRANCH"
  THEN Follow(g, reserveEdges(g, dryrun), D, OneLeg(g, dryrun, n, D, own), <<n, 1>>)
  ELSE OneLeg(g, dryrun, n, D, own)

LEMMA CallParts ==
  ASSUME NEW g, IsLayout(g), NEW dryrun \in BOOLEAN, NEW c \in Calls(g)
  PROVE  reserveEdges(g, dryrun)[c] =
           IF Stops(g, c.node, c.dist, c.own) THEN Result(TRUE, c.own, FALSE)
           ELSE IF IsTaken(g, c.node, c.own) THEN Result(FALSE, c.own, TRUE)
           ELSE Leave(g, dryrun, c.node, c.own, AllLegs(g, dryrun, c.node, c.dist, c.own))
BY ReserveEdgesVisits DEF Visit, Stops, IsTaken, AllLegs, OneLeg, Start

\* Whether an edge is followed.
Goes(g, D, e) == IsSwitch(g, Dest(g, e)) \/ D - Dist(g, e) > 0
Onward(g, D, e, own) == Call(Dest(g, e), D - Dist(g, e), own)

\* An edge is followed by a lower call, on what was known before it.
LEMMA FollowParts ==
  ASSUME NEW g, IsLayout(g), NEW rank \in [Nodes(g) -> 0 .. Len(g.node)], Ranks(g, rank),
         NEW dryrun \in BOOLEAN, NEW D \in Int, NEW e \in g.edge, NEW r \in Results(PairedSides(g))
  PROVE  LET c == Onward(g, D, e, r.own)
             w == reserveEdges(g, dryrun)[c]
             f == Follow(g, reserveEdges(g, dryrun), D, r, e)
         IN  /\ f \in Results(PairedSides(g))
             /\ ~(r.ok /\ Goes(g, D, e)) => f = r
             /\ r.ok /\ Goes(g, D, e) =>
                    /\ c \in Lower(g, rank, e[1], D) /\ c \in Calls(g)
                    /\ c.own = r.own /\ c.node = Dest(g, e) /\ c.dist = D - Dist(g, e)
                    /\ w \in Results(PairedSides(g))
                    /\ f.ok = w.ok /\ f.own = w.own /\ f.clash = (w.clash \/ r.clash)
<1> DEFINE W == reserveEdges(g, dryrun)
           c == Onward(g, D, e, r.own)
           f == Follow(g, W, D, r, e)
<1>1. r.own \in PairedSides(g) /\ r.own \in Sides(g) /\ r.clash \in BOOLEAN
  BY DEF Results, PairedSides
<1>2. f = IF r.ok /\ Goes(g, D, e) THEN [W[c] EXCEPT !.clash = @ \/ r.clash] ELSE r
  BY DEF Follow, Goes, Onward
<1>3. c.own = r.own /\ c.node = Dest(g, e) /\ c.dist = D - Dist(g, e)
  BY DEF Onward, Call
<1>4. ASSUME Goes(g, D, e)
      PROVE  c \in Lower(g, rank, e[1], D) /\ c \in Calls(g) /\ W[c] \in Results(PairedSides(g))
  <2>1. c \in Lower(g, rank, e[1], D)
    BY <1>1, <1>4, FollowIsLower DEF Goes, Onward
  <2>2. c \in Calls(g)
    BY <2>1 DEF Lower
  <2> HIDE DEF c
  <2> QED BY <1>1, <1>3, <2>1, <2>2, ReserveEdgesKeeps
<1> HIDE DEF c, f, W
<1>5. ASSUME NEW w \in Results(PairedSides(g))
      PROVE  LET v == [w EXCEPT !.clash = @ \/ r.clash]
             IN  /\ v \in Results(PairedSides(g))
                 /\ v.ok = w.ok /\ v.own = w.own /\ v.clash = (w.clash \/ r.clash)
  BY <1>1 DEF Results
<1>6. f \in Results(PairedSides(g))
  BY <1>2, <1>4, <1>5
<1>7. r.ok /\ Goes(g, D, e) => f.ok = W[c].ok /\ f.own = W[c].own /\ f.clash = (W[c].clash \/ r.clash)
  BY <1>2, <1>4, <1>5
<1> QED BY <1>2, <1>3, <1>4, <1>6, <1>7 DEF c, f, W

\* The legs of a node are followed with the marks of the node made.
LEMMA LegsParts ==
  ASSUME NEW g, IsLayout(g), NEW dryrun \in BOOLEAN, NEW n \in Nodes(g), Type(g, n) # "EXIT",
         NEW D \in Int, NEW own \in PairedSides(g)
  PROVE  /\ Start(g, n, own) \in Results(PairedSides(g))
         /\ OneLeg(g, dryrun, n, D, own) \in Results(PairedSides(g))
         /\ AllLegs(g, dryrun, n, D, own) \in Results(PairedSides(g))
         /\ <<n, 0>> \in g.edge /\ <<n, 0>>[1] = n
         /\ Type(g, n) = "BRANCH" => <<n, 1>> \in g.edge /\ <<n, 1>>[1] = n
<1>1. PICK rank \in [Nodes(g) -> 0 .. Len(g.node)] : Ranks(g, rank)
  BY Ranked
<1>2. <<n, 0>> \in g.edge /\ (Type(g, n) = "BRANCH" => <<n, 1>> \in g.edge)
  BY LegsAreEdges
<1>3. Start(g, n, own) \in Results(PairedSides(g))
  BY SidesKept, StartKeeps
<1>4. OneLeg(g, dryrun, n, D, own) \in Results(PairedSides(g))
  BY <1>1, <1>2, <1>3, FollowParts DEF OneLeg
<1>5. AllLegs(g, dryrun, n, D, own) \in Results(PairedSides(g))
  BY <1>1, <1>2, <1>4, FollowParts DEF AllLegs
<1> QED BY <1>2, <1>3, <1>4, <1>5

----------------------------------------------------------------------------
(* The double switches of the centre.                                      *)

\* The double switches, and what makes a train's share of one whole: a train
\* that has one of its legs has the curved one and the track to its points,
\* so that no other train marks it as well.
Centres(g)  == {Centre(g, n) : n \in Nodes(g)} \ {-1}
Whole(g, S) ==
  \A c \in Centres(g) : (\E e \in Legs(g, c) : e \in S) => <<c, 1>> \in S /\ <<Rev(g, c), 0>> \in S

\* A double switch is a branch; the merges that take it claim the track to its
\* points, which starts at its reverse; its legs lead to an exit and a sensor.
LEMMA CentreParts ==
  ASSUME NEW g, IsLayout(g), CentreIsClosed(g), NEW n \in Nodes(g), Centre(g, n) # -1
  PROVE  LET c == Centre(g, n)
         IN  /\ Type(g, n) = "MERGE" /\ c \in Nodes(g) /\ Type(g, c) = "BRANCH"
             /\ c \in Centres(g)
             /\ Legs(g, c) = {<<c, 0>>, <<c, 1>>} /\ <<c, 0>> \in g.edge /\ <<c, 1>> \in g.edge
             /\ Type(g, Rev(g, c)) = "MERGE" /\ <<Rev(g, c), 0>> \in g.edge
             /\ <<Facing(g, n), 0>> \in g.edge
             /\ Back(g, <<Facing(g, n), 0>>) = <<Rev(g, c), 0>>
             /\ <<Facing(g, n), 0>> \in Claim(g, n) /\ <<Rev(g, c), 0>> \in Claim(g, n)
             /\ CentreEdges(g, n) = WithBacks(g, Legs(g, c))
             /\ Type(g, Back(g, <<c, 0>>)[1]) = "ENTER"
             /\ Type(g, Back(g, <<c, 1>>)[1]) = "SENSOR"
<1> DEFINE F == Facing(g, n)
           c == Centre(g, n)
<1>1. Type(g, n) = "MERGE" /\ At(g, Dest(g, <<F, 0>>)).num > 100 /\ c = Dest(g, <<F, 0>>)
  BY DEF Centre
<1>2. F \in Nodes(g) /\ Type(g, F) = "BRANCH"
  BY <1>1, WaysBack
<1> HIDE DEF F
<1>3. <<F, 0>> \in g.edge /\ <<F, 0>> \in Legs(g, F)
  BY <1>2 DEF IsLayout
<1>4. c \in Nodes(g) /\ c \in Centres(g)
  BY <1>1, <1>3 DEF IsLayout, Centres
<1>5. /\ Type(g, c) = "BRANCH"
      /\ Type(g, Rev(g, Dest(g, <<c, 0>>))) = "ENTER"
      /\ Type(g, Rev(g, Dest(g, <<c, 1>>))) = "SENSOR"
  BY <1>1, <1>2 DEF CentreIsClosed
<1> HIDE DEF c
<1>6. Legs(g, c) = {<<c, 0>>, <<c, 1>>} /\ <<c, 0>> \in g.edge /\ <<c, 1>> \in g.edge
  BY <1>4, <1>5 DEF IsLayout
<1>7. Type(g, Rev(g, c)) = "MERGE" /\ Rev(g, c) \in Nodes(g)
  BY <1>4, <1>5 DEF IsLayout
<1>8. <<Rev(g, c), 0>> \in g.edge
  BY <1>7, LegsAreEdges
<1>9. Back(g, <<F, 0>>) = <<Rev(g, c), 0>>
  BY <1>1, <1>3, <1>5, WaysBack
<1>10. <<F, 0>> \in Claim(g, n) /\ <<Rev(g, c), 0>> \in Claim(g, n)
  <2>1. <<F, 0>> \in Legs(g, n) \cup IF Type(g, n) = "MERGE" THEN Legs(g, Facing(g, n)) ELSE {}
    BY <1>1, <1>3 DEF F
  <2> QED BY <1>9, <2>1 DEF Claim, WithBacks
<1>11. CentreEdges(g, n) = WithBacks(g, Legs(g, c))
  BY DEF CentreEdges, c
<1>12. Back(g, <<c, 0>>)[1] = Rev(g, Dest(g, <<c, 0>>)) /\ Back(g, <<c, 1>>)[1] = Rev(g, Dest(g, <<c, 1>>))
  BY <1>6 DEF IsLayout
<1> QED BY <1>1, <1>3, <1>4, <1>5, <1>6, <1>7, <1>8, <1>9, <1>10, <1>11, <1>12 DEF F, c

\* What other trains hold of a double switch whole, a node can neither take
\* with its marks nor drop when it leaves.
LEMMA WholeIsLeft ==
  ASSUME NEW g, IsLayout(g), CentreIsClosed(g), NEW n \in Nodes(g), Type(g, n) # "EXIT",
         NEW own \in PairedSides(g), ~IsTaken(g, n, own),
         NEW K, Paired(g, K), Whole(g, K), K \subseteq own.others
  PROVE  K \cap (Marked(g, n, own) \cup CentreEdges(g, n)) = {}
<1>1. Claim(g, n) \cap own.others = {}
  BY DEF IsTaken
<1>2. CASE Centre(g, n) = -1
  <2>1. CentreEdges(g, n) = {} /\ Taken(g, n, own) = {}
    BY <1>2 DEF CentreEdges, Taken
  <2> QED BY <1>1, <2>1 DEF Marked
<1>3. CASE Centre(g, n) # -1
  <2> DEFINE c == Centre(g, n)
  <2>1. /\ c \in Centres(g) /\ <<Rev(g, c), 0>> \in Claim(g, n)
        /\ CentreEdges(g, n) = WithBacks(g, Legs(g, c)) /\ c \in Nodes(g)
    BY <1>3, CentreParts
  <2> HIDE DEF c
  <2>2. Legs(g, c) \subseteq g.edge
    BY <2>1, LegsAreEdges
  <2>3. \A e \in Legs(g, c) : e \notin K
    BY <1>1, <2>1 DEF Whole
  <2>4. ASSUME NEW e \in Legs(g, c)
        PROVE  Back(g, e) \notin K
    <3>1. Back(g, Back(g, e)) = e
      BY <2>2 DEF IsLayout
    <3> QED BY <2>3, <3>1 DEF Paired
  <2>5. K \cap CentreEdges(g, n) = {}
    BY <2>1, <2>3, <2>4 DEF WithBacks
  <2> QED BY <1>1, <2>5 DEF Marked, Taken
<1> QED BY <1>2, <1>3

----------------------------------------------------------------------------
(* What a call leaves to others.                                           *)

\* r takes nothing of K, gives others nothing more, and tells of a failure.
Spares(K, own, r) ==
  /\ r.own.others \subseteq own.others
  /\ K \subseteq own.others => K \subseteq r.own.others
  /\ r.ok \/ r.clash

LEMMA SparesOn ==
  ASSUME NEW g, IsLayout(g), NEW rank \in [Nodes(g) -> 0 .. Len(g.node)], Ranks(g, rank),
         NEW dryrun \in BOOLEAN, NEW D \in Int, NEW e \in g.edge, NEW r \in Results(PairedSides(g)),
         NEW K, NEW own, Spares(K, own, r),
         \A c \in Lower(g, rank, e[1], D) :
             c.own \in PairedSides(g) => Spares(K, c.own, reserveEdges(g, dryrun)[c])
  PROVE  Spares(K, own, Follow(g, reserveEdges(g, dryrun), D, r, e))
<1> DEFINE c == Onward(g, D, e, r.own)
           w == reserveEdges(g, dryrun)[c]
           f == Follow(g, reserveEdges(g, dryrun), D, r, e)
<1>1. CASE ~(r.ok /\ Goes(g, D, e))
  <2>1. f = r
    BY <1>1 DEF Follow, Goes
  <2> HIDE DEF f
  <2>2. Spares(K, own, f)
    BY <2>1
  <2> QED BY <2>2 DEF f
<1>2. CASE r.ok /\ Goes(g, D, e)
  <2>1. /\ c \in Lower(g, rank, e[1], D) /\ c.own = r.own
        /\ f.ok = w.ok /\ f.own = w.own /\ f.clash = (w.clash \/ r.clash)
    BY <1>2, FollowParts
  <2>2. r.own \in PairedSides(g)
    BY DEF Results
  <2> HIDE DEF c
  <2>3. Spares(K, r.own, w)
    BY <2>1, <2>2
  <2> HIDE DEF w, f
  <2>4. Spares(K, own, f)
    BY <2>1, <2>3 DEF Spares
  <2> QED BY <2>4 DEF f
<1> QED BY <1>1, <1>2

LEMMA LeaveSpares ==
  ASSUME NEW g, IsLayout(g), CentreIsClosed(g), NEW dryrun \in BOOLEAN,
         NEW n \in Nodes(g), Type(g, n) # "EXIT",
         NEW own \in PairedSides(g), ~IsTaken(g, n, own),
         NEW r \in Results(PairedSides(g)),
         NEW K, Paired(g, K), Whole(g, K), Spares(K, Start(g, n, own).own, r)
  PROVE  Spares(K, own, Leave(g, dryrun, n, own, r))
<1> DEFINE marked == Marked(g, n, own)
           all    == marked \cup CentreEdges(g, n)
           back   == [mine   |-> (r.own.mine \ all) \cup (own.mine \cap marked),
                      others |-> (r.own.others \ all) \cup (own.others \cap marked)]
           fail   == [mine |-> r.own.mine \ all, others |-> r.own.others \ all]
<1>1. Start(g, n, own).own.others = own.others \ marked
  BY DEF Start, Result
<1>2. K \subseteq own.others => K \cap all = {}
  BY WholeIsLeft
<1>3. r.own.others \subseteq own.others \ marked /\ (K \subseteq own.others \ marked => K \subseteq r.own.others)
      /\ (r.ok \/ r.clash)
  BY <1>1 DEF Spares
<1>4. K \subseteq own.others => K \subseteq r.own.others /\ K \subseteq r.own.others \ all
  BY <1>2, <1>3
<1>5. r = [ok |-> r.ok, own |-> r.own, clash |-> r.clash]
  BY DEF Results
<1>6. Leave(g, dryrun, n, own, r) = IF dryrun THEN [r EXCEPT !.own = back]
                                    ELSE IF ~r.ok THEN [r EXCEPT !.own = fail] ELSE r
  BY DEF Leave
<1>7. /\ back.others \subseteq own.others /\ fail.others \subseteq own.others
      /\ K \subseteq own.others => K \subseteq back.others /\ K \subseteq fail.others
  BY <1>3, <1>4
<1> HIDE DEF back, fail, marked, all
<1> QED BY <1>3, <1>4, <1>5, <1>6, <1>7 DEF Spares

\* No call, dry or in earnest, takes what others hold whole, and one that
\* fails says so.
LEMMA ReserveEdgesSpares ==
  ASSUME NEW g, IsLayout(g), CentreIsClosed(g), NEW dryrun \in BOOLEAN,
         NEW K, Paired(g, K), Whole(g, K),
         NEW c \in Calls(g), c.own \in PairedSides(g)
  PROVE  Spares(K, c.own, reserveEdges(g, dryrun)[c])
<1> DEFINE W == reserveEdges(g, dryrun)
           Q == PairedSides(g)
           Good == {x \in Calls(g) : x.own \in Q => Spares(K, x.own, W[x])}
<1>1. PICK rank \in [Nodes(g) -> 0 .. Len(g.node)] : Ranks(g, rank)
  BY Ranked
<1>2. ASSUME NEW x \in Calls(g), Lower(g, rank, x.node, x.dist) \subseteq Good, x.own \in Q
      PROVE  Spares(K, x.own, W[x])
  <2> DEFINE n == x.node
             D == x.dist
             own == x.own
  <2>1. n \in Nodes(g) /\ D \in Int
    BY DEF Calls
  <2>2. \A y \in Lower(g, rank, n, D) : y.own \in Q => Spares(K, y.own, W[y])
    BY <1>2
  <2>3. W[x] = IF Stops(g, n, D, own) THEN Result(TRUE, own, FALSE)
               ELSE IF IsTaken(g, n, own) THEN Result(FALSE, own, TRUE)
               ELSE Leave(g, dryrun, n, own, AllLegs(g, dryrun, n, D, own))
    BY CallParts
  <2> HIDE DEF n, D, own
  <2>4. own \in Q
    BY <1>2 DEF own
  <2>5. CASE Stops(g, n, D, own) \/ IsTaken(g, n, own)
    <3>1. W[x].own = own /\ (W[x].ok \/ W[x].clash)
      BY <2>3, <2>5 DEF Result
    <3>2. Spares(K, own, W[x])
      BY <3>1 DEF Spares
    <3> QED BY <3>2 DEF own
  <2>6. CASE ~Stops(g, n, D, own) /\ ~IsTaken(g, n, own)
    <3> DEFINE st == Start(g, n, own)
    <3>1. Type(g, n) # "EXIT"
      BY <2>6 DEF Stops
    <3>2. /\ st \in Results(Q) /\ OneLeg(g, dryrun, n, D, own) \in Results(Q)
          /\ AllLegs(g, dryrun, n, D, own) \in Results(Q)
          /\ <<n, 0>> \in g.edge /\ <<n, 0>>[1] = n
          /\ Type(g, n) = "BRANCH" => <<n, 1>> \in g.edge /\ <<n, 1>>[1] = n
      BY <2>1, <2>4, <3>1, LegsParts
    <3>3. Spares(K, st.own, st)
      BY DEF Spares, Start, Result
    <3>4. Spares(K, st.own, OneLeg(g, dryrun, n, D, own))
      <4> HIDE DEF Q
      <4> QED BY <1>1, <2>1, <2>2, <3>2, <3>3, SparesOn DEF OneLeg, Q
    <3>5. Spares(K, st.own, AllLegs(g, dryrun, n, D, own))
      BY <1>1, <2>1, <2>2, <3>2, <3>4, SparesOn DEF AllLegs
    <3>6. Spares(K, own, Leave(g, dryrun, n, own, AllLegs(g, dryrun, n, D, own)))
      BY <2>1, <2>4, <2>6, <3>1, <3>2, <3>5, LeaveSpares
    <3> QED BY <2>3, <2>6, <3>6 DEF own
  <2> QED BY <2>5, <2>6
<1>3. \A x \in Calls(g) : Lower(g, rank, x.node, x.dist) \subseteq Good => x \in Good
  BY <1>2
<1>4. c \in Good
  <2> HIDE DEF Good
  <2> QED BY <1>1, <1>3, AllCalls
<1> QED BY <1>4

----------------------------------------------------------------------------
(* What a dry run leaves to the train.                                     *)

\* The legs of a double switch are marked by the switch itself and, the curved
\* one, by the sensor behind it; never from the enter behind the straight one,
\* to which no edge leads.
LEMMA LegsMarked ==
  ASSUME NEW g, IsLayout(g), CentreIsClosed(g), NEW c \in Centres(g), NEW e \in Legs(g, c),
         NEW x \in Nodes(g), Type(g, x) # "ENTER", e \in WithBacks(g, Legs(g, x))
  PROVE  \/ x = c
         \/ Type(g, x) = "SENSOR" /\ Dest(g, <<x, 0>>) = Rev(g, c) /\ e = <<c, 1>>
<1>1. PICK n \in Nodes(g) : Centre(g, n) = c /\ c # -1
  BY DEF Centres
<1>2. /\ c \in Nodes(g)
      /\ Legs(g, c) = {<<c, 0>>, <<c, 1>>} /\ <<c, 0>> \in g.edge /\ <<c, 1>> \in g.edge
      /\ Type(g, Back(g, <<c, 0>>)[1]) = "ENTER"
      /\ Type(g, Back(g, <<c, 1>>)[1]) = "SENSOR"
  BY <1>1, CentreParts
<1>3. CASE e \in Legs(g, x)
  <2>1. e[1] = x /\ e[1] = c
    BY <1>2, <1>3, LegsAreEdges
  <2> QED BY <2>1
<1>4. CASE e \notin Legs(g, x)
  <2>1. PICK f \in Legs(g, x) : e = Back(g, f)
    BY <1>4 DEF WithBacks
  <2>2. f \in g.edge /\ f[1] = x /\ Back(g, e) = f
    BY <2>1, LegsAreEdges DEF IsLayout
  <2>3. e = <<c, 1>>
    BY <1>2, <2>2
  <2>4. Type(g, x) = "SENSOR"
    BY <1>2, <2>2, <2>3
  <2>5. f = <<x, 0>>
    BY <2>1, <2>4 DEF IsLayout
  <2>6. Dest(g, f) = Rev(g, c)
    <3>1. Dest(g, Back(g, <<c, 1>>)) = Rev(g, <<c, 1>>[1])
      BY <1>2, WaysBack
    <3> QED BY <2>2, <2>3, <3>1
  <2> QED BY <2>3, <2>4, <2>5, <2>6
<1> QED BY <1>3, <1>4

\* Where the marks of a node are made: at the node, at the switch it closes
\* and at the double switch it takes.
MarksFrom(g, n, own) ==
  {n} \cup (IF Type(g, n) = "MERGE" THEN {Facing(g, n)} ELSE {})
      \cup (IF Centre(g, n) # -1 /\ <<Centre(g, n), 1>> \notin own.others THEN {Centre(g, n)} ELSE {})

LEMMA MarksParts ==
  ASSUME NEW g, IsLayout(g), CentreIsClosed(g), NEW n \in Nodes(g), Type(g, n) \notin {"EXIT", "ENTER"}, NEW own
  PROVE  /\ \A e \in Marked(g, n, own) : \E x \in MarksFrom(g, n, own) : e \in WithBacks(g, Legs(g, x))
         /\ \A x \in MarksFrom(g, n, own) :
                /\ x \in Nodes(g) /\ Type(g, x) # "ENTER"
                /\ WithBacks(g, Legs(g, x)) \subseteq Marked(g, n, own)
<1>1. Type(g, n) = "MERGE" => Facing(g, n) \in Nodes(g) /\ Type(g, Facing(g, n)) = "BRANCH"
  BY WaysBack
<1>2. Centre(g, n) # -1 => Centre(g, n) \in Nodes(g) /\ Type(g, Centre(g, n)) = "BRANCH"
  BY CentreParts
<1>3. \A A, B : WithBacks(g, A \cup B) = WithBacks(g, A) \cup WithBacks(g, B)
  BY DEF WithBacks
<1>4. Claim(g, n) = WithBacks(g, Legs(g, n))
                    \cup IF Type(g, n) = "MERGE" THEN WithBacks(g, Legs(g, Facing(g, n))) ELSE {}
  <2>1. WithBacks(g, {}) = {}
    BY DEF WithBacks
  <2> QED BY <1>3, <2>1 DEF Claim
<1>5. Taken(g, n, own) = IF Centre(g, n) # -1 /\ <<Centre(g, n), 1>> \notin own.others
                         THEN WithBacks(g, Legs(g, Centre(g, n))) ELSE {}
  BY DEF Taken, CentreEdges
<1>6. ASSUME NEW x \in MarksFrom(g, n, own)
      PROVE  /\ x \in Nodes(g) /\ Type(g, x) # "ENTER"
             /\ WithBacks(g, Legs(g, x)) \subseteq Marked(g, n, own)
  BY <1>1, <1>2, <1>4, <1>5, <1>6 DEF MarksFrom, Marked
<1>7. ASSUME NEW e \in Marked(g, n, own)
      PROVE  \E x \in MarksFrom(g, n, own) : e \in WithBacks(g, Legs(g, x))
  BY <1>4, <1>5, <1>7 DEF MarksFrom, Marked
<1> QED BY <1>6, <1>7

\* Who has a leg of a double switch has the curved one.
Bent(g, S) == \A c \in Centres(g) : (\E e \in Legs(g, c) : e \in S) => <<c, 1>> \in S

LEMMA MarksAreBent ==
  ASSUME NEW g, IsLayout(g), CentreIsClosed(g), NEW n \in Nodes(g), Type(g, n) \notin {"EXIT", "ENTER"},
         NEW own, Bent(g, own.mine)
  PROVE  Bent(g, Start(g, n, own).own.mine)
<1> DEFINE marked == Marked(g, n, own)
<1>1. Start(g, n, own).own.mine = own.mine \cup marked
  BY DEF Start, Result
<1>2. ASSUME NEW c \in Centres(g), NEW e \in Legs(g, c), e \in marked
      PROVE  <<c, 1>> \in marked
  <2>1. PICK x \in MarksFrom(g, n, own) : e \in WithBacks(g, Legs(g, x))
    BY <1>2, MarksParts
  <2>2. x \in Nodes(g) /\ Type(g, x) # "ENTER" /\ WithBacks(g, Legs(g, x)) \subseteq marked
    BY MarksParts
  <2>3. x = c \/ e = <<c, 1>>
    BY <2>1, <2>2, LegsMarked
  <2>4. <<c, 1>> \in Legs(g, c)
    <3>1. PICK m \in Nodes(g) : Centre(g, m) = c /\ c # -1
      BY DEF Centres
    <3>2. Legs(g, c) = {<<c, 0>>, <<c, 1>>}
      BY <3>1, CentreParts
    <3> QED BY <3>2
  <2>5. x = c => <<c, 1>> \in WithBacks(g, Legs(g, x))
    BY <2>4 DEF WithBacks
  <2> HIDE DEF marked
  <2> QED BY <1>2, <2>2, <2>3, <2>5
<1> HIDE DEF marked
<1> QED BY <1>1, <1>2 DEF Bent

\* The argument of a call of the dry run.
DryRun == TRUE

LEMMA DryRunIsBoolean == DryRun \in BOOLEAN
BY DEF DryRun

\* A dry run leaves a node with the edges it found the train with.
LEMMA DryLeaveKeepsMine ==
  ASSUME NEW g, IsLayout(g), CentreIsClosed(g), NEW n \in Nodes(g), Type(g, n) # "EXIT",
         NEW own \in PairedSides(g), Bent(g, own.mine),
         NEW r \in Results(PairedSides(g)), r.own.mine = Start(g, n, own).own.mine
  PROVE  Leave(g, DryRun, n, own, r).own.mine = own.mine
<1> DEFINE marked == Marked(g, n, own)
           all    == marked \cup CentreEdges(g, n)
           mine   == (r.own.mine \ all) \cup (own.mine \cap marked)
<1>1. r.own.mine = own.mine \cup marked
  BY DEF Start, Result
<1>2. Leave(g, DryRun, n, own, r).own.mine = mine
  <2>1. r = [ok |-> r.ok, own |-> r.own, clash |-> r.clash]
    BY DEF Results
  <2> QED BY <2>1 DEF Leave, DryRun
<1>3. CentreEdges(g, n) \cap own.mine \subseteq marked
  <2>1. CASE Taken(g, n, own) = CentreEdges(g, n)
    BY <2>1 DEF Marked
  <2>2. CASE Taken(g, n, own) # CentreEdges(g, n)
    <3> DEFINE c == Centre(g, n)
    <3>1. c # -1 /\ <<c, 1>> \in own.others
      BY <2>2 DEF Taken, CentreEdges
    <3>2. c \in Centres(g) /\ c \in Nodes(g) /\ CentreEdges(g, n) = WithBacks(g, Legs(g, c))
      BY <3>1, CentreParts
    <3> HIDE DEF c
    <3>3. <<c, 1>> \notin own.mine
      BY <3>1 DEF PairedSides
    <3>4. \A e \in Legs(g, c) : e \notin own.mine
      BY <3>2, <3>3 DEF Bent
    <3>5. ASSUME NEW e \in Legs(g, c)
          PROVE  Back(g, e) \notin own.mine
      <4>1. e \in g.edge
        BY <3>2, LegsAreEdges
      <4>2. Back(g, Back(g, e)) = e
        BY <4>1 DEF IsLayout
      <4> QED BY <3>4, <4>2 DEF PairedSides, Paired
    <3> QED BY <3>2, <3>4, <3>5 DEF WithBacks
  <2> QED BY <2>1, <2>2
<1> HIDE DEF marked
<1>4. mine = own.mine
  BY <1>1, <1>3
<1> QED BY <1>2, <1>4

\* A call that keeps what the train has, for a train that may make it.
DryReady(g, c) == c.own \in PairedSides(g) /\ Type(g, c.node) # "ENTER" /\ Bent(g, c.own.mine)

LEMMA DryFollowKeepsMine ==
  ASSUME NEW g, IsLayout(g), NEW rank \in [Nodes(g) -> 0 .. Len(g.node)], Ranks(g, rank),
         NEW D \in Int, NEW e \in g.edge,
         NEW r \in Results(PairedSides(g)), Bent(g, r.own.mine),
         \A c \in Lower(g, rank, e[1], D) :
             DryReady(g, c) => reserveEdges(g, DryRun)[c].own.mine = c.own.mine
  PROVE  Follow(g, reserveEdges(g, DryRun), D, r, e).own.mine = r.own.mine
<1> DEFINE c == Onward(g, D, e, r.own)
           w == reserveEdges(g, DryRun)[c]
           f == Follow(g, reserveEdges(g, DryRun), D, r, e)
<1>1. CASE ~(r.ok /\ Goes(g, D, e))
  <2>1. f = r
    BY <1>1, FollowParts, DryRunIsBoolean
  <2> QED BY <2>1
<1>2. CASE r.ok /\ Goes(g, D, e)
  <2>1. c \in Lower(g, rank, e[1], D) /\ c.own = r.own /\ c.node = Dest(g, e) /\ f.own = w.own
    BY <1>2, FollowParts, DryRunIsBoolean
  <2>2. r.own \in PairedSides(g) /\ Type(g, Dest(g, e)) # "ENTER"
    BY DEF Results, IsLayout
  <2> HIDE DEF c
  <2>3. w.own.mine = c.own.mine
    BY <2>1, <2>2 DEF DryReady
  <2> HIDE DEF w, f
  <2>4. f.own.mine = r.own.mine
    BY <2>1, <2>3
  <2> QED BY <2>4 DEF f
<1> QED BY <1>1, <1>2

\* A dry run changes nothing of what the train has, however far it goes and
\* whether it succeeds.
LEMMA DryKeepsMine ==
  ASSUME NEW g, IsLayout(g), CentreIsClosed(g), NEW c \in Calls(g), DryReady(g, c)
  PROVE  reserveEdges(g, DryRun)[c].own.mine = c.own.mine
<1> DEFINE W == reserveEdges(g, DryRun)
           Q == PairedSides(g)
           Good == {x \in Calls(g) : DryReady(g, x) => W[x].own.mine = x.own.mine}
<1>1. PICK rank \in [Nodes(g) -> 0 .. Len(g.node)] : Ranks(g, rank)
  BY Ranked
<1>2. ASSUME NEW x \in Calls(g), Lower(g, rank, x.node, x.dist) \subseteq Good, DryReady(g, x)
      PROVE  W[x].own.mine = x.own.mine
  <2> DEFINE n == x.node
             D == x.dist
             own == x.own
             st == Start(g, n, own)
             one == OneLeg(g, DryRun, n, D, own)
             all == AllLegs(g, DryRun, n, D, own)
  <2>1. n \in Nodes(g) /\ D \in Int /\ own \in Q /\ Type(g, n) # "ENTER" /\ Bent(g, own.mine)
    BY <1>2 DEF Calls, DryReady
  <2>2. \A y \in Lower(g, rank, n, D) : DryReady(g, y) => W[y].own.mine = y.own.mine
    BY <1>2
  <2>3. W[x] = IF Stops(g, n, D, own) THEN Result(TRUE, own, FALSE)
               ELSE IF IsTaken(g, n, own) THEN Result(FALSE, own, TRUE)
               ELSE Leave(g, DryRun, n, own, all)
    BY CallParts, DryRunIsBoolean
  <2> HIDE DEF n, D, own
  <2>4. CASE Stops(g, n, D, own) \/ IsTaken(g, n, own)
    <3>1. W[x].own = own
      BY <2>3, <2>4 DEF Result
    <3> QED BY <3>1 DEF own
  <2>5. CASE ~Stops(g, n, D, own) /\ ~IsTaken(g, n, own)
    <3>1. Type(g, n) \notin {"EXIT", "ENTER"}
      BY <2>1, <2>5 DEF Stops
    <3>2. /\ st \in Results(Q) /\ one \in Results(Q) /\ all \in Results(Q)
          /\ <<n, 0>> \in g.edge /\ <<n, 0>>[1] = n
          /\ Type(g, n) = "BRANCH" => <<n, 1>> \in g.edge /\ <<n, 1>>[1] = n
      BY <2>1, <3>1, LegsParts, DryRunIsBoolean
    <3>3. Bent(g, st.own.mine)
      BY <2>1, <3>1, MarksAreBent
    <3> HIDE DEF st
    <3>4. one.own.mine = st.own.mine
      BY <1>1, <2>1, <2>2, <3>2, <3>3, DryFollowKeepsMine DEF OneLeg, st
    <3>5. all.own.mine = st.own.mine
      <4>1. Bent(g, one.own.mine)
        BY <3>3, <3>4
      <4>2. Type(g, n) = "BRANCH" => all.own.mine = one.own.mine
        BY <1>1, <2>1, <2>2, <3>2, <4>1, DryFollowKeepsMine DEF AllLegs
      <4>3. Type(g, n) # "BRANCH" => all = one
        BY DEF AllLegs
      <4> QED BY <3>4, <4>2, <4>3
    <3> HIDE DEF one, all
    <3>6. Leave(g, DryRun, n, own, all).own.mine = own.mine
      BY <2>1, <3>1, <3>2, <3>5, DryLeaveKeepsMine DEF st
    <3> QED BY <2>3, <2>5, <3>6 DEF own
  <2> QED BY <2>4, <2>5
<1>3. \A x \in Calls(g) : Lower(g, rank, x.node, x.dist) \subseteq Good => x \in Good
  BY <1>2
<1>4. c \in Good
  <2> HIDE DEF Good
  <2> QED BY <1>1, <1>3, AllCalls
<1> QED BY <1>4

----------------------------------------------------------------------------
(* The track ahead.                                                        *)

\* What Ahead says of one edge.
AheadStep(g, e, D, f) ==
  LET d == D - Dist(g, e)
  IN  {e} \cup IF d <= 0 THEN {}
               ELSE Legs(g, Dest(g, e)) \cup Legs(g, Rev(g, Dest(g, e)))
                    \cup UNION {f[<<h, d>>] : h \in Legs(g, Dest(g, e))}

\* Ahead is defined: what is left of the distance goes down.
LEMMA AheadParts ==
  ASSUME NEW g, IsLayout(g), NEW e \in g.edge, NEW D \in Int
  PROVE  Ahead(g)[<<e, D>>] = AheadStep(g, e, D, Ahead(g))
<1> DEFINE S == g.edge \X Int
           V == SUBSET g.edge
           F == [p \in S \X [S -> V] |-> AheadStep(g, p[1][1], p[1][2], p[2])]
<1>1. PICK rank \in [Nodes(g) -> 0 .. Len(g.node)] : Ranks(g, rank)
  BY Ranked
<1> DEFINE height == [c \in S |-> Height(g, rank, c[1][1], c[2])]
<1>2. height \in [S -> Nat] /\ \A c \in S : height[c] = Height(g, rank, c[1][1], c[2])
  <2>1. ASSUME NEW c \in S
        PROVE  Height(g, rank, c[1][1], c[2]) \in Nat
    <3> DEFINE x == Call(c[1][1], c[2], [mine |-> {}, others |-> {}])
    <3>1. c[1] \in g.edge /\ c[2] \in Int /\ c[1][1] \in Nodes(g)
      BY LegsAreEdges
    <3>2. x \in Calls(g) /\ x.node = c[1][1] /\ x.dist = c[2]
      BY <3>1 DEF Call, Calls, Sides
    <3>3. HeightOf(g, rank)[x] \in Nat
      BY <3>2, HeightIsNatural
    <3>4. HeightOf(g, rank)[x] = Height(g, rank, x.node, x.dist)
      BY <3>2 DEF HeightOf
    <3> QED BY <3>2, <3>3, <3>4
  <2> QED BY <2>1
<1>3. \A c \in S : \A f \in [S -> V] : F[<<c, f>>] = AheadStep(g, c[1], c[2], f)
  OBVIOUS
<1>4. \A c \in S : c[1] \in g.edge /\ c[2] \in Int /\ c = <<c[1], c[2]>>
  OBVIOUS
<1>5. ASSUME NEW a \in g.edge, NEW d \in Int
      PROVE  /\ Legs(g, Dest(g, a)) \subseteq g.edge /\ Legs(g, Rev(g, Dest(g, a))) \subseteq g.edge
             /\ \A h \in Legs(g, Dest(g, a)) : <<h, d - Dist(g, a)>> \in S
             /\ d - Dist(g, a) > 0 =>
                    \A h \in Legs(g, Dest(g, a)) : height[<<h, d - Dist(g, a)>>] < height[<<a, d>>]
  <2>1. Dest(g, a) \in Nodes(g) /\ Rev(g, Dest(g, a)) \in Nodes(g) /\ d - Dist(g, a) \in Int
    BY DEF IsLayout
  <2>2. Legs(g, Dest(g, a)) \subseteq g.edge /\ Legs(g, Rev(g, Dest(g, a))) \subseteq g.edge
    BY <2>1, LegsAreEdges
  <2>3. \A h \in Legs(g, Dest(g, a)) : h[1] = Dest(g, a) /\ <<h, d - Dist(g, a)>> \in S
    BY <2>1, <2>2, LegsAreEdges
  <2>4. <<a, d>> \in S
    OBVIOUS
  <2>5. d - Dist(g, a) > 0 => Height(g, rank, Dest(g, a), d - Dist(g, a)) < Height(g, rank, a[1], d)
    BY <1>1, FollowDescends
  <2> HIDE DEF height, S
  <2>6. ASSUME NEW h \in Legs(g, Dest(g, a))
        PROVE  /\ height[<<h, d - Dist(g, a)>>] = Height(g, rank, Dest(g, a), d - Dist(g, a))
               /\ height[<<a, d>>] = Height(g, rank, a[1], d)
    BY <1>2, <2>3, <2>4
  <2> QED BY <2>2, <2>3, <2>5, <2>6
<1> HIDE DEF F, height
<1>6. \E f : f = [c \in g.edge \X Int |-> AheadStep(g, c[1], c[2], f)]
  <2>1. ASSUME NEW c \in S, NEW f \in [S -> V]
        PROVE  F[<<c, f>>] \in V
    <3>1. AheadStep(g, c[1], c[2], f) \in V
      <4>1. \A h \in Legs(g, Dest(g, c[1])) : f[<<h, c[2] - Dist(g, c[1])>>] \in V
        BY <1>4, <1>5
      <4> DEFINE k == c[2] - Dist(g, c[1])
                 H == Legs(g, Dest(g, c[1]))
      <4>2. c[1] \in g.edge /\ H \subseteq g.edge /\ Legs(g, Rev(g, Dest(g, c[1]))) \subseteq g.edge
        BY <1>4, <1>5
      <4>3. UNION {f[<<h, k>>] : h \in H} \subseteq g.edge
        BY <4>1
      <4>4. AheadStep(g, c[1], c[2], f) =
              {c[1]} \cup IF k <= 0 THEN {}
                          ELSE H \cup Legs(g, Rev(g, Dest(g, c[1]))) \cup UNION {f[<<h, k>>] : h \in H}
        BY DEF AheadStep
      <4> HIDE DEF S, k, H
      <4> QED BY <4>2, <4>3, <4>4
    <3> QED BY <1>3, <3>1
  <2>2. Descends(S, V, height, F)
    <3> SUFFICES ASSUME NEW c \in S, NEW f \in [S -> V], NEW h \in [S -> V],
                        \A y \in S : height[y] < height[c] => f[y] = h[y]
                 PROVE  F[<<c, f>>] = F[<<c, h>>]
      BY DEF Descends
    <3> DEFINE a == c[1]
               d == c[2]
               k == d - Dist(g, a)
    <3>1. a \in g.edge /\ d \in Int /\ c = <<a, d>>
      BY <1>4
    <3> HIDE DEF a, d
    <3>2. k > 0 => \A b \in Legs(g, Dest(g, a)) : f[<<b, k>>] = h[<<b, k>>]
      <4> HIDE DEF S
      <4> QED BY <1>5, <3>1
    <3>3. k > 0 => {f[<<b, k>>] : b \in Legs(g, Dest(g, a))} = {h[<<b, k>>] : b \in Legs(g, Dest(g, a))}
      BY <3>2
    <3>4. k \in Int
      BY <3>1 DEF IsLayout
    <3>5. ~(k > 0) <=> k <= 0
      BY <3>4
    <3>6. AheadStep(g, a, d, f) = AheadStep(g, a, d, h)
      BY <3>3, <3>5 DEF AheadStep
    <3> QED BY <1>3, <3>6 DEF a, d
  <2>3. V # {}
    OBVIOUS
  <2>4. PICK f : Defines(S, V, F, f)
    <3> HIDE DEF S, V
    <3> QED BY <1>2, <2>1, <2>2, <2>3, Recursion
  <2>5. \A c \in S : f[c] = AheadStep(g, c[1], c[2], f)
    BY <1>3, <2>4 DEF Defines
  <2>6. f = [c \in S |-> f[c]]
    BY <2>4 DEF Defines
  <2> QED BY <2>5, <2>6
<1>7. Ahead(g) = [c \in g.edge \X Int |-> AheadStep(g, c[1], c[2], Ahead(g))]
  BY <1>6 DEF Ahead, AheadStep
<1>8. <<e, D>> \in g.edge \X Int /\ <<e, D>>[1] = e /\ <<e, D>>[2] = D
  OBVIOUS
<1> DEFINE A == Ahead(g)
<1>9. A = [c \in g.edge \X Int |-> AheadStep(g, c[1], c[2], A)]
  BY <1>7
<1> HIDE DEF A
<1>10. A[<<e, D>>] = AheadStep(g, e, D, A)
  BY <1>8, <1>9
<1> QED BY <1>10 DEF A

----------------------------------------------------------------------------
(* What a reservation in earnest gives the train.                          *)

\* The argument of a call in earnest.
Earnest == FALSE

LEMMA EarnestIsBoolean == Earnest \in BOOLEAN
BY DEF Earnest

\* A call is made over an edge the train has: a branch is come to over the
\* track to its points.
Entered(g, c) ==
  /\ c.own \in PairedSides(g)
  /\ Type(g, c.node) # "ENTER"
  /\ Type(g, c.node) = "BRANCH" => <<Rev(g, c.node), 0>> \in c.own.mine

\* A train's share goes from A to B, and what is new of a double switch is whole.
HasLeg(g, c, S) == \E e \in Legs(g, c) : e \in S
Grown(g, A, B) ==
  /\ A \subseteq B
  /\ \A c \in Centres(g) : HasLeg(g, c, B) => HasLeg(g, c, A) \/ (<<c, 1>> \in B /\ <<Rev(g, c), 0>> \in B)

\* S has all a train can touch that comes to n with D left, and every way
\* into n if it is a merge.
Covers(g, n, D, S) ==
  /\ \A e \in Legs(g, n) : Ahead(g)[<<e, D>>] \subseteq S
  /\ Type(g, n) = "MERGE" => Legs(g, Rev(g, n)) \subseteq S

\* What a call in earnest has done if it succeeds.
Done(g, c, r) ==
  r.ok => /\ Grown(g, c.own.mine, r.own.mine)
          /\ Type(g, c.node) # "EXIT" => <<c.node, 0>> \in r.own.mine
          /\ c.dist >= 0 => Covers(g, c.node, c.dist, r.own.mine)

LEMMA GrownOn ==
  ASSUME NEW g, NEW A, NEW B, NEW C, Grown(g, A, B), Grown(g, B, C)
  PROVE  Grown(g, A, C)
BY DEF Grown

\* Following an edge the train has reserves all that is ahead of it.
LEMMA FollowDone ==
  ASSUME NEW g, IsLayout(g), NEW rank \in [Nodes(g) -> 0 .. Len(g.node)], Ranks(g, rank),
         NEW D \in Int, NEW e \in g.edge, NEW r \in Results(PairedSides(g)), e \in r.own.mine,
         \A c \in Lower(g, rank, e[1], D) :
             Entered(g, c) => Done(g, c, reserveEdges(g, Earnest)[c])
  PROVE  LET f == Follow(g, reserveEdges(g, Earnest), D, r, e)
         IN  f.ok =>
             /\ r.ok
             /\ Grown(g, r.own.mine, f.own.mine)
             /\ IsSwitch(g, Dest(g, e)) => <<Dest(g, e), 0>> \in f.own.mine
             /\ D >= 0 => Ahead(g)[<<e, D>>] \subseteq f.own.mine
<1> DEFINE c == Onward(g, D, e, r.own)
           w == reserveEdges(g, Earnest)[c]
           f == Follow(g, reserveEdges(g, Earnest), D, r, e)
           m == Dest(g, e)
           d == D - Dist(g, e)
<1>1. m \in Nodes(g) /\ Type(g, m) # "ENTER" /\ d \in Int
  BY DEF IsLayout
<1>2. Ahead(g)[<<e, D>>] = AheadStep(g, e, D, Ahead(g))
  BY AheadParts
<1>3. Grown(g, r.own.mine, r.own.mine)
  BY DEF Grown
<1>4. ~(r.ok /\ Goes(g, D, e)) => f = r
  BY DEF Follow, Goes
<1>5. r.ok /\ Goes(g, D, e) =>
          /\ c \in Lower(g, rank, e[1], D) /\ c.own = r.own /\ c.node = m /\ c.dist = d
          /\ f.ok = w.ok /\ f.own = w.own
  BY FollowParts, EarnestIsBoolean
<1> HIDE DEF c, f
<1>6. SUFFICES ASSUME f.ok
               PROVE  /\ r.ok
                      /\ Grown(g, r.own.mine, f.own.mine)
                      /\ IsSwitch(g, m) => <<m, 0>> \in f.own.mine
                      /\ D >= 0 => Ahead(g)[<<e, D>>] \subseteq f.own.mine
  BY DEF f
<1>7. CASE ~(r.ok /\ Goes(g, D, e))
  <2>1. f = r
    BY <1>4, <1>7
  <2>2. r.ok
    BY <1>6, <2>1
  <2>3. ~IsSwitch(g, m) /\ ~(d > 0)
    BY <1>7, <2>2 DEF Goes
  <2>4. d <= 0
    BY <1>1, <2>3
  <2>5. Ahead(g)[<<e, D>>] = {e}
    BY <1>2, <2>4 DEF AheadStep
  <2> HIDE DEF m
  <2> QED BY <1>3, <2>1, <2>2, <2>3, <2>5
<1>8. CASE r.ok /\ Goes(g, D, e)
  <2>1. /\ c \in Lower(g, rank, e[1], D) /\ c.own = r.own /\ c.node = m /\ c.dist = d
        /\ f.ok = w.ok /\ f.own = w.own
    BY <1>5, <1>8
  <2>2. r.own \in PairedSides(g) /\ Paired(g, r.own.mine)
    BY DEF Results, PairedSides
  <2>3. Back(g, e) \in r.own.mine
    BY <2>2 DEF Paired
  <2>4. Type(g, m) # "MERGE" => Back(g, e) = <<Rev(g, m), 0>>
    BY WaysBack
  <2>5. Entered(g, c)
    <3> HIDE DEF m
    <3> QED BY <1>1, <2>1, <2>2, <2>3, <2>4 DEF Entered
  <2>6. Done(g, c, w)
    BY <2>1, <2>5
  <2> HIDE DEF w
  <2>7. /\ Grown(g, r.own.mine, f.own.mine)
        /\ Type(g, m) # "EXIT" => <<m, 0>> \in f.own.mine
        /\ d >= 0 => Covers(g, m, d, f.own.mine)
    <3> HIDE DEF m, d
    <3>1. w.ok
      BY <1>6, <2>1
    <3> QED BY <2>1, <2>6, <3>1 DEF Done
  <2>8. Ahead(g)[<<e, D>>] \subseteq f.own.mine
    <3>1. e \in f.own.mine /\ Back(g, e) \in f.own.mine
      BY <2>3, <2>7 DEF Grown
    <3>2. CASE d <= 0
      <4>1. Ahead(g)[<<e, D>>] = {e}
        BY <1>2, <3>2 DEF AheadStep
      <4> QED BY <3>1, <4>1
    <3>3. CASE ~(d <= 0)
      <4>1. d >= 0
        BY <1>1, <3>3
      <4>2. \A h \in Legs(g, m) : Ahead(g)[<<h, d>>] \subseteq f.own.mine
        BY <2>7, <4>1 DEF Covers
      <4>3. Legs(g, m) \subseteq f.own.mine
        <5>1. ASSUME NEW h \in Legs(g, m)
              PROVE  h \in Ahead(g)[<<h, d>>]
          <6>1. h \in g.edge
            BY <1>1, LegsAreEdges
          <6> QED BY <1>1, <6>1, AheadParts DEF AheadStep
        <5> QED BY <4>2, <5>1
      <4>4. Legs(g, Rev(g, m)) \subseteq f.own.mine
        <5>1. CASE Type(g, m) = "MERGE"
          BY <2>7, <4>1, <5>1 DEF Covers
        <5>2. CASE Type(g, m) # "MERGE"
          <6>1. Rev(g, m) \in Nodes(g) /\ Rev(g, Rev(g, m)) = m
            BY <1>1 DEF IsLayout
          <6>2. Type(g, Rev(g, m)) # "BRANCH"
            BY <5>2, <6>1 DEF IsLayout
          <6>3. Legs(g, Rev(g, m)) \subseteq {<<Rev(g, m), 0>>}
            BY <6>1, <6>2 DEF IsLayout
          <6> QED BY <2>4, <3>1, <5>2, <6>3
        <5> QED BY <5>1, <5>2
      <4>5. Ahead(g)[<<e, D>>] = {e} \cup Legs(g, m) \cup Legs(g, Rev(g, m))
                                 \cup UNION {Ahead(g)[<<h, d>>] : h \in Legs(g, m)}
        BY <1>2, <3>3 DEF AheadStep
      <4>6. UNION {Ahead(g)[<<h, d>>] : h \in Legs(g, m)} \subseteq f.own.mine
        BY <4>2
      <4> QED BY <3>1, <4>3, <4>4, <4>5, <4>6
    <3> QED BY <3>2, <3>3
  <2>9. IsSwitch(g, m) => Type(g, m) # "EXIT"
    BY DEF IsSwitch
  <2> HIDE DEF m
  <2> QED BY <1>8, <2>7, <2>8, <2>9
<1> QED BY <1>7, <1>8

\* The marks of a node make double switches whole, but for a sensor behind a
\* curved leg: the track to the points is then marked by the next call.
LEMMA MarksGrow ==
  ASSUME NEW g, IsLayout(g), CentreIsClosed(g), NEW n \in Nodes(g), Type(g, n) \notin {"EXIT", "ENTER"},
         NEW own, Type(g, n) = "BRANCH" => <<Rev(g, n), 0>> \in own.mine,
         NEW c \in Centres(g), HasLeg(g, c, Start(g, n, own).own.mine)
  PROVE  LET st == Start(g, n, own).own.mine
         IN  \/ HasLeg(g, c, own.mine)
             \/ /\ <<c, 1>> \in st
                /\ \/ <<Rev(g, c), 0>> \in st
                   \/ Type(g, n) = "SENSOR" /\ Dest(g, <<n, 0>>) = Rev(g, c)
<1> DEFINE st == Start(g, n, own).own.mine
<1>1. st = own.mine \cup Marked(g, n, own)
  BY DEF Start, Result
<1>2. CASE HasLeg(g, c, own.mine)
  BY <1>2
<1>3. CASE ~HasLeg(g, c, own.mine)
  <2>1. PICK e \in Legs(g, c) : e \in Marked(g, n, own)
    BY <1>1, <1>3 DEF HasLeg
  <2>2. PICK x \in MarksFrom(g, n, own) : e \in WithBacks(g, Legs(g, x))
    BY <2>1, MarksParts
  <2>3. x \in Nodes(g) /\ Type(g, x) # "ENTER" /\ WithBacks(g, Legs(g, x)) \subseteq Marked(g, n, own)
    BY MarksParts
  <2>4. \/ x = n
        \/ Type(g, n) = "MERGE" /\ x = Facing(g, n)
        \/ Centre(g, n) # -1 /\ x = Centre(g, n)
    BY DEF MarksFrom
  <2>5. PICK k \in Nodes(g) : Centre(g, k) = c /\ c # -1
    BY DEF Centres
  <2>6. c \in Nodes(g) /\ Type(g, c) = "BRANCH" /\ Legs(g, c) = {<<c, 0>>, <<c, 1>>}
    BY <2>5, CentreParts
  <2>7. CASE x = c
    <3>1. <<c, 1>> \in Marked(g, n, own)
      BY <2>3, <2>6, <2>7 DEF WithBacks
    <3>2. <<Rev(g, c), 0>> \in st
      <4>1. CASE x = n
        BY <1>1, <2>6, <2>7, <4>1
      <4>2. CASE Type(g, n) = "MERGE" /\ x = Facing(g, n)
        <5>1. c = Rev(g, n)
          BY <2>7, <4>2, WaysBack
        <5>2. Rev(g, c) = n
          BY <5>1 DEF IsLayout
        <5>3. <<n, 0>> \in Legs(g, n)
          BY <4>2 DEF IsLayout
        <5>4. <<n, 0>> \in Marked(g, n, own)
          BY <5>3 DEF Marked, Claim, WithBacks
        <5> QED BY <1>1, <5>2, <5>4
      <4>3. CASE Centre(g, n) # -1 /\ x = Centre(g, n)
        <5>1. <<Rev(g, c), 0>> \in Claim(g, n)
          BY <2>7, <4>3, CentreParts
        <5> QED BY <1>1, <5>1 DEF Marked
      <4> QED BY <2>4, <4>1, <4>2, <4>3
    <3> QED BY <1>1, <3>1, <3>2
  <2>8. CASE x # c
    <3>1. Type(g, x) = "SENSOR" /\ Dest(g, <<x, 0>>) = Rev(g, c) /\ e = <<c, 1>>
      BY <2>2, <2>3, <2>8, LegsMarked
    <3>2. x = n
      <4>1. Type(g, n) = "MERGE" => Type(g, Facing(g, n)) = "BRANCH"
        BY WaysBack
      <4>2. Centre(g, n) # -1 => Type(g, Centre(g, n)) = "BRANCH"
        BY CentreParts
      <4> QED BY <2>4, <3>1, <4>1, <4>2
    <3> QED BY <1>1, <2>1, <3>1, <3>2
  <2> QED BY <2>7, <2>8
<1> QED BY <1>2, <1>3

\* What a node in earnest has when all its legs were followed.
LEMMA LegsDone ==
  ASSUME NEW g, IsLayout(g), CentreIsClosed(g),
         NEW rank \in [Nodes(g) -> 0 .. Len(g.node)], Ranks(g, rank),
         NEW n \in Nodes(g), Type(g, n) \notin {"EXIT", "ENTER"}, NEW D \in Int, NEW own \in PairedSides(g),
         Type(g, n) = "BRANCH" => <<Rev(g, n), 0>> \in own.mine,
         \A c \in Lower(g, rank, n, D) : Entered(g, c) => Done(g, c, reserveEdges(g, Earnest)[c])
  PROVE  LET all == AllLegs(g, Earnest, n, D, own)
         IN  all.ok =>
             /\ Grown(g, own.mine, all.own.mine) /\ <<n, 0>> \in all.own.mine
             /\ D >= 0 => Covers(g, n, D, all.own.mine)
<1> DEFINE st == Start(g, n, own)
           one == OneLeg(g, Earnest, n, D, own)
           all == AllLegs(g, Earnest, n, D, own)
           m == Dest(g, <<n, 0>>)
<1>1. /\ st \in Results(PairedSides(g)) /\ one \in Results(PairedSides(g)) /\ all \in Results(PairedSides(g))
      /\ <<n, 0>> \in g.edge /\ <<n, 0>>[1] = n
      /\ Type(g, n) = "BRANCH" => <<n, 1>> \in g.edge /\ <<n, 1>>[1] = n
  BY LegsParts, EarnestIsBoolean
<1>2. /\ Legs(g, n) \subseteq st.own.mine
      /\ Type(g, n) = "MERGE" => Legs(g, Rev(g, n)) \subseteq st.own.mine
      /\ own.mine \subseteq st.own.mine
  <2>1. st.own.mine = own.mine \cup Marked(g, n, own)
    BY DEF Start, Result
  <2>2. Type(g, n) = "MERGE" => Facing(g, n) = Rev(g, n)
    BY WaysBack
  <2>3. Legs(g, n) \subseteq Claim(g, n) /\ (Type(g, n) = "MERGE" => Legs(g, Rev(g, n)) \subseteq Claim(g, n))
    BY <2>2 DEF Claim, WithBacks
  <2> QED BY <2>1, <2>3 DEF Marked
<1>3. <<n, 0>> \in Legs(g, n) /\ (Type(g, n) = "BRANCH" => <<n, 1>> \in Legs(g, n))
      /\ \A h \in Legs(g, n) : h = <<n, 0>> \/ (Type(g, n) = "BRANCH" /\ h = <<n, 1>>)
  BY DEF IsLayout
<1>4. one.ok => /\ Grown(g, st.own.mine, one.own.mine)
                /\ IsSwitch(g, m) => <<m, 0>> \in one.own.mine
                /\ D >= 0 => Ahead(g)[<<<<n, 0>>, D>>] \subseteq one.own.mine
  <2>1. <<n, 0>> \in st.own.mine
    BY <1>2, <1>3
  <2> HIDE DEF st
  <2> QED BY <1>1, <2>1, FollowDone DEF OneLeg, st
<1>5. all.ok => /\ one.ok
                /\ Grown(g, one.own.mine, all.own.mine)
                /\ Type(g, n) = "BRANCH" /\ D >= 0 => Ahead(g)[<<<<n, 1>>, D>>] \subseteq all.own.mine
  <2>1. CASE Type(g, n) = "BRANCH"
    <3>1. all = Follow(g, reserveEdges(g, Earnest), D, one, <<n, 1>>)
      BY <2>1 DEF AllLegs
    <3> HIDE DEF one, all, st
    <3>2. ~one.ok => all = one
      BY <3>1 DEF Follow
    <3>3. one.ok => <<n, 1>> \in one.own.mine
      BY <1>2, <1>3, <1>4, <2>1 DEF Grown
    <3>4. <<n, 1>> \in one.own.mine =>
              (all.ok => /\ one.ok
                         /\ Grown(g, one.own.mine, all.own.mine)
                         /\ D >= 0 => Ahead(g)[<<<<n, 1>>, D>>] \subseteq all.own.mine)
      BY <1>1, <2>1, <3>1, FollowDone
    <3> QED BY <3>2, <3>3, <3>4
  <2>2. CASE Type(g, n) # "BRANCH"
    <3>1. all = one
      BY <2>2 DEF AllLegs
    <3> HIDE DEF one, all
    <3>2. Grown(g, one.own.mine, one.own.mine)
      BY DEF Grown
    <3> QED BY <2>2, <3>1, <3>2
  <2> QED BY <2>1, <2>2
<1>6. \A c \in Centres(g) : HasLeg(g, c, st.own.mine) =>
          HasLeg(g, c, own.mine)
          \/ (<<c, 1>> \in st.own.mine
              /\ (<<Rev(g, c), 0>> \in st.own.mine \/ (IsSwitch(g, m) /\ m = Rev(g, c))))
  <2> SUFFICES ASSUME NEW c \in Centres(g), HasLeg(g, c, st.own.mine), ~HasLeg(g, c, own.mine)
               PROVE  <<c, 1>> \in st.own.mine
                      /\ (<<Rev(g, c), 0>> \in st.own.mine \/ (IsSwitch(g, m) /\ m = Rev(g, c)))
    OBVIOUS
  <2>1. <<c, 1>> \in st.own.mine
        /\ (<<Rev(g, c), 0>> \in st.own.mine \/ m = Rev(g, c))
    BY MarksGrow
  <2>2. PICK k \in Nodes(g) : Centre(g, k) = c /\ c # -1
    BY DEF Centres
  <2>3. IsSwitch(g, Rev(g, c))
    BY <2>2, CentreParts DEF IsSwitch
  <2> QED BY <2>1, <2>3
<1> HIDE DEF st, one, all, m
<1>7. SUFFICES ASSUME all.ok
               PROVE  /\ Grown(g, own.mine, all.own.mine) /\ <<n, 0>> \in all.own.mine
                      /\ D >= 0 => Covers(g, n, D, all.own.mine)
  BY DEF all
<1>8. /\ one.ok
      /\ Grown(g, st.own.mine, one.own.mine) /\ Grown(g, one.own.mine, all.own.mine)
      /\ Grown(g, st.own.mine, all.own.mine)
      /\ st.own.mine \subseteq one.own.mine /\ one.own.mine \subseteq all.own.mine
      /\ IsSwitch(g, m) => <<m, 0>> \in all.own.mine
  <2>1. one.ok /\ Grown(g, one.own.mine, all.own.mine)
    BY <1>5, <1>7
  <2>2. Grown(g, st.own.mine, one.own.mine) /\ (IsSwitch(g, m) => <<m, 0>> \in one.own.mine)
    BY <1>4, <2>1
  <2>3. Grown(g, st.own.mine, all.own.mine)
    BY <2>1, <2>2, GrownOn
  <2> QED BY <2>1, <2>2, <2>3 DEF Grown
<1>9. Grown(g, own.mine, all.own.mine)
  <2>1. own.mine \subseteq all.own.mine
    BY <1>2, <1>8
  <2>2. ASSUME NEW c \in Centres(g), HasLeg(g, c, all.own.mine)
        PROVE  HasLeg(g, c, own.mine) \/ (<<c, 1>> \in all.own.mine /\ <<Rev(g, c), 0>> \in all.own.mine)
    <3>1. \/ HasLeg(g, c, st.own.mine)
          \/ <<c, 1>> \in all.own.mine /\ <<Rev(g, c), 0>> \in all.own.mine
      BY <1>8, <2>2 DEF Grown
    <3> QED BY <1>6, <1>8, <3>1
  <2> QED BY <2>1, <2>2 DEF Grown
<1>10. D >= 0 => Covers(g, n, D, all.own.mine)
  <2> SUFFICES ASSUME D >= 0 PROVE Covers(g, n, D, all.own.mine)
    OBVIOUS
  <2>1. Ahead(g)[<<<<n, 0>>, D>>] \subseteq all.own.mine
    BY <1>4, <1>8
  <2>2. Type(g, n) = "BRANCH" => Ahead(g)[<<<<n, 1>>, D>>] \subseteq all.own.mine
    BY <1>5, <1>7
  <2> QED BY <1>2, <1>3, <1>8, <2>1, <2>2 DEF Covers
<1> QED BY <1>2, <1>3, <1>8, <1>9, <1>10

\* A call in earnest that succeeds has reserved all that is ahead.
LEMMA EarnestLeave ==
  ASSUME NEW g, NEW n, NEW own, NEW r \in Results(PairedSides(g))
  PROVE  Leave(g, Earnest, n, own, r).ok => r.ok /\ Leave(g, Earnest, n, own, r) = r
BY DEF Leave, Earnest, Results

LEMMA ReserveEdgesDone ==
  ASSUME NEW g, IsLayout(g), CentreIsClosed(g), NEW c \in Calls(g), Entered(g, c)
  PROVE  Done(g, c, reserveEdges(g, Earnest)[c])
<1> DEFINE W == reserveEdges(g, Earnest)
           Q == PairedSides(g)
           Good == {x \in Calls(g) : Entered(g, x) => Done(g, x, W[x])}
<1>1. PICK rank \in [Nodes(g) -> 0 .. Len(g.node)] : Ranks(g, rank)
  BY Ranked
<1>2. ASSUME NEW x \in Calls(g), Lower(g, rank, x.node, x.dist) \subseteq Good, Entered(g, x)
      PROVE  Done(g, x, W[x])
  <2> DEFINE n == x.node
             D == x.dist
             own == x.own
             all == AllLegs(g, Earnest, n, D, own)
  <2>1. n \in Nodes(g) /\ D \in Int /\ own \in Q /\ Type(g, n) # "ENTER"
        /\ (Type(g, n) = "BRANCH" => <<Rev(g, n), 0>> \in own.mine)
    BY <1>2 DEF Calls, Entered
  <2>2. \A y \in Lower(g, rank, n, D) : Entered(g, y) => Done(g, y, W[y])
    BY <1>2
  <2>3. W[x] = IF Stops(g, n, D, own) THEN Result(TRUE, own, FALSE)
               ELSE IF IsTaken(g, n, own) THEN Result(FALSE, own, TRUE)
               ELSE Leave(g, Earnest, n, own, all)
    BY CallParts, EarnestIsBoolean
  <2>4. CASE Stops(g, n, D, own)
    <3>1. W[x].own = own
      BY <2>3, <2>4 DEF Result
    <3>2. Grown(g, own.mine, own.mine)
      BY DEF Grown
    <3>3. Type(g, n) # "EXIT" => <<n, 0>> \in own.mine /\ ~(D >= 0)
      BY <2>1, <2>4 DEF Stops
    <3>4. Type(g, n) = "EXIT" => Covers(g, n, D, own.mine)
      <4>1. Type(g, n) = "EXIT" => Legs(g, n) = {}
        BY <2>1 DEF IsLayout
      <4> QED BY <4>1 DEF Covers
    <3> HIDE DEF W
    <3> QED BY <3>1, <3>2, <3>3, <3>4 DEF Done
  <2>5. CASE ~Stops(g, n, D, own) /\ IsTaken(g, n, own)
    <3>1. W[x].ok = FALSE
      BY <2>3, <2>5 DEF Result
    <3> HIDE DEF W
    <3> QED BY <3>1 DEF Done
  <2>6. CASE ~Stops(g, n, D, own) /\ ~IsTaken(g, n, own)
    <3>1. Type(g, n) # "EXIT"
      BY <2>6 DEF Stops
    <3>2. all \in Results(Q)
      BY <2>1, <3>1, LegsParts, EarnestIsBoolean
    <3>3. all.ok => /\ Grown(g, own.mine, all.own.mine) /\ <<n, 0>> \in all.own.mine
                    /\ D >= 0 => Covers(g, n, D, all.own.mine)
      <4> HIDE DEF n, D, own
      <4> QED BY <1>1, <2>1, <2>2, <3>1, LegsDone
    <3> HIDE DEF all
    <3>4. W[x] = Leave(g, Earnest, n, own, all)
      BY <2>3, <2>6
    <3>5. W[x].ok => all.ok /\ W[x] = all
      BY <3>2, <3>4, EarnestLeave
    <3> HIDE DEF W
    <3> QED BY <3>3, <3>5 DEF Done
  <2> QED BY <2>4, <2>5, <2>6
<1>3. \A x \in Calls(g) : Lower(g, rank, x.node, x.dist) \subseteq Good => x \in Good
  BY <1>2
<1>4. c \in Good
  <2> HIDE DEF Good
  <2> QED BY <1>1, <1>3, AllCalls
<1> QED BY <1>4

----------------------------------------------------------------------------
(* A reservation.                                                          *)

\* Owners of every edge, the same for both directions.
Owned(g) == {own \in [g.edge -> Train \cup {NoTrain}] : \A e \in g.edge : own[e] = own[Back(g, e)]}

LEMMA ViewIsPaired ==
  ASSUME NEW g, IsLayout(g), NEW own \in Owned(g), NEW t \in Train
  PROVE  View(own, t) \in PairedSides(g)
<1>1. DOMAIN own = g.edge /\ \A e \in g.edge : Back(g, e) \in g.edge /\ own[e] = own[Back(g, e)]
  BY DEF Owned, IsLayout
<1> QED BY <1>1 DEF View, PairedSides, Sides, Paired

LEMMA OwnersAreOwned ==
  ASSUME NEW g, IsLayout(g), NEW own \in Owned(g), NEW t \in Train, NEW view \in PairedSides(g)
  PROVE  Owners(own, t, view) \in Owned(g)
<1> DEFINE new == Owners(own, t, view)
<1>1. DOMAIN own = g.edge /\ own \in [g.edge -> Train \cup {NoTrain}]
  BY DEF Owned
<1>2. \A e \in g.edge : new[e] = IF e \in view.mine THEN t
                                 ELSE IF e \in view.others THEN own[e] ELSE NoTrain
  BY <1>1 DEF Owners
<1>3. new \in [g.edge -> Train \cup {NoTrain}]
  BY <1>1 DEF Owners
<1>4. ASSUME NEW e \in g.edge
      PROVE  new[e] = new[Back(g, e)]
  <2>1. Back(g, e) \in g.edge /\ Back(g, Back(g, e)) = e /\ own[e] = own[Back(g, e)]
    BY DEF IsLayout, Owned
  <2>2. (e \in view.mine <=> Back(g, e) \in view.mine) /\ (e \in view.others <=> Back(g, e) \in view.others)
    <3>1. Paired(g, view.mine) /\ Paired(g, view.others)
      BY DEF PairedSides
    <3> QED BY <2>1, <3>1 DEF Paired
  <2> HIDE DEF new
  <2> QED BY <1>2, <2>1, <2>2
<1> HIDE DEF new
<1>5. new \in Owned(g)
  BY <1>3, <1>4 DEF Owned
<1> QED BY <1>5 DEF new

LEMMA ClearedIsOwned ==
  ASSUME NEW g, IsLayout(g), NEW own \in Owned(g), NEW t
  PROVE  Cleared(own, t) \in Owned(g)
<1>1. own \in [g.edge -> Train \cup {NoTrain}]
      /\ \A e \in g.edge : Back(g, e) \in g.edge /\ own[e] = own[Back(g, e)]
  BY DEF Owned, IsLayout
<1> QED BY <1>1 DEF Owned, Cleared

\* A call for a node of a request is made on what the calls before it left.
LEMMA NextCallParts ==
  ASSUME NEW g, IsLayout(g), NEW dryrun \in BOOLEAN, NEW n \in Nodes(g), NEW D \in Int,
         NEW r \in Results(PairedSides(g))
  PROVE  LET c == Call(n, D, r.own)
             w == reserveEdges(g, dryrun)[c]
             x == NextCall(g, dryrun, D, r, n)
         IN  /\ c \in Calls(g) /\ c.node = n /\ c.dist = D /\ c.own = r.own /\ c.own \in PairedSides(g)
             /\ w \in Results(PairedSides(g)) /\ x \in Results(PairedSides(g))
             /\ dryrun /\ ~r.ok => x = r
             /\ ~(dryrun /\ ~r.ok) => x.ok = w.ok /\ x.own = w.own /\ x.clash = (w.clash \/ r.clash)
<1> DEFINE c == Call(n, D, r.own)
           w == reserveEdges(g, dryrun)[c]
           x == NextCall(g, dryrun, D, r, n)
<1>1. r.own \in PairedSides(g) /\ r.own \in Sides(g) /\ r.clash \in BOOLEAN
  BY DEF Results, PairedSides
<1>2. c \in Calls(g) /\ c.node = n /\ c.dist = D /\ c.own = r.own
  BY <1>1 DEF Call, Calls
<1>3. w \in Results(PairedSides(g))
  <2> HIDE DEF c
  <2> QED BY <1>1, <1>2, ReserveEdgesKeeps
<1>4. x = IF dryrun /\ ~r.ok THEN r ELSE [w EXCEPT !.clash = @ \/ r.clash]
  BY DEF NextCall
<1> HIDE DEF c, w, x
<1>5. /\ dryrun /\ ~r.ok => x = r
      /\ ~(dryrun /\ ~r.ok) => x.ok = w.ok /\ x.own = w.own /\ x.clash = (w.clash \/ r.clash)
  BY <1>3, <1>4 DEF Results
<1>6. x \in Results(PairedSides(g))
  BY <1>1, <1>3, <1>4 DEF Results
<1> QED BY <1>1, <1>2, <1>3, <1>5, <1>6 DEF c, w, x

\* calls is what ReserveAll computes, one call per node of the request.
Reserves(g, t, dryrun, starts, D, own, calls) ==
  /\ calls[0] = Result(TRUE, View(own, t), FALSE)
  /\ \A i \in 1 .. Len(starts) : calls[i] = NextCall(g, dryrun, D, calls[i - 1], starts[i])
  /\ \A i \in 0 .. Len(starts) : calls[i] \in Results(PairedSides(g))
  /\ ReserveAll(g, t, dryrun, starts, D, own) =
         [calls[Len(starts)] EXCEPT !.own = Owners(own, t, @)]

\* A request computes its calls one after the other.
LEMMA ReserveAllCalls ==
  ASSUME NEW g, IsLayout(g), NEW t \in Train, NEW dryrun \in BOOLEAN,
         NEW starts \in Seq(Nodes(g)), NEW D \in Int, NEW own \in Owned(g)
  PROVE  \E calls : Reserves(g, t, dryrun, starts, D, own, calls)
<1> DEFINE N == Len(starts)
           V == Results(PairedSides(g))
           z == Result(TRUE, View(own, t), FALSE)
           F == [p \in (1 .. N) \X V |-> NextCall(g, dryrun, D, p[2], starts[p[1]])]
<1>1. N \in Nat /\ \A i \in 1 .. N : starts[i] \in Nodes(g)
  OBVIOUS
<1>2. z \in V
  BY ViewIsPaired DEF Result, Results
<1>3. \A i \in 1 .. N : \A r \in V : F[<<i, r>>] = NextCall(g, dryrun, D, r, starts[i])
  OBVIOUS
<1> HIDE DEF F, N, z
<1>4. ASSUME NEW i \in 1 .. N, NEW r \in V
      PROVE  NextCall(g, dryrun, D, r, starts[i]) \in V
  BY <1>1, NextCallParts
<1>5. \E f : f = [i \in 0 .. N |-> IF i = 0 THEN z ELSE NextCall(g, dryrun, D, f[i - 1], starts[i])]
  <2> HIDE DEF V
  <2>1. \A i \in 1 .. N : \A r \in V : F[<<i, r>>] \in V
    BY <1>3, <1>4
  <2>2. PICK f : Loops(N, V, z, F, f)
    BY <1>1, <1>2, <2>1, Chain
  <2>3. ASSUME NEW i \in 0 .. N
        PROVE  f[i] = IF i = 0 THEN z ELSE NextCall(g, dryrun, D, f[i - 1], starts[i])
    <3>1. i # 0 => i - 1 \in 0 .. N /\ i \in 1 .. N
      BY <1>1
    <3>2. i # 0 => f[i - 1] \in V
      BY <2>2, <3>1 DEF Loops
    <3> QED BY <1>3, <2>2, <3>1, <3>2 DEF Loops
  <2>4. f = [i \in 0 .. N |-> f[i]]
    BY <2>2 DEF Loops
  <2> QED BY <2>3, <2>4
<1> DEFINE calls == CHOOSE f : f = [i \in 0 .. N |-> IF i = 0 THEN z ELSE NextCall(g, dryrun, D, f[i - 1], starts[i])]
<1>6. calls = [i \in 0 .. N |-> IF i = 0 THEN z ELSE NextCall(g, dryrun, D, calls[i - 1], starts[i])]
  BY <1>5
<1>7. ReserveAll(g, t, dryrun, starts, D, own) = [calls[N] EXCEPT !.own = Owners(own, t, @)]
  BY DEF ReserveAll, N, z
<1> HIDE DEF calls
<1>8. calls[0] = z /\ \A i \in 1 .. N : calls[i] = NextCall(g, dryrun, D, calls[i - 1], starts[i])
  <2>1. 0 \in 0 .. N /\ \A i \in 1 .. N : i \in 0 .. N /\ i # 0
    BY <1>1
  <2> QED BY <1>6, <2>1
<1>9. \A i \in 0 .. N : calls[i] \in V
  <2> HIDE DEF V
  <2>1. calls[0] \in V /\ \A i \in 1 .. N : calls[i - 1] \in V => calls[i] \in V
    BY <1>2, <1>4, <1>8
  <2> QED BY <1>1, <2>1, ChainKeeps
<1>10. Reserves(g, t, dryrun, starts, D, own, calls)
  BY <1>7, <1>8, <1>9 DEF Reserves, N, z
<1> QED BY <1>10

\* A reservation leaves both directions of every piece of track with one owner.
LEMMA ReserveAllKeeps ==
  ASSUME NEW g, IsLayout(g), NEW t \in Train, NEW dryrun \in BOOLEAN,
         NEW starts \in Seq(Nodes(g)), NEW D \in Int, NEW own \in Owned(g)
  PROVE  ReserveAll(g, t, dryrun, starts, D, own) \in Results(Owned(g))
<1> DEFINE N == Len(starts)
<1>1. PICK calls : Reserves(g, t, dryrun, starts, D, own, calls)
  BY ReserveAllCalls
<1>2. calls[N] \in Results(PairedSides(g))
  <2>1. N \in 0 .. N
    OBVIOUS
  <2> QED BY <1>1, <2>1 DEF Reserves
<1>3. ReserveAll(g, t, dryrun, starts, D, own) = [calls[N] EXCEPT !.own = Owners(own, t, @)]
  BY <1>1 DEF Reserves
<1> HIDE DEF N
<1>4. Owners(own, t, calls[N].own) \in Owned(g)
  <2>1. calls[N].own \in PairedSides(g)
    BY <1>2 DEF Results
  <2> QED BY <2>1, OwnersAreOwned
<1> QED BY <1>2, <1>3, <1>4 DEF Results

----------------------------------------------------------------------------
(* The sensors a request names.                                            *)

\* What is left of a search: the failure still allowed, then the way to a sensor.
Depth(g, rank, n, error) == (IF error THEN 0 ELSE 1) * (Len(g.node) + 1) + rank[n]
DepthOf(g, rank) == [s \in Searches(g) |-> Depth(g, rank, s.node, s.error)]
Nearer(g, rank, n, error) ==
  {s \in Searches(g) : Depth(g, rank, s.node, s.error) < Depth(g, rank, n, error)}

LEMMA DepthIsNatural ==
  ASSUME NEW g, IsLayout(g), NEW rank \in [Nodes(g) -> 0 .. Len(g.node)]
  PROVE  DepthOf(g, rank) \in [Searches(g) -> Nat]
<1>1. ASSUME NEW s \in Searches(g)
      PROVE  Depth(g, rank, s.node, s.error) \in Nat
  <2>1. rank[s.node] \in Nat /\ Len(g.node) + 1 \in Nat
    BY DEF Searches, IsLayout
  <2> DEFINE w == IF s.error THEN 0 ELSE 1
  <2>2. w \in Nat
    OBVIOUS
  <2>3. Depth(g, rank, s.node, s.error) = w * (Len(g.node) + 1) + rank[s.node]
    BY DEF Depth
  <2> HIDE DEF w
  <2>4. w * (Len(g.node) + 1) \in Nat
    BY <2>1, <2>2
  <2> QED BY <2>1, <2>3, <2>4
<1> QED BY <1>1 DEF DepthOf

\* A search goes on nearer to its end, past a sensor only once.
LEMMA LookDescends ==
  ASSUME NEW g, IsLayout(g), NEW rank \in [Nodes(g) -> 0 .. Len(g.node)], Ranks(g, rank),
         NEW n \in Nodes(g), NEW d, <<n, d>> \in g.edge, NEW error \in BOOLEAN, NEW er \in BOOLEAN,
         NEW c \in Conditions(g), error => er, PassesSensor(g, n) => er /\ ~error
  PROVE  Search(Dest(g, <<n, d>>), er, c) \in Nearer(g, rank, n, error)
<1> DEFINE m == Dest(g, <<n, d>>)
<1>1. m \in Nodes(g)
  BY DEF IsLayout
<1>2. Search(m, er, c) \in Searches(g)
  BY <1>1 DEF Search, Searches
<1>3. ~PassesSensor(g, n) => rank[m] < rank[n]
  <2>1. <<n, d>>[1] = n
    OBVIOUS
  <2> QED BY <2>1 DEF Ranks
<1> DEFINE v == IF er THEN 0 ELSE 1
           w == IF error THEN 0 ELSE 1
<1>4. v \in Nat /\ w \in Nat /\ (v < w \/ (v = w /\ rank[m] < rank[n]))
  BY <1>3
<1>5. rank[m] \in 0 .. Len(g.node) /\ rank[n] \in 0 .. Len(g.node) /\ Len(g.node) \in Nat
  BY <1>1 DEF IsLayout
<1> HIDE DEF m
<1>6. Depth(g, rank, m, er) < Depth(g, rank, n, error)
  <2>1. Depth(g, rank, m, er) = v * (Len(g.node) + 1) + rank[m]
    BY DEF Depth
  <2>2. Depth(g, rank, n, error) = w * (Len(g.node) + 1) + rank[n]
    BY DEF Depth
  <2> HIDE DEF v, w
  <2> QED BY <1>4, <1>5, <2>1, <2>2, FirstDecides
<1>7. Search(m, er, c) \in Nearer(g, rank, n, error)
  BY <1>2, <1>6 DEF Nearer, Search
<1> QED BY <1>7 DEF m

\* Where trains and predictions are.
Landmarks(g) == {n \in Nodes(g) : PassesSensor(g, n)}
Predictions(g) == [sensor : Landmarks(g), condition : Conditions(g)]

\* The searches a node asks for, of a search at n.
From(g, find, n, d, er, c) == find[Search(Dest(g, <<n, d>>), er, c)]
Failed(g, n) == IF Type(g, n) = "BRANCH" THEN [node |-> n, state |-> SWITCH_CURVED]
                                         ELSE [node |-> n, state |-> -1]
Set(g, sw, n) == IF At(g, n).num \in DOMAIN sw THEN sw[At(g, n).num] ELSE SWITCH_CURVED

LEMMA LookParts ==
  ASSUME NEW g, NEW sw, NEW find, NEW n, NEW error, NEW c
  PROVE  Look(g, sw, find, n, error, c) =
           IF Type(g, n) \in {"SENSOR", "EXIT"}
           THEN <<[sensor |-> n, condition |-> c]>>
                \o (IF ~error /\ Type(g, n) = "SENSOR" THEN From(g, find, n, 0, TRUE, Failed(g, n)) ELSE <<>>)
           ELSE IF Type(g, n) = "BRANCH"
           THEN From(g, find, n, Set(g, sw, n), error, c)
                \o (IF error THEN <<>> ELSE From(g, find, n, 1 - Set(g, sw, n), TRUE, Failed(g, n)))
           ELSE From(g, find, n, 0, error, c)
BY DEF Look, From, Failed, Set

\* The searches of a node are nearer to their end.
LEMMA LookIsNearer ==
  ASSUME NEW g, IsLayout(g), NEW rank \in [Nodes(g) -> 0 .. Len(g.node)], Ranks(g, rank),
         NEW sw \in SwitchStates, NEW n \in Nodes(g), NEW error \in BOOLEAN, NEW c \in Conditions(g)
  PROVE  /\ Type(g, n) = "SENSOR" /\ ~error =>
                Search(Dest(g, <<n, 0>>), TRUE, Failed(g, n)) \in Nearer(g, rank, n, error)
         /\ Type(g, n) = "BRANCH" =>
                /\ Search(Dest(g, <<n, Set(g, sw, n)>>), error, c) \in Nearer(g, rank, n, error)
                /\ ~error => Search(Dest(g, <<n, 1 - Set(g, sw, n)>>), TRUE, Failed(g, n))
                                 \in Nearer(g, rank, n, error)
         /\ Type(g, n) \notin {"SENSOR", "EXIT", "BRANCH"} =>
                Search(Dest(g, <<n, 0>>), error, c) \in Nearer(g, rank, n, error)
<1>1. Type(g, n) # "EXIT" => <<n, 0>> \in g.edge
  BY LegsAreEdges
<1>2. Type(g, n) = "BRANCH" => <<n, 0>> \in g.edge /\ <<n, 1>> \in g.edge
  BY <1>1, LegsAreEdges
<1>3. Type(g, n) \in {"SENSOR", "BRANCH"} => Failed(g, n) \in Conditions(g)
  BY DEF Failed, Conditions
<1>4. Set(g, sw, n) \in {0, 1} /\ 1 - Set(g, sw, n) \in {0, 1}
  <2>1. Set(g, sw, n) \in {0, 1}
    BY DEF Set, SwitchStates, SWITCH_STRAIGHT, SWITCH_CURVED
  <2> QED BY <2>1
<1>5. CASE Type(g, n) = "SENSOR"
  BY <1>1, <1>3, <1>5, LookDescends
<1>6. CASE Type(g, n) = "BRANCH"
  <2>1. ~PassesSensor(g, n)
    BY <1>6 DEF PassesSensor
  <2>2. <<n, Set(g, sw, n)>> \in g.edge /\ <<n, 1 - Set(g, sw, n)>> \in g.edge
    BY <1>2, <1>4, <1>6
  <2>3. Search(Dest(g, <<n, Set(g, sw, n)>>), error, c) \in Nearer(g, rank, n, error)
    BY <2>1, <2>2, LookDescends
  <2>4. ~error => Search(Dest(g, <<n, 1 - Set(g, sw, n)>>), TRUE, Failed(g, n)) \in Nearer(g, rank, n, error)
    BY <1>3, <1>6, <2>1, <2>2, LookDescends
  <2> QED BY <1>6, <2>3, <2>4
<1>7. CASE Type(g, n) \notin {"SENSOR", "EXIT", "BRANCH"}
  <2>1. ~PassesSensor(g, n)
    BY <1>7 DEF PassesSensor
  <2>2. Search(Dest(g, <<n, 0>>), error, c) \in Nearer(g, rank, n, error)
    BY <1>1, <1>7, <2>1, LookDescends
  <2> QED BY <1>7, <2>2
<1>8. CASE Type(g, n) = "EXIT"
  BY <1>8
<1> QED BY <1>5, <1>6, <1>7, <1>8

\* A search finds predictions if the searches it asks for do.
LEMMA LookKeeps ==
  ASSUME NEW g, IsLayout(g), NEW rank \in [Nodes(g) -> 0 .. Len(g.node)], Ranks(g, rank),
         NEW sw \in SwitchStates, NEW n \in Nodes(g), NEW error \in BOOLEAN, NEW c \in Conditions(g),
         NEW find, \A s \in Nearer(g, rank, n, error) : find[s] \in Seq(Predictions(g))
  PROVE  Look(g, sw, find, n, error, c) \in Seq(Predictions(g))
<1>1. /\ Type(g, n) = "SENSOR" /\ ~error => From(g, find, n, 0, TRUE, Failed(g, n)) \in Seq(Predictions(g))
      /\ Type(g, n) = "BRANCH" =>
             /\ From(g, find, n, Set(g, sw, n), error, c) \in Seq(Predictions(g))
             /\ ~error => From(g, find, n, 1 - Set(g, sw, n), TRUE, Failed(g, n)) \in Seq(Predictions(g))
      /\ Type(g, n) \notin {"SENSOR", "EXIT", "BRANCH"} =>
             From(g, find, n, 0, error, c) \in Seq(Predictions(g))
  BY LookIsNearer DEF From
<1>2. /\ Type(g, n) \in {"SENSOR", "EXIT"} => <<[sensor |-> n, condition |-> c]>> \in Seq(Predictions(g))
      /\ <<>> \in Seq(Predictions(g))
  BY DEF Predictions, Landmarks, PassesSensor
<1>3. \A u, v \in Seq(Predictions(g)) : u \o v \in Seq(Predictions(g))
  OBVIOUS
<1> QED BY <1>1, <1>2, <1>3, LookParts

\* A search depends on nearer ones only.
LEMMA LookLocal ==
  ASSUME NEW g, IsLayout(g), NEW rank \in [Nodes(g) -> 0 .. Len(g.node)], Ranks(g, rank),
         NEW sw \in SwitchStates, NEW n \in Nodes(g), NEW error \in BOOLEAN, NEW c \in Conditions(g),
         NEW f, NEW h, \A s \in Nearer(g, rank, n, error) : f[s] = h[s]
  PROVE  Look(g, sw, f, n, error, c) = Look(g, sw, h, n, error, c)
<1>1. /\ Type(g, n) = "SENSOR" /\ ~error =>
             From(g, f, n, 0, TRUE, Failed(g, n)) = From(g, h, n, 0, TRUE, Failed(g, n))
      /\ Type(g, n) = "BRANCH" =>
             /\ From(g, f, n, Set(g, sw, n), error, c) = From(g, h, n, Set(g, sw, n), error, c)
             /\ ~error => From(g, f, n, 1 - Set(g, sw, n), TRUE, Failed(g, n))
                              = From(g, h, n, 1 - Set(g, sw, n), TRUE, Failed(g, n))
      /\ Type(g, n) \notin {"SENSOR", "EXIT", "BRANCH"} => From(g, f, n, 0, error, c) = From(g, h, n, 0, error, c)
  BY LookIsNearer DEF From
<1> QED BY <1>1, LookParts
\* findNextSensorsHelper is defined for every search and answers with
\* predictions: each names a sensor or exit and the condition it stands under.
LEMMA SearchesFind ==
  ASSUME NEW g, IsLayout(g), NEW sw \in SwitchStates, NEW s \in Searches(g)
  PROVE  nextSensors(g, sw)[s] \in Seq(Predictions(g))
<1>1. PICK rank \in [Nodes(g) -> 0 .. Len(g.node)] : Ranks(g, rank)
  BY Ranked
<1> DEFINE S == Searches(g)
           V == Seq(Predictions(g))
           depth == DepthOf(g, rank)
           F == [p \in S \X [S -> V] |-> Look(g, sw, p[2], p[1].node, p[1].error, p[1].condition)]
           W == nextSensors(g, sw)
<1>2. /\ depth \in [S -> Nat]
      /\ \A x \in S : depth[x] = Depth(g, rank, x.node, x.error)
  BY DepthIsNatural DEF DepthOf
<1>3. \A x \in S : \A f \in [S -> V] : F[<<x, f>>] = Look(g, sw, f, x.node, x.error, x.condition)
  OBVIOUS
<1>4. \A x \in S : x.node \in Nodes(g) /\ x.error \in BOOLEAN /\ x.condition \in Conditions(g)
  BY DEF Searches
<1>5. \A x, y \in S : y \in Nearer(g, rank, x.node, x.error) <=> depth[y] < depth[x]
  BY <1>2 DEF Nearer
<1> HIDE DEF depth, F
<1>6. \E f : f = [x \in Searches(g) |-> Look(g, sw, f, x.node, x.error, x.condition)]
  <2>1. V # {}
    <3>1. <<>> \in V
      OBVIOUS
    <3> QED BY <3>1
  <2>2. ASSUME NEW x \in S, NEW f \in [S -> V]
        PROVE  F[<<x, f>>] \in V
    <3>1. \A y \in Nearer(g, rank, x.node, x.error) : f[y] \in V
      BY DEF Nearer
    <3> HIDE DEF S
    <3>2. Look(g, sw, f, x.node, x.error, x.condition) \in V
      BY <1>1, <1>4, <3>1, LookKeeps
    <3> QED BY <1>3, <3>2
  <2>3. Descends(S, V, depth, F)
    <3> SUFFICES ASSUME NEW x \in S, NEW f \in [S -> V], NEW h \in [S -> V],
                        \A y \in S : depth[y] < depth[x] => f[y] = h[y]
                 PROVE  F[<<x, f>>] = F[<<x, h>>]
      BY DEF Descends
    <3>1. \A y \in Nearer(g, rank, x.node, x.error) : f[y] = h[y]
      BY <1>5 DEF Nearer
    <3>2. x.node \in Nodes(g) /\ x.error \in BOOLEAN /\ x.condition \in Conditions(g)
      BY <1>4
    <3> HIDE DEF S, V
    <3>3. Look(g, sw, f, x.node, x.error, x.condition) = Look(g, sw, h, x.node, x.error, x.condition)
      BY <1>1, <3>1, <3>2, LookLocal
    <3> QED BY <1>3, <3>3
  <2>4. PICK f : Defines(S, V, F, f)
    <3> HIDE DEF S, V
    <3> QED BY <1>2, <2>1, <2>2, <2>3, Recursion
  <2>5. \A x \in Searches(g) : f[x] = Look(g, sw, f, x.node, x.error, x.condition)
    BY <1>3, <2>4 DEF Defines
  <2>6. f = [x \in Searches(g) |-> f[x]]
    BY <2>4 DEF Defines
  <2> HIDE DEF S, V
  <2> QED BY <2>5, <2>6
<1>7. W = [x \in Searches(g) |-> Look(g, sw, W, x.node, x.error, x.condition)]
  BY <1>6 DEF nextSensors
<1>8. \A x \in S : W[x] = Look(g, sw, W, x.node, x.error, x.condition)
  <2> HIDE DEF W
  <2> QED BY <1>7
<1> HIDE DEF W
<1> DEFINE B == {x \in S : W[x] \notin V}
<1>9. B = {}
  <2> SUFFICES ASSUME B # {} PROVE FALSE
    OBVIOUS
  <2>1. PICK x \in B : \A y \in S : depth[y] < depth[x] => y \notin B
    <3>1. B \in SUBSET S /\ depth \in [S -> Nat]
      BY <1>2
    <3>2. \E x : Lowest(S, depth, B, x)
      <4> HIDE DEF B, S, V
      <4> QED BY <3>1, LeastRank
    <3> HIDE DEF B, S, V
    <3> QED BY <3>2 DEF Lowest
  <2>2. \A y \in Nearer(g, rank, x.node, x.error) : W[y] \in V
    BY <1>5, <2>1 DEF Nearer
  <2>3. Look(g, sw, W, x.node, x.error, x.condition) \in V
    BY <1>1, <1>4, <2>1, <2>2, LookKeeps
  <2> QED BY <1>8, <2>1, <2>3
<1> QED BY <1>9 DEF W

LEMMA PredictionsFound ==
  ASSUME NEW g, IsLayout(g), NEW sw \in SwitchStates, NEW n \in Nodes(g), Type(g, n) = "SENSOR"
  PROVE  findNextSensors(g, sw, n) \in Seq(Predictions(g))
<1>1. <<n, 0>> \in g.edge
  BY LegsAreEdges
<1>2. Dest(g, <<n, 0>>) \in Nodes(g)
  BY <1>1 DEF IsLayout
<1>3. Search(Dest(g, <<n, 0>>), FALSE, NoCondition) \in Searches(g)
  BY <1>2 DEF Search, Searches, Conditions
<1> QED BY <1>3, SearchesFind DEF findNextSensors

LEMMA SensorsAreLandmarks ==
  ASSUME NEW g, IsLayout(g), NEW sw \in SwitchStates, NEW n \in Nodes(g), Type(g, n) = "SENSOR",
         NEW moving \in BOOLEAN
  PROVE  SensorsToReserve(g, sw, n, moving) \in Seq(Landmarks(g))
<1> DEFINE p == findNextSensors(g, sw, n)
           q == [i \in DOMAIN p |-> p[i].sensor]
<1>1. p \in Seq(Predictions(g))
  BY PredictionsFound
<1>2. SensorsToReserve(g, sw, n, moving) = <<n>> \o IF moving THEN q ELSE <<>>
  BY DEF SensorsToReserve
<1> HIDE DEF p
<1>3. q \in Seq(Landmarks(g))
  <2>1. Len(p) \in Nat /\ DOMAIN p = 1 .. Len(p) /\ \A i \in 1 .. Len(p) : p[i] \in Predictions(g)
    BY <1>1
  <2>2. \A i \in 1 .. Len(p) : p[i].sensor \in Landmarks(g)
    BY <2>1 DEF Predictions
  <2>3. q \in [1 .. Len(p) -> Landmarks(g)]
    BY <2>1, <2>2
  <2> HIDE DEF q
  <2> QED BY <2>1, <2>3, SeqDef
<1> HIDE DEF q
<1>4. <<n>> \in Seq(Landmarks(g)) /\ <<>> \in Seq(Landmarks(g))
  BY DEF Landmarks, PassesSensor
<1> QED BY <1>2, <1>3, <1>4

\* A request names sensors and exits of the layout.
LEMMA RequestedAreLandmarks ==
  ASSUME NEW g, IsLayout(g), NEW sw \in SwitchStates, NEW moving \in BOOLEAN,
         NEW group \in Seq(Nodes(g)), \A i \in DOMAIN group : Type(g, group[i]) = "SENSOR"
  PROVE  Requested(g, sw, group, moving) \in Seq(Landmarks(g))
<1> DEFINE V == Seq(Landmarks(g))
           Sens(n) == SensorsToReserve(g, sw, n, moving)
           all == CHOOSE f : f = [i \in 0 .. Len(group) |-> IF i = 0 THEN <<>> ELSE f[i - 1] \o Sens(group[i])]
           asked == all[Len(group)]
           once == CHOOSE f : f = [i \in 0 .. Len(asked) |-> IF i = 0 THEN <<>> ELSE AddNew(f[i - 1], asked[i])]
<1>1. Requested(g, sw, group, moving) = once[Len(asked)]
  BY DEF Requested
<1> HIDE DEF once
<1>2. asked \in V
  <2> DEFINE N == Len(group)
             F == [p \in (1 .. N) \X V |-> p[2] \o Sens(group[p[1]])]
  <2>1. N \in Nat /\ <<>> \in V
    OBVIOUS
  <2>2. \A i \in 1 .. N : Sens(group[i]) \in V
    <3>1. \A i \in 1 .. N : group[i] \in Nodes(g) /\ Type(g, group[i]) = "SENSOR"
      OBVIOUS
    <3> QED BY <3>1, SensorsAreLandmarks
  <2> HIDE DEF Sens
  <2>3. \A i \in 1 .. N : \A v \in V : v \o Sens(group[i]) \in V
    BY <2>2
  <2>4. \A i \in 1 .. N : \A v \in V : F[<<i, v>>] = v \o Sens(group[i])
    OBVIOUS
  <2> HIDE DEF F, V, N
  <2>5. PICK f : Loops(N, V, <<>>, F, f)
    <3>1. \A i \in 1 .. N : \A v \in V : F[<<i, v>>] \in V
      BY <2>3, <2>4
    <3> QED BY <2>1, <3>1, Chain
  <2>6. f = [i \in 0 .. N |-> IF i = 0 THEN <<>> ELSE f[i - 1] \o Sens(group[i])]
    <3>1. ASSUME NEW i \in 0 .. N
          PROVE  f[i] = IF i = 0 THEN <<>> ELSE f[i - 1] \o Sens(group[i])
      <4>1. i # 0 => i - 1 \in 0 .. N /\ i \in 1 .. N
        BY <2>1
      <4>2. i # 0 => f[i - 1] \in V
        BY <2>5, <4>1 DEF Loops
      <4> QED BY <2>4, <2>5, <4>1, <4>2 DEF Loops
    <3>2. f = [i \in 0 .. N |-> f[i]]
      BY <2>5 DEF Loops
    <3> QED BY <3>1, <3>2
  <2>7. all = [i \in 0 .. N |-> IF i = 0 THEN <<>> ELSE all[i - 1] \o Sens(group[i])]
    BY <2>6 DEF N
  <2> HIDE DEF all
  <2>8. all[0] = <<>> /\ \A i \in 1 .. N : all[i] = all[i - 1] \o Sens(group[i])
    <3>1. 0 \in 0 .. N /\ \A i \in 1 .. N : i \in 0 .. N /\ i # 0
      BY <2>1
    <3> QED BY <2>7, <3>1
  <2>9. \A i \in 0 .. N : all[i] \in V
    <3>1. all[0] \in V /\ \A i \in 1 .. N : all[i - 1] \in V => all[i] \in V
      BY <2>1, <2>3, <2>8
    <3> QED BY <2>1, <3>1, ChainKeeps
  <2> QED BY <2>1, <2>9 DEF N
<1> HIDE DEF all, asked, Sens
<1>3. once[Len(asked)] \in V
  <2> DEFINE N == Len(asked)
             F == [p \in (1 .. N) \X V |-> AddNew(p[2], asked[p[1]])]
  <2>1. N \in Nat /\ <<>> \in V /\ \A i \in 1 .. N : asked[i] \in Landmarks(g)
    BY <1>2
  <2>2. \A i \in 1 .. N : \A v \in V : AddNew(v, asked[i]) \in V
    BY <2>1 DEF AddNew
  <2>3. \A i \in 1 .. N : \A v \in V : F[<<i, v>>] = AddNew(v, asked[i])
    OBVIOUS
  <2> HIDE DEF F, V, N
  <2>4. PICK f : Loops(N, V, <<>>, F, f)
    <3>1. \A i \in 1 .. N : \A v \in V : F[<<i, v>>] \in V
      BY <2>2, <2>3
    <3> QED BY <2>1, <3>1, Chain
  <2>5. f = [i \in 0 .. N |-> IF i = 0 THEN <<>> ELSE AddNew(f[i - 1], asked[i])]
    <3>1. ASSUME NEW i \in 0 .. N
          PROVE  f[i] = IF i = 0 THEN <<>> ELSE AddNew(f[i - 1], asked[i])
      <4>1. i # 0 => i - 1 \in 0 .. N /\ i \in 1 .. N
        BY <2>1
      <4>2. i # 0 => f[i - 1] \in V
        BY <2>4, <4>1 DEF Loops
      <4> QED BY <2>3, <2>4, <4>1, <4>2 DEF Loops
    <3>2. f = [i \in 0 .. N |-> f[i]]
      BY <2>4 DEF Loops
    <3> QED BY <3>1, <3>2
  <2>6. once = [i \in 0 .. N |-> IF i = 0 THEN <<>> ELSE AddNew(once[i - 1], asked[i])]
    BY <2>5 DEF N, once
  <2>7. once[0] = <<>> /\ \A i \in 1 .. N : once[i] = AddNew(once[i - 1], asked[i])
    <3>1. 0 \in 0 .. N /\ \A i \in 1 .. N : i \in 0 .. N /\ i # 0
      BY <2>1
    <3> QED BY <2>6, <3>1
  <2>8. \A i \in 0 .. N : once[i] \in V
    <3>1. once[0] \in V /\ \A i \in 1 .. N : once[i - 1] \in V => once[i] \in V
      BY <2>1, <2>2, <2>7
    <3> QED BY <2>1, <3>1, ChainKeeps
  <2> QED BY <2>1, <2>8 DEF N
<1> QED BY <1>1, <1>3

----------------------------------------------------------------------------
(* What a reservation leaves to others, and what it gives.                 *)

\* The pieces of track a train owns.
Share(g, own, t) == {e \in g.edge : own[e] = t}

\* What ReserveAll makes of the owners.
LEMMA OwnersParts ==
  ASSUME NEW g, NEW t \in Train, NEW dryrun, NEW starts, NEW D, NEW own \in Owned(g),
         NEW calls, Reserves(g, t, dryrun, starts, D, own, calls), Len(starts) \in Nat
  PROVE  LET r == ReserveAll(g, t, dryrun, starts, D, own)
             w == calls[Len(starts)]
         IN  /\ r.ok = w.ok /\ r.clash = w.clash
             /\ \A e \in g.edge : r.own[e] = IF e \in w.own.mine THEN t
                                             ELSE IF e \in w.own.others THEN own[e] ELSE NoTrain
<1> DEFINE w == calls[Len(starts)]
<1>1. w \in Results(PairedSides(g))
  <2>1. Len(starts) \in 0 .. Len(starts)
    OBVIOUS
  <2> QED BY <2>1 DEF Reserves
<1>2. ReserveAll(g, t, dryrun, starts, D, own) = [w EXCEPT !.own = Owners(own, t, @)]
  BY DEF Reserves
<1>3. DOMAIN own = g.edge
  BY DEF Owned
<1> HIDE DEF w
<1>4. LET r == ReserveAll(g, t, dryrun, starts, D, own)
      IN  r.ok = w.ok /\ r.clash = w.clash /\ r.own = Owners(own, t, w.own)
  BY <1>1, <1>2 DEF Results
<1>5. \A e \in g.edge : Owners(own, t, w.own)[e] = IF e \in w.own.mine THEN t
                                                   ELSE IF e \in w.own.others THEN own[e] ELSE NoTrain
  BY <1>3 DEF Owners
<1> QED BY <1>4, <1>5 DEF w

\* A reservation takes nothing of what others have whole, gives them nothing,
\* and a failure of a dry run is told.
LEMMA ReserveAllSpares ==
  ASSUME NEW g, IsLayout(g), CentreIsClosed(g), NEW t \in Train, NEW dryrun \in BOOLEAN,
         NEW starts \in Seq(Nodes(g)), NEW D \in Int, NEW own \in Owned(g),
         NEW K, Paired(g, K), Whole(g, K), \A e \in K : own[e] \notin {t, NoTrain}
  PROVE  LET r == ReserveAll(g, t, dryrun, starts, D, own)
         IN  /\ \A e \in K : r.own[e] = own[e]
             /\ \A e \in g.edge : r.own[e] \in {own[e], t, NoTrain}
             /\ r.ok \/ r.clash
<1> DEFINE N == Len(starts)
           view == View(own, t)
           Good == {r \in Results(PairedSides(g)) : Spares(K, view, r)}
<1>1. PICK calls : Reserves(g, t, dryrun, starts, D, own, calls)
  BY ReserveAllCalls
<1>2. N \in Nat /\ \A i \in 1 .. N : starts[i] \in Nodes(g)
  OBVIOUS
<1>3. K \subseteq view.others
  <2>1. K \subseteq g.edge /\ DOMAIN own = g.edge
    BY DEF Paired, Owned
  <2> QED BY <2>1 DEF View
<1> HIDE DEF view
<1>4. calls[0] \in Good
  <2>1. calls[0] = Result(TRUE, view, FALSE) /\ calls[0] \in Results(PairedSides(g))
    <3>1. 0 \in 0 .. N
      BY <1>2
    <3> QED BY <1>1, <3>1 DEF Reserves, view
  <2>2. Spares(K, view, Result(TRUE, view, FALSE))
    BY DEF Spares, Result
  <2> QED BY <2>1, <2>2
<1>5. ASSUME NEW i \in 1 .. N, calls[i - 1] \in Good
      PROVE  calls[i] \in Good
  <2> DEFINE r == calls[i - 1]
             x == calls[i]
             c == Call(starts[i], D, r.own)
             w == reserveEdges(g, dryrun)[c]
  <2>1. x = NextCall(g, dryrun, D, r, starts[i]) /\ starts[i] \in Nodes(g)
    BY <1>1, <1>2 DEF Reserves
  <2>2. r \in Results(PairedSides(g)) /\ Spares(K, view, r)
    BY <1>5
  <2> HIDE DEF r, x
  <2>3. /\ c \in Calls(g) /\ c.own = r.own /\ c.own \in PairedSides(g)
        /\ x \in Results(PairedSides(g))
        /\ dryrun /\ ~r.ok => x = r
        /\ ~(dryrun /\ ~r.ok) => x.ok = w.ok /\ x.own = w.own /\ x.clash = (w.clash \/ r.clash)
    BY <2>1, <2>2, NextCallParts
  <2> HIDE DEF c
  <2>4. Spares(K, r.own, w)
    BY <2>3, ReserveEdgesSpares
  <2> HIDE DEF w
  <2>5. Spares(K, view, x)
    BY <1>3, <2>2, <2>3, <2>4 DEF Spares
  <2> QED BY <2>3, <2>5 DEF x
<1>6. \A i \in 0 .. N : calls[i] \in Good
  <2> HIDE DEF Good
  <2> QED BY <1>2, <1>4, <1>5, ChainKeeps
<1>7. calls[N] \in Results(PairedSides(g)) /\ Spares(K, view, calls[N])
  BY <1>2, <1>6
<1> DEFINE w == calls[N]
           r == ReserveAll(g, t, dryrun, starts, D, own)
<1>8. /\ r.ok = w.ok /\ r.clash = w.clash
      /\ \A e \in g.edge : r.own[e] = IF e \in w.own.mine THEN t
                                      ELSE IF e \in w.own.others THEN own[e] ELSE NoTrain
  BY <1>1, <1>2, OwnersParts
<1> HIDE DEF r, w, N
<1>9. K \subseteq w.own.others /\ w.own.mine \cap w.own.others = {} /\ K \subseteq g.edge
  BY <1>3, <1>7 DEF Spares, Results, PairedSides, Paired, w
<1>10. r.ok \/ r.clash
  BY <1>7, <1>8 DEF Spares, w
<1>11. (\A e \in K : r.own[e] = own[e]) /\ (\A e \in g.edge : r.own[e] \in {own[e], t, NoTrain})
  BY <1>8, <1>9
<1> QED BY <1>10, <1>11 DEF r

\* A dry run from sensors and exits leaves the train with what it has.
LEMMA DryRunKeeps ==
  ASSUME NEW g, IsLayout(g), CentreIsClosed(g), NEW t \in Train,
         NEW starts \in Seq(Landmarks(g)), NEW D \in Int, NEW own \in Owned(g),
         Whole(g, Share(g, own, t))
  PROVE  Share(g, ReserveAll(g, t, DryRun, starts, D, own).own, t) = Share(g, own, t)
<1> DEFINE N == Len(starts)
           mine == Share(g, own, t)
           Good == {r \in Results(PairedSides(g)) : r.own.mine = mine}
<1>1. starts \in Seq(Nodes(g)) /\ N \in Nat
      /\ \A i \in 1 .. N : starts[i] \in Nodes(g) /\ Type(g, starts[i]) # "ENTER"
  BY DEF Landmarks, PassesSensor
<1>2. PICK calls : Reserves(g, t, DryRun, starts, D, own, calls)
  BY <1>1, ReserveAllCalls, DryRunIsBoolean
<1>3. DOMAIN own = g.edge /\ NoTrain # t
  BY TrackAssumption DEF Owned
<1>4. Bent(g, mine)
  BY DEF Whole, Bent
<1>5. View(own, t).mine = mine
  BY <1>3 DEF View, Share
<1> HIDE DEF mine
<1>6. calls[0] \in Good
  <2>1. calls[0] = Result(TRUE, View(own, t), FALSE) /\ calls[0] \in Results(PairedSides(g))
    <3>1. 0 \in 0 .. N
      BY <1>1
    <3> QED BY <1>2, <3>1 DEF Reserves
  <2> QED BY <1>5, <2>1 DEF Result
<1>7. ASSUME NEW i \in 1 .. N, calls[i - 1] \in Good
      PROVE  calls[i] \in Good
  <2> DEFINE r == calls[i - 1]
             x == calls[i]
             c == Call(starts[i], D, r.own)
             w == reserveEdges(g, DryRun)[c]
  <2>1. x = NextCall(g, DryRun, D, r, starts[i]) /\ starts[i] \in Nodes(g) /\ Type(g, starts[i]) # "ENTER"
    BY <1>1, <1>2 DEF Reserves
  <2>2. r \in Results(PairedSides(g)) /\ r.own.mine = mine
    BY <1>7
  <2> HIDE DEF r, x
  <2>3. /\ c \in Calls(g) /\ c.own = r.own /\ c.own \in PairedSides(g) /\ c.node = starts[i]
        /\ x \in Results(PairedSides(g))
        /\ DryRun /\ ~r.ok => x = r
        /\ ~(DryRun /\ ~r.ok) => x.ok = w.ok /\ x.own = w.own /\ x.clash = (w.clash \/ r.clash)
    BY <2>1, <2>2, NextCallParts, DryRunIsBoolean
  <2> HIDE DEF c
  <2>4. w.own.mine = mine
    <3>1. DryReady(g, c)
      BY <1>4, <2>1, <2>2, <2>3 DEF DryReady
    <3> QED BY <2>2, <2>3, <3>1, DryKeepsMine
  <2> HIDE DEF w
  <2>5. x.own.mine = mine
    BY <2>2, <2>3, <2>4
  <2> QED BY <2>3, <2>5 DEF x
<1>8. \A i \in 0 .. N : calls[i] \in Good
  <2> HIDE DEF Good
  <2> QED BY <1>1, <1>6, <1>7, ChainKeeps
<1>9. calls[N].own.mine = mine
  BY <1>1, <1>8
<1> DEFINE r == ReserveAll(g, t, DryRun, starts, D, own)
<1>10. \A e \in g.edge : r.own[e] = IF e \in mine THEN t
                                    ELSE IF e \in calls[N].own.others THEN own[e] ELSE NoTrain
  BY <1>1, <1>2, <1>9, OwnersParts
<1>11. \A e \in g.edge : e \in mine <=> own[e] = t
  BY DEF mine, Share
<1> HIDE DEF r
<1>12. \A e \in g.edge : r.own[e] = t <=> own[e] = t
  BY <1>3, <1>10, <1>11
<1> QED BY <1>12 DEF r, mine, Share

\* What a granted request gives the train.
Holds(g, own, t, h) ==
  \A n \in ToSet(h.starts) : \A e \in Legs(g, n) : Ahead(g)[<<e, h.dist>>] \subseteq Share(g, own, t)

\* A reservation in earnest by a train without track, in which nothing failed,
\* gives it all it asked for.
LEMMA EarnestGives ==
  ASSUME NEW g, IsLayout(g), CentreIsClosed(g), NEW t \in Train,
         NEW starts \in Seq(Landmarks(g)), NEW D \in Nat, NEW own \in Owned(g),
         Share(g, own, t) = {}, NEW h, h.starts = starts, h.dist = D
  PROVE  LET r == ReserveAll(g, t, Earnest, starts, D, own)
         IN  ~r.clash => Whole(g, Share(g, r.own, t)) /\ Holds(g, r.own, t, h)
<1> DEFINE N == Len(starts)
           Gives(i, r) == ~r.clash => /\ Grown(g, {}, r.own.mine)
                                      /\ \A j \in 1 .. i : Covers(g, starts[j], D, r.own.mine)
<1>1. starts \in Seq(Nodes(g)) /\ N \in Nat /\ D \in Int /\ D >= 0
      /\ \A i \in 1 .. N : starts[i] \in Nodes(g) /\ Type(g, starts[i]) \notin {"ENTER", "BRANCH"}
  BY DEF Landmarks, PassesSensor
<1>2. PICK calls : Reserves(g, t, Earnest, starts, D, own, calls)
  BY <1>1, ReserveAllCalls, EarnestIsBoolean
<1> DEFINE Good == {i \in 0 .. N : Gives(i, calls[i])}
           same == [i \in 0 .. N |-> i]
<1>3. DOMAIN own = g.edge /\ NoTrain # t
  BY TrackAssumption DEF Owned
<1>4. 0 \in Good
  <2>1. calls[0] = Result(TRUE, View(own, t), FALSE)
    BY <1>2 DEF Reserves
  <2>2. View(own, t).mine = {}
    BY <1>3 DEF View, Share
  <2>3. calls[0].own.mine = {}
    BY <2>1, <2>2 DEF Result
  <2>4. Grown(g, {}, {})
    BY DEF Grown
  <2>5. \A j \in 1 .. 0 : Covers(g, starts[j], D, calls[0].own.mine)
    OBVIOUS
  <2>6. 0 \in 0 .. N /\ Grown(g, {}, calls[0].own.mine)
    BY <1>1, <2>3, <2>4
  <2>7. Gives(0, calls[0])
    BY <2>5, <2>6
  <2> HIDE DEF Gives
  <2> QED BY <2>6, <2>7
<1>5. ASSUME NEW i \in 1 .. N, i - 1 \in Good
      PROVE  i \in Good
  <2> DEFINE r == calls[i - 1]
             x == calls[i]
             c == Call(starts[i], D, r.own)
             w == reserveEdges(g, Earnest)[c]
  <2>1. /\ x = NextCall(g, Earnest, D, r, starts[i])
        /\ starts[i] \in Nodes(g) /\ Type(g, starts[i]) \notin {"ENTER", "BRANCH"}
        /\ r \in Results(PairedSides(g)) /\ i - 1 \in 0 .. N /\ i \in 0 .. N
    <3>1. i - 1 \in 0 .. N /\ i \in 0 .. N
      BY <1>1
    <3> QED BY <1>1, <1>2, <3>1 DEF Reserves
  <2>2. Gives(i - 1, r)
    BY <1>5
  <2> HIDE DEF r, x
  <2>3. /\ c \in Calls(g) /\ c.own = r.own /\ c.own \in PairedSides(g) /\ c.node = starts[i] /\ c.dist = D
        /\ w \in Results(PairedSides(g))
        /\ ~(Earnest /\ ~r.ok) => x.ok = w.ok /\ x.own = w.own /\ x.clash = (w.clash \/ r.clash)
    BY <1>1, <2>1, NextCallParts, EarnestIsBoolean
  <2> HIDE DEF c
  <2>4. Done(g, c, w)
    <3>1. Entered(g, c)
      BY <2>1, <2>3 DEF Entered
    <3> QED BY <2>3, <3>1, ReserveEdgesDone
  <2>5. w.ok \/ w.clash
    <3>1. Paired(g, {}) /\ Whole(g, {})
      BY DEF Paired, Whole
    <3>2. Spares({}, c.own, w)
      BY <2>3, <3>1, ReserveEdgesSpares, EarnestIsBoolean
    <3> QED BY <3>2 DEF Spares
  <2> HIDE DEF w
  <2>6. x.own = w.own /\ x.clash = (w.clash \/ r.clash)
    BY <2>3 DEF Earnest
  <2>7. ASSUME ~x.clash
        PROVE  /\ Grown(g, {}, x.own.mine)
               /\ \A j \in 1 .. i : Covers(g, starts[j], D, x.own.mine)
    <3>1. ~r.clash /\ w.ok
      BY <2>5, <2>6, <2>7
    <3>2. Grown(g, {}, r.own.mine) /\ \A j \in 1 .. i - 1 : Covers(g, starts[j], D, r.own.mine)
      BY <2>2, <3>1
    <3>3. Grown(g, r.own.mine, x.own.mine) /\ Covers(g, starts[i], D, x.own.mine)
      BY <1>1, <2>3, <2>4, <2>6, <3>1 DEF Done
    <3>4. Grown(g, {}, x.own.mine)
      BY <3>2, <3>3, GrownOn
    <3>5. r.own.mine \subseteq x.own.mine
      BY <3>3 DEF Grown
    <3>6. ASSUME NEW j \in 1 .. i - 1
          PROVE  Covers(g, starts[j], D, x.own.mine)
      BY <3>2, <3>5 DEF Covers
    <3>7. \A j \in 1 .. i : j = i \/ j \in 1 .. i - 1
      OBVIOUS
    <3> QED BY <3>3, <3>4, <3>6, <3>7
  <2> QED BY <2>1, <2>7 DEF x
<1>6. \A i \in 0 .. N : i \in Good
  <2> HIDE DEF Good
  <2>1. 0 \in 0 .. N /\ \A i \in 1 .. N : i \in 0 .. N /\ i - 1 \in 0 .. N
    BY <1>1
  <2>2. same[0] \in Good /\ \A i \in 1 .. N : same[i - 1] \in Good => same[i] \in Good
    BY <1>4, <1>5, <2>1
  <2>3. \A i \in 0 .. N : same[i] \in Good
    <3> HIDE DEF same
    <3> QED BY <1>1, <2>2, ChainKeeps
  <2> QED BY <2>3
<1>7. Gives(N, calls[N])
  BY <1>1, <1>6
<1> DEFINE r == ReserveAll(g, t, Earnest, starts, D, own)
           w == calls[N]
<1>8. /\ r.clash = w.clash
      /\ \A e \in g.edge : r.own[e] = IF e \in w.own.mine THEN t
                                      ELSE IF e \in w.own.others THEN own[e] ELSE NoTrain
  BY <1>1, <1>2, OwnersParts
<1>9. w.own.mine \subseteq g.edge
  <2>1. w \in Results(PairedSides(g))
    BY <1>1, <1>2 DEF Reserves
  <2> HIDE DEF w
  <2> QED BY <2>1 DEF Results, PairedSides, Sides
<1>10. \A e \in g.edge : own[e] # t
  BY DEF Share
<1>11. w.clash \/ (Grown(g, {}, w.own.mine) /\ \A j \in 1 .. N : Covers(g, starts[j], D, w.own.mine))
  BY <1>7
<1> HIDE DEF r, w
<1>12. Share(g, r.own, t) = w.own.mine
  BY <1>3, <1>8, <1>9, <1>10 DEF Share
<1>13. Grown(g, {}, w.own.mine) => Whole(g, w.own.mine)
  BY DEF Grown, Whole, HasLeg
<1>14. (\A j \in 1 .. N : Covers(g, starts[j], D, w.own.mine)) => Holds(g, r.own, t, h)
  <2>1. \A n \in ToSet(starts) : \E j \in 1 .. N : n = starts[j]
    BY DEF ToSet
  <2> QED BY <1>12, <2>1 DEF Holds, Covers
<1>15. ~r.clash => Whole(g, Share(g, r.own, t)) /\ Holds(g, r.own, t, h)
  BY <1>8, <1>11, <1>12, <1>13, <1>14
<1> QED BY <1>15 DEF r

----------------------------------------------------------------------------
(* The invariant.                                                          *)

\* The variables have their types: requests name nodes of the layout in use,
\* and no state is recorded for a switch but straight and curved.
TypeOK ==
  /\ layout \in DOMAIN Layout
  /\ owner \in [Layout[layout].edge -> Train \cup {NoTrain}]
  /\ switchStatus \in SwitchStates
  /\ refused \in Train \cup {NoTrain}
  /\ held \in [Train -> [starts    : Seq(Nodes(Layout[layout])),
                         predicted : SUBSET Nodes(Layout[layout]), dist : Nat]]
  /\ dropped \subseteq Train

TrackInv == TypeOK /\ OwnersAgree

LEMMA InvIsOwned ==
  TrackInv <=> TypeOK /\ owner \in Owned(Layout[layout])
BY DEF TrackInv, TypeOK, OwnersAgree, Owned

LEMMA UnreservedIsOwned ==
  ASSUME NEW g, IsLayout(g)
  PROVE  Unreserved(g) \in Owned(g)
BY DEF Unreserved, Owned, IsLayout

LEMMA NoRequestTyped ==
  ASSUME NEW g
  PROVE  NoRequest \in [starts : Seq(Nodes(g)), predicted : SUBSET Nodes(g), dist : Nat]
BY DEF NoRequest

LEMMA InitInv == Init => TrackInv
<1> SUFFICES ASSUME Init PROVE TrackInv
  OBVIOUS
<1> DEFINE g == Layout[FirstLayout]
<1>1. layout = FirstLayout /\ FirstLayout \in DOMAIN Layout
  BY TrackAssumption DEF Init
<1>2. IsLayout(g)
  BY <1>1, LayoutAssumption
<1>3. owner \in Owned(g)
  BY <1>2, UnreservedIsOwned DEF Init
<1>4. switchStatus \in SwitchStates
  BY DEF Init, SwitchStates, SWITCH_STRAIGHT, SWITCH_CURVED
<1>5. held \in [Train -> [starts : Seq(Nodes(g)), predicted : SUBSET Nodes(g), dist : Nat]]
  BY NoRequestTyped DEF Init
<1>6. refused \in Train \cup {NoTrain} /\ dropped \subseteq Train
  BY DEF Init
<1> QED BY <1>1, <1>3, <1>4, <1>5, <1>6, InvIsOwned DEF TypeOK, Owned

\* A request, granted or refused, leaves each piece of track with one owner.
LEMMA ReserveNewInv ==
  ASSUME TrackInv, NEW t \in Train, NEW group \in Group, NEW moving \in BOOLEAN,
         NEW D \in Nat, NEW sw \in SwitchStates, ReserveNew(t, group, moving, D, sw)
  PROVE  TrackInv'
<1> DEFINE g      == Layout[layout]
           starts == Requested(g, sw, group, moving)
           dry    == ReserveAll(g, t, TRUE, starts, D, owner)
           left   == Cleared(dry.own, t)
           real   == ReserveAll(g, t, FALSE, starts, D, left)
           r      == InEarnest(g, t, starts, D, left, dry)
<1>1. TypeOK /\ owner \in Owned(g) /\ layout \in DOMAIN Layout
  BY InvIsOwned DEF TypeOK
<1>2. IsLayout(g) /\ group \in Seq(Nodes(g)) /\ \A i \in DOMAIN group : Type(g, group[i]) = "SENSOR"
  BY <1>1, LayoutAssumption
<1>3. starts \in Seq(Nodes(g)) /\ D \in Int /\ TRUE \in BOOLEAN /\ FALSE \in BOOLEAN
  <2>1. starts \in Seq(Landmarks(g))
    BY <1>2, RequestedAreLandmarks
  <2>2. Landmarks(g) \subseteq Nodes(g)
    BY DEF Landmarks
  <2> HIDE DEF starts
  <2> QED BY <2>1, <2>2
<1>4. /\ owner' = r.own
      /\ refused' = IF r.clash THEN t ELSE NoTrain
      /\ held' = IF r.clash THEN held
                 ELSE [held EXCEPT ![t] = [starts    |-> starts,
                                           predicted |-> ToSet(starts) \ ToSet(group), dist |-> D]]
      /\ dropped' = IF ~r.clash THEN dropped \ {t}
                    ELSE IF dry.ok THEN dropped \cup {t} ELSE dropped
      /\ UNCHANGED <<layout, switchStatus>>
  BY DEF ReserveNew
<1> HIDE DEF starts
<1>5. dry \in Results(Owned(g))
  BY <1>1, <1>2, <1>3, ReserveAllKeeps
<1>6. real \in Results(Owned(g))
  <2>1. dry.own \in Owned(g)
    <3> HIDE DEF dry
    <3> QED BY <1>5 DEF Results
  <2> HIDE DEF dry
  <2>2. left \in Owned(g)
    BY <1>2, <2>1, ClearedIsOwned
  <2> HIDE DEF left
  <2> QED BY <1>2, <1>3, <2>2, ReserveAllKeeps
<1>7. r = IF ~dry.ok THEN dry ELSE [real EXCEPT !.clash = @ \/ dry.clash]
  BY DEF InEarnest
<1> HIDE DEF r, dry, real
<1>8. r \in Results(Owned(g))
  BY <1>5, <1>6, <1>7 DEF Results
<1>9. r.own \in Owned(g) /\ r.clash \in BOOLEAN
  BY <1>8 DEF Results
<1>10. ToSet(starts) \ ToSet(group) \in SUBSET Nodes(g)
  BY <1>3 DEF ToSet
<1>11. held' \in [Train -> [starts : Seq(Nodes(g)), predicted : SUBSET Nodes(g), dist : Nat]]
  BY <1>1, <1>3, <1>4, <1>10 DEF TypeOK
<1>12. TypeOK'
  BY <1>1, <1>4, <1>9, <1>11 DEF TypeOK, Owned
<1>13. owner' \in Owned(Layout[layout'])
  BY <1>4, <1>9
<1> QED BY <1>12, <1>13 DEF TrackInv, TypeOK, OwnersAgree, Owned

LEMMA NextInv == TrackInv /\ [Next]_vars => TrackInv'
<1> SUFFICES ASSUME TrackInv, [Next]_vars PROVE TrackInv'
  OBVIOUS
<1> DEFINE g == Layout[layout]
<1>1. TypeOK /\ owner \in Owned(g) /\ layout \in DOMAIN Layout
  BY InvIsOwned DEF TypeOK
<1>2. IsLayout(g)
  BY <1>1, LayoutAssumption
<1>3. CASE UNCHANGED vars
  BY <1>3 DEF vars, TrackInv, TypeOK, OwnersAgree
<1>4. ASSUME NEW t \in Train, NEW group \in Group, NEW D \in Distance, NEW sw \in SwitchStates,
             ReserveNew(t, group, TRUE, D, sw)
      PROVE  TrackInv'
  BY <1>4, TrackAssumption, ReserveNewInv
<1>5. ASSUME NEW t \in Train, NEW group \in Group, ReserveNew(t, group, FALSE, 1, switchStatus)
      PROVE  TrackInv'
  BY <1>1, <1>5, ReserveNewInv DEF TypeOK
<1>6. ASSUME NEW t \in Train, ReleaseAll(t)
      PROVE  TrackInv'
  <2>1. owner' \in Owned(g)
    BY <1>1, <1>2, <1>6, ClearedIsOwned DEF ReleaseAll
  <2>2. held' \in [Train -> [starts : Seq(Nodes(g)), predicted : SUBSET Nodes(g), dist : Nat]]
    BY <1>1, <1>6, NoRequestTyped DEF ReleaseAll, TypeOK
  <2> QED BY <1>1, <1>6, <2>1, <2>2 DEF ReleaseAll, TrackInv, TypeOK, OwnersAgree, Owned
<1>7. ASSUME NEW b \in Branches(g), NEW t \in Train, NEW sudo \in BOOLEAN,
             NEW state \in {SWITCH_STRAIGHT, SWITCH_CURVED}, SetSwitch(t, b, state, sudo)
      PROVE  TrackInv'
  <2>1. switchStatus' \in SwitchStates
    BY <1>1, <1>7 DEF SetSwitch, TypeOK, SwitchStates, Branches
  <2> QED BY <1>1, <1>7, <2>1 DEF SetSwitch, TrackInv, TypeOK, OwnersAgree
<1>8. ASSUME NEW n \in Nodes(g), Type(g, n) = "SENSOR", UpdateSwitchState(n)
      PROVE  TrackInv'
  <2>1. PICK p \in ToSet(findNextSensors(g, switchStatus, n)) :
             /\ p.condition.node # -1
             /\ IsSwitch(g, p.condition.node)
             /\ At(g, p.condition.node).num \in Switch
             /\ switchStatus' = [switchStatus EXCEPT ![At(g, p.condition.node).num] = p.condition.state]
             /\ refused' = NoTrain
             /\ UNCHANGED <<layout, owner, held, dropped>>
    BY <1>8 DEF UpdateSwitchState
  <2>2. p.condition \in Conditions(g)
    <3>1. findNextSensors(g, switchStatus, n) \in Seq(Predictions(g))
      BY <1>1, <1>2, <1>8, PredictionsFound DEF TypeOK
    <3>2. p \in Predictions(g)
      BY <2>1, <3>1 DEF ToSet
    <3> QED BY <3>2 DEF Predictions
  <2>3. p.condition.state = SWITCH_CURVED
    BY <2>1, <2>2 DEF Conditions, NoCondition, IsSwitch
  <2>4. switchStatus' \in SwitchStates
    BY <1>1, <2>1, <2>3 DEF TypeOK, SwitchStates
  <2> QED BY <1>1, <2>1, <2>4 DEF TrackInv, TypeOK, OwnersAgree
<1>9. ASSUME NEW l \in DOMAIN Layout, SetTrack(l)
      PROVE  TrackInv'
  <2>1. owner' \in Owned(Layout[l])
    BY <1>9, LayoutAssumption, UnreservedIsOwned DEF SetTrack
  <2>2. held' \in [Train -> [starts : Seq(Nodes(Layout[l])), predicted : SUBSET Nodes(Layout[l]), dist : Nat]]
    BY <1>9, NoRequestTyped DEF SetTrack
  <2> QED BY <1>1, <1>9, <2>1, <2>2 DEF SetTrack, TrackInv, TypeOK, OwnersAgree, Owned
<1> QED BY <1>3, <1>4, <1>5, <1>6, <1>7, <1>8, <1>9 DEF Next

\* The variables keep their types: in particular a driver's report never
\* records the condition of a sensor, -1, as the state of a switch.
THEOREM TypeCorrect == Spec => []TypeOK
<1>1. TrackInv => TypeOK
  BY DEF TrackInv
<1> QED BY <1>1, InitInv, NextInv, PTL DEF Spec

\* Both directions of every piece of track have one owner, on every layout
\* whose tables fit together, for any trains, groups and stopping distances.
THEOREM OneOwnerPerTrack == Spec => []OwnersAgree
<1>1. TrackInv => OwnersAgree
  BY DEF TrackInv
<1> QED BY <1>1, InitInv, NextInv, PTL DEF Spec

----------------------------------------------------------------------------
(* What trains hold.                                                       *)

\* The inductive invariant: a train whose last reservation did not fail has
\* its share of every double switch whole, and all of its last granted request.
HeldInv ==
  /\ TrackInv
  /\ \A t \in Train \ dropped : /\ Whole(Layout[layout], Share(Layout[layout], owner, t))
                                /\ Holds(Layout[layout], owner, t, held[t])

\* Nothing is asked for by a train that has no request.
LEMMA NoRequestHeld ==
  ASSUME NEW g, NEW own, NEW t
  PROVE  Holds(g, own, t, NoRequest)
BY DEF Holds, NoRequest, ToSet

LEMMA NothingIsWhole ==
  ASSUME NEW g, NEW own, NEW t, Share(g, own, t) = {}
  PROVE  Whole(g, Share(g, own, t))
BY DEF Whole

LEMMA HeldInit == Init => HeldInv
<1> SUFFICES ASSUME Init PROVE HeldInv
  OBVIOUS
<1> DEFINE g == Layout[FirstLayout]
<1>1. TrackInv
  BY InitInv
<1>2. ASSUME NEW t \in Train
      PROVE  Whole(g, Share(g, owner, t)) /\ Holds(g, owner, t, held[t])
  <2>1. Share(g, owner, t) = {}
    BY TrackAssumption DEF Init, Unreserved, Share
  <2>2. held[t] = NoRequest
    BY DEF Init
  <2> QED BY <2>1, <2>2, NoRequestHeld, NothingIsWhole
<1>3. layout = FirstLayout
  BY DEF Init
<1> QED BY <1>1, <1>2, <1>3 DEF HeldInv

\* The track of a set of trains, each of which has its double switches whole.
Belongs(g, own, T) == {e \in g.edge : own[e] \in T}

LEMMA BelongsParts ==
  ASSUME NEW g, IsLayout(g), CentreIsClosed(g), NEW own \in Owned(g), NEW T \in SUBSET Train,
         \A u \in T : Whole(g, Share(g, own, u))
  PROVE  Paired(g, Belongs(g, own, T)) /\ Whole(g, Belongs(g, own, T))
<1> DEFINE K == Belongs(g, own, T)
<1>1. Paired(g, K)
  BY DEF Paired, Belongs, Owned, IsLayout
<1>2. ASSUME NEW c \in Centres(g), NEW e \in Legs(g, c), e \in K
      PROVE  <<c, 1>> \in K /\ <<Rev(g, c), 0>> \in K
  <2>1. e \in g.edge /\ own[e] \in T
    BY <1>2 DEF Belongs
  <2> DEFINE u == own[e]
  <2>2. u \in T /\ e \in Share(g, own, u)
    BY <2>1 DEF Share
  <2> HIDE DEF u
  <2>3. <<c, 1>> \in Share(g, own, u) /\ <<Rev(g, c), 0>> \in Share(g, own, u)
    BY <2>2 DEF Whole
  <2> QED BY <2>2, <2>3 DEF Share, Belongs
<1>3. Whole(g, K)
  <2> HIDE DEF K
  <2> QED BY <1>2 DEF Whole
<1> QED BY <1>1, <1>3

\* The two passes of a request: the dry run, and the calls in earnest.
LEMMA RequestParts ==
  ASSUME NEW g, IsLayout(g), CentreIsClosed(g), NEW t \in Train, NEW own \in Owned(g),
         NEW starts \in Seq(Landmarks(g)), NEW D \in Nat, NEW U \in SUBSET Train,
         \A u \in U : Whole(g, Share(g, own, u))
  PROVE  LET dry  == ReserveAll(g, t, DryRun, starts, D, own)
             real == ReserveAll(g, t, Earnest, starts, D, Cleared(dry.own, t))
         IN  /\ dry \in Results(Owned(g)) /\ real \in Results(Owned(g))
             /\ dry.ok \/ dry.clash
             /\ \A u \in U \ {t} : /\ Share(g, dry.own, u) = Share(g, own, u)
                                   /\ Share(g, real.own, u) = Share(g, own, u)
             /\ \A e \in g.edge : dry.own[e] \in {own[e], t, NoTrain}
             /\ t \in U => Share(g, dry.own, t) = Share(g, own, t)
             /\ \A h : h.starts = starts /\ h.dist = D /\ ~real.clash =>
                    Whole(g, Share(g, real.own, t)) /\ Holds(g, real.own, t, h)
<1> DEFINE dry  == ReserveAll(g, t, DryRun, starts, D, own)
           left == Cleared(dry.own, t)
           real == ReserveAll(g, t, Earnest, starts, D, left)
           K    == Belongs(g, own, U \ {t})
<1>1. starts \in Seq(Nodes(g)) /\ D \in Int
  BY DEF Landmarks
<1>2. Paired(g, K) /\ Whole(g, K)
  BY BelongsParts
<1>3. \A e \in K : own[e] \notin {t, NoTrain} /\ e \in g.edge
  BY TrackAssumption DEF Belongs
<1>4. dry \in Results(Owned(g))
  BY <1>1, ReserveAllKeeps, DryRunIsBoolean
<1>5. dry.own \in Owned(g)
  <2> HIDE DEF dry
  <2> QED BY <1>4 DEF Results
<1>6. /\ \A e \in K : dry.own[e] = own[e]
      /\ \A e \in g.edge : dry.own[e] \in {own[e], t, NoTrain}
      /\ dry.ok \/ dry.clash
  <2> HIDE DEF K
  <2> QED BY <1>1, <1>2, <1>3, ReserveAllSpares, DryRunIsBoolean
<1>7. t \in U => Share(g, dry.own, t) = Share(g, own, t)
  BY DryRunKeeps
<1> HIDE DEF dry, K
<1>8. /\ left \in Owned(g)
      /\ \A e \in g.edge : left[e] = IF dry.own[e] = t THEN NoTrain ELSE dry.own[e]
  <2>1. DOMAIN dry.own = g.edge
    BY <1>5 DEF Owned
  <2> QED BY <1>5, <2>1, ClearedIsOwned DEF Cleared
<1> HIDE DEF left
<1>9. \A e \in K : left[e] = own[e] /\ left[e] \notin {t, NoTrain}
  BY <1>3, <1>6, <1>8
<1>10. real \in Results(Owned(g))
  BY <1>1, <1>8, ReserveAllKeeps, EarnestIsBoolean
<1>11. /\ \A e \in K : real.own[e] = left[e]
       /\ \A e \in g.edge : real.own[e] \in {left[e], t, NoTrain}
  BY <1>1, <1>2, <1>8, <1>9, ReserveAllSpares, EarnestIsBoolean
<1>12. Share(g, left, t) = {}
  BY <1>8, TrackAssumption DEF Share
<1>13. ASSUME NEW h, h.starts = starts, h.dist = D
       PROVE  ~real.clash => Whole(g, Share(g, real.own, t)) /\ Holds(g, real.own, t, h)
  BY <1>8, <1>12, <1>13, EarnestGives
<1> HIDE DEF real
<1>14. ASSUME NEW u \in U \ {t}
       PROVE  Share(g, dry.own, u) = Share(g, own, u) /\ Share(g, real.own, u) = Share(g, own, u)
  <2>1. u # t /\ u # NoTrain
    BY TrackAssumption
  <2>2. \A e \in g.edge : own[e] = u => e \in K
    BY DEF K, Belongs
  <2>3. \A e \in g.edge : dry.own[e] = u <=> own[e] = u
    BY <1>6, <2>1, <2>2
  <2>4. \A e \in g.edge : real.own[e] = u <=> own[e] = u
    BY <1>8, <1>9, <1>11, <2>1, <2>2, <2>3
  <2> QED BY <2>3, <2>4 DEF Share
<1>15. /\ dry \in Results(Owned(g)) /\ real \in Results(Owned(g))
       /\ dry.ok \/ dry.clash
       /\ \A u \in U \ {t} : /\ Share(g, dry.own, u) = Share(g, own, u)
                             /\ Share(g, real.own, u) = Share(g, own, u)
       /\ \A e \in g.edge : dry.own[e] \in {own[e], t, NoTrain}
       /\ t \in U => Share(g, dry.own, t) = Share(g, own, t)
       /\ \A h : h.starts = starts /\ h.dist = D /\ ~real.clash =>
              Whole(g, Share(g, real.own, t)) /\ Holds(g, real.own, t, h)
  BY <1>4, <1>6, <1>7, <1>10, <1>13, <1>14
<1> QED BY <1>15 DEF dry, left, real

\* What a train has does not change if its share and its request do not.
LEMMA SameShareHolds ==
  ASSUME NEW g, NEW own, NEW new, NEW t, NEW h, Share(g, new, t) = Share(g, own, t),
         Whole(g, Share(g, own, t)), Holds(g, own, t, h)
  PROVE  Whole(g, Share(g, new, t)) /\ Holds(g, new, t, h)
BY DEF Holds

\* A request leaves every train with what it holds, but for the one that asks
\* if it fails behind its dry run.
LEMMA ReserveNewHeld ==
  ASSUME HeldInv, NEW t \in Train, NEW group \in Group, NEW moving \in BOOLEAN,
         NEW D \in Nat, NEW sw \in SwitchStates, ReserveNew(t, group, moving, D, sw)
  PROVE  HeldInv' /\ (refused' # NoTrain /\ dropped' = {} => owner' = owner)
<1> DEFINE g      == Layout[layout]
           U      == Train \ dropped
           starts == Requested(g, sw, group, moving)
           dry    == ReserveAll(g, t, DryRun, starts, D, owner)
           real   == ReserveAll(g, t, Earnest, starts, D, Cleared(dry.own, t))
           r      == InEarnest(g, t, starts, D, Cleared(dry.own, t), dry)
           asked  == [starts |-> starts, predicted |-> ToSet(starts) \ ToSet(group), dist |-> D]
<1>1. /\ TypeOK /\ owner \in Owned(g) /\ layout \in DOMAIN Layout
      /\ \A u \in U : Whole(g, Share(g, owner, u)) /\ Holds(g, owner, u, held[u])
  BY InvIsOwned DEF HeldInv, TypeOK
<1>2. IsLayout(g) /\ CentreIsClosed(g)
      /\ group \in Seq(Nodes(g)) /\ \A i \in DOMAIN group : Type(g, group[i]) = "SENSOR"
  BY <1>1, LayoutAssumption
<1>3. starts \in Seq(Landmarks(g))
  BY <1>2, RequestedAreLandmarks
<1>4. TrackInv'
  BY ReserveNewInv DEF HeldInv
<1>5. /\ owner' = r.own
      /\ refused' = IF r.clash THEN t ELSE NoTrain
      /\ held' = IF r.clash THEN held ELSE [held EXCEPT ![t] = asked]
      /\ dropped' = IF ~r.clash THEN dropped \ {t}
                    ELSE IF dry.ok THEN dropped \cup {t} ELSE dropped
      /\ layout' = layout
  BY DEF ReserveNew, DryRun
<1>6. r = IF ~dry.ok THEN dry ELSE [real EXCEPT !.clash = @ \/ dry.clash]
  BY DEF InEarnest, Earnest
<1> HIDE DEF starts, r
<1>7. /\ dry \in Results(Owned(g)) /\ real \in Results(Owned(g))
      /\ dry.ok \/ dry.clash
      /\ \A u \in U \ {t} : /\ Share(g, dry.own, u) = Share(g, owner, u)
                            /\ Share(g, real.own, u) = Share(g, owner, u)
      /\ \A e \in g.edge : dry.own[e] \in {owner[e], t, NoTrain}
      /\ t \in U => Share(g, dry.own, t) = Share(g, owner, t)
      /\ \A h : h.starts = starts /\ h.dist = D /\ ~real.clash =>
             Whole(g, Share(g, real.own, t)) /\ Holds(g, real.own, t, h)
  <2>1. U \in SUBSET Train /\ \A u \in U : Whole(g, Share(g, owner, u))
    BY <1>1
  <2> HIDE DEF g, U
  <2> QED BY <1>1, <1>2, <1>3, <2>1, RequestParts
<1> HIDE DEF dry, real
<1>8. /\ ~dry.ok => r = dry
      /\ dry.ok => r.own = real.own /\ r.clash = (real.clash \/ dry.clash)
  BY <1>6, <1>7 DEF Results
<1>9. ASSUME NEW u \in U \ {t}
      PROVE  Whole(g, Share(g, owner', u)) /\ Holds(g, owner', u, held'[u])
  <2>1. Share(g, owner', u) = Share(g, owner, u)
    BY <1>5, <1>7, <1>8
  <2>2. held'[u] = held[u]
    BY <1>1, <1>5 DEF TypeOK
  <2> HIDE DEF g
  <2> QED BY <1>1, <2>1, <2>2, SameShareHolds
<1>10. ASSUME t \in Train \ dropped'
       PROVE  Whole(g, Share(g, owner', t)) /\ Holds(g, owner', t, held'[t])
  <2>1. CASE r.clash
    <3>1. ~dry.ok /\ t \in U /\ r = dry
      BY <1>5, <1>8, <1>10, <2>1
    <3>2. Share(g, owner', t) = Share(g, owner, t) /\ held' = held
      BY <1>5, <1>7, <2>1, <3>1
    <3> HIDE DEF g
    <3> QED BY <1>1, <3>1, <3>2, SameShareHolds
  <2>2. CASE ~r.clash
    <3>1. dry.ok /\ ~real.clash /\ owner' = real.own
      BY <1>5, <1>7, <1>8, <2>2
    <3>2. held'[t] = asked
      BY <1>1, <1>5, <2>2 DEF TypeOK
    <3>3. asked.starts = starts /\ asked.dist = D
      OBVIOUS
    <3> HIDE DEF asked, g
    <3> QED BY <1>7, <3>1, <3>2, <3>3
  <2> QED BY <2>1, <2>2
<1>11. HeldInv'
  <2>1. \A u \in Train \ dropped' : u # t => u \in U \ {t}
    BY <1>5
  <2>2. \A u \in Train \ dropped' : Whole(g, Share(g, owner', u)) /\ Holds(g, owner', u, held'[u])
    <3> HIDE DEF g, U
    <3> QED BY <1>9, <1>10, <2>1
  <2>3. g = Layout[layout']
    BY <1>5
  <2> HIDE DEF g
  <2> QED BY <1>4, <2>2, <2>3 DEF HeldInv
<1>12. ASSUME refused' # NoTrain, dropped' = {}
       PROVE  owner' = owner
  <2>1. ~dry.ok /\ dropped = {} /\ owner' = dry.own
    BY <1>5, <1>8, <1>12
  <2>2. owner \in [g.edge -> Train \cup {NoTrain}] /\ dry.own \in [g.edge -> Train \cup {NoTrain}]
    BY <1>1, <1>7 DEF Results, Owned
  <2>3. \A u \in Train : Share(g, dry.own, u) = Share(g, owner, u)
    BY <1>7, <2>1
  <2>4. ASSUME NEW e \in g.edge
        PROVE  dry.own[e] = owner[e]
    <3>1. \A u \in Train : dry.own[e] = u <=> owner[e] = u
      BY <2>3 DEF Share
    <3>2. owner[e] \in Train \cup {NoTrain} /\ dry.own[e] \in Train \cup {NoTrain}
      BY <2>2
    <3> QED BY <3>1, <3>2, TrackAssumption
  <2> QED BY <2>1, <2>2, <2>4
<1> QED BY <1>11, <1>12

LEMMA HeldNext ==
  HeldInv /\ [Next]_vars => HeldInv' /\ (refused' # NoTrain /\ dropped' = {} => owner' = owner \/ UNCHANGED vars)
<1> SUFFICES ASSUME HeldInv, [Next]_vars
             PROVE  HeldInv' /\ (refused' # NoTrain /\ dropped' = {} => owner' = owner \/ UNCHANGED vars)
  OBVIOUS
<1> DEFINE g == Layout[layout]
<1>1. TypeOK /\ TrackInv /\ layout \in DOMAIN Layout
  BY DEF HeldInv, TrackInv, TypeOK
<1>2. TrackInv'
  BY <1>1, NextInv
<1>3. CASE UNCHANGED vars
  BY <1>2, <1>3 DEF vars, HeldInv
<1>4. ASSUME NEW t \in Train, NEW group \in Group, NEW D \in Distance, NEW sw \in SwitchStates,
             ReserveNew(t, group, TRUE, D, sw)
      PROVE  HeldInv' /\ (refused' # NoTrain /\ dropped' = {} => owner' = owner)
  BY <1>4, TrackAssumption, ReserveNewHeld
<1>5. ASSUME NEW t \in Train, NEW group \in Group, ReserveNew(t, group, FALSE, 1, switchStatus)
      PROVE  HeldInv' /\ (refused' # NoTrain /\ dropped' = {} => owner' = owner)
  BY <1>1, <1>5, ReserveNewHeld DEF TypeOK
<1>6. ASSUME NEW t \in Train, ReleaseAll(t)
      PROVE  HeldInv' /\ refused' = NoTrain
  <2>1. layout' = layout /\ refused' = NoTrain /\ dropped' = dropped \ {t}
        /\ owner' = Cleared(owner, t) /\ held' = [held EXCEPT ![t] = NoRequest]
    BY <1>6 DEF ReleaseAll
  <2>2. DOMAIN owner = g.edge /\ held \in [Train -> [starts    : Seq(Nodes(g)),
                                                     predicted : SUBSET Nodes(g), dist : Nat]]
    BY <1>1 DEF TypeOK
  <2>3. ASSUME NEW u \in Train \ dropped'
        PROVE  Whole(g, Share(g, owner', u)) /\ Holds(g, owner', u, held'[u])
    <3>1. CASE u = t
      <4>1. Share(g, owner', t) = {}
        BY <2>1, <2>2, TrackAssumption DEF Share, Cleared
      <4>2. held'[t] = NoRequest
        BY <2>1, <2>2
      <4> QED BY <3>1, <4>1, <4>2, NoRequestHeld, NothingIsWhole
    <3>2. CASE u # t
      <4>1. Share(g, owner', u) = Share(g, owner, u)
        BY <2>1, <2>2, <3>2, TrackAssumption DEF Share, Cleared
      <4>2. held'[u] = held[u] /\ u \in Train \ dropped
        BY <2>1, <2>2, <2>3, <3>2
      <4>3. Whole(g, Share(g, owner, u)) /\ Holds(g, owner, u, held[u])
        BY <4>2 DEF HeldInv
      <4> HIDE DEF g
      <4> QED BY <4>1, <4>2, <4>3, SameShareHolds
    <3> QED BY <3>1, <3>2
  <2> QED BY <1>2, <2>1, <2>3 DEF HeldInv
<1>7. ASSUME NEW b \in Branches(g), NEW t \in Train, NEW sudo \in BOOLEAN,
             NEW state \in {SWITCH_STRAIGHT, SWITCH_CURVED}, SetSwitch(t, b, state, sudo)
      PROVE  HeldInv' /\ refused' = NoTrain
  BY <1>2, <1>7 DEF SetSwitch, HeldInv
<1>8. ASSUME NEW n \in Nodes(g), UpdateSwitchState(n)
      PROVE  HeldInv' /\ refused' = NoTrain
  <2>1. refused' = NoTrain /\ UNCHANGED <<layout, owner, held, dropped>>
    BY <1>8 DEF UpdateSwitchState
  <2> QED BY <1>2, <2>1 DEF HeldInv
<1>9. ASSUME NEW l \in DOMAIN Layout, SetTrack(l)
      PROVE  HeldInv' /\ refused' = NoTrain
  <2>1. layout' = l /\ refused' = NoTrain /\ owner' = Unreserved(Layout[l])
        /\ held' = [t \in Train |-> NoRequest]
    BY <1>9 DEF SetTrack
  <2>2. ASSUME NEW u \in Train
        PROVE  Whole(Layout[l], Share(Layout[l], owner', u)) /\ Holds(Layout[l], owner', u, held'[u])
    <3>1. Share(Layout[l], owner', u) = {}
      BY <2>1, TrackAssumption DEF Unreserved, Share
    <3>2. held'[u] = NoRequest
      BY <2>1
    <3> QED BY <3>1, <3>2, NoRequestHeld, NothingIsWhole
  <2> QED BY <1>2, <2>1, <2>2 DEF HeldInv
<1> QED BY <1>3, <1>4, <1>5, <1>6, <1>7, <1>8, <1>9 DEF Next

\* A granted request stays in force until the train releases it or a later
\* reservation of its own fails in earnest: whatever the trains ask for, in any
\* order, it owns all the track it can touch within its stopping distance.
THEOREM GrantsAreHeld == Spec => []GrantedIsHeld
<1>1. HeldInv => GrantedIsHeld
  <2> SUFFICES ASSUME HeldInv, NEW t \in Train \ dropped, NEW n \in ToSet(held[t].starts),
                      NEW e \in Legs(Layout[layout], n),
                      NEW f \in Ahead(Layout[layout])[<<e, held[t].dist>>]
               PROVE  owner[f] = t
    BY DEF GrantedIsHeld
  <2>1. Holds(Layout[layout], owner, t, held[t])
    BY DEF HeldInv
  <2> QED BY <2>1 DEF Holds, Share
<1> QED BY <1>1, HeldInit, HeldNext, PTL DEF Spec

\* A request whose dry run fails changes nothing.
THEOREM DryRunIsClean == Spec => DryRunChangesNothing
<1>1. HeldInv /\ [Next]_vars => [refused' # NoTrain /\ dropped' = {} => owner' = owner]_vars
  BY HeldNext
<1> QED BY <1>1, HeldInit, HeldNext, PTL DEF Spec, DryRunChangesNothing

\* No two trains whose reservations stand have legs of the same double switch,
\* where a train on one leg is in the way of the other.
CentreIsUndivided ==
  \A c \in Centres(Layout[layout]) : \A e, f \in Legs(Layout[layout], c) :
      owner[e] \in Train \ dropped /\ owner[f] \in Train \ dropped => owner[e] = owner[f]

\* reserveEdges lets a train take a merge without the double switch behind it
\* when that is another's; still the double switches are never divided.
THEOREM CentreUndivided == Spec => []CentreIsUndivided
<1>1. HeldInv => CentreIsUndivided
  <2> SUFFICES ASSUME HeldInv, NEW c \in Centres(Layout[layout]),
                      NEW e \in Legs(Layout[layout], c), NEW f \in Legs(Layout[layout], c),
                      owner[e] \in Train \ dropped, owner[f] \in Train \ dropped
               PROVE  owner[e] = owner[f]
    BY DEF CentreIsUndivided
  <2> DEFINE g == Layout[layout]
  <2>1. IsLayout(g) /\ CentreIsClosed(g)
    BY LayoutAssumption DEF HeldInv, TrackInv, TypeOK
  <2>2. Legs(g, c) \subseteq g.edge
    <3>1. PICK k \in Nodes(g) : Centre(g, k) = c /\ c # -1
      BY DEF Centres
    <3>2. c \in Nodes(g)
      BY <2>1, <3>1, CentreParts
    <3> QED BY <2>1, <3>2, LegsAreEdges
  <2>3. \A u \in Train \ dropped : Whole(g, Share(g, owner, u))
    BY DEF HeldInv
  <2>4. <<c, 1>> \in Share(g, owner, owner[e]) /\ <<c, 1>> \in Share(g, owner, owner[f])
    <3>1. e \in Share(g, owner, owner[e]) /\ f \in Share(g, owner, owner[f])
      BY <2>2 DEF Share
    <3> HIDE DEF g
    <3> QED BY <2>3, <3>1 DEF Whole, g
  <2> QED BY <2>4 DEF Share
<1> QED BY <1>1, HeldInit, HeldNext, PTL DEF Spec

----------------------------------------------------------------------------
(* The lock that the trains take around FIND_POSITION, for any number of   *)
(* trains.                                                                 *)

\* The variables of the lock service and of its clients keep their types.
THEOREM LockTypeCorrect == LockSpec => []LockTypeOK
<1>1. LockInit => LockTypeOK
  BY DEF LockInit, LockTypeOK, NO, YES
<1>2. LockTypeOK /\ [LockNext]_lockVars => LockTypeOK'
  <2> SUFFICES ASSUME LockTypeOK, [LockNext]_lockVars PROVE LockTypeOK'
    OBVIOUS
  <2>1. CASE UNCHANGED lockVars
    BY <2>1 DEF LockTypeOK, lockVars
  <2>2. ASSUME NEW t \in Driver, RequestLock(t) \/ AnswerLock(t)
        PROVE  LockTypeOK'
    BY <2>2 DEF LockTypeOK, RequestLock, AnswerLock, GoTo, NO, YES
  <2>3. ASSUME NEW t \in Driver, TrainStep(t)
        PROVE  LockTypeOK'
    BY <2>3 DEF LockTypeOK, TrainStep, Granted, Backoff, AfterBackoff, GoTo
  <2>4. ASSUME NEW t \in Driver, RequestUnlock(t) \/ AnswerUnlock(t)
        PROVE  LockTypeOK'
    BY <2>4 DEF LockTypeOK, RequestUnlock, AnswerUnlock, GoTo
  <2> QED BY <2>1, <2>2, <2>3, <2>4 DEF LockNext, LockTask
<1> QED BY <1>1, <1>2, PTL DEF LockSpec

\* The lock is free whenever no train is between its LOCK and its UNLOCK.  The
\* proof rests on the backoff ending the loop of lock(): the train that was
\* refused unlocks as well.
THEOREM LockIsNotLeaked == LockSpec => []FreeWhenUnused
<1> DEFINE Away(t) == pc[t] \in {"outside", "locking"}
<1>1. LockInit => FreeWhenUnused
  BY DEF LockInit, FreeWhenUnused
<1>2. LockTypeOK /\ FreeWhenUnused /\ [LockNext]_lockVars => FreeWhenUnused'
  <2> SUFFICES ASSUME LockTypeOK, FreeWhenUnused, [LockNext]_lockVars, \A t \in Driver : Away(t)'
               PROVE  locked' = 0
    BY DEF FreeWhenUnused
  <2>1. CASE UNCHANGED lockVars
    BY <2>1 DEF FreeWhenUnused, lockVars
  <2>2. ASSUME NEW t \in Driver, RequestLock(t)
        PROVE  locked' = 0
    <3>1. \A u \in Driver : Away(u)
      BY <2>2 DEF LockTypeOK, RequestLock, GoTo
    <3> QED BY <2>2, <3>1 DEF FreeWhenUnused, RequestLock
  <2>3. ASSUME NEW t \in Driver, AnswerLock(t) \/ TrainStep(t) \/ RequestUnlock(t)
        PROVE  FALSE
    <3>1. pc'[t] \in {"answered", "inside", "delaying", "unlocking"}
      BY <2>3 DEF LockTypeOK, AnswerLock, TrainStep, Granted, Backoff, AfterBackoff,
                  RequestUnlock, GoTo, DelayReturns
    <3> QED BY <3>1
  <2>4. ASSUME NEW t \in Driver, AnswerUnlock(t)
        PROVE  locked' = 0
    BY <2>4 DEF AnswerUnlock
  <2> QED BY <2>1, <2>2, <2>3, <2>4 DEF LockNext, LockTask
<1> QED BY <1>1, <1>2, LockTypeCorrect, PTL DEF LockSpec
=============================================================================
