---------------------------- MODULE CanvasProofs -----------------------------
(***************************************************************************)
(* Proofs about the two canvases: what the nodes of a graph are pulled to, *)
(* that networks pull to places apart, and that drawing a graph again does *)
(* not move the view, for every graph, every map and every size.           *)
(***************************************************************************)
EXTENDS GraphCanvas, TopologyCanvas, FiniteSetTheorems, TLAPS

-----------------------------------------------------------------------------
(* Numbers, and least and greatest members of sets of them. *)

LEMMA Least ==
  ASSUME NEW T \in SUBSET Nat, T # {}
  PROVE  \E x \in T : \A y \in T : x <= y
<1> DEFINE R == OpToRel(<, Nat)
<1>1. IsWellFoundedOn(R, Nat)
  BY NatLessThanWellFounded, Zenon
<1>2. \A x, y \in Nat : <<y, x>> \in R <=> y < x
  BY DEF OpToRel
<1> HIDE DEF R
<1>3. PICK x \in T : \A y \in T : ~(<<y, x>> \in R)
  BY <1>1, WFMin, Zenon
<1>4. ASSUME NEW y \in T PROVE x <= y
  <2>1. x \in Nat /\ y \in Nat
    OBVIOUS
  <2>2. ~(y < x)
    BY <1>2, <1>3, <2>1
  <2>3. QED  BY <2>1, <2>2
<1>5. QED  BY <1>4

LEMMA MinOf ==
  ASSUME NEW T \in SUBSET Nat, T # {}
  PROVE  Min(T) \in T /\ \A y \in T : Min(T) <= y
BY Least DEF Min

LEMMA MinOfTwo ==
  ASSUME NEW a \in Int, NEW b \in Int
  PROVE  Min({a, b}) \in {a, b} /\ Min({a, b}) <= a /\ Min({a, b}) <= b
<1>1. \E x \in {a, b} : \A y \in {a, b} : x =< y
  <2>1. CASE a <= b
    BY <2>1
  <2>2. CASE b <= a
    BY <2>2
  <2> QED  BY <2>1, <2>2
<1> QED  BY <1>1 DEF Min

LEMMA MaxOfTwo ==
  ASSUME NEW a \in Int, NEW b \in Int
  PROVE  Max({a, b}) \in {a, b} /\ Max({a, b}) >= a /\ Max({a, b}) >= b
<1>1. \E x \in {a, b} : \A y \in {a, b} : x >= y
  <2>1. CASE a <= b
    BY <2>1
  <2>2. CASE b <= a
    BY <2>2
  <2> QED  BY <2>1, <2>2
<1> QED  BY <1>1 DEF Max

\* A set of numbers with a bound has a greatest one.
LEMMA MaxOf ==
  ASSUME NEW b \in Int, NEW T \in SUBSET Int, T # {}, \A x \in T : x <= b
  PROVE  Max(T) \in T /\ \A y \in T : Max(T) >= y
<1> DEFINE D == {d \in Nat : b - d \in T}
<1>1. D # {}
  <2>1. PICK x \in T : TRUE
    OBVIOUS
  <2>2. b - x \in Nat /\ b - (b - x) = x
    BY <2>1
  <2> QED  BY <2>1, <2>2
<1>2. PICK d \in D : \A e \in D : d <= e
  BY <1>1, Least
<1>3. ASSUME NEW y \in T
      PROVE  b - d >= y
  <2>1. b - y \in Nat /\ b - (b - y) = y
    OBVIOUS
  <2>2. d <= b - y /\ d \in Nat
    BY <1>2, <2>1
  <2> QED  BY <2>2
<1>4. \E x \in T : \A y \in T : x >= y
  BY <1>2, <1>3
<1> QED  BY <1>4 DEF Max

\* A later one of a set of indices has more of them before it.
LEMMA MoreBefore ==
  ASSUME NEW n \in Nat, NEW S \in SUBSET (1..n), NEW i \in S, NEW j \in S, i < j
  PROVE  /\ Cardinality({k \in S : k < i}) \in Nat
         /\ Cardinality({k \in S : k < j}) \in Nat
         /\ Cardinality({k \in S : k < i}) < Cardinality({k \in S : k < j})
<1> DEFINE A == {k \in S : k < i}
           B == {k \in S : k < j}
<1>1. IsFiniteSet(1..n)
  BY FS_Interval
<1>2. A \in SUBSET B /\ B \in SUBSET (1..n) /\ i \in B /\ i \notin A
  <2>1. \A k \in S : k \in Int
    OBVIOUS
  <2>2. \A k \in S : k < i => k < j
    BY <2>1
  <2>3. ~(i < i)
    BY <2>1
  <2> QED  BY <2>2, <2>3
<1> HIDE DEF A, B
<1>3. IsFiniteSet(B) /\ Cardinality(B) \in Nat
  BY <1>1, <1>2, FS_Subset, FS_CardinalityType
<1>4. IsFiniteSet(A) /\ Cardinality(A) \in Nat
  BY <1>2, <1>3, FS_Subset, FS_CardinalityType
<1>5. Cardinality(A) <= Cardinality(B) /\ Cardinality(A) # Cardinality(B)
  BY <1>2, <1>3, FS_Subset
<1>6. Cardinality(A) < Cardinality(B)
  BY <1>3, <1>4, <1>5
<1> QED  BY <1>3, <1>4, <1>6 DEF A, B

LEMMA Quotient ==
  ASSUME NEW a \in Int, NEW b \in Nat \ {0}
  PROVE  a \div b \in Int /\ a % b \in Int /\ a = b * (a \div b) + (a % b) /\ 0 <= a % b /\ a % b < b
OBVIOUS

LEMMA Factor ==
  ASSUME NEW w \in Nat \ {0}, NEW a \in Int, NEW b \in Int, w * a = w * b
  PROVE  a = b
OBVIOUS

-----------------------------------------------------------------------------
(* Ownership: the walk of ownershipDepth, layer by layer. *)

\* What the walk finds after so many rounds, from what it found before.
Round(g, layer, d) ==
  IF d = 0 THEN roots(g) ELSE owned(g, layer[d - 1]) \ UNION {layer[i] : i \in 0..(d - 1)}

LEMMA RoundsExist ==
  ASSUME NEW g, NEW n \in Nat
  PROVE  \E f : f = [d \in 0..n |-> Round(g, f, d)]
<1> DEFINE Good(k) == \E f : f = [d \in 0..k |-> Round(g, f, d)]
           Bad == {k \in Nat : ~Good(k)}
<1>1. Good(0)
  <2> DEFINE f == [d \in 0..0 |-> roots(g)]
  <2>1. \A d \in 0..0 : d = 0
    OBVIOUS
  <2>2. f = [d \in 0..0 |-> Round(g, f, d)]
    BY <2>1 DEF Round
  <2> QED  BY <2>2
<1>2. ASSUME NEW k \in Nat, Good(k)
      PROVE  Good(k + 1)
  <2>1. PICK f : f = [d \in 0..k |-> Round(g, f, d)]
    BY <1>2
  <2> DEFINE new == owned(g, f[k]) \ UNION {f[i] : i \in 0..k}
             e == [d \in 0..(k + 1) |-> IF d = k + 1 THEN new ELSE f[d]]
  <2>2. \A d \in 0..k : e[d] = f[d]
    OBVIOUS
  <2>3. ASSUME NEW d \in 0..k
        PROVE  Round(g, e, d) = f[d]
    <3>1. f[d] = Round(g, f, d)
      BY <2>1
    <3>2. CASE d = 0
      BY <3>1, <3>2 DEF Round
    <3>3. CASE d # 0
      <4>1. d - 1 \in 0..k /\ \A i \in 0..(d - 1) : i \in 0..k
        BY <3>3
      <4>2. e[d - 1] = f[d - 1] /\ \A i \in 0..(d - 1) : e[i] = f[i]
        BY <2>2, <4>1
      <4> HIDE DEF e
      <4>3. {e[i] : i \in 0..(d - 1)} = {f[i] : i \in 0..(d - 1)}
        BY <4>2
      <4> QED  BY <3>1, <3>3, <4>2, <4>3 DEF Round
    <3> QED  BY <3>2, <3>3
  <2>4. Round(g, e, k + 1) = new
    <3>1. (k + 1) - 1 = k /\ k + 1 # 0 /\ k \in 0..k
      OBVIOUS
    <3>2. {e[i] : i \in 0..k} = {f[i] : i \in 0..k}
      BY <2>2
    <3>3. e[k] = f[k]
      BY <2>2, <3>1
    <3> HIDE DEF e
    <3> QED  BY <3>1, <3>2, <3>3 DEF Round
  <2>5. \A d \in 0..(k + 1) : e[d] = Round(g, e, d)
    <3> SUFFICES ASSUME NEW d \in 0..(k + 1)
                 PROVE  e[d] = Round(g, e, d)
      OBVIOUS
    <3>1. CASE d = k + 1
      BY <2>4, <3>1
    <3>2. CASE d # k + 1
      <4>1. d \in 0..k
        BY <3>2
      <4> QED  BY <2>2, <2>3, <4>1
    <3> QED  BY <3>1, <3>2
  <2>6. e = [d \in 0..(k + 1) |-> e[d]]
    OBVIOUS
  <2> HIDE DEF e
  <2>7. e = [d \in 0..(k + 1) |-> Round(g, e, d)]
    BY <2>5, <2>6
  <2> QED  BY <2>7
<1> HIDE DEF Good
<1>3. ASSUME Bad # {}
      PROVE  FALSE
  <2>1. PICK k \in Bad : \A l \in Bad : k <= l
    BY <1>3, Least
  <2>2. k \in Nat /\ ~Good(k) /\ k # 0
    BY <1>1, <2>1
  <2>3. k - 1 \in Nat /\ (k - 1) + 1 = k /\ ~(k <= k - 1)
    BY <2>2
  <2>4. Good(k - 1)
    BY <2>1, <2>3
  <2>5. Good((k - 1) + 1)
    BY <1>2, <2>3, <2>4
  <2> QED  BY <2>2, <2>3, <2>5
<1>4. Good(n)
  BY <1>3
<1> QED  BY <1>4 DEF Good

LEMMA LayersByRounds ==
  ASSUME NEW g, Len(g.nodes) \in Nat
  PROVE  Layers(g) = [d \in 0..Len(g.nodes) |-> Round(g, Layers(g), d)]
<1>1. \E f : f = [d \in 0..Len(g.nodes) |-> Round(g, f, d)]
  BY RoundsExist
<1> QED  BY <1>1 DEF Layers, Round

\* What the walk is: it starts at the roots, goes along edges, visits a node once and ends
\* before it runs out of rounds.
Walk(g) ==
  LET n == Len(g.nodes)
      L == Layers(g)
  IN /\ n \in Nat /\ DOMAIN L = 0..n
     /\ L[0] = roots(g)
     /\ \A d \in 1..n : L[d] = owned(g, L[d - 1]) \ UNION {L[i] : i \in 0..(d - 1)}
     /\ \A i, j \in 0..n : \A x \in L[i] : x \in L[j] => i = j
     /\ L[n] = {}

\* A graph has at most as many ids as nodes.
LEMMA FewIds ==
  ASSUME NEW g, IsGraph(g)
  PROVE  /\ Len(g.nodes) \in Nat /\ DOMAIN g.nodes = 1..Len(g.nodes)
         /\ IsFiniteSet(NodeIds(g)) /\ Cardinality(NodeIds(g)) <= Len(g.nodes)
         /\ Cardinality(NodeIds(g)) \in Nat
<1> DEFINE n == Len(g.nodes)
           f == [i \in 1..n |-> g.nodes[i].id]
<1>1. n \in Nat /\ DOMAIN g.nodes = 1..n
  BY DEF IsGraph
<1> HIDE DEF n
<1>2. NodeIds(g) = {g.nodes[i].id : i \in 1..n}
  BY <1>1 DEF NodeIds, Nodes, ToSet
<1>3. f \in Surjection(1..n, NodeIds(g))
  BY <1>2 DEF Surjection
<1>4. IsFiniteSet(1..n) /\ Cardinality(1..n) = n
  <2>1. 1 \in Int /\ n \in Int /\ (IF 1 > n THEN 0 ELSE n - 1 + 1) = n
    BY <1>1
  <2> QED  BY <2>1, FS_Interval
<1> HIDE DEF f
<1>5. IsFiniteSet(NodeIds(g)) /\ Cardinality(NodeIds(g)) <= Cardinality(1..n)
  BY <1>3, <1>4, FS_Surjection
<1>6. Cardinality(NodeIds(g)) \in Nat
  BY <1>5, FS_CardinalityType
<1> QED  BY <1>1, <1>4, <1>5, <1>6 DEF n

LEMMA WalkOf ==
  ASSUME NEW g, IsGraph(g)
  PROVE  Walk(g)
<1> DEFINE n == Len(g.nodes)
           L == Layers(g)
<1>1. n \in Nat
  BY FewIds
<1>2. L = [d \in 0..n |-> Round(g, L, d)]
  BY <1>1, LayersByRounds
<1> HIDE DEF n, L
<1>3. DOMAIN L = 0..n /\ \A d \in 0..n : L[d] = Round(g, L, d)
  BY <1>2
<1>4. L[0] = roots(g)
  BY <1>1, <1>3 DEF Round
<1>5. ASSUME NEW d \in 1..n
      PROVE  L[d] = owned(g, L[d - 1]) \ UNION {L[i] : i \in 0..(d - 1)}
  BY <1>1, <1>3 DEF Round
<1>6. ASSUME NEW i \in 0..n, NEW j \in 0..n, NEW x \in L[i], x \in L[j], i < j
      PROVE  FALSE
  <2>1. j \in 1..n /\ i \in 0..(j - 1)
    BY <1>1, <1>6
  <2> QED  BY <1>5, <1>6, <2>1
<1>7. \A i, j \in 0..n : \A x \in L[i] : x \in L[j] => i = j
  <2> SUFFICES ASSUME NEW i \in 0..n, NEW j \in 0..n, NEW x \in L[i], x \in L[j], i # j
               PROVE  FALSE
    OBVIOUS
  <2>1. i < j \/ j < i
    OBVIOUS
  <2> QED  BY <1>6, <2>1
<1>8. \A d \in 0..n : L[d] \subseteq NodeIds(g)
  <2> SUFFICES ASSUME NEW d \in 0..n
               PROVE  L[d] \subseteq NodeIds(g)
    OBVIOUS
  <2>1. CASE d = 0
    BY <1>4, <2>1 DEF roots
  <2>2. CASE d # 0
    <3>1. d \in 1..n
      BY <2>2
    <3>2. owned(g, L[d - 1]) \subseteq NodeIds(g)
      BY DEF owned, IsGraph
    <3> QED  BY <1>5, <3>1, <3>2
  <2> QED  BY <2>1, <2>2
<1>9. \* a round that finds nothing is the last to find anything
      ASSUME L[n] # {}
      PROVE  \A d \in 0..n : L[d] # {}
  <2> DEFINE Empty == {d \in 0..n : L[d] = {}}
  <2> SUFFICES ASSUME Empty # {}
               PROVE  FALSE
    OBVIOUS
  <2>1. n \in Int /\ Empty \in SUBSET Int /\ \A d \in Empty : d <= n
    BY <1>1
  <2>2. Max(Empty) \in Empty /\ \A d \in Empty : Max(Empty) >= d
    BY <2>1, MaxOf
  <2>3. PICK m \in Empty : \A d \in Empty : m >= d
    BY <2>2
  <2>4. m \in 0..n /\ L[m] = {} /\ m # n
    BY <1>9, <2>3
  <2>5. m + 1 \in 1..n /\ m + 1 \in 0..n /\ (m + 1) - 1 = m /\ ~(m >= m + 1)
    BY <1>1, <2>4
  <2>6. L[m + 1] # {}
    BY <2>3, <2>5
  <2>7. L[m + 1] \subseteq owned(g, {})
    BY <1>5, <2>4, <2>5
  <2> QED  BY <2>6, <2>7 DEF owned
<1>10. L[n] = {}
  <2> SUFFICES ASSUME L[n] # {}
               PROVE  FALSE
    OBVIOUS
  <2> DEFINE f == [d \in 0..n |-> CHOOSE x : x \in L[d]]
  <2>1. \A d \in 0..n : f[d] \in L[d]
    BY <1>9
  <2>2. f \in [0..n -> NodeIds(g)]
    BY <1>8, <2>1
  <2> HIDE DEF f
  <2>3. IsFiniteSet(0..n) /\ Cardinality(0..n) = n + 1
    <3>1. 0 \in Int /\ n \in Int /\ (IF 0 > n THEN 0 ELSE n - 0 + 1) = n + 1
      BY <1>1
    <3> QED  BY <3>1, FS_Interval
  <2>4. IsFiniteSet(NodeIds(g)) /\ Cardinality(NodeIds(g)) < Cardinality(0..n)
    <3>1. Cardinality(NodeIds(g)) <= n /\ Cardinality(NodeIds(g)) \in Nat /\ IsFiniteSet(NodeIds(g))
      BY FewIds DEF n
    <3> QED  BY <1>1, <2>3, <3>1
  <2>5. PICK i, j \in 0..n : i # j /\ f[i] = f[j]
    BY <2>2, <2>3, <2>4, FS_PigeonHole
  <2> QED  BY <1>7, <2>1, <2>5
<1> QED  BY <1>1, <1>3, <1>4, <1>5, <1>7, <1>10 DEF Walk, n, L

\* The depth of a node is the round that found it.
LEMMA DepthOf ==
  ASSUME NEW g, Walk(g), NEW d \in 0..Len(g.nodes), NEW x \in Layers(g)[d]
  PROVE  x \in DOMAIN ownershipDepth(g) /\ ownershipDepth(g)[x] = d
<1> DEFINE n == Len(g.nodes)
           L == Layers(g)
<1>1. DOMAIN L = 0..n /\ \A i, j \in 0..n : \A y \in L[i] : y \in L[j] => i = j
  BY DEF Walk
<1>2. x \in UNION Range(L)
  BY <1>1 DEF Range
<1>3. (CHOOSE i \in DOMAIN L : x \in L[i]) = d
  BY <1>1
<1> QED  BY <1>2, <1>3 DEF ownershipDepth

LEMMA FoundInARound ==
  ASSUME NEW g, Walk(g), NEW x \in DOMAIN ownershipDepth(g)
  PROVE  \E d \in 0..Len(g.nodes) : x \in Layers(g)[d] /\ ownershipDepth(g)[x] = d
<1>1. PICK d \in 0..Len(g.nodes) : x \in Layers(g)[d]
  BY DEF Walk, ownershipDepth, Range
<1> QED  BY <1>1, DepthOf

\* An owner stands at most one column left of what it owns, and what has a column right of
\* the first has an owner in the column before.
LEMMA DepthFollowsEdges ==
  ASSUME NEW g, IsGraph(g)
  PROVE  /\ \A e \in g.edges : e[1] \in DOMAIN ownershipDepth(g) =>
              ownershipDepth(g)[e[2]] <= ownershipDepth(g)[e[1]] + 1
         /\ \A i \in DOMAIN ownershipDepth(g) :
              IF ownershipDepth(g)[i] = 0 THEN \A e \in g.edges : e[2] # i
              ELSE \E e \in g.edges : e[2] = i /\ ownershipDepth(g)[e[1]] = ownershipDepth(g)[i] - 1
<1> DEFINE n == Len(g.nodes)
           L == Layers(g)
           depth == ownershipDepth(g)
<1>1. Walk(g)
  BY WalkOf
<1>2. /\ n \in Nat /\ L[0] = roots(g) /\ L[n] = {}
      /\ \A d \in 1..n : L[d] = owned(g, L[d - 1]) \ UNION {L[i] : i \in 0..(d - 1)}
  BY <1>1 DEF Walk
<1>3. \A d \in 0..n : \A x \in L[d] : x \in DOMAIN depth /\ depth[x] = d
  BY <1>1, DepthOf
<1>4. \A x \in DOMAIN depth : \E d \in 0..n : x \in L[d] /\ depth[x] = d
  BY <1>1, FoundInARound
<1> HIDE DEF n, L, depth
<1>5. ASSUME NEW e \in g.edges, e[1] \in DOMAIN depth
      PROVE  depth[e[2]] <= depth[e[1]] + 1
  <2>1. PICK d \in 0..n : e[1] \in L[d] /\ depth[e[1]] = d
    BY <1>4, <1>5
  <2>2. d + 1 \in 1..n /\ d + 1 \in 0..n /\ (d + 1) - 1 = d
    BY <1>2, <2>1
  <2>3. e[2] \in owned(g, L[d])
    BY <2>1 DEF owned
  <2>4. CASE e[2] \in L[d + 1]
    <3>1. depth[e[2]] = d + 1
      BY <1>3, <2>2, <2>4
    <3> QED  BY <2>1, <3>1
  <2>5. CASE e[2] \notin L[d + 1]
    <3>1. PICK i \in 0..d : e[2] \in L[i]
      BY <1>2, <2>2, <2>3, <2>5
    <3>2. i \in 0..n /\ i <= d + 1
      BY <1>2, <2>1
    <3>3. depth[e[2]] = i
      BY <1>3, <3>1, <3>2
    <3> QED  BY <2>1, <3>2, <3>3
  <2> QED  BY <2>4, <2>5
<1>6. ASSUME NEW i \in DOMAIN depth
      PROVE  IF depth[i] = 0 THEN \A e \in g.edges : e[2] # i
             ELSE \E e \in g.edges : e[2] = i /\ depth[e[1]] = depth[i] - 1
  <2>1. PICK d \in 0..n : i \in L[d] /\ depth[i] = d
    BY <1>4
  <2>2. CASE d = 0
    BY <1>2, <2>1, <2>2 DEF roots
  <2>3. CASE d # 0
    <3>1. d \in 1..n /\ d - 1 \in 0..n
      BY <1>2, <2>3
    <3>2. PICK e \in g.edges : e[1] \in L[d - 1] /\ e[2] = i
      BY <1>2, <2>1, <3>1 DEF owned
    <3>3. depth[e[1]] = d - 1
      BY <1>3, <3>1, <3>2
    <3> QED  BY <2>1, <2>3, <3>2, <3>3
  <2> QED  BY <2>2, <2>3
<1> QED  BY <1>5, <1>6 DEF depth

-----------------------------------------------------------------------------
(* Columns, and what is left and right of them. *)

\* A column is a number, and there are only so many.
LEMMA ColumnsBounded ==
  ASSUME NEW g, IsGraph(g)
  PROVE  \E b \in Nat : \A i \in DOMAIN nodeColumns(g) : nodeColumns(g)[i] \in 0..b
<1> DEFINE kinds == {n.kind : n \in Nodes(g)}
           used  == {NAMESPACE_COLUMNS(k) : k \in kinds}
           by(columns) == [i \in NodeIds(g) |->
                             LET kind == (CHOOSE n \in Nodes(g) : n.id = i).kind
                             IN IF kind \in DOMAIN columns THEN columns[kind] ELSE 0]
           rank == [k \in kinds |-> Cardinality({c \in used : c < NAMESPACE_COLUMNS(k)})]
<1>1. ASSUME NEW columns, NEW b \in Nat, \A k \in DOMAIN columns : columns[k] \in 0..b
      PROVE  \A i \in DOMAIN by(columns) : by(columns)[i] \in 0..b
  BY <1>1
<1>2. CASE g.level = "namespace"
  <2>1. nodeColumns(g) = by(rank)
    BY <1>2 DEF nodeColumns
  <2>2. IsFiniteSet(used)
    <3>1. \A k : NAMESPACE_COLUMNS(k) \in 0..7
      BY DEF NAMESPACE_COLUMNS
    <3>2. used \in SUBSET (0..7)
      BY <3>1
    <3>3. IsFiniteSet(0..7)
      <4>1. 0 \in Int /\ 7 \in Int
        OBVIOUS
      <4> QED  BY <4>1, FS_Interval
    <3> QED  BY <3>2, <3>3, FS_Subset
  <2> HIDE DEF used, kinds
  <2>3. \A k \in kinds : rank[k] \in 0..Cardinality(used)
    <3> SUFFICES ASSUME NEW k \in kinds
                 PROVE  rank[k] \in 0..Cardinality(used)
      OBVIOUS
    <3> DEFINE left == {c \in used : c < NAMESPACE_COLUMNS(k)}
    <3>1. left \in SUBSET used
      OBVIOUS
    <3> HIDE DEF left
    <3>2. IsFiniteSet(left) /\ Cardinality(left) <= Cardinality(used)
      BY <2>2, <3>1, FS_Subset
    <3>3. Cardinality(left) \in Nat /\ Cardinality(used) \in Nat
      BY <2>2, <3>2, FS_CardinalityType
    <3>4. rank[k] = Cardinality(left)
      BY DEF left
    <3> QED  BY <3>2, <3>3, <3>4
  <2>4. Cardinality(used) \in Nat
    BY <2>2, FS_CardinalityType
  <2>5. \A k \in DOMAIN rank : rank[k] \in 0..Cardinality(used)
    BY <2>3
  <2> HIDE DEF rank
  <2>6. \A i \in DOMAIN by(rank) : by(rank)[i] \in 0..Cardinality(used)
    BY <1>1, <2>4, <2>5
  <2> QED  BY <2>1, <2>4, <2>6
<1>3. CASE g.level = "object"
  <2>1. nodeColumns(g) = ownershipDepth(g)
    BY <1>3 DEF nodeColumns
  <2>2. Len(g.nodes) \in Nat /\ Walk(g)
    BY WalkOf DEF Walk
  <2>3. \A i \in DOMAIN ownershipDepth(g) : ownershipDepth(g)[i] \in 0..Len(g.nodes)
    BY <2>2, FoundInARound
  <2> QED  BY <2>1, <2>2, <2>3
<1>4. CASE g.level \notin {"namespace", "object"}
  <2>1. \/ nodeColumns(g) = by(STORAGE_COLUMNS)
        \/ nodeColumns(g) = by(ACCESS_COLUMNS)
        \/ nodeColumns(g) = <<>>
    BY <1>4 DEF nodeColumns
  <2>2. \A k \in DOMAIN STORAGE_COLUMNS : STORAGE_COLUMNS[k] \in 0..2
    BY DEF STORAGE_COLUMNS
  <2>3. \A k \in DOMAIN ACCESS_COLUMNS : ACCESS_COLUMNS[k] \in 0..2
    BY DEF ACCESS_COLUMNS
  <2> HIDE DEF by
  <2>4. CASE nodeColumns(g) = by(STORAGE_COLUMNS)
    BY <1>1, <2>2, <2>4
  <2>5. CASE nodeColumns(g) = by(ACCESS_COLUMNS)
    BY <1>1, <2>3, <2>5
  <2>6. CASE nodeColumns(g) = <<>>
    BY <2>6
  <2> QED  BY <2>1, <2>4, <2>5, <2>6
<1> QED  BY <1>2, <1>3, <1>4

\* The last column in use, and -1 when there is none.
LEMMA LastOf ==
  ASSUME NEW b \in Nat, NEW used \in SUBSET (0..b)
  PROVE  /\ last(used) \in Int /\ last(used) >= -1
         /\ \A c \in used : c <= last(used)
         /\ used # {} => last(used) \in Nat
<1> DEFINE T == used \cup {-1}
<1>1. T \in SUBSET Int /\ T # {} /\ \A c \in T : c <= b
  OBVIOUS
<1>2. Max(T) \in T /\ \A c \in T : Max(T) >= c
  BY <1>1, MaxOf
<1>3. last(used) = Max(T)
  BY DEF last
<1> DEFINE m == Max(T)
<1>4. /\ m = -1 \/ m \in used
      /\ m >= -1
      /\ \A c \in used : m >= c /\ c \in Nat
  BY <1>2
<1> HIDE DEF m
<1>5. m \in Int
  <2>1. CASE m = -1
    BY <2>1
  <2>2. CASE m \in used
    BY <1>4, <2>2
  <2> QED  BY <1>4, <2>1, <2>2
<1>6. \A c \in used : c <= m
  BY <1>4, <1>5
<1>7. ASSUME used # {}
      PROVE  m \in Nat
  <2>1. PICK c \in used : m >= c /\ c \in Nat
    BY <1>4, <1>7
  <2> QED  BY <1>5, <2>1
<1> QED  BY <1>3, <1>4, <1>5, <1>6, <1>7 DEF m

LEMMA ColumnsStep ==
  ASSUME NEW count \in Nat, count > 1
  PROVE  \E w \in Nat : w >= 240 /\ \A c : columnX(count, c) = 100 + c * w
<1> DEFINE share == (Width - 200) \div (count - 1)
           wide  == Max({240, share})
           w     == Min({wide, 380})
<1>1. share \in Int
  BY GraphsAssumption
<1> HIDE DEF share
<1>2. wide \in {240, share} /\ wide >= 240
  <2>1. 240 \in Int
    OBVIOUS
  <2> QED  BY <1>1, <2>1, MaxOfTwo
<1>3. wide \in Int
  BY <1>1, <1>2
<1> HIDE DEF wide
<1>4. w \in {wide, 380}
  <2>1. 380 \in Int
    OBVIOUS
  <2> QED  BY <1>3, <2>1, MinOfTwo
<1>5. w \in Nat /\ w >= 240
  BY <1>2, <1>3, <1>4
<1>6. \A c : columnX(count, c) = 100 + c * w
  BY DEF columnX, w, wide, share
<1> QED  BY <1>5, <1>6

\* Columns that differ are apart, and what stands right of the last one by one column more.
LEMMA ColumnsApart ==
  ASSUME NEW count \in Nat, count > 1, NEW c \in Nat, NEW d \in Nat, c < d
  PROVE  /\ columnX(count, c) \in Int /\ columnX(count, d) \in Int
         /\ columnX(count, c) + 240 <= columnX(count, d)
<1>1. PICK w \in Nat : w >= 240 /\ \A k : columnX(count, k) = 100 + k * w
  BY ColumnsStep
<1>2. c * w \in Int /\ d * w \in Int /\ c * w + w <= d * w
  <2>1. PICK k \in Nat : d = c + 1 + k
    <3>1. d - c - 1 \in Nat /\ d = c + 1 + (d - c - 1)
      OBVIOUS
    <3> QED  BY <3>1
  <2>2. d * w = c * w + w + k * w /\ k * w >= 0 /\ c * w \in Int /\ k * w \in Int
    BY <2>1
  <2> QED  BY <2>2
<1> QED  BY <1>1, <1>2

LEMMA StackApart ==
  ASSUME NEW count \in Nat, NEW a \in Nat, NEW b \in Nat, a # b
  PROVE  stackY(count, a) # stackY(count, b)
<1> DEFINE share   == Height \div (count + 1)
           spacing == Max({110, share})
           top     == Height \div 2 - (spacing * (count - 1)) \div 2
<1>1. share \in Int
  BY GraphsAssumption
<1> HIDE DEF share
<1>2. spacing \in {110, share} /\ spacing >= 110
  <2>1. 110 \in Int
    OBVIOUS
  <2> QED  BY <1>1, <2>1, MaxOfTwo
<1>3. spacing \in Nat \ {0}
  BY <1>1, <1>2
<1> HIDE DEF spacing
<1>4. top \in Int
  <2>1. spacing * (count - 1) \in Int /\ Height \div 2 \in Int
    BY <1>3, GraphsAssumption
  <2> QED  BY <2>1
<1> HIDE DEF top
<1>5. stackY(count, a) = top + a * spacing /\ stackY(count, b) = top + b * spacing
  BY DEF stackY, top, spacing, share
<1>6. ASSUME top + a * spacing = top + b * spacing
      PROVE  FALSE
  <2>1. spacing * a \in Int /\ spacing * b \in Int /\ spacing * a = a * spacing /\ spacing * b = b * spacing
    BY <1>3
  <2>2. spacing * a = spacing * b
    BY <1>4, <1>6, <2>1
  <2>3. a = b
    BY <1>3, <2>2, Factor
  <2> QED  BY <2>3
<1> QED  BY <1>5, <1>6

-----------------------------------------------------------------------------
(* The layout of a graph. *)

\* Any number of groups has a grid of columns to stand in.
LEMMA CellOf ==
  ASSUME NEW g, IsGraph(g), NEW used, used # {}, last(used) \in Nat, NEW i \in DOMAIN g.groups
  PROVE  LET right == columnX(columnCount(g, used), last(used) + 1)
         IN  right \in Int => grid(g, used)[i].x \in Int /\ grid(g, used)[i].x >= right - 140
<1> DEFINE count == Len(g.groups)
           right == columnX(columnCount(g, used), last(used) + 1)
           cols  == ceil(count, 3)
           share == (280 * ceil(count, 3)) \div cols
           w     == Max({share, 280})
<1> SUFFICES ASSUME right \in Int
             PROVE  grid(g, used)[i].x \in Int /\ grid(g, used)[i].x >= right - 140
  OBVIOUS
<1>1. grid(g, used)[i].x = right - 140 + w * ((i - 1) % cols)
  BY DEF grid
<1>2. count \in Nat /\ i \in 1..count
  BY DEF IsGraph
<1> HIDE DEF count, right
<1>3. cols \in Nat \ {0}
  <2>1. count + 3 - 1 \in Nat /\ count + 3 - 1 >= 3
    BY <1>2
  <2>2. (count + 3 - 1) \div 3 \in Nat /\ (count + 3 - 1) \div 3 >= 1
    BY <2>1
  <2> QED  BY <2>2 DEF ceil
<1>4. share \in Int
  <2>1. 280 * ceil(count, 3) \in Int
    BY <1>3
  <2> QED  BY <1>3, <2>1
<1> HIDE DEF share, cols
<1>5. w \in Nat
  <2>1. 280 \in Int
    OBVIOUS
  <2>2. w \in {share, 280} /\ w >= 280
    BY <1>4, <2>1, MaxOfTwo
  <2> QED  BY <1>4, <2>2
<1> HIDE DEF w
<1>6. (i - 1) % cols \in Nat
  BY <1>2, <1>3
<1>7. w * ((i - 1) % cols) \in Nat
  BY <1>5, <1>6
<1> QED  BY <1>1, <1>7

LEMMA AnchorsApart ==
  ASSUME NEW g, IsGraph(g)
  PROVE  Apart(targets(g), cells(g))
<1> DEFINE columns == nodeColumns(g)
           stood   == standing(g, columns)
           used    == ungroupedColumns(g, columns)
           count   == columnCount(g, used)
           own(n)  == CHOOSE i \in stood : g.nodes[i].id = n
           col(n)  == columns[g.nodes[own(n)].id]
           stack(n) == byColumn(g, columns, col(n))
           above(n) == Cardinality({k \in stack(n) : k < own(n)})
           spot(n) == anchorAt(g, columns, own(n))
           shown   == {g.nodes[i].id : i \in stood}
<1>1. targets(g) = [n \in shown |-> spot(n)] /\ cells(g) = grid(g, used)
  BY DEF targets, anchors, cells
<1>2. PICK b \in Nat : \A i \in DOMAIN columns : columns[i] \in 0..b
  BY ColumnsBounded
<1>3. Len(g.nodes) \in Nat /\ DOMAIN g.nodes = 1..Len(g.nodes)
  BY FewIds
<1>4. stood \in SUBSET (1..Len(g.nodes)) /\ \A i \in stood : columns[g.nodes[i].id] \in 0..b
  BY <1>2, <1>3 DEF standing
<1>5. used \in SUBSET (0..b) /\ \A i \in stood : columns[g.nodes[i].id] \in used
  BY <1>4 DEF ungroupedColumns
<1>6. /\ last(used) \in Int /\ last(used) >= -1
      /\ \A c \in used : c <= last(used)
      /\ used # {} => last(used) \in Nat
  BY <1>5, LastOf
<1>7. \A n \in shown : own(n) \in stood /\ g.nodes[own(n)].id = n
  OBVIOUS
<1>8. /\ \A n \in shown : spot(n) = [x |-> columnX(count, col(n)), y |-> stackY(Cardinality(stack(n)), above(n))]
      /\ \A n \in shown : col(n) \in used /\ col(n) \in Nat
  <2>1. \A n \in shown : col(n) \in used /\ col(n) \in Nat
    BY <1>4, <1>5, <1>7
  <2> QED  BY <2>1 DEF anchorAt
<1>9. \A n \in shown : spot(n).x = columnX(count, col(n))
  <2> HIDE DEF spot, shown, col, count, stack, above
  <2> QED  BY <1>8
<1>10. count \in Nat /\ count >= last(used) + 1 /\ (g.groups # <<>> => count = last(used) + 2)
  BY <1>6 DEF columnCount
<1>11. ASSUME NEW n \in shown, NEW m \in shown, col(n) = col(m), own(n) < own(m)
       PROVE  spot(n) # spot(m)
  <2> DEFINE S == stack(n)
  <2>1. S = stack(m)
    BY <1>11
  <2>2. S \in SUBSET (1..Len(g.nodes)) /\ own(n) \in S /\ own(m) \in S
    BY <1>4, <1>7, <1>11 DEF byColumn
  <2> HIDE DEF S, own
  <2>3. /\ Cardinality({k \in S : k < own(n)}) \in Nat
        /\ Cardinality({k \in S : k < own(m)}) \in Nat
        /\ Cardinality({k \in S : k < own(n)}) < Cardinality({k \in S : k < own(m)})
    BY <1>3, <1>11, <2>2, MoreBefore
  <2>4. above(n) \in Nat /\ above(m) \in Nat /\ above(n) # above(m)
    <3>1. above(n) = Cardinality({k \in S : k < own(n)}) /\ above(m) = Cardinality({k \in S : k < own(m)})
      BY <2>1 DEF S
    <3> QED  BY <2>3, <3>1
  <2>5. Cardinality(S) \in Nat
    <3>1. 1 \in Int /\ Len(g.nodes) \in Int
      BY <1>3
    <3>2. IsFiniteSet(1..Len(g.nodes))
      BY <3>1, FS_Interval
    <3> QED  BY <2>2, <3>2, FS_Subset, FS_CardinalityType
  <2> HIDE DEF above
  <2>6. stackY(Cardinality(S), above(n)) # stackY(Cardinality(S), above(m))
    BY <2>4, <2>5, StackApart
  <2>7. spot(n).y = stackY(Cardinality(S), above(n)) /\ spot(m).y = stackY(Cardinality(S), above(m))
    BY <1>8, <2>1 DEF S
  <2> QED  BY <2>6, <2>7
<1>12. ASSUME NEW n \in shown, NEW m \in shown, col(n) < col(m)
       PROVE  spot(n) # spot(m)
  <2>1. col(n) \in Nat /\ col(m) \in Nat /\ col(m) <= last(used)
    BY <1>6, <1>8
  <2>2. spot(n).x = columnX(count, col(n)) /\ spot(m).x = columnX(count, col(m))
    BY <1>9
  <2> HIDE DEF col, spot, count, used
  <2>3. count > 1
    BY <1>6, <1>10, <1>12, <2>1
  <2>4. /\ columnX(count, col(n)) \in Int /\ columnX(count, col(m)) \in Int
        /\ columnX(count, col(n)) + 240 <= columnX(count, col(m))
    BY <1>10, <1>12, <2>1, <2>3, ColumnsApart
  <2>5. columnX(count, col(n)) # columnX(count, col(m))
    BY <2>4
  <2> QED  BY <2>2, <2>5
<1>13. ASSUME NEW n \in shown, NEW m \in shown, n # m
       PROVE  spot(n) # spot(m)
  <2>1. own(n) \in Int /\ own(m) \in Int /\ own(n) # own(m)
    BY <1>4, <1>7, <1>13
  <2>2. col(n) \in Nat /\ col(m) \in Nat
    BY <1>8
  <2> HIDE DEF own, col
  <2>3. \/ col(n) < col(m) \/ col(m) < col(n)
        \/ col(n) = col(m) /\ (own(n) < own(m) \/ own(m) < own(n))
    BY <2>1, <2>2
  <2> HIDE DEF spot
  <2> QED  BY <1>11, <1>12, <2>3
<1>14. ASSUME NEW n \in shown, NEW i \in DOMAIN grid(g, used)
       PROVE  spot(n).x < grid(g, used)[i].x
  <2>1. i \in DOMAIN g.groups /\ g.groups # <<>>
    <3>1. i \in DOMAIN g.groups
      BY <1>14 DEF grid
    <3> QED  BY <3>1
  <2>2. used # {} /\ last(used) \in Nat /\ col(n) <= last(used) /\ col(n) \in Nat
    BY <1>6, <1>8
  <2>3. count = last(used) + 2 /\ count > 1 /\ last(used) + 1 \in Nat /\ col(n) < last(used) + 1
    BY <1>10, <2>1, <2>2
  <2>4. spot(n).x = columnX(count, col(n))
    BY <1>9
  <2> HIDE DEF col, spot
  <2>5. /\ columnX(count, col(n)) \in Int /\ columnX(count, last(used) + 1) \in Int
        /\ columnX(count, col(n)) + 240 <= columnX(count, last(used) + 1)
    BY <1>10, <2>2, <2>3, ColumnsApart
  <2>6. /\ grid(g, used)[i].x \in Int
        /\ grid(g, used)[i].x >= columnX(count, last(used) + 1) - 140
    BY <2>1, <2>2, <2>5, CellOf
  <2> QED  BY <2>4, <2>5, <2>6
<1> HIDE DEF spot, shown, used
<1> QED  BY <1>1, <1>13, <1>14 DEF Apart

\* GraphCanvas.vm.ts: in any graph of any level ownership goes from left to right, however it
\* shares children or goes in rings, no two nodes outside groups are pulled to one place, and
\* the groups lie right of all of them, whatever the size of the canvas.
THEOREM LayoutAlwaysLayered == CanvasSpec => []LayoutIsLayered
<1>1. CanvasInit => drawn \in CanvasGraphs
  BY DEF CanvasInit
<1>2. drawn \in CanvasGraphs /\ [CanvasNext]_canvasVars => (drawn \in CanvasGraphs)'
  BY GraphsAssumption DEF CanvasNext, Draw, DragStart, DragEnd, End, GestureStart, Zoomed, MoveEnd, canvasVars
<1>3. drawn \in CanvasGraphs => LayoutIsLayered
  <2> SUFFICES ASSUME drawn \in CanvasGraphs
               PROVE  LayoutIsLayered
    OBVIOUS
  <2>1. IsGraph(drawn)
    BY GraphsAssumption
  <2>2. Apart(targets(drawn), cells(drawn))
    BY <2>1, AnchorsApart
  <2>3. ASSUME drawn.level = "object"
        PROVE  FollowsEdges(nodeColumns(drawn))
    <3>1. nodeColumns(drawn) = ownershipDepth(drawn)
      BY <2>3 DEF nodeColumns
    <3> QED  BY <2>1, <3>1, DepthFollowsEdges DEF FollowsEdges
  <2> QED  BY <2>2, <2>3 DEF LayoutIsLayered
<1>4. QED  BY <1>1, <1>2, <1>3, PTL DEF CanvasSpec

-----------------------------------------------------------------------------
(* The canvas of a graph: the user's view of it. *)

\* Unless a redraw came while something moved the view, the group on screen has the transform
\* the element holds, and whatever moves the view is heard by that group.
ViewInv == ~overdrawn => heard /\ onScreen = held

LEMMA ViewStep ==
  ASSUME ViewInv, [CanvasNext]_canvasVars
  PROVE  ViewInv'
<1> USE DEF ViewInv
<1>1. ASSUME NEW g \in Following(drawn), Draw(g)
      PROVE  ViewInv'
  BY <1>1 DEF Draw, transform
<1>2. CASE DragStart \/ DragEnd
  BY <1>2 DEF DragStart, DragEnd, viewVars
<1>3. CASE End
  BY <1>3 DEF End
<1>4. CASE GestureStart
  BY <1>4 DEF GestureStart
<1>5. CASE Zoomed
  BY <1>5 DEF Zoomed
<1>6. ASSUME NEW by \in {"fit", "user"}, MoveEnd(by)
      PROVE  ViewInv'
  BY <1>6 DEF MoveEnd
<1>7. CASE UNCHANGED canvasVars
  BY <1>7 DEF canvasVars
<1> QED  BY <1>1, <1>2, <1>3, <1>4, <1>5, <1>6, <1>7 DEF CanvasNext

\* GraphCanvas.tsx: "Keep the current pan/zoom across refreshes of the same view", for any
\* graphs and any transforms, in whatever order answers are drawn, nodes are dragged, the
\* simulation ends and the fit and the user move the view.
THEOREM ViewAlwaysKept == CanvasSpec => KeepsView
<1>1. CanvasInit => ViewInv
  BY DEF CanvasInit, ViewInv
<1>2. ViewInv /\ [CanvasNext]_canvasVars => ViewInv'
  BY ViewStep
<1>3. ASSUME ViewInv, CanvasNext, fitted, ~overdrawn
      PROVE  onScreen' = onScreen \/ Zoomed
  <2>1. ASSUME NEW g \in Following(drawn), Draw(g)
        PROVE  onScreen' = onScreen
    <3>1. onScreen' = held
      BY <1>3, <2>1 DEF Draw, transform, isNewView
    <3> QED  BY <1>3, <3>1 DEF ViewInv
  <2> QED  BY <1>3, <2>1 DEF CanvasNext, DragStart, DragEnd, End, GestureStart, MoveEnd, viewVars
<1>4. ViewInv /\ [CanvasNext]_canvasVars => [fitted /\ ~overdrawn => onScreen' = onScreen \/ Zoomed]_canvasVars
  BY <1>3
<1>5. QED  BY <1>1, <1>2, <1>4, PTL DEF CanvasSpec, KeepsView

-----------------------------------------------------------------------------
(* The map of a Docker host. *)

LEMMA SqrtUp ==
  ASSUME NEW n \in Nat \ {0}
  PROVE  sqrtUp(n) \in Nat \ {0}
<1> DEFINE T == {c \in 1..n : c * c >= n}
<1>1. T \in SUBSET Nat
  OBVIOUS
<1>2. n \in T
  OBVIOUS
<1>3. \A c \in T : c \in Nat \ {0}
  OBVIOUS
<1> HIDE DEF T
<1>4. Min(T) \in T
  BY <1>1, <1>2, MinOf
<1> QED  BY <1>3, <1>4 DEF sqrtUp, T

\* Two lines of a grid of cells that are at least 250 wide are as far apart.
LEMMA LinesFar ==
  ASSUME NEW w \in Nat, w >= 250, NEW a \in Int, NEW b \in Int, a # b
  PROVE  w * (a + 1) - w * (b + 1) >= 250 \/ w * (b + 1) - w * (a + 1) >= 250
<1>1. ASSUME NEW c \in Int, NEW d \in Int, c < d
      PROVE  w * (d + 1) - w * (c + 1) >= 250
  <2>1. w * (d + 1) - w * (c + 1) = w * (d - c)
    BY <1>1
  <2>2. PICK e \in Nat : d - c = e + 1
    <3>1. d - c - 1 \in Nat
      BY <1>1
    <3> QED  BY <1>1, <3>1
  <2>3. w * (e + 1) = w * e + w /\ w * e \in Nat
    OBVIOUS
  <2>4. w * e + w >= 250
    BY <2>3
  <2> QED  BY <2>1, <2>2, <2>3, <2>4
<1>2. a < b \/ b < a
  OBVIOUS
<1> QED  BY <1>1, <1>2

\* Two places of a grid with so many columns differ in their column or in their row.
LEMMA CellsApart ==
  ASSUME NEW p \in Nat, NEW q \in Nat, p # q, NEW cols \in Nat \ {0}
  PROVE  /\ {p % cols, p \div cols, q % cols, q \div cols} \subseteq Int
         /\ p % cols # q % cols \/ p \div cols # q \div cols
<1>1. /\ p % cols \in Int /\ p \div cols \in Int /\ p = cols * (p \div cols) + (p % cols)
      /\ q % cols \in Int /\ q \div cols \in Int /\ q = cols * (q \div cols) + (q % cols)
  BY Quotient
<1> DEFINE pc == p % cols
           qc == q % cols
           pr == p \div cols
           qr == q \div cols
<1>2. pc \in Int /\ qc \in Int /\ pr \in Int /\ qr \in Int /\ p = cols * pr + pc /\ q = cols * qr + qc
  BY <1>1
<1> HIDE DEF pc, qc, pr, qr
<1>3. pc # qc \/ pr # qr
  BY <1>2
<1> QED  BY <1>2, <1>3 DEF pc, qc, pr, qr

\* A network stands in the grid at its place among those with members.
LEMMA CentersApart ==
  ASSUME NEW m \in Maps, NEW i \in groups(m), NEW j \in groups(m), i < j
  PROVE  Far(groupCenters(m)[i], groupCenters(m)[j])
<1> DEFINE n     == Len(m.networks)
           size  == Cardinality(groups(m))
           total == Max({size, 1})
           cols  == sqrtUp(total)
           rows  == (total + cols - 1) \div cols + 1
           cellW == Max({MapWidth \div (cols + 1), 250})
           cellH == Max({MapHeight \div rows, 250})
           place(k) == Cardinality({l \in groups(m) : l < k})
<1>1. groupCenters(m) =
        [k \in groups(m) |-> [x |-> cellW * ((place(k) % cols) + 1), y |-> cellH * ((place(k) \div cols) + 1)]]
  BY DEF groupCenters, gridCell
<1>2. n \in Nat /\ groups(m) \in SUBSET (1..n)
  <2>1. m.networks \in Seq(Range(m.networks))
    BY MapsAssumption
  <2> QED  BY <2>1 DEF groups
<1>3. size \in Nat
  <2>1. 1 \in Int /\ n \in Int
    BY <1>2
  <2>2. IsFiniteSet(1..n)
    BY <2>1, FS_Interval
  <2> QED  BY <1>2, <2>2, FS_Subset, FS_CardinalityType
<1>4. place(i) \in Nat /\ place(j) \in Nat /\ place(i) < place(j)
  BY <1>2, MoreBefore
<1> HIDE DEF n, size, place
<1>5. total \in Nat \ {0}
  <2>1. size \in Int /\ 1 \in Int
    BY <1>3
  <2>2. total \in {size, 1} /\ total >= 1
    BY <2>1, MaxOfTwo
  <2> QED  BY <1>3, <2>2
<1> HIDE DEF total
<1>6. cols \in Nat \ {0}
  BY <1>5, SqrtUp
<1> HIDE DEF cols
<1>7. cellW \in Nat /\ cellW >= 250
  <2>1. MapWidth \div (cols + 1) \in Int
    BY <1>6, MapsAssumption
  <2> DEFINE share == MapWidth \div (cols + 1)
  <2>2. share \in Int /\ 250 \in Int
    BY <2>1
  <2> HIDE DEF share
  <2>3. Max({share, 250}) \in {share, 250} /\ Max({share, 250}) >= 250
    BY <2>2, MaxOfTwo
  <2>4. Max({share, 250}) \in Nat
    BY <2>2, <2>3
  <2> QED  BY <2>3, <2>4 DEF share
<1>8. rows \in Nat \ {0}
  <2> DEFINE a == total + cols - 1
  <2>1. a \in Nat
    BY <1>5, <1>6
  <2> HIDE DEF a
  <2>2. a \div cols \in Nat
    BY <1>6, <2>1
  <2> QED  BY <2>2 DEF a
<1> HIDE DEF cellW, rows
<1>9. cellH \in Nat /\ cellH >= 250
  <2>1. MapHeight \div rows \in Int
    BY <1>8, MapsAssumption
  <2> DEFINE share == MapHeight \div rows
  <2>2. share \in Int /\ 250 \in Int
    BY <2>1
  <2> HIDE DEF share
  <2>3. Max({share, 250}) \in {share, 250} /\ Max({share, 250}) >= 250
    BY <2>2, MaxOfTwo
  <2>4. Max({share, 250}) \in Nat
    BY <2>2, <2>3
  <2> QED  BY <2>3, <2>4 DEF share
<1> HIDE DEF cellH
<1>10. /\ {place(i) % cols, place(i) \div cols, place(j) % cols, place(j) \div cols} \subseteq Int
       /\ place(i) % cols # place(j) % cols \/ place(i) \div cols # place(j) \div cols
  <2>1. place(i) # place(j)
    BY <1>4
  <2> QED  BY <1>4, <1>6, <2>1, CellsApart
<1> DEFINE col(k) == place(k) % cols
           row(k) == place(k) \div cols
<1>11. /\ col(i) \in Int /\ col(j) \in Int /\ row(i) \in Int /\ row(j) \in Int
       /\ col(i) # col(j) \/ row(i) # row(j)
  BY <1>10
<1>12. /\ groupCenters(m)[i] = [x |-> cellW * (col(i) + 1), y |-> cellH * (row(i) + 1)]
       /\ groupCenters(m)[j] = [x |-> cellW * (col(j) + 1), y |-> cellH * (row(j) + 1)]
  BY <1>1
<1> HIDE DEF col, row
<1> DEFINE P == [x |-> cellW * (col(i) + 1), y |-> cellH * (row(i) + 1)]
           Q == [x |-> cellW * (col(j) + 1), y |-> cellH * (row(j) + 1)]
<1>13. CASE col(i) # col(j)
  <2>1. P.x - Q.x >= 250 \/ Q.x - P.x >= 250
    BY <1>7, <1>11, <1>13, LinesFar
  <2> QED  BY <1>12, <2>1 DEF Far
<1>14. CASE row(i) # row(j)
  <2>1. P.y - Q.y >= 250 \/ Q.y - P.y >= 250
    BY <1>9, <1>11, <1>14, LinesFar
  <2> QED  BY <1>12, <2>1 DEF Far
<1> QED  BY <1>11, <1>13, <1>14

\* TopologyCanvas.tsx: for any containers, any networks and any members the server lists for
\* them, and any size of the canvas, containers of two networks are pulled to places apart.
THEOREM NetworksAlwaysApart == TopologySpec => []NetworksApart
<1>1. TopologyInit => map \in Maps
  BY DEF TopologyInit
<1>2. map \in Maps /\ [TopologyNext]_map => (map \in Maps)'
  BY DEF TopologyNext, DrawMap
<1>3. map \in Maps => NetworksApart
  <2> SUFFICES ASSUME map \in Maps,
                      NEW a \in map.containers, NEW b \in map.containers,
                      homes(map, a) # {}, homes(map, b) # {}, Max(homes(map, a)) # Max(homes(map, b))
               PROVE  Far(pulledTo(map, a), pulledTo(map, b))
    BY DEF NetworksApart
  <2> DEFINE i == Max(homes(map, a))
             j == Max(homes(map, b))
  <2>1. pulledTo(map, a) = groupCenters(map)[i] /\ pulledTo(map, b) = groupCenters(map)[j]
    BY DEF pulledTo
  <2>2. ASSUME NEW c, homes(map, c) # {}
        PROVE  Max(homes(map, c)) \in groups(map) /\ Max(homes(map, c)) \in Nat
    <3>1. map.networks \in Seq(Range(map.networks))
      BY MapsAssumption
    <3>2. /\ Len(map.networks) \in Int /\ homes(map, c) \in SUBSET groups(map)
          /\ homes(map, c) \in SUBSET Int /\ \A n \in homes(map, c) : n \in Nat /\ n <= Len(map.networks)
      BY <3>1 DEF homes, groups
    <3>3. Max(homes(map, c)) \in homes(map, c)
      BY <2>2, <3>2, MaxOf
    <3> QED  BY <3>2, <3>3
  <2>3. ASSUME NEW p, NEW q, Far(p, q)
        PROVE  Far(q, p)
    BY <2>3 DEF Far
  <2>4. i \in groups(map) /\ j \in groups(map) /\ (i < j \/ j < i)
    BY <2>2
  <2> HIDE DEF i, j
  <2>5. CASE i < j
    BY <2>1, <2>4, <2>5, CentersApart
  <2>6. CASE j < i
    <3>1. Far(groupCenters(map)[j], groupCenters(map)[i])
      BY <2>4, <2>6, CentersApart
    <3> QED  BY <2>1, <2>3, <3>1
  <2> QED  BY <2>4, <2>5, <2>6
<1>4. QED  BY <1>1, <1>2, <1>3, PTL DEF TopologySpec

=============================================================================
