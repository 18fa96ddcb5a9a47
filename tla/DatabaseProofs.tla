---------------------------- MODULE DatabaseProofs ----------------------------
(***************************************************************************)
(* Proofs about the graph database: the container it runs in, one of those *)
(* of ContainerRun, the commands on the graph of a test case (FlowGraph)   *)
(* and what the extractors find in it (FlowExtractor).                     *)
(***************************************************************************)
EXTENDS FlowExtractor, ContainerRun, FiniteSetTheorems, WellFoundedInduction, TLAPS

(* Induction over sets of numbers: the library's induction theorems take an  *)
(* operator; that every set of numbers has a least element does not.         *)
LEMMA NatLeast ==
  ASSUME NEW T \in SUBSET Nat, T # {}
  PROVE  \E n \in T : \A m \in T : n <= m
<1> DEFINE R == {p \in Nat \X Nat : p[1] < p[2]}
<1>1. IsWellFoundedOn(R, Nat)
  BY NatLessThanWellFounded DEF OpToRel
<1> HIDE DEF R
<1>2. PICK x \in T : \A y \in T : <<y, x>> \notin R
  BY <1>1, WFMin
<1>3. ASSUME NEW m \in T PROVE x <= m
  <2>1. m \in Nat /\ x \in Nat /\ <<m, x>> \notin R
    BY <1>2
  <2> QED
    BY <2>1 DEF R
<1> QED
  BY <1>3

LEMMA NatSetInduction ==
  ASSUME NEW T, 0 \in T, \A n \in Nat : n \in T => n + 1 \in T
  PROVE  Nat \subseteq T
<1> SUFFICES ASSUME Nat \ T # {} PROVE FALSE
  OBVIOUS
<1>1. PICK n \in Nat \ T : \A m \in Nat \ T : n <= m
  BY NatLeast
<1>2. n # 0 /\ n - 1 \in Nat
  OBVIOUS
<1>3. n - 1 \in T
  BY <1>1, <1>2
<1> QED
  BY <1>2, <1>3

(* A function on a range of numbers may be defined by iterating another one. *)
Iterates(h, a, n, base, F) == h = [k \in a..n |-> IF k = a THEN base ELSE F[h[k - 1]]]

LEMMA IterateOnce ==
  ASSUME NEW D, NEW base \in D, NEW F \in [D -> D], NEW a \in Nat, NEW n \in Nat, a <= n,
         NEW h \in [a..n -> D], Iterates(h, a, n, base, F)
  PROVE  \E g \in [a..n + 1 -> D] : Iterates(g, a, n + 1, base, F)
<1> DEFINE g == [k \in a..n + 1 |-> IF k <= n THEN h[k] ELSE F[h[n]]]
<1>1. h[n] \in D /\ g \in [a..n + 1 -> D]
  OBVIOUS
<1>2. ASSUME NEW k \in a..n + 1 PROVE g[k] = IF k = a THEN base ELSE F[g[k - 1]]
  <2>1. CASE k <= n
    <3>1. k \in a..n /\ g[k] = h[k] /\ (k # a => k - 1 \in a..n /\ g[k - 1] = h[k - 1])
      BY <2>1
    <3>2. h[k] = IF k = a THEN base ELSE F[h[k - 1]]
      BY <3>1 DEF Iterates
    <3> QED
      BY <3>1, <3>2
  <2>2. CASE ~(k <= n)
    <3>1. k = n + 1 /\ k # a /\ k - 1 = n /\ n \in a..n + 1
      BY <2>2
    <3> QED
      BY <3>1
  <2> QED
    BY <2>1, <2>2
<1>3. g = [k \in a..n + 1 |-> g[k]]
  OBVIOUS
<1> HIDE DEF g
<1>4. Iterates(g, a, n + 1, base, F)
  BY <1>2, <1>3 DEF Iterates
<1> QED
  BY <1>1, <1>4

LEMMA IterationExists ==
  ASSUME NEW D, NEW base \in D, NEW F \in [D -> D], NEW a \in Nat, NEW n \in Nat, a <= n
  PROVE  \E h \in [a..n -> D] : Iterates(h, a, n, base, F)
<1> DEFINE T == {m \in Nat : \E h \in [a..a + m -> D] : Iterates(h, a, a + m, base, F)}
<1>1. 0 \in T
  <2> DEFINE h == [k \in a..a |-> base]
  <2>1. h \in [a..a -> D] /\ h = [k \in a..a |-> IF k = a THEN base ELSE F[h[k - 1]]]
    OBVIOUS
  <2> HIDE DEF h
  <2>2. Iterates(h, a, a, base, F) /\ a + 0 = a
    BY <2>1 DEF Iterates
  <2> QED
    BY <2>1, <2>2
<1>2. ASSUME NEW m \in Nat, m \in T PROVE m + 1 \in T
  <2>1. PICK h \in [a..a + m -> D] : Iterates(h, a, a + m, base, F)
    BY <1>2
  <2>0. a + m \in Nat /\ a <= a + m
    OBVIOUS
  <2>2. \E g \in [a..(a + m) + 1 -> D] : Iterates(g, a, (a + m) + 1, base, F)
    BY <2>0, <2>1, IterateOnce
  <2>3. (a + m) + 1 = a + (m + 1)
    OBVIOUS
  <2> QED
    <3> HIDE DEF Iterates
    <3>1. m + 1 \in Nat
      OBVIOUS
    <3> QED
      BY <2>2, <2>3, <3>1
<1> HIDE DEF T
<1>3. n - a \in T
  BY <1>1, <1>2, NatSetInduction
<1>4. a + (n - a) = n
  OBVIOUS
<1> QED
  BY <1>3, <1>4 DEF T
-------------------------------------------------------------------------------
(* What can be reached along edges: the least set that holds what is next to *)
(* where the ways begin, and whatever is next to it.                         *)
Heads(E) == {e[2] : e \in E}
Ways(h, E, S) ==
  h = [k \in 0..Cardinality(Heads(E)) |->
         IF k = 0 THEN Ahead(E, S) ELSE LET T == h[k - 1] IN T \union Ahead(E, T)]

LEMMA ImageFinite ==
  ASSUME NEW S, IsFiniteSet(S), NEW f, DOMAIN f = S, f = [x \in S |-> f[x]]
  PROVE  IsFiniteSet({f[x] : x \in S})
<1> DEFINE T == {f[x] : x \in S}
<1>1. f \in Surjection(S, T)
  BY DEF Surjection
<1> HIDE DEF T
<1>2. IsFiniteSet(T)
  BY <1>1, FS_Surjection
<1> QED
  BY <1>2 DEF T

LEMMA HeadCount ==
  ASSUME NEW E, IsFiniteSet(E)
  PROVE  IsFiniteSet(Heads(E)) /\ Cardinality(Heads(E)) \in Nat
<1> DEFINE f == [e \in E |-> e[2]]
<1>1. IsFiniteSet({f[e] : e \in E})
  BY ImageFinite
<1>2. Heads(E) = {f[e] : e \in E}
  BY DEF Heads
<1> QED
  BY <1>1, <1>2, FS_CardinalityType

LEMMA WaysExist ==
  ASSUME NEW E, IsFiniteSet(E), NEW S
  PROVE  \E h \in [0..Cardinality(Heads(E)) -> SUBSET Heads(E)] :
           Ways(h, E, S) /\ Reached(E, S) = h[Cardinality(Heads(E))]
<1> DEFINE N == Cardinality(Heads(E))
           D == SUBSET Heads(E)
           F == [T \in D |-> T \union Ahead(E, T)]
           W == CHOOSE h : Ways(h, E, S)
<1>1. Ahead(E, S) \in D /\ F \in [D -> D]
  BY DEF Ahead, Heads
<1>2. PICK h \in [0..N -> D] : Iterates(h, 0, N, Ahead(E, S), F)
  <2> HIDE DEF D, F, W
  <2>1. 0 \in Nat /\ 0 <= N
    BY HeadCount
  <2> QED
    BY <1>1, <2>1, HeadCount, IterationExists
<1>3. Ways(h, E, S)
  <2>1. ASSUME NEW k \in 0..N, k # 0 PROVE F[h[k - 1]] = h[k - 1] \union Ahead(E, h[k - 1])
    <3>1. h[k - 1] \in D
      BY <2>1, HeadCount
    <3> QED
      BY <3>1
  <2> HIDE DEF F
  <2>2. h = [k \in 0..N |-> IF k = 0 THEN Ahead(E, S) ELSE F[h[k - 1]]]
    BY <1>2 DEF Iterates
  <2>3. h = [k \in 0..N |-> IF k = 0 THEN Ahead(E, S) ELSE h[k - 1] \union Ahead(E, h[k - 1])]
    BY <2>1, <2>2
  <2> QED
    BY <2>3 DEF Ways
<1>4. Ways(W, E, S)
  BY <1>3
<1>5. Reached(E, S) = W[N]
  BY DEF Reached, Ways, Heads
<1>6. W \in [0..N -> SUBSET Heads(E)]
  <2>1. W = [k \in 0..N |-> W[k]]
    BY <1>4 DEF Ways
  <2> DEFINE T == {k \in Nat : k \in 0..N => W[k] \in SUBSET Heads(E)}
  <2> HIDE DEF W
  <2>2. 0 \in T
    BY <1>4, HeadCount DEF Ways, Ahead, Heads
  <2>3. ASSUME NEW k \in Nat, k \in T PROVE k + 1 \in T
    <3>1. CASE k + 1 \in 0..N
      <4>1. k \in 0..N /\ (k + 1) - 1 = k /\ k + 1 # 0
        BY <3>1, HeadCount
      <4>2. W[k + 1] = W[k] \union Ahead(E, W[k])
        BY <1>4, <3>1, <4>1 DEF Ways
      <4> QED
        BY <2>3, <4>1, <4>2 DEF Ahead, Heads
    <3>2. CASE k + 1 \notin 0..N
      BY <3>2
    <3> QED
      BY <3>1, <3>2
  <2> HIDE DEF T
  <2>4. Nat \subseteq T
    BY <2>2, <2>3, NatSetInduction
  <2>5. \A k \in 0..N : W[k] \in SUBSET Heads(E)
    BY <2>4, HeadCount DEF T
  <2> QED
    BY <2>1, <2>5
<1> QED
  BY <1>4, <1>5, <1>6

LEMMA ReachedLeast ==
  ASSUME NEW E, IsFiniteSet(E), NEW S, NEW T, Ahead(E, S) \subseteq T,
         Ahead(E, T) \subseteq T
  PROVE  Reached(E, S) \subseteq T
<1> DEFINE N == Cardinality(Heads(E))
<1>1. PICK h \in [0..N -> SUBSET Heads(E)] : Ways(h, E, S) /\ Reached(E, S) = h[N]
  BY WaysExist
<1> DEFINE K == {k \in Nat : k \in 0..N => h[k] \subseteq T}
<1>2. 0 \in K
  BY <1>1, HeadCount DEF Ways
<1>3. ASSUME NEW k \in Nat, k \in K PROVE k + 1 \in K
  <2>1. CASE k + 1 \in 0..N
    <3>1. k \in 0..N /\ (k + 1) - 1 = k /\ k + 1 # 0
      BY <2>1, HeadCount
    <3>2. h[k + 1] = h[k] \union Ahead(E, h[k])
      BY <1>1, <2>1, <3>1 DEF Ways
    <3>3. Ahead(E, h[k]) \subseteq T
      BY <1>3, <3>1 DEF Ahead
    <3> QED
      BY <1>3, <3>1, <3>2, <3>3
  <2>2. CASE k + 1 \notin 0..N
    BY <2>2
  <2> QED
    BY <2>1, <2>2
<1> HIDE DEF K
<1>4. N \in K
  BY <1>2, <1>3, NatSetInduction, HeadCount
<1> QED
  BY <1>1, <1>4, HeadCount DEF K

(* After as many steps as there are heads nothing is left to be added.       *)
LEMMA ReachedClosed ==
  ASSUME NEW E, IsFiniteSet(E), NEW S
  PROVE  /\ Reached(E, S) \subseteq Heads(E)
         /\ Ahead(E, S) \subseteq Reached(E, S)
         /\ Ahead(E, Reached(E, S)) \subseteq Reached(E, S)
<1> DEFINE N == Cardinality(Heads(E))
<1>1. PICK h \in [0..N -> SUBSET Heads(E)] : Ways(h, E, S) /\ Reached(E, S) = h[N]
  BY WaysExist
<1>2. ASSUME NEW k \in 0..N, k # 0
      PROVE  k - 1 \in 0..N /\ h[k] = h[k - 1] \union Ahead(E, h[k - 1])
  <2>1. k - 1 \in 0..N /\ k \in 0..N
    BY <1>2, HeadCount
  <2>2. h[k] = IF k = 0 THEN Ahead(E, S) ELSE LET T == h[k - 1] IN T \union Ahead(E, T)
    BY <1>1, <2>1 DEF Ways
  <2> QED
    BY <1>2, <2>1, <2>2
<1>3. \A k \in 0..N : h[k] \in SUBSET Heads(E) /\ IsFiniteSet(h[k]) /\ Cardinality(h[k]) \in Nat
  BY HeadCount, FS_Subset, FS_CardinalityType
<1> DEFINE K == {k \in Nat : k \in 0..N => /\ Ahead(E, S) \subseteq h[k]
                                           /\ Ahead(E, h[k]) \subseteq h[k] \/ Cardinality(h[k]) >= k}
<1>4. 0 \in K
  <2>1. 0 \in 0..N
    BY HeadCount
  <2>2. h[0] = Ahead(E, S)
    BY <1>1, <2>1 DEF Ways
  <2>3. Cardinality(h[0]) >= 0
    BY <1>3, <2>1
  <2> QED
    BY <2>2, <2>3
<1>5. ASSUME NEW k \in Nat, k \in K PROVE k + 1 \in K
  <2> SUFFICES ASSUME k + 1 \in 0..N PROVE k + 1 \in K
    OBVIOUS
  <2>1. k \in 0..N /\ (k + 1) - 1 = k /\ k + 1 # 0
    BY HeadCount
  <2>2. h[k + 1] = h[k] \union Ahead(E, h[k])
    BY <1>2, <2>1
  <2>3. CASE Ahead(E, h[k]) \subseteq h[k]
    <3>1. h[k + 1] = h[k]
      BY <2>2, <2>3
    <3>2. Ahead(E, S) \subseteq h[k + 1]
      <4>1. Ahead(E, S) \subseteq h[k]
        BY <1>5, <2>1
      <4> QED
        BY <3>1, <4>1
    <3>3. Ahead(E, h[k + 1]) \subseteq h[k + 1]
      BY <2>3, <3>1
    <3> QED
      BY <3>2, <3>3
  <2>4. CASE ~(Ahead(E, h[k]) \subseteq h[k])
    <3>1. h[k] \in SUBSET h[k + 1] /\ h[k] # h[k + 1]
      BY <2>2, <2>4
    <3>2. Cardinality(h[k]) <= Cardinality(h[k + 1]) /\ Cardinality(h[k]) # Cardinality(h[k + 1])
      BY <1>3, <3>1, FS_Subset
    <3>3. Cardinality(h[k]) \in Nat /\ Cardinality(h[k + 1]) \in Nat /\ Cardinality(h[k]) >= k
      BY <1>3, <1>5, <2>1, <2>4
    <3>4. Cardinality(h[k + 1]) >= k + 1
      BY <3>2, <3>3
    <3> QED
      BY <1>5, <2>1, <3>1, <3>4
  <2> QED
    BY <2>3, <2>4
<1>6. N \in K
  <2> HIDE DEF K
  <2> QED
    BY <1>4, <1>5, NatSetInduction, HeadCount
<1> HIDE DEF K
<1>7. Ahead(E, h[N]) \subseteq h[N]
  <2>1. N \in 0..N
    BY HeadCount
  <2>2. CASE Cardinality(h[N]) >= N
    <3>1. h[N] \in SUBSET Heads(E) /\ Cardinality(h[N]) \in Nat
      BY <1>3, <2>1
    <3>2. Cardinality(h[N]) <= N
      BY <3>1, HeadCount, FS_Subset
    <3>3. Cardinality(h[N]) = N
      BY <2>2, <3>1, <3>2, HeadCount
    <3>4. h[N] = Heads(E)
      BY <3>1, <3>3, HeadCount, FS_Subset
    <3> QED
      BY <3>4 DEF Ahead, Heads
  <2> QED
    BY <1>6, <2>1, <2>2 DEF K
<1>8. N \in 0..N /\ N \in Nat
  BY HeadCount
<1>9. Ahead(E, S) \subseteq h[N]
  BY <1>6, <1>8 DEF K
<1>10. h[N] \subseteq Heads(E)
  BY <1>3, <1>8
<1> QED
  BY <1>1, <1>7, <1>9, <1>10

LEMMA NodeEdges ==
  /\ Cardinality(Node) \in Nat
  /\ \A E : E \subseteq Node \X Node => IsFiniteSet(E) /\ Heads(E) \subseteq Node
<1>1. IsFiniteSet(Node \X Node) /\ Cardinality(Node) \in Nat
  BY GraphAssumption, FS_Product, FS_CardinalityType
<1>2. ASSUME NEW E, E \subseteq Node \X Node PROVE Heads(E) \subseteq Node
  BY <1>2 DEF Heads
<1> QED
  BY <1>1, <1>2, FS_Subset

LEMMA ReachedNodes ==
  ASSUME NEW E, E \subseteq Node \X Node, NEW S
  PROVE  Reached(E, S) \subseteq Node
BY NodeEdges, ReachedClosed

LEMMA ReachedStep ==
  ASSUME NEW E, E \subseteq Node \X Node, NEW S, NEW e \in E, e[1] \in S \union Reached(E, S)
  PROVE  e[2] \in Reached(E, S)
BY ReachedClosed, NodeEdges DEF Ahead

LEMMA ReachedOn ==
  ASSUME NEW E, E \subseteq Node \X Node, NEW S, NEW n \in Reached(E, S)
  PROVE  Reached(E, {n}) \subseteq Reached(E, S)
<1>1. Ahead(E, Reached(E, S)) \subseteq Reached(E, S)
  BY ReachedClosed, NodeEdges
<1>2. Ahead(E, {n}) \subseteq Reached(E, S)
  BY <1>1 DEF Ahead
<1> QED
  BY <1>1, <1>2, ReachedLeast, NodeEdges

(* Edges that other edges make up for may be replaced by them.               *)
LEMMA ReachedInstead ==
  ASSUME NEW E, E \subseteq Node \X Node, NEW F, F \subseteq Node \X Node, NEW n,
         \A e \in E : e[2] \in Reached(F, {e[1]})
  PROVE  Reached(E, {n}) \subseteq Reached(F, {n})
<1>1. Ahead(E, {n}) \subseteq Reached(F, {n})
  BY DEF Ahead
<1>2. Ahead(E, Reached(F, {n})) \subseteq Reached(F, {n})
  <2>1. ASSUME NEW e \in E, e[1] \in Reached(F, {n}) PROVE e[2] \in Reached(F, {n})
    <3>1. Reached(F, {e[1]}) \subseteq Reached(F, {n})
      BY <2>1, ReachedOn
    <3> QED
      BY <3>1
  <2> QED
    BY <2>1 DEF Ahead
<1> QED
  BY <1>1, <1>2, ReachedLeast, NodeEdges

LEMMA ReachedWider ==
  ASSUME NEW F, F \subseteq Node \X Node, NEW E, E \subseteq F, NEW n
  PROVE  Reached(E, {n}) \subseteq Reached(F, {n})
<1>1. ASSUME NEW e \in E PROVE e[2] \in Reached(F, {e[1]})
  BY ReachedStep
<1> QED
  BY <1>1, ReachedInstead
-------------------------------------------------------------------------------
(* The control flow after the calls have been connected.                     *)
Back(g)       == {Flow(x[2], x[3].to, {x[1]}) : x \in Routed(g)}
Cut(g)        == {x[3] : x \in Routed(g)}
JoinedFlow(g) == (g.flow \union Into(g) \union Back(g)) \ Cut(g)

(* The pairs of kinds of nodes tell calls, returns and what is cut apart.    *)
LEMMA CutFacts ==
  ASSUME NEW g, NEW r \in Cut(g)
  PROVE  \E c \in Invoked, e \in Node :
           /\ r \in g.flow /\ r.from = c[1] /\ Kind[r.to] # Entry
           /\ Leaves(g, c[2], e) /\ Flow(e, r.to, {c}) \in Back(g)
BY DEF Back, Cut, Routed, Following

LEMMA IntoFacts ==
  ASSUME NEW g, NEW r \in Into(g)
  PROVE  /\ <<r.from, r.to>> \in Invoked /\ r = Flow(r.from, r.to, {})
         /\ Kind[r.to] = Entry /\ r \notin Cut(g)
<1>1. PICK c \in Invoked : r = Flow(c[1], c[2], {})
  BY DEF Into
<1>2. c = <<c[1], c[2]>> /\ Kind[c[2]] = Entry
  BY DEF Invoked
<1>3. r.from = c[1] /\ r.to = c[2]
  BY <1>1 DEF Flow
<1> QED
  BY <1>1, <1>2, <1>3, CutFacts

LEMMA BackFacts ==
  ASSUME NEW g, NEW r \in Back(g)
  PROVE  Kind[r.from] = Exit /\ r \notin Cut(g)
<1>1. PICK x \in Routed(g) : r = Flow(x[2], x[3].to, {x[1]})
  BY DEF Back
<1>2. r.from = x[2] /\ Kind[x[2]] = Exit
  BY <1>1 DEF Flow, Routed, Leaves
<1>3. ASSUME r \in Cut(g) PROVE FALSE
  <2>1. PICK c \in Invoked : r.from = c[1]
    BY <1>3, CutFacts
  <2> QED
    BY <1>2, <2>1 DEF Invoked, Exit, Expression
<1> QED
  BY <1>2, <1>3

LEMMA InvokedStay ==
  ASSUME NEW g, NEW c \in Invoked
  PROVE  c \in Pairs(JoinedFlow(g))
<1>1. c = <<c[1], c[2]>> /\ Kind[c[2]] = Entry
  BY DEF Invoked
<1>2. CASE c \in Pairs(g.flow)
  <2>1. PICK r \in g.flow : c = <<r.from, r.to>>
    BY <1>2 DEF Pairs
  <2>2. r \notin Cut(g)
    BY <1>1, <2>1, CutFacts
  <2> QED
    BY <2>1, <2>2 DEF Pairs, JoinedFlow
<1>3. CASE c \notin Pairs(g.flow)
  <2>1. Flow(c[1], c[2], {}) \in Into(g)
    BY <1>3 DEF Into
  <2>2. Flow(c[1], c[2], {}) \in JoinedFlow(g)
    BY <2>1, IntoFacts DEF JoinedFlow
  <2>3. Flow(c[1], c[2], {}).from = c[1] /\ Flow(c[1], c[2], {}).to = c[2]
    BY DEF Flow
  <2> QED
    BY <1>1, <2>2, <2>3 DEF Pairs
<1> QED
  BY <1>2, <1>3

(* Connecting what is connected changes nothing.                             *)
LEMMA JoinedOnce ==
  ASSUME NEW g, NEW h, h.flow = JoinedFlow(g)
  PROVE  Into(h) = {} /\ Routed(h) = {}
<1>1. Into(h) = {}
  BY InvokedStay DEF Into
<1>2. ASSUME NEW x \in Routed(h) PROVE FALSE
  <2> DEFINE c == x[1]
             e == x[2]
             r == x[3]
  <2>1. /\ c \in Invoked /\ e \in Node /\ r \in h.flow /\ r.from = c[1]
        /\ Kind[r.to] # Entry /\ Leaves(h, c[2], e) /\ x = <<c, e, r>>
    BY DEF Routed, Following
  <2>2. r \in g.flow
    <3>1. Kind[c[1]] # Exit
      BY <2>1 DEF Invoked, Exit, Expression
    <3> QED
      BY <2>1, <3>1, IntoFacts, BackFacts DEF JoinedFlow
  <2>3. PICK l \in Statements(Fn[c[2]]) : <<l, e>> \in Pairs(h.flow) \union Dom
    BY <1>1, <2>1 DEF Leaves
  <2>4. <<l, e>> \in Pairs(g.flow \union Into(g)) \union Dom
    <3>1. ASSUME <<l, e>> \in Pairs(h.flow) PROVE <<l, e>> \in Pairs(g.flow \union Into(g))
      <4>1. PICK q \in h.flow : q.from = l /\ q.to = e
        BY <3>1 DEF Pairs
      <4>2. Kind[l] # Exit
        BY DEF Statements
      <4>3. q \in g.flow \union Into(g)
        BY <4>1, <4>2, BackFacts DEF JoinedFlow
      <4> QED
        BY <4>1, <4>3 DEF Pairs
    <3> QED
      BY <2>3, <3>1
  <2>5. x \in Routed(g)
    BY <2>1, <2>2, <2>4 DEF Routed, Following, Leaves
  <2> QED
    BY <2>1, <2>5 DEF Cut, JoinedFlow
<1> QED
  BY <1>1, <1>2
-------------------------------------------------------------------------------
(* The control flow as it is imported, and an exit of a function in it.      *)
Start         == {Flow(e[1], e[2], {}) : e \in Flows}
Leaving(f, e) == Kind[e] = Exit /\ \E l \in Statements(Fn[f]) : <<l, e>> \in Flows \union Dom

LEMMA StartFacts ==
  /\ Pairs(Start) = Flows
  /\ \A e \in Flows : e \in Node \X Node /\ Flow(e[1], e[2], {}) \in Start
<1>1. \A e \in Flows : e \in Node \X Node /\ e = <<e[1], e[2]>>
  BY GraphAssumption
<1>2. \A r \in Start : \E e \in Flows : r.from = e[1] /\ r.to = e[2]
  BY DEF Start, Flow
<1>3. \A e \in Flows : Flow(e[1], e[2], {}).from = e[1] /\ Flow(e[1], e[2], {}).to = e[2]
  BY DEF Flow
<1>4. \A e \in Flows : Flow(e[1], e[2], {}) \in Start
  BY DEF Start
<1>5. Pairs(Start) \subseteq Flows
  BY <1>1, <1>2 DEF Pairs
<1>6. Flows \subseteq Pairs(Start)
  <2>1. ASSUME NEW e \in Flows PROVE \E r \in Start : e = <<r.from, r.to>>
    BY <1>1, <1>3, <1>4
  <2> QED
    BY <2>1 DEF Pairs
<1> QED
  BY <1>1, <1>4, <1>5, <1>6

LEMMA LeavesFacts ==
  ASSUME NEW g, g.flow = Start, NEW f, NEW e, Leaves(g, f, e)
  PROVE  Leaving(f, e)
<1>1. PICK l \in Statements(Fn[f]) : <<l, e>> \in Pairs(g.flow \union Into(g)) \union Dom
  BY DEF Leaves
<1>2. Kind[e] = Exit
  BY DEF Leaves
<1>3. ASSUME <<l, e>> \in Pairs(g.flow \union Into(g)) PROVE <<l, e>> \in Flows
  <2>1. PICK r \in g.flow \union Into(g) : r.from = l /\ r.to = e
    BY <1>3 DEF Pairs
  <2>2. r \in g.flow
    BY <1>2, <2>1, IntoFacts DEF Entry, Exit
  <2>3. <<l, e>> \in Pairs(Start)
    BY <2>1, <2>2 DEF Pairs
  <2> QED
    BY <2>3, StartFacts
<1> QED
  BY <1>1, <1>2, <1>3 DEF Leaving

LEMMA JoinedType ==
  ASSUME NEW g, g.flow = Start
  PROVE  Pairs(JoinedFlow(g)) \subseteq Node \X Node
<1>1. \A r \in Start : r.from \in Node /\ r.to \in Node
  BY GraphAssumption DEF Start, Flow
<1>2. \A r \in Into(g) : r.from \in Node /\ r.to \in Node
  BY IntoFacts DEF Invoked
<1>3. ASSUME NEW r \in Back(g) PROVE r.from \in Node /\ r.to \in Node
  <2>1. PICK x \in Routed(g) : r = Flow(x[2], x[3].to, {x[1]})
    BY <1>3 DEF Back
  <2>2. x[2] \in Node /\ x[3] \in Start
    BY DEF Routed
  <2> QED
    BY <1>1, <2>1, <2>2 DEF Flow
<1>4. \A r \in JoinedFlow(g) : r.from \in Node /\ r.to \in Node
  BY <1>1, <1>2, <1>3 DEF JoinedFlow
<1> QED
  BY <1>4 DEF Pairs

(* An edge is there, or made up for, if the functions its node calls return. *)
LEMMA EdgeKept ==
  ASSUME NEW g, g.flow = Start, NEW x \in Flows,
         \A d \in Invoked, e \in Node :
           d[1] = x[1] /\ Leaving(d[2], e) => e \in Reached(Pairs(JoinedFlow(g)), {d[2]})
  PROVE  x[2] \in Reached(Pairs(JoinedFlow(g)), {x[1]})
<1> DEFINE r == Flow(x[1], x[2], {})
           F == Pairs(JoinedFlow(g))
<1>0. F \subseteq Node \X Node
  BY JoinedType
<1>1. r \in g.flow /\ r.from = x[1] /\ r.to = x[2]
  BY StartFacts DEF Flow
<1>2. CASE r \notin Cut(g)
  <2>1. <<x[1], x[2]>> \in F
    BY <1>1, <1>2 DEF Pairs, JoinedFlow
  <2> QED
    BY <1>0, <2>1, ReachedStep
<1>3. CASE r \in Cut(g)
  <2>1. PICK c \in Invoked, e \in Node :
          /\ x[1] = c[1] /\ Leaves(g, c[2], e) /\ Flow(e, x[2], {c}) \in Back(g)
    BY <1>1, <1>3, CutFacts
  <2>2. <<c[1], c[2]>> \in F
    BY InvokedStay DEF Invoked
  <2>3. <<e, x[2]>> \in F
    <3>1. Flow(e, x[2], {c}) \in JoinedFlow(g)
      BY <2>1, BackFacts DEF JoinedFlow
    <3>2. Flow(e, x[2], {c}).from = e /\ Flow(e, x[2], {c}).to = x[2]
      BY DEF Flow
    <3> QED
      BY <3>1, <3>2 DEF Pairs
  <2>4. e \in Reached(F, {c[2]})
    BY <2>1, LeavesFacts
  <2> HIDE DEF F, r
  <2>5. c[2] \in Reached(F, {x[1]})
    BY <1>0, <2>1, <2>2, ReachedStep
  <2>6. e \in Reached(F, {x[1]})
    BY <1>0, <2>4, <2>5, ReachedOn
  <2>7. x[2] \in Reached(F, {x[1]})
    BY <1>0, <2>3, <2>6, ReachedStep
  <2> QED
    BY <2>7 DEF F
<1> QED
  BY <1>2, <1>3

(* From an entry one gets to what leaves the function, whatever is called on *)
(* the way: otherwise there would be one of least rank.                      *)
LEMMA ExitsKept ==
  ASSUME NEW g, g.flow = Start, Returning, NEW c \in Invoked, NEW e \in Node, Leaving(c[2], e)
  PROVE  e \in Reached(Pairs(JoinedFlow(g)), {c[2]})
<1> DEFINE F == Pairs(JoinedFlow(g))
           entries == {n \in Node : Kind[n] = Entry}
           Simple(rank, d) == {x \in Flows : \A b \in Invoked : b[1] = x[1] => rank[b[2]] < rank[d[2]]}
<1>0. F \subseteq Node \X Node /\ Flows \subseteq Node \X Node
  BY JoinedType, GraphAssumption
<1>1. PICK rank \in [entries -> 0..Cardinality(Node)] : \A d \in Invoked, x \in Node :
        Leaving(d[2], x) => x \in Reached(Simple(rank, d), {d[2]})
  BY DEF Returning, Leaving
<1>2. \A d \in Invoked : rank[d[2]] \in Nat
  BY NodeEdges DEF Invoked
<1> DEFINE B == {k \in Nat : \E d \in Invoked, x \in Node :
                   rank[d[2]] = k /\ Leaving(d[2], x) /\ x \notin Reached(F, {d[2]})}
<1> HIDE DEF F
<1> SUFFICES ASSUME e \notin Reached(F, {c[2]}) PROVE FALSE
  BY DEF F
<1>3. rank[c[2]] \in B
  BY <1>2
<1>4. PICK k \in B : \A m \in B : k <= m
  <2>1. B \in SUBSET Nat /\ B # {}
    BY <1>3
  <2> HIDE DEF B
  <2> QED
    BY <2>1, NatLeast
<1>5. PICK d \in Invoked, x \in Node :
        rank[d[2]] = k /\ Leaving(d[2], x) /\ x \notin Reached(F, {d[2]})
  OBVIOUS
<1>6. ASSUME NEW y \in Simple(rank, d) PROVE y[2] \in Reached(F, {y[1]})
  <2>1. ASSUME NEW b \in Invoked, NEW z \in Node, b[1] = y[1], Leaving(b[2], z)
        PROVE  z \in Reached(F, {b[2]})
    <3>1. rank[b[2]] < k /\ rank[b[2]] \in Nat /\ k \in Nat
      BY <1>2, <1>5, <1>6, <2>1
    <3>2. rank[b[2]] \notin B
      <4> HIDE DEF B
      <4> QED
        BY <1>4, <3>1
    <3> QED
      BY <2>1, <3>1, <3>2
  <2>2. y \in Flows
    OBVIOUS
  <2> QED
    BY <2>1, <2>2, EdgeKept DEF F
<1>7. Reached(Simple(rank, d), {d[2]}) \subseteq Reached(F, {d[2]})
  <2>1. Simple(rank, d) \subseteq Node \X Node
    BY <1>0
  <2> HIDE DEF Simple
  <2> QED
    BY <1>0, <1>6, <2>1, ReachedInstead
<1> QED
  BY <1>1, <1>5, <1>7

LEMMA JoiningKeeps ==
  ASSUME NEW g, g.flow = Start, Returning, NEW n
  PROVE  Reached(Flows, {n}) \subseteq Reached(Pairs(JoinedFlow(g)), {n})
<1>1. \A x \in Flows : x[2] \in Reached(Pairs(JoinedFlow(g)), {x[1]})
  BY EdgeKept, ExitsKept
<1> QED
  BY <1>1, ReachedInstead, JoinedType, GraphAssumption
-------------------------------------------------------------------------------
(* What the relationships of the database are made of.                       *)
Sizes   == {0} \union {a[3] : a \in Arrays}
Values  == Variables \union {None}
FlowSet == [from : Node, to : Node, call : SUBSET Invoked]
DataSet == [from : Node, to : Node, var : Values, src : Values, size : Sizes]
DefUse  == SUBSET (Node \X Variables)
Graphs  == [flow : SUBSET FlowSet, shortcut : SUBSET (Node \X Node), def : DefUse, use : DefUse,
            reach : SUBSET DataSet, sinks : SUBSET Node]

LEMMA FlowTyped ==
  ASSUME NEW a \in Node, NEW b \in Node, NEW c \in SUBSET Invoked
  PROVE  Flow(a, b, c) \in FlowSet
BY DEF Flow, FlowSet

LEMMA DataTyped ==
  ASSUME NEW a \in Node, NEW b \in Node, NEW v \in Values
  PROVE  Data(a, b, v, None, 0) \in DataSet
BY DEF Data, DataSet, Values, Sizes

LEMMA ValueFacts ==
  /\ None \in Values /\ Variables \subseteq Values /\ 0 \in Sizes
  /\ \A a \in Arrays : a[3] \in Sizes
  /\ \A v \in Variables : v[2] \in Symbol /\ <<Plain, v[2]>> \in Variables
                          /\ <<Pointed, v[2]>> \in Variables /\ <<Address, v[2]>> \in Variables
<1>1. None \in Values /\ Variables \subseteq Values /\ 0 \in Sizes
  BY DEF Values, Sizes
<1>2. \A a \in Arrays : a[3] \in Sizes
  BY DEF Sizes
<1>3. ASSUME NEW v \in Variables
      PROVE  /\ v[2] \in Symbol /\ <<Plain, v[2]>> \in Variables
             /\ <<Pointed, v[2]>> \in Variables /\ <<Address, v[2]>> \in Variables
  <2>1. v[2] \in Symbol
    BY DEF Variables
  <2> QED
    BY <2>1 DEF Variables
<1> QED
  BY <1>1, <1>2, <1>3

LEMMA PairsTyped ==
  ASSUME NEW g \in Graphs
  PROVE  Pairs(g.flow) \subseteq Node \X Node /\ Pairs(g.reach) \subseteq Node \X Node
BY DEF Graphs, FlowSet, DataSet, Pairs

LEMMA MergeFacts ==
  ASSUME NEW R, NEW new
  PROVE  /\ R \subseteq Merge(R, new) /\ Merge(R, new) \subseteq R \union new
         /\ Merge(Merge(R, new), new) = Merge(R, new)
         /\ Merge(R, {}) = R
BY DEF Merge

(* Commands that set sizes along the data flow.                              *)
LEMMA SizedTyped ==
  ASSUME NEW g \in Graphs, NEW rows, rows \subseteq (SUBSET g.reach) \X Sizes \X Values,
         NEW h \in Sized(g, rows)
  PROVE  h \in Graphs /\ h.flow = g.flow /\ Pairs(h.reach) \subseteq Pairs(g.reach)
<1> DEFINE hit == UNION {x[1] : x \in rows}
           Rows(r) == {x \in rows : r \in x[1]}
           Set(f, r) == Resized(r, f[r])
<1>1. PICK f \in [hit -> rows] :
        h = [g EXCEPT !.reach = (@ \ hit) \union {Set(f, r) : r \in hit}]
  BY DEF Sized
<1>2. hit \subseteq g.reach /\ g.reach \subseteq DataSet
  BY DEF Graphs
<1>3. ASSUME NEW r \in hit PROVE Set(f, r) \in DataSet /\ Set(f, r).from = r.from /\ Set(f, r).to = r.to
  <2>1. f[r][2] \in Sizes /\ f[r][3] \in Values /\ r \in DataSet
    BY <1>2
  <2> HIDE DEF hit
  <2> QED
    BY <2>1 DEF DataSet, Resized
<1> DEFINE new == (g.reach \ hit) \union {Set(f, r) : r \in hit}
<1> HIDE DEF hit, Set
<1>4. new \subseteq DataSet
  BY <1>2, <1>3
<1>5. Pairs(new) \subseteq Pairs(g.reach)
  BY <1>2, <1>3 DEF Pairs
<1>6. h = [g EXCEPT !.reach = new]
  BY <1>1
<1> HIDE DEF new
<1>7. h \in Graphs /\ h.flow = g.flow /\ h.reach = new
  BY <1>4, <1>6 DEF Graphs
<1> QED
  BY <1>5, <1>7
-------------------------------------------------------------------------------
(* What each command leaves of the graph: its types, the control flow but    *)
(* for the first command on calls, and at first no data flow that is new.    *)
LEMMA SubReach ==
  ASSUME NEW g \in Graphs, NEW R, R \subseteq g.reach
  PROVE  R \subseteq DataSet /\ Pairs(R) \subseteq Pairs(g.reach)
BY DEF Graphs, Pairs

LEMMA FilterTyped ==
  ASSUME NEW g \in Graphs, NEW h \in NoNull(g) \union NoFlowToExit(g) \union NoSpuriousDef(g)
  PROVE  h \in Graphs /\ h.flow = g.flow /\ Pairs(h.reach) \subseteq Pairs(g.reach)
<1>1. CASE h \in NoNull(g)
  <2> DEFINE R == {r \in g.reach : r.var # <<Plain, "NULL">>}
             D == {d \in g.def : d[2] # <<Plain, "NULL">>}
  <2>1. h = [g EXCEPT !.reach = R, !.def = D]
    BY <1>1 DEF NoNull
  <2>2. R \subseteq g.reach /\ D \subseteq g.def
    OBVIOUS
  <2> HIDE DEF R, D
  <2>3. h \in Graphs /\ h.flow = g.flow /\ h.reach = R
    BY <2>1, <2>2, SubReach DEF Graphs, DefUse
  <2> QED
    BY <2>2, <2>3, SubReach
<1>2. CASE h \in NoFlowToExit(g)
  <2> DEFINE R == {r \in g.reach : Kind[r.to] # Exit}
  <2>1. h = [g EXCEPT !.reach = R]
    BY <1>2 DEF NoFlowToExit
  <2>2. R \subseteq g.reach
    OBVIOUS
  <2> HIDE DEF R
  <2>3. h \in Graphs /\ h.flow = g.flow /\ h.reach = R
    BY <2>1, <2>2, SubReach DEF Graphs
  <2> QED
    BY <2>2, <2>3, SubReach
<1>3. CASE h \in NoSpuriousDef(g)
  <2>1. h = [g EXCEPT !.def = {d \in @ : d \notin Spurious}]
    BY <1>3 DEF NoSpuriousDef
  <2> QED
    BY <2>1 DEF Graphs, DefUse
<1> QED
  BY <1>1, <1>2, <1>3

LEMMA CopiesTyped ==
  ASSUME NEW g \in Graphs, NEW h \in CopiesDefine(g)
  PROVE  h \in Graphs /\ h.flow = g.flow /\ Pairs(h.reach) \subseteq Pairs(g.reach)
<1> DEFINE C == {c \in Copies : c \in g.use /\ Kind[c[1]] \in Usable}
<1>1. h = [g EXCEPT !.def = @ \union C]
  BY DEF CopiesDefine
<1>2. C \in DefUse
  BY GraphAssumption DEF DefUse
<1> HIDE DEF C
<1> QED
  BY <1>1, <1>2 DEF Graphs, DefUse

LEMMA SizesTyped ==
  ASSUME NEW g \in Graphs, NEW h \in SizeOfArrays(g) \union SizeOfAssigned(g)
  PROVE  h \in Graphs /\ h.flow = g.flow /\ Pairs(h.reach) \subseteq Pairs(g.reach)
<1>0. \A n, v : Along(g, n, v) \in SUBSET g.reach
  BY DEF Along
<1>1. CASE h \in SizeOfArrays(g)
  <2> DEFINE rows == {<<Along(g, a[1], a[2]), a[3], None>> : a \in Arrays}
  <2>1. rows \subseteq (SUBSET g.reach) \X Sizes \X Values
    BY <1>0, ValueFacts
  <2>2. h \in Sized(g, rows)
    BY <1>1 DEF SizeOfArrays
  <2> HIDE DEF rows
  <2> QED
    BY <2>1, <2>2, SizedTyped
<1>2. CASE h \in SizeOfAssigned(g)
  <2> DEFINE T == {t \in Assigns \X g.reach \X g.def :
                     /\ t[2].to = t[1] /\ t[2].size # 0 /\ <<t[1], t[2].var>> \in g.use
                     /\ t[3][1] = t[1]}
             rows == {<<Along(g, x[1], x[3][2]), x[2].size, x[2].var>> : x \in T}
  <2>1. \A x \in T : x[2].size \in Sizes /\ x[2].var \in Values
    BY DEF Graphs, DataSet
  <2>2. h \in Sized(g, rows)
    BY <1>2 DEF SizeOfAssigned
  <2> HIDE DEF T
  <2>3. rows \subseteq (SUBSET g.reach) \X Sizes \X Values
    BY <1>0, <2>1
  <2> HIDE DEF rows
  <2> QED
    BY <2>2, <2>3, SizedTyped
<1> QED
  BY <1>1, <1>2

LEMMA ConnectTyped ==
  ASSUME NEW g \in Graphs, NEW h \in Connect(g)
  PROVE  h \in Graphs /\ h.flow = JoinedFlow(g)
<1> DEFINE S == {<<x[1][1], x[3].to>> : x \in Routed(g)}
<1>1. h = [g EXCEPT !.flow = JoinedFlow(g), !.shortcut = @ \union S]
  BY DEF Connect, JoinedFlow, Back, Cut
<1>2. ASSUME NEW r \in Into(g) PROVE r \in FlowSet
  <2>1. <<r.from, r.to>> \in Node \X Node /\ r = Flow(r.from, r.to, {})
    <3>1. Invoked \subseteq Node \X Node
      BY DEF Invoked
    <3> QED
      BY <3>1, IntoFacts
  <2> QED
    BY <2>1, FlowTyped
<1>3. ASSUME NEW x \in Routed(g)
      PROVE  Flow(x[2], x[3].to, {x[1]}) \in FlowSet /\ <<x[1][1], x[3].to>> \in Node \X Node
  <2>1. x[1] \in Invoked /\ x[2] \in Node /\ x[3] \in g.flow
    BY DEF Routed
  <2>2. x[3].to \in Node /\ x[1][1] \in Node
    BY <2>1 DEF Graphs, FlowSet, Invoked
  <2> QED
    BY <2>1, <2>2, FlowTyped
<1>4. JoinedFlow(g) \subseteq FlowSet /\ S \subseteq Node \X Node
  BY <1>2, <1>3 DEF JoinedFlow, Back, Graphs
<1> HIDE DEF S
<1> QED
  BY <1>1, <1>4 DEF Graphs

LEMMA ConnectTwice ==
  ASSUME NEW g \in Graphs, NEW h \in Connect(g)
  PROVE  Connect(h) = {h}
<1>1. h \in Graphs /\ Into(h) = {} /\ Routed(h) = {}
  BY ConnectTyped, JoinedOnce
<1> DEFINE S == {<<x[1][1], x[3].to>> : x \in Routed(h)}
<1>2. JoinedFlow(h) = h.flow /\ h.shortcut \union S = h.shortcut
  BY <1>1 DEF JoinedFlow, Back, Cut
<1>3. Connect(h) = {[h EXCEPT !.flow = JoinedFlow(h), !.shortcut = h.shortcut \union S]}
  BY DEF Connect, JoinedFlow, Back, Cut
<1> HIDE DEF S
<1>4. [h EXCEPT !.flow = h.flow, !.shortcut = h.shortcut] = h
  BY <1>1 DEF Graphs
<1> QED
  BY <1>2, <1>3, <1>4

(* Commands that add data flow which depends on what they leave alone.       *)
Added(g, new) == [g EXCEPT !.reach = Merge(@, new)]

LEMMA AddedTyped ==
  ASSUME NEW g \in Graphs, NEW new, new \subseteq DataSet, NEW h, h = Added(g, new)
  PROVE  /\ h \in Graphs /\ h.flow = g.flow /\ h.def = g.def /\ h.use = g.use
         /\ Added(h, new) = h
<1>0. h = [g EXCEPT !.reach = Merge(@, new)]
  BY DEF Added
<1>1. h.reach = Merge(g.reach, new)
  BY <1>0 DEF Graphs
<1>2. Merge(h.reach, new) = h.reach
  BY <1>1, MergeFacts
<1>3. Merge(g.reach, new) \subseteq DataSet
  <2>1. Merge(g.reach, new) \subseteq g.reach \union new
    BY MergeFacts
  <2> QED
    BY <2>1 DEF Graphs
<1>4. h \in Graphs /\ h.flow = g.flow /\ h.def = g.def /\ h.use = g.use
  BY <1>0, <1>3 DEF Graphs
<1>5. [h EXCEPT !.reach = h.reach] = h
  BY <1>4 DEF Graphs
<1> QED
  BY <1>2, <1>4, <1>5 DEF Added

GlobalFlow(g) ==
  LET E        == Pairs(g.flow)
      local    == {d[2] : d \in {x \in g.def : Kind[x[1]] \in {Decl, "Parameter"}}}
      start    == {d \in g.def : /\ d[1] \in Reached(E, Main)
                                 /\ d[2][1] # Pointed /\ d[2] \notin local}
      Users(d) == {n \in Reached({e \in E : e[1] = d[1] \/ <<e[1], d[2]>> \notin g.def}, {d[1]}) :
                     n # d[1] /\ <<n, d[2]>> \in g.use}
  IN  UNION {{Data(d[1], n, d[2], None, 0) : n \in Users(d)} : d \in start}

LEMMA GlobalsTyped ==
  ASSUME NEW g \in Graphs, NEW h \in Globals(g)
  PROVE  h \in Graphs /\ h.flow = g.flow /\ Globals(h) = {h}
<1>1. h = Added(g, GlobalFlow(g))
  BY DEF Globals, GlobalFlow, Added
<1>2. GlobalFlow(g) \subseteq DataSet
  <2> DEFINE E == Pairs(g.flow)
             Open(d) == {e \in E : e[1] = d[1] \/ <<e[1], d[2]>> \notin g.def}
  <2>1. ASSUME NEW d \in g.def, NEW n \in Reached(Open(d), {d[1]})
        PROVE  Data(d[1], n, d[2], None, 0) \in DataSet
    <3>1. Open(d) \subseteq Node \X Node
      BY PairsTyped
    <3> HIDE DEF Open
    <3>2. n \in Node
      BY <3>1, ReachedNodes
    <3>3. d[1] \in Node /\ d[2] \in Values
      BY ValueFacts DEF Graphs, DefUse
    <3> QED
      BY <3>2, <3>3, DataTyped
  <2>2. ASSUME NEW r \in GlobalFlow(g) PROVE \E d \in g.def : \E n \in Reached(Open(d), {d[1]}) :
                                               r = Data(d[1], n, d[2], None, 0)
    BY DEF GlobalFlow
  <2> HIDE DEF Open
  <2> QED
    BY <2>1, <2>2
<1>3. /\ h \in Graphs /\ h.flow = g.flow /\ h.def = g.def /\ h.use = g.use
      /\ Added(h, GlobalFlow(g)) = h
  BY <1>1, <1>2, AddedTyped
<1>4. GlobalFlow(h) = GlobalFlow(g)
  BY <1>3 DEF GlobalFlow
<1>5. Globals(h) = {Added(h, GlobalFlow(h))}
  BY DEF Globals, GlobalFlow, Added
<1> QED
  BY <1>3, <1>4, <1>5

MissedFlow(g) ==
  {Data(q[1][1], q[2][1], q[1][2], None, 0) : q \in
      {p \in g.def \X g.use : /\ p[1][2] = p[2][2] /\ Fn[p[1][1]] = Fn[p[2][1]]
                              /\ p[1][1] # p[2][1]
                              /\ p[2][1] \in Reached(Pairs(g.flow), {p[1][1]})}}

LEMMA MissingTyped ==
  ASSUME NEW g \in Graphs, NEW h \in MissingFlow(g)
  PROVE  h \in Graphs /\ h.flow = g.flow /\ MissingFlow(h) = {h}
<1>1. h = Added(g, MissedFlow(g))
  BY DEF MissingFlow, MissedFlow, Added
<1>2. MissedFlow(g) \subseteq DataSet
  <2>1. ASSUME NEW q \in g.def \X g.use PROVE Data(q[1][1], q[2][1], q[1][2], None, 0) \in DataSet
    <3>1. q[1][1] \in Node /\ q[2][1] \in Node /\ q[1][2] \in Values
      BY ValueFacts DEF Graphs, DefUse
    <3> QED
      BY <3>1, DataTyped
  <2> QED
    BY <2>1 DEF MissedFlow
<1>3. /\ h \in Graphs /\ h.flow = g.flow /\ h.def = g.def /\ h.use = g.use
      /\ Added(h, MissedFlow(g)) = h
  BY <1>1, <1>2, AddedTyped
<1>4. MissedFlow(h) = MissedFlow(g)
  BY <1>3 DEF MissedFlow
<1>5. MissingFlow(h) = {Added(h, MissedFlow(h))}
  BY DEF MissingFlow, MissedFlow, Added
<1> QED
  BY <1>3, <1>4, <1>5

LEMMA Marks == Plain # Pointed /\ Plain # Address /\ Pointed # Address
BY Zenon DEF Plain, Pointed, Address

StarDefs(g) ==
  {<<x[1], <<Plain, x[2][2]>>>> : x \in
      {d \in g.def : d[2][1] = Pointed /\ <<d[1], <<Plain, d[2][2]>>>> \in g.use
                     /\ Kind[d[1]] \in {Expression, "Condition"}}}

LEMMA StarTyped ==
  ASSUME NEW g \in Graphs, NEW h \in StarVariables(g)
  PROVE  h \in Graphs /\ h.flow = g.flow /\ StarVariables(h) = {h}
<1>1. h = [g EXCEPT !.def = @ \union StarDefs(g)]
  BY DEF StarVariables, StarDefs
<1>2. StarDefs(g) \in DefUse
  <2>1. ASSUME NEW d \in g.def PROVE <<d[1], <<Plain, d[2][2]>>>> \in Node \X Variables
    <3>1. d[1] \in Node /\ d[2] \in Variables
      BY DEF Graphs, DefUse
    <3> QED
      BY <3>1, ValueFacts
  <2> QED
    BY <2>1 DEF StarDefs, DefUse
<1>3. h \in Graphs /\ h.flow = g.flow /\ h.use = g.use /\ h.def = g.def \union StarDefs(g)
  BY <1>1, <1>2 DEF Graphs, DefUse
<1>4. ASSUME NEW d \in StarDefs(g) PROVE d[2][1] # Pointed
  <2>1. \E y, z : d = <<y, <<Plain, z>>>>
    BY DEF StarDefs
  <2> QED
    BY <2>1, Marks
<1>5. StarDefs(h) \subseteq StarDefs(g)
  BY <1>3, <1>4 DEF StarDefs
<1>6. StarVariables(h) = {[h EXCEPT !.def = h.def \union StarDefs(h)]}
  BY DEF StarVariables, StarDefs
<1>7. h.def \union StarDefs(h) = h.def
  BY <1>3, <1>5
<1>8. [h EXCEPT !.def = h.def] = h
  BY <1>3 DEF Graphs
<1> QED
  BY <1>3, <1>6, <1>7, <1>8

Taken(g) ==
  {t \in Node \X Node \X {a[2][2] : a \in AddressOf} :
     /\ <<t[1], <<Plain, t[3]>>>> \in AddressOf /\ Kind[t[1]] \in Usable
     /\ <<t[1], <<Address, t[3]>>>> \in g.use
     /\ t[2] # t[1] /\ t[1] \in Reached(Pairs(g.flow), {t[2]})
     /\ <<t[2], <<Plain, t[3]>>>> \in g.def /\ Kind[t[2]] \in {Decl, "Parameter"}}
TakenFlow(g) == {Data(t[2], t[1], <<Address, t[3]>>, None, 0) : t \in Taken(g)}
TakenDef(g)  == g.def \union {<<t[2], <<Address, t[3]>>>> : t \in Taken(g)}
Holders(g)   ==
  {p \in Taken(g) \X TakenDef(g) :
     /\ p[1][1] = p[2][1]
     /\ \E u \in (Reached(Pairs(g.flow), {p[1][1]})
                    \union {m \in Node : p[1][1] \in Reached(Pairs(g.flow), {m})}) \ {p[1][1]} :
          Kind[u] = Expression /\ <<u, <<Pointed, p[2][2][2]>>>> \in g.use}
HeldDef(g)   == TakenDef(g) \union {<<q[1][1], <<Pointed, q[2][2][2]>>>> : q \in Holders(g)}

Taking(g)    == [g EXCEPT !.reach = Merge(g.reach, TakenFlow(g)), !.def = HeldDef(g)]

LEMMA AddressesIs ==
  ASSUME NEW g
  PROVE  Addresses(g) = {Taking(g)}
BY DEF Addresses, Taken, TakenFlow, TakenDef, Holders, HeldDef, Taking

LEMMA TakenFacts ==
  ASSUME NEW g \in Graphs, NEW t \in Taken(g)
  PROVE  /\ t[1] \in Node /\ t[2] \in Node
         /\ <<Address, t[3]>> \in Variables
<1>1. PICK a \in AddressOf : t[3] = a[2][2]
  BY DEF Taken
<1>2. a[2] \in Variables
  BY GraphAssumption
<1> QED
  BY <1>1, <1>2, ValueFacts DEF Taken

LEMMA HeldFacts ==
  ASSUME NEW g \in Graphs
  PROVE  /\ TakenFlow(g) \subseteq DataSet /\ TakenDef(g) \in DefUse /\ HeldDef(g) \in DefUse
         /\ g.def \subseteq HeldDef(g) /\ TakenDef(g) \subseteq HeldDef(g)
         /\ \A d \in HeldDef(g) \ g.def : d[2][1] # Plain
         /\ \A d \in HeldDef(g) \ TakenDef(g) : \E q \in Holders(g) : d = <<q[1][1], <<Pointed, q[2][2][2]>>>>
<1>1. TakenFlow(g) \subseteq DataSet
  BY TakenFacts, ValueFacts, DataTyped DEF TakenFlow
<1>2. TakenDef(g) \in DefUse
  BY TakenFacts DEF TakenDef, DefUse, Graphs
<1>3. ASSUME NEW q \in Holders(g) PROVE <<q[1][1], <<Pointed, q[2][2][2]>>>> \in Node \X Variables
  <2>1. q[1] \in Taken(g) /\ q[2] \in TakenDef(g)
    BY DEF Holders
  <2>2. q[1][1] \in Node /\ q[2][2] \in Variables
    BY <1>2, <2>1, TakenFacts DEF DefUse
  <2> QED
    BY <2>2, ValueFacts
<1>4. HeldDef(g) \in DefUse
  BY <1>2, <1>3 DEF HeldDef, DefUse
<1>5. \A d \in TakenDef(g) \ g.def : d[2][1] = Address
  BY DEF TakenDef
<1>6. \A d \in HeldDef(g) \ TakenDef(g) : \E q \in Holders(g) : d = <<q[1][1], <<Pointed, q[2][2][2]>>>>
  BY DEF HeldDef
<1>7. \A d \in HeldDef(g) \ TakenDef(g) : d[2][1] = Pointed
  BY <1>6
<1>8. g.def \subseteq TakenDef(g) /\ TakenDef(g) \subseteq HeldDef(g)
  BY DEF TakenDef, HeldDef
<1>9. \A d \in HeldDef(g) \ g.def : d[2][1] # Plain
  BY <1>5, <1>7, Marks
<1> QED
  BY <1>1, <1>2, <1>4, <1>6, <1>8, <1>9

(* The second time the same addresses are found to be taken, and those that  *)
(* hold what is defined since are those by which it was defined.             *)
LEMMA AddressesTyped ==
  ASSUME NEW g \in Graphs, NEW h \in Addresses(g)
  PROVE  h \in Graphs /\ h.flow = g.flow /\ Addresses(h) = {h}
<1>1. h = [g EXCEPT !.reach = Merge(g.reach, TakenFlow(g)), !.def = HeldDef(g)]
  <2>1. h = Taking(g)
    BY AddressesIs
  <2> QED
    BY <2>1 DEF Taking
<1>2. Merge(g.reach, TakenFlow(g)) \subseteq DataSet
  <2>1. Merge(g.reach, TakenFlow(g)) \subseteq g.reach \union TakenFlow(g)
    BY MergeFacts
  <2> QED
    BY <2>1, HeldFacts DEF Graphs
<1>3. /\ h \in Graphs /\ h.flow = g.flow /\ h.use = g.use /\ h.def = HeldDef(g)
      /\ h.reach = Merge(g.reach, TakenFlow(g))
  BY <1>1, <1>2, HeldFacts DEF Graphs
<1>4. Taken(h) = Taken(g)
  <2>1. \A n, x : <<n, <<Plain, x>>>> \in h.def <=> <<n, <<Plain, x>>>> \in g.def
    BY <1>3, HeldFacts
  <2> QED
    BY <1>3, <2>1 DEF Taken
<1>5. TakenFlow(h) = TakenFlow(g) /\ TakenDef(h) = h.def
  BY <1>3, <1>4, HeldFacts DEF TakenFlow, TakenDef
<1>6. ASSUME NEW q \in Holders(h) PROVE <<q[1][1], <<Pointed, q[2][2][2]>>>> \in h.def
  <2>1. q[1] \in Taken(g) /\ q[2] \in HeldDef(g) /\ q[1][1] = q[2][1] /\ q = <<q[1], q[2]>>
    BY <1>3, <1>4, <1>5 DEF Holders
  <2>2. CASE q[2] \in TakenDef(g)
    <3>1. q \in Holders(g)
      BY <1>3, <2>1, <2>2 DEF Holders
    <3> QED
      BY <1>3, <3>1 DEF HeldDef
  <2>3. CASE q[2] \notin TakenDef(g)
    <3>1. PICK p \in Holders(g) : q[2] = <<p[1][1], <<Pointed, p[2][2][2]>>>>
      BY <2>1, <2>3, HeldFacts
    <3>2. <<q[1][1], <<Pointed, q[2][2][2]>>>> = q[2]
      BY <2>1, <3>1
    <3> QED
      BY <1>3, <2>1, <3>2
  <2> QED
    BY <2>2, <2>3
<1>7. HeldDef(h) = h.def
  BY <1>5, <1>6 DEF HeldDef
<1>8. Merge(h.reach, TakenFlow(h)) = h.reach
  BY <1>3, <1>5, MergeFacts
<1>9. Taking(h) = h
  <2>1. Taking(h) = [h EXCEPT !.reach = h.reach, !.def = h.def]
    BY <1>7, <1>8 DEF Taking
  <2>2. [h EXCEPT !.reach = h.reach, !.def = h.def] = h
    BY <1>3 DEF Graphs
  <2> QED
    BY <2>1, <2>2
<1> QED
  BY <1>3, <1>9, AddressesIs

ArgRows(g) ==
  {x \in Node \X Node \X Argument \X g.reach :
     /\ Kind[x[1]] \in {Expression, "Condition"} /\ Kind[x[2]] = Entry
     /\ <<x[1], x[2]>> \in Pairs(g.flow)
     /\ x[3][1] = x[1] /\ <<x[1], x[3][3]>> \in g.use
     /\ x[4].to = x[1] /\ <<x[4].from, x[3][3]>> \in g.def}
ArgInto(g) ==
  {i \in ArgRows(g) \X Node \X {d[2] : d \in g.def} :
     /\ i[2] \in ParameterOf(i[1][2], i[1][3][2]) /\ <<i[2], i[3]>> \in g.def}
IntoFlow(g) == {Data(i[1][4].from, i[2], i[3], None, 0) : i \in ArgInto(g)}
BackFlow(g) == {Data(b[1], b[2][1][1], None, None, 0) : b \in
                  {q \in Node \X ArgInto(g) : /\ Kind[q[1]] = "ReturnStatement"
                                              /\ Fn[q[1]] = Fn[q[2][1][2]]}}
Params(g)   == {<<i[2], i[3]>> : i \in ArgInto(g)}
Kept(g)     == g.reach \ {x[4] : x \in ArgRows(g)}
Renamed(g, r) == IF \E q \in Params(g) : q[1] = r.from
                 THEN [r EXCEPT !.src = (CHOOSE q \in Params(g) : q[1] = r.from)[2]] ELSE r
PassedFlow(g) == Merge({Renamed(g, r) : r \in Merge(Kept(g), IntoFlow(g))}, BackFlow(g))
Passing(g)    == [g EXCEPT !.reach = PassedFlow(g)]

LEMMA ArgumentsIs ==
  ASSUME NEW g
  PROVE  Arguments(g) = {Passing(g)}
BY DEF Arguments, ArgRows, ArgInto, IntoFlow, BackFlow, Params, Kept, Renamed, PassedFlow, Passing

LEMMA PassedFacts ==
  ASSUME NEW g \in Graphs
  PROVE  /\ IntoFlow(g) \subseteq DataSet /\ BackFlow(g) \subseteq DataSet
         /\ \A r \in IntoFlow(g) : Kind[r.to] = "Parameter"
         /\ \A r \in BackFlow(g) : Kind[r.from] = "ReturnStatement"
         /\ \A r \in DataSet : /\ Renamed(g, r) \in DataSet
                               /\ Renamed(g, r).from = r.from /\ Renamed(g, r).to = r.to
         /\ PassedFlow(g) \subseteq DataSet
<1>1. ASSUME NEW i \in ArgInto(g)
      PROVE  /\ i[1][1] \in Node /\ i[1][4].from \in Node /\ i[2] \in Node /\ i[3] \in Variables
             /\ Kind[i[2]] = "Parameter"
  <2>1. i[1] \in ArgRows(g) /\ i[2] \in Node /\ Kind[i[2]] = "Parameter"
    BY DEF ArgInto, ParameterOf
  <2>2. i[3] \in Variables
    BY DEF ArgInto, Graphs, DefUse
  <2>3. i[1][1] \in Node /\ i[1][4] \in g.reach
    BY <2>1 DEF ArgRows
  <2>4. i[1][4].from \in Node
    BY <2>3 DEF Graphs, DataSet
  <2> QED
    BY <2>1, <2>2, <2>3, <2>4
<1>2. ASSUME NEW r \in IntoFlow(g) PROVE r \in DataSet /\ Kind[r.to] = "Parameter"
  <2>1. PICK i \in ArgInto(g) : r = Data(i[1][4].from, i[2], i[3], None, 0)
    BY DEF IntoFlow
  <2>2. r \in DataSet
    BY <1>1, <2>1, ValueFacts, DataTyped
  <2>3. r.to = i[2]
    BY <2>1 DEF Data
  <2> QED
    BY <1>1, <2>2, <2>3
<1>3. ASSUME NEW r \in BackFlow(g) PROVE r \in DataSet /\ Kind[r.from] = "ReturnStatement"
  <2>1. PICK n \in Node, i \in ArgInto(g) :
          r = Data(n, i[1][1], None, None, 0) /\ Kind[n] = "ReturnStatement"
    BY DEF BackFlow
  <2>2. r \in DataSet
    BY <1>1, <2>1, ValueFacts, DataTyped
  <2>3. r.from = n
    BY <2>1 DEF Data
  <2> QED
    BY <2>1, <2>2, <2>3
<1>4. ASSUME NEW r \in DataSet
      PROVE  Renamed(g, r) \in DataSet /\ Renamed(g, r).from = r.from /\ Renamed(g, r).to = r.to
  <2>1. CASE \E q \in Params(g) : q[1] = r.from
    <3> DEFINE v == (CHOOSE q \in Params(g) : q[1] = r.from)[2]
    <3>1. \A q \in Params(g) : q[2] \in Values
      BY <1>1, ValueFacts DEF Params
    <3>2. v \in Values
      BY <2>1, <3>1
    <3> HIDE DEF v
    <3>3. Renamed(g, r) = [r EXCEPT !.src = v]
      BY <2>1 DEF Renamed, v
    <3> QED
      BY <3>2, <3>3 DEF DataSet
  <2>2. CASE ~(\E q \in Params(g) : q[1] = r.from)
    BY <2>2 DEF Renamed
  <2> QED
    BY <2>1, <2>2
<1>5. Merge(Kept(g), IntoFlow(g)) \subseteq DataSet
  <2>1. Merge(Kept(g), IntoFlow(g)) \subseteq Kept(g) \union IntoFlow(g)
    BY MergeFacts
  <2>2. Kept(g) \subseteq DataSet
    BY DEF Kept, Graphs
  <2> QED
    BY <1>2, <2>1, <2>2
<1>6. PassedFlow(g) \subseteq DataSet
  <2> DEFINE R == {Renamed(g, r) : r \in Merge(Kept(g), IntoFlow(g))}
  <2>1. R \subseteq DataSet
    BY <1>4, <1>5
  <2>2. PassedFlow(g) = Merge(R, BackFlow(g))
    BY DEF PassedFlow
  <2> HIDE DEF R
  <2>3. PassedFlow(g) \subseteq R \union BackFlow(g)
    BY <2>2, MergeFacts
  <2> QED
    BY <1>3, <2>1, <2>3
<1> QED
  BY <1>2, <1>3, <1>4, <1>6

LEMMA ArgumentsTyped ==
  ASSUME NEW g \in Graphs, NEW h \in Arguments(g)
  PROVE  /\ h \in Graphs /\ h.flow = g.flow /\ h.def = g.def /\ h.use = g.use
         /\ h.reach = PassedFlow(g)
<1>1. h = Passing(g)
  BY ArgumentsIs
<1> QED
  BY <1>1, PassedFacts DEF Passing, Graphs

(* No return statement defines what a call is passed.                        *)
ReturnsDefineNone(g) ==
  \A a \in Argument, d \in g.def : d[2] = a[3] => Kind[d[1]] # "ReturnStatement"

(* Then nothing is left that flows into an argument.                         *)
LEMMA ArgumentsTwice ==
  ASSUME NEW g \in Graphs, NEW h \in Arguments(g), ReturnsDefineNone(g)
  PROVE  Arguments(h) = {h}
<1>1. /\ h \in Graphs /\ h.flow = g.flow /\ h.def = g.def /\ h.use = g.use
      /\ h.reach = PassedFlow(g)
  BY ArgumentsTyped
<1>2. ASSUME NEW x \in ArgRows(h) PROVE FALSE
  <2> DEFINE r == x[4]
  <2>1. /\ x[1] \in Node /\ x[2] \in Node /\ x[3] \in Argument /\ r \in h.reach
        /\ x = <<x[1], x[2], x[3], x[4]>>
        /\ Kind[x[1]] \in {Expression, "Condition"} /\ Kind[x[2]] = Entry
        /\ <<x[1], x[2]>> \in Pairs(g.flow)
        /\ x[3][1] = x[1] /\ <<x[1], x[3][3]>> \in g.use
        /\ r.to = x[1] /\ <<r.from, x[3][3]>> \in g.def
    BY <1>1 DEF ArgRows
  <2> HIDE DEF r
  <2>2. r \notin BackFlow(g)
    BY <2>1, PassedFacts DEF ReturnsDefineNone
  <2>3. PICK q \in Kept(g) \union IntoFlow(g) : r = Renamed(g, q)
    <3> DEFINE M == Merge(Kept(g), IntoFlow(g))
               R == {Renamed(g, q) : q \in M}
    <3>1. M \subseteq Kept(g) \union IntoFlow(g)
      BY MergeFacts
    <3>2. PassedFlow(g) = Merge(R, BackFlow(g))
      BY DEF PassedFlow
    <3> HIDE DEF M, R
    <3>3. PassedFlow(g) \subseteq R \union BackFlow(g)
      BY <3>2, MergeFacts
    <3>4. r \in R
      BY <1>1, <2>1, <2>2, <3>3
    <3> QED
      BY <3>1, <3>4 DEF R
  <2>4. q \in DataSet
    BY PassedFacts DEF Kept, Graphs
  <2>5. r.from = q.from /\ r.to = q.to
    BY <2>3, <2>4, PassedFacts
  <2>6. q \notin IntoFlow(g)
    <3>1. Kind[q.to] # "Parameter"
      BY <2>1, <2>5 DEF Expression
    <3> QED
      BY <3>1, PassedFacts
  <2>7. q \in g.reach /\ q \notin {y[4] : y \in ArgRows(g)}
    BY <2>3, <2>6 DEF Kept
  <2> DEFINE y == <<x[1], x[2], x[3], q>>
  <2>8. y \in ArgRows(g) /\ y[4] = q
    BY <2>1, <2>5, <2>7 DEF ArgRows
  <2> QED
    BY <2>7, <2>8
<1>3. ArgRows(h) = {} /\ ArgInto(h) = {}
  BY <1>2 DEF ArgInto
<1>4. IntoFlow(h) = {} /\ BackFlow(h) = {} /\ Params(h) = {} /\ Kept(h) = h.reach
  BY <1>3 DEF IntoFlow, BackFlow, Params, Kept
<1>5. \A r : Renamed(h, r) = r
  BY <1>4 DEF Renamed
<1>6. PassedFlow(h) = h.reach
  <2>1. Merge(Kept(h), IntoFlow(h)) = h.reach
    BY <1>4, MergeFacts
  <2>2. {Renamed(h, r) : r \in h.reach} = h.reach
    BY <1>5
  <2> QED
    BY <1>4, <2>1, <2>2, MergeFacts DEF PassedFlow
<1>7. Passing(h) = h
  BY <1>1, <1>6 DEF Passing, Graphs
<1> QED
  BY <1>7, ArgumentsIs

LEMMA RedundantTyped ==
  ASSUME NEW g \in Graphs, NEW h \in Redundant(g)
  PROVE  h \in Graphs /\ h.flow = g.flow
<1>1. PICK X : h = [g EXCEPT !.reach = @ \ X]
  BY DEF Redundant
<1> QED
  BY <1>1 DEF Graphs

LEMMA SinksTyped ==
  ASSUME NEW g \in Graphs, NEW h \in Sinks(g)
  PROVE  h \in Graphs /\ h.flow = g.flow
BY DEF Sinks, Graphs

(* There are finitely many graphs, and what one holds is finite.             *)
LEMMA FlowFinite == IsFiniteSet(FlowSet)
<1> DEFINE D == (Node \X Node) \X SUBSET Invoked
           f == [x \in D |-> Flow(x[1][1], x[1][2], x[2])]
<1>1. IsFiniteSet(D)
  <2>1. IsFiniteSet(Node \X Node) /\ Invoked \subseteq Node \X Node
    BY GraphAssumption, FS_Product DEF Invoked
  <2>2. IsFiniteSet(SUBSET Invoked)
    BY <2>1, FS_Subset, FS_SUBSET
  <2> QED
    BY <2>1, <2>2, FS_Product
<1>2. IsFiniteSet({f[x] : x \in D})
  <2> HIDE DEF D
  <2> QED
    BY <1>1, ImageFinite
<1>3. ASSUME NEW r \in FlowSet PROVE r \in {f[x] : x \in D}
  <2> DEFINE x == <<<<r.from, r.to>>, r.call>>
  <2>1. x \in D
    BY DEF FlowSet
  <2>2. f[x] = r
    BY <2>1 DEF Flow, FlowSet
  <2> QED
    BY <2>1, <2>2
<1> HIDE DEF f, D
<1> QED
  BY <1>2, <1>3, FS_Subset

LEMMA DataFinite == IsFiniteSet(DataSet)
<1> DEFINE D == ((Node \X Node) \X (Values \X Values)) \X Sizes
           f == [x \in D |-> Data(x[1][1][1], x[1][1][2], x[1][2][1], x[1][2][2], x[2])]
<1>1. IsFiniteSet(Sizes)
  <2> DEFINE a == [x \in Arrays |-> x[3]]
  <2>0. IsFiniteSet(Arrays)
    BY GraphAssumption
  <2>1. IsFiniteSet({a[x] : x \in Arrays})
    BY <2>0, ImageFinite
  <2>2. Sizes = {a[x] : x \in Arrays} \union {0}
    BY DEF Sizes
  <2> QED
    BY <2>1, <2>2, FS_AddElement
<1>2. IsFiniteSet(Values)
  <2>1. IsFiniteSet({Plain, Pointed, Address})
    <3>1. IsFiniteSet({} \union {Plain} \union {Pointed} \union {Address})
      BY FS_EmptySet, FS_AddElement
    <3>2. {Plain, Pointed, Address} = {} \union {Plain} \union {Pointed} \union {Address}
      OBVIOUS
    <3> QED
      BY <3>1, <3>2
  <2>2. IsFiniteSet(Variables)
    BY <2>1, GraphAssumption, FS_Product DEF Variables
  <2> QED
    BY <2>2, FS_AddElement DEF Values
<1>3. IsFiniteSet(D)
  <2>1. IsFiniteSet(Node \X Node) /\ IsFiniteSet(Values \X Values)
    BY <1>2, GraphAssumption, FS_Product
  <2> QED
    BY <1>1, <2>1, FS_Product
<1>4. IsFiniteSet({f[x] : x \in D})
  <2> HIDE DEF D
  <2> QED
    BY <1>3, ImageFinite
<1>5. ASSUME NEW r \in DataSet PROVE r \in {f[x] : x \in D}
  <2> DEFINE x == <<<<<<r.from, r.to>>, <<r.var, r.src>>>>, r.size>>
  <2>1. x \in D
    BY DEF DataSet
  <2>2. f[x] = r
    BY <2>1 DEF Data, DataSet
  <2> QED
    BY <2>1, <2>2
<1> HIDE DEF f, D
<1> QED
  BY <1>4, <1>5, FS_Subset

LEMMA GraphFinite ==
  ASSUME NEW g \in Graphs
  PROVE  IsFiniteSet(g.flow) /\ IsFiniteSet(g.reach)
BY FlowFinite, DataFinite, FS_Subset DEF Graphs

Same(a, b)    == a.to = b.from /\ a.var \in {b.var, b.src} \ {None}
Passes(g)     == {p \in g.reach \X g.reach : /\ p[1].from \in Reached(Pairs(g.flow), Main)
                                             /\ Same(p[1], p[2])
                                             /\ p[1].size # 0 /\ p[2].size = 0}
Unsized(g)    == {r \in g.reach : r.size = 0 /\ \A p \in Passes(g) : p[2] # r}
Onward(g)     == {p \in g.reach \X Unsized(g) : Same(p[1], p[2])}
Gets(g, k)    == {p[2] : p \in {x \in Passes(g) : x[1].size = k}}
SizeRows(g)   == {<<Gets(g, k) \union Reached(Onward(g), Gets(g, k)), k, None>> :
                    k \in {p[1].size : p \in Passes(g)}}

LEMMA PropagateIs ==
  ASSUME NEW g
  PROVE  PropagateSizes(g) = Sized(g, SizeRows(g))
BY DEF PropagateSizes, Same, Passes, Unsized, Onward, Gets, SizeRows

LEMMA OnwardFacts ==
  ASSUME NEW g \in Graphs
  PROVE  /\ \A S : Reached(Onward(g), S) \subseteq g.reach
         /\ \A S : Ahead(Onward(g), S) \subseteq Reached(Onward(g), S)
         /\ \A S : Ahead(Onward(g), Reached(Onward(g), S)) \subseteq Reached(Onward(g), S)
         /\ SizeRows(g) \subseteq (SUBSET g.reach) \X Sizes \X Values
<1>1. IsFiniteSet(Onward(g)) /\ Heads(Onward(g)) \subseteq g.reach
  <2>1. IsFiniteSet(g.reach \X g.reach)
    BY GraphFinite, FS_Product
  <2>2. Onward(g) \subseteq g.reach \X g.reach
    BY DEF Onward, Unsized
  <2>3. Heads(Onward(g)) \subseteq g.reach
    BY <2>2 DEF Heads
  <2> QED
    BY <2>1, <2>2, <2>3, FS_Subset
<1>2. \A S : /\ Reached(Onward(g), S) \subseteq g.reach
             /\ Ahead(Onward(g), S) \subseteq Reached(Onward(g), S)
             /\ Ahead(Onward(g), Reached(Onward(g), S)) \subseteq Reached(Onward(g), S)
  BY <1>1, ReachedClosed
<1>3. \A p \in Passes(g) : p[1].size \in Sizes /\ p[2] \in g.reach
  BY DEF Passes, Graphs, DataSet
<1>4. \A k : Gets(g, k) \subseteq g.reach
  BY <1>3 DEF Gets
<1>5. SizeRows(g) \subseteq (SUBSET g.reach) \X Sizes \X Values
  BY <1>2, <1>3, <1>4, ValueFacts DEF SizeRows
<1> QED
  BY <1>2, <1>5

LEMMA PropagateTyped ==
  ASSUME NEW g \in Graphs, NEW h \in PropagateSizes(g)
  PROVE  h \in Graphs /\ h.flow = g.flow
BY PropagateIs, OnwardFacts, SizedTyped

(* Data flow that is given a size is otherwise what it was.                  *)
LEMMA SizedFacts ==
  ASSUME NEW g \in Graphs, NEW h \in Sized(g, SizeRows(g)), NEW r \in h.reach
  PROVE  \E q \in g.reach :
           /\ r.from = q.from /\ r.to = q.to /\ r.var = q.var /\ r.src = q.src
           /\ IF \E x \in SizeRows(g) : q \in x[1] THEN r.size # 0 ELSE r.size = q.size
<1> DEFINE rows == SizeRows(g)
           hit == UNION {x[1] : x \in rows}
<1>1. PICK f \in [hit -> rows] :
        h = [g EXCEPT !.reach = (@ \ hit) \union {Resized(q, f[q]) : q \in hit}]
  BY DEF Sized
<1>2. h.reach = (g.reach \ hit) \union {Resized(q, f[q]) : q \in hit}
  BY <1>1 DEF Graphs
<1>3. \A x \in rows : x[2] # 0 /\ x[3] = None
  BY DEF SizeRows, Passes
<1>4. hit \subseteq g.reach /\ g.reach \subseteq DataSet
  BY OnwardFacts DEF Graphs
<1>5. CASE r \in g.reach \ hit
  BY <1>5
<1>6. CASE r \notin g.reach \ hit
  <2>1. PICK q \in hit : r = Resized(q, f[q])
    BY <1>2, <1>6
  <2>2. f[q][2] # 0 /\ f[q][3] = None /\ q \in DataSet
    BY <1>3, <1>4
  <2> HIDE DEF hit, rows
  <2>3. r = [q EXCEPT !.size = f[q][2], !.src = q.src]
    BY <2>1, <2>2 DEF Resized
  <2>4. r.from = q.from /\ r.to = q.to /\ r.var = q.var /\ r.src = q.src /\ r.size # 0
    BY <2>2, <2>3 DEF DataSet
  <2>5. q \in g.reach /\ \E x \in rows : q \in x[1]
    BY <1>4 DEF hit
  <2> QED
    BY <2>4, <2>5 DEF rows
<1> QED
  BY <1>5, <1>6

(* Sizes are passed on as far as they go: nothing is left that has a size    *)
(* and is followed by data flow of its variable that has none.               *)
LEMMA PropagateTwice ==
  ASSUME NEW g \in Graphs, NEW h \in PropagateSizes(g)
  PROVE  PropagateSizes(h) = {h}
<1>1. h \in Graphs /\ h.flow = g.flow /\ h \in Sized(g, SizeRows(g))
  BY PropagateTyped, PropagateIs
<1> DEFINE Has(q) == \E x \in SizeRows(g) : q \in x[1]
<1>2. ASSUME NEW p \in Passes(h) PROVE FALSE
  <2>1. /\ p[1] \in h.reach /\ p[2] \in h.reach
        /\ p[1].from \in Reached(Pairs(g.flow), Main)
        /\ Same(p[1], p[2]) /\ p[1].size # 0 /\ p[2].size = 0
    BY <1>1 DEF Passes
  <2>2. PICK a \in g.reach :
          /\ p[1].from = a.from /\ p[1].to = a.to /\ p[1].var = a.var /\ p[1].src = a.src
          /\ IF Has(a) THEN p[1].size # 0 ELSE p[1].size = a.size
    BY <1>1, <2>1, SizedFacts
  <2>3. PICK b \in g.reach :
          /\ p[2].from = b.from /\ p[2].to = b.to /\ p[2].var = b.var /\ p[2].src = b.src
          /\ IF Has(b) THEN p[2].size # 0 ELSE p[2].size = b.size
    BY <1>1, <2>1, SizedFacts
  <2> HIDE DEF Has
  <2>4. ~Has(b) /\ b.size = 0
    BY <2>1, <2>3
  <2>5. Same(a, b)
    BY <2>1, <2>2, <2>3 DEF Same
  <2>6. \A q \in Passes(g) : q[2] # b
    <3> SUFFICES ASSUME NEW q \in Passes(g), q[2] = b PROVE FALSE
      OBVIOUS
    <3> DEFINE k == q[1].size
               x == <<Gets(g, k) \union Reached(Onward(g), Gets(g, k)), k, None>>
    <3>1. b \in Gets(g, k)
      BY DEF Gets
    <3>2. x \in SizeRows(g) /\ x[1] = Gets(g, k) \union Reached(Onward(g), Gets(g, k))
      BY DEF SizeRows
    <3> HIDE DEF x, k
    <3> QED
      BY <2>4, <3>1, <3>2 DEF Has
  <2>7. b \in Unsized(g) /\ <<a, b>> \in Onward(g)
    BY <2>4, <2>5, <2>6 DEF Unsized, Onward
  <2>8. CASE Has(a)
    <3>1. PICK x \in SizeRows(g) : a \in x[1]
      BY <2>8 DEF Has
    <3>2. PICK k : x[1] = Gets(g, k) \union Reached(Onward(g), Gets(g, k))
      BY <3>1 DEF SizeRows
    <3> DEFINE e == <<a, b>>
    <3>3. e \in Onward(g) /\ e[1] \in x[1] /\ e[2] = b
      BY <2>7, <3>1
    <3> HIDE DEF e
    <3>4. b \in Ahead(Onward(g), Gets(g, k)) \union Ahead(Onward(g), Reached(Onward(g), Gets(g, k)))
      BY <3>2, <3>3 DEF Ahead
    <3>5. b \in x[1]
      BY <3>2, <3>4, OnwardFacts
    <3> QED
      BY <2>4, <3>1, <3>5 DEF Has
  <2>9. CASE ~Has(a)
    <3> DEFINE q == <<a, b>>
    <3>1. q \in g.reach \X g.reach /\ q[1] = a /\ q[2] = b
      OBVIOUS
    <3>2. a.size # 0 /\ a.from \in Reached(Pairs(g.flow), Main)
      BY <2>1, <2>2, <2>9
    <3> HIDE DEF q
    <3>3. q \in Passes(g)
      BY <2>4, <2>5, <3>1, <3>2 DEF Passes
    <3> QED
      BY <2>6, <3>1, <3>3
  <2> QED
    BY <2>8, <2>9
<1>3. SizeRows(h) = {}
  <2>1. Passes(h) = {}
    BY <1>2
  <2> QED
    BY <2>1 DEF SizeRows
<1>4. Sized(h, {}) = {h}
  <2> DEFINE hit == UNION {x[1] : x \in {}}
             rows(r) == {x \in {} : r \in x[1]}
             F == {f \in [hit -> {}] : \A r \in hit : f[r] \in rows(r)}
             G(f) == [h EXCEPT !.reach = (@ \ hit) \union {Resized(r, f[r]) : r \in hit}]
  <2>1. Sized(h, {}) = {G(f) : f \in F}
    BY DEF Sized
  <2>2. hit = {}
    OBVIOUS
  <2>3. ASSUME NEW f PROVE G(f) = h
    <3>1. (h.reach \ hit) \union {Resized(r, f[r]) : r \in hit} = h.reach
      BY <2>2
    <3>2. [h EXCEPT !.reach = h.reach] = h
      BY <1>1 DEF Graphs
    <3> QED
      BY <3>1, <3>2
  <2>4. F # {}
    <3> DEFINE e == [r \in {} |-> {}]
    <3>1. e \in [{} -> {}]
      OBVIOUS
    <3> HIDE DEF e
    <3>2. e \in F
      <4>1. e \in [hit -> {}]
        BY <2>2, <3>1
      <4>2. \A r \in hit : e[r] \in rows(r)
        BY <2>2
      <4> HIDE DEF hit, rows
      <4> QED
        BY <4>1, <4>2
    <3> HIDE DEF F
    <3> QED
      BY <3>2
  <2> HIDE DEF F, G
  <2> QED
    BY <2>1, <2>3, <2>4
<1> QED
  BY <1>3, <1>4, PropagateIs
-------------------------------------------------------------------------------
(* The commands in their order, and what each makes of the graph.            *)
LEMMA CommandFacts ==
  /\ DOMAIN Commands = 1..15
  /\ \A i, j \in 1..15 : Commands[i] = Commands[j] => i = j
  /\ Commands[1] = "NoNull" /\ Commands[2] = "NoFlowToExit" /\ Commands[3] = "SizeOfArrays"
  /\ Commands[4] = "SizeOfAssigned" /\ Commands[5] = "NoSpuriousDef"
  /\ Commands[6] = "CopiesDefine" /\ Commands[7] = "Connect" /\ Commands[8] = "Globals"
  /\ Commands[9] = "StarVariables" /\ Commands[10] = "Addresses"
  /\ Commands[11] = "MissingFlow" /\ Commands[12] = "Arguments"
  /\ Commands[13] = "Redundant" /\ Commands[14] = "PropagateSizes" /\ Commands[15] = "Sinks"
BY DEF Commands

LEMMA DoneIs ==
  ASSUME NEW i \in 1..15
  PROVE  Done(Commands[i]) <=> next > i
<1>1. (CHOOSE j \in DOMAIN Commands : Commands[j] = Commands[i]) = i
  <2>1. \E j \in DOMAIN Commands : Commands[j] = Commands[i]
    BY CommandFacts
  <2> QED
    BY <2>1, CommandFacts
<1> QED
  BY <1>1 DEF Done

LEMMA EarlyTyped ==
  ASSUME NEW g \in Graphs, NEW i \in 1..6, NEW h \in Outcomes(Commands[i], g)
  PROVE  h \in Graphs /\ h.flow = g.flow /\ Pairs(h.reach) \subseteq Pairs(g.reach)
<1>1. CASE i = 1
  BY <1>1, CommandFacts, FilterTyped DEF Outcomes
<1>2. CASE i = 2
  BY <1>2, CommandFacts, FilterTyped DEF Outcomes
<1>3. CASE i = 3
  BY <1>3, CommandFacts, SizesTyped DEF Outcomes
<1>4. CASE i = 4
  BY <1>4, CommandFacts, SizesTyped DEF Outcomes
<1>5. CASE i = 5
  BY <1>5, CommandFacts, FilterTyped DEF Outcomes
<1>6. CASE i = 6
  BY <1>6, CommandFacts, CopiesTyped DEF Outcomes
<1> QED
  BY <1>1, <1>2, <1>3, <1>4, <1>5, <1>6

LEMMA ConnectedTyped ==
  ASSUME NEW g \in Graphs, NEW h \in Outcomes(Commands[7], g)
  PROVE  h \in Graphs /\ h.flow = JoinedFlow(g)
BY CommandFacts, ConnectTyped DEF Outcomes

LEMMA LateTyped ==
  ASSUME NEW g \in Graphs, NEW i \in 8..15, NEW h \in Outcomes(Commands[i], g)
  PROVE  h \in Graphs /\ h.flow = g.flow
<1>1. CASE i = 8
  BY <1>1, CommandFacts, GlobalsTyped DEF Outcomes
<1>2. CASE i = 9
  BY <1>2, CommandFacts, StarTyped DEF Outcomes
<1>3. CASE i = 10
  BY <1>3, CommandFacts, AddressesTyped DEF Outcomes
<1>4. CASE i = 11
  BY <1>4, CommandFacts, MissingTyped DEF Outcomes
<1>5. CASE i = 12
  BY <1>5, CommandFacts, ArgumentsTyped DEF Outcomes
<1>6. CASE i = 13
  BY <1>6, CommandFacts, RedundantTyped DEF Outcomes
<1>7. CASE i = 14
  BY <1>7, CommandFacts, PropagateTyped DEF Outcomes
<1>8. CASE i = 15
  BY <1>8, CommandFacts, SinksTyped DEF Outcomes
<1> QED
  BY <1>1, <1>2, <1>3, <1>4, <1>5, <1>6, <1>7, <1>8
-------------------------------------------------------------------------------
(* What holds of the graph after every command: its control flow is the one  *)
(* that was imported, or that with the calls connected; it is what the last  *)
(* command makes of some graph; and until the copies have been marked data   *)
(* flow stays within functions if control flow does.                         *)
Joined   == JoinedFlow([flow |-> Start])
FlowInv  == graph.flow = IF next <= 7 THEN Start ELSE Joined
LastInv  == next > 1 => \E g \in Graphs : graph \in Outcomes(Commands[next - 1], g)
LocalInv == WithinFunctions /\ next <= 7 => \A e \in Pairs(graph.reach) : Fn[e[1]] = Fn[e[2]]
GraphInv == next \in 1..16 /\ graph \in Graphs /\ FlowInv /\ LastInv /\ LocalInv

LEMMA JoinedIs ==
  ASSUME NEW g, g.flow = Start
  PROVE  JoinedFlow(g) = Joined
<1> DEFINE h == [flow |-> Start]
<1>1. h.flow = g.flow
  OBVIOUS
<1> HIDE DEF h
<1>2. Into(h) = Into(g)
  BY <1>1 DEF Into
<1>3. \A f, e : Leaves(h, f, e) <=> Leaves(g, f, e)
  BY <1>1, <1>2 DEF Leaves
<1>4. \A n : Following(h, n) = Following(g, n)
  BY <1>1 DEF Following
<1>5. Routed(h) = Routed(g)
  BY <1>1, <1>3, <1>4 DEF Routed
<1> QED
  BY <1>1, <1>2, <1>5 DEF JoinedFlow, Joined, Back, Cut, h

(* A definition reaches along control flow, which may stay within functions. *)
LEMMA UnkilledFacts ==
  ASSUME NEW def, NEW n \in Node, NEW v, NEW m \in Unkilled(def, n, v)
  PROVE  m \in Node /\ (WithinFunctions => Fn[n] = Fn[m])
<1> DEFINE open == {e \in Flows : e[1] = n \/ <<e[1], v>> \notin def}
<1>1. open \subseteq Node \X Node
  BY GraphAssumption
<1>2. m \in Reached(open, {n})
  BY DEF Unkilled
<1>3. ASSUME WithinFunctions PROVE \A e \in open : Fn[e[1]] = Fn[e[2]]
  BY <1>3 DEF WithinFunctions
<1> HIDE DEF open
<1>4. m \in Node
  BY <1>1, <1>2, ReachedNodes
<1>5. ASSUME WithinFunctions PROVE Fn[n] = Fn[m]
  <2> DEFINE T == {x \in Node : Fn[x] = Fn[n]}
  <2>1. Ahead(open, {n}) \subseteq T /\ Ahead(open, T) \subseteq T
    BY <1>1, <1>3, <1>5 DEF Ahead
  <2> HIDE DEF T
  <2>2. Reached(open, {n}) \subseteq T
    BY <1>1, <2>1, ReachedLeast, NodeEdges
  <2> QED
    BY <1>2, <2>2 DEF T
<1> QED
  BY <1>4, <1>5

LEMMA GraphInvInit == GraphInit => GraphInv
<1> SUFFICES ASSUME GraphInit PROVE GraphInv
  OBVIOUS
<1>1. PICK i \in Imported :
       graph = [flow |-> {Flow(e[1], e[2], {}) : e \in Flows}, shortcut |-> {},
                def |-> i.def, use |-> i.use, sinks |-> {},
                reach |-> {Data(q[1][1], q[2][1], q[1][2], None, 0) :
                             q \in {p \in i.def \X i.use :
                                      /\ p[1][2] = p[2][2]
                                      /\ p[2][1] \in Unkilled(i.def, p[1][1], p[1][2])}}]
  BY DEF GraphInit
<1> DEFINE Q == {p \in i.def \X i.use : /\ p[1][2] = p[2][2]
                                        /\ p[2][1] \in Unkilled(i.def, p[1][1], p[1][2])}
           R == {Data(q[1][1], q[2][1], q[1][2], None, 0) : q \in Q}
<1>2. i.def \in DefUse /\ i.use \in DefUse
  BY GraphAssumption DEF DefUse
<1>3. ASSUME NEW q \in Q
      PROVE  /\ Data(q[1][1], q[2][1], q[1][2], None, 0) \in DataSet
             /\ WithinFunctions => Fn[q[1][1]] = Fn[q[2][1]]
  <2>1. q[1][1] \in Node /\ q[1][2] \in Variables /\ q[2][1] \in Unkilled(i.def, q[1][1], q[1][2])
    BY <1>2 DEF DefUse
  <2> QED
    BY <2>1, ValueFacts, DataTyped, UnkilledFacts
<1> HIDE DEF Q
<1>4. R \subseteq DataSet
  BY <1>3
<1>5. ASSUME WithinFunctions PROVE \A e \in Pairs(R) : Fn[e[1]] = Fn[e[2]]
  <2>1. \A q \in Q : /\ Data(q[1][1], q[2][1], q[1][2], None, 0).from = q[1][1]
                     /\ Data(q[1][1], q[2][1], q[1][2], None, 0).to = q[2][1]
    BY DEF Data
  <2> QED
    BY <1>3, <1>5, <2>1 DEF Pairs
<1>6. graph = [flow |-> Start, shortcut |-> {}, def |-> i.def, use |-> i.use, sinks |-> {},
               reach |-> R]
  BY <1>1 DEF Start, Q
<1> HIDE DEF R
<1>7. Start \subseteq FlowSet
  <2>1. ASSUME NEW e \in Flows PROVE Flow(e[1], e[2], {}) \in FlowSet
    BY StartFacts, FlowTyped
  <2> QED
    BY <2>1 DEF Start
<1>8. graph \in Graphs
  BY <1>2, <1>4, <1>6, <1>7 DEF Graphs
<1>9. graph.flow = Start /\ graph.reach = R /\ next = 1
  BY <1>6 DEF GraphInit
<1> QED
  BY <1>5, <1>8, <1>9 DEF GraphInv, FlowInv, LastInv, LocalInv

LEMMA RunKeeps == GraphInv /\ Run => GraphInv'
<1> SUFFICES ASSUME GraphInv, Run PROVE GraphInv'
  OBVIOUS
<1>1. next \in 1..15 /\ next' = next + 1 /\ graph' \in Outcomes(Commands[next], graph)
  BY CommandFacts DEF GraphInv, Run
<1>2. graph \in Graphs /\ next' \in 1..16
  BY <1>1 DEF GraphInv
<1>3. LastInv'
  <2>1. next' - 1 = next
    BY <1>1
  <2> QED
    BY <1>1, <1>2, <2>1 DEF LastInv
<1>4. CASE next <= 6
  <2>1. next \in 1..6 /\ next <= 7 /\ next' <= 7
    BY <1>1, <1>4
  <2>2. graph' \in Graphs /\ graph'.flow = graph.flow /\ Pairs(graph'.reach) \subseteq Pairs(graph.reach)
    BY <1>1, <1>2, <2>1, EarlyTyped
  <2>3. FlowInv'
    BY <2>1, <2>2 DEF GraphInv, FlowInv
  <2>4. LocalInv'
    <3>1. WithinFunctions => \A e \in Pairs(graph.reach) : Fn[e[1]] = Fn[e[2]]
      BY <2>1 DEF GraphInv, LocalInv
    <3> QED
      BY <2>2, <3>1 DEF LocalInv
  <2> QED
    BY <1>2, <1>3, <2>2, <2>3, <2>4 DEF GraphInv
<1>5. CASE next = 7
  <2>1. graph' \in Graphs /\ graph'.flow = JoinedFlow(graph)
    BY <1>1, <1>2, <1>5, ConnectedTyped
  <2>2. graph.flow = Start /\ next' = 8
    BY <1>1, <1>5 DEF GraphInv, FlowInv
  <2>3. FlowInv' /\ LocalInv'
    BY <2>1, <2>2, JoinedIs DEF FlowInv, LocalInv
  <2> QED
    BY <1>2, <1>3, <2>1, <2>3 DEF GraphInv
<1>6. CASE next >= 8
  <2>1. next \in 8..15 /\ ~(next <= 7) /\ ~(next' <= 7)
    BY <1>1, <1>6
  <2>2. graph' \in Graphs /\ graph'.flow = graph.flow
    BY <1>1, <1>2, <2>1, LateTyped
  <2>3. FlowInv' /\ LocalInv'
    BY <2>1, <2>2 DEF GraphInv, FlowInv, LocalInv
  <2> QED
    BY <1>2, <1>3, <2>2, <2>3 DEF GraphInv
<1> QED
  BY <1>1, <1>4, <1>5, <1>6

(* What is run again is one of the commands on calls.                        *)
LEMMA RetriedFacts ==
  ASSUME GraphInv, RunAgain
  PROVE  /\ next - 1 \in 7..14 /\ next' = next /\ graph \in Graphs
         /\ graph' \in Outcomes(Commands[next - 1], graph)
         /\ \E g \in Graphs : graph \in Outcomes(Commands[next - 1], g)
<1>1. next - 1 \in 1..15
  BY DEF GraphInv, RunAgain
<1>2. next - 1 \in 7..14
  BY <1>1, CommandFacts DEF RunAgain, Retried
<1> QED
  BY <1>2 DEF GraphInv, RunAgain, LastInv

LEMMA RunAgainKeeps == GraphInv /\ RunAgain => GraphInv'
<1> SUFFICES ASSUME GraphInv, RunAgain PROVE GraphInv'
  OBVIOUS
<1>1. /\ next - 1 \in 7..14 /\ next' = next /\ graph \in Graphs /\ next \in 1..16
      /\ graph' \in Outcomes(Commands[next - 1], graph)
  BY RetriedFacts DEF GraphInv
<1>2. PICK g \in Graphs : graph \in Outcomes(Commands[next - 1], g)
  BY RetriedFacts
<1>3. LastInv'
  BY <1>1 DEF LastInv
<1>4. graph' \in Graphs /\ graph'.flow = graph.flow
  <2>1. CASE next - 1 = 7
    <3>1. graph \in Connect(g) /\ graph' \in Connect(graph)
      BY <1>1, <1>2, <2>1, CommandFacts DEF Outcomes
    <3> QED
      BY <1>1, <3>1, ConnectTwice
  <2>2. CASE next - 1 # 7
    <3>1. next - 1 \in 8..15
      BY <1>1, <2>2
    <3> QED
      BY <1>1, <3>1, LateTyped
  <2> QED
    BY <2>1, <2>2
<1>5. FlowInv' /\ LocalInv'
  <2>1. ~(next <= 7)
    BY <1>1
  <2> QED
    BY <1>1, <1>4, <2>1 DEF GraphInv, FlowInv, LocalInv
<1> QED
  BY <1>1, <1>3, <1>4, <1>5 DEF GraphInv

LEMMA GraphInvariant == GraphSpec => []GraphInv
<1>1. GraphInv /\ [GraphNext]_graphVars => GraphInv'
  <2>1. GraphInv /\ UNCHANGED graphVars => GraphInv'
    BY DEF graphVars, GraphInv, FlowInv, LastInv, LocalInv
  <2> QED
    BY <2>1, RunKeeps, RunAgainKeeps DEF GraphNext
<1> QED
  BY <1>1, GraphInvInit, PTL DEF GraphSpec

(* What was imported and what the commands make of it stays within the types *)
(* of nodes, variables and sizes: no command invents any (annot.py and       *)
(* interproc.py).                                                            *)
THEOREM GraphIsTyped == GraphSpec => [](graph \in Graphs)
<1>1. GraphInv => graph \in Graphs
  BY DEF GraphInv
<1> QED
  BY <1>1, GraphInvariant, PTL

(* Connecting the calls loses no step: what followed along the control flow  *)
(* still does, if what a program calls returns.  Of all graphs, whatever is  *)
(* called from where and however often the commands are run (the first of    *)
(* interproc_cmds_tc in interproc.py).                                       *)
THEOREM StepsAreKept ==
  ASSUME Returning
  PROVE  GraphSpec => []NoStepLost
<1>1. GraphInv => NoStepLost
  <2> SUFFICES ASSUME GraphInv PROVE NoStepLost
    OBVIOUS
  <2>1. CASE graph.flow = Start
    BY <2>1, StartFacts DEF NoStepLost
  <2>2. CASE graph.flow = Joined
    <3> DEFINE g == [flow |-> Start]
    <3>1. g.flow = Start /\ JoinedFlow(g) = Joined
      BY JoinedIs
    <3> HIDE DEF g
    <3>2. \A n : Reached(Flows, {n}) \subseteq Reached(Pairs(Joined), {n})
      BY <3>1, JoiningKeeps
    <3> QED
      BY <2>2, <3>2 DEF NoStepLost
  <2> QED
    BY <2>1, <2>2 DEF GraphInv, FlowInv
<1> QED
  BY <1>1, GraphInvariant, PTL

(* A command that has been executed although its answer was lost is run      *)
(* again: whether it changes nothing then.                                   *)
Repeatable == \/ Commands[next - 1] \in {"Connect", "Globals", "StarVariables", "Addresses",
                                         "MissingFlow", "PropagateSizes"}
              \/ Commands[next - 1] = "Arguments" /\ ReturnsDefineNone(graph)

(* The retries of interproc_worker are harmless for seven of the commands,   *)
(* on every graph: calls are connected once, data flow is merged,            *)
(* definitions are found again, no size is left to pass on, and what has     *)
(* been passed to a parameter is not passed again, if no return statement    *)
(* defines what a call is passed.                                            *)
THEOREM RetriesLeaveTheGraph ==
  GraphSpec => [][RunAgain /\ Repeatable => graph' = graph]_graphVars
<1>1. ASSUME GraphInv, RunAgain, Repeatable PROVE graph' = graph
  <2>1. /\ next - 1 \in 7..14 /\ graph \in Graphs
        /\ graph' \in Outcomes(Commands[next - 1], graph)
    BY <1>1, RetriedFacts
  <2>2. PICK g \in Graphs : graph \in Outcomes(Commands[next - 1], g)
    BY <1>1, RetriedFacts
  <2>3. CASE Commands[next - 1] = "Connect"
    <3>1. graph \in Connect(g) /\ graph' \in Connect(graph)
      BY <2>1, <2>2, <2>3 DEF Outcomes
    <3> QED
      BY <3>1, ConnectTwice
  <2>4. CASE Commands[next - 1] = "Globals"
    <3>1. graph \in Globals(g) /\ graph' \in Globals(graph)
      BY <2>1, <2>2, <2>4 DEF Outcomes
    <3> QED
      BY <3>1, GlobalsTyped
  <2>5. CASE Commands[next - 1] = "StarVariables"
    <3>1. graph \in StarVariables(g) /\ graph' \in StarVariables(graph)
      BY <2>1, <2>2, <2>5 DEF Outcomes
    <3> QED
      BY <3>1, StarTyped
  <2>6. CASE Commands[next - 1] = "Addresses"
    <3>1. graph \in Addresses(g) /\ graph' \in Addresses(graph)
      BY <2>1, <2>2, <2>6 DEF Outcomes
    <3> QED
      BY <3>1, AddressesTyped
  <2>7. CASE Commands[next - 1] = "MissingFlow"
    <3>1. graph \in MissingFlow(g) /\ graph' \in MissingFlow(graph)
      BY <2>1, <2>2, <2>7 DEF Outcomes
    <3> QED
      BY <3>1, MissingTyped
  <2>8. CASE Commands[next - 1] = "Arguments" /\ ReturnsDefineNone(graph)
    <3>1. graph \in Arguments(g) /\ graph' \in Arguments(graph)
      BY <2>1, <2>2, <2>8 DEF Outcomes
    <3>2. ReturnsDefineNone(g)
      BY <2>8, <3>1, ArgumentsTyped DEF ReturnsDefineNone
    <3> QED
      BY <3>1, <3>2, ArgumentsTwice
  <2>9. CASE Commands[next - 1] = "PropagateSizes"
    <3>1. graph \in PropagateSizes(g) /\ graph' \in PropagateSizes(graph)
      BY <2>1, <2>2, <2>9 DEF Outcomes
    <3> QED
      BY <3>1, PropagateTwice
  <2> QED
    BY <1>1, <2>3, <2>4, <2>5, <2>6, <2>7, <2>8, <2>9 DEF Repeatable
<1>2. GraphInv /\ [GraphNext]_graphVars => [RunAgain /\ Repeatable => graph' = graph]_graphVars
  BY <1>1
<1> QED
  BY <1>2, GraphInvariant, PTL DEF GraphSpec
-------------------------------------------------------------------------------
(* Trails, of any relationships or of those of one type: sequences without a *)
(* repetition in which each relationship begins where the last one ends.     *)
Chains(R)    == {t \in Seq(R) : /\ t # <<>>
                                /\ \A i, j \in 1..Len(t) : t[i] = t[j] => i = j
                                /\ \A i \in 2..Len(t) : t[i - 1].to = t[i].from}
OneType(R)   == {t \in Chains(R) : \A i \in 1..Len(t) : t[i].type = t[1].type}
Single(R)    == {<<r>> : r \in R}
OfLength(C, k)  == {t \in C : Len(t) = k}
More(R, C, T)   == {Append(p[1], p[2]) : p \in {q \in T \X R : Append(q[1], q[2]) \in C}}

LEMMA ChainFacts ==
  ASSUME NEW R, NEW t \in Chains(R)
  PROVE  /\ Len(t) \in Nat \ {0} /\ t = [i \in 1..Len(t) |-> t[i]]
         /\ \A i \in 1..Len(t) : t[i] \in R
         /\ t[1] \in R /\ Last(t) = t[Len(t)] /\ Last(t) \in R
         /\ ToSet(t) = {t[i] : i \in 1..Len(t)}
<1>1. t \in Seq(R) /\ t # <<>>
  BY DEF Chains
<1>2. Len(t) \in Nat \ {0} /\ DOMAIN t = 1..Len(t) /\ \A i \in 1..Len(t) : t[i] \in R
  BY <1>1
<1>3. t = [i \in 1..Len(t) |-> t[i]]
  BY <1>1
<1> QED
  BY <1>2, <1>3 DEF Last, ToSet

LEMMA AppendFacts ==
  ASSUME NEW R, NEW t \in Seq(R), NEW r \in R
  PROVE  /\ Append(t, r) \in Seq(R) /\ Len(Append(t, r)) = Len(t) + 1
         /\ Append(t, r) # <<>>
         /\ \A i \in 1..Len(t) : Append(t, r)[i] = t[i]
         /\ Append(t, r)[Len(t) + 1] = r
OBVIOUS

LEMMA AppendChain ==
  ASSUME NEW R, NEW t \in Chains(R), NEW r \in R
  PROVE  Append(t, r) \in Chains(R) <=> r \notin ToSet(t) /\ Last(t).to = r.from
<1> DEFINE u == Append(t, r)
           n == Len(t)
<1>1. /\ n \in Nat \ {0} /\ u \in Seq(R) /\ Len(u) = n + 1 /\ u # <<>>
      /\ \A i \in 1..n : u[i] = t[i]
      /\ u[n + 1] = r
  BY ChainFacts, AppendFacts DEF Chains
<1>2. Last(t) = t[n] /\ ToSet(t) = {t[i] : i \in 1..n}
  BY ChainFacts
<1> HIDE DEF u, n
<1>3. ASSUME u \in Chains(R) PROVE r \notin ToSet(t) /\ Last(t).to = r.from
  <2>1. \A i \in 1..n : u[i] = u[n + 1] => i = n + 1
    BY <1>1, <1>3 DEF Chains
  <2>2. u[(n + 1) - 1].to = u[n + 1].from
    BY <1>1, <1>3 DEF Chains
  <2>3. (n + 1) - 1 = n /\ n \in 1..n
    BY <1>1
  <2>4. \A i \in 1..n : t[i] # r
    BY <1>1, <2>1
  <2> QED
    BY <1>1, <1>2, <2>2, <2>3, <2>4
<1>4. ASSUME r \notin ToSet(t), Last(t).to = r.from PROVE u \in Chains(R)
  <2>1. /\ \A i, j \in 1..n : t[i] = t[j] => i = j
        /\ \A i \in 2..n : t[i - 1].to = t[i].from
    BY DEF Chains, n
  <2>2. ASSUME NEW i \in 1..n + 1, NEW j \in 1..n + 1, u[i] = u[j] PROVE i = j
    <3>1. i \in 1..n \/ i = n + 1
      BY <1>1
    <3>2. j \in 1..n \/ j = n + 1
      BY <1>1
    <3>3. \A k \in 1..n : t[k] # r
      BY <1>2, <1>4
    <3> QED
      BY <1>1, <2>1, <2>2, <3>1, <3>2, <3>3
  <2>3. ASSUME NEW i \in 2..n + 1 PROVE u[i - 1].to = u[i].from
    <3>1. i \in 2..n \/ i = n + 1
      BY <1>1
    <3>2. i - 1 \in 1..n
      BY <1>1
    <3> QED
      BY <1>1, <1>2, <1>4, <2>1, <3>1, <3>2
  <2> QED
    BY <1>1, <2>2, <2>3 DEF Chains
<1> QED
  BY <1>3, <1>4 DEF u

LEMMA AppendOneType ==
  ASSUME NEW R, NEW t \in OneType(R), NEW r \in R
  PROVE  Append(t, r) \in OneType(R) <=>
           r \notin ToSet(t) /\ Last(t).to = r.from /\ r.type = t[1].type
<1> DEFINE u == Append(t, r)
           n == Len(t)
<1>0. t \in Chains(R) /\ t \in Seq(R)
  BY DEF OneType, Chains
<1>1. /\ n \in Nat \ {0} /\ Len(u) = n + 1 /\ u[1] = t[1]
      /\ \A i \in 1..n : u[i] = t[i]
      /\ u[n + 1] = r
  BY <1>0, ChainFacts, AppendFacts
<1>2. u \in Chains(R) <=> r \notin ToSet(t) /\ Last(t).to = r.from
  BY <1>0, AppendChain
<1>3. \A i \in 1..n : t[i].type = t[1].type
  BY DEF OneType
<1> HIDE DEF u, n
<1>4. (\A i \in 1..n + 1 : u[i].type = u[1].type) <=> r.type = t[1].type
  <2>1. \A i \in 1..n + 1 : i \in 1..n \/ i = n + 1
    BY <1>1
  <2>2. n + 1 \in 1..n + 1
    BY <1>1
  <2> QED
    BY <1>1, <1>3, <2>1, <2>2
<1> QED
  BY <1>1, <1>2, <1>4 DEF OneType, u

(* A trail of more than one relationship is a shorter trail and one more.    *)
LEMMA Shorter ==
  ASSUME NEW R, NEW t \in Chains(R), Len(t) > 1
  PROVE  \E u \in Chains(R), r \in R : /\ t = Append(u, r) /\ Len(u) = Len(t) - 1
                                       /\ \A i \in 1..Len(u) : u[i] = t[i]
<1> DEFINE n == Len(t) - 1
           u == [i \in 1..n |-> t[i]]
           r == t[Len(t)]
<1>1. /\ Len(t) \in Nat \ {0} /\ n \in Nat \ {0} /\ Len(t) = n + 1
      /\ \A i \in 1..Len(t) : t[i] \in R
      /\ t \in Seq(R)
  BY ChainFacts DEF Chains
<1>2. u \in Seq(R) /\ Len(u) = n /\ r \in R /\ \A i \in 1..n : u[i] = t[i]
  BY <1>1
<1>3. /\ \A i, j \in 1..Len(t) : t[i] = t[j] => i = j
      /\ \A i \in 2..Len(t) : t[i - 1].to = t[i].from
  BY DEF Chains
<1>4. u # <<>>
  BY <1>1, <1>2
<1>5. Append(u, r) = t
  BY <1>1
<1> HIDE DEF n, u, r
<1>6. \A i, j \in 1..n : u[i] = u[j] => i = j
  BY <1>1, <1>2, <1>3
<1>7. \A i \in 2..n : u[i - 1].to = u[i].from
  BY <1>1, <1>2, <1>3
<1>8. u \in Chains(R)
  BY <1>2, <1>4, <1>6, <1>7 DEF Chains
<1> QED
  BY <1>1, <1>2, <1>5, <1>8

LEMMA ShorterOneType ==
  ASSUME NEW R, NEW t \in OneType(R), Len(t) > 1
  PROVE  \E u \in OneType(R), r \in R : t = Append(u, r) /\ Len(u) = Len(t) - 1
<1>1. t \in Chains(R) /\ \A i \in 1..Len(t) : t[i].type = t[1].type
  BY DEF OneType
<1>2. PICK u \in Chains(R), r \in R : /\ t = Append(u, r) /\ Len(u) = Len(t) - 1
                                      /\ \A i \in 1..Len(u) : u[i] = t[i]
  BY <1>1, Shorter
<1>3. Len(u) \in Nat \ {0} /\ Len(t) \in Nat
  BY <1>1, ChainFacts
<1>4. \A i \in 1..Len(u) : i \in 1..Len(t) /\ u[i] = t[i]
  BY <1>2, <1>3
<1>5. 1 \in 1..Len(u)
  BY <1>3
<1>6. \A i \in 1..Len(u) : u[i].type = u[1].type
  BY <1>1, <1>4, <1>5
<1> QED
  BY <1>2, <1>6 DEF OneType

(* No trail has more relationships than there are.                           *)
LEMMA ChainLength ==
  ASSUME NEW R, IsFiniteSet(R), NEW t \in Chains(R)
  PROVE  Len(t) \in 1..Cardinality(R) /\ Cardinality(R) \in Nat
<1>1. Len(t) \in Nat \ {0} /\ t = [i \in 1..Len(t) |-> t[i]] /\ \A i \in 1..Len(t) : t[i] \in R
  BY ChainFacts
<1> DEFINE n == Len(t)
<1>2. t \in Injection(1..n, R)
  <2>1. \A i, j \in 1..n : t[i] = t[j] => i = j
    BY DEF Chains
  <2>2. t \in [1..n -> R]
    BY <1>1
  <2> HIDE DEF n
  <2> QED
    BY <2>1, <2>2 DEF Injection, IsInjective
<1>3. IsFiniteSet(1..n) /\ Cardinality(1..n) = n
  <2>1. n \in Int /\ 1 \in Int /\ n >= 1
    BY <1>1
  <2> HIDE DEF n
  <2>2. /\ IsFiniteSet(1..n)
        /\ Cardinality(1..n) = IF 1 > n THEN 0 ELSE n - 1 + 1
    BY <2>1, FS_Interval
  <2> QED
    BY <2>1, <2>2
<1>4. Cardinality(1..n) <= Cardinality(R)
  BY <1>2, FS_Injection
<1> QED
  BY <1>1, <1>3, <1>4, FS_CardinalityType

(* What makes trails longer by one, of those of a length all of the next.    *)
LEMMA MoreIs ==
  ASSUME NEW R, NEW C, C \in {Chains(R), OneType(R)}, NEW k \in Nat \ {0}
  PROVE  More(R, C, OfLength(C, k)) = OfLength(C, k + 1)
<1>0. C \subseteq Chains(R)
  BY DEF OneType
<1>1. ASSUME NEW t \in More(R, C, OfLength(C, k)) PROVE t \in OfLength(C, k + 1)
  <2>1. PICK u \in OfLength(C, k), r \in R : t = Append(u, r) /\ t \in C
    BY DEF More
  <2>2. u \in Seq(R) /\ Len(u) = k
    BY <1>0 DEF OfLength, Chains
  <2>3. Len(t) = k + 1
    BY <2>1, <2>2
  <2> QED
    BY <2>1, <2>3 DEF OfLength
<1>2. ASSUME NEW t \in OfLength(C, k + 1) PROVE t \in More(R, C, OfLength(C, k))
  <2>1. t \in C /\ Len(t) > 1 /\ Len(t) - 1 = k
    BY DEF OfLength
  <2>2. \E u \in C, r \in R : t = Append(u, r) /\ Len(u) = Len(t) - 1
    <3>1. CASE C = Chains(R)
      BY <2>1, <3>1, Shorter
    <3>2. CASE C = OneType(R)
      BY <2>1, <3>2, ShorterOneType
    <3> QED
      BY <3>1, <3>2
  <2>3. PICK u \in C, r \in R : t = Append(u, r) /\ Len(u) = k
    BY <2>1, <2>2
  <2>4. u \in OfLength(C, k)
    BY <2>3 DEF OfLength
  <2> DEFINE p == <<u, r>>
  <2>5. p \in OfLength(C, k) \X R /\ t = Append(p[1], p[2])
    BY <2>3, <2>4
  <2> HIDE DEF p
  <2> QED
    BY <2>1, <2>5 DEF More
<1> QED
  BY <1>1, <1>2

LEMMA SinglesAre ==
  ASSUME NEW R, NEW C, C \in {Chains(R), OneType(R)}
  PROVE  Single(R) = OfLength(C, 1)
<1>0. C \subseteq Chains(R)
  BY DEF OneType
<1>1. ASSUME NEW r \in R PROVE <<r>> \in OfLength(C, 1)
  <2> DEFINE t == <<r>>
  <2>1. t \in Seq(R) /\ t # <<>> /\ Len(t) = 1 /\ t[1] = r
    OBVIOUS
  <2> HIDE DEF t
  <2>0. (\A i \in 1..Len(t) : i = 1) /\ \A i \in 2..Len(t) : FALSE
    BY <2>1
  <2>2. t \in Chains(R)
    BY <2>0, <2>1 DEF Chains
  <2>3. t \in OneType(R)
    BY <2>0, <2>2 DEF OneType
  <2> QED
    BY <2>1, <2>2, <2>3 DEF OfLength, t
<1>2. ASSUME NEW t \in OfLength(C, 1) PROVE t \in Single(R)
  <2>1. t \in Seq(R) /\ Len(t) = 1
    BY <1>0 DEF OfLength, Chains
  <2>2. t[1] \in R
    BY <2>1
  <2>3. t = <<t[1]>>
    BY <2>1
  <2> QED
    BY <2>2, <2>3 DEF Single
<1> QED
  BY <1>1, <1>2 DEF Single

(* Rounds that make trails longer find them all.                             *)
LEMMA RoundsAre ==
  ASSUME NEW R, IsFiniteSet(R), NEW C, C \in {Chains(R), OneType(R)}, NEW h,
         \A k \in 1..Cardinality(R) :
           IF k = 1 THEN h[k] = Single(R)
           ELSE h[k - 1] \subseteq C => h[k] = More(R, C, h[k - 1])
  PROVE  /\ \A k \in 1..Cardinality(R) : h[k] = OfLength(C, k)
         /\ UNION {h[k] : k \in 1..Cardinality(R)} = C
<1> DEFINE n == Cardinality(R)
<1>0. n \in Nat
  BY FS_CardinalityType
<1> DEFINE K == {k \in Nat : k + 1 \in 1..n => h[k + 1] = OfLength(C, k + 1)}
<1>1. 0 \in K
  <2>1. 0 + 1 = 1
    OBVIOUS
  <2>2. 1 \in 1..n => h[1] = Single(R)
    OBVIOUS
  <2> HIDE DEF n
  <2> QED
    BY <2>1, <2>2, SinglesAre
<1>2. ASSUME NEW k \in Nat, k \in K PROVE k + 1 \in K
  <2> SUFFICES ASSUME (k + 1) + 1 \in 1..n PROVE h[(k + 1) + 1] = OfLength(C, (k + 1) + 1)
    OBVIOUS
  <2>1. k + 1 \in 1..n /\ ((k + 1) + 1) - 1 = k + 1 /\ (k + 1) + 1 # 1 /\ k + 1 \in Nat \ {0}
    BY <1>0
  <2>3. h[k + 1] = OfLength(C, k + 1)
    BY <1>2, <2>1
  <2>2. h[(k + 1) + 1] = More(R, C, h[k + 1])
    BY <2>1, <2>3 DEF OfLength
  <2> QED
    BY <2>1, <2>2, <2>3, MoreIs
<1>3. Nat \subseteq K
  <2> HIDE DEF K
  <2> QED
    BY <1>1, <1>2, NatSetInduction
<1>4. ASSUME NEW k \in 1..n PROVE h[k] = OfLength(C, k)
  <2>1. k - 1 \in Nat /\ (k - 1) + 1 = k
    BY <1>0
  <2>2. k - 1 \in K
    BY <1>3, <2>1
  <2> QED
    BY <2>1, <2>2
<1>5. ASSUME NEW t \in C PROVE Len(t) \in 1..n
  <2>1. t \in Chains(R)
    BY DEF OneType
  <2> QED
    BY <2>1, ChainLength
<1> HIDE DEF n, K
<1>6. UNION {h[k] : k \in 1..n} = C
  BY <1>4, <1>5 DEF OfLength
<1> QED
  BY <1>4, <1>6 DEF n

LEMMA RoundsExist ==
  ASSUME NEW R, IsFiniteSet(R), R # {}, NEW C, C \in {Chains(R), OneType(R)}
  PROVE  \E h \in [1..Cardinality(R) -> SUBSET C] :
           h = [k \in 1..Cardinality(R) |-> IF k = 1 THEN Single(R) ELSE More(R, C, h[k - 1])]
<1> DEFINE n == Cardinality(R)
           D == SUBSET C
           F == [T \in D |-> More(R, C, T)]
<1>1. n \in Nat /\ 1 <= n
  <2>1. Cardinality(R) \in Nat /\ Cardinality(R) # 0
    BY FS_CardinalityType, FS_EmptySet
  <2> QED
    BY <2>1
<1>2. F \in [D -> D]
  BY DEF More
<1>3. Single(R) \in D
  BY SinglesAre DEF OfLength
<1> HIDE DEF n, D, F
<1>4. PICK h \in [1..n -> D] : Iterates(h, 1, n, Single(R), F)
  BY <1>1, <1>2, <1>3, IterationExists
<1>5. ASSUME NEW k \in 1..n, k # 1 PROVE F[h[k - 1]] = More(R, C, h[k - 1])
  <2>1. h[k - 1] \in D
    BY <1>1, <1>5
  <2> QED
    BY <2>1 DEF F
<1>6. h = [k \in 1..n |-> IF k = 1 THEN Single(R) ELSE F[h[k - 1]]]
  BY <1>4 DEF Iterates
<1>7. h = [k \in 1..n |-> IF k = 1 THEN Single(R) ELSE More(R, C, h[k - 1])]
  BY <1>5, <1>6
<1> QED
  BY <1>4, <1>7 DEF n, D

LEMMA OneMoreIs ==
  ASSUME NEW R, NEW T, T \subseteq Chains(R)
  PROVE  OneMore(R, T) = More(R, Chains(R), T)
<1>1. ASSUME NEW q \in T \X R
      PROVE  (q[2] \notin ToSet(q[1]) /\ Last(q[1]).to = q[2].from) <=> Append(q[1], q[2]) \in Chains(R)
  <2>1. q[1] \in Chains(R) /\ q[2] \in R
    OBVIOUS
  <2> QED
    BY <2>1, AppendChain
<1>2. {q \in T \X R : q[2] \notin ToSet(q[1]) /\ Last(q[1]).to = q[2].from}
        = {q \in T \X R : Append(q[1], q[2]) \in Chains(R)}
  BY <1>1
<1> QED
  BY <1>2 DEF OneMore, More

LEMMA LongerIs ==
  ASSUME NEW R, NEW T, T \subseteq OneType(R)
  PROVE  Longer(R, T) = More(R, OneType(R), T)
<1>1. ASSUME NEW q \in T \X R
      PROVE  (/\ q[2].from = Last(q[1]).to
              /\ q[2] \notin ToSet(q[1])
              /\ q[2].type = q[1][1].type) <=> Append(q[1], q[2]) \in OneType(R)
  <2>1. q[1] \in OneType(R) /\ q[2] \in R
    OBVIOUS
  <2> QED
    BY <2>1, AppendOneType
<1>2. {q \in T \X R : /\ q[2].from = Last(q[1]).to
                      /\ q[2] \notin ToSet(q[1])
                      /\ q[2].type = q[1][1].type}
        = {q \in T \X R : Append(q[1], q[2]) \in OneType(R)}
  BY <1>1
<1> QED
  BY <1>2 DEF Longer, More

(* The walks that the database matches, and those that HopsNFlows makes.     *)
LEMMA TrailsAre ==
  ASSUME NEW R, IsFiniteSet(R)
  PROVE  Trails(R) = Chains(R)
<1> DEFINE C == Chains(R)
           n == Cardinality(R)
           Is(h) == h = [k \in 1..n |-> IF k = 1 THEN {<<r>> : r \in R} ELSE OneMore(R, h[k - 1])]
           W == CHOOSE h : Is(h)
<1>0. n \in Nat
  BY FS_CardinalityType
<1>1. \E h : Is(h)
  <2>1. CASE R = {}
    <3> DEFINE h == [k \in {} |-> {}]
    <3>1. 1..n = {}
      BY <2>1, FS_EmptySet
    <3> HIDE DEF n
    <3>2. Is(h)
      BY <3>1
    <3> QED
      BY <3>2
  <2>2. CASE R # {}
    <3>1. PICK h \in [1..n -> SUBSET C] :
            h = [k \in 1..n |-> IF k = 1 THEN Single(R) ELSE More(R, C, h[k - 1])]
      BY <2>2, RoundsExist
    <3>2. ASSUME NEW k \in 1..n, k # 1 PROVE OneMore(R, h[k - 1]) = More(R, C, h[k - 1])
      <4>1. h[k - 1] \subseteq C
        BY <1>0, <3>1, <3>2
      <4> QED
        BY <4>1, OneMoreIs
    <3>3. Is(h)
      BY <3>1, <3>2 DEF Single
    <3> QED
      BY <3>3
  <2> QED
    BY <2>1, <2>2
<1>2. Is(W)
  <2> HIDE DEF Is
  <2> QED
    BY <1>1
<1>3. Trails(R) = IF R = {} THEN {} ELSE UNION {W[k] : k \in DOMAIN W}
  BY DEF Trails
<1> HIDE DEF W
<1>4. DOMAIN W = 1..n
  BY <1>2
<1>5. \A k \in 1..n : W[k] = IF k = 1 THEN Single(R) ELSE OneMore(R, W[k - 1])
  BY <1>2 DEF Single
<1> HIDE DEF C, n
<1>6. \A k \in 1..n : IF k = 1 THEN W[k] = Single(R)
                      ELSE W[k - 1] \subseteq C => W[k] = More(R, C, W[k - 1])
  BY <1>5, OneMoreIs DEF C
<1>7. UNION {W[k] : k \in 1..n} = C
  BY <1>6, RoundsAre DEF C, n
<1>8. R = {} => C = {}
  BY ChainFacts DEF C
<1> QED
  BY <1>3, <1>4, <1>7, <1>8 DEF C

HopTrails(R) ==
  LET Round[k \in 1..Cardinality(R)] ==
        IF k = 1 THEN {<<r>> : r \in R} ELSE Longer(R, Round[k - 1])
  IN  UNION Range(Round)

LEMMA HopTrailsAre ==
  ASSUME NEW R, IsFiniteSet(R)
  PROVE  HopTrails(R) = OneType(R)
<1> DEFINE C == OneType(R)
           n == Cardinality(R)
           Is(h) == h = [k \in 1..n |-> IF k = 1 THEN {<<r>> : r \in R} ELSE Longer(R, h[k - 1])]
           W == CHOOSE h : Is(h)
<1>0. n \in Nat
  BY FS_CardinalityType
<1>1. \E h : Is(h)
  <2>1. CASE R = {}
    <3> DEFINE h == [k \in {} |-> {}]
    <3>1. 1..n = {}
      BY <2>1, FS_EmptySet
    <3> HIDE DEF n
    <3>2. Is(h)
      BY <3>1
    <3> QED
      BY <3>2
  <2>2. CASE R # {}
    <3>1. PICK h \in [1..n -> SUBSET C] :
            h = [k \in 1..n |-> IF k = 1 THEN Single(R) ELSE More(R, C, h[k - 1])]
      BY <2>2, RoundsExist
    <3>2. ASSUME NEW k \in 1..n, k # 1 PROVE Longer(R, h[k - 1]) = More(R, C, h[k - 1])
      <4>1. h[k - 1] \subseteq C
        BY <1>0, <3>1, <3>2
      <4> QED
        BY <4>1, LongerIs
    <3>3. Is(h)
      BY <3>1, <3>2 DEF Single
    <3> QED
      BY <3>3
  <2> QED
    BY <2>1, <2>2
<1>2. Is(W)
  <2> HIDE DEF Is
  <2> QED
    BY <1>1
<1>3. HopTrails(R) = UNION Range(W)
  BY DEF HopTrails
<1> HIDE DEF W
<1>4. DOMAIN W = 1..n
  BY <1>2
<1>5. \A k \in 1..n : W[k] = IF k = 1 THEN Single(R) ELSE Longer(R, W[k - 1])
  BY <1>2 DEF Single
<1> HIDE DEF C, n
<1>6. \A k \in 1..n : IF k = 1 THEN W[k] = Single(R)
                      ELSE W[k - 1] \subseteq C => W[k] = More(R, C, W[k - 1])
  BY <1>5, LongerIs DEF C
<1>7. UNION {W[k] : k \in 1..n} = C
  BY <1>6, RoundsAre DEF C, n
<1> QED
  BY <1>3, <1>4, <1>7 DEF C, Range
-------------------------------------------------------------------------------
(* What the extractors find.                                                 *)
LEMMA RelFacts ==
  ASSUME NEW g \in Graphs
  PROVE  /\ IsFiniteSet(Relations(g))
         /\ \A r \in Relations(g) : /\ r.type \in {"CONTROLS", "FLOWS_TO", "REACHES"}
                                    /\ r.from \in Node /\ r.to \in Node
<1> DEFINE c == [e \in Control |-> Rel(e[1], e[2], "CONTROLS", {})]
           f == [r \in g.flow |-> Rel(r.from, r.to, "FLOWS_TO", {r})]
           d == [r \in g.reach |-> Rel(r.from, r.to, "REACHES", {r})]
<1>1. IsFiniteSet(Control) /\ \A e \in Control : e[1] \in Node /\ e[2] \in Node
  BY NodeEdges, ExtractorAssumption
<1>2. IsFiniteSet(g.flow) /\ IsFiniteSet(g.reach)
  BY GraphFinite
<1>3. IsFiniteSet({c[x] : x \in Control})
  BY <1>1, ImageFinite
<1>4. IsFiniteSet({f[x] : x \in g.flow})
  BY <1>2, ImageFinite
<1>5. IsFiniteSet({d[x] : x \in g.reach})
  BY <1>2, ImageFinite
<1>6. Relations(g) = ({c[x] : x \in Control} \union {f[x] : x \in g.flow}) \union {d[x] : x \in g.reach}
  BY DEF Relations
<1>7. IsFiniteSet(Relations(g))
  <2> HIDE DEF c, f, d
  <2>1. IsFiniteSet({c[x] : x \in Control} \union {f[x] : x \in g.flow})
    BY <1>3, <1>4, FS_Union
  <2>2. IsFiniteSet(({c[x] : x \in Control} \union {f[x] : x \in g.flow}) \union {d[x] : x \in g.reach})
    BY <1>5, <2>1, FS_Union
  <2> QED
    BY <1>6, <2>2
<1>8. ASSUME NEW r \in Relations(g)
      PROVE  r.type \in {"CONTROLS", "FLOWS_TO", "REACHES"} /\ r.from \in Node /\ r.to \in Node
  <2>1. /\ \A x \in g.flow : x.from \in Node /\ x.to \in Node
        /\ \A x \in g.reach : x.from \in Node /\ x.to \in Node
    BY DEF Graphs, FlowSet, DataSet
  <2>2. CASE \E e \in Control : r = Rel(e[1], e[2], "CONTROLS", {})
    BY <1>1, <2>2 DEF Rel
  <2>3. CASE \E x \in g.flow : r = Rel(x.from, x.to, "FLOWS_TO", {x})
    BY <2>1, <2>3 DEF Rel
  <2>4. CASE \E x \in g.reach : r = Rel(x.from, x.to, "REACHES", {x})
    BY <2>1, <2>4 DEF Rel
  <2> QED
    BY <2>2, <2>3, <2>4 DEF Relations
<1> QED
  BY <1>7, <1>8

LEMMA HopsAre ==
  ASSUME NEW g \in Graphs, NEW entry
  PROVE  Hops(g, entry) = {t \in OneType(Subgraph(g, entry)) :
                             /\ t[1].from # Last(t).to
                             /\ Upstream(t[1].from) /\ Downstream(Last(t).to)}
<1>1. Subgraph(g, entry) \subseteq Relations(g)
  BY DEF Subgraph
<1>2. IsFiniteSet(Subgraph(g, entry))
  BY <1>1, RelFacts, FS_Subset
<1>3. Hops(g, entry) = {t \in HopTrails(Subgraph(g, entry)) :
                             /\ t[1].from # Last(t).to
                             /\ Upstream(t[1].from) /\ Downstream(Last(t).to)}
  BY DEF Hops, HopTrails
<1> QED
  BY <1>2, <1>3, HopTrailsAre

LEMMA HopLabels ==
  ASSUME NEW g \in Graphs, NEW entry, NEW l \in DOMAIN HopCounts(g, entry)
  PROVE  l[2] \in {"CONTROLS", "FLOWS_TO", "REACHES"}
<1>1. PICK t \in Hops(g, entry) : l = TrailLabel(t, t[1].type)
  BY DEF HopCounts
<1>2. t \in Chains(Subgraph(g, entry))
  BY HopsAre DEF OneType
<1>3. t[1] \in Relations(g)
  <2>1. t[1] \in Subgraph(g, entry)
    BY <1>2, ChainFacts
  <2> QED
    BY <2>1 DEF Subgraph
<1> QED
  BY <1>1, <1>3, RelFacts DEF TrailLabel

LEMMA SharesAre ==
  ASSUME NEW row, \A l \in DOMAIN row : l[2] \in {"CONTROLS", "FLOWS_TO", "REACHES"}
  PROVE  HopShares(row) = SingleShares(row)
<1> DEFINE summed == [i \in DOMAIN SingleFlows |->
                        SumOf([l \in {x \in DOMAIN row : x[2] = SingleFlows[i]} |-> row[l]])]
           Total(flow) == SumOf([l \in {x \in DOMAIN row : x[2] = flow} |-> row[l]])
<1>1. /\ DOMAIN SingleFlows = 1..3 /\ SingleFlows[1] = "CONTROLS"
      /\ SingleFlows[2] = "REACHES" /\ SingleFlows[3] = "FLOWS_TO"
      /\ ToSet(SingleFlows) = {"CONTROLS", "FLOWS_TO", "REACHES"}
  <2>1. DOMAIN SingleFlows = 1..3 /\ SingleFlows[1] = "CONTROLS"
        /\ SingleFlows[2] = "REACHES" /\ SingleFlows[3] = "FLOWS_TO"
    BY DEF SingleFlows
  <2>2. \A i \in 1..3 : i = 1 \/ i = 2 \/ i = 3
    OBVIOUS
  <2>3. 1 \in 1..3 /\ 2 \in 1..3 /\ 3 \in 1..3
    OBVIOUS
  <2> QED
    BY <2>1, <2>2, <2>3 DEF ToSet
<1>2. ASSUME NEW l \in DOMAIN row
      PROVE  FlowIndex(l) \in DOMAIN SingleFlows /\ SingleFlows[FlowIndex(l)] = l[2]
  <2>1. l[2] \in ToSet(SingleFlows) /\ \E i \in DOMAIN SingleFlows : SingleFlows[i] = l[2]
    BY <1>1
  <2> QED
    BY <2>1 DEF FlowIndex
<1>3. ASSUME NEW l \in DOMAIN row PROVE summed[FlowIndex(l)] = Total(l[2])
  BY <1>2
<1> HIDE DEF summed, Total
<1>4. SingleShares(row) = [l \in DOMAIN row |-> Share(row[l], summed[FlowIndex(l)])]
  BY DEF SingleShares, summed
<1>5. HopShares(row) = [l \in DOMAIN row |-> Share(row[l], Total(l[2]))]
  BY DEF HopShares, Total
<1> QED
  BY <1>3, <1>4, <1>5

(* The shares are the same whichever of the two ways they are made in, in    *)
(* every row of every graph: no label is mistaken for one of another flow    *)
(* (finalize_features of hops_n_flows and of single_flow).                   *)
THEOREM SharesAreTheSame == GraphSpec => []SharesAgree
<1>1. GraphInv => SharesAgree
  BY HopLabels, SharesAre DEF GraphInv, SharesAgree
<1> QED
  BY <1>1, GraphInvariant, PTL

(* A trail stays a trail among fewer or more relationships that it goes by.  *)
LEMMA ChainElsewhere ==
  ASSUME NEW R, NEW S, NEW t \in Chains(R), \A i \in 1..Len(t) : t[i] \in S
  PROVE  t \in Chains(S)
<1>1. t = [i \in 1..Len(t) |-> t[i]] /\ Len(t) \in Nat
  BY ChainFacts
<1>2. t \in Seq(S)
  BY <1>1
<1> QED
  BY <1>2 DEF Chains

LEMMA SingleAre ==
  ASSUME NEW g \in Graphs, NEW entry, NEW l
  PROVE  l \in DOMAIN SingleCounts(g, entry) <=>
           \E t \in OneType(Relations(g)) :
             /\ Fn[t[1].from] = Fn[entry] /\ Upstream(t[1].from) /\ Downstream(Last(t).to)
             /\ l = TrailLabel(t, t[1].type)
<1> DEFINE Of(flow) == {r \in Relations(g) : r.type = flow}
           T == {t \in UNION {Trails(Of(flow)) : flow \in ToSet(FlowTypes)} :
                     /\ Fn[t[1].from] = Fn[entry]
                     /\ Upstream(t[1].from) /\ Downstream(Last(t).to)}
<1>1. \A f : Of(f) \subseteq Relations(g) /\ Trails(Of(f)) = Chains(Of(f))
  <2>1. ASSUME NEW f PROVE Of(f) \subseteq Relations(g) /\ Trails(Of(f)) = Chains(Of(f))
    <3>1. Of(f) \subseteq Relations(g)
      OBVIOUS
    <3>2. IsFiniteSet(Of(f))
      BY <3>1, RelFacts, FS_Subset
    <3> HIDE DEF Of
    <3> QED
      BY <3>1, <3>2, TrailsAre
  <2> QED
    BY <2>1
<1>2. ToSet(FlowTypes) = {"CONTROLS", "FLOWS_TO", "REACHES"}
  <2>1. DOMAIN FlowTypes = 1..3 /\ FlowTypes[1] = "CONTROLS"
        /\ FlowTypes[2] = "FLOWS_TO" /\ FlowTypes[3] = "REACHES"
    BY DEF FlowTypes
  <2>2. \A i \in 1..3 : i = 1 \/ i = 2 \/ i = 3
    OBVIOUS
  <2>3. 1 \in 1..3 /\ 2 \in 1..3 /\ 3 \in 1..3
    OBVIOUS
  <2> QED
    BY <2>1, <2>2, <2>3 DEF ToSet
<1>3. ASSUME NEW f, NEW t \in Chains(Of(f)) PROVE t \in OneType(Relations(g))
  <2>1. \A i \in 1..Len(t) : t[i] \in Of(f)
    BY <1>3, ChainFacts
  <2>2. t \in Chains(Relations(g))
    BY <1>3, <2>1, ChainElsewhere
  <2>3. t[1] \in Of(f)
    BY <1>3, ChainFacts
  <2> QED
    BY <2>1, <2>2, <2>3 DEF OneType
<1>4. ASSUME NEW t \in OneType(Relations(g))
      PROVE  t[1].type \in ToSet(FlowTypes) /\ t \in Chains(Of(t[1].type))
  <2>1. t \in Chains(Relations(g)) /\ \A i \in 1..Len(t) : t[i].type = t[1].type
    BY DEF OneType
  <2>2. t[1] \in Relations(g) /\ \A i \in 1..Len(t) : t[i] \in Relations(g)
    BY <2>1, ChainFacts
  <2>3. \A i \in 1..Len(t) : t[i] \in Of(t[1].type)
    BY <2>1, <2>2
  <2> HIDE DEF Of
  <2> QED
    BY <1>2, <2>1, <2>2, <2>3, RelFacts, ChainElsewhere
<1>5. DOMAIN SingleCounts(g, entry) = {TrailLabel(t, t[1].type) : t \in T}
  BY DEF SingleCounts
<1> HIDE DEF Of
<1>6. UNION {Trails(Of(flow)) : flow \in ToSet(FlowTypes)} = OneType(Relations(g))
  BY <1>1, <1>3, <1>4
<1> QED
  BY <1>5, <1>6

LEMMA OneTrail ==
  ASSUME NEW R, NEW r \in R
  PROVE  /\ <<r>> \in OneType(R) /\ <<r>>[1] = r /\ Last(<<r>>) = r
         /\ \A f : TrailLabel(<<r>>, f) = <<Ast[r.from], f, Ast[r.to]>>
<1>1. <<r>> \in OfLength(OneType(R), 1)
  BY SinglesAre DEF Single
<1>2. Last(<<r>>) = r
  BY DEF Last
<1> QED
  BY <1>1, <1>2 DEF OfLength, TrailLabel

LEMMA RawAre ==
  ASSUME NEW g \in Graphs, NEW entry, NEW l \in DOMAIN RawCounts(g, entry)
  PROVE  \E r \in Relations(g) :
           /\ Fn[r.from] = Fn[entry] /\ Upstream(r.from) /\ Downstream(r.to)
           /\ l = <<Ast[r.from], r.type, Ast[r.to]>>
<1>1. PICK r \in Relations(g) :
        /\ Fn[r.from] = Fn[entry] /\ Upstream(r.from) /\ Downstream(r.to)
        /\ l = TrailLabel(<<r>>, <<r>>[1].type)
  BY DEF RawCounts
<1> QED
  BY <1>1, OneTrail

LEMMA RawIsSingle ==
  ASSUME NEW g \in Graphs, NEW entry, NEW l \in DOMAIN RawCounts(g, entry)
  PROVE  l \in DOMAIN SingleCounts(g, entry)
<1>1. PICK r \in Relations(g) :
        /\ Fn[r.from] = Fn[entry] /\ Upstream(r.from) /\ Downstream(r.to)
        /\ l = <<Ast[r.from], r.type, Ast[r.to]>>
  BY RawAre
<1> DEFINE t == <<r>>
<1>2. /\ t \in OneType(Relations(g)) /\ t[1] = r /\ Last(t) = r
      /\ l = TrailLabel(t, r.type)
  BY <1>1, OneTrail
<1> HIDE DEF t
<1> QED
  BY <1>1, <1>2, SingleAre

(* What is in the function is not too far away from it.                      *)
LEMMA RawIsAll ==
  ASSUME NEW g \in Graphs, NEW entry, NEW l \in DOMAIN RawCounts(g, entry), l[1] # l[3]
  PROVE  <<l[1], <<l[2]>>, l[3]>> \in DOMAIN AllCounts(g, entry)
<1>1. PICK r \in Relations(g) :
        /\ Fn[r.from] = Fn[entry] /\ Upstream(r.from) /\ Downstream(r.to)
        /\ l = <<Ast[r.from], r.type, Ast[r.to]>>
  BY RawAre
<1>2. r.from \in Node /\ r.from # r.to
  BY <1>1, RelFacts
<1> DEFINE R == Relations(g)
           start == {n \in Node : Fn[n] = Fn[entry]}
           Is(h) == h = [k \in 0..5 |-> IF k = 0 THEN start
                                        ELSE LET S == h[k - 1] IN S \union Ahead(Pairs(R), S)]
           W == CHOOSE h : Is(h)
           one == {<<x>> : x \in {y \in R : y.from \in W[5] /\ Upstream(y.from)}}
           two == OneMore(R, one)
           T == {t \in one \union two \union OneMore(R, two) :
                   Downstream(Last(t).to) /\ t[1].from # Last(t).to}
           Label(t) == TrailLabel(t, [i \in DOMAIN t |-> t[i].type])
<1>3. \E h : Is(h)
  <2> DEFINE D == SUBSET Node
             F == [S \in D |-> S \union Ahead(Pairs(R), S)]
  <2>1. Pairs(R) \subseteq Node \X Node
    BY RelFacts DEF Pairs
  <2>2. start \in D /\ F \in [D -> D]
    BY <2>1 DEF Ahead
  <2> HIDE DEF D, F, start, R
  <2>3. PICK h \in [0..5 -> D] : Iterates(h, 0, 5, start, F)
    <3>1. 0 \in Nat /\ 5 \in Nat /\ 0 <= 5
      OBVIOUS
    <3> QED
      BY <2>2, <3>1, IterationExists
  <2>4. ASSUME NEW k \in 0..5, k # 0 PROVE F[h[k - 1]] = h[k - 1] \union Ahead(Pairs(R), h[k - 1])
    <3>1. h[k - 1] \in D
      BY <2>4
    <3> QED
      BY <3>1 DEF F
  <2>5. h = [k \in 0..5 |-> IF k = 0 THEN start ELSE F[h[k - 1]]]
    BY <2>3 DEF Iterates
  <2>6. Is(h)
    BY <2>4, <2>5
  <2> QED
    BY <2>6
<1>4. Is(W)
  <2> HIDE DEF Is
  <2> QED
    BY <1>3
<1>5. DOMAIN AllCounts(g, entry) = {Label(t) : t \in T}
  BY DEF AllCounts
<1> HIDE DEF W
<1>6. r.from \in W[5]
  <2>1. W[0] = start
    BY <1>4
  <2>2. /\ W[0] \subseteq W[1] /\ W[1] \subseteq W[2] /\ W[2] \subseteq W[3]
        /\ W[3] \subseteq W[4] /\ W[4] \subseteq W[5]
    <3> HIDE DEF start, R
    <3>0. \A k \in 0..5 : W[k] = IF k = 0 THEN start
                                 ELSE LET S == W[k - 1] IN S \union Ahead(Pairs(R), S)
      BY <1>4
    <3>1. \A k \in 1..5 : W[k] = W[k - 1] \union Ahead(Pairs(R), W[k - 1])
      <4>1. \A k \in 1..5 : k \in 0..5 /\ k # 0
        OBVIOUS
      <4> QED
        BY <3>0, <4>1
    <3>2. \A k \in 1..5 : W[k - 1] \subseteq W[k]
      BY <3>1
    <3> HIDE DEF Is
    <3> QED
      BY <3>2
  <2>3. r.from \in start
    BY <1>1, <1>2
  <2> QED
    BY <2>1, <2>2, <2>3
<1> DEFINE t == <<r>>
<1>7. t \in one
  BY <1>1, <1>6
<1>8. t[1] = r /\ Last(t) = r /\ DOMAIN t = {1}
  BY OneTrail
<1>9. Label(t) = <<l[1], <<l[2]>>, l[3]>>
  <2>1. [i \in DOMAIN t |-> t[i].type] = <<r.type>>
    BY <1>8
  <2>2. TrailLabel(t, <<r.type>>) = <<Ast[r.from], <<r.type>>, Ast[r.to]>>
    BY <1>8 DEF TrailLabel
  <2> QED
    BY <1>1, <2>1, <2>2
<1> HIDE DEF t, one, two
<1>10. t \in T
  BY <1>1, <1>2, <1>7, <1>8
<1> HIDE DEF T
<1> QED
  BY <1>5, <1>9, <1>10

(* Either way along a relationship, and what is connected that way.          *)
BothWays(E)       == E \union {<<e[2], e[1]>> : e \in E}
Near(E, entry)    == {entry} \union Reached(BothWays(E), {entry})

LEMMA PairsOfRel ==
  ASSUME NEW S, NEW type
  PROVE  Pairs({Rel(r.from, r.to, type, {r}) : r \in S}) = Pairs(S)
<1> DEFINE T == {Rel(r.from, r.to, type, {r}) : r \in S}
<1>1. ASSUME NEW x \in T PROVE \E r \in S : x.from = r.from /\ x.to = r.to
  BY DEF Rel
<1>2. ASSUME NEW r \in S PROVE \E x \in T : x.from = r.from /\ x.to = r.to
  <2>1. Rel(r.from, r.to, type, {r}) \in T
    OBVIOUS
  <2>2. Rel(r.from, r.to, type, {r}).from = r.from /\ Rel(r.from, r.to, type, {r}).to = r.to
    BY DEF Rel
  <2> HIDE DEF T
  <2> QED
    BY <2>1, <2>2
<1> HIDE DEF T
<1>3. Pairs(T) \subseteq Pairs(S)
  BY <1>1 DEF Pairs
<1>4. Pairs(S) \subseteq Pairs(T)
  BY <1>2 DEF Pairs
<1> QED
  BY <1>3, <1>4 DEF T

LEMMA RelPairs ==
  ASSUME NEW g \in Graphs
  PROVE  /\ Pairs(Relations(g)) = Control \union Pairs(g.flow) \union Pairs(g.reach)
         /\ Pairs(Relations(g)) \subseteq Node \X Node
<1> DEFINE c == {Rel(e[1], e[2], "CONTROLS", {}) : e \in Control}
           f == {Rel(r.from, r.to, "FLOWS_TO", {r}) : r \in g.flow}
           d == {Rel(r.from, r.to, "REACHES", {r}) : r \in g.reach}
<1>1. Pairs(c) = Control
  <2>1. \A e \in Control : e = <<e[1], e[2]>>
    BY ExtractorAssumption
  <2>2. \A e \in Control : Rel(e[1], e[2], "CONTROLS", {}).from = e[1]
                           /\ Rel(e[1], e[2], "CONTROLS", {}).to = e[2]
    BY DEF Rel
  <2> QED
    BY <2>1, <2>2 DEF Pairs
<1>2. Pairs(f) = Pairs(g.flow)
  BY PairsOfRel
<1>3. Pairs(d) = Pairs(g.reach)
  BY PairsOfRel
<1>4. Relations(g) = c \union f \union d
  BY DEF Relations
<1> HIDE DEF c, f, d
<1>5. Pairs(Relations(g)) = Pairs(c) \union Pairs(f) \union Pairs(d)
  BY <1>4 DEF Pairs
<1> QED
  BY <1>1, <1>2, <1>3, <1>5, PairsTyped, ExtractorAssumption

LEMMA BothWaysTyped ==
  ASSUME NEW E, E \subseteq Node \X Node
  PROVE  BothWays(E) \subseteq Node \X Node
BY DEF BothWays

(* Connecting the calls leaves the flow that does not come from a call.      *)
LEMMA LastingStays ==
  ASSUME GraphInv
  PROVE  Lasting \subseteq Pairs(Relations(graph))
<1>1. graph \in Graphs /\ graph.flow \in {Start, Joined}
  BY DEF GraphInv, FlowInv
<1>2. ASSUME NEW e \in Flows, \A c \in Invoked : c[1] # e[1]
      PROVE  e \in Pairs(graph.flow)
  <2>1. CASE graph.flow = Start
    BY <2>1, StartFacts
  <2>2. CASE graph.flow = Joined
    <3> DEFINE g == [flow |-> Start]
               r == Flow(e[1], e[2], {})
    <3>1. g.flow = Start /\ JoinedFlow(g) = Joined
      BY JoinedIs
    <3>2. r \in Start /\ r.from = e[1] /\ r.to = e[2] /\ e = <<e[1], e[2]>>
      BY StartFacts DEF Flow
    <3> HIDE DEF g, r
    <3>3. r \notin Cut(g)
      BY <1>2, <3>2, CutFacts
    <3>4. r \in Joined
      BY <3>1, <3>2, <3>3 DEF JoinedFlow
    <3> QED
      BY <2>2, <3>2, <3>4 DEF Pairs
  <2> QED
    BY <1>1, <2>1, <2>2
<1> QED
  BY <1>1, <1>2, RelPairs DEF Lasting

LEMMA SubgraphIs ==
  ASSUME NEW g \in Graphs, NEW entry
  PROVE  Subgraph(g, entry) = {r \in Relations(g) : r.from \in Near(Pairs(Relations(g)), entry)}
BY DEF Subgraph, Near, BothWays

LEMMA SingleIsHop ==
  ASSUME GraphInv, Connected, NEW e \in Entrypoints(graph),
         NEW l \in DOMAIN SingleCounts(graph, e), l[1] # l[3]
  PROVE  l \in DOMAIN HopCounts(graph, e)
<1> DEFINE E == Pairs(Relations(graph))
           R == Relations(graph)
<1>0. graph \in Graphs /\ E \subseteq Node \X Node /\ BothWays(E) \subseteq Node \X Node
  BY RelPairs, BothWaysTyped DEF GraphInv
<1>1. PICK t \in OneType(R) :
        /\ Fn[t[1].from] = Fn[e] /\ Upstream(t[1].from) /\ Downstream(Last(t).to)
        /\ l = TrailLabel(t, t[1].type)
  BY <1>0, SingleAre
<1>2. /\ t \in Chains(R) /\ Len(t) \in Nat \ {0} /\ t[1] \in R /\ Last(t) \in R
      /\ \A i \in 1..Len(t) : t[i] \in R
      /\ \A i \in 1..Len(t) : t[i].type = t[1].type
      /\ \A i \in 2..Len(t) : t[i - 1].to = t[i].from
  BY <1>1, ChainFacts DEF OneType, Chains
<1>3. t[1].from \in Near(E, e)
  <2>1. e \in Node /\ Kind[e] = Entry /\ t[1].from \in Node
    BY <1>0, <1>2, RelFacts DEF Entrypoints
  <2>2. t[1].from \in Near(Lasting, e)
    BY <1>1, <2>1 DEF Connected, Near, BothWays
  <2>3. BothWays(Lasting) \subseteq BothWays(E)
    BY LastingStays DEF BothWays
  <2>4. Reached(BothWays(Lasting), {e}) \subseteq Reached(BothWays(E), {e})
    BY <1>0, <2>3, ReachedWider
  <2> QED
    BY <2>2, <2>4 DEF Near
<1>4. ASSUME NEW r \in R, r.from \in Near(E, e) PROVE r.to \in Near(E, e)
  <2> DEFINE x == <<r.from, r.to>>
  <2>1. x \in BothWays(E) /\ x[1] = r.from /\ x[2] = r.to
    BY DEF BothWays, Pairs
  <2> HIDE DEF x, E, R
  <2>2. x[2] \in Reached(BothWays(E), {e})
    BY <1>0, <1>4, <2>1, ReachedStep DEF Near
  <2> QED
    BY <2>1, <2>2 DEF Near
<1> HIDE DEF E, R
<1> DEFINE K == {k \in Nat : k + 1 \in 1..Len(t) => t[k + 1].from \in Near(E, e)}
<1>5. 0 \in K
  BY <1>3
<1>6. ASSUME NEW k \in Nat, k \in K PROVE k + 1 \in K
  <2> SUFFICES ASSUME (k + 1) + 1 \in 1..Len(t) PROVE t[(k + 1) + 1].from \in Near(E, e)
    OBVIOUS
  <2>1. k + 1 \in 1..Len(t) /\ (k + 1) + 1 \in 2..Len(t) /\ ((k + 1) + 1) - 1 = k + 1
    BY <1>2
  <2>2. t[k + 1].to = t[(k + 1) + 1].from
    BY <1>2, <2>1
  <2>3. t[k + 1] \in R /\ t[k + 1].from \in Near(E, e)
    BY <1>2, <1>6, <2>1
  <2> QED
    BY <1>4, <2>2, <2>3
<1>7. Nat \subseteq K
  <2> HIDE DEF K
  <2> QED
    BY <1>5, <1>6, NatSetInduction
<1>8. ASSUME NEW i \in 1..Len(t) PROVE t[i] \in Subgraph(graph, e)
  <2>1. i - 1 \in Nat /\ (i - 1) + 1 = i
    BY <1>2
  <2>2. t[i].from \in Near(E, e)
    BY <1>7, <2>1
  <2> QED
    BY <1>0, <1>2, <2>2, SubgraphIs DEF E, R
<1>9. t \in OneType(Subgraph(graph, e))
  <2>1. t \in Chains(Subgraph(graph, e))
    BY <1>2, <1>8, ChainElsewhere
  <2> QED
    BY <1>2, <2>1 DEF OneType
<1>10. t[1].from # Last(t).to
  BY <1>1 DEF TrailLabel
<1>11. t \in Hops(graph, e)
  BY <1>0, <1>1, <1>9, <1>10, HopsAre
<1> QED
  BY <1>1, <1>11 DEF HopCounts

(* Before the calls are connected nothing leads out of the function.         *)
LEMMA HopIsSingle ==
  ASSUME GraphInv, WithinFunctions, next <= 7, NEW e \in Entrypoints(graph),
         NEW l \in DOMAIN HopCounts(graph, e)
  PROVE  l \in DOMAIN SingleCounts(graph, e)
<1> DEFINE E == Pairs(Relations(graph))
<1>0. graph \in Graphs /\ E \subseteq Node \X Node /\ BothWays(E) \subseteq Node \X Node
  BY RelPairs, BothWaysTyped DEF GraphInv
<1>1. PICK t \in OneType(Subgraph(graph, e)) :
        /\ Upstream(t[1].from) /\ Downstream(Last(t).to)
        /\ l = TrailLabel(t, t[1].type)
  BY <1>0, HopsAre DEF HopCounts
<1>2. t \in Chains(Subgraph(graph, e)) /\ \A i \in 1..Len(t) : t[i].type = t[1].type
  BY <1>1 DEF OneType
<1>3. t[1] \in Subgraph(graph, e) /\ \A i \in 1..Len(t) : t[i] \in Subgraph(graph, e)
  BY <1>2, ChainFacts
<1>4. t \in OneType(Relations(graph))
  <2>1. \A i \in 1..Len(t) : t[i] \in Relations(graph)
    BY <1>3 DEF Subgraph
  <2>2. t \in Chains(Relations(graph))
    BY <1>2, <2>1, ChainElsewhere
  <2> QED
    BY <1>2, <2>2 DEF OneType
<1>5. \A x \in E : Fn[x[1]] = Fn[x[2]]
  <2>1. Pairs(graph.flow) = Flows
    BY StartFacts DEF GraphInv, FlowInv
  <2>2. \A x \in Pairs(graph.reach) : Fn[x[1]] = Fn[x[2]]
    BY DEF GraphInv, LocalInv
  <2> QED
    BY <1>0, <2>1, <2>2, RelPairs DEF WithinFunctions
<1> HIDE DEF E
<1>6. Near(E, e) \subseteq {n \in Node : Fn[n] = Fn[e]}
  <2> DEFINE T == {n \in Node : Fn[n] = Fn[e]}
  <2>1. \A x \in BothWays(E) : Fn[x[1]] = Fn[x[2]] /\ x[2] \in Node
    BY <1>0, <1>5 DEF BothWays
  <2>2. Ahead(BothWays(E), {e}) \subseteq T /\ Ahead(BothWays(E), T) \subseteq T
    BY <2>1 DEF Ahead
  <2> HIDE DEF T
  <2>3. Reached(BothWays(E), {e}) \subseteq T
    BY <1>0, <2>2, ReachedLeast, NodeEdges
  <2>4. e \in T
    BY DEF T, Entrypoints
  <2> QED
    BY <2>3, <2>4 DEF Near, T
<1>7. Fn[t[1].from] = Fn[e]
  BY <1>0, <1>3, <1>6, SubgraphIs DEF E
<1> QED
  BY <1>0, <1>1, <1>4, <1>7, SingleAre

(* The extractors find the same labels in every graph that Joern may import, *)
(* before and after the calls are connected: of a trail that does not end at *)
(* the markup it began with, each makes a feature if the other does          *)
(* (hops_n_flows, single_flow, raw and all_flows of bag_of_words).           *)
THEOREM ExtractorsFindTheSame ==
  ASSUME WithinFunctions, Connected
  PROVE  GraphSpec => []ExtractorsAgree
<1>1. GraphInv => ExtractorsAgree
  <2> SUFFICES ASSUME GraphInv, NEW e \in Entrypoints(graph)
               PROVE  LET hops   == DOMAIN HopCounts(graph, e)
                          single == DOMAIN SingleCounts(graph, e)
                          raw    == DOMAIN RawCounts(graph, e)
                      IN  /\ raw \subseteq single
                          /\ \A l \in raw : l[1] # l[3] =>
                               <<l[1], <<l[2]>>, l[3]>> \in DOMAIN AllCounts(graph, e)
                          /\ \A l \in single \ hops : l[1] = l[3]
                          /\ ~Done("Connect") => hops \subseteq single
    BY DEF ExtractorsAgree
  <2>1. graph \in Graphs /\ (~Done("Connect") => next <= 7)
    <3>1. Done(Commands[7]) <=> next > 7
      BY DoneIs
    <3> QED
      BY <3>1, CommandFacts DEF GraphInv
  <2> QED
    BY <2>1, RawIsSingle, RawIsAll, SingleIsHop, HopIsSingle
<1> QED
  BY <1>1, GraphInvariant, PTL
-------------------------------------------------------------------------------
(***************************************************************************)
(* The container that the database, or Joern, runs in (ContainerRun), for  *)
(* any names, kinds of operations and numbers of retries and faults.       *)
(***************************************************************************)

(* The suffix is drawn once: whatever the daemon knows is under that name.   *)
NameInv == /\ \A n \in Names : daemon[n] # "absent" => n = name
           /\ pc = "configure" => daemon[name] = "absent"

(* The container is handed over once, after the last attempt.                *)
HandedInv == /\ pc \in {"configure", "start", "wait"} => container = FALSE
             /\ pc \in {"commands", "returned"} => container = TRUE
             /\ pc \in {"configure", "start", "wait", "commands"} => error = FALSE
             /\ pc = "finally" /\ error = FALSE => container = TRUE

(* As long as attempts are made, one is left.                                *)
TriesInv == pc \in {"configure", "start", "wait"} => tries # 0

(* What is known of a container that was handed over.                        *)
DaemonInv == /\ pc = "wait" => ~detach
             /\ container /\ detach => daemon[name] \notin {"absent", "created"}
             /\ container /\ ~detach => daemon[name] = "absent"

ContainerInv == TypeOK /\ NameInv /\ HandedInv /\ TriesInv /\ DaemonInv /\ StartedIsStopped
-------------------------------------------------------------------------------
LEMMA ContainerInvInit == Init => ContainerInv
<1> SUFFICES ASSUME Init PROVE ContainerInv
  OBVIOUS
<1>1. TypeOK
  <2>1. tries \in 0..StartRetries /\ faults \in 0..MaxFaults /\ tries # 0
    BY ContainerAssumption DEF Init
  <2> QED BY <2>1 DEF Init, TypeOK, States
<1>2. TriesInv
  BY ContainerAssumption DEF Init, TriesInv
<1>3. NameInv /\ HandedInv /\ DaemonInv /\ StartedIsStopped
  BY DEF Init, NameInv, HandedInv, DaemonInv, StartedIsStopped, Ended
<1> QED
  BY <1>1, <1>2, <1>3 DEF ContainerInv

(* An attempt that failed is counted, and the next state is typed.           *)
LEMMA FailedTyped ==
  ASSUME TypeOK, tries # 0, AttemptFailed
  PROVE  /\ tries' \in 0..StartRetries
         /\ pc' \in {"start", "finally"} /\ error' \in BOOLEAN
         /\ pc' = "start" => tries' # 0
<1>1. tries' \in 0..StartRetries /\ (tries # 1 => tries' # 0)
  BY ContainerAssumption DEF TypeOK, AttemptFailed
<1>2. pc' \in {"start", "finally"} /\ error' \in BOOLEAN /\ (pc' = "start" => tries # 1)
  BY Zenon DEF TypeOK, AttemptFailed, Raise
<1> QED BY <1>1, <1>2

LEMMA FaultTyped == TypeOK /\ (Fault \/ UNCHANGED faults) => faults' \in 0..MaxFaults
BY ContainerAssumption DEF TypeOK, Fault

LEMMA ContainerTypePreserved == ContainerInv /\ [Next]_vars => TypeOK'
<1> SUFFICES ASSUME ContainerInv, [Next]_vars PROVE TypeOK'
  OBVIOUS
<1>a. TypeOK /\ (pc \in {"start", "wait"} => tries # 0)
  BY DEF ContainerInv, TriesInv
<1> USE <1>a DEF TypeOK, States, Ended
<1>1. CASE Configure BY <1>1, Zenon DEF Configure, Raise
<1>2. CASE CreateRefused BY <1>2, FailedTyped, FaultTyped, Zenon DEF CreateRefused
<1>3. CASE StartRefused BY <1>3, FailedTyped, FaultTyped DEF StartRefused
<1>4. CASE AnswerLost BY <1>4, FailedTyped, FaultTyped DEF AnswerLost
<1>5. CASE Started BY <1>5 DEF Started, detach
<1>6. CASE BatchEnded BY <1>6, FailedTyped DEF BatchEnded
<1>7. CASE SendCommands BY <1>7 DEF SendCommands, Raise
<1>8. CASE Finally BY <1>8 DEF Finally
<1>9. ASSUME NEW n \in Names, EntryPointEnds(n) PROVE TypeOK'
  BY <1>9, FaultTyped DEF EntryPointEnds
<1>10. CASE UNCHANGED vars BY <1>10 DEF vars
<1> QED
  BY <1>1, <1>2, <1>3, <1>4, <1>5, <1>6, <1>7, <1>8, <1>9, <1>10 DEF Next

(* Every step of the program and of the containers keeps what is said of     *)
(* names, of the container and of its state.                                 *)
LEMMA ContainerInvKept == ContainerInv /\ [Next]_vars => ContainerInv'
<1> SUFFICES ASSUME ContainerInv, [Next]_vars
             PROVE  (NameInv /\ HandedInv /\ TriesInv /\ DaemonInv /\ StartedIsStopped)'
  BY ContainerTypePreserved DEF ContainerInv
<1> USE DEF ContainerInv, TypeOK, NameInv, HandedInv, TriesInv, DaemonInv, StartedIsStopped,
            detach, Ended, Raise, AttemptFailed
<1>1. CASE Configure BY <1>1 DEF Configure
<1>2. CASE CreateRefused BY <1>2 DEF CreateRefused
<1>3. CASE StartRefused BY <1>3 DEF StartRefused
<1>4. CASE AnswerLost BY <1>4 DEF AnswerLost
<1>5. CASE Started BY <1>5 DEF Started
<1>6. CASE BatchEnded BY <1>6 DEF BatchEnded
<1>7. CASE SendCommands BY <1>7 DEF SendCommands
<1>8. CASE Finally BY <1>8 DEF Finally
<1>9. ASSUME NEW n \in Names, EntryPointEnds(n)
      PROVE (NameInv /\ HandedInv /\ TriesInv /\ DaemonInv /\ StartedIsStopped)'
  BY <1>9 DEF EntryPointEnds
<1>10. CASE UNCHANGED vars BY <1>10 DEF vars
<1> QED
  BY <1>1, <1>2, <1>3, <1>4, <1>5, <1>6, <1>7, <1>8, <1>9, <1>10 DEF Next

LEMMA ContainerInvariant == Spec => []ContainerInv
<1> QED BY ContainerInvInit, ContainerInvKept, PTL DEF Spec
-------------------------------------------------------------------------------
(* The state of an execution has its types.                                  *)
THEOREM ContainerTypeCorrect == Spec => []TypeOK
<1>1. ContainerInv => TypeOK
  BY DEF ContainerInv
<1> QED BY <1>1, ContainerInvariant, PTL

(* However an execution ends, the container it was handed does not go on.    *)
THEOREM ContainerIsStopped == Spec => []StartedIsStopped
<1>1. ContainerInv => StartedIsStopped
  BY DEF ContainerInv
<1> QED BY <1>1, ContainerInvariant, PTL

(* No two containers ever do, or have done, the work of one execution,       *)
(* however many attempts are made and whatever the daemon answers.           *)
THEOREM WorkIsNotRepeated == Spec => []WorkNotRepeated
<1>1. ASSUME ContainerInv PROVE WorkNotRepeated
  <2> DEFINE W == {n \in Names : daemon[n] \in {"running", "finished"}}
  <2>1. W \subseteq {name}
    BY <1>1 DEF ContainerInv, NameInv
  <2>2. IsFiniteSet({name}) /\ Cardinality({name}) = 1
    BY FS_Singleton
  <2>3. Cardinality(W) <= 1
    <3>1. Cardinality(W) <= Cardinality({name})
      BY <2>1, <2>2, FS_Subset
    <3> QED BY <3>1, <2>2
  <2>4. pc = "commands" /\ ~detach => \A n \in Names : daemon[n] # "running"
    BY <1>1 DEF ContainerInv, TypeOK, NameInv, HandedInv, DaemonInv
  <2> QED BY <2>3, <2>4 DEF WorkNotRepeated
<1> QED BY <1>1, ContainerInvariant, PTL

(* An execution that returns had a container, and leaves neither one that    *)
(* never ran nor that of a batch.                                            *)
THEOREM ReturnsAreClean == Spec => []ReturnIsClean
<1>1. ContainerInv => ReturnIsClean
  BY DEF ContainerInv, TypeOK, NameInv, HandedInv, DaemonInv, ReturnIsClean, detach
<1> QED BY <1>1, ContainerInvariant, PTL
===============================================================================
