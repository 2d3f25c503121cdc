-------------------------- MODULE A15ComplexProofs --------------------------
(***************************************************************************)
(* ComponentsAreReachable and BoundsHold hold in every reachable state of  *)
(* A15Complex, for any vertices that are numbers and any bound; nothing    *)
(* limits the edges or the faces, but that their vertices are distinct.    *)
(*                                                                         *)
(* The invariant is IsComplex with the three sets finite.  That it gives   *)
(* the two properties is shown of operators, in four parts:                *)
(*   - Graphs: classes of connected vertices, defined by the sets no edge  *)
(*     leads out of, and what one more edge does to them;                  *)
(*   - Union-find: a bounded depth that every parent link descends makes   *)
(*     find end; path halving keeps the roots, a turn of the loop joins    *)
(*     two trees.  Joins ties the map to the classes of the edges visited; *)
(*   - The reference: ComponentOf is the class of its vertex;              *)
(*   - Chains: sums are linear, a span has a power of two of them, the     *)
(*     rank of the edges and the classes add up to the vertices, rank and  *)
(*     cycles to the edges; the sides of a triangle are a cycle.           *)
(***************************************************************************)
EXTENDS A15Complex, FiniteSetTheorems, WellFoundedInduction, TLAPS
----------------------------------------------------------------------------
(* Induction and finite sets.                                              *)


(* Induction over the naturals, for a set.                                 *)
LEMMA NatSetInduction ==
  ASSUME NEW T, 0 \in T, \A n \in Nat : n \in T => n + 1 \in T
  PROVE  Nat \subseteq T
<1> SUFFICES ASSUME Nat \ T # {} PROVE FALSE
  OBVIOUS
<1> DEFINE R == OpToRel(<, Nat)
<1>0. IsWellFoundedOn(R, Nat)
  BY NatLessThanWellFounded
<1>1. \A x, y \in Nat : x < y => <<x, y>> \in R
  BY DEF OpToRel
<1> HIDE DEF R
<1>2. PICK x \in Nat \ T : \A y \in Nat \ T : ~ (<<y, x>> \in R)
  BY <1>0, WFMin
<1>3. x # 0 /\ x - 1 \in Nat /\ x - 1 < x /\ (x - 1) + 1 = x
  BY <1>2
<1>4. x - 1 \in T
  BY <1>1, <1>2, <1>3
<1> QED
  BY <1>2, <1>3, <1>4

(* Induction over the subsets of a finite set, for a set of them.          *)
LEMMA SetInduction ==
  ASSUME NEW S, IsFiniteSet(S), NEW Q, {} \in Q,
         \A T \in SUBSET S : \A x \in S : T \in Q /\ x \notin T => T \cup {x} \in Q
  PROVE  S \in Q
<1> DEFINE N == {n \in Nat : \A T \in SUBSET S : Cardinality(T) = n => T \in Q}
<1>1. 0 \in N
  BY FS_Subset, FS_EmptySet
<1>2. ASSUME NEW n \in Nat, n \in N PROVE n + 1 \in N
  <2> SUFFICES ASSUME NEW T \in SUBSET S, Cardinality(T) = n + 1 PROVE T \in Q
    OBVIOUS
  <2>1. IsFiniteSet(T) /\ T # {}
    BY FS_Subset, FS_EmptySet
  <2>2. PICK x \in T : TRUE
    BY <2>1
  <2>3. Cardinality(T \ {x}) = n
    <3>1. Cardinality(T \ {x}) = Cardinality(T) - 1
      BY <2>1, <2>2, FS_RemoveElement
    <3> QED BY <3>1
  <2>4. T \ {x} \in Q
    BY <1>2, <2>3
  <2>5. (T \ {x}) \cup {x} = T
    BY <2>2
  <2> QED
    BY <2>2, <2>4, <2>5
<1>3. Nat \subseteq N
  <2> HIDE DEF N
  <2> QED BY <1>1, <1>2, NatSetInduction
<1>4. Cardinality(S) \in Nat
  BY FS_CardinalityType
<1> QED
  BY <1>3, <1>4

(* A finite set of two elements is a pair; its least and greatest element  *)
(* are these.                                                              *)
LEMMA Pairs ==
  ASSUME NEW e, IsFiniteSet(e), Cardinality(e) = 2
  PROVE  \E a, b \in e : a # b /\ e = {a, b}
<1>1. PICK a \in e : TRUE
  BY FS_EmptySet
<1>2. IsFiniteSet(e \ {a}) /\ Cardinality(e \ {a}) = 1
  BY <1>1, FS_RemoveElement
<1>3. PICK b : e \ {a} = {b}
  BY <1>2, FS_Singleton
<1> QED
  BY <1>1, <1>3

(* The ends of an edge of numbers are its least and its greatest vertex.   *)
LEMMA Ends ==
  ASSUME NEW e \in SUBSET Nat, IsFiniteSet(e), Cardinality(e) = 2
  PROVE  Min(e) \in e /\ Max(e) \in e /\ Min(e) # Max(e) /\ e = {Min(e), Max(e)}
<1>1. PICK a, b \in e : a # b /\ e = {a, b}
  BY Pairs
<1>2. a \in Nat /\ b \in Nat
  OBVIOUS
<1>3. CASE a < b
  <2>1. Min(e) = a
    BY <1>1, <1>2, <1>3 DEF Min
  <2>2. Max(e) = b
    BY <1>1, <1>2, <1>3 DEF Max
  <2> QED BY <1>1, <2>1, <2>2
<1>4. CASE b < a
  <2>1. Min(e) = b
    BY <1>1, <1>2, <1>4 DEF Min
  <2>2. Max(e) = a
    BY <1>1, <1>2, <1>4 DEF Max
  <2> QED BY <1>1, <2>1, <2>2
<1> QED
  BY <1>1, <1>2, <1>3, <1>4

\* A function that takes every value once.
LEMMA OneToOne ==
  ASSUME NEW S, IsFiniteSet(S), NEW T, NEW f \in [S -> T],
         \A t \in T : \E s \in S : f[s] = t,
         \A r, s \in S : f[r] = f[s] => r = s
  PROVE  IsFiniteSet(T) /\ Cardinality(T) = Cardinality(S)
<1>1. f \in Surjection(S, T)
  BY DEF Surjection
<1>2. f \in Injection(S, T)
  BY DEF Injection, IsInjective
<1> QED
  BY <1>1, <1>2, FS_Surjection

\* The symmetric difference, the sum of two chains.
Plus(A, B) == (A \ B) \cup (B \ A)

----------------------------------------------------------------------------
(* Graphs: what edges connect.                                             *)

\* A finite set of vertices and edges between them.
Graph(V, E) ==
  /\ IsFiniteSet(V)
  /\ \A e \in E : \E a, b \in V : a # b /\ e = {a, b}

\* No edge leads out of S.
Closed(S, E) == \A e \in E : e \cap S # {} => e \subseteq S

\* The vertices that no closed set separates from v, and the set of these
\* classes.
Class(V, E, v) == {u \in V : \A S \in SUBSET V : v \in S /\ Closed(S, E) => u \in S}
Classes(V, E)  == {Class(V, E, v) : v \in V}

(* A class is inside every closed set that its vertex is in.               *)
LEMMA ClassIsLeast ==
  ASSUME NEW V, NEW E, NEW v, NEW S \in SUBSET V, v \in S, Closed(S, E)
  PROVE  Class(V, E, v) \subseteq S
BY DEF Class

(* No edge leads out of a class.                                           *)
LEMMA ClassIsClosed ==
  ASSUME NEW V, NEW E, Graph(V, E), NEW v \in V
  PROVE  /\ v \in Class(V, E, v) /\ Class(V, E, v) \subseteq V
         /\ Closed(Class(V, E, v), E)
<1>1. v \in Class(V, E, v) /\ Class(V, E, v) \subseteq V
  BY DEF Class
<1>2. ASSUME NEW e \in E, NEW x \in e, x \in Class(V, E, v), NEW y \in e
      PROVE  y \in Class(V, E, v)
  <2>1. y \in V
    BY DEF Graph
  <2>2. ASSUME NEW S \in SUBSET V, v \in S, Closed(S, E) PROVE y \in S
    <3>1. x \in S
      BY <1>2, <2>2 DEF Class
    <3> QED BY <2>2, <3>1 DEF Closed
  <2> QED BY <2>1, <2>2 DEF Class
<1> QED
  BY <1>1, <1>2 DEF Closed

(* Every vertex of a class has that class.                                 *)
LEMMA ClassOfMember ==
  ASSUME NEW V, NEW E, Graph(V, E), NEW v \in V, NEW u \in Class(V, E, v)
  PROVE  u \in V /\ Class(V, E, u) = Class(V, E, v)
<1>1. u \in V
  BY ClassIsClosed
<1>2. Class(V, E, u) \subseteq Class(V, E, v)
  BY ClassIsClosed, ClassIsLeast
<1>3. v \in Class(V, E, u)
  <2> SUFFICES ASSUME v \notin Class(V, E, u) PROVE FALSE
    OBVIOUS
  <2>1. Closed(V \ Class(V, E, u), E)
    <3>1. Closed(Class(V, E, u), E)
      BY <1>1, ClassIsClosed
    <3>2. \A e \in E : e \subseteq V
      BY DEF Graph
    <3> QED BY <3>1, <3>2 DEF Closed
  <2>2. Class(V, E, v) \subseteq V \ Class(V, E, u)
    BY <2>1, ClassIsLeast
  <2> QED BY <1>1, <2>2, ClassIsClosed
<1>4. Class(V, E, u) \subseteq V /\ Closed(Class(V, E, u), E)
  BY <1>1, ClassIsClosed
<1>5. Class(V, E, v) \subseteq Class(V, E, u)
  BY <1>3, <1>4, ClassIsLeast
<1> QED
  BY <1>1, <1>2, <1>5

\* Two vertices are in one class or in disjoint ones.
LEMMA ClassesDisjoint ==
  ASSUME NEW V, NEW E, Graph(V, E), NEW u \in V, NEW v \in V
  PROVE  /\ u \in Class(V, E, v) <=> Class(V, E, u) = Class(V, E, v)
         /\ Class(V, E, u) # Class(V, E, v) => Class(V, E, u) \cap Class(V, E, v) = {}
<1>1. u \in Class(V, E, u)
  BY ClassIsClosed
<1>2. \A x \in Class(V, E, u) \cap Class(V, E, v) : Class(V, E, u) = Class(V, E, v)
  BY ClassOfMember
<1> QED
  BY <1>1, <1>2, ClassOfMember

\* The edges with one between a and b.
WithEdge(E, a, b) == E \cup {{a, b}}

(* A set is closed under a new edge when it has both its ends or none.     *)
LEMMA ClosedWithEdge ==
  ASSUME NEW E, NEW a, NEW b, NEW T
  PROVE  Closed(T, WithEdge(E, a, b)) <=> Closed(T, E) /\ (a \in T <=> b \in T)
<1>1. Closed(T, WithEdge(E, a, b)) <=> Closed(T, E) /\ Closed(T, {{a, b}})
  BY DEF Closed, WithEdge
<1>2. Closed(T, {{a, b}}) <=> ({a, b} \cap T # {} => {a, b} \subseteq T)
  BY DEF Closed
<1>3. ({a, b} \cap T # {} => {a, b} \subseteq T) <=> (a \in T <=> b \in T)
  OBVIOUS
<1> QED
  BY <1>1, <1>2, <1>3

(* Without edges a vertex is connected to itself only.                     *)
LEMMA NoEdges ==
  ASSUME NEW V, NEW v \in V
  PROVE  Class(V, {}, v) = {v}
<1>1. Closed({v}, {})
  BY DEF Closed
<1> QED
  BY <1>1 DEF Class

(* A new edge joins the classes of its ends and no others.                 *)
LEMMA ClassWithEdge ==
  ASSUME NEW V, NEW E, Graph(V, E), NEW a, NEW b, NEW v, a \in V, b \in V, v \in V, a # b,
         NEW D, D = WithEdge(E, a, b)
  PROVE  /\ Graph(V, D)
         /\ v \in Class(V, E, a) \cup Class(V, E, b)
              => Class(V, D, v) = Class(V, E, a) \cup Class(V, E, b)
         /\ v \notin Class(V, E, a) \cup Class(V, E, b) => Class(V, D, v) = Class(V, E, v)
<1> DEFINE A == Class(V, E, a)
           B == Class(V, E, b)
           C == Class(V, E, v)
           S == Class(V, D, v)
<1>0. D = E \cup {{a, b}}
  BY DEF WithEdge
<1>1. Graph(V, D)
  BY <1>0 DEF Graph
<1>2. a \in A /\ b \in B /\ A \subseteq V /\ B \subseteq V /\ Closed(A, E) /\ Closed(B, E)
      /\ v \in C /\ C \subseteq V /\ Closed(C, E)
  BY ClassIsClosed
<1>3. (v \in A => C = A) /\ (v \in B => C = B)
  BY ClassOfMember
<1>4. (a \in C => C = A) /\ (b \in C => C = B)
  <2>1. ASSUME a \in C PROVE C = A
    BY <2>1, ClassOfMember
  <2>2. ASSUME b \in C PROVE C = B
    BY <2>2, ClassOfMember
  <2> QED BY <2>1, <2>2
<1>5. \A T : Closed(T, D) <=> Closed(T, E) /\ (a \in T <=> b \in T)
  BY ClosedWithEdge
<1>6. \A T \in SUBSET V : v \in T /\ Closed(T, D) => S \subseteq T
  BY ClassIsLeast
<1>7. v \in S /\ S \subseteq V /\ Closed(S, D)
  BY <1>1, ClassIsClosed
<1>8. Closed(S, E)
  BY <1>5, <1>7
<1>9. C \subseteq S /\ (a \in S => A \subseteq S) /\ (b \in S => B \subseteq S)
  <2> HIDE DEF S
  <2>1. ASSUME NEW u \in S PROVE Class(V, E, u) \subseteq S
    BY <1>7, <1>8, ClassIsLeast
  <2> QED BY <1>7, <2>1
<1>10. Closed(A \cup B, E)
  BY <1>2 DEF Closed
<1> HIDE DEF A, B, C, S
<1>11. CASE v \in A \cup B
  <2>1. S \subseteq A \cup B
    BY <1>2, <1>5, <1>6, <1>10, <1>11
  <2>2. a \in S /\ b \in S
    BY <1>2, <1>3, <1>5, <1>7, <1>9, <1>11
  <2> QED BY <1>1, <1>9, <1>11, <2>1, <2>2 DEF A, B, C, S
<1>12. CASE v \notin A \cup B
  <2>1. a \notin C /\ b \notin C
    BY <1>2, <1>4, <1>12
  <2>2. S \subseteq C
    BY <1>2, <1>5, <1>6, <2>1
  <2>3. S = C
    BY <1>9, <2>2
  <2> QED BY <1>1, <1>12, <2>3 DEF A, B, C, S
<1> QED
  BY <1>11, <1>12

(* Joining two classes makes one class less, an edge within a class none.  *)
LEMMA CountWithEdge ==
  ASSUME NEW V, NEW E, Graph(V, E), NEW a \in V, NEW b \in V, a # b
  PROVE  /\ IsFiniteSet(Classes(V, E)) /\ Cardinality(Classes(V, E)) \in Nat
         /\ b \in Class(V, E, a) => Classes(V, WithEdge(E, a, b)) = Classes(V, E)
         /\ b \notin Class(V, E, a) =>
              Cardinality(Classes(V, WithEdge(E, a, b))) = Cardinality(Classes(V, E)) - 1
<1> DEFINE A == Class(V, E, a)
           B == Class(V, E, b)
           D == WithEdge(E, a, b)
           Old == Classes(V, E)
           New == Classes(V, D)
<1>1. a \in A /\ b \in B /\ A \subseteq V /\ B \subseteq V
  BY ClassIsClosed
<1>2. \A v \in V : /\ v \in A \cup B => Class(V, D, v) = A \cup B
                   /\ v \notin A \cup B => Class(V, D, v) = Class(V, E, v)
  BY ClassWithEdge
<1>3. IsFiniteSet(Old) /\ Cardinality(Old) \in Nat
  <2>1. IsFiniteSet(V)
    BY DEF Graph
  <2> DEFINE f == [v \in V |-> Class(V, E, v)]
  <2>2. f \in Surjection(V, Old)
    BY DEF Surjection, Classes
  <2> HIDE DEF f
  <2>3. IsFiniteSet(Old)
    BY <2>1, <2>2, FS_Surjection
  <2> QED BY <2>3, FS_CardinalityType
<1>4. \A v \in V : v \in Class(V, E, v)
  BY ClassIsClosed
<1>5. \A v \in V : \A u \in Class(V, E, v) : Class(V, E, u) = Class(V, E, v)
  BY ClassOfMember
<1>6. New = {Class(V, D, v) : v \in V} /\ Old = {Class(V, E, v) : v \in V}
  BY DEF Classes
<1> HIDE DEF D, Old, New
<1>7. A \in Old /\ B \in Old
  BY <1>6
<1>8. ASSUME b \in A PROVE New = Old
  <2>1. B = A
    BY <1>5, <1>8
  <2>2. \A v \in V : Class(V, D, v) = Class(V, E, v)
    BY <1>2, <1>5, <2>1
  <2> QED BY <1>6, <2>2
<1>9. ASSUME b \notin A PROVE Cardinality(New) = Cardinality(Old) - 1
  <2>1. A # B
    BY <1>1, <1>9
  <2> DEFINE Rest == (Old \ {A}) \ {B}
  <2>2. \A C \in New : C \in Rest \cup {A \cup B}
    <3> SUFFICES ASSUME NEW v \in V PROVE Class(V, D, v) \in Rest \cup {A \cup B}
      BY <1>6
    <3>1. CASE v \in A \cup B
      BY <1>2, <3>1
    <3>2. CASE v \notin A \cup B
      <4>1. Class(V, D, v) = Class(V, E, v) /\ v \in Class(V, E, v)
        BY <1>2, <1>4, <3>2
      <4>2. Class(V, E, v) \in Old /\ Class(V, E, v) # A /\ Class(V, E, v) # B
        BY <1>6, <3>2, <4>1
      <4> QED BY <4>1, <4>2
    <3> QED BY <3>1, <3>2
  <2>3. A \cup B \in New
    BY <1>1, <1>2, <1>6
  <2>4. ASSUME NEW C \in Rest PROVE C \in New
    <3>1. PICK v \in V : C = Class(V, E, v)
      BY <1>6
    <3>2. v \notin A /\ v \notin B
      BY <1>5, <1>1, <3>1
    <3> QED BY <1>2, <1>6, <3>1, <3>2
  <2>5. New = Rest \cup {A \cup B}
    BY <2>2, <2>3, <2>4
  <2>6. A \cup B \notin Rest
    <3> SUFFICES ASSUME A \cup B \in Rest PROVE FALSE
      OBVIOUS
    <3>1. PICK v \in V : A \cup B = Class(V, E, v)
      BY <1>6
    <3>2. Class(V, E, v) = A
      BY <1>1, <1>5, <3>1
    <3> QED BY <3>1, <3>2
  <2>7. IsFiniteSet(Old \ {A}) /\ Cardinality(Old \ {A}) = Cardinality(Old) - 1
    BY <1>3, <1>7, FS_RemoveElement
  <2>8. IsFiniteSet(Rest) /\ Cardinality(Rest) = Cardinality(Old \ {A}) - 1
    <3>1. B \in Old \ {A}
      BY <1>7, <2>1
    <3> QED BY <2>7, <3>1, FS_RemoveElement
  <2> HIDE DEF Rest
  <2>9. Cardinality(Rest \cup {A \cup B}) = Cardinality(Rest) + 1
    BY <2>6, <2>8, FS_AddElement
  <2> QED BY <1>3, <2>5, <2>7, <2>8, <2>9
<1> QED
  BY <1>3, <1>8, <1>9 DEF Old, New, D

\* Every vertex is a class of its own as long as there is no edge.
LEMMA CountWithoutEdges ==
  ASSUME NEW V, IsFiniteSet(V)
  PROVE  Cardinality(Classes(V, {})) = Cardinality(V)
<1> DEFINE f == [v \in V |-> {v}]
<1>1. Classes(V, {}) = {{v} : v \in V}
  BY NoEdges DEF Classes
<1>2. \A v \in V : f[v] = {v} /\ {v} \in Classes(V, {})
  BY <1>1
<1>3. f \in [V -> Classes(V, {})]
  BY <1>2
<1>4. \A c \in Classes(V, {}) : \E v \in V : f[v] = c
  BY <1>1, <1>2
<1>5. \A u, v \in V : f[u] = f[v] => u = v
  BY <1>2
<1> HIDE DEF f
<1> QED
  BY <1>3, <1>4, <1>5, OneToOne

----------------------------------------------------------------------------
(* Union-find.                                                             *)

\* A parent map of vertices is a forest when some bounded depth d decreases
\* along every link.
Forest(p, V, d) ==
  /\ p \in [V -> V] /\ d \in [V -> Nat]
  /\ \E m \in Nat : \A v \in V : d[v] < m
  /\ \A v \in V : p[v] # v => d[p[v]] < d[v]

(* Induction over the depth of the vertices of a forest.                   *)
LEMMA DepthInduction ==
  ASSUME NEW V, NEW d \in [V -> Nat], NEW Q,
         \A v \in V : (\A u \in V : d[u] < d[v] => u \in Q) => v \in Q
  PROVE  V \subseteq Q
<1> DEFINE N == {n \in Nat : \A v \in V : d[v] < n => v \in Q}
<1>1. 0 \in N
  OBVIOUS
<1>2. ASSUME NEW n \in Nat, n \in N PROVE n + 1 \in N
  <2> SUFFICES ASSUME NEW v \in V, d[v] < n + 1 PROVE v \in Q
    OBVIOUS
  <2>1. \A u \in V : d[u] < d[v] => d[u] < n
    OBVIOUS
  <2> QED BY <1>2, <2>1
<1>3. Nat \subseteq N
  <2> HIDE DEF N
  <2> QED BY <1>1, <1>2, NatSetInduction
<1>4. \A v \in V : d[v] + 1 \in N /\ d[v] < d[v] + 1
  BY <1>3
<1> QED
  BY <1>4

\* The function that find's loop defines.
RootMap(p) == CHOOSE f : f = [v \in DOMAIN p |-> IF p[v] = v THEN v ELSE f[p[v]]]

(* find goes by its loop: a root is found from its parent.                 *)
LEMMA RootUnfold ==
  ASSUME NEW V, NEW p, NEW d, Forest(p, V, d)
  PROVE  \A v \in V : Root(p, v) = IF p[v] = v THEN v ELSE Root(p, p[v])
<1> DEFINE D(f) == f = [v \in DOMAIN p |-> IF p[v] = v THEN v ELSE f[p[v]]]
           N == {n \in Nat : \E h \in [V -> V] : \A v \in V :
                    d[v] < n => h[v] = IF p[v] = v THEN v ELSE h[p[v]]}
<1>1. p \in [V -> V] /\ d \in [V -> Nat] /\ \A v \in V : p[v] # v => d[p[v]] < d[v]
  BY DEF Forest
<1>2. 0 \in N
  <2>1. [v \in V |-> v] \in [V -> V]
    OBVIOUS
  <2>2. \A v \in V : ~(d[v] < 0)
    BY <1>1
  <2> QED BY <2>1, <2>2
<1>3. ASSUME NEW n \in Nat, n \in N PROVE n + 1 \in N
  <2>1. PICK h \in [V -> V] : \A v \in V : d[v] < n => h[v] = IF p[v] = v THEN v ELSE h[p[v]]
    BY <1>3
  <2> DEFINE g == [v \in V |-> IF p[v] = v THEN v ELSE h[p[v]]]
  <2>2. g \in [V -> V]
    BY <1>1
  <2>3. ASSUME NEW v \in V, d[v] < n + 1, p[v] # v PROVE g[v] = g[p[v]]
    <3>1. p[v] \in V /\ d[p[v]] < n
      BY <1>1, <2>3
    <3>2. h[p[v]] = IF p[p[v]] = p[v] THEN p[v] ELSE h[p[p[v]]]
      BY <2>1, <3>1
    <3>3. g[p[v]] = h[p[v]] /\ g[v] = h[p[v]]
      BY <2>3, <3>1, <3>2
    <3> QED BY <3>3
  <2>4. \A v \in V : d[v] < n + 1 => g[v] = IF p[v] = v THEN v ELSE g[p[v]]
    BY <2>3
  <2> HIDE DEF g
  <2> QED BY <2>2, <2>4
<1>4. Nat \subseteq N
  <2> HIDE DEF N
  <2> QED BY <1>2, <1>3, NatSetInduction
<1>5. PICK m \in Nat : \A v \in V : d[v] < m
  BY DEF Forest
<1>6. PICK h \in [V -> V] : \A v \in V : d[v] < m => h[v] = IF p[v] = v THEN v ELSE h[p[v]]
  BY <1>4
<1>7. D(h)
  <2>1. DOMAIN p = V /\ h = [v \in V |-> h[v]]
    BY <1>1
  <2>2. \A v \in V : h[v] = IF p[v] = v THEN v ELSE h[p[v]]
    BY <1>5, <1>6
  <2> QED BY <2>1, <2>2
<1>8. RootMap(p) = CHOOSE f : D(f)
  BY DEF RootMap
<1> HIDE DEF D
<1>9. D(RootMap(p))
  BY <1>7, <1>8
<1>10. \A v \in V : RootMap(p)[v] = IF p[v] = v THEN v ELSE RootMap(p)[p[v]]
  BY <1>1, <1>9 DEF D
<1>11. \A v : Root(p, v) = RootMap(p)[v]
  BY DEF Root, RootMap
<1> QED
  BY <1>10, <1>11

(* What find ends on is a vertex that is its own parent.                   *)
LEMMA RootIsRoot ==
  ASSUME NEW V, NEW p, NEW d, Forest(p, V, d)
  PROVE  \A v \in V : Root(p, v) \in V /\ p[Root(p, v)] = Root(p, v) /\ Root(p, Root(p, v)) = Root(p, v)
<1> DEFINE Q == {v \in V : Root(p, v) \in V /\ p[Root(p, v)] = Root(p, v)}
<1>1. p \in [V -> V] /\ d \in [V -> Nat] /\ \A v \in V : p[v] # v => d[p[v]] < d[v]
  BY DEF Forest
<1>2. \A v \in V : Root(p, v) = IF p[v] = v THEN v ELSE Root(p, p[v])
  BY RootUnfold
<1>3. ASSUME NEW v \in V, \A u \in V : d[u] < d[v] => u \in Q PROVE v \in Q
  <2>1. CASE p[v] = v
    BY <1>2, <2>1
  <2>2. CASE p[v] # v
    <3>1. p[v] \in Q
      BY <1>1, <1>3, <2>2
    <3>2. Root(p, v) = Root(p, p[v])
      BY <1>2, <2>2
    <3> QED BY <3>1, <3>2
  <2> QED BY <2>1, <2>2
<1>4. V \subseteq Q
  <2> HIDE DEF Q
  <2> QED BY <1>1, <1>3, DepthInduction
<1>5. \A v \in V : Root(p, v) \in V /\ p[Root(p, v)] = Root(p, v)
  BY <1>4
<1> QED
  BY <1>2, <1>5

(* Giving some vertices their grandparent for a parent keeps the roots.    *)
LEMMA ShortcutsKeepRoots ==
  ASSUME NEW V, NEW p, NEW d, Forest(p, V, d), NEW q \in [V -> V],
         \A v \in V : q[v] = p[v] \/ q[v] = p[p[v]]
  PROVE  Forest(q, V, d) /\ \A v \in V : Root(q, v) = Root(p, v)
<1>1. p \in [V -> V] /\ d \in [V -> Nat] /\ \A v \in V : p[v] # v => d[p[v]] < d[v]
  BY DEF Forest
<1>2. \A v \in V : p[v] = v => q[v] = v
  OBVIOUS
<1>3. ASSUME NEW v \in V, p[v] # v PROVE d[q[v]] < d[v]
  <2>1. p[v] \in V /\ d[p[v]] < d[v]
    BY <1>1, <1>3
  <2>2. p[p[v]] \in V /\ (p[p[v]] = p[v] \/ d[p[p[v]]] < d[p[v]])
    BY <1>1, <2>1
  <2>3. d[v] \in Nat /\ d[p[v]] \in Nat /\ d[p[p[v]]] \in Nat
    BY <1>1, <2>1, <2>2
  <2>4. d[p[p[v]]] < d[v]
    BY <2>1, <2>2, <2>3
  <2> QED BY <2>1, <2>4
<1>4. Forest(q, V, d)
  BY <1>1, <1>2, <1>3 DEF Forest
<1>5. \A v \in V : Root(p, v) = IF p[v] = v THEN v ELSE Root(p, p[v])
  BY RootUnfold
<1>6. \A v \in V : Root(q, v) = IF q[v] = v THEN v ELSE Root(q, q[v])
  BY <1>4, RootUnfold
<1> DEFINE Q == {v \in V : Root(q, v) = Root(p, v)}
<1>7. ASSUME NEW v \in V, \A u \in V : d[u] < d[v] => u \in Q PROVE v \in Q
  <2>1. CASE p[v] = v
    BY <1>2, <1>5, <1>6, <2>1
  <2>2. CASE p[v] # v
    <3>1. q[v] # v /\ q[v] \in V
      BY <1>1, <1>3, <2>2
    <3>2. q[v] \in Q
      BY <1>3, <1>7, <2>2, <3>1
    <3>3. Root(q, v) = Root(p, q[v])
      BY <1>6, <3>1, <3>2
    <3>4. Root(p, v) = Root(p, p[v]) /\ p[v] \in V
      BY <1>1, <1>5, <2>2
    <3>5. Root(p, p[v]) = Root(p, p[p[v]])
      BY <1>5, <3>4
    <3>6. Root(p, q[v]) = Root(p, v)
      BY <3>4, <3>5
    <3> QED BY <3>3, <3>6
  <2> QED BY <2>1, <2>2
<1>8. V \subseteq Q
  <2> HIDE DEF Q
  <2> QED BY <1>1, <1>7, DepthInduction
<1> QED
  BY <1>4, <1>8

\* The function of the vertices whose parent find halves.
VisitedMap(p) ==
  CHOOSE f : f = [v \in DOMAIN p |-> IF p[v] = v THEN {} ELSE {v} \cup f[p[p[v]]]]

(* Path halving keeps the roots.                                           *)
LEMMA HalveKeepsRoots ==
  ASSUME NEW V, NEW p, NEW d, Forest(p, V, d), NEW x
  PROVE  Forest(Halve(p, x), V, d) /\ \A v \in V : Root(Halve(p, x), v) = Root(p, v)
<1>1. p \in [V -> V]
  BY DEF Forest
<1>2. Halve(p, x) = [v \in DOMAIN p |-> IF v \in VisitedMap(p)[x] THEN p[p[v]] ELSE p[v]]
  BY DEF Halve, VisitedMap
<1> DEFINE q == Halve(p, x)
<1>3. q \in [V -> V] /\ \A v \in V : q[v] = p[v] \/ q[v] = p[p[v]]
  BY <1>1, <1>2
<1> HIDE DEF q
<1>4. Forest(q, V, d) /\ \A v \in V : Root(q, v) = Root(p, v)
  BY <1>3, ShortcutsKeepRoots
<1> QED
  BY <1>4 DEF q

(* Hanging one root under another gives its tree the other's root.         *)
LEMMA HangRoot ==
  ASSUME NEW V, NEW p, NEW d, Forest(p, V, d), NEW a \in V, NEW b \in V, p[a] = a, p[b] = b,
         NEW q \in [V -> V], q[a] = b, \A v \in V : v # a => q[v] = p[v]
  PROVE  /\ \E e : Forest(q, V, e)
         /\ \A v \in V : Root(q, v) = IF Root(p, v) = a THEN b ELSE Root(p, v)
<1> DEFINE e == [v \in V |-> IF Root(p, v) = a /\ a # b THEN d[v] + d[b] + 1 ELSE d[v]]
<1>1. p \in [V -> V] /\ d \in [V -> Nat] /\ \A v \in V : p[v] # v => d[p[v]] < d[v]
  BY DEF Forest
<1>2. \A v \in V : Root(p, v) = IF p[v] = v THEN v ELSE Root(p, p[v])
  BY RootUnfold
<1>3. q \in [V -> V] /\ q[a] = b /\ \A v \in V : v # a => q[v] = p[v]
  OBVIOUS
<1>4. e \in [V -> Nat]
  BY <1>1
<1>5. \A v \in V : e[v] = IF Root(p, v) = a /\ a # b THEN d[v] + d[b] + 1 ELSE d[v]
  OBVIOUS
<1>6. Root(p, a) = a /\ Root(p, b) = b
  BY <1>2
<1> HIDE DEF e
<1>7. ASSUME NEW v \in V, q[v] # v PROVE e[q[v]] < e[v]
  <2>1. d[v] \in Nat /\ d[b] \in Nat
    BY <1>1
  <2>2. CASE v = a
    <3>1. a # b /\ e[a] = d[a] + d[b] + 1 /\ e[b] = d[b]
      BY <1>3, <1>5, <1>6, <1>7, <2>2
    <3> QED BY <1>3, <2>1, <2>2, <3>1
  <2>3. CASE v # a
    <3>1. q[v] = p[v] /\ p[v] # v /\ p[v] \in V
      BY <1>1, <1>3, <1>7, <2>3
    <3>2. Root(p, v) = Root(p, p[v]) /\ d[p[v]] < d[v] /\ d[p[v]] \in Nat
      BY <1>1, <1>2, <3>1
    <3> QED BY <1>5, <2>1, <3>1, <3>2
  <2> QED BY <2>2, <2>3
<1>8. \E m \in Nat : \A v \in V : e[v] < m
  <2>1. PICK m \in Nat : \A v \in V : d[v] < m
    BY DEF Forest
  <2>2. \A v \in V : d[v] \in Nat /\ d[b] \in Nat
    BY <1>1
  <2>3. \A v \in V : e[v] < m + m + 1
    BY <1>5, <2>1, <2>2
  <2>4. m + m + 1 \in Nat
    OBVIOUS
  <2> QED BY <2>3, <2>4
<1>9. Forest(q, V, e)
  BY <1>3, <1>4, <1>7, <1>8 DEF Forest
<1>10. \A v \in V : Root(q, v) = IF q[v] = v THEN v ELSE Root(q, q[v])
  BY <1>9, RootUnfold
<1> DEFINE Q == {v \in V : Root(q, v) = IF Root(p, v) = a THEN b ELSE Root(p, v)}
<1>11. Root(q, b) = b
  BY <1>3, <1>10
<1>12. ASSUME NEW v \in V, \A u \in V : d[u] < d[v] => u \in Q PROVE v \in Q
  <2>1. CASE v = a
    BY <1>3, <1>6, <1>10, <1>11, <2>1
  <2>2. CASE v # a /\ p[v] = v
    BY <1>2, <1>3, <1>10, <2>2
  <2>3. CASE v # a /\ p[v] # v
    <3>1. p[v] \in V /\ q[v] = p[v] /\ d[p[v]] < d[v]
      BY <1>1, <1>3, <2>3
    <3>2. p[v] \in Q
      BY <1>12, <3>1
    <3>3. Root(q, v) = Root(q, p[v]) /\ Root(p, v) = Root(p, p[v])
      BY <1>2, <1>10, <2>3, <3>1
    <3> QED BY <3>2, <3>3
  <2> QED BY <2>1, <2>2, <2>3
<1>13. V \subseteq Q
  <2> HIDE DEF Q
  <2> QED BY <1>1, <1>12, DepthInduction
<1>14. \A v \in V : Root(q, v) = IF Root(p, v) = a THEN b ELSE Root(p, v)
  BY <1>13
<1> QED
  BY <1>9, <1>14

(* One turn of the loop joins the trees of the edge's ends.                *)
LEMMA UniteTrees ==
  ASSUME NEW V, NEW p, NEW d, Forest(p, V, d), NEW e, Min(e) \in V, Max(e) \in V
  PROVE  /\ \E f : Forest(Unite(p, e), V, f)
         /\ \A v \in V : Root(Unite(p, e), v) =
                          IF Root(p, v) = Root(p, Min(e)) THEN Root(p, Max(e)) ELSE Root(p, v)
<1> DEFINE x == Min(e)
           y == Max(e)
           h == Halve(p, x)
           q == Halve(h, y)
           ra == Root(q, x)
           rb == Root(q, y)
           u == Unite(p, e)
<1>1. Forest(h, V, d) /\ \A v \in V : Root(h, v) = Root(p, v)
  BY HalveKeepsRoots
<1>2. Forest(q, V, d) /\ \A v \in V : Root(q, v) = Root(p, v)
  <2>1. Forest(q, V, d) /\ \A v \in V : Root(q, v) = Root(h, v)
    <3> HIDE DEF h
    <3> QED BY <1>1, HalveKeepsRoots
  <2> QED BY <1>1, <2>1
<1>3. u = [q EXCEPT ![ra] = rb]
  BY DEF Unite
<1>4. ra = Root(p, x) /\ rb = Root(p, y)
  BY <1>2
<1> HIDE DEF x, y, h, q, u
<1>5. ra \in V /\ q[ra] = ra /\ rb \in V /\ q[rb] = rb
  BY <1>2, RootIsRoot DEF x, y
<1> HIDE DEF ra, rb
<1>6. q \in [V -> V]
  BY <1>2 DEF Forest
<1>7. u \in [V -> V] /\ u[ra] = rb /\ \A v \in V : v # ra => u[v] = q[v]
  BY <1>3, <1>5, <1>6
<1>8. /\ \E f : Forest(u, V, f)
      /\ \A v \in V : Root(u, v) = IF Root(q, v) = ra THEN rb ELSE Root(q, v)
  BY <1>2, <1>5, <1>7, HangRoot
<1> QED
  BY <1>2, <1>4, <1>8 DEF u, x, y

(* The same of an edge given by its ends, whichever the lesser is.         *)
LEMMA UniteJoins ==
  ASSUME NEW V \in SUBSET Nat, NEW p, NEW d, Forest(p, V, d), NEW a \in V, NEW b \in V, a # b
  PROVE  /\ \E f : Forest(Unite(p, {a, b}), V, f)
         /\ \E x \in {a, b}, y \in {a, b} :
              /\ x # y
              /\ \A v \in V : Root(Unite(p, {a, b}), v) =
                               IF Root(p, v) = Root(p, x) THEN Root(p, y) ELSE Root(p, v)
<1> DEFINE e == {a, b}
<1>1. Min(e) \in e /\ Max(e) \in e /\ Min(e) # Max(e)
  <2>1. e \in SUBSET Nat /\ IsFiniteSet(e) /\ Cardinality(e) = 2
    <3>1. IsFiniteSet({a}) /\ Cardinality({a}) = 1
      BY FS_Singleton
    <3>2. e = {a} \cup {b} /\ b \notin {a}
      OBVIOUS
    <3>3. IsFiniteSet({a} \cup {b}) /\ Cardinality({a} \cup {b}) = 2
      BY <3>1, <3>2, FS_AddElement
    <3> QED BY <3>2, <3>3
  <2> HIDE DEF e
  <2> QED BY <2>1, Ends
<1>2. e \subseteq V
  OBVIOUS
<1> HIDE DEF e
<1>3. Min(e) \in V /\ Max(e) \in V
  BY <1>1, <1>2
<1>4. /\ \E f : Forest(Unite(p, e), V, f)
      /\ \A v \in V : Root(Unite(p, e), v) =
                       IF Root(p, v) = Root(p, Min(e)) THEN Root(p, Max(e)) ELSE Root(p, v)
  BY <1>3, UniteTrees
<1> QED
  BY <1>1, <1>4 DEF e

----------------------------------------------------------------------------
\* f is a function of the naturals with a value at zero and a step.
Iterated(f, S, g, x) == f \in [Nat -> S] /\ f[0] = x /\ \A n \in Nat : f[n + 1] = g[f[n]]

(* There is one for any value and step.                                    *)
LEMMA Iterates ==
  ASSUME NEW S, NEW g, g \in [S -> S], NEW x \in S
  PROVE  \E f : Iterated(f, S, g, x)
<1> DEFINE D(h, n) == h \in [0..n -> S] /\ h[0] = x /\ \A i \in 0..n : i # n => h[i + 1] = g[h[i]]
           N == {n \in Nat : \E h : D(h, n)}
<1>1. 0 \in N
  <2>1. D([i \in 0..0 |-> x], 0)
    OBVIOUS
  <2> QED BY <2>1
<1>2. ASSUME NEW n \in Nat, n \in N PROVE n + 1 \in N
  <2>1. PICK h : D(h, n)
    BY <1>2
  <2> DEFINE k == [i \in 0..(n + 1) |-> IF i = n + 1 THEN g[h[n]] ELSE h[i]]
  <2>2. k \in [0..(n + 1) -> S]
    BY <2>1
  <2>3. ASSUME NEW i \in 0..(n + 1), i # n + 1 PROVE k[i + 1] = g[k[i]]
    <3>1. i \in 0..n /\ i + 1 \in 0..(n + 1)
      BY <2>3
    <3>2. k[i] = h[i]
      BY <3>1
    <3>3. CASE i = n
      BY <3>1, <3>2, <3>3
    <3>4. CASE i # n
      <4>1. i + 1 # n + 1
        BY <3>1, <3>4
      <4>2. k[i + 1] = h[i + 1]
        BY <3>1, <4>1
      <4> QED BY <2>1, <3>1, <3>2, <3>4, <4>2
    <3> QED BY <3>3, <3>4
  <2>4. k[0] = x
    BY <2>1
  <2> HIDE DEF k
  <2> QED BY <2>2, <2>3, <2>4
<1>3. Nat \subseteq N
  <2> HIDE DEF N
  <2> QED BY <1>1, <1>2, NatSetInduction
<1> DEFINE H(n) == CHOOSE h : D(h, n)
<1>4. \A n \in Nat : D(H(n), n)
  BY <1>3
<1> HIDE DEF H, N
<1>5. \A n \in Nat : /\ H(n) \in [0..n -> S] /\ H(n)[0] = x
                     /\ \A i \in 0..n : i # n => H(n)[i + 1] = g[H(n)[i]]
  BY <1>4
<1> HIDE DEF D
<1>6. ASSUME NEW n \in Nat PROVE \A i \in 0..n : H(n + 1)[i] = H(n)[i]
  <2> DEFINE M == {i \in Nat : i <= n => H(n + 1)[i] = H(n)[i]}
  <2>1. 0 \in M
    BY <1>5
  <2>2. ASSUME NEW i \in Nat, i \in M PROVE i + 1 \in M
    <3> SUFFICES ASSUME i + 1 <= n PROVE H(n + 1)[i + 1] = H(n)[i + 1]
      OBVIOUS
    <3>1. i \in 0..n /\ i # n /\ i \in 0..(n + 1) /\ i # n + 1 /\ n + 1 \in Nat
      OBVIOUS
    <3>2. H(n + 1)[i + 1] = g[H(n + 1)[i]]
      BY <1>5, <3>1
    <3>3. H(n)[i + 1] = g[H(n)[i]]
      BY <1>5, <3>1
    <3> QED BY <2>2, <3>1, <3>2, <3>3
  <2>3. Nat \subseteq M
    <3> HIDE DEF M
    <3> QED BY <2>1, <2>2, NatSetInduction
  <2> QED BY <2>3
<1> DEFINE f == [n \in Nat |-> H(n)[n]]
<1>7. f \in [Nat -> S]
  BY <1>5
<1>8. f[0] = x
  BY <1>5
<1>9. ASSUME NEW n \in Nat PROVE f[n + 1] = g[f[n]]
  <2>1. n + 1 \in Nat /\ n \in 0..(n + 1) /\ n # n + 1 /\ n \in 0..n
    OBVIOUS
  <2>2. H(n + 1)[n + 1] = g[H(n + 1)[n]]
    BY <1>5, <2>1
  <2>3. H(n + 1)[n] = H(n)[n]
    BY <1>6, <2>1
  <2> QED BY <2>1, <2>2, <2>3
<1> HIDE DEF f
<1> QED
  BY <1>7, <1>8, <1>9 DEF Iterated
----------------------------------------------------------------------------
(* The loop over the edges.                                                *)

\* The parent maps find ends on, and those that have joined the edges of F.
Forests(V) == {p \in [V -> V] : \E d : Forest(p, V, d)}

Joins(p, V, F) ==
  /\ p \in Forests(V)
  /\ \A u, v \in V : Root(p, u) = Root(p, v) <=> u \in Class(V, F, v)

\* The ends of every edge are its least and its greatest vertex.
Ordered(V, E) == \A e \in E : /\ Min(e) \in V /\ Max(e) \in V /\ Min(e) # Max(e)
                              /\ e = {Min(e), Max(e)}

(* min and max give the two ends of an edge of numbered vertices.          *)
LEMMA GraphIsOrdered ==
  ASSUME NEW V \in SUBSET Nat, NEW E, Graph(V, E)
  PROVE  Ordered(V, E)
<1> SUFFICES ASSUME NEW e \in E
             PROVE  Min(e) \in V /\ Max(e) \in V /\ Min(e) # Max(e) /\ e = {Min(e), Max(e)}
  BY DEF Ordered
<1>1. PICK a, b \in V : a # b /\ e = {a, b}
  BY DEF Graph
<1>2. IsFiniteSet({a}) /\ Cardinality({a}) = 1
  BY FS_Singleton
<1>3. e = {a} \cup {b} /\ b \notin {a}
  BY <1>1
<1>4. IsFiniteSet(e) /\ Cardinality(e) = 2
  <2>1. IsFiniteSet({a} \cup {b}) /\ Cardinality({a} \cup {b}) = Cardinality({a}) + 1
    BY <1>2, <1>3, FS_AddElement
  <2> QED BY <1>2, <1>3, <2>1
<1>5. e \in SUBSET Nat /\ e \subseteq V
  BY <1>1
<1>6. Min(e) \in e /\ Max(e) \in e /\ Min(e) # Max(e) /\ e = {Min(e), Max(e)}
  BY <1>4, <1>5, Ends
<1> QED
  BY <1>5, <1>6

(* The parent map stays one that find ends on.                             *)
LEMMA UniteStays ==
  ASSUME NEW V, NEW E, Ordered(V, E), NEW p \in Forests(V), NEW e \in E
  PROVE  Unite(p, e) \in Forests(V)
<1>1. PICK d : Forest(p, V, d)
  BY DEF Forests
<1>2. Min(e) \in V /\ Max(e) \in V
  BY DEF Ordered
<1> DEFINE q == Unite(p, e)
<1>3. \E f : Forest(q, V, f)
  BY <1>1, <1>2, UniteTrees
<1> HIDE DEF q
<1>4. q \in [V -> V]
  BY <1>3 DEF Forest
<1> QED
  BY <1>3, <1>4 DEF q, Forests

(* At the start every vertex is its own root: no edge is joined.           *)
LEMMA JoinsStart ==
  ASSUME NEW V
  PROVE  Joins([v \in V |-> v], V, {})
<1> DEFINE p == [v \in V |-> v]
           d == [v \in V |-> 0]
<1>1. p \in [V -> V] /\ d \in [V -> Nat] /\ (\A v \in V : p[v] = v) /\ \A v \in V : d[v] < 1
  OBVIOUS
<1> HIDE DEF p, d
<1>2. Forest(p, V, d)
  BY <1>1 DEF Forest
<1>3. \A v \in V : Root(p, v) = v
  BY <1>1, <1>2, RootUnfold
<1>4. \A v \in V : Class(V, {}, v) = {v}
  BY NoEdges
<1>5. Joins(p, V, {})
  BY <1>1, <1>2, <1>3, <1>4 DEF Joins, Forests
<1> QED
  BY <1>5 DEF p

(* A turn of the loop joins one more edge.                                 *)
LEMMA JoinsStep ==
  ASSUME NEW V, NEW E, Graph(V, E), Ordered(V, E), NEW F \in SUBSET E, NEW e \in E,
         NEW p, Joins(p, V, F)
  PROVE  Joins(Unite(p, e), V, F \cup {e})
<1> DEFINE x == Min(e)
           y == Max(e)
           q == Unite(p, e)
           A == Class(V, F, x)
           B == Class(V, F, y)
           G == F \cup {e}
<1>1. x \in V /\ y \in V /\ x # y /\ e = {x, y}
  BY DEF Ordered
<1>2. Graph(V, F)
  BY DEF Graph
<1>3. PICK d : Forest(p, V, d)
  BY DEF Joins, Forests
<1>4. q \in Forests(V)
  BY UniteStays DEF Joins
<1>5. \A v \in V : Root(q, v) = IF Root(p, v) = Root(p, x) THEN Root(p, y) ELSE Root(p, v)
  BY <1>1, <1>3, UniteTrees
<1>6. \A u, v \in V : Root(p, u) = Root(p, v) <=> u \in Class(V, F, v)
  BY DEF Joins
<1> HIDE DEF x, y, q
<1>7. \A v \in V : Class(V, G, v) = IF v \in A \cup B THEN A \cup B ELSE Class(V, F, v)
  <2> SUFFICES ASSUME NEW v \in V
               PROVE  Class(V, G, v) = IF v \in A \cup B THEN A \cup B ELSE Class(V, F, v)
    OBVIOUS
  <2>1. /\ v \in A \cup B => Class(V, G, v) = A \cup B
        /\ v \notin A \cup B => Class(V, G, v) = Class(V, F, v)
    <3>1. G = WithEdge(F, x, y) /\ x \in V /\ y \in V /\ x # y
      BY <1>1 DEF WithEdge
    <3> HIDE DEF G
    <3> QED BY <1>2, <3>1, ClassWithEdge
  <2> QED BY <2>1
<1>8. \A u \in V : /\ Root(p, u) = Root(p, x) <=> u \in A
                   /\ Root(p, u) = Root(p, y) <=> u \in B
  BY <1>1, <1>6
<1> HIDE DEF A, B, G
<1>9. ASSUME NEW u \in V, NEW v \in V PROVE Root(q, u) = Root(q, v) <=> u \in Class(V, G, v)
  <2>1. Root(q, u) = (IF u \in A THEN Root(p, y) ELSE Root(p, u))
        /\ Root(q, v) = (IF v \in A THEN Root(p, y) ELSE Root(p, v))
    BY <1>5, <1>8
  <2>2. CASE v \in A \cup B
    <3>1. Root(q, v) = Root(p, y)
      BY <1>8, <2>1, <2>2
    <3>2. Root(q, u) = Root(p, y) <=> u \in A \cup B
      BY <1>8, <2>1
    <3> QED BY <1>7, <2>2, <3>1, <3>2
  <2>3. CASE v \notin A \cup B
    <3>1. Root(q, v) = Root(p, v) /\ Root(p, v) # Root(p, x) /\ Root(p, v) # Root(p, y)
      BY <1>8, <2>1, <2>3
    <3>2. u \in Class(V, G, v) <=> Root(p, u) = Root(p, v)
      BY <1>6, <1>7, <2>3
    <3>3. u \in A => Root(q, u) = Root(p, y) /\ Root(p, u) = Root(p, x)
      BY <1>8, <2>1
    <3> QED BY <2>1, <3>1, <3>2, <3>3
  <2> QED BY <2>2, <2>3
<1>10. Joins(q, V, G)
  BY <1>4, <1>9 DEF Joins
<1> QED
  BY <1>10 DEF q, G

(* As many roots as classes.                                               *)
LEMMA JoinsCount ==
  ASSUME NEW V, NEW F, Graph(V, F), NEW p, Joins(p, V, F)
  PROVE  Cardinality({Root(p, v) : v \in V}) = Cardinality(Classes(V, F))
<1> DEFINE S == {Root(p, v) : v \in V}
           T == Classes(V, F)
           f == [r \in S |-> Class(V, F, r)]
<1>1. PICK d : Forest(p, V, d)
  BY DEF Joins, Forests
<1>2. \A v \in V : Root(p, v) \in V /\ Root(p, Root(p, v)) = Root(p, v)
  BY <1>1, RootIsRoot
<1>3. \A u, v \in V : Root(p, u) = Root(p, v) <=> u \in Class(V, F, v)
  BY DEF Joins
<1>4. IsFiniteSet(S)
  <2>1. S \subseteq V
    BY <1>2
  <2> QED BY <2>1, FS_Subset DEF Graph
<1>5. \A r \in S : r \in V /\ Root(p, r) = r /\ f[r] = Class(V, F, r)
  BY <1>2
<1>6. f \in [S -> T]
  BY <1>5 DEF Classes
<1>7. \A t \in T : \E s \in S : f[s] = t
  <2> SUFFICES ASSUME NEW v \in V PROVE \E s \in S : f[s] = Class(V, F, v)
    BY DEF Classes
  <2>1. Root(p, v) \in Class(V, F, v)
    BY <1>2, <1>3
  <2>2. Class(V, F, Root(p, v)) = Class(V, F, v)
    BY <2>1, ClassOfMember
  <2> QED BY <1>5, <2>2
<1>8. \A r, s \in S : f[r] = f[s] => r = s
  <2> SUFFICES ASSUME NEW r \in S, NEW s \in S, f[r] = f[s] PROVE r = s
    OBVIOUS
  <2>1. r \in Class(V, F, r)
    BY <1>5, ClassIsClosed
  <2>2. r \in Class(V, F, s)
    BY <1>5, <2>1
  <2> QED BY <1>3, <1>5, <2>2
<1> HIDE DEF S, T, f
<1>9. Cardinality(T) = Cardinality(S)
  BY <1>4, <1>6, <1>7, <1>8, OneToOne
<1> QED
  BY <1>9 DEF S, T

----------------------------------------------------------------------------
\* One turn of the loop from each of the walks W.
Turn(next, W) == UNION {{<<w[1] \ {e}, Unite(w[2], e)>> : e \in next[w[1]]} : w \in W}

\* What may be left to visit, and the parent map of what was visited.
States == (SUBSET edges) \X Forests(vertices)

(* A turn leaves some edges and a map that find ends on.                   *)
LEMMA TurnStays ==
  ASSUME Ordered(vertices, edges), NEW next, \A E \in SUBSET edges : next[E] \subseteq E,
         NEW W \in SUBSET States
  PROVE  Turn(next, W) \in SUBSET States
<1> SUFFICES ASSUME NEW w \in W, NEW e \in next[w[1]]
             PROVE  <<w[1] \ {e}, Unite(w[2], e)>> \in States
  BY DEF Turn
<1>1. w[1] \in SUBSET edges /\ w[2] \in Forests(vertices)
  BY DEF States
<1>2. e \in edges
  BY <1>1
<1>3. Unite(w[2], e) \in Forests(vertices)
  BY <1>1, <1>2, UniteStays
<1> QED
  BY <1>1, <1>3 DEF States

(* The walks of n + 1 turns are one turn from those of n.                  *)
LEMMA WalksUnfold ==
  ASSUME Ordered(vertices, edges), NEW next, \A E \in SUBSET edges : next[E] \subseteq E
  PROVE  /\ Walks(next) \in [Nat -> SUBSET States]
         /\ Walks(next)[0] = {<<edges, [v \in vertices |-> v]>>}
         /\ \A n \in Nat : Walks(next)[n + 1] = Turn(next, Walks(next)[n])
<1> DEFINE S == SUBSET States
           g == [W \in S |-> Turn(next, W)]
           x == {<<edges, [v \in vertices |-> v]>>}
           D(h) == h = [n \in Nat |->
                         IF n = 0 THEN x
                         ELSE UNION {{<<w[1] \ {e}, Unite(w[2], e)>> : e \in next[w[1]]} : w \in h[n - 1]}]
           G(h) == h = [n \in Nat |-> IF n = 0 THEN x ELSE Turn(next, h[n - 1])]
<1>1. g \in [S -> S] /\ \A W \in S : g[W] = Turn(next, W)
  BY TurnStays
<1>2. x \in S
  <2>1. [v \in vertices |-> v] \in Forests(vertices)
    BY JoinsStart DEF Joins
  <2> QED BY <2>1 DEF States
<1>3. \A h : D(h) <=> G(h)
  BY DEF Turn
<1>4. Walks(next) = CHOOSE h : D(h)
  BY DEF Walks
<1> HIDE DEF D, g, x, S
<1>5. PICK f \in [Nat -> S] : f[0] = x /\ \A n \in Nat : f[n + 1] = g[f[n]]
  <2>1. g \in [S -> S]
    BY <1>1
  <2>2. \E f : Iterated(f, S, g, x)
    BY <1>2, <2>1, Iterates
  <2> QED BY <2>2 DEF Iterated
<1>6. \A n \in Nat : f[n] = IF n = 0 THEN x ELSE Turn(next, f[n - 1])
  <2> SUFFICES ASSUME NEW n \in Nat, n # 0 PROVE f[n] = Turn(next, f[n - 1])
    BY <1>5
  <2>1. n - 1 \in Nat /\ (n - 1) + 1 = n
    OBVIOUS
  <2> QED BY <1>1, <1>5, <2>1
<1>7. G(f)
  <2>1. f = [n \in Nat |-> f[n]]
    BY <1>5
  <2> QED BY <1>6, <2>1
<1> HIDE DEF G
<1>8. D(f)
  BY <1>3, <1>7
<1> DEFINE r == Walks(next)
<1>9. D(r)
  BY <1>4, <1>8
<1>10. G(r)
  BY <1>3, <1>9
<1> HIDE DEF r
<1>11. r[0] = x /\ \A n \in Nat : r[n + 1] = Turn(next, r[n])
  <2>1. \A n \in Nat : r[n] = IF n = 0 THEN x ELSE Turn(next, r[n - 1])
    BY <1>10 DEF G
  <2>2. \A n \in Nat : n + 1 \in Nat /\ n + 1 # 0 /\ (n + 1) - 1 = n
    OBVIOUS
  <2> QED BY <2>1, <2>2
<1> DEFINE N == {n \in Nat : r[n] \in S}
<1>12. Nat \subseteq N
  <2>1. 0 \in N
    BY <1>2, <1>11
  <2>2. ASSUME NEW n \in Nat, n \in N PROVE n + 1 \in N
    <3>1. Turn(next, r[n]) \in S
      BY <1>1, <2>2
    <3> QED BY <1>11, <3>1
  <2> HIDE DEF N
  <2> QED BY <2>1, <2>2, NatSetInduction
<1>13. r \in [Nat -> S]
  <2>1. r = [n \in Nat |-> r[n]]
    BY <1>10 DEF G
  <2>2. \A n \in Nat : r[n] \in S
    BY <1>12
  <2> QED BY <2>1, <2>2
<1> QED
  BY <1>11, <1>13 DEF r, x, S

\* A walk has joined n edges, each once.
After(w, n) ==
  /\ w[1] \in SUBSET edges /\ Cardinality(w[1]) = Cardinality(edges) - n
  /\ Joins(w[2], vertices, edges \ w[1])

(* After n turns n edges are joined, in every order.                       *)
LEMMA WalksJoin ==
  ASSUME Graph(vertices, edges), Ordered(vertices, edges), IsFiniteSet(edges),
         NEW next, \A E \in SUBSET edges : next[E] \subseteq E
  PROVE  \A n \in Nat : \A w \in Walks(next)[n] : After(w, n)
<1> DEFINE r == Walks(next)
           N == {n \in Nat : \A w \in r[n] : After(w, n)}
<1>0. Cardinality(edges) \in Nat
  BY FS_CardinalityType
<1>1. r[0] = {<<edges, [v \in vertices |-> v]>>} /\ \A n \in Nat : r[n + 1] = Turn(next, r[n])
  BY WalksUnfold
<1> HIDE DEF r
<1>2. 0 \in N
  <2> DEFINE F == edges \ edges
             p == [v \in vertices |-> v]
  <2>1. F = {}
    OBVIOUS
  <2>2. Joins(p, vertices, {})
    BY JoinsStart
  <2> SUFFICES ASSUME NEW w, w = <<edges, p>>
               PROVE  After(w, 0)
    BY <1>1
  <2> HIDE DEF p
  <2>3. w[1] = edges /\ w[2] = p /\ edges \ w[1] = F
    OBVIOUS
  <2> HIDE DEF F
  <2>4. Joins(w[2], vertices, edges \ w[1])
    BY <2>1, <2>2, <2>3
  <2> QED BY <1>0, <2>3, <2>4 DEF After
<1>3. ASSUME NEW n \in Nat, n \in N PROVE n + 1 \in N
  <2> SUFFICES ASSUME NEW z \in r[n + 1]
               PROVE  After(z, n + 1)
    OBVIOUS
  <2>1. z \in Turn(next, r[n])
    BY <1>1
  <2>2. PICK w \in r[n] : \E e \in next[w[1]] : z = <<w[1] \ {e}, Unite(w[2], e)>>
    BY <2>1 DEF Turn
  <2>3. PICK e \in next[w[1]] : z = <<w[1] \ {e}, Unite(w[2], e)>>
    BY <2>2
  <2>4. z[1] = w[1] \ {e} /\ z[2] = Unite(w[2], e)
    BY <2>3
  <2>5. /\ w[1] \in SUBSET edges /\ Cardinality(w[1]) = Cardinality(edges) - n
        /\ Joins(w[2], vertices, edges \ w[1])
    BY <1>3 DEF After
  <2>6. e \in w[1] /\ e \in edges
    BY <2>5
  <2>7. IsFiniteSet(w[1])
    BY <2>5, FS_Subset
  <2>8. Cardinality(w[1] \ {e}) = Cardinality(edges) - (n + 1)
    <3>1. Cardinality(w[1] \ {e}) = Cardinality(w[1]) - 1
      BY <2>6, <2>7, FS_RemoveElement
    <3> QED BY <1>0, <2>5, <3>1
  <2>9. edges \ (w[1] \ {e}) = (edges \ w[1]) \cup {e}
    BY <2>5, <2>6
  <2> DEFINE F == edges \ w[1]
  <2>10. F \in SUBSET edges
    OBVIOUS
  <2>11. Joins(Unite(w[2], e), vertices, F \cup {e})
    <3>1. Joins(w[2], vertices, F)
      BY <2>5
    <3> HIDE DEF F
    <3> QED BY <2>6, <2>10, <3>1, JoinsStep
  <2>12. z[1] \in SUBSET edges /\ Cardinality(z[1]) = Cardinality(edges) - (n + 1)
    BY <2>4, <2>5, <2>8
  <2>13. Joins(z[2], vertices, edges \ z[1])
    BY <2>4, <2>9, <2>11
  <2> QED BY <2>12, <2>13 DEF After
<1>4. Nat \subseteq N
  <2> HIDE DEF N
  <2> QED BY <1>2, <1>3, NatSetInduction
<1> QED
  BY <1>4 DEF r

(* Whatever the loop ends with has a root for every class.                 *)
LEMMA RootsCount ==
  ASSUME Graph(vertices, edges), Ordered(vertices, edges), IsFiniteSet(edges),
         NEW next, \A E \in SUBSET edges : next[E] \subseteq E, NEW parent \in ParentMaps(next)
  PROVE  Cardinality(Roots(parent)) = Cardinality(Classes(vertices, edges))
<1> DEFINE n == Cardinality(edges)
<1>1. n \in Nat
  BY FS_CardinalityType
<1>2. PICK w \in Walks(next)[n] : parent = w[2]
  BY DEF ParentMaps
<1>3. w[1] \in SUBSET edges /\ Cardinality(w[1]) = n - n /\ Joins(w[2], vertices, edges \ w[1])
  BY <1>1, <1>2, WalksJoin DEF After
<1>4. w[1] = {}
  <2>1. IsFiniteSet(w[1]) /\ Cardinality(w[1]) = 0
    BY <1>1, <1>3, FS_Subset
  <2> QED BY <2>1, FS_EmptySet
<1>5. Joins(parent, vertices, edges)
  <2>1. edges \ {} = edges
    OBVIOUS
  <2> QED BY <1>2, <1>3, <1>4, <2>1
<1>6. Cardinality({Root(parent, v) : v \in vertices}) = Cardinality(Classes(vertices, edges))
  BY <1>5, JoinsCount
<1> QED
  BY <1>6 DEF Roots

(* The order the interpreter takes is one walk.                            *)
LEMMA OneWalk ==
  ASSUME Graph(vertices, edges), Ordered(vertices, edges), IsFiniteSet(edges)
  PROVE  \E parent : ParentMaps(OneEdge) = {parent}
<1> DEFINE r == Walks(OneEdge)
           c == Cardinality(edges)
           N == {n \in Nat : n <= c => \E w : r[n] = {w}}
<1>1. \A E \in SUBSET edges : OneEdge[E] = {e \in E : e = CHOOSE f \in E : TRUE}
  BY DEF OneEdge
<1>2. \A E \in SUBSET edges : OneEdge[E] \subseteq E
  BY <1>1
<1>3. c \in Nat
  BY FS_CardinalityType
<1>4. r[0] = {<<edges, [v \in vertices |-> v]>>} /\ \A n \in Nat : r[n + 1] = Turn(OneEdge, r[n])
  BY <1>2, WalksUnfold
<1>5. \A n \in Nat : \A w \in r[n] : w[1] \in SUBSET edges /\ Cardinality(w[1]) = c - n
  BY <1>2, WalksJoin DEF After
<1> HIDE DEF r
<1>6. 0 \in N
  BY <1>4
<1>7. ASSUME NEW n \in Nat, n \in N PROVE n + 1 \in N
  <2> SUFFICES ASSUME n + 1 <= c PROVE \E w : r[n + 1] = {w}
    OBVIOUS
  <2>1. PICK w : r[n] = {w}
    <3>1. n <= c
      BY <1>3
    <3> QED BY <1>7, <3>1
  <2>2. w[1] \in SUBSET edges /\ Cardinality(w[1]) = c - n
    BY <1>5, <2>1
  <2>3. w[1] # {}
    <3>1. c - n # 0
      BY <1>3
    <3> HIDE DEF c
    <3> QED BY <2>2, <3>1, FS_EmptySet
  <2> DEFINE e == CHOOSE f \in w[1] : TRUE
  <2>4. OneEdge[w[1]] = {e}
    BY <1>1, <2>2, <2>3
  <2> HIDE DEF e
  <2>5. Turn(OneEdge, {w}) = {<<w[1] \ {e}, Unite(w[2], e)>>}
    BY <2>4 DEF Turn
  <2> QED BY <1>4, <2>1, <2>5
<1>8. Nat \subseteq N
  <2> HIDE DEF N
  <2> QED BY <1>6, <1>7, NatSetInduction
<1>9. PICK w : r[c] = {w}
  <2> HIDE DEF c
  <2>1. c <= c /\ c \in N
    BY <1>3, <1>8
  <2> QED BY <2>1
<1> QED
  BY <1>9 DEF ParentMaps, r

(* connected_components counts the classes.                                *)
LEMMA CountsClasses ==
  ASSUME Graph(vertices, edges), Ordered(vertices, edges), IsFiniteSet(edges)
  PROVE  ConnectedComponents = Cardinality(Classes(vertices, edges))
<1>1. PICK parent : ParentMaps(OneEdge) = {parent}
  BY OneWalk
<1>2. \A E \in SUBSET edges : OneEdge[E] \subseteq E
  BY DEF OneEdge
<1>3. Cardinality(Roots(parent)) = Cardinality(Classes(vertices, edges))
  BY <1>1, <1>2, RootsCount
<1>4. UNION {Roots(q) : q \in {parent}} = Roots(parent)
  OBVIOUS
<1> QED
  BY <1>1, <1>3, <1>4 DEF ConnectedComponents

----------------------------------------------------------------------------
(* The reference: steps along edges.                                       *)
LEMMA NeighboursStay ==
  ASSUME Graph(vertices, edges), NEW U, U \in SUBSET vertices
  PROVE  Neighbours(U) \in SUBSET vertices /\ U \subseteq Neighbours(U)
  BY DEF Neighbours, Graph

(* A set is closed when a step along the edges adds nothing to it.         *)
LEMMA NeighboursGrow ==
  ASSUME Graph(vertices, edges), NEW U, U \in SUBSET vertices
  PROVE  Closed(U, edges) <=> Neighbours(U) = U
  BY DEF Neighbours, Closed

(* A step along the edges stays in a closed set.                           *)
LEMMA NeighboursInClosed ==
  ASSUME NEW C, Closed(C, edges), NEW U, U \subseteq C
  PROVE  Neighbours(U) \subseteq C
  BY DEF Neighbours, Closed

(* As many steps as there are vertices reach all of the class: each adds a *)
(* vertex until the set is closed.                                         *)
LEMMA ReachIsClass ==
  ASSUME Graph(vertices, edges), NEW v, v \in vertices
  PROVE  ComponentOf(v) = Class(vertices, edges, v)
<1> DEFINE S == SUBSET vertices
           g == [U \in S |-> Neighbours(U)]
           D(h) == h = [n \in Nat |-> IF n = 0 THEN {v} ELSE Neighbours(h[n - 1])]
           R == CHOOSE h : D(h)
           m == Cardinality(vertices)
           C == Class(vertices, edges, v)
<1>1. ComponentOf(v) = R[m]
  BY DEF ComponentOf
<1>2. g \in [S -> S] /\ \A U \in S : g[U] = Neighbours(U)
  BY NeighboursStay
<1>3. {v} \in S
  OBVIOUS
<1>4. \A U : U \in S <=> U \subseteq vertices
  OBVIOUS
<1> HIDE DEF S, g
<1>5. \E f : Iterated(f, S, g, {v})
  BY <1>2, <1>3, Iterates
<1>6. PICK f : f \in [Nat -> S] /\ f[0] = {v} /\ \A n \in Nat : f[n + 1] = g[f[n]]
  BY <1>5 DEF Iterated
<1>7. \A n \in Nat : f[n] = IF n = 0 THEN {v} ELSE Neighbours(f[n - 1])
  <2> SUFFICES ASSUME NEW n \in Nat, n # 0 PROVE f[n] = Neighbours(f[n - 1])
    BY <1>6
  <2>1. n - 1 \in Nat /\ (n - 1) + 1 = n
    OBVIOUS
  <2> QED BY <1>2, <1>6, <2>1
<1>8. D(f)
  <2>1. f = [n \in Nat |-> f[n]]
    BY <1>6
  <2> QED BY <1>7, <2>1
<1> HIDE DEF R
<1>9. D(R)
  <2> HIDE DEF D
  <2> QED BY <1>8 DEF R
<1>10. \A n \in Nat : R[n] = IF n = 0 THEN {v} ELSE Neighbours(R[n - 1])
  BY <1>9
<1> HIDE DEF D
<1>11. R[0] = {v} /\ \A n \in Nat : R[n + 1] = Neighbours(R[n])
  <2>1. \A n \in Nat : n + 1 \in Nat /\ n + 1 # 0 /\ (n + 1) - 1 = n
    OBVIOUS
  <2> QED BY <1>10, <2>1
<1>12. v \in C /\ C \subseteq vertices /\ Closed(C, edges)
  BY ClassIsClosed
<1> HIDE DEF C, m
<1> DEFINE N == {n \in Nat : v \in R[n] /\ R[n] \subseteq C}
           M == {n \in Nat : Closed(R[n], edges) \/ Cardinality(R[n]) >= n + 1}
<1>13. Nat \subseteq N
  <2>1. 0 \in N
    BY <1>11, <1>12
  <2>2. ASSUME NEW n \in Nat, n \in N PROVE n + 1 \in N
    <3>1. R[n] \subseteq C /\ R[n] \in SUBSET vertices /\ v \in R[n]
      BY <1>12, <2>2
    <3>2. Neighbours(R[n]) \subseteq C
      BY <1>12, <3>1, NeighboursInClosed
    <3>3. R[n] \subseteq Neighbours(R[n])
      BY <3>1, NeighboursStay
    <3>4. R[n + 1] = Neighbours(R[n])
      BY <1>11
    <3> QED BY <3>1, <3>2, <3>3, <3>4
  <2> HIDE DEF N
  <2> QED BY <2>1, <2>2, NatSetInduction
<1>14. \A n \in Nat : v \in R[n] /\ R[n] \subseteq C /\ R[n] \in SUBSET vertices
  BY <1>12, <1>13
<1>15. \A n \in Nat : IsFiniteSet(R[n]) /\ Cardinality(R[n]) \in Nat /\ Cardinality(R[n]) <= m
  BY <1>14, FS_Subset, FS_CardinalityType DEF Graph, m
<1> HIDE DEF N
<1>16. Nat \subseteq M
  <2>1. 0 \in M
    <3>1. Cardinality({v}) = 1
      BY FS_Singleton
    <3> QED BY <1>11, <3>1
  <2>2. ASSUME NEW n \in Nat, n \in M PROVE n + 1 \in M
    <3>1. R[n + 1] = Neighbours(R[n])
      BY <1>11
    <3>2. CASE Closed(R[n], edges)
      <4>1. R[n + 1] = R[n]
        BY <1>14, <3>1, <3>2, NeighboursGrow
      <4> QED BY <3>2, <4>1
    <3>3. CASE ~ Closed(R[n], edges)
      <4>1. R[n] \subseteq R[n + 1] /\ R[n + 1] # R[n]
        BY <1>14, <3>1, <3>3, NeighboursGrow, NeighboursStay
      <4>2. Cardinality(R[n]) < Cardinality(R[n + 1])
        <5>1. IsFiniteSet(R[n + 1])
          BY <1>15
        <5>2. Cardinality(R[n]) <= Cardinality(R[n + 1]) /\ Cardinality(R[n]) # Cardinality(R[n + 1])
          BY <4>1, <5>1, FS_Subset
        <5>3. Cardinality(R[n]) \in Nat /\ Cardinality(R[n + 1]) \in Nat
          BY <1>15
        <5> QED BY <5>2, <5>3
      <4>3. Cardinality(R[n]) >= n + 1
        BY <2>2, <3>3
      <4>4. Cardinality(R[n]) \in Nat /\ Cardinality(R[n + 1]) \in Nat
        BY <1>15
      <4> QED BY <4>2, <4>3, <4>4
    <3> QED BY <3>2, <3>3
  <2> HIDE DEF M
  <2> QED BY <2>1, <2>2, NatSetInduction
<1>17. m \in Nat
  BY FS_CardinalityType DEF m, Graph
<1>18. Closed(R[m], edges)
  <2>1. Cardinality(R[m]) \in Nat /\ Cardinality(R[m]) <= m
    BY <1>15, <1>17
  <2>2. m \in M
    BY <1>16, <1>17
  <2> QED BY <1>17, <2>1, <2>2
<1>19. C \subseteq R[m]
  BY <1>14, <1>17, <1>18, ClassIsLeast DEF C
<1> QED
  BY <1>1, <1>14, <1>17, <1>19 DEF C

(* Union-find, in whatever order, counts what the reference reaches.       *)
LEMMA RootsAreComponents ==
  ASSUME Graph(vertices, edges), Ordered(vertices, edges), IsFiniteSet(edges),
         NEW parent \in ParentMaps(AnyEdge)
  PROVE  Cardinality(Roots(parent)) = Cardinality({ComponentOf(v) : v \in vertices})
<1>1. \A E \in SUBSET edges : AnyEdge[E] \subseteq E
  BY DEF AnyEdge
<1>2. Cardinality(Roots(parent)) = Cardinality(Classes(vertices, edges))
  BY <1>1, RootsCount
<1>3. \A v \in vertices : ComponentOf(v) = Class(vertices, edges, v)
  BY ReachIsClass
<1>4. {ComponentOf(v) : v \in vertices} = Classes(vertices, edges)
  BY <1>3 DEF Classes
<1> QED
  BY <1>2, <1>4

----------------------------------------------------------------------------
(* Chains over the field of two elements.                                  *)
LEMMA PlusLaws ==
  /\ \A A, B : Plus(A, B) = Plus(B, A)
  /\ \A A, B, C : Plus(Plus(A, B), C) = Plus(A, Plus(B, C))
  /\ \A A : Plus(A, {}) = A /\ Plus({}, A) = A /\ Plus(A, A) = {}
  /\ \A A, B : Plus(Plus(A, B), B) = A
<1>1. \A A, B : Plus(A, B) = Plus(B, A)
  BY DEF Plus
<1>2. \A A, B, C : Plus(Plus(A, B), C) = Plus(A, Plus(B, C))
  BY DEF Plus
<1>3. \A A : Plus(A, {}) = A /\ Plus({}, A) = A /\ Plus(A, A) = {}
  BY DEF Plus
<1>4. \A A, B : Plus(Plus(A, B), B) = A
  BY DEF Plus
<1> QED
  BY <1>1, <1>2, <1>3, <1>4

(* The sum of two finite chains is finite.                                 *)
LEMMA PlusFinite ==
  ASSUME NEW A, IsFiniteSet(A), NEW B, IsFiniteSet(B)
  PROVE  IsFiniteSet(Plus(A, B))
  BY FS_Difference, FS_Union DEF Plus

\* The number of chains that hold x.
Holds(C, x) == Cardinality({c \in C : x \in c})

(* A simplex is in a sum when an odd number of the chains hold it.         *)
LEMMA SumMember ==
  ASSUME NEW C, IsFiniteSet(C), NEW x
  PROVE  Holds(C, x) \in Nat /\ (x \in Sum(C) <=> Holds(C, x) % 2 = 1)
<1> DEFINE S == {c \in C : x \in c}
<1>1. IsFiniteSet(S)
  BY FS_Subset
<1>2. Cardinality(S) \in Nat /\ (S = {} => Cardinality(S) = 0)
  BY <1>1, FS_CardinalityType, FS_EmptySet
<1>3. S # {} => x \in UNION C
  OBVIOUS
<1>4. x \in Sum(C) <=> x \in UNION C /\ Cardinality(S) % 2 = 1
  BY DEF Sum
<1> HIDE DEF S
<1>5. Cardinality(S) % 2 = 1 => Cardinality(S) # 0
  BY <1>2
<1> QED
  BY <1>2, <1>3, <1>4, <1>5 DEF S, Holds

(* One more chain is added to the sum.                                     *)
LEMMA SumAdd ==
  ASSUME NEW C, IsFiniteSet(C), NEW c, c \notin C
  PROVE  Sum(C \cup {c}) = Plus(Sum(C), c)
<1> DEFINE D == C \cup {c}
<1>1. IsFiniteSet(D)
  BY FS_AddElement
<1>2. ASSUME NEW x PROVE x \in Sum(D) <=> x \in Plus(Sum(C), c)
  <2> DEFINE S == {b \in C : x \in b}
             T == {b \in D : x \in b}
  <2>1. Holds(C, x) \in Nat /\ (x \in Sum(C) <=> Holds(C, x) % 2 = 1)
    BY SumMember
  <2>2. Holds(D, x) \in Nat /\ (x \in Sum(D) <=> Holds(D, x) % 2 = 1)
    <3> HIDE DEF D
    <3> QED BY <1>1, SumMember
  <2>3. x \in c => Holds(D, x) = Holds(C, x) + 1
    <3> SUFFICES ASSUME x \in c PROVE Holds(D, x) = Holds(C, x) + 1
      OBVIOUS
    <3>1. T = S \cup {c} /\ c \notin S /\ IsFiniteSet(S)
      BY FS_Subset
    <3>2. Holds(D, x) = Cardinality(T) /\ Holds(C, x) = Cardinality(S)
      BY DEF Holds
    <3> HIDE DEF S, T, D
    <3> QED BY <3>1, <3>2, FS_AddElement
  <2>4. x \notin c => Holds(D, x) = Holds(C, x)
    <3> SUFFICES ASSUME x \notin c PROVE Holds(D, x) = Holds(C, x)
      OBVIOUS
    <3>1. T = S
      OBVIOUS
    <3>2. Holds(D, x) = Cardinality(T) /\ Holds(C, x) = Cardinality(S)
      BY DEF Holds
    <3> QED BY <3>1, <3>2
  <2> HIDE DEF D
  <2>5. \A k \in Nat : (k + 1) % 2 = 1 <=> ~ (k % 2 = 1)
    OBVIOUS
  <2>6. x \in Sum(D) <=> (IF x \in c THEN x \notin Sum(C) ELSE x \in Sum(C))
    BY <2>1, <2>2, <2>3, <2>4, <2>5
  <2>7. x \in Plus(Sum(C), c) <=> (IF x \in c THEN x \notin Sum(C) ELSE x \in Sum(C))
    BY DEF Plus
  <2> QED BY <2>6, <2>7
<1> HIDE DEF D
<1>3. Sum(D) = Plus(Sum(C), c)
  BY <1>2
<1> QED
  BY <1>3 DEF D

(* The sum of no chains.                                                   *)
LEMMA SumEmpty == Sum({}) = {}
  BY DEF Sum

(* A chain added or taken away changes the sum by the chain.               *)
LEMMA SumFlip ==
  ASSUME NEW C, IsFiniteSet(C), NEW c
  PROVE  Sum(Plus(C, {c})) = Plus(Sum(C), c)
<1>1. CASE c \notin C
  <2>1. Plus(C, {c}) = C \cup {c}
    BY <1>1 DEF Plus
  <2> QED BY <1>1, <2>1, SumAdd
<1>2. CASE c \in C
  <2> DEFINE D == C \ {c}
  <2>1. Plus(C, {c}) = D
    BY <1>2 DEF Plus
  <2>2. IsFiniteSet(D) /\ c \notin D /\ D \cup {c} = C
    BY <1>2, FS_RemoveElement
  <2> HIDE DEF D
  <2>3. Sum(C) = Plus(Sum(D), c)
    BY <2>2, SumAdd
  <2> QED BY <2>1, <2>3, PlusLaws
<1> QED
  BY <1>1, <1>2

(* Sums are linear.                                                        *)
LEMMA SumPlus ==
  ASSUME NEW C, IsFiniteSet(C), NEW D, IsFiniteSet(D)
  PROVE  Sum(Plus(C, D)) = Plus(Sum(C), Sum(D))
<1> DEFINE Q == {T \in SUBSET D : Sum(Plus(C, T)) = Plus(Sum(C), Sum(T))}
<1>1. {} \in Q
  <2>1. Plus(C, {}) = C /\ Plus(Sum(C), {}) = Sum(C) /\ Sum({}) = {}
    BY SumEmpty, PlusLaws
  <2> QED BY <2>1
<1>2. ASSUME NEW T \in SUBSET D, NEW d \in D, T \in Q, d \notin T PROVE T \cup {d} \in Q
  <2>1. Sum(Plus(C, T)) = Plus(Sum(C), Sum(T))
    BY <1>2
  <2>2. T \cup {d} = Plus(T, {d})
    BY <1>2 DEF Plus
  <2>3. IsFiniteSet(T)
    BY FS_Subset
  <2>4. IsFiniteSet(Plus(C, T))
    BY <2>3, PlusFinite
  <2> DEFINE A == Plus(C, T)
             B == Plus(T, {d})
             s == {d}
  <2>5. Plus(C, B) = Plus(A, s)
    BY PlusLaws
  <2>6. Sum(Plus(A, s)) = Plus(Sum(A), d)
    <3>1. IsFiniteSet(A)
      BY <2>4
    <3> HIDE DEF A
    <3> QED BY <3>1, SumFlip
  <2>7. Sum(B) = Plus(Sum(T), d)
    BY <2>3, SumFlip
  <2> HIDE DEF B, s
  <2>8. Sum(Plus(C, B)) = Plus(Sum(C), Sum(B))
    <3> DEFINE x == Sum(C)
               y == Sum(T)
    <3>1. Sum(A) = Plus(x, y)
      BY <2>1
    <3> HIDE DEF x, y, A
    <3>2. Plus(Plus(x, y), d) = Plus(x, Plus(y, d))
      BY PlusLaws
    <3>3. Sum(Plus(C, B)) = Plus(Plus(x, y), d)
      BY <2>5, <2>6, <3>1
    <3>4. Plus(x, Sum(B)) = Plus(x, Plus(y, d))
      BY <2>7 DEF y
    <3> QED BY <3>2, <3>3, <3>4 DEF x
  <2>9. T \cup {d} = B
    BY <2>2 DEF B
  <2>10. Sum(Plus(C, T \cup {d})) = Plus(Sum(C), Sum(T \cup {d}))
    BY <2>8, <2>9
  <2> HIDE DEF A
  <2> QED BY <2>10
<1>3. D \in Q
  <2> HIDE DEF Q
  <2> QED BY <1>1, <1>2, SetInduction
<1> QED
  BY <1>3
----------------------------------------------------------------------------
(* Spans.                                                                  *)

\* A finite space: a set of chains with their sums.
Space(S) == IsFiniteSet(S) /\ {} \in S /\ \A s, t \in S : Plus(s, t) \in S

\* The sums with c.
Shift(S, c) == {Plus(s, c) : s \in S}

(* A space is its own shift by a chain of it.                              *)
LEMMA ShiftWithin ==
  ASSUME NEW S, Space(S), NEW c, c \in S
  PROVE  S \cup Shift(S, c) = S
  BY DEF Space, Shift

(* Shifted by any other chain, a space is met nowhere: together they are   *)
(* twice as many.                                                          *)
LEMMA ShiftDoubles ==
  ASSUME NEW S, Space(S), NEW c, c \notin S
  PROVE  /\ IsFiniteSet(S \cup Shift(S, c))
         /\ Cardinality(S \cup Shift(S, c)) = 2 * Cardinality(S)
<1> DEFINE T == Shift(S, c)
           f == [s \in S |-> Plus(s, c)]
<1>1. \A s \in S : f[s] = Plus(s, c) /\ f[s] \in T
  BY DEF Shift
<1>2. f \in [S -> T]
  BY <1>1
<1>3. \A t \in T : \E s \in S : f[s] = t
  BY <1>1 DEF Shift
<1>4. \A r, s \in S : f[r] = f[s] => r = s
  <2> SUFFICES ASSUME NEW r \in S, NEW s \in S, f[r] = f[s] PROVE r = s
    OBVIOUS
  <2>1. Plus(r, c) = Plus(s, c)
    BY <1>1
  <2>2. Plus(Plus(r, c), c) = r /\ Plus(Plus(s, c), c) = s
    BY PlusLaws
  <2> QED BY <2>1, <2>2
<1> HIDE DEF f
<1>5. IsFiniteSet(S) /\ Cardinality(S) \in Nat
  BY FS_CardinalityType DEF Space
<1>6. IsFiniteSet(T) /\ Cardinality(T) = Cardinality(S)
  BY <1>2, <1>3, <1>4, <1>5, OneToOne
<1>7. S \cap T = {}
  <2> SUFFICES ASSUME NEW s \in S, Plus(s, c) \in S PROVE FALSE
    BY DEF Shift
  <2>1. Plus(Plus(c, s), s) = c /\ Plus(c, s) = Plus(s, c)
    BY PlusLaws
  <2>2. c \in S
    BY <2>1 DEF Space
  <2> QED BY <2>2
<1> HIDE DEF T
<1>8. IsFiniteSet(S \cup T) /\ Cardinality(S \cup T) = Cardinality(S) + Cardinality(T) - Cardinality(S \cap T)
  BY <1>5, <1>6, FS_Union
<1>9. Cardinality(S \cap T) = 0
  BY <1>7, FS_EmptySet
<1> QED
  BY <1>5, <1>6, <1>8, <1>9 DEF T

(* A span is a space that holds the chains it is the span of.              *)
LEMMA SpanIsSpace ==
  ASSUME NEW E, IsFiniteSet(E)
  PROVE  Space(Span(E)) /\ (\A e \in E : e \in Span(E)) /\ \A C \in SUBSET E : Sum(C) \in Span(E)
<1>1. \A C \in SUBSET E : Sum(C) \in Span(E) /\ IsFiniteSet(C)
  BY FS_Subset DEF Span
<1>2. IsFiniteSet(Span(E))
  <2> DEFINE f == [C \in SUBSET E |-> Sum(C)]
             P == SUBSET E
  <2>1. IsFiniteSet(P)
    BY FS_SUBSET
  <2>2. f \in Surjection(P, Span(E))
    BY DEF Surjection, Span
  <2> HIDE DEF f, P
  <2> QED BY <2>1, <2>2, FS_Surjection
<1>3. {} \in Span(E)
  BY <1>1, SumEmpty
<1>4. ASSUME NEW s \in Span(E), NEW t \in Span(E) PROVE Plus(s, t) \in Span(E)
  <2>1. PICK C \in SUBSET E : s = Sum(C)
    BY DEF Span
  <2>2. PICK D \in SUBSET E : t = Sum(D)
    BY DEF Span
  <2>3. Plus(C, D) \in SUBSET E
    BY DEF Plus
  <2>4. Plus(s, t) = Sum(Plus(C, D))
    BY <1>1, <2>1, <2>2, SumPlus
  <2> QED BY <1>1, <2>3, <2>4
<1>5. ASSUME NEW e \in E PROVE e \in Span(E)
  <2>1. Sum({} \cup {e}) = Plus(Sum({}), e)
    BY FS_EmptySet, SumAdd
  <2>2. Sum({} \cup {e}) = e
    BY <2>1, SumEmpty, PlusLaws
  <2>3. {} \cup {e} \in SUBSET E
    OBVIOUS
  <2> QED BY <1>1, <2>2, <2>3
<1> QED
  BY <1>1, <1>2, <1>3, <1>4, <1>5 DEF Space

(* One more chain: the span and its shift.                                 *)
LEMMA SpanAdd ==
  ASSUME NEW E, IsFiniteSet(E), NEW c, c \notin E
  PROVE  Span(E \cup {c}) = Span(E) \cup Shift(Span(E), c)
<1> DEFINE F == E \cup {c}
<1>1. IsFiniteSet(F) /\ E \subseteq F
  BY FS_AddElement
<1>2. ASSUME NEW s \in Span(F) PROVE s \in Span(E) \cup Shift(Span(E), c)
  <2>1. PICK C \in SUBSET F : s = Sum(C)
    BY DEF Span
  <2>2. CASE c \notin C
    <3>1. C \in SUBSET E
      BY <2>2
    <3> QED BY <2>1, <3>1 DEF Span
  <2>3. CASE c \in C
    <3> DEFINE D == C \ {c}
    <3>1. D \in SUBSET E /\ c \notin D /\ D \cup {c} = C
      BY <2>3
    <3> HIDE DEF D
    <3>2. IsFiniteSet(D)
      BY <3>1, FS_Subset
    <3>3. s = Plus(Sum(D), c)
      BY <2>1, <3>1, <3>2, SumAdd
    <3>4. Sum(D) \in Span(E)
      BY <3>1 DEF Span
    <3> QED BY <3>3, <3>4 DEF Shift
  <2> QED BY <2>2, <2>3
<1>3. ASSUME NEW C \in SUBSET E PROVE Sum(C) \in Span(F) /\ Plus(Sum(C), c) \in Span(F)
  <2>1. IsFiniteSet(C) /\ c \notin C
    BY FS_Subset
  <2>2. Sum(C \cup {c}) = Plus(Sum(C), c)
    BY <2>1, SumAdd
  <2>3. C \in SUBSET F /\ C \cup {c} \in SUBSET F
    OBVIOUS
  <2> HIDE DEF F
  <2>4. \A D \in SUBSET F : Sum(D) \in Span(F)
    BY DEF Span
  <2> QED BY <2>2, <2>3, <2>4
<1> HIDE DEF F
<1>4. \A s \in Span(E) : s \in Span(F) /\ Plus(s, c) \in Span(F)
  BY <1>3 DEF Span
<1>5. Span(F) = Span(E) \cup Shift(Span(E), c)
  BY <1>2, <1>4 DEF Shift
<1> QED
  BY <1>5 DEF F

----------------------------------------------------------------------------
(* Powers of two and ranks.                                                *)
LEMMA TwoToUnfold ==
  TwoTo \in [Nat -> Nat] /\ TwoTo[0] = 1 /\ \A n \in Nat : TwoTo[n + 1] = 2 * TwoTo[n]
<1> DEFINE g == [k \in Nat |-> 2 * k]
           D(h) == h = [d \in Nat |-> IF d = 0 THEN 1 ELSE 2 * h[d - 1]]
<1>1. g \in [Nat -> Nat] /\ \A k \in Nat : g[k] = 2 * k
  OBVIOUS
<1> HIDE DEF g
<1>2. \E f : Iterated(f, Nat, g, 1)
  BY <1>1, Iterates
<1>3. PICK f : f \in [Nat -> Nat] /\ f[0] = 1 /\ \A n \in Nat : f[n + 1] = g[f[n]]
  BY <1>2 DEF Iterated
<1>4. \A n \in Nat : f[n] = IF n = 0 THEN 1 ELSE 2 * f[n - 1]
  <2> SUFFICES ASSUME NEW n \in Nat, n # 0 PROVE f[n] = 2 * f[n - 1]
    BY <1>3
  <2>1. n - 1 \in Nat /\ (n - 1) + 1 = n
    OBVIOUS
  <2>2. f[n] = g[f[n - 1]] /\ f[n - 1] \in Nat
    BY <1>3, <2>1
  <2> QED BY <1>1, <2>2
<1>5. D(f)
  <2>1. f = [n \in Nat |-> f[n]]
    BY <1>3
  <2> QED BY <1>4, <2>1
<1>6. TwoTo = CHOOSE h : D(h)
  BY DEF TwoTo
<1> DEFINE r == TwoTo
<1>7. D(r)
  <2> HIDE DEF D
  <2> QED BY <1>5, <1>6
<1> HIDE DEF r
<1>8. \A n \in Nat : r[n] = IF n = 0 THEN 1 ELSE 2 * r[n - 1]
  BY <1>7
<1>9. r[0] = 1 /\ \A n \in Nat : r[n + 1] = 2 * r[n]
  <2>1. \A n \in Nat : n + 1 \in Nat /\ n + 1 # 0 /\ (n + 1) - 1 = n
    OBVIOUS
  <2> QED BY <1>8, <2>1
<1> DEFINE N == {n \in Nat : r[n] \in Nat}
<1>10. Nat \subseteq N
  <2>1. 0 \in N
    BY <1>9
  <2>2. ASSUME NEW n \in Nat, n \in N PROVE n + 1 \in N
    BY <1>9, <2>2
  <2> HIDE DEF N
  <2> QED BY <2>1, <2>2, NatSetInduction
<1>11. r \in [Nat -> Nat]
  <2>1. r = [n \in Nat |-> r[n]]
    BY <1>7
  <2> QED BY <1>10, <2>1
<1> QED
  BY <1>9, <1>11 DEF r

(* Powers of two grow.                                                     *)
LEMMA TwoToGrows ==
  \A m, n \in Nat : m < n => TwoTo[m] < TwoTo[n]
<1> DEFINE N == {n \in Nat : TwoTo[n] >= 1 /\ \A m \in Nat : m < n => TwoTo[m] < TwoTo[n]}
<1>1. TwoTo \in [Nat -> Nat] /\ TwoTo[0] = 1 /\ \A n \in Nat : TwoTo[n + 1] = 2 * TwoTo[n]
  BY TwoToUnfold
<1>2. 0 \in N
  BY <1>1
<1>3. ASSUME NEW n \in Nat, n \in N PROVE n + 1 \in N
  <2>1. TwoTo[n] \in Nat /\ TwoTo[n] >= 1 /\ TwoTo[n + 1] = 2 * TwoTo[n]
    BY <1>1, <1>3
  <2>2. TwoTo[n] < TwoTo[n + 1] /\ TwoTo[n + 1] \in Nat /\ TwoTo[n + 1] >= 1
    BY <2>1
  <2>3. ASSUME NEW m \in Nat, m < n + 1 PROVE TwoTo[m] < TwoTo[n + 1]
    <3>1. TwoTo[m] \in Nat
      BY <1>1
    <3>2. CASE m = n
      BY <2>2, <3>2
    <3>3. CASE m # n
      <4>1. m < n
        BY <2>3, <3>3
      <4>2. TwoTo[m] < TwoTo[n]
        BY <1>3, <4>1
      <4> QED BY <2>1, <2>2, <3>1, <4>2
    <3> QED BY <3>2, <3>3
  <2> QED BY <2>2, <2>3
<1>4. Nat \subseteq N
  <2> HIDE DEF N
  <2> QED BY <1>2, <1>3, NatSetInduction
<1> QED
  BY <1>4

\* d is the rank of the chains E.
Ranks(E, d) == d \in Nat /\ d <= Cardinality(E) /\ TwoTo[d] = Cardinality(Span(E))

(* A set of chains has one rank.                                           *)
LEMMA RankIs ==
  ASSUME NEW E, IsFiniteSet(E), NEW d, Ranks(E, d)
  PROVE  Rank(E) = d
<1> DEFINE c == Cardinality(E)
           s == Cardinality(Span(E))
<1>1. c \in Nat
  BY FS_CardinalityType
<1>2. d \in 0..c /\ TwoTo[d] = s
  BY <1>1 DEF Ranks
<1>3. \A m, n \in Nat : m < n => TwoTo[m] < TwoTo[n]
  BY TwoToGrows
<1>4. \A n \in Nat : TwoTo[n] \in Nat
  BY TwoToUnfold
<1>5. Rank(E) = CHOOSE e \in 0..c : TwoTo[e] = s
  BY DEF Rank
<1> HIDE DEF c, s
<1>6. \A e \in 0..c : TwoTo[e] = s => e = d
  <2> SUFFICES ASSUME NEW e \in 0..c, TwoTo[e] = s, e # d PROVE FALSE
    OBVIOUS
  <2>1. e \in Nat /\ d \in Nat /\ (e < d \/ d < e)
    BY <1>1, <1>2
  <2>2. TwoTo[e] < TwoTo[d] \/ TwoTo[d] < TwoTo[e]
    BY <1>3, <2>1
  <2> QED BY <1>2, <1>4, <2>1, <2>2
<1> QED
  BY <1>2, <1>5, <1>6

(* No chains have rank 0.                                                  *)
LEMMA RankEmpty ==
  Ranks({}, 0) /\ Rank({}) = 0
<1>1. Span({}) = {{}}
  BY SumEmpty DEF Span
<1>2. Cardinality({{}}) = 1 /\ Cardinality({}) = 0
  BY FS_Singleton, FS_EmptySet
<1>3. TwoTo[0] = 1
  BY TwoToUnfold
<1>4. Ranks({}, 0)
  <2>1. Cardinality(Span({})) = 1
    <3> DEFINE z == {}
    <3>1. Span({}) = {z}
      BY <1>1
    <3> HIDE DEF z
    <3> QED BY <3>1, FS_Singleton
  <2>2. 0 <= Cardinality({}) /\ 0 \in Nat
    BY <1>2
  <2> QED BY <1>3, <2>1, <2>2 DEF Ranks
<1> QED
  BY <1>4, RankIs, FS_EmptySet

(* A chain raises the rank by one, unless the others already sum to it.    *)
LEMMA RankStep ==
  ASSUME NEW E, IsFiniteSet(E), NEW d, Ranks(E, d), NEW c, c \notin E
  PROVE  /\ c \in Span(E) => Ranks(E \cup {c}, d)
         /\ c \notin Span(E) => Ranks(E \cup {c}, d + 1)
<1> DEFINE F == E \cup {c}
           S == Span(E)
<1>1. Cardinality(F) = Cardinality(E) + 1 /\ Cardinality(E) \in Nat
  BY FS_AddElement, FS_CardinalityType
<1>2. Span(F) = S \cup Shift(S, c) /\ Space(S)
  BY SpanAdd, SpanIsSpace
<1>3. d \in Nat /\ d <= Cardinality(E) /\ TwoTo[d] = Cardinality(S) /\ TwoTo[d + 1] = 2 * TwoTo[d]
  BY TwoToUnfold DEF Ranks
<1> HIDE DEF F, S
<1>4. ASSUME c \in S PROVE Ranks(F, d)
  <2>1. Span(F) = S
    BY <1>2, <1>4, ShiftWithin
  <2> QED BY <1>1, <1>3, <2>1 DEF Ranks
<1>5. ASSUME c \notin S PROVE Ranks(F, d + 1)
  <2>1. Cardinality(Span(F)) = 2 * Cardinality(S)
    BY <1>2, <1>5, ShiftDoubles
  <2>2. d + 1 \in Nat /\ d + 1 <= Cardinality(F)
    BY <1>1, <1>3
  <2>3. TwoTo[d + 1] = Cardinality(Span(F))
    BY <1>3, <2>1
  <2> QED BY <2>2, <2>3 DEF Ranks
<1> QED
  BY <1>4, <1>5 DEF F, S

(* The span of any finite set of chains is a power of two in size.         *)
LEMMA RankExists ==
  ASSUME NEW E, IsFiniteSet(E)
  PROVE  Ranks(E, Rank(E))
<1> DEFINE Q == {T \in SUBSET E : \E d : Ranks(T, d)}
<1>1. {} \in Q
  BY RankEmpty
<1>2. ASSUME NEW T \in SUBSET E, NEW x \in E, T \in Q, x \notin T PROVE T \cup {x} \in Q
  <2>1. PICK d : Ranks(T, d)
    BY <1>2
  <2>2. IsFiniteSet(T)
    BY FS_Subset
  <2>3. \E e : Ranks(T \cup {x}, e)
    BY <1>2, <2>1, <2>2, RankStep
  <2> QED BY <2>3
<1>3. E \in Q
  <2> HIDE DEF Q
  <2> QED BY <1>1, <1>2, SetInduction
<1>4. PICK d : Ranks(E, d)
  BY <1>3
<1> QED
  BY <1>4, RankIs

(* The rank of one more chain, for Rank itself.                            *)
LEMMA RankAdd ==
  ASSUME NEW E, IsFiniteSet(E), NEW c, c \notin E
  PROVE  /\ Rank(E) \in Nat /\ Rank(E) <= Cardinality(E)
         /\ c \in Span(E) => Rank(E \cup {c}) = Rank(E)
         /\ c \notin Span(E) => Rank(E \cup {c}) = Rank(E) + 1
<1> DEFINE d == Rank(E)
           F == E \cup {c}
<1>1. Ranks(E, d)
  BY RankExists
<1>2. d \in Nat /\ d <= Cardinality(E)
  BY <1>1 DEF Ranks
<1>3. IsFiniteSet(F)
  BY FS_AddElement
<1> HIDE DEF d
<1>4. (c \in Span(E) => Ranks(F, d)) /\ (c \notin Span(E) => Ranks(F, d + 1))
  BY <1>1, RankStep
<1> HIDE DEF F
<1>5. (c \in Span(E) => Rank(F) = d) /\ (c \notin Span(E) => Rank(F) = d + 1)
  BY <1>3, <1>4, RankIs
<1> QED
  BY <1>2, <1>5 DEF d, F

----------------------------------------------------------------------------
(* The rank of the edges: an edge is a sum of others when they connect its *)
(* ends.                                                                   *)
LEMMA PathInSpan ==
  ASSUME NEW V, NEW T, Graph(V, T), IsFiniteSet(T), NEW a, NEW b, a \in V, b \in Class(V, T, a), a # b
  PROVE  {a, b} \in Span(T)
<1> DEFINE U == {v \in V : v = a \/ {a, v} \in Span(T)}
<1>1. (\A s, t \in Span(T) : Plus(s, t) \in Span(T)) /\ \A e \in T : e \in Span(T)
  BY SpanIsSpace DEF Space
<1>2. ASSUME NEW e \in T, e \cap U # {} PROVE e \subseteq U
  <2>1. PICK x \in V, y \in V : x # y /\ e = {x, y}
    BY DEF Graph
  <2>2. ASSUME NEW u \in V, NEW w \in V, e = {u, w}, u # w, u \in U PROVE w \in U
    <3>1. {u, w} \in Span(T)
      BY <1>1, <2>2
    <3>2. CASE u = a
      BY <2>2, <3>1, <3>2
    <3>3. CASE u # a /\ w # a
      <4>1. {a, u} \in Span(T)
        BY <2>2, <3>3
      <4>2. Plus({a, u}, {u, w}) = {a, w}
        BY <2>2, <3>3 DEF Plus
      <4>3. Plus({a, u}, {u, w}) \in Span(T)
        BY <1>1, <3>1, <4>1
      <4>4. {a, w} \in Span(T)
        BY <4>2, <4>3
      <4> QED BY <4>4
    <3>4. CASE w = a
      BY <3>4
    <3> QED BY <3>2, <3>3, <3>4
  <2>3. e = {y, x}
    BY <2>1
  <2>4. x \in U \/ y \in U
    BY <1>2, <2>1
  <2>5. x \in U /\ y \in U
    BY <2>1, <2>2, <2>3, <2>4
  <2> HIDE DEF U
  <2> QED BY <2>1, <2>5
<1>3. U \in SUBSET V /\ a \in U /\ Closed(U, T)
  BY <1>2 DEF Closed
<1>4. Class(V, T, a) \subseteq U
  <2> HIDE DEF U
  <2> QED BY <1>3, ClassIsLeast
<1> QED
  BY <1>4

\* An even number of the vertices of A is in s.
Even(s, A) == IsFiniteSet(s) /\ Cardinality(s \cap A) % 2 = 0

(* The sum of two chains with an even number of vertices in A has one too. *)
LEMMA EvenPlus ==
  ASSUME NEW A, NEW s, Even(s, A), NEW t, Even(t, A)
  PROVE  Even(Plus(s, t), A)
<1> DEFINE X == s \cap A
           Y == t \cap A
           i == Cardinality(X \cap Y)
           x == Cardinality(X)
           y == Cardinality(Y)
           z == Cardinality(Plus(s, t) \cap A)
<1>1. IsFiniteSet(X) /\ IsFiniteSet(Y) /\ x % 2 = 0 /\ y % 2 = 0
  BY FS_Subset DEF Even
<1>2. Plus(s, t) \cap A = (X \ Y) \cup (Y \ X)
  BY DEF Plus
<1>3. (X \ Y) \cap (Y \ X) = {} /\ Y \cap X = X \cap Y
  OBVIOUS
<1> HIDE DEF X, Y
<1>4. IsFiniteSet(X \ Y) /\ Cardinality(X \ Y) = x - i
  BY <1>1, FS_Difference
<1>5. IsFiniteSet(Y \ X) /\ Cardinality(Y \ X) = y - i
  <2>1. Cardinality(Y \ X) = y - Cardinality(Y \cap X)
    BY <1>1, FS_Difference
  <2> QED BY <1>1, <1>3, <2>1, FS_Difference
<1>6. z = Cardinality(X \ Y) + Cardinality(Y \ X) - Cardinality({})
  <2> DEFINE P == X \ Y
             R == Y \ X
  <2>1. P \cap R = {}
    BY <1>3
  <2>2. IsFiniteSet(P) /\ IsFiniteSet(R)
    BY <1>4, <1>5
  <2> HIDE DEF P, R
  <2>3. Cardinality(P \cup R) = Cardinality(P) + Cardinality(R) - Cardinality({})
    BY <2>1, <2>2, FS_Union
  <2> QED BY <1>2, <2>3 DEF P, R
<1>7. x \in Nat /\ y \in Nat /\ i \in Nat
  BY <1>1, FS_CardinalityType, FS_Intersection
<1>8. IsFiniteSet(Plus(s, t))
  BY PlusFinite DEF Even
<1>9. z = x + y - 2 * i
  <2>1. Cardinality({}) = 0
    BY FS_EmptySet
  <2> HIDE DEF x, y, i, z
  <2> QED BY <1>4, <1>5, <1>6, <1>7, <2>1
<1> HIDE DEF x, y, i, z
<1>10. z % 2 = 0
  BY <1>1, <1>7, <1>9
<1> QED
  BY <1>8, <1>10 DEF Even, z

(* An edge has both ends or none in a closed set A, so sums of edges have  *)
(* an even number there.                                                   *)
LEMMA SpanIsEven ==
  ASSUME NEW V, NEW T, Graph(V, T), IsFiniteSet(T), NEW A, Closed(A, T), NEW C \in SUBSET T
  PROVE  Even(Sum(C), A)
<1> DEFINE Q == {D \in SUBSET C : Even(Sum(D), A)}
<1>1. IsFiniteSet(C)
  BY FS_Subset
<1>2. {} \in Q
  <2>1. Even({}, A)
    <3>1. {} \cap A = {}
      OBVIOUS
    <3>2. Cardinality({} \cap A) = 0
      BY <3>1, FS_EmptySet
    <3>3. IsFiniteSet({})
      BY FS_EmptySet
    <3> QED BY <3>2, <3>3 DEF Even
  <2> QED BY <2>1, SumEmpty
<1>3. ASSUME NEW D \in SUBSET C, NEW e \in C, D \in Q, e \notin D PROVE D \cup {e} \in Q
  <2>1. IsFiniteSet(D)
    BY <1>1, FS_Subset
  <2>2. Sum(D \cup {e}) = Plus(Sum(D), e)
    BY <1>3, <2>1, SumAdd
  <2>3. PICK a, b \in V : a # b /\ e = {a, b}
    BY DEF Graph
  <2>4. IsFiniteSet(e) /\ Cardinality(e) = 2
    <3>1. IsFiniteSet({a}) /\ Cardinality({a}) = 1 /\ e = {a} \cup {b} /\ b \notin {a}
      BY <2>3, FS_Singleton
    <3>2. IsFiniteSet({a} \cup {b}) /\ Cardinality({a} \cup {b}) = Cardinality({a}) + 1
      BY <3>1, FS_AddElement
    <3> QED BY <3>1, <3>2
  <2>5. e \cap A = {} \/ e \cap A = e
    BY DEF Closed
  <2>6. Cardinality(e \cap A) = 0 \/ Cardinality(e \cap A) = 2
    BY <2>4, <2>5, FS_EmptySet
  <2>7. Even(e, A)
    BY <2>4, <2>6 DEF Even
  <2>8. Even(Sum(D), A)
    BY <1>3
  <2>9. Even(Plus(Sum(D), e), A)
    BY <2>7, <2>8, EvenPlus
  <2> QED BY <2>2, <2>9
<1>4. C \in Q
  <2> HIDE DEF Q
  <2> QED BY <1>1, <1>2, <1>3, SetInduction
<1> QED
  BY <1>4

(* An edge between two classes has one end in one of them: no sum of edges *)
(* has.                                                                    *)
LEMMA CutNotInSpan ==
  ASSUME NEW V, NEW T, Graph(V, T), IsFiniteSet(T), NEW a, NEW b, a \in V, b \in V, b \notin Class(V, T, a)
  PROVE  {a, b} \notin Span(T)
<1> SUFFICES ASSUME {a, b} \in Span(T) PROVE FALSE
  OBVIOUS
<1> DEFINE A == Class(V, T, a)
           e == {a, b}
<1>1. PICK C \in SUBSET T : e = Sum(C)
  BY DEF Span
<1>2. a \in A /\ Closed(A, T)
  BY ClassIsClosed
<1>3. e \cap A = {a}
  BY <1>2
<1> HIDE DEF A, e
<1>4. Even(e, A)
  BY <1>1, <1>2, SpanIsEven
<1>5. Cardinality(e \cap A) = 1
  BY <1>3, FS_Singleton
<1>6. Cardinality(e \cap A) % 2 = 0
  BY <1>4 DEF Even
<1> QED
  BY <1>5, <1>6

(* Rank and components of a graph add up to its vertices.                  *)
LEMMA RankOfGraph ==
  ASSUME NEW V, NEW E, Graph(V, E), IsFiniteSet(E)
  PROVE  /\ Cardinality(Classes(V, E)) \in Nat /\ Rank(E) \in Nat
         /\ Rank(E) + Cardinality(Classes(V, E)) = Cardinality(V)
<1> DEFINE Q == {T \in SUBSET E : Rank(T) + Cardinality(Classes(V, T)) = Cardinality(V)}
<1>0. IsFiniteSet(V) /\ Cardinality(V) \in Nat
  BY FS_CardinalityType DEF Graph
<1>1. {} \in Q
  <2>1. Rank({}) = 0 /\ Cardinality(Classes(V, {})) = Cardinality(V)
    BY <1>0, RankEmpty, CountWithoutEdges
  <2>2. Rank({}) + Cardinality(Classes(V, {})) = Cardinality(V)
    BY <1>0, <2>1
  <2> QED BY <2>2
<1>2. ASSUME NEW T \in SUBSET E, NEW e \in E, T \in Q, e \notin T PROVE T \cup {e} \in Q
  <2>1. Graph(V, T) /\ IsFiniteSet(T)
    BY FS_Subset DEF Graph
  <2>2. PICK a, b \in V : a # b /\ e = {a, b}
    BY DEF Graph
  <2> DEFINE D == WithEdge(T, a, b)
             k == Cardinality(Classes(V, T))
  <2>3. D = T \cup {e}
    BY <2>2 DEF WithEdge
  <2>4. /\ Rank(T) \in Nat
        /\ e \in Span(T) => Rank(T \cup {e}) = Rank(T)
        /\ e \notin Span(T) => Rank(T \cup {e}) = Rank(T) + 1
    BY <1>2, <2>1, RankAdd
  <2>5. /\ k \in Nat
        /\ b \in Class(V, T, a) => Classes(V, D) = Classes(V, T)
        /\ b \notin Class(V, T, a) => Cardinality(Classes(V, D)) = k - 1
    BY <2>1, <2>2, CountWithEdge
  <2>6. b \in Class(V, T, a) => e \in Span(T)
    BY <2>1, <2>2, PathInSpan
  <2>7. b \notin Class(V, T, a) => e \notin Span(T)
    BY <2>1, <2>2, CutNotInSpan
  <2>8. Rank(T) + k = Cardinality(V)
    BY <1>2
  <2> HIDE DEF D
  <2>9. Rank(D) + Cardinality(Classes(V, D)) = Cardinality(V)
    <3>1. CASE b \in Class(V, T, a)
      <4>1. Rank(D) = Rank(T) /\ Cardinality(Classes(V, D)) = k
        BY <2>3, <2>4, <2>5, <2>6, <3>1
      <4> QED BY <2>8, <4>1
    <3>2. CASE b \notin Class(V, T, a)
      <4>1. Rank(D) = Rank(T) + 1 /\ Cardinality(Classes(V, D)) = k - 1
        BY <2>3, <2>4, <2>5, <2>7, <3>2
      <4> HIDE DEF k
      <4> QED BY <2>4, <2>5, <2>8, <4>1
    <3> QED BY <3>1, <3>2
  <2> QED BY <2>3, <2>9
<1>3. E \in Q
  <2> HIDE DEF Q
  <2> QED BY <1>1, <1>2, SetInduction
<1>4. Rank(E) \in Nat
  BY RankExists DEF Ranks
<1>5. Cardinality(Classes(V, E)) \in Nat
  <2> DEFINE n == Cardinality(Classes(V, E))
  <2>1. IsFiniteSet(Classes(V, E))
    <3> DEFINE f == [v \in V |-> Class(V, E, v)]
    <3>1. f \in Surjection(V, Classes(V, E))
      BY DEF Surjection, Classes
    <3> HIDE DEF f
    <3> QED BY <1>0, <3>1, FS_Surjection
  <2> QED BY <2>1, FS_CardinalityType
<1> QED
  BY <1>3, <1>4, <1>5

----------------------------------------------------------------------------
(* Cycles.                                                                 *)
Cycles(E) == {C \in SUBSET E : Sum(C) = {}}

(* The cycles are a space.                                                 *)
LEMMA CyclesAreSpace ==
  ASSUME NEW E, IsFiniteSet(E)
  PROVE  Space(Cycles(E))
<1>1. IsFiniteSet(Cycles(E))
  <2> DEFINE P == SUBSET E
  <2>1. IsFiniteSet(P)
    BY FS_SUBSET
  <2>2. Cycles(E) \in SUBSET P
    BY DEF Cycles
  <2> HIDE DEF P
  <2> QED BY <2>1, <2>2, FS_Subset
<1>2. {} \in Cycles(E)
  BY SumEmpty DEF Cycles
<1>3. ASSUME NEW s \in Cycles(E), NEW t \in Cycles(E) PROVE Plus(s, t) \in Cycles(E)
  <2>1. s \in SUBSET E /\ t \in SUBSET E /\ Sum(s) = {} /\ Sum(t) = {}
    BY DEF Cycles
  <2>2. IsFiniteSet(s) /\ IsFiniteSet(t)
    BY <2>1, FS_Subset
  <2>3. Sum(Plus(s, t)) = Plus(Sum(s), Sum(t))
    BY <2>2, SumPlus
  <2>4. Sum(Plus(s, t)) = {}
    BY <2>1, <2>3, PlusLaws
  <2>5. Plus(s, t) \in SUBSET E
    BY <2>1 DEF Plus
  <2> QED BY <2>4, <2>5 DEF Cycles
<1> QED
  BY <1>1, <1>2, <1>3 DEF Space

(* A chain outside the span is in no cycle; one inside doubles the cycles. *)
LEMMA CyclesKept ==
  ASSUME NEW E, IsFiniteSet(E), NEW c, c \notin E, c \notin Span(E)
  PROVE  Cycles(E \cup {c}) = Cycles(E)
<1>1. ASSUME NEW C \in Cycles(E \cup {c}) PROVE C \in Cycles(E)
  <2>1. C \in SUBSET (E \cup {c}) /\ Sum(C) = {}
    BY DEF Cycles
  <2>2. CASE c \notin C
    BY <2>1, <2>2 DEF Cycles
  <2>3. CASE c \in C
    <3> DEFINE D == C \ {c}
    <3>1. D \in SUBSET E /\ c \notin D /\ D \cup {c} = C
      BY <2>1, <2>3
    <3> HIDE DEF D
    <3>2. IsFiniteSet(D)
      BY <3>1, FS_Subset
    <3>3. Plus(Sum(D), c) = {}
      BY <2>1, <3>1, <3>2, SumAdd
    <3>4. Sum(D) = c
      BY <3>3 DEF Plus
    <3>5. c \in Span(E)
      BY <3>1, <3>4 DEF Span
    <3> QED BY <3>5
  <2> QED BY <2>2, <2>3
<1>2. ASSUME NEW C \in Cycles(E) PROVE C \in Cycles(E \cup {c})
  BY DEF Cycles
<1> QED
  BY <1>1, <1>2

(* A chain the others sum to closes a cycle, and that doubles the cycles.  *)
LEMMA CyclesDouble ==
  ASSUME NEW E, IsFiniteSet(E), NEW c, c \notin E, c \in Span(E)
  PROVE  Cardinality(Cycles(E \cup {c})) = 2 * Cardinality(Cycles(E))
<1> DEFINE F == E \cup {c}
           Z == Cycles(E)
<1>1. PICK D \in SUBSET E : c = Sum(D)
  BY DEF Span
<1> DEFINE K == D \cup {c}
<1>2. IsFiniteSet(D) /\ c \notin D /\ IsFiniteSet(F)
  BY FS_Subset, FS_AddElement
<1>3. Sum(K) = {}
  <2>1. Sum(D \cup {c}) = Plus(Sum(D), c)
    BY <1>2, SumAdd
  <2>2. Sum(D \cup {c}) = Plus(c, c)
    BY <1>1, <2>1
  <2> QED BY <2>2, PlusLaws
<1>4. K \in SUBSET F /\ c \in K
  OBVIOUS
<1>5. K \in Cycles(F) /\ K \notin Z
  BY <1>3, <1>4 DEF Cycles
<1>6. Space(Cycles(F)) /\ Space(Z)
  BY <1>2, CyclesAreSpace
<1>7. \A C \in Z : C \in Cycles(F)
  BY DEF Cycles
<1>8. ASSUME NEW C \in Cycles(F) PROVE C \in Z \cup Shift(Z, K)
  <2>1. C \in SUBSET F /\ Sum(C) = {}
    BY DEF Cycles
  <2>2. CASE c \notin C
    BY <2>1, <2>2 DEF Cycles
  <2>3. CASE c \in C
    <3>1. Plus(C, K) \in Cycles(F)
      BY <1>5, <1>6 DEF Space
    <3>2. c \notin Plus(C, K)
      BY <1>4, <2>3 DEF Plus
    <3>3. Plus(C, K) \in Z
      BY <3>1, <3>2 DEF Cycles
    <3>4. Plus(Plus(C, K), K) = C
      BY PlusLaws
    <3> HIDE DEF K, Z
    <3> QED BY <3>3, <3>4 DEF Shift
  <2> QED BY <2>2, <2>3
<1>9. \A C \in Shift(Z, K) : C \in Cycles(F)
  <2> HIDE DEF K, Z, F
  <2> QED BY <1>5, <1>6, <1>7 DEF Shift, Space
<1> HIDE DEF K, Z, F
<1>10. Cycles(F) = Z \cup Shift(Z, K)
  BY <1>7, <1>8, <1>9
<1>11. Cardinality(Z \cup Shift(Z, K)) = 2 * Cardinality(Z)
  BY <1>5, <1>6, ShiftDoubles
<1> QED
  BY <1>10, <1>11 DEF F, Z

(* Rank and nullity.                                                       *)
LEMMA CountCycles ==
  ASSUME NEW E, IsFiniteSet(E)
  PROVE  /\ Cardinality(E) - Rank(E) \in Nat
         /\ Cardinality(Cycles(E)) = TwoTo[Cardinality(E) - Rank(E)]
<1> DEFINE Q == {T \in SUBSET E : Cardinality(Cycles(T)) = TwoTo[Cardinality(T) - Rank(T)]}
<1>1. {} \in Q
  <2>1. Cycles({}) = {{}}
    BY SumEmpty DEF Cycles
  <2>2. Cardinality(Cycles({})) = 1
    <3> DEFINE z == {}
    <3>1. Cycles({}) = {z}
      BY <2>1
    <3> HIDE DEF z
    <3> QED BY <3>1, FS_Singleton
  <2>3. Cardinality({}) = 0 /\ Rank({}) = 0 /\ TwoTo[0] = 1
    BY FS_EmptySet, RankEmpty, TwoToUnfold
  <2>4. Cardinality({}) - Rank({}) = 0
    BY <2>3
  <2>5. Cardinality(Cycles({})) = TwoTo[Cardinality({}) - Rank({})]
    BY <2>2, <2>3, <2>4
  <2> QED BY <2>5
<1>2. ASSUME NEW T \in SUBSET E, NEW c \in E, T \in Q, c \notin T PROVE T \cup {c} \in Q
  <2> DEFINE D == T \cup {c}
             n == Cardinality(T)
             r == Rank(T)
  <2>1. IsFiniteSet(T) /\ n \in Nat /\ Cardinality(D) = n + 1
    BY <1>2, FS_Subset, FS_AddElement, FS_CardinalityType
  <2>2. r \in Nat /\ r <= n /\ (c \in Span(T) => Rank(D) = r) /\ (c \notin Span(T) => Rank(D) = r + 1)
    BY <1>2, <2>1, RankAdd
  <2>3. Cardinality(Cycles(T)) = TwoTo[n - r]
    BY <1>2
  <2>4. c \notin Span(T) => Cycles(D) = Cycles(T)
    BY <1>2, <2>1, CyclesKept
  <2>5. c \in Span(T) => Cardinality(Cycles(D)) = 2 * Cardinality(Cycles(T))
    BY <1>2, <2>1, CyclesDouble
  <2> HIDE DEF D, n, r
  <2>6. n - r \in Nat /\ (n - r) + 1 = (n + 1) - r /\ (n + 1) - (r + 1) = n - r
    BY <2>1, <2>2
  <2>7. TwoTo[(n - r) + 1] = 2 * TwoTo[n - r]
    BY <2>6, TwoToUnfold
  <2>8. Cardinality(Cycles(D)) = TwoTo[Cardinality(D) - Rank(D)]
    <3>1. CASE c \in Span(T)
      <4>1. Cardinality(Cycles(D)) = 2 * TwoTo[n - r]
        BY <2>3, <2>5, <3>1
      <4>2. Cardinality(D) - Rank(D) = (n - r) + 1
        BY <2>1, <2>2, <2>6, <3>1
      <4> QED BY <2>7, <4>1, <4>2
    <3>2. CASE c \notin Span(T)
      <4>1. Cardinality(Cycles(D)) = TwoTo[n - r]
        BY <2>3, <2>4, <3>2
      <4>2. Cardinality(D) - Rank(D) = n - r
        BY <2>1, <2>2, <2>6, <3>2
      <4> QED BY <4>1, <4>2
    <3> QED BY <3>1, <3>2
  <2>9. D \in SUBSET E
    BY DEF D
  <2> QED BY <2>8, <2>9 DEF D
<1>3. E \in Q
  <2> HIDE DEF Q
  <2> QED BY <1>1, <1>2, SetInduction
<1>4. Cardinality(E) - Rank(E) \in Nat
  <2>1. Rank(E) \in Nat /\ Rank(E) <= Cardinality(E) /\ Cardinality(E) \in Nat
    BY RankExists, FS_CardinalityType DEF Ranks
  <2> QED BY <2>1
<1> QED
  BY <1>3, <1>4

(* Chains of cycles have at most as great a rank as there are cycles.      *)
LEMMA RankOfCycles ==
  ASSUME NEW E, IsFiniteSet(E), NEW F, IsFiniteSet(F), \A f \in F : f \in Cycles(E)
  PROVE  Rank(F) <= Cardinality(E) - Rank(E)
<1> DEFINE Z == Cycles(E)
           n == Cardinality(E) - Rank(E)
           r == Rank(F)
<1>1. Space(Z)
  BY CyclesAreSpace
<1>2. \A f \in F : f \in Z
  OBVIOUS
<1>3. n \in Nat /\ Cardinality(Z) = TwoTo[n]
  BY CountCycles
<1>4. r \in Nat /\ TwoTo[r] = Cardinality(Span(F))
  BY RankExists DEF Ranks
<1> HIDE DEF Z, n, r
<1>5. ASSUME NEW C \in SUBSET F PROVE Sum(C) \in Z
  <2> DEFINE Q == {D \in SUBSET C : Sum(D) \in Z}
  <2>1. IsFiniteSet(C)
    BY FS_Subset
  <2>2. {} \in Q
    BY <1>1, SumEmpty DEF Space
  <2>3. ASSUME NEW D \in SUBSET C, NEW d \in C, D \in Q, d \notin D PROVE D \cup {d} \in Q
    <3>1. IsFiniteSet(D)
      BY <2>1, FS_Subset
    <3>2. Sum(D \cup {d}) = Plus(Sum(D), d)
      BY <2>3, <3>1, SumAdd
    <3>3. Sum(D) \in Z /\ d \in Z
      BY <1>2, <2>3
    <3>4. Plus(Sum(D), d) \in Z
      BY <1>1, <3>3 DEF Space
    <3> QED BY <3>2, <3>4
  <2>4. C \in Q
    <3> HIDE DEF Q
    <3> QED BY <2>1, <2>2, <2>3, SetInduction
  <2> QED BY <2>4
<1>6. Span(F) \in SUBSET Z
  BY <1>5 DEF Span
<1>7. Cardinality(Span(F)) <= Cardinality(Z)
  BY <1>1, <1>6, FS_Subset DEF Space
<1>8. n < r => TwoTo[n] < TwoTo[r]
  BY <1>3, <1>4, TwoToGrows
<1>9. TwoTo[n] \in Nat /\ TwoTo[r] \in Nat
  BY <1>3, <1>4, TwoToUnfold
<1>10. r <= n
  BY <1>3, <1>4, <1>7, <1>8, <1>9
<1> QED
  BY <1>10 DEF r, n

(* The sides of a triangle are a cycle.                                    *)
LEMMA SidesAreCycle ==
  ASSUME NEW E, NEW t, IsFiniteSet(t), Cardinality(t) = 3, Sides(t) \subseteq E
  PROVE  Sides(t) \in Cycles(E)
<1>1. PICK c : c \in t
  BY FS_EmptySet
<1>2. IsFiniteSet(t \ {c}) /\ Cardinality(t \ {c}) = 2
  BY <1>1, FS_RemoveElement
<1>3. PICK a, b \in t \ {c} : a # b /\ t \ {c} = {a, b}
  BY <1>2, Pairs
<1> DEFINE p == t \ {a}
           q == t \ {b}
           r == t \ {c}
<1>4. a \in t /\ b \in t /\ a # c /\ b # c /\ a # b /\ \A x \in t : x = a \/ x = b \/ x = c
  BY <1>1, <1>3
<1>5. p # q /\ p # r /\ q # r
  BY <1>1, <1>4
<1>6. Sides(t) = (({} \cup {p}) \cup {q}) \cup {r}
  BY <1>1, <1>4 DEF Sides
<1>7. Plus(Plus(p, q), r) = {}
  BY <1>1, <1>4 DEF Plus
<1> HIDE DEF p, q, r
<1>8. IsFiniteSet({} \cup {p}) /\ Sum({} \cup {p}) = p
  <2>1. IsFiniteSet({}) /\ p \notin {}
    BY FS_EmptySet
  <2>2. Sum({} \cup {p}) = Plus(Sum({}), p)
    BY <2>1, SumAdd
  <2> QED BY <2>1, <2>2, SumEmpty, PlusLaws, FS_AddElement
<1> DEFINE P == {} \cup {p}
<1>9. q \notin P /\ r \notin P \cup {q}
  BY <1>5
<1>10. IsFiniteSet(P) /\ Sum(P) = p
  BY <1>8
<1> HIDE DEF P
<1>11. IsFiniteSet(P \cup {q}) /\ Sum(P \cup {q}) = Plus(p, q)
  BY <1>9, <1>10, SumAdd, FS_AddElement
<1> DEFINE R == P \cup {q}
<1>12. IsFiniteSet(R) /\ Sum(R) = Plus(p, q) /\ r \notin R
  BY <1>9, <1>11
<1> HIDE DEF R
<1>13. Sum(R \cup {r}) = {}
  BY <1>7, <1>12, SumAdd
<1>14. Sum(Sides(t)) = {}
  BY <1>6, <1>13 DEF P, R
<1> QED
  BY <1>14 DEF Cycles

----------------------------------------------------------------------------
(* The calls.                                                              *)
ComplexInv == IsComplex /\ IsFiniteSet(vertices) /\ IsFiniteSet(edges) /\ IsFiniteSet(faces)

(* The sides of a triangle are edges between its vertices.                 *)
LEMMA SidesAreSegments ==
  ASSUME NEW t \in Triangles
  PROVE  IsFiniteSet(Sides(t)) /\ Sides(t) \subseteq Segments /\ UNION Sides(t) \subseteq t
<1>1. t \in SUBSET Vertices /\ IsFiniteSet(t) /\ Cardinality(t) = 3
  BY DEF Triangles
<1>2. ASSUME NEW v \in t PROVE t \ {v} \in Segments
  <2>1. IsFiniteSet(t \ {v}) /\ Cardinality(t \ {v}) = 2
    BY <1>1, FS_RemoveElement
  <2>2. t \ {v} \in SUBSET Vertices
    BY <1>1
  <2> QED BY <2>1, <2>2 DEF Segments
<1>3. IsFiniteSet(Sides(t))
  <2> DEFINE f == [v \in t |-> t \ {v}]
  <2>1. f \in Surjection(t, Sides(t))
    BY DEF Surjection, Sides
  <2> HIDE DEF f
  <2> QED BY <1>1, <2>1, FS_Surjection
<1> QED
  BY <1>2, <1>3 DEF Sides

(* Every call with distinct vertices keeps the complex one, and finite.    *)
LEMMA CallsKeepComplex ==
  ASSUME ComplexInv, [ComplexNext]_complex_vars
  PROVE  ComplexInv'
<1> USE DEF ComplexInv, IsComplex
<1>1. ASSUME NEW v \in Vertices, AddVertex(v) PROVE ComplexInv'
  <2>1. IsFiniteSet(vertices \cup {v})
    BY FS_AddElement
  <2> QED BY <1>1, <2>1 DEF AddVertex
<1>2. ASSUME NEW e \in Segments, AddEdge(e) PROVE ComplexInv'
  <2>1. e \subseteq Vertices /\ IsFiniteSet(e)
    BY DEF Segments
  <2>2. IsFiniteSet(vertices \cup e) /\ IsFiniteSet(edges \cup {e})
    BY <2>1, FS_AddElement, FS_Union
  <2>3. vertices' = vertices \cup e /\ edges' = edges \cup {e} /\ faces' = faces
    BY <1>2 DEF AddEdge
  <2>4. vertices' \subseteq Vertices /\ edges' \subseteq Segments /\ faces' \subseteq Triangles
    BY <2>1, <2>3
  <2>5. UNION edges' \subseteq vertices'
    BY <2>3
  <2>6. UNION {Sides(t) : t \in faces'} \subseteq edges'
    BY <2>3
  <2> QED BY <2>2, <2>3, <2>4, <2>5, <2>6
<1>3. ASSUME NEW t \in Triangles, AddFace(t) PROVE ComplexInv'
  <2>1. t \subseteq Vertices /\ IsFiniteSet(t)
    BY DEF Triangles
  <2>2. IsFiniteSet(Sides(t)) /\ Sides(t) \subseteq Segments /\ UNION Sides(t) \subseteq t
    BY SidesAreSegments
  <2>3. vertices' = vertices \cup t /\ edges' = edges \cup Sides(t) /\ faces' = faces \cup {t}
    BY <1>3 DEF AddFace
  <2>4. IsFiniteSet(vertices') /\ IsFiniteSet(edges') /\ IsFiniteSet(faces')
    <3>1. IsFiniteSet(vertices \cup t)
      BY <2>1, FS_Union
    <3>2. IsFiniteSet(edges \cup Sides(t))
      BY <2>2, FS_Union
    <3>3. IsFiniteSet(faces \cup {t})
      BY FS_AddElement
    <3> QED BY <2>3, <3>1, <3>2, <3>3
  <2>5. vertices' \subseteq Vertices /\ edges' \subseteq Segments /\ faces' \subseteq Triangles
    BY <2>1, <2>2, <2>3
  <2>6. UNION edges' \subseteq vertices'
    BY <2>2, <2>3
  <2>7. UNION {Sides(u) : u \in faces'} \subseteq edges'
    BY <2>3
  <2> QED BY <2>4, <2>5, <2>6, <2>7
<1>4. ASSUME UNCHANGED complex_vars PROVE ComplexInv'
  BY <1>4 DEF complex_vars
<1> QED
  BY <1>1, <1>2, <1>3, <1>4 DEF ComplexNext

(* The check starts with the empty complex.                                *)
LEMMA StartsComplex ==
  ASSUME ComplexInit
  PROVE  ComplexInv
  BY FS_EmptySet DEF ComplexInit, ComplexInv, IsComplex

(* The edges of a complex are a graph on its vertices.                     *)
LEMMA ComplexIsGraph ==
  ASSUME ComplexAssumption, ComplexInv
  PROVE  Graph(vertices, edges) /\ Ordered(vertices, edges) /\ IsFiniteSet(edges)
<1>1. ASSUME NEW e \in edges PROVE \E a, b \in vertices : a # b /\ e = {a, b}
  <2>1. IsFiniteSet(e) /\ Cardinality(e) = 2 /\ e \subseteq vertices
    BY DEF ComplexInv, IsComplex, Segments
  <2> QED BY <2>1, Pairs
<1>2. Graph(vertices, edges) /\ IsFiniteSet(edges)
  BY <1>1 DEF Graph, ComplexInv
<1>3. vertices \in SUBSET Nat
  BY DEF ComplexInv, IsComplex, ComplexAssumption
<1> QED
  BY <1>2, <1>3, GraphIsOrdered

\* ComponentsAreReachable without its limits, and the order that is taken.
CountsComponents ==
  /\ \A parent \in ParentMaps(AnyEdge) :
       Cardinality(Roots(parent)) = Cardinality({ComponentOf(v) : v \in vertices})
  /\ ConnectedComponents = Cardinality({ComponentOf(v) : v \in vertices})

(* Union-find is right about every complex, of any size.                   *)
LEMMA ComplexCounts ==
  ASSUME ComplexAssumption, ComplexInv
  PROVE  CountsComponents
<1>1. Graph(vertices, edges) /\ Ordered(vertices, edges) /\ IsFiniteSet(edges)
  BY ComplexIsGraph
<1>2. \A parent \in ParentMaps(AnyEdge) :
         Cardinality(Roots(parent)) = Cardinality({ComponentOf(v) : v \in vertices})
  BY <1>1, RootsAreComponents
<1>3. \A v \in vertices : ComponentOf(v) = Class(vertices, edges, v)
  BY <1>1, ReachIsClass
<1>4. {ComponentOf(v) : v \in vertices} = Classes(vertices, edges)
  BY <1>3 DEF Classes
<1>5. ConnectedComponents = Cardinality({ComponentOf(v) : v \in vertices})
  BY <1>1, <1>4, CountsClasses
<1> QED
  BY <1>2, <1>5 DEF CountsComponents

(* max(0, x).                                                              *)
LEMMA MaxWithZero ==
  ASSUME NEW x \in Int
  PROVE  Max({0, x}) = IF x > 0 THEN x ELSE 0
  BY DEF Max

(* The Euler identity of a complex, and the bounds it gives.               *)
LEMMA ComplexBounds ==
  ASSUME ComplexAssumption, ComplexInv
  PROVE  BoundsHold
<1> DEFINE nV == Cardinality(vertices)
           nE == Cardinality(edges)
           nF == Cardinality(faces)
           rE == Rank(EdgeBoundaries)
           rF == Rank(FaceBoundaries)
           k  == ConnectedComponents
<1>1. Graph(vertices, edges) /\ Ordered(vertices, edges) /\ IsFiniteSet(edges)
  BY ComplexIsGraph
<1>2. nV \in Nat /\ nE \in Nat /\ nF \in Nat /\ Bound \in Nat
  BY FS_CardinalityType DEF ComplexInv, ComplexAssumption
<1>3. k \in Nat /\ rE \in Nat /\ rE + k = nV
  BY <1>1, CountsClasses, RankOfGraph DEF EdgeBoundaries
<1>4. IsFiniteSet(FaceBoundaries)
  <2> DEFINE f == [t \in faces |-> Sides(t)]
  <2>1. f \in Surjection(faces, FaceBoundaries)
    BY DEF Surjection, FaceBoundaries
  <2>2. IsFiniteSet(faces)
    BY DEF ComplexInv
  <2> HIDE DEF f
  <2> QED BY <2>1, <2>2, FS_Surjection
<1>5. rF \in Nat
  BY <1>4, RankExists DEF Ranks
<1>6. \A f \in FaceBoundaries : f \in Cycles(edges)
  <2> SUFFICES ASSUME NEW t \in faces PROVE Sides(t) \in Cycles(edges)
    BY DEF FaceBoundaries
  <2>1. IsFiniteSet(t) /\ Cardinality(t) = 3 /\ Sides(t) \subseteq edges
    BY DEF ComplexInv, IsComplex, Triangles
  <2> QED BY <2>1, SidesAreCycle
<1>7. rF <= nE - rE
  BY <1>1, <1>4, <1>6, RankOfCycles DEF EdgeBoundaries
<1>8. /\ Betti1 = nE - rE - rF /\ Betti2 = nF - rF
      /\ Betti1UpperBound(TRUE) = Max({0, k - (nV - nE + nF)})
      /\ Betti1UpperBound(FALSE) = Max({0, (k - (nV - nE + nF)) + nF})
      /\ CheckPasses <=> Betti1UpperBound(TRUE) <= Bound
  BY DEF Betti1, Betti2, Betti1UpperBound, EulerCharacteristic, CheckPasses
<1> HIDE DEF nV, nE, nF, rE, rF, k
<1> DEFINE x == k - (nV - nE + nF)
           y == x + nF
           b1 == Betti1
           b2 == Betti2
           tight == Betti1UpperBound(TRUE)
           weak  == Betti1UpperBound(FALSE)
<1>9. x \in Int /\ y \in Int /\ x = b1 - b2 /\ b1 \in Nat /\ b2 \in Int /\ y = b1 + rF
  BY <1>2, <1>3, <1>5, <1>7, <1>8
<1>10. tight = Max({0, x}) /\ weak = Max({0, y}) /\ (CheckPasses <=> tight <= Bound)
  BY <1>8
<1> HIDE DEF x, y, b1, b2, tight, weak
<1>11. tight = (IF x > 0 THEN x ELSE 0) /\ weak = (IF y > 0 THEN y ELSE 0)
  BY <1>9, <1>10, MaxWithZero
<1>12. (b2 = 0 => tight = b1) /\ (b2 > 0 => tight <= b1) /\ b1 <= weak
  BY <1>5, <1>9, <1>11
<1>13. b2 = 0 => tight = b1 /\ (CheckPasses <=> b1 <= Bound)
  BY <1>10, <1>12
<1> QED
  BY <1>12, <1>13 DEF BoundsHold, b1, b2, tight, weak

(* As long as callers pass distinct vertices, which add_edge and add_face  *)
(* do not check, the three sets are a finite complex (lines 1030-1067).    *)
(* The three theorems below rest on it, and so on such callers.            *)
THEOREM ProperCallsBuildComplexes == ComplexSpec => []ComplexInv
<1>1. ComplexInit => ComplexInv
  BY StartsComplex
<1>2. ComplexInv /\ [ComplexNext]_complex_vars => ComplexInv'
  BY CallsKeepComplex
<1> QED
  BY <1>1, <1>2, PTL DEF ComplexSpec

(* connected_components returns the number of classes of mutually          *)
(* reachable vertices, of whatever complex proper calls have built and in  *)
(* whatever order the edge set is walked (lines 1093-1116).                *)
THEOREM ComponentsAlwaysCounted ==
  ASSUME ComplexAssumption
  PROVE  ComplexSpec => []CountsComponents
<1>1. ComplexInv => CountsComponents
  BY ComplexCounts
<1> QED
  BY <1>1, ProperCallsBuildComplexes, PTL

(* In whatever order the edge set is walked, union-find with path halving  *)
(* ends with a root for every class of mutually reachable vertices         *)
(* (connected_components, lines 1093-1116).                                *)
THEOREM ComponentsAlwaysReachable ==
  ASSUME ComplexAssumption
  PROVE  ComplexSpec => []ComponentsAreReachable
<1>1. CountsComponents => ComponentsAreReachable
  BY DEF CountsComponents, ComponentsAreReachable
<1> QED
  BY <1>1, ComponentsAlwaysCounted, PTL

(* betti_1_upper_bound is the rank of H_1 of a complex without a closed    *)
(* surface, at most that with one, and with the weak bound at least that:  *)
(* what check() decides is right for complexes of any size.                *)
THEOREM BoundsAlwaysHold ==
  ASSUME ComplexAssumption
  PROVE  ComplexSpec => []BoundsHold
<1>1. ComplexInv => BoundsHold
  BY ComplexBounds
<1> QED
  BY <1>1, ProperCallsBuildComplexes, PTL
=============================================================================
