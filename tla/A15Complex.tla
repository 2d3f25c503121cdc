----------------------------- MODULE A15Complex -----------------------------
(***************************************************************************)
(* A15PersistentHomologyCheck (uds_v18_24_substrate.py): a simplicial      *)
(* complex of vertices, edges and triangles that is built call by call,    *)
(* its components by union-find and the bound on rank(H_1) from the Euler  *)
(* identity.                                                               *)
(*                                                                         *)
(* A vertex is a number, an edge or a triangle the set of its vertices     *)
(* (the code sorts them).  The code does not check that they are distinct: *)
(* add_edge(a, a) adds a loop, add_face takes a vertex twice.  Callers here*)
(* pass distinct vertices; degenerate calls are not modelled.  Python's    *)
(* set of edges is walked in no particular order: union-find gets an order.*)
(* The module is extended beside another (MeshParts), hence the names of   *)
(* its specification.                                                      *)
(***************************************************************************)
EXTENDS Integers, FiniteSets, FiniteSetsExt

CONSTANTS
  Vertices,    \* the vertex ids callers use
  Bound        \* the bound the check was built with

\* What a program that uses the check gives them.
ComplexAssumption == Vertices \subseteq Nat /\ Bound \in Nat

VARIABLES vertices, edges, faces

complex_vars == <<vertices, edges, faces>>

Segments  == {e \in SUBSET Vertices : IsFiniteSet(e) /\ Cardinality(e) = 2}
Triangles == {t \in SUBSET Vertices : IsFiniteSet(t) /\ Cardinality(t) = 3}

\* The edges of a triangle.
Sides(t) == {t \ {v} : v \in t}
----------------------------------------------------------------------------
ComplexInit == vertices = {} /\ edges = {} /\ faces = {}

AddVertex(v) ==
  /\ vertices' = vertices \cup {v}
  /\ UNCHANGED <<edges, faces>>

AddEdge(e) ==
  /\ edges' = edges \cup {e}
  /\ vertices' = vertices \cup e
  /\ UNCHANGED faces

AddFace(t) ==
  /\ faces' = faces \cup {t}
  /\ vertices' = vertices \cup t
  /\ edges' = edges \cup Sides(t)

ComplexNext ==
  \/ \E v \in Vertices : AddVertex(v)
  \/ \E e \in Segments : AddEdge(e)
  \/ \E t \in Triangles : AddFace(t)

ComplexSpec == ComplexInit /\ [][ComplexNext]_complex_vars
----------------------------------------------------------------------------
\* find(x): the root of x, and the map after path halving, which gives every
\* second vertex on the way up its grandparent.
Root(parent, x) ==
  LET root[v \in DOMAIN parent] == IF parent[v] = v THEN v ELSE root[parent[v]]
  IN  root[x]

Halve(parent, x) ==
  LET visited[v \in DOMAIN parent] ==
        IF parent[v] = v THEN {} ELSE {v} \cup visited[parent[parent[v]]]
  IN  [v \in DOMAIN parent |-> IF v \in visited[x] THEN parent[parent[v]] ELSE parent[v]]

\* Mutation of Unite: the vertex is hung under the root, not its root.
UniteVertex(parent, e) ==
  LET p == Halve(Halve(parent, Min(e)), Max(e))
  IN  [p EXCEPT ![Min(e)] = Root(p, Max(e))]

\* One turn of the loop over the edges.
Unite(parent, e) ==
  LET p  == Halve(Halve(parent, Min(e)), Max(e))
      ra == Root(p, Min(e))
  IN  [p EXCEPT ![ra] = Root(p, Max(e))]

\* The loop after n turns, when next[E] are the edges of E it may visit next:
\* the edges still to come and the parent map so far.
Walks(next) ==
  LET walks[n \in Nat] ==
        IF n = 0 THEN {<<edges, [v \in vertices |-> v]>>}
        ELSE UNION {{<<w[1] \ {e}, Unite(w[2], e)>> : e \in next[w[1]]} : w \in walks[n - 1]}
  IN  walks

\* The parent maps the loop may end with.
ParentMaps(next) == {w[2] : w \in Walks(next)[Cardinality(edges)]}

Roots(parent) == {Root(parent, v) : v \in vertices}

\* All orders of the edges, and the one the interpreter happens to take.
AnyEdge == [E \in SUBSET edges |-> E]
OneEdge == [E \in SUBSET edges |-> {e \in E : e = CHOOSE f \in E : TRUE}]

ConnectedComponents == Cardinality(UNION {Roots(parent) : parent \in ParentMaps(OneEdge)})

\* Mutation of EulerCharacteristic: the faces are left out.
EulerOfGraph == Cardinality(vertices) - Cardinality(edges)

EulerCharacteristic == Cardinality(vertices) - Cardinality(edges) + Cardinality(faces)

Betti1UpperBound(assume_no_2_cycles) ==
  LET tight == ConnectedComponents - EulerCharacteristic
  IN  Max({0, IF assume_no_2_cycles THEN tight ELSE tight + Cardinality(faces)})

CheckPasses == Betti1UpperBound(TRUE) <= Bound
----------------------------------------------------------------------------
\* The reference: homology over the field of two elements.  A chain is a set
\* of simplices, a sum of chains what an odd number of them holds.
EdgeBoundaries == edges
FaceBoundaries == {Sides(t) : t \in faces}

Sum(chains) ==
  {x \in UNION chains : Cardinality({c \in chains : x \in c}) % 2 = 1}

Span(chains) == {Sum(C) : C \in SUBSET chains}

TwoTo[d \in Nat] == IF d = 0 THEN 1 ELSE 2 * TwoTo[d - 1]

Rank(chains) == CHOOSE d \in 0..Cardinality(chains) : TwoTo[d] = Cardinality(Span(chains))

Betti1 == Cardinality(edges) - Rank(EdgeBoundaries) - Rank(FaceBoundaries)
Betti2 == Cardinality(faces) - Rank(FaceBoundaries)

Neighbours(V) == V \cup UNION {e \in edges : e \cap V # {}}

ComponentOf(v) ==
  LET reach[n \in Nat] == IF n = 0 THEN {v} ELSE Neighbours(reach[n - 1])
  IN  reach[Cardinality(vertices)]

(* After any calls with distinct vertices the three sets are a complex: the*)
(* ends of every edge and the sides of every face are in it.               *)
IsComplex ==
  /\ vertices \subseteq Vertices /\ edges \subseteq Segments /\ faces \subseteq Triangles
  /\ UNION edges \subseteq vertices
  /\ UNION {Sides(t) : t \in faces} \subseteq edges

(* In whatever order Python walks the edge set, union-find with path       *)
(* halving counts the classes of mutually reachable vertices (checked for  *)
(* all orders of up to eight edges: faces add nothing to it).              *)
ComponentsAreReachable ==
  faces = {} /\ Cardinality(edges) <= 8 =>
    \A parent \in ParentMaps(AnyEdge) :
      Cardinality(Roots(parent)) = Cardinality({ComponentOf(v) : v \in vertices})

(* Without a closed surface the Euler identity gives the rank of H_1, so   *)
(* check() passes exactly the complexes within the bound; with one it may  *)
(* say less than the rank, and then only the weak bound holds (lines       *)
(* 1119-1136: "b_2 = 0, so b_1 = b_0 - chi", "weak bound").                *)
BoundsHold ==
  /\ Betti2 = 0 => Betti1UpperBound(TRUE) = Betti1 /\ (CheckPasses <=> Betti1 <= Bound)
  /\ Betti2 > 0 => Betti1UpperBound(TRUE) <= Betti1
  /\ Betti1 <= Betti1UpperBound(FALSE)
=============================================================================
