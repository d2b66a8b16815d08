--------------------------- MODULE MCSpanningTree ----------------------------
(* Instances of SpanningTree: four bridges that may be connected in any way, *)
(* a triangle among them, and two bridges with two parallel links.           *)
EXTENDS SpanningTree

\* Four bridges: links 1..6, one between every two of them.
MeshEnds == <<{1, 2}, {2, 3}, {3, 4}, {1, 4}, {1, 3}, {2, 4}>>

PairEnds == <<{1, 2}, {1, 2}>>

AnyWiring == [Link -> BOOLEAN]

AllUp == {[l \in Link |-> TRUE]}

\* Of the mesh, the triangle of bridges 1, 2 and 3; bridge 4 is on its own.
Triangle == {[l \in Link |-> l \in {1, 2, 5}]}

UniformCosts == {[l \in Link |-> 1]}

\* The default priority everywhere; the later bridges ahead of the first two,
\* an order in which the load sometimes stops before the tree is settled.
EqualPriorities == {[b \in Bridge |-> 2]}

LaterAhead == {[b \in Bridge |-> IF b <= 2 THEN 2 ELSE 1]}

AnyPriorities == [Bridge -> {1, 2}]
==============================================================================
