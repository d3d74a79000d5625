------------------------- MODULE DegeneracyOrdering -------------------------
(***************************************************************************)
(* Graph::degeneracyOrdering: the vertices are taken out of the graph one  *)
(* after the other, each time one of the smallest remaining degree, with   *)
(* the vertices kept in buckets by remaining degree.  After the buckets    *)
(* are filled, one action is one iteration of the loop over curnode.       *)
(***************************************************************************)
EXTENDS GraphInput

VARIABLES degArray,      \* buckets 0..maxdeg of vertices
          nodeDegrees,
          ordering,      \* vertexOrdering[0..curnode-1]
          degen

orderVars == <<degArray, nodeDegrees, ordering, degen>>

OrderInit == degArray = << >> /\ nodeDegrees = << >> /\ ordering = << >> /\ degen = -1

V == DOMAIN adjList

(***************************************************************************)
(* The buckets.  A degree beyond maxdeg fails the assertion, which happens *)
(* when maxdeg is still -1.                                                *)
(***************************************************************************)
FillBuckets ==
  /\ pc = "ready"
  /\ IF \E v \in V : HashedSize(v) >= maxdeg + 1
     THEN pc' = "assert" /\ UNCHANGED orderVars
     ELSE /\ pc' = "order"
          /\ degArray' = [d \in 0..maxdeg |-> {v \in V : HashedSize(v) = d}]
          /\ nodeDegrees' = [v \in V |-> HashedSize(v)]
          /\ ordering' = << >>
          /\ degen' = 0
  /\ UNCHANGED graphVars

\* The smallest index of a bucket that is not empty.
FirstBucket(i) ==
  i \in DOMAIN degArray /\ degArray[i] # {} /\ \A j \in 0..(i - 1) : degArray[j] = {}

\* The neighbours of v that are still in their buckets.
Remaining(v) == {n \in adj[v] : n \in degArray[nodeDegrees[n]]}

\* Mutant of Lowered: the neighbour stays in its old bucket as well.
LoweredTwice(v, d) ==
  (degArray[d] \ {v})
    \union {n \in Remaining(v) : nodeDegrees[n] = d + 1}

\* Bucket d after v has left and its neighbours have moved down by one.
Lowered(v, d) ==
  (degArray[d] \ ({v} \union Remaining(v)))
    \union {n \in Remaining(v) : nodeDegrees[n] = d + 1}

\* Mutant of Raised: degen is the degree of the vertex placed last.
RaisedAlways(i) == i

Raised(i) == IF i > degen THEN i ELSE degen

(***************************************************************************)
(* Any vertex of the first bucket may be the first of its hash set.  Since *)
(* v is in no bucket when its neighbours are visited, and no vertex is its *)
(* own neighbour, the order in which they are visited makes no difference. *)
(***************************************************************************)
Place(i, v) ==
  /\ pc = "order" /\ Len(ordering) < nodeNo
  /\ FirstBucket(i) /\ v \in degArray[i]
  /\ ordering' = Append(ordering, v)
  /\ degen' = Raised(i)
  /\ nodeDegrees' = [n \in V |-> nodeDegrees[n] - (IF n \in Remaining(v) THEN 1 ELSE 0)]
  /\ degArray' = [d \in DOMAIN degArray |-> Lowered(v, d)]
  /\ UNCHANGED <<pc, graphVars>>

\* The loop is over; the buckets are local variables.
OrderingDone ==
  /\ pc = "order" /\ Len(ordering) = nodeNo
  /\ pc' = "enumerate"
  /\ degArray' = << >> /\ nodeDegrees' = << >>
  /\ UNCHANGED <<ordering, degen, graphVars>>

OrderNext ==
  \/ FillBuckets \/ OrderingDone
  \/ \E i \in DOMAIN degArray : \E v \in degArray[i] : Place(i, v)

-----------------------------------------------------------------------------
Placed == {ordering[k] : k \in DOMAIN ordering}
Left == V \ Placed

(***************************************************************************)
(* The buckets are exact: a vertex not yet placed is in the bucket of the  *)
(* number of its neighbours not yet placed, and nowhere else; a placed     *)
(* vertex is in none.  So no vertex is placed twice, and none is missed.   *)
(* A reserved vertex is not visited as a neighbour: then it fails.         *)
(***************************************************************************)
BucketsExact ==
  pc = "order" /\ Unreserved =>
    \A d \in DOMAIN degArray :
      degArray[d] = {v \in Left : Cardinality(adj[v] \intersect Left) = d}

(***************************************************************************)
(* The degeneracy of a graph by its textbook definition: the largest       *)
(* minimum degree of a subgraph.                                           *)
(***************************************************************************)
MinDegreeIn(S) == Min({Cardinality(adj[v] \intersect S) : v \in S})

Degeneracy == IF V = {} THEN 0 ELSE Max({MinDegreeIn(S) : S \in (SUBSET V) \ {{}}})

(***************************************************************************)
(* The result: a permutation of the vertices in which every vertex has at  *)
(* most degen later neighbours, which bounds P in every root call, and     *)
(* degen is the degeneracy, the best any order can do (without a reserved  *)
(* vertex, as above).                                                      *)
(***************************************************************************)
LaterNeighbours(k) == {j \in (k + 1)..Len(ordering) : ordering[j] \in adj[ordering[k]]}

OrderingCorrect ==
  pc = "enumerate" /\ degen # -1 /\ Unreserved =>
    /\ Placed = V /\ Len(ordering) = Cardinality(V)
    /\ degen = Degeneracy
    /\ \A k \in DOMAIN ordering : Cardinality(LaterNeighbours(k)) <= degen
=============================================================================
