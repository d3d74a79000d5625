--------------------------- MODULE MCBronKerbosch ---------------------------
(***************************************************************************)
(* BronKerbosch on every labelled simple graph with MCN vertices.  Since   *)
(* all labellings are there, the identity is position enough.              *)
(***************************************************************************)
EXTENDS BronKerbosch

CONSTANTS MCN,        \* number of vertices
          MCOrds      \* vertex orders to try

MCV == 1..MCN

MCAdj(E) == [u \in MCV |-> {v \in MCV : {u, v} \in E}]

MCGraphs ==
  LET Edges == {e \in SUBSET MCV : Cardinality(e) = 2}
  IN  {[adj |-> MCAdj(E), pos |-> [v \in MCV |-> v]] : E \in SUBSET Edges}

\* No --max-clq, and limits around the sizes of the cliques.
MCLimits == {-1, 0, 2, 3}

MCOptions == [ord : MCOrds, max_clq_size : MCLimits]
=============================================================================
