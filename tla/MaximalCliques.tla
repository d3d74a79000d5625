--------------------------- MODULE MaximalCliques ---------------------------
(***************************************************************************)
(* Cliques of a simple graph, by their textbook definitions.  A graph is   *)
(* an adjacency function adj \in [V -> SUBSET V].  These operators are the *)
(* reference the Bron-Kerbosch modules are compared with; none of them     *)
(* follows the program's way of computing a clique.                        *)
(***************************************************************************)
EXTENDS Integers, FiniteSets

IsSimpleGraph(V, adj) ==
  /\ adj \in [V -> SUBSET V]
  /\ \A u, v \in V : v \in adj[u] => u # v /\ u \in adj[v]

IsClique(adj, C) == \A u, v \in C : u # v => v \in adj[u]

\* A maximal clique is a non-empty clique that no larger clique contains.
IsMaximalClique(V, adj, C) ==
  /\ C # {} /\ C \subseteq V
  /\ IsClique(adj, C)
  /\ \A D \in SUBSET V : C \subseteq D /\ IsClique(adj, D) => D = C

\* The vertices adjacent to every vertex of C.
CommonNbrs(V, adj, C) == {w \in V : \A u \in C : w \in adj[u]}

(***************************************************************************)
(* What a run with a given --max-clq must report: every maximal clique     *)
(* (max < 0), or every maximal clique of at most max vertices.  A limit of *)
(* 0 acts as 1: an isolated vertex is reported before the limit is looked  *)
(* at.                                                                     *)
(***************************************************************************)
WithinLimit(max, C) == max >= 0 => Cardinality(C) <= max \/ Cardinality(C) <= 1

WantedCliques(V, adj, max) ==
  {C \in SUBSET V : IsMaximalClique(V, adj, C) /\ WithinLimit(max, C)}
=============================================================================
