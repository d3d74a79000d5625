---------------------------- MODULE VertexOrder -----------------------------
(***************************************************************************)
(* The orders of --ord, and how they split the neighbours of a vertex into *)
(* the sets P and X of its root call.  A graph g has adjacency sets g.adj  *)
(* and the positions g.pos (backwardsMapping) of its vertices.             *)
(***************************************************************************)
EXTENDS Integers, FiniteSets

Ords == {"degeneracy", "degree", "inverse"}

\* Mutant of Later: vertices of the same degree are each later than the other.
LaterWithoutTieBreak(g, o, u, v) ==
  LET du == Cardinality(g.adj[u])
      dv == Cardinality(g.adj[v])
  IN  IF o.ord = "degeneracy"
      THEN g.pos[u] > g.pos[v]
      ELSE \/ o.ord = "degree" /\ du > dv
           \/ o.ord = "inverse" /\ du < dv
           \/ du = dv

(***************************************************************************)
(* create_root_sets: u goes to P of the root call of v, not to X, when it  *)
(* comes later in the chosen order (ties of the degree orders are broken   *)
(* by the vertex name).                                                    *)
(***************************************************************************)
Later(g, o, u, v) ==
  LET du == Cardinality(g.adj[u])
      dv == Cardinality(g.adj[v])
  IN  IF o.ord = "degeneracy"
      THEN g.pos[u] > g.pos[v]
      ELSE \/ o.ord = "degree" /\ du > dv
           \/ o.ord = "inverse" /\ du < dv
           \/ du = dv /\ u > v

RootP(g, o, v) == {u \in g.adj[v] : Later(g, o, u, v)}
RootX(g, o, v) == g.adj[v] \ RootP(g, o, v)
=============================================================================
