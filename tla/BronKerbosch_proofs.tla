------------------------- MODULE BronKerbosch_proofs ------------------------
(***************************************************************************)
(* Correctness of the Bron-Kerbosch recursion for every graph, every       *)
(* vertex order, every --max-clq and every schedule.                       *)
(***************************************************************************)
EXTENDS BronKerbosch, FiniteSetTheorems, WellFoundedInduction, TLAPS

-----------------------------------------------------------------------------
(***************************************************************************)
(* Facts about the constants and about sizes of sets of vertices.          *)
(***************************************************************************)

\* A set of vertices has a size that is a number, at most that of V.
LEMMA VertexSetSize ==
  ASSUME NEW S \in SUBSET V
  PROVE  /\ IsFiniteSet(S)
         /\ Cardinality(S) \in Nat
         /\ Cardinality(S) <= Cardinality(V)
         /\ Cardinality(V) \in Nat
         /\ S # {} => Cardinality(S) >= 1
  <1>1. IsFiniteSet(V) /\ IsFiniteSet(S) /\ Cardinality(S) <= Cardinality(V)
    BY VAssumption, FS_Subset
  <1>2. Cardinality(S) \in Nat /\ Cardinality(V) \in Nat
    BY <1>1, FS_CardinalityType
  <1>3. S # {} => Cardinality(S) # 0
    BY <1>1, FS_EmptySet
  <1> QED BY <1>1, <1>2, <1>3

\* What GraphsAssumption says of one graph.
LEMMA GraphFacts ==
  ASSUME NEW g \in Graphs
  PROVE  /\ g.adj \in [V -> SUBSET V]
         /\ \A u, v \in V : v \in g.adj[u] => u # v /\ u \in g.adj[v]
         /\ g.pos \in [V -> Nat]
         /\ \A u, v \in V : g.pos[u] = g.pos[v] => u = v
  BY GraphsAssumption DEF IsSimpleGraph

(***************************************************************************)
(* The order in which create_root_sets splits the neighbours is a strict   *)
(* total order, for all three values of --ord.                             *)
(***************************************************************************)
LEMMA LaterIsOrder ==
  ASSUME NEW g \in Graphs, NEW o \in Options
  PROVE  /\ \A u, v \in V : Later(g, o, u, v) => ~Later(g, o, v, u)
         /\ \A u, v \in V : u # v => Later(g, o, u, v) \/ Later(g, o, v, u)
         /\ \A u, v, w \in V :
              Later(g, o, u, v) /\ Later(g, o, v, w) => Later(g, o, u, w)
  <1>1. \A v \in V : v \in Int /\ g.adj[v] \in SUBSET V /\ g.pos[v] \in Nat
    BY GraphFacts, VAssumption
  <1>2. \A v \in V : Cardinality(g.adj[v]) \in Nat
    BY <1>1, VertexSetSize
  <1>3. \A u, v \in V : g.pos[u] = g.pos[v] => u = v
    BY GraphFacts
  <1>4. o.ord \in Ords
    BY OptionsAssumption
  <1>5. CASE o.ord = "degeneracy"
    BY <1>1, <1>3, <1>5 DEF Later
  <1>6. CASE o.ord = "degree"
    BY <1>1, <1>2, <1>6 DEF Later
  <1>7. CASE o.ord = "inverse"
    BY <1>1, <1>2, <1>7 DEF Later
  <1> QED BY <1>4, <1>5, <1>6, <1>7 DEF Ords

\* Every non-empty set of vertices has an earliest one.
LEMMA EarliestVertex ==
  ASSUME NEW g \in Graphs, NEW o \in Options, NEW C \in SUBSET V, C # {}
  PROVE  \E v \in C : \A u \in C : u # v => Later(g, o, u, v)
  <1> DEFINE before(v) == {w \in V : Later(g, o, v, w)}
             rank(v) == Cardinality(before(v))
             ranks == {rank(v) : v \in C}
  <1>1. \A v \in V : before(v) \in SUBSET V /\ IsFiniteSet(before(v)) /\ rank(v) \in Nat
    BY VertexSetSize
  <1>2. ASSUME NEW u \in V, NEW v \in V, Later(g, o, u, v)
        PROVE  rank(v) < rank(u)
    <2>1. before(v) \subseteq before(u)
      BY <1>2, LaterIsOrder
    <2>2. v \in before(u) /\ v \notin before(v)
      BY <1>2, LaterIsOrder
    <2>3. before(v) \in SUBSET before(u) /\ before(u) # before(v)
      BY <2>1, <2>2
    <2>4. IsFiniteSet(before(u)) /\ rank(v) \in Nat /\ rank(u) \in Nat
      BY <1>1
    <2> HIDE DEF before
    <2>5. Cardinality(before(v)) <= Cardinality(before(u))
          /\ Cardinality(before(v)) # Cardinality(before(u))
      BY <2>3, <2>4, FS_Subset
    <2> QED BY <2>4, <2>5
  <1>3. ranks \in SUBSET Nat /\ ranks # {}
    BY <1>1
  <1>4. PICK m \in ranks : \A k \in ranks : m <= k
    <2> HIDE DEF ranks
    <2>1. PICK m \in ranks : \A k \in ranks : <<k, m>> \notin OpToRel(<, Nat)
      BY <1>3, NatLessThanWellFounded, WFMin
    <2>2. \A k \in ranks : ~(k < m)
      BY <1>3, <2>1 DEF OpToRel
    <2> QED BY <1>3, <2>2
  <1>5. PICK v \in C : m = rank(v)
    BY <1>4
  <1>6. ASSUME NEW u \in C, u # v
        PROVE  Later(g, o, u, v)
    <2>1. rank(v) <= rank(u) /\ rank(u) \in Nat /\ rank(v) \in Nat
      BY <1>1, <1>4, <1>5
    <2>2. ~Later(g, o, v, u)
      <3> HIDE DEF rank
      <3> QED BY <1>2, <2>1
    <2> QED BY <1>6, <2>2, LaterIsOrder
  <1> QED BY <1>6

-----------------------------------------------------------------------------
(***************************************************************************)
(* Facts about cliques.                                                    *)
(***************************************************************************)

\* A clique is maximal exactly if no vertex is adjacent to all of it.
LEMMA MaximalIffNoCommonNbr ==
  ASSUME NEW adj, IsSimpleGraph(V, adj),
         NEW C \in SUBSET V, C # {}, IsClique(adj, C)
  PROVE  IsMaximalClique(V, adj, C) <=> CommonNbrs(V, adj, C) = {}
  <1>1. ASSUME CommonNbrs(V, adj, C) = {},
               NEW D \in SUBSET V, C \subseteq D, IsClique(adj, D), D # C
        PROVE  FALSE
    <2>1. PICK w \in D : w \notin C
      BY <1>1
    <2>2. w \in CommonNbrs(V, adj, C)
      BY <1>1, <2>1 DEF CommonNbrs, IsClique
    <2> QED BY <1>1, <2>2
  <1>2. ASSUME NEW w \in CommonNbrs(V, adj, C), IsMaximalClique(V, adj, C)
        PROVE  FALSE
    <2>1. w \in V /\ w \notin C
      BY <1>2 DEF CommonNbrs, IsSimpleGraph
    <2>2. IsClique(adj, C \union {w})
      BY <1>2, <2>1 DEF CommonNbrs, IsClique, IsSimpleGraph
    <2>3. C \union {w} = C
      BY <1>2, <2>1, <2>2 DEF IsMaximalClique
    <2> QED BY <2>1, <2>3
  <1> QED BY <1>1, <1>2 DEF IsMaximalClique

(***************************************************************************)
(* Why a pivot loses nothing: a maximal clique that extends R within P has *)
(* a vertex of P outside the neighbourhood of the pivot.                   *)
(***************************************************************************)
LEMMA PivotMissesNothing ==
  ASSUME NEW adj, IsSimpleGraph(V, adj),
         NEW C, IsMaximalClique(V, adj, C),
         NEW R \in SUBSET V, NEW P \in SUBSET V,
         R \subseteq C, C \subseteq R \union P,
         NEW pivot \in CommonNbrs(V, adj, R)
  PROVE  C \intersect (P \ adj[pivot]) # {}
  <1> SUFFICES ASSUME C \intersect (P \ adj[pivot]) = {}
               PROVE  FALSE
    OBVIOUS
  <1>1. pivot \in V /\ C \in SUBSET V /\ C # {} /\ IsClique(adj, C)
    BY DEF CommonNbrs, IsMaximalClique
  <1>2. \A u \in C : pivot \in adj[u]
    <2> SUFFICES ASSUME NEW u \in C PROVE pivot \in adj[u]
      OBVIOUS
    <2>1. CASE u \in R
      BY <2>1 DEF CommonNbrs
    <2>2. CASE u \in P
      BY <1>1, <2>2 DEF IsSimpleGraph
    <2> QED BY <2>1, <2>2
  <1>3. pivot \in CommonNbrs(V, adj, C)
    BY <1>1, <1>2 DEF CommonNbrs
  <1> QED BY <1>1, <1>3, MaximalIffNoCommonNbr

-----------------------------------------------------------------------------
(***************************************************************************)
(* The inductive invariant.  The final property CompleteAtEnd needs        *)
(* NoneLost (nothing missing) and ReportsSound and ReportedOnce (nothing   *)
(* wrong, nothing twice); NoneLost needs CallsOK, because a pivot is safe  *)
(* only if P and X together are all the vertices that extend R; and        *)
(* ReportedOnce needs CallsApart and ReportedApart, because a clique is    *)
(* reported once only if no two calls ever have it in reach.               *)
(***************************************************************************)
IInv ==
  /\ TypeOK
  /\ CallsOK
  /\ CallsApart
  /\ ReportedApart
  /\ NoneLost
  /\ ReportsSound
  /\ ReportedOnce

\* What it means for a clique to be wanted under the size limit.
LEMMA WantedFacts ==
  ASSUME NEW C \in Wanted
  PROVE  /\ C \in SUBSET V
         /\ IsMaximalClique(V, graph.adj, C)
         /\ WithinLimit(opt.max_clq_size, C)
         /\ C # {} /\ IsClique(graph.adj, C)
  BY DEF Wanted, WantedOf, WantedCliques, IsMaximalClique

\* The root calls satisfy the invariant: every wanted clique is in one of them.
LEMMA InitIInv == Init => IInv
  <1> SUFFICES ASSUME Init PROVE IInv
    OBVIOUS
  <1> USE DEF Init
  <1>0. /\ graph.adj \in [V -> SUBSET V]
        /\ \A u, v \in V : v \in graph.adj[u] => u # v /\ u \in graph.adj[v]
    BY GraphFacts
  <1>1. \A v \in V : /\ RootP(graph, opt, v) \in SUBSET V
                     /\ RootX(graph, opt, v) \in SUBSET V
                     /\ RootP(graph, opt, v) \subseteq graph.adj[v]
                     /\ RootP(graph, opt, v) \union RootX(graph, opt, v) = graph.adj[v]
                     /\ RootP(graph, opt, v) \intersect RootX(graph, opt, v) = {}
    BY <1>0 DEF RootP, RootX
  <1>2. TypeOK
    <2>1. calls \subseteq CallType
      BY <1>1 DEF CallType, RootCall, StartCall
    <2>2. hist \in [1..Cardinality(V) -> Nat]
      OBVIOUS
    <2> QED BY <2>1, <2>2 DEF TypeOK
  <1>3. CallsOK
    <2> SUFFICES ASSUME NEW v \in V
                 PROVE  CallOK(RootCall(graph, opt, v))
      BY DEF CallsOK
    <2> DEFINE c == RootCall(graph, opt, v)
    <2>1. /\ c.R = {v} /\ c.P = RootP(graph, opt, v) /\ c.X = RootX(graph, opt, v)
          /\ c.cand = {} /\ c.pc = "start"
      BY DEF RootCall, StartCall
    <2>2. CommonNbrs(V, graph.adj, {v}) = graph.adj[v]
      BY <1>0 DEF CommonNbrs
    <2>3. Cardinality({v}) = 1
      BY FS_Singleton
    <2> HIDE DEF c
    <2>4. WithinLimit(opt.max_clq_size, c.R)
      BY <2>1, <2>3 DEF WithinLimit
    <2>5. CallOK(c)
      BY <1>1, <2>1, <2>2, <2>4 DEF CallOK, Common, IsClique
    <2> QED BY <2>5 DEF c
  <1>4. CallsApart
    <2> SUFFICES ASSUME NEW c \in calls, NEW d \in calls, c # d,
                        c.R \subseteq Reach(d), d.R \subseteq Reach(c)
                 PROVE  FALSE
      BY DEF CallsApart
    <2>1. PICK u \in V : c = RootCall(graph, opt, u)
      OBVIOUS
    <2>2. PICK v \in V : d = RootCall(graph, opt, v)
      OBVIOUS
    <2>3. /\ u \in {v} \union RootP(graph, opt, v)
          /\ v \in {u} \union RootP(graph, opt, u)
      BY <2>1, <2>2 DEF Reach, RootCall, StartCall
    <2>4. u # v
      BY <2>1, <2>2
    <2>5. Later(graph, opt, u, v) /\ Later(graph, opt, v, u)
      BY <2>3, <2>4 DEF RootP
    <2> QED BY <2>5, LaterIsOrder
  <1>5. ReportedApart
    BY DEF ReportedApart
  <1>6. NoneLost
    <2> SUFFICES ASSUME NEW C \in Wanted
                 PROVE  \E c \in calls : Pending(C, c)
      BY DEF NoneLost
    <2>1. C \in SUBSET V /\ C # {} /\ IsClique(graph.adj, C)
      BY WantedFacts
    <2>2. PICK v \in C : \A u \in C : u # v => Later(graph, opt, u, v)
      BY <2>1, EarliestVertex
    <2>3. \A u \in C : u # v => u \in RootP(graph, opt, v)
      BY <2>1, <2>2 DEF RootP, IsClique
    <2>4. RootCall(graph, opt, v) \in calls
      BY <2>1
    <2>5. Pending(C, RootCall(graph, opt, v))
      BY <2>3 DEF Pending, Reach, RootCall, StartCall
    <2> QED BY <2>4, <2>5
  <1>7. ReportsSound
    BY DEF ReportsSound
  <1>8. ReportedOnce
    <2>1. \A k \in DOMAIN hist : hist[k] = 0
      OBVIOUS
    <2>2. \A k : {C \in reported : Cardinality(C) = k} = {}
      OBVIOUS
    <2> QED BY <2>1, <2>2, FS_EmptySet DEF ReportedOnce
  <1> QED BY <1>2, <1>3, <1>4, <1>5, <1>6, <1>7, <1>8 DEF IInv

-----------------------------------------------------------------------------
(***************************************************************************)
(* A step replaces a call c by calls N that search parts of c's search     *)
(* space.  If the calls of N are apart from each other, all calls are.     *)
(***************************************************************************)
LEMMA DescendKeepsApart ==
  ASSUME CallsApart, ReportedApart,
         NEW c \in calls, NEW N,
         calls' = (calls \ {c}) \union N,
         reported' = reported,
         \A n \in N : c.R \subseteq n.R /\ Reach(n) \subseteq Reach(c),
         \A m, n \in N : m # n => ~(m.R \subseteq Reach(n) /\ n.R \subseteq Reach(m))
  PROVE  CallsApart' /\ ReportedApart'
  <1>1. ASSUME NEW n \in N, NEW d \in calls, d # c,
               n.R \subseteq Reach(d), d.R \subseteq Reach(n)
        PROVE  FALSE
    <2>1. c.R \subseteq Reach(d) /\ d.R \subseteq Reach(c)
      BY <1>1
    <2> QED BY <1>1, <2>1 DEF CallsApart
  <1>2. CallsApart'
    <2> SUFFICES ASSUME NEW a \in calls', NEW b \in calls', a # b,
                        a.R \subseteq Reach(b), b.R \subseteq Reach(a)
                 PROVE  FALSE
      BY DEF CallsApart, Reach
    <2>1. CASE a \in N /\ b \in N
      BY <2>1
    <2>2. CASE a \in N /\ b \notin N
      BY <1>1, <2>2
    <2>3. CASE a \notin N /\ b \in N
      BY <1>1, <2>3
    <2>4. CASE a \notin N /\ b \notin N
      BY <2>4 DEF CallsApart
    <2> QED BY <2>1, <2>2, <2>3, <2>4
  <1>3. ReportedApart'
    <2> SUFFICES ASSUME NEW C \in reported, NEW a \in calls',
                        a.R \subseteq C, C \subseteq Reach(a)
                 PROVE  FALSE
      BY DEF ReportedApart, Reach
    <2>1. CASE a \in N
      <3>1. c.R \subseteq C /\ C \subseteq Reach(c)
        BY <2>1
      <3> QED BY <3>1 DEF ReportedApart
    <2>2. CASE a \notin N
      BY <2>2 DEF ReportedApart
    <2> QED BY <2>1, <2>2
  <1> QED BY <1>2, <1>3

\* What the invariant gives for one call.
LEMMA CallFacts ==
  ASSUME IInv, NEW c \in calls
  PROVE  /\ graph \in Graphs /\ opt \in Options
         /\ opt.max_clq_size \in Int
         /\ IsSimpleGraph(V, graph.adj)
         /\ c.R \in SUBSET V /\ c.P \in SUBSET V /\ c.X \in SUBSET V
         /\ c.cand \in SUBSET V /\ c \in CallType
         /\ Cardinality(c.R) \in Nat
         /\ Cardinality(c.R) \in 1..Cardinality(V)
         /\ CallOK(c)
  <1>1. graph \in Graphs /\ opt \in Options /\ c \in CallType
    BY DEF IInv, TypeOK
  <1>2. IsSimpleGraph(V, graph.adj) /\ opt.max_clq_size \in Int
    BY <1>1, GraphsAssumption, OptionsAssumption
  <1>3. CallOK(c)
    BY DEF IInv, CallsOK
  <1>4. /\ c.R \in SUBSET V /\ c.P \in SUBSET V /\ c.X \in SUBSET V
        /\ c.cand \in SUBSET V
    BY <1>1 DEF CallType
  <1>5. Cardinality(c.R) \in Nat /\ Cardinality(c.R) \in 1..Cardinality(V)
    <2>1. c.R # {}
      BY <1>3 DEF CallOK
    <2> QED BY <1>4, <2>1, VertexSetSize
  <1> QED BY <1>1, <1>2, <1>3, <1>4, <1>5

\* Properties of the state that hold as long as the input is not changed.
LEMMA SameInput ==
  ASSUME UNCHANGED <<graph, opt>>
  PROVE  /\ Wanted' = Wanted
         /\ \A c : CallOK(c) => CallOK(c)'
  <1>1. graph' = graph /\ opt' = opt
    OBVIOUS
  <1>2. Wanted' = Wanted
    BY <1>1 DEF Wanted
  <1>3. \A c : CallOK(c)' <=> CallOK(c)
    BY <1>1 DEF CallOK, Common, Cut
  <1> QED BY <1>2, <1>3

-----------------------------------------------------------------------------
\* Exit reports a wanted clique that has not been reported before, or nothing.
LEMMA ExitReport ==
  ASSUME IInv, NEW c \in calls, c.P = {}, c.X = {}
  PROVE  /\ c.R \in Wanted
         /\ c.R \notin reported
  <1>1. /\ c.R \in SUBSET V /\ c.R # {} /\ IsClique(graph.adj, c.R)
        /\ CommonNbrs(V, graph.adj, c.R) = {}
        /\ WithinLimit(opt.max_clq_size, c.R)
        /\ IsSimpleGraph(V, graph.adj)
    BY CallFacts DEF CallOK, Common
  <1>2. c.R \in Wanted
    BY <1>1, MaximalIffNoCommonNbr DEF Wanted, WantedOf, WantedCliques
  <1>3. c.R \notin reported
    BY DEF IInv, ReportedApart, Reach
  <1> QED BY <1>2, <1>3

\* A wanted clique R + part of P with P empty is R, and then X is empty too.
LEMMA ExitLosesNothing ==
  ASSUME IInv, NEW c \in calls, c.P = {}, NEW C \in Wanted,
         c.R \subseteq C, C \subseteq Reach(c)
  PROVE  C = c.R /\ c.X = {}
  <1>1. C = c.R
    BY DEF Reach
  <1>2. IsMaximalClique(V, graph.adj, c.R)
    BY <1>1, WantedFacts
  <1>3. CommonNbrs(V, graph.adj, c.R) = {}
    BY <1>2, CallFacts, MaximalIffNoCommonNbr DEF CallOK
  <1> QED BY <1>1, <1>3, CallFacts DEF CallOK, Common

\* A call that exits, reporting or not, keeps the invariant.
LEMMA ExitStep ==
  ASSUME IInv, NEW c \in calls, Exit(c)
  PROVE  IInv'
  <1> USE DEF Exit
  <1>0. UNCHANGED <<graph, opt>> /\ calls' = calls \ {c} /\ c.P = {}
    OBVIOUS
  <1>1. TypeOK'
    <2>1. CASE c.X = {}
      <3>1. hist' \in [1..Cardinality(V) -> Nat]
        BY <2>1, CallFacts DEF IInv, TypeOK
      <3>2. reported' \subseteq SUBSET V
        BY <2>1, CallFacts DEF IInv, TypeOK
      <3> QED BY <3>1, <3>2, <1>0 DEF IInv, TypeOK
    <2>2. CASE c.X # {}
      BY <2>2 DEF IInv, TypeOK
    <2> QED BY <2>1, <2>2
  <1>2. CallsOK'
    BY <1>0, SameInput DEF IInv, CallsOK
  <1>3. CallsApart'
    BY <1>0 DEF IInv, CallsApart, Reach
  <1>4. ReportedApart'
    <2> SUFFICES ASSUME NEW C \in reported', NEW d \in calls, d # c,
                        d.R \subseteq C, C \subseteq Reach(d)
                 PROVE  FALSE
      BY <1>0 DEF ReportedApart, Reach
    <2>1. CASE C \in reported
      BY <2>1 DEF IInv, ReportedApart
    <2>2. CASE C = c.R
      <3>1. c.R \subseteq Reach(d) /\ d.R \subseteq Reach(c)
        BY <2>2 DEF Reach
      <3> QED BY <3>1 DEF IInv, CallsApart
    <2> QED BY <2>1, <2>2
  <1>5. NoneLost'
    <2> SUFFICES ASSUME NEW C \in Wanted
                 PROVE  C \in reported' \/ \E d \in calls' : Pending(C, d)
      BY <1>0, SameInput DEF NoneLost, Pending, Reach
    <2>1. CASE C \in reported
      BY <2>1
    <2>2. CASE \E d \in calls : Pending(C, d)
      <3>1. PICK d \in calls : Pending(C, d)
        BY <2>2
      <3>2. CASE d = c
        <4>1. C = c.R /\ c.X = {}
          BY <3>1, <3>2, <1>0, ExitLosesNothing DEF Pending
        <4> QED BY <4>1
      <3>3. CASE d # c
        BY <1>0, <3>1, <3>3
      <3> QED BY <3>2, <3>3
    <2> QED BY <2>1, <2>2 DEF IInv, NoneLost
  <1>6. ReportsSound'
    BY <1>0, SameInput, ExitReport DEF IInv, ReportsSound
  <1>7. ReportedOnce'
    <2> DEFINE ofSize(S, k) == {C \in S : Cardinality(C) = k}
    <2>1. CASE c.X # {}
      BY <2>1 DEF IInv, ReportedOnce
    <2>2. CASE c.X = {}
      <3> SUFFICES ASSUME NEW k \in 1..Cardinality(V)
                   PROVE  hist'[k] = Cardinality(ofSize(reported', k))
        BY <2>2 DEF IInv, TypeOK, ReportedOnce
      <3>1. /\ hist[k] = Cardinality(ofSize(reported, k))
            /\ hist \in [1..Cardinality(V) -> Nat]
        BY DEF IInv, TypeOK, ReportedOnce
      <3>2. reported' = reported \union {c.R} /\ c.R \notin reported
        BY <2>2, ExitReport
      <3>3. CASE k = Cardinality(c.R)
        <4>1. ofSize(reported', k) = ofSize(reported, k) \union {c.R}
          BY <3>2, <3>3
        <4>2. c.R \notin ofSize(reported, k)
          BY <3>2
        <4>3. IsFiniteSet(ofSize(reported, k))
          <5>1. IsFiniteSet(SUBSET V)
            BY VAssumption, FS_SUBSET
          <5>2. ofSize(reported, k) \in SUBSET (SUBSET V)
            BY DEF IInv, TypeOK
          <5> HIDE DEF ofSize
          <5> QED BY <5>1, <5>2, FS_Subset
        <4>4. hist'[k] = hist[k] + 1
          BY <2>2, <3>1, <3>3
        <4> HIDE DEF ofSize
        <4>5. Cardinality(ofSize(reported', k)) = Cardinality(ofSize(reported, k)) + 1
          BY <4>1, <4>2, <4>3, FS_AddElement
        <4> QED BY <3>1, <4>4, <4>5
      <3>4. CASE k # Cardinality(c.R)
        <4>1. ofSize(reported', k) = ofSize(reported, k)
          BY <3>2, <3>4
        <4>2. hist'[k] = hist[k]
          BY <2>2, <3>1, <3>4
        <4> QED BY <3>1, <4>1, <4>2
      <3> QED BY <3>3, <3>4
    <2> QED BY <2>1, <2>2
  <1> QED BY <1>1, <1>2, <1>3, <1>4, <1>5, <1>6, <1>7 DEF IInv

-----------------------------------------------------------------------------
\* A call that the size limit stops has no wanted clique in its search space.
LEMMA CutLosesNothing ==
  ASSUME IInv, NEW c \in calls, c.P # {}, Cut(c), NEW C \in Wanted,
         c.R \subseteq C, C \subseteq Reach(c)
  PROVE  FALSE
  <1>1. C \in SUBSET V /\ IsFiniteSet(C) /\ Cardinality(C) \in Nat
    BY WantedFacts, VertexSetSize
  <1>2. Cardinality(C) <= Cardinality(c.R)
    BY <1>1, WantedFacts, CallFacts DEF WithinLimit, Cut
  <1>3. c.R = C
    <2>1. c.R \in SUBSET C
      OBVIOUS
    <2>2. Cardinality(c.R) <= Cardinality(C) /\ (Cardinality(C) = Cardinality(c.R) => C = c.R)
      BY <1>1, <2>1, FS_Subset
    <2> QED BY <1>1, <1>2, <2>2, CallFacts
  <1>4. IsMaximalClique(V, graph.adj, c.R)
    BY <1>3, WantedFacts
  <1>5. CommonNbrs(V, graph.adj, c.R) = {}
    BY <1>4, CallFacts, MaximalIffNoCommonNbr DEF CallOK
  <1> QED BY <1>5, CallFacts DEF CallOK, Common

\* A call that the size limit stops keeps the invariant.
LEMMA CutOffStep ==
  ASSUME IInv, NEW c \in calls, CutOff(c)
  PROVE  IInv'
  <1>0. /\ UNCHANGED <<graph, opt, reported, hist>> /\ calls' = calls \ {c}
        /\ c.P # {} /\ Cut(c)
    BY DEF CutOff
  <1>1. TypeOK'
    BY <1>0 DEF IInv, TypeOK
  <1>2. CallsOK'
    BY <1>0, SameInput DEF IInv, CallsOK
  <1>3. CallsApart' /\ ReportedApart'
    BY <1>0 DEF IInv, CallsApart, ReportedApart, Reach
  <1>4. NoneLost'
    <2> SUFFICES ASSUME NEW C \in Wanted, C \notin reported
                 PROVE  \E d \in calls' : Pending(C, d)
      BY <1>0, SameInput DEF NoneLost, Pending, Reach
    <2>1. PICK d \in calls : Pending(C, d)
      BY DEF IInv, NoneLost
    <2>2. d # c
      BY <1>0, <2>1, CutLosesNothing DEF Pending
    <2> QED BY <1>0, <2>1, <2>2
  <1>5. ReportsSound' /\ ReportedOnce'
    BY <1>0, SameInput DEF IInv, ReportsSound, ReportedOnce
  <1> QED BY <1>1, <1>2, <1>3, <1>4, <1>5 DEF IInv

-----------------------------------------------------------------------------
\* Choosing a pivot and the candidates keeps the invariant.
LEMMA OpenStep ==
  ASSUME IInv, NEW c \in calls, Open(c)
  PROVE  IInv'
  <1>1. PICK pivot \in Pivots(c) :
          calls' = (calls \ {c}) \union Rest(Opened(c, pivot))
    BY DEF Open
  <1>2. /\ UNCHANGED <<graph, opt, reported, hist>>
        /\ c.pc = "start" /\ ~Cut(c)
    BY DEF Open
  <1>3. /\ c.R \in SUBSET V /\ c.P \in SUBSET V /\ c.X \in SUBSET V /\ c \in CallType
        /\ IsSimpleGraph(V, graph.adj)
        /\ CallOK(c)
    BY CallFacts
  <1>4. pivot \in CommonNbrs(V, graph.adj, c.R)
    BY <1>3 DEF Pivots, CallOK, Common
  <1> DEFINE e == Opened(c, pivot)
             cand == c.P \ graph.adj[pivot]
  <1>5. /\ e.R = c.R /\ e.P = c.P /\ e.X = c.X /\ e.cand = cand /\ e.pc = "loop"
        /\ e \in CallType
    BY <1>3 DEF Opened, CallType
  <1>6. \A n \in Rest(e) : n = e /\ cand # {}
    BY <1>5 DEF Rest
  <1>7. cand # {} => e \in calls'
    BY <1>1, <1>5 DEF Rest
  <1> HIDE DEF e
  <1>8. TypeOK'
    BY <1>1, <1>2, <1>5, <1>6 DEF IInv, TypeOK, e
  <1>9. CallsOK'
    <2>1. cand # {} => CallOK(e)
      BY <1>2, <1>3, <1>5 DEF CallOK, Common, Cut
    <2> QED BY <1>1, <1>2, <1>6, <2>1, SameInput DEF IInv, CallsOK, e
  <1>10. CallsApart' /\ ReportedApart'
    <2>1. \A n \in Rest(e) : c.R \subseteq n.R /\ Reach(n) \subseteq Reach(c)
      BY <1>5, <1>6 DEF Reach
    <2>2. \A m, n \in Rest(e) : m = n
      BY <1>6
    <2>3. calls' = (calls \ {c}) \union Rest(e)
      BY <1>1 DEF e
    <2> QED BY <1>2, <2>1, <2>2, <2>3, DescendKeepsApart DEF IInv
  <1>11. NoneLost'
    <2> SUFFICES ASSUME NEW C \in Wanted, C \notin reported
                 PROVE  \E d \in calls' : Pending(C, d)
      BY <1>2, SameInput DEF NoneLost, Pending, Reach
    <2>1. PICK d \in calls : Pending(C, d)
      BY DEF IInv, NoneLost
    <2>2. CASE d # c
      BY <1>1, <2>1, <2>2
    <2>3. CASE d = c
      <3>1. c.R \subseteq C /\ C \subseteq c.R \union c.P
        BY <2>1, <2>3 DEF Pending, Reach
      <3>2. C \intersect cand # {}
        BY <1>3, <1>4, <3>1, WantedFacts, PivotMissesNothing
      <3>3. Pending(C, e)
        BY <1>5, <3>1, <3>2 DEF Pending, Reach
      <3> QED BY <1>7, <3>2, <3>3
    <2> QED BY <2>2, <2>3
  <1>12. ReportsSound' /\ ReportedOnce'
    BY <1>2, SameInput DEF IInv, ReportsSound, ReportedOnce
  <1> QED BY <1>8, <1>9, <1>10, <1>11, <1>12 DEF IInv

-----------------------------------------------------------------------------
\* The child of call c on its candidate v, and what is left of c.
LEMMA ChildOK ==
  ASSUME IInv, NEW c \in calls, c.pc = "loop", NEW v \in c.cand
  PROVE  /\ Child(c, v) \in CallType
         /\ CallOK(Child(c, v))
  <1>1. /\ c.R \in SUBSET V /\ c.P \in SUBSET V /\ c.X \in SUBSET V
        /\ IsSimpleGraph(V, graph.adj) /\ opt.max_clq_size \in Int
        /\ CallOK(c) /\ Cardinality(c.R) \in Nat
    BY CallFacts
  <1>2. v \in c.P /\ v \in V /\ v \in CommonNbrs(V, graph.adj, c.R)
    BY <1>1 DEF CallOK, Common
  <1> DEFINE d == Child(c, v)
  <1>3. /\ d.R = c.R \union {v}
        /\ d.P = c.P \intersect graph.adj[v] /\ d.X = c.X \intersect graph.adj[v]
        /\ d.cand = {} /\ d.pc = "start"
        /\ d \in CallType
    BY <1>1, <1>2 DEF Child, StartCall, CallType
  <1> HIDE DEF d
  <1>4. d.R # {} /\ IsClique(graph.adj, d.R)
    BY <1>1, <1>2, <1>3 DEF CallOK, IsClique, IsSimpleGraph, CommonNbrs
  <1>5. d.P \union d.X = Common(d)
    <2>1. CommonNbrs(V, graph.adj, {v}) = graph.adj[v]
      BY <1>1, <1>2 DEF CommonNbrs, IsSimpleGraph
    <2>2. CommonNbrs(V, graph.adj, c.R \union {v})
            = CommonNbrs(V, graph.adj, c.R) \intersect graph.adj[v]
      BY <2>1 DEF CommonNbrs
    <2>3. c.P \union c.X = CommonNbrs(V, graph.adj, c.R)
      BY <1>1 DEF CallOK, Common
    <2>4. d.P \union d.X = CommonNbrs(V, graph.adj, c.R) \intersect graph.adj[v]
      BY <1>3, <2>3
    <2> QED BY <1>3, <2>2, <2>4 DEF Common
  <1>6. d.P \intersect d.X = {}
    BY <1>1, <1>3 DEF CallOK
  <1>7. WithinLimit(opt.max_clq_size, d.R)
    <2>1. Cardinality(d.R) <= Cardinality(c.R) + 1 /\ Cardinality(d.R) \in Nat
      <3>1. IsFiniteSet(c.R) /\ d.R \in SUBSET V
        BY <1>1, <1>2, <1>3, VertexSetSize
      <3>2. Cardinality(d.R) \in Nat
        BY <3>1, VertexSetSize
      <3>3. Cardinality(c.R \union {v})
              = IF v \in c.R THEN Cardinality(c.R) ELSE Cardinality(c.R) + 1
        BY <3>1, FS_AddElement
      <3> QED BY <1>1, <1>3, <3>2, <3>3
    <2>2. opt.max_clq_size >= 0 => Cardinality(c.R) < opt.max_clq_size
      BY <1>1 DEF CallOK, Cut
    <2> QED BY <1>1, <2>1, <2>2 DEF WithinLimit
  <1>8. CallOK(d)
    BY <1>3, <1>4, <1>5, <1>6, <1>7 DEF CallOK
  <1> QED BY <1>3, <1>8 DEF d

\* One loop iteration, with its new call, keeps the invariant.
LEMMA LoopStep ==
  ASSUME IInv, NEW c \in calls, NEW v \in c.cand, LoopIteration(c, v)
  PROVE  IInv'
  <1>1. /\ calls' = (calls \ {c}) \union {Child(c, v)} \union Rest(Moved(c, v))
        /\ UNCHANGED <<graph, opt, reported, hist>>
        /\ c.pc = "loop"
    BY DEF LoopIteration
  <1>2. /\ c.R \in SUBSET V /\ c.P \in SUBSET V /\ c.X \in SUBSET V /\ c \in CallType
        /\ IsSimpleGraph(V, graph.adj)
        /\ CallOK(c)
    BY CallFacts
  <1>3. v \in c.P /\ v \in V /\ v \notin c.X /\ v \notin c.R
    <2>1. v \in c.P /\ v \in V /\ v \notin c.X
      BY <1>2 DEF CallOK
    <2>2. v \in CommonNbrs(V, graph.adj, c.R)
      BY <1>2, <2>1 DEF CallOK, Common
    <2>3. v \notin c.R
      BY <1>2, <2>1, <2>2 DEF CommonNbrs, IsSimpleGraph
    <2> QED BY <2>1, <2>3
  <1> DEFINE d == Child(c, v)
             e == Moved(c, v)
             N == {d} \union Rest(e)
  <1>4. /\ d.R = c.R \union {v} /\ d.P = c.P \intersect graph.adj[v]
        /\ d.cand = {} /\ d.pc = "start"
    BY DEF Child, StartCall
  <1>5. /\ e.R = c.R /\ e.P = c.P \ {v} /\ e.X = c.X \union {v}
        /\ e.cand = c.cand \ {v} /\ e.pc = "loop"
        /\ e \in CallType
    BY <1>1, <1>2, <1>3 DEF Moved, CallType
  <1>6. \A n \in Rest(e) : n = e /\ e.cand # {}
    BY DEF Rest
  <1>7. e.cand # {} => e \in calls'
    BY <1>1 DEF Rest
  <1>8. calls' = (calls \ {c}) \union N /\ d \in calls'
    BY <1>1
  <1>9. d \in CallType /\ CallOK(d)
    BY <1>1, ChildOK
  <1> HIDE DEF d, e
  <1>10. TypeOK'
    BY <1>1, <1>5, <1>6, <1>8, <1>9 DEF IInv, TypeOK
  <1>11. CallsOK'
    <2>1. e.cand # {} => CallOK(e)
      BY <1>1, <1>2, <1>3, <1>5 DEF CallOK, Common, Cut
    <2>2. \A n \in N : CallOK(n)
      BY <1>6, <1>9, <2>1
    <2> HIDE DEF N
    <2> QED BY <1>1, <1>8, <2>2, SameInput DEF IInv, CallsOK
  <1>12. CallsApart' /\ ReportedApart'
    <2>1. \A n \in N : c.R \subseteq n.R /\ Reach(n) \subseteq Reach(c)
      BY <1>3, <1>4, <1>5, <1>6 DEF Reach
    <2>2. ~(d.R \subseteq Reach(e))
      BY <1>3, <1>4, <1>5 DEF Reach
    <2>3. \A m, n \in N : m # n => ~(m.R \subseteq Reach(n) /\ n.R \subseteq Reach(m))
      BY <1>6, <2>2
    <2> HIDE DEF N
    <2> QED BY <1>1, <1>8, <2>1, <2>3, DescendKeepsApart DEF IInv
  <1>13. NoneLost'
    <2> SUFFICES ASSUME NEW C \in Wanted, C \notin reported
                 PROVE  \E a \in calls' : Pending(C, a)
      BY <1>1, SameInput DEF NoneLost, Pending, Reach
    <2>1. PICK a \in calls : Pending(C, a)
      BY DEF IInv, NoneLost
    <2>2. CASE a # c
      BY <1>8, <2>1, <2>2
    <2>3. CASE a = c /\ v \in C
      <3>1. c.R \subseteq C /\ C \subseteq c.R \union c.P /\ IsClique(graph.adj, C)
        BY <2>1, <2>3, WantedFacts DEF Pending, Reach
      <3>2. d.R \subseteq C /\ C \subseteq Reach(d)
        BY <1>4, <2>3, <3>1 DEF IsClique, Reach
      <3>3. Pending(C, d)
        BY <1>4, <3>2 DEF Pending
      <3> QED BY <1>8, <3>3
    <2>4. CASE a = c /\ v \notin C
      <3>1. /\ c.R \subseteq C /\ C \subseteq c.R \union c.P
            /\ C \intersect c.cand # {}
        BY <1>1, <2>1, <2>4 DEF Pending, Reach
      <3>2. Pending(C, e) /\ e.cand # {}
        BY <1>5, <2>4, <3>1 DEF Pending, Reach
      <3> QED BY <1>7, <3>2
    <2> QED BY <2>2, <2>3, <2>4
  <1>14. ReportsSound' /\ ReportedOnce'
    BY <1>1, SameInput DEF IInv, ReportsSound, ReportedOnce
  <1> QED BY <1>10, <1>11, <1>12, <1>13, <1>14 DEF IInv

-----------------------------------------------------------------------------
\* Steps that change nothing keep the invariant.
LEMMA StutterStep ==
  ASSUME IInv, UNCHANGED vars
  PROVE  IInv'
  <1>1. /\ graph' = graph /\ opt' = opt /\ calls' = calls
        /\ reported' = reported /\ hist' = hist
    BY DEF vars
  <1>2. TypeOK' /\ ReportedOnce'
    BY <1>1 DEF IInv, TypeOK, ReportedOnce
  <1>3. CallsOK' /\ ReportsSound'
    BY <1>1, SameInput DEF IInv, CallsOK, ReportsSound
  <1>4. CallsApart' /\ ReportedApart'
    BY <1>1 DEF IInv, CallsApart, ReportedApart, Reach
  <1>5. NoneLost'
    BY <1>1, SameInput DEF IInv, NoneLost, Pending, Reach
  <1> QED BY <1>2, <1>3, <1>4, <1>5 DEF IInv

\* Every step keeps the invariant.
LEMMA NextIInv == IInv /\ [Next]_vars => IInv'
  <1> SUFFICES ASSUME IInv, [Next]_vars PROVE IInv'
    OBVIOUS
  <1>1. ASSUME NEW c \in calls, Exit(c) PROVE IInv'
    BY <1>1, ExitStep
  <1>2. ASSUME NEW c \in calls, CutOff(c) PROVE IInv'
    BY <1>2, CutOffStep
  <1>3. ASSUME NEW c \in calls, Open(c) PROVE IInv'
    BY <1>3, OpenStep
  <1>4. ASSUME NEW c \in calls, NEW v \in c.cand, LoopIteration(c, v) PROVE IInv'
    BY <1>4, LoopStep
  <1>5. CASE UNCHANGED vars
    BY <1>5, StutterStep
  <1> QED BY <1>1, <1>2, <1>3, <1>4, <1>5 DEF Next, Terminated

\* The invariant holds in every reachable state.
THEOREM Invariance == Spec => []IInv
  BY InitIInv, NextIInv, PTL DEF Spec

\* The variables keep their types: for every graph, order, limit and schedule.
THEOREM TypeCorrect == Spec => []TypeOK
  <1>1. IInv => TypeOK
    BY DEF IInv
  <1> QED BY <1>1, Invariance, PTL

(***************************************************************************)
(* Only wanted cliques are reported, none of them twice, and none is ever  *)
(* out of the reach of the calls that are left.                            *)
(***************************************************************************)
THEOREM ReportsCorrect == Spec => [](ReportsSound /\ ReportedOnce /\ NoneLost)
  <1>1. IInv => ReportsSound /\ ReportedOnce /\ NoneLost
    BY DEF IInv
  <1> QED BY <1>1, Invariance, PTL

\* No two calls of the recursion ever search for the same clique.
THEOREM CallsNeverOverlap == Spec => [](CallsApart /\ ReportedApart)
  <1>1. IInv => CallsApart /\ ReportedApart
    BY DEF IInv
  <1> QED BY <1>1, Invariance, PTL

\* When no call is left, the reported cliques are the wanted ones.
LEMMA AllReportedWhenDone ==
  ASSUME IInv, Done
  PROVE  reported = Wanted
  BY DEF IInv, Done, NoneLost, ReportsSound

(***************************************************************************)
(* When no call is left, exactly the wanted maximal cliques have been      *)
(* reported and the histogram counts them by size.                         *)
(***************************************************************************)
THEOREM EnumerationComplete == Spec => []CompleteAtEnd
  <1>1. IInv => CompleteAtEnd
    <2> SUFFICES ASSUME IInv, Done
                 PROVE  /\ reported = Wanted
                        /\ \A k \in DOMAIN hist :
                             hist[k] = Cardinality({C \in Wanted : Cardinality(C) = k})
      BY DEF CompleteAtEnd
    <2>1. reported = Wanted
      BY AllReportedWhenDone
    <2> QED BY <2>1 DEF IInv, ReportedOnce
  <1> QED BY <1>1, Invariance, PTL

-----------------------------------------------------------------------------
(***************************************************************************)
(* The recursion implements CliqueEnumeration: its initial states are      *)
(* initial states there, Exit is Report (and Finish, if no call is left),  *)
(* and all other steps are stutters or Finish.                             *)
(***************************************************************************)
LEMMA InitRefines == Init => Enumeration!Init
  <1> SUFFICES ASSUME Init PROVE Enumeration!Init
    OBVIOUS
  <1>1. Done => Wanted = {}
    <2>1. IInv
      BY InitIInv
    <2> QED BY <2>1, AllReportedWhenDone DEF Init
  <1>2. Enumeration!Wanted = Wanted
    BY DEF Wanted, Enumeration!Wanted
  <1> QED BY <1>1, <1>2 DEF Init, Enumeration!Init, Done

\* Every step of the recursion is a step of the abstract enumeration, or none.
LEMMA StepRefines ==
  ASSUME IInv, IInv', [Next]_vars
  PROVE  [Enumeration!Next]_(Enumeration!vars)
  <1>0. Enumeration!Wanted = Wanted
    BY DEF Wanted, Enumeration!Wanted
  <1>1. CASE UNCHANGED vars
    BY <1>1 DEF vars, Enumeration!vars, Done
  <1>2. ASSUME NEW c \in calls, UNCHANGED <<graph, opt, reported, hist>>
        PROVE  [Enumeration!Next]_(Enumeration!vars)
    <2>1. ~Done
      BY <1>2 DEF Done
    <2>2. CASE ~Done'
      <3>1. Done' = Done
        BY <2>1, <2>2 DEF Done
      <3> QED BY <1>2, <3>1 DEF Enumeration!vars
    <2>3. CASE Done'
      <3>1. reported = Wanted
        BY <1>2, <2>3, SameInput, AllReportedWhenDone DEF Done, IInv, NoneLost, ReportsSound
      <3>2. Enumeration!Finish
        BY <1>0, <1>2, <2>1, <2>3, <3>1 DEF Enumeration!Finish
      <3> QED BY <3>2 DEF Enumeration!Next
    <2> QED BY <2>2, <2>3
  <1>3. ASSUME NEW c \in calls, Exit(c), c.X = {}
        PROVE  Enumeration!Next
    <2>1. c.R \in Wanted \ reported /\ c.R \in SUBSET V
      BY <1>3, ExitReport, CallFacts DEF Exit
    <2>2. ~Done
      BY <1>3 DEF Done
    <2>3. Done' => Wanted = reported'
      BY <1>3, SameInput DEF Exit, Done, IInv, NoneLost, ReportsSound
    <2>4. Enumeration!Report(c.R)
      BY <1>0, <1>3, <2>1, <2>2, <2>3 DEF Exit, Enumeration!Report, Done
    <2> QED BY <1>0, <2>1, <2>4 DEF Enumeration!Next
  <1>4. ASSUME NEW c \in calls, Exit(c), c.X # {}
        PROVE  [Enumeration!Next]_(Enumeration!vars)
    BY <1>2, <1>4 DEF Exit
  <1>5. ASSUME NEW c \in calls, CutOff(c) \/ Open(c)
        PROVE  [Enumeration!Next]_(Enumeration!vars)
    BY <1>2, <1>5 DEF CutOff, Open
  <1>6. ASSUME NEW c \in calls, NEW v \in c.cand, LoopIteration(c, v)
        PROVE  [Enumeration!Next]_(Enumeration!vars)
    BY <1>2, <1>6 DEF LoopIteration
  <1> QED BY <1>1, <1>3, <1>4, <1>5, <1>6 DEF Next, Terminated

\* The recursion implements the abstract enumeration, for every schedule.
THEOREM Refinement == Spec => ImplementsEnumeration
  <1>1. IInv /\ IInv' /\ [Next]_vars => [Enumeration!Next]_(Enumeration!vars)
    BY StepRefines
  <1> QED BY <1>1, InitRefines, Invariance, PTL
      DEF Spec, ImplementsEnumeration, Enumeration!Spec
=============================================================================
