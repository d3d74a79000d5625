---------------------------- MODULE BronKerbosch ----------------------------
(***************************************************************************)
(* The recursion of src/BronKerboschTBB.cpp, without tasks, subgraphs and  *)
(* memory: the set `calls' holds every call of the Bron-Kerbosch recursion *)
(* that is still to do something, be it a task waiting for a worker, a     *)
(* task between two executions, or a frame of SequentialRun.  Any of them  *)
(* may take the next step, which covers every schedule TBB can produce and *)
(* every choice between spawning a child and running it in place.          *)
(*                                                                         *)
(* A call is a record: R the clique (a set here, an UnrolledList in the    *)
(* code: only its size and its last vertex are ever read), P and X, cand   *)
(* the candidates not yet iterated over, pc = "start" before StartTask and *)
(* "loop" while candidates are left.                                       *)
(***************************************************************************)
EXTENDS MaximalCliques, VertexOrder

CONSTANTS V,        \* vertices (int32 identifiers in the code)
          Graphs,   \* [adj : [V -> SUBSET V], pos : [V -> Nat]]
          Options   \* records with fields ord and max_clq_size

VARIABLES graph, opt,   \* chosen once: input file and command line
          calls,
          reported,     \* the cliques handed to store_clique
          hist          \* all per-thread histograms pt_hist taken together

vars == <<graph, opt, calls, reported, hist>>

ASSUME VAssumption == V \subseteq Int /\ IsFiniteSet(V)

\* vertexOrdering and backwardsMapping are inverse, hence pos is injective.
ASSUME GraphsAssumption ==
  \A g \in Graphs :
    /\ IsSimpleGraph(V, g.adj)
    /\ g.pos \in [V -> Nat]
    /\ \A u, v \in V : g.pos[u] = g.pos[v] => u = v

ASSUME OptionsAssumption ==
  \A o \in Options : o.ord \in Ords /\ o.max_clq_size \in Int

-----------------------------------------------------------------------------
StartCall(r, p, x) == [R |-> r, P |-> p, X |-> x, cand |-> {}, pc |-> "start"]

RootCall(g, o, v) == StartCall({v}, RootP(g, o, v), RootX(g, o, v))

Init ==
  /\ graph \in Graphs
  /\ opt \in Options
  /\ calls = {RootCall(graph, opt, v) : v \in V}
  /\ reported = {}
  /\ hist = [k \in 1..Cardinality(V) |-> 0]

(***************************************************************************)
(* --max-clq.  R.size() is a size_t, so a negative limit is converted to a *)
(* huge one: it never cuts, exactly like the default -1.                   *)
(***************************************************************************)
Cut(c) == opt.max_clq_size >= 0 /\ Cardinality(c.R) >= opt.max_clq_size

\* getPivot, pivot_node: a vertex of P or X with the most neighbours in P.
Pivots(c) ==
  {v \in c.P \union c.X :
     \A w \in c.P \union c.X :
       Cardinality(c.P \intersect graph.adj[w])
         =< Cardinality(c.P \intersect graph.adj[v])}

\* What is left of call c: nothing once its candidates are used up.
Rest(c) == IF c.cand = {} THEN {} ELSE {c}

-----------------------------------------------------------------------------
\* Mutants of Exit: the count goes down; a call that has nothing to report
\* is not ended.
ExitCountsDown(c) ==
  /\ c.pc = "start" /\ c.P = {}
  /\ reported' = IF c.X = {} THEN reported \union {c.R} ELSE reported
  /\ hist' = IF c.X = {} THEN [hist EXCEPT ![Cardinality(c.R)] = @ - 1] ELSE hist
  /\ calls' = calls \ {c}
  /\ UNCHANGED <<graph, opt>>

ExitOnlyOnReport(c) ==
  /\ c.pc = "start" /\ c.P = {} /\ c.X = {}
  /\ reported' = reported \union {c.R}
  /\ hist' = [hist EXCEPT ![Cardinality(c.R)] = @ + 1]
  /\ calls' = calls \ {c}
  /\ UNCHANGED <<graph, opt>>

(***************************************************************************)
(* StartTask.  Nothing is left to extend R with (P empty): R is reported   *)
(* if no vertex of X extends it either; the call is over.                  *)
(***************************************************************************)
Exit(c) ==
  /\ c.pc = "start" /\ c.P = {}
  /\ IF c.X = {}
     THEN /\ reported' = reported \union {c.R}
          /\ hist' = [hist EXCEPT ![Cardinality(c.R)] = @ + 1]
     ELSE UNCHANGED <<reported, hist>>
  /\ calls' = calls \ {c}
  /\ UNCHANGED <<graph, opt>>

\* Mutant of CutOff: the clique that was reached is reported all the same.
CutOffReports(c) ==
  /\ c.pc = "start" /\ c.P # {}
  /\ Cut(c)
  /\ reported' = reported \union {c.R}
  /\ hist' = [hist EXCEPT ![Cardinality(c.R)] = @ + 1]
  /\ calls' = calls \ {c}
  /\ UNCHANGED <<graph, opt>>

\* StartTask: the clique size limit stops the recursion.
CutOff(c) ==
  /\ c.pc = "start" /\ c.P # {}
  /\ Cut(c)
  /\ calls' = calls \ {c}
  /\ UNCHANGED <<graph, opt, reported, hist>>

\* Mutant of Opened: the pivot itself is no candidate.
OpenedWithoutPivot(c, pivot) ==
  [c EXCEPT !.cand = c.P \ (graph.adj[pivot] \union {pivot}), !.pc = "loop"]

\* StartTask: the candidates are the vertices of P not adjacent to the pivot.
Opened(c, pivot) ==
  [c EXCEPT !.cand = c.P \ graph.adj[pivot], !.pc = "loop"]

Open(c) ==
  /\ c.pc = "start" /\ c.P # {}
  /\ ~Cut(c)
  /\ \E pivot \in Pivots(c) :
       calls' = (calls \ {c}) \union Rest(Opened(c, pivot))
  /\ UNCHANGED <<graph, opt, reported, hist>>

(***************************************************************************)
(* LoopIteration: the child call on R + v gets P and X restricted to the   *)
(* neighbours of v; then v moves from P to X.                              *)
(***************************************************************************)
Child(c, v) ==
  StartCall(c.R \union {v},
            c.P \intersect graph.adj[v], c.X \intersect graph.adj[v])

\* Mutant of Moved: v is not removed from P.
MovedNotDeleted(c, v) == [c EXCEPT !.X = @ \union {v}, !.cand = @ \ {v}]

Moved(c, v) ==
  [c EXCEPT !.P = @ \ {v}, !.X = @ \union {v}, !.cand = @ \ {v}]

LoopIteration(c, v) ==
  /\ c.pc = "loop" /\ v \in c.cand
  /\ calls' = (calls \ {c}) \union {Child(c, v)} \union Rest(Moved(c, v))
  /\ UNCHANGED <<graph, opt, reported, hist>>

\* Every task has finished and the program prints its results.
Done == calls = {}

Terminated == Done /\ UNCHANGED vars

Next ==
  \/ \E c \in calls :
       Exit(c) \/ CutOff(c) \/ Open(c) \/ \E v \in c.cand : LoopIteration(c, v)
  \/ Terminated

Spec == Init /\ [][Next]_vars

\* TBB runs every spawned task: as long as a call is left, some step is taken.
FairSpec == Spec /\ WF_vars(Next)

-----------------------------------------------------------------------------
CallType ==
  [R : SUBSET V, P : SUBSET V, X : SUBSET V, cand : SUBSET V,
   pc : {"start", "loop"}]

\* Types of the variables.
TypeOK ==
  /\ graph \in Graphs
  /\ opt \in Options
  /\ calls \subseteq CallType
  /\ reported \subseteq SUBSET V
  /\ hist \in [1..Cardinality(V) -> Nat]

Common(c) == CommonNbrs(V, graph.adj, c.R)
WantedOf(g, o) == WantedCliques(V, g.adj, o.max_clq_size)
Wanted == WantedOf(graph, opt)

(***************************************************************************)
(* The contract between the calls: R is a clique, and P and X split the    *)
(* vertices that extend R into those still to be tried and those already   *)
(* dealt with elsewhere; nothing is lost from either by the intersections, *)
(* the pivot and the moves from P to X.                                    *)
(***************************************************************************)
CallOK(c) ==
  /\ c.R # {} /\ IsClique(graph.adj, c.R)
  /\ c.P \union c.X = Common(c)
  /\ c.P \intersect c.X = {}
  /\ c.cand \subseteq c.P
  /\ c.pc = "loop" <=> c.cand # {}
  /\ WithinLimit(opt.max_clq_size, c.R)
  /\ c.pc = "loop" => ~Cut(c)

CallsOK == \A c \in calls : CallOK(c)

(***************************************************************************)
(* No clique lies in the search space of two calls that are alive at the   *)
(* same time, whatever the schedule: were it so, R(c) would be within      *)
(* reach of d and R(d) within reach of c.                                  *)
(***************************************************************************)
Reach(c) == c.R \union c.P

CallsApart ==
  \A c, d \in calls : c # d => ~(c.R \subseteq Reach(d) /\ d.R \subseteq Reach(c))

\* A clique already reported is in no live call's search space.
ReportedApart ==
  \A C \in reported, c \in calls : ~(c.R \subseteq C /\ C \subseteq Reach(c))

(***************************************************************************)
(* No clique is lost: at any moment each wanted clique has been reported   *)
(* or is in the search space of a call that will still get to it.          *)
(***************************************************************************)
Pending(C, c) ==
  /\ c.R \subseteq C /\ C \subseteq Reach(c)
  /\ c.pc = "loop" => C \intersect c.cand # {}

NoneLost == \A C \in Wanted : C \in reported \/ \E c \in calls : Pending(C, c)

(***************************************************************************)
(* Only wanted maximal cliques are reported, and the histogram -p prints   *)
(* counts each of them once: a second report would make it too large.      *)
(***************************************************************************)
ReportsSound == reported \subseteq Wanted

ReportedOnce ==
  \A k \in DOMAIN hist : hist[k] = Cardinality({C \in reported : Cardinality(C) = k})

\* When all calls are over, the reports and the histogram are exactly right.
CompleteAtEnd ==
  Done => /\ reported = Wanted
          /\ \A k \in DOMAIN hist :
               hist[k] = Cardinality({C \in Wanted : Cardinality(C) = k})

\* The enumeration comes to an end under every schedule.
Termination == <>Done

(***************************************************************************)
(* The recursion implements the abstract enumeration: what it reports, and *)
(* when it stops, is what CliqueEnumeration allows.                        *)
(***************************************************************************)
Enumeration ==
  INSTANCE CliqueEnumeration WITH Sizes <- 1..Cardinality(V),
                                  Size <- Cardinality,
                                  done <- Done

ImplementsEnumeration == Enumeration!Spec
=============================================================================
