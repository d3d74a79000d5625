----------------------------- MODULE MCBKTasks ------------------------------
(***************************************************************************)
(* BKTasks on all labelled graphs with MCN vertices and at least           *)
(* MCMinEdges edges.                                                       *)
(***************************************************************************)
EXTENDS BKTasks

CONSTANTS MCN, MCMinEdges,
          MCSub,          \* values of -s
          MCThresh,       \* values of --thresh: at 0 every call is a task
          MCMemThresh,    \* values of --mem-thresh; 0 stands for no -o
          MCLimit,        \* values of --max-clq; NoLimit: not given
          NoLimit,
          MCTight,        \* only the smallest safe --thresh for a --mem-thresh?
          KnownFaults     \* allow the command lines that are known to fail?

MCV == 1..MCN

MCAdj(E) == [u \in MCV |-> {v \in MCV : {u, v} \in E}]

MCGraphs ==
  LET Edges == {e \in SUBSET MCV : Cardinality(e) = 2}
  IN  {[adj |-> MCAdj(E), pos |-> [v \in MCV |-> v]] :
         E \in {F \in SUBSET Edges : Cardinality(F) >= MCMinEdges}}

Option(s, thresh, mem, limit) ==
  [ord |-> "degeneracy",
   max_clq_size |-> IF limit = NoLimit THEN -1 ELSE limit,
   subgraphBased |-> s, PX_threshold |-> thresh,
   mem_threshold |-> mem, setsMempool |-> mem > 0]

MCOptions ==
  {o \in {Option(x[1], x[2], x[3], x[4]) :
            x \in MCSub \X MCThresh \X MCMemThresh \X MCLimit} :
     /\ o.setsMempool => o.PX_threshold >= o.mem_threshold - 1
     /\ MCTight => o.PX_threshold = o.mem_threshold - 1
     /\ Faulty(o) => KnownFaults}
=============================================================================
