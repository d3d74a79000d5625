------------------------------ MODULE BKTasks -------------------------------
(***************************************************************************)
(* The parallel execution of the recursion: the TBB tasks of BKTask.h and  *)
(* BronKerboschTBB.cpp, the calls a task runs in place (SequentialRun),    *)
(* the reference counted subgraphs (GraphGuard) and the memory pools of    *)
(* sets (MemChunk).                                                        *)
(*                                                                         *)
(* A vertex set names everything: a task is named by the clique it was     *)
(* created with, a subgraph by the clique of the call that created it, a   *)
(* pool by its task.  No two calls of one run have the same clique.  {}    *)
(* names the input graph, the root task, and the heap.                     *)
(*                                                                         *)
(* A task is its parent, NewGraph, the TBB reference count and a stack of  *)
(* frames: the first is the task's own call (its gg is the field graphg,   *)
(* its R, P, X and cand are R_task, P_task, X_task and cand_task), the     *)
(* others are the nested SequentialRun calls.  Since taskSpawnCnt is 0     *)
(* until the first of these, taskSpawnCnt == 0 in StartTask means that it  *)
(* is the task's own call, and so does taskLevel == 0.                     *)
(*                                                                         *)
(* One action is one call of StartTask, one call of LoopIteration, or one  *)
(* return.  Between two of them a task shares nothing but reference        *)
(* counts, which are guarded by locks or atomic, and pools, which are not: *)
(* that a pool is used by one task only is the invariant ChunkPrivate.     *)
(***************************************************************************)
EXTENDS MaximalCliques, VertexOrder, SequencesExt

CONSTANTS V, Graphs,
          Options  \* ord, max_clq_size, subgraphBased, PX_threshold,
                   \* mem_threshold and setsMempool

VARIABLES graph, opt,
          root,      \* RootIterBKTask
          tasks,     \* the MainBKTasks that exist
          guards,    \* the GraphGuards that exist, with their graphs
          chunks,    \* MemChunk::allocations of the tasks that have a pool
          reported, hist

vars == <<graph, opt, root, tasks, guards, chunks, reported, hist>>
memory == <<tasks, guards, chunks>>

\* Vertices are indices of vectors; graphs are as in BronKerbosch.
ASSUME TaskVAssumption == V \subseteq Nat /\ IsFiniteSet(V)

ASSUME TaskGraphsAssumption ==
  \A g \in Graphs :
    /\ IsSimpleGraph(V, g.adj)
    /\ g.pos \in [V -> Nat]
    /\ \A u, v \in V : g.pos[u] = g.pos[v] => u = v

ASSUME TaskOptionsAssumption ==
  \A o \in Options : /\ o.ord \in Ords /\ o.max_clq_size \in Int
                     /\ o.subgraphBased \in Int
                     /\ o.PX_threshold \in Int
                     /\ o.mem_threshold \in Int
                     /\ o.setsMempool \in BOOLEAN

(***************************************************************************)
(* The counter and the free index of a pool have no lock.  This module     *)
(* takes an operation on a pool as one step, which is right only while no  *)
(* two tasks use one pool: a call so small that its sets are pooled must   *)
(* be too small to spawn a task.  The defaults, 30 and 20, are safe.       *)
(***************************************************************************)
ASSUME SafeThresholds ==
  \A o \in Options : o.setsMempool => o.PX_threshold >= o.mem_threshold - 1

(***************************************************************************)
(* Command lines that are known to fail (see README.md, Findings): -s out  *)
(* of its range, and -s 1 with --max-clq 0 or 1.                           *)
(***************************************************************************)
Faulty(o) ==
  \/ o.subgraphBased \notin 0..3
  \/ o.subgraphBased = 1 /\ o.max_clq_size \in {0, 1}

Heap == {}
Main == {}
Sub == opt.subgraphBased

-----------------------------------------------------------------------------
(***************************************************************************)
(* GraphGuards.  A guard whose count drops to 0 deletes its graph and      *)
(* itself.  The adjacency of a deleted graph is not defined; the invariant *)
(* GuardAlive says that it is not asked for.                               *)
(***************************************************************************)
Guard(ref, adj, pivot) == [ref |-> ref, adj |-> adj, pivot_node |-> pivot]

Drop(f, k) == [x \in DOMAIN f \ {k} |-> f[x]]
Put(f, k, val) == [x \in DOMAIN f \union {k} |-> IF x = k THEN val ELSE f[x]]

Counted(G, k, n) == [G EXCEPT ![k] = Guard(n, @.adj, @.pivot_node)]

\* Mutant of inc_graph_ref_count: the increment is lost.
LostIncrement(G, k) == G

inc_graph_ref_count(G, k) ==
  IF k \in DOMAIN G THEN Counted(G, k, G[k].ref + 1) ELSE G

dec_graph_ref_count(G, k) ==
  IF k \notin DOMAIN G THEN G
  ELSE IF G[k].ref - 1 <= 0 THEN Drop(G, k)
  ELSE Counted(G, k, G[k].ref - 1)

Adj(G, k, v) ==
  IF k \in DOMAIN G /\ v \in DOMAIN G[k].adj THEN G[k].adj[v] ELSE {}

\* Mutant of HpxAdj: vertices of X are not added to the neighbours in P.
HpxAdjWithoutX(G, f) ==
  [v \in f.P \union f.X |-> Adj(G, f.gg, v) \intersect f.P]

\* createHpxSubgraph: vertices of P keep all neighbours, those of X only P.
HpxAdj(G, f) ==
  [v \in f.P \union f.X |->
     Adj(G, f.gg, v) \intersect (IF v \in f.P THEN f.P \union f.X ELSE f.P)]

Degree(G, f, v) == Cardinality(f.P \intersect Adj(G, f.gg, v))

\* The members of S with the most neighbours in P.
Best(G, f, S) == {v \in S : \A w \in S : Degree(G, f, w) <= Degree(G, f, v)}

(***************************************************************************)
(* createHpxSubgraph visits P before X, getPivot X before P; both keep the *)
(* first vertex that is strictly better than those before.  getPivot       *)
(* starts from the first vertex of P and asks for at least one neighbour.  *)
(* The order within P and X is that of a list or a hash table: any vertex  *)
(* may be first.                                                           *)
(***************************************************************************)
HpxPivots(G, f) ==
  LET best == Best(G, f, f.P \union f.X)
  IN  IF best \intersect f.P # {} THEN best \intersect f.P ELSE best

GetPivots(G, f) ==
  LET best == Best(G, f, f.P \union f.X)
  IN  IF \A v \in best : Degree(G, f, v) = 0 THEN f.P
      ELSE IF best \intersect f.X # {} THEN best \intersect f.X
      ELSE best

-----------------------------------------------------------------------------
(***************************************************************************)
(* Memory pools.  Sets made while P and X together are small come from the *)
(* pool of the executing task; delete_set gives a set back to the heap or  *)
(* to the pool it came from.                                               *)
(***************************************************************************)
\* Mutant of Pooled: the threshold is off by one.
PooledAtThreshold(f) ==
  opt.setsMempool /\ Cardinality(f.P) + Cardinality(f.X) <= opt.mem_threshold

Pooled(f) ==
  opt.setsMempool /\ Cardinality(f.P) + Cardinality(f.X) < opt.mem_threshold

Owner(t, f) == IF Pooled(f) THEN t ELSE Heap

\* Mutant of allocate: two sets are counted as one.
AllocateOne(C, owner, n) ==
  IF owner = Heap THEN C
  ELSE Put(C, owner, 1 + IF owner \in DOMAIN C THEN C[owner] ELSE 0)

\* n calls of increment_allocations; the pool is created by the first one.
allocate(C, owner, n) ==
  IF owner = Heap THEN C
  ELSE Put(C, owner, n + IF owner \in DOMAIN C THEN C[owner] ELSE 0)

delete_set(C, owner) ==
  IF owner \in DOMAIN C THEN [C EXCEPT ![owner] = @ - 1] ELSE C

\* Mutant of DeleteAll: cand is forgotten.
DeleteAllButCand(C, f) == delete_set(delete_set(C, f.mem), f.mem)

\* The sets a loop has finished with: P, X and cand.
DeleteAll(C, f) == delete_set(delete_set(delete_set(C, f.mem), f.mem), f.cmem)

-----------------------------------------------------------------------------
(***************************************************************************)
(* Tasks and frames.  mem is where P and X live, cmem where cand lives.    *)
(***************************************************************************)
Frame(r, p, x, gg, mem, pc) ==
  [R |-> r, P |-> p, X |-> x, cand |-> {}, gg |-> gg,
   mem |-> mem, cmem |-> Heap, pc |-> pc]

Task(parent, newGraph, ref, stack) ==
  [parent |-> parent, NewGraph |-> newGraph, ref |-> ref, stack |-> stack]

NewTask(parent, newGraph, f) == Task(parent, newGraph, 0, <<f>>)

WithStack(T, t, s) == [T EXCEPT ![t] = Task(@.parent, @.NewGraph, @.ref, s)]
WithRef(T, t, n) == [T EXCEPT ![t] = Task(@.parent, @.NewGraph, n, @.stack)]

top(t) == Last(tasks[t].stack)
depth(t) == Len(tasks[t].stack)

\* Replace the running frame.
SetTop(T, t, f) == WithStack(T, t, [T[t].stack EXCEPT ![Len(T[t].stack)] = f])

\* Mutant of BecomeContinuation: the task keeps waiting for itself.
ContinuationKeepsCount(T, t) ==
  WithStack(T, t, <<[T[t].stack[1] EXCEPT !.pc = "cont"]>>)

(***************************************************************************)
(* The task's own call is over: recycle_as_safe_continuation.  The task    *)
(* runs again, as its continuation, when the count drops to 0: its own     *)
(* share is given back when execute returns, the others by its children.   *)
(***************************************************************************)
BecomeContinuation(T, t) ==
  WithRef(WithStack(T, t, <<[T[t].stack[1] EXCEPT !.pc = "cont"]>>), t, T[t].ref - 1)

\* The running call is over.
Return(T, t) ==
  IF Len(T[t].stack) = 1 THEN BecomeContinuation(T, t)
  ELSE WithStack(T, t, Front(T[t].stack))

-----------------------------------------------------------------------------
Init ==
  /\ graph \in Graphs
  /\ opt \in Options
  /\ root = [pc |-> "spawn", todo |-> V, ref |-> 1 + Cardinality(V)]
  /\ tasks = << >>
  /\ guards = [k \in {Main} |-> Guard(1, graph.adj, -1)]
  /\ chunks = << >>
  /\ reported = {}
  /\ hist = [k \in 1..Cardinality(V) |-> 0]

(***************************************************************************)
(* RootIterBKTask::SpawnTask: the parallel_for spawns one task per vertex, *)
(* in any order; the first may be over before the last is spawned.         *)
(***************************************************************************)
RootSpawn(v) ==
  /\ root.pc = "spawn" /\ v \in root.todo
  /\ root' = [root EXCEPT !.todo = @ \ {v}]
  /\ tasks' = Put(tasks, {v},
                  NewTask(Main, Sub # 0, Frame({v}, {}, {}, Main, Heap, "new")))
  /\ UNCHANGED <<graph, opt, guards, chunks, reported, hist>>

RootWait ==
  /\ root.pc = "spawn" /\ root.todo = {}
  /\ root' = [root EXCEPT !.pc = "cont", !.ref = @ - 1]
  /\ UNCHANGED <<graph, opt, memory, reported, hist>>

\* The continuation of the root task, after which BronKerboschDegeneracy
\* deletes the guard of the input graph.
RootContinuation ==
  /\ root.pc = "cont" /\ root.ref = 0
  /\ root' = [root EXCEPT !.pc = "done"]
  /\ guards' = Drop(guards, Main)
  /\ UNCHANGED <<graph, opt, tasks, chunks, reported, hist>>

\* SpawnTask of a task without parent begins with create_root_sets.
create_root_sets(t) ==
  /\ top(t).pc = "new"
  /\ \E v \in top(t).R :
       LET P == {u \in Adj(guards, Main, v) : Later(graph, opt, u, v)}
           X == Adj(guards, Main, v) \ P
       IN  tasks' = SetTop(tasks, t, Frame({v}, P, X, Main, Heap, "start"))
  /\ UNCHANGED <<graph, opt, root, guards, chunks, reported, hist>>

-----------------------------------------------------------------------------
isRootSg(t) == tasks[t].parent = Main /\ depth(t) = 1

\* set_ref_count(1), which SpawnTask does after the task's own StartTask.
Started(t) == IF depth(t) = 1 THEN WithRef(tasks, t, 1) ELSE tasks

(***************************************************************************)
(* StartTask with P empty.                                                 *)
(***************************************************************************)
StartTaskExit(t) ==
  LET f == top(t) IN
  /\ f.pc = "start" /\ f.P = {}
  /\ IF f.X = {}
     THEN /\ reported' = reported \union {f.R}
          /\ hist' = [hist EXCEPT ![Cardinality(f.R)] = @ + 1]
     ELSE UNCHANGED <<reported, hist>>
  /\ chunks' = delete_set(delete_set(chunks, f.mem), f.mem)
  /\ guards' = IF (Sub = 3 \/ (Sub = 2 /\ depth(t) = 1)) /\ ~isRootSg(t)
               THEN dec_graph_ref_count(guards, f.gg)
               ELSE guards
  /\ tasks' = LET T == IF depth(t) = 1
                       THEN [tasks EXCEPT ![t] = Task(@.parent, FALSE, 1, @.stack)]
                       ELSE tasks
              IN  Return(T, t)
  /\ UNCHANGED <<graph, opt, root>>

\* --max-clq, as in BronKerbosch.
Limited(f) == opt.max_clq_size >= 0 /\ Cardinality(f.R) >= opt.max_clq_size

\* StartTask stopped by --max-clq: nothing is given back.
StartTaskCut(t) ==
  LET f == top(t) IN
  /\ f.pc = "start" /\ f.P # {}
  /\ Limited(f)
  /\ tasks' = Return(Started(t), t)
  /\ UNCHANGED <<graph, opt, root, guards, chunks, reported, hist>>

\* Mutant of createGraph: -s 1 is forgotten.
createGraphPerTask(t) ==
  (Sub = 2 /\ depth(t) = 1 /\ tasks[t].NewGraph) \/ Sub = 3

createGraph(t) ==
  \/ Sub = 1 /\ isRootSg(t)
  \/ Sub = 2 /\ depth(t) = 1 /\ tasks[t].NewGraph
  \/ Sub = 3

\* The subgraph of f replaces the graph f has used so far.
WithSubgraph(t, f, pivot) ==
  Put(IF ~isRootSg(t) /\ Sub # 1 THEN dec_graph_ref_count(guards, f.gg) ELSE guards,
      f.R, Guard(1, HpxAdj(guards, f), pivot))

(***************************************************************************)
(* StartTask: create the subgraph, choose the pivot, make cand.  A pivot   *)
(* of -1 fails the assertion: the program stops.                           *)
(***************************************************************************)
StartTaskOpen(t) ==
  LET f == top(t) IN
  /\ f.pc = "start" /\ f.P # {}
  /\ ~Limited(f)
  /\ \E node \in IF createGraph(t) THEN HpxPivots(guards, f) ELSE {-1} :
       LET gg == IF createGraph(t) THEN f.R ELSE f.gg
           h == [f EXCEPT !.gg = gg]
           G == IF createGraph(t) THEN WithSubgraph(t, f, node) ELSE guards
           usesNode == (tasks[t].NewGraph /\ depth(t) = 1) \/ Sub = 3
       IN  \E pivot \in IF usesNode THEN {G[gg].pivot_node} ELSE GetPivots(G, h) :
             /\ guards' = G
             /\ IF pivot = -1
                THEN /\ tasks' = SetTop(tasks, t, [f EXCEPT !.pc = "assert"])
                     /\ UNCHANGED chunks
                ELSE /\ tasks' = SetTop(Started(t), t,
                          [h EXCEPT !.pc = "loop", !.cmem = Owner(t, f),
                                    !.cand = f.P \ Adj(G, gg, pivot)])
                     /\ chunks' = allocate(chunks, Owner(t, f), 1)
  /\ UNCHANGED <<graph, opt, root, reported, hist>>

-----------------------------------------------------------------------------
\* Mutant of ReleasesGraph: SequentialRun does not release its subgraph.
ReleasesOwnGraph(t) == depth(t) = 1 /\ (Sub = 3 \/ (Sub = 2 /\ tasks[t].NewGraph))

\* SpawnTask and SequentialRun release the graph of a finished loop.
ReleasesGraph(t) == Sub = 3 \/ (depth(t) = 1 /\ Sub = 2 /\ tasks[t].NewGraph)

AfterLoop(G, t, f) == IF ReleasesGraph(t) THEN dec_graph_ref_count(G, f.gg) ELSE G

(***************************************************************************)
(* LoopIteration with v: the child call is on R + v.                       *)
(***************************************************************************)
ChildFrame(t, f, v) ==
  Frame(f.R \union {v}, f.P \intersect Adj(guards, f.gg, v),
        f.X \intersect Adj(guards, f.gg, v), f.gg, Owner(t, f), "start")

\* Mutant of Iterated: v is not added to X.
IteratedNotAdded(f, v) == [f EXCEPT !.P = @ \ {v}, !.cand = @ \ {v}]

Iterated(f, v) ==
  [f EXCEPT !.P = @ \ {v}, !.X = @ \union {v}, !.cand = @ \ {v}]

RunInPlace(c) == Cardinality(c.P) + Cardinality(c.X) < opt.PX_threshold

\* A small child call is run in place.
LoopIterationSequential(t, v) ==
  LET f == top(t)
      c == ChildFrame(t, f, v)
  IN
  /\ f.pc = "loop" /\ v \in f.cand
  /\ RunInPlace(c)
  /\ tasks' = LET T == SetTop(tasks, t, Iterated(f, v))
              IN  WithStack(T, t, Append(T[t].stack, c))
  /\ guards' = IF Sub = 3 THEN inc_graph_ref_count(guards, f.gg) ELSE guards
  /\ chunks' = allocate(chunks, Owner(t, f), 2)
  /\ UNCHANGED <<graph, opt, root, reported, hist>>

(***************************************************************************)
(* A large child call becomes a task, and the count of the parent goes up. *)
(* SequentialRun spawns it at once; SpawnTask returns it from execute,     *)
(* after the end of the loop if v was the last candidate.                  *)
(***************************************************************************)
LoopIterationSpawn(t, v) ==
  LET f == top(t)
      c == ChildFrame(t, f, v)
      rest == Iterated(f, v)
      T == Put(WithRef(SetTop(tasks, t, rest), t, tasks[t].ref + 1),
               c.R, NewTask(t, Sub > 1, c))
      G == IF Sub > 1 THEN inc_graph_ref_count(guards, f.gg) ELSE guards
      C == allocate(chunks, Owner(t, f), 2)
      last == depth(t) = 1 /\ rest.cand = {}
  IN
  /\ f.pc = "loop" /\ v \in f.cand
  /\ ~RunInPlace(c)
  /\ tasks' = IF last THEN Return(T, t) ELSE T
  /\ guards' = IF last THEN AfterLoop(G, t, rest) ELSE G
  /\ chunks' = IF last THEN DeleteAll(C, rest) ELSE C
  /\ UNCHANGED <<graph, opt, root, reported, hist>>

\* The end of the loop in SpawnTask or SequentialRun.
LoopEnd(t) ==
  LET f == top(t) IN
  /\ f.pc = "loop" /\ f.cand = {}
  /\ chunks' = DeleteAll(chunks, f)
  /\ guards' = AfterLoop(guards, t, f)
  /\ tasks' = Return(tasks, t)
  /\ UNCHANGED <<graph, opt, root, reported, hist>>

(***************************************************************************)
(* The continuation of a task; TBB then destroys the task and decrements   *)
(* the count of its parent.                                                *)
(***************************************************************************)
Continuation(t) ==
  LET f == top(t)
      parent == tasks[t].parent
  IN
  /\ f.pc = "cont" /\ tasks[t].ref = 0
  /\ guards' = IF Sub = 1 /\ tasks[t].NewGraph
               THEN dec_graph_ref_count(guards, f.gg) ELSE guards
  /\ chunks' = Drop(chunks, t)
  /\ IF parent = Main
     THEN /\ root' = [root EXCEPT !.ref = @ - 1]
          /\ tasks' = Drop(tasks, t)
     ELSE /\ tasks' = Drop(WithRef(tasks, parent, tasks[parent].ref - 1), t)
          /\ UNCHANGED root
  /\ UNCHANGED <<graph, opt, reported, hist>>

\* The program has ended, or stopped at the assertion.
Aborted == \E t \in DOMAIN tasks : top(t).pc = "assert"

Terminated == (root.pc = "done" \/ Aborted) /\ UNCHANGED vars

TaskStep(t) ==
  \/ create_root_sets(t)
  \/ StartTaskExit(t) \/ StartTaskCut(t) \/ StartTaskOpen(t)
  \/ \E v \in top(t).cand : LoopIterationSequential(t, v) \/ LoopIterationSpawn(t, v)
  \/ LoopEnd(t)
  \/ Continuation(t)

Next ==
  \/ ~Aborted /\ \E v \in V : RootSpawn(v)
  \/ ~Aborted /\ RootWait
  \/ ~Aborted /\ RootContinuation
  \/ ~Aborted /\ \E t \in DOMAIN tasks : TaskStep(t)
  \/ Terminated

Spec == Init /\ [][Next]_vars

\* TBB keeps a worker busy as long as there is a task to run.
FairSpec == Spec /\ WF_vars(Next)

-----------------------------------------------------------------------------
Pcs == {"new", "start", "loop", "cont", "assert"}

FrameType ==
  [R : SUBSET V, P : SUBSET V, X : SUBSET V, cand : SUBSET V, gg : SUBSET V,
   mem : SUBSET V, cmem : SUBSET V, pc : Pcs]

\* Types of the variables.
TypeOK ==
  /\ graph \in Graphs /\ opt \in Options
  /\ root \in [pc : {"spawn", "cont", "done"}, todo : SUBSET V,
               ref : 0..(1 + Cardinality(V))]
  /\ DOMAIN tasks \subseteq SUBSET V
  /\ \A t \in DOMAIN tasks :
       /\ tasks[t].parent \in SUBSET V /\ tasks[t].NewGraph \in BOOLEAN
       /\ tasks[t].ref \in Nat
       /\ tasks[t].stack # << >>
       /\ \A i \in DOMAIN tasks[t].stack : tasks[t].stack[i] \in FrameType
  /\ DOMAIN guards \subseteq SUBSET V
  /\ \A k \in DOMAIN guards : guards[k].ref \in Nat \ {0}
  /\ DOMAIN chunks \subseteq SUBSET V
  /\ \A t \in DOMAIN chunks : chunks[t] \in Nat
  /\ reported \subseteq SUBSET V
  /\ hist \in [1..Cardinality(V) -> Nat]

\* Every frame of every task, as a pair of the task and a position.
Frames == UNION {{t} \X DOMAIN tasks[t].stack : t \in DOMAIN tasks}
At(x) == tasks[x[1]].stack[x[2]]

InCall(x) == At(x).pc \in {"new", "start", "loop"}

(***************************************************************************)
(* No graph is used after it was deleted: a call that will still look at   *)
(* its graph, or release it, finds it alive, whatever tasks that shared    *)
(* the graph have ended before.                                            *)
(***************************************************************************)
GuardAlive ==
  /\ \A x \in Frames :
       InCall(x) \/ (At(x).pc = "cont" /\ Sub = 1 /\ tasks[x[1]].NewGraph)
         => At(x).gg \in DOMAIN guards
  /\ root.pc # "done" => Main \in DOMAIN guards

(***************************************************************************)
(* The count of a subgraph is the number of calls that will release it,    *)
(* never more: it is deleted with the last of them.  Which calls these are *)
(* depends on -s; the graph of the program itself is never counted.        *)
(* With --max-clq a stopped call never releases its graph.                 *)
(***************************************************************************)
Holders(k) ==
  {x \in Frames :
     /\ At(x).gg = k
     /\ \/ Sub = 1 /\ x[2] = 1 /\ tasks[x[1]].NewGraph
        \/ Sub = 2 /\ x[2] = 1 /\ InCall(x)
        \/ Sub = 3 /\ InCall(x)}

GuardRefs ==
  \A k \in DOMAIN guards :
    IF k = Main THEN guards[k].ref = 1
    ELSE IF opt.max_clq_size < 0 THEN guards[k].ref = Cardinality(Holders(k))
    ELSE guards[k].ref >= Cardinality(Holders(k))

(***************************************************************************)
(* The TBB reference counts: the children that are alive, and one more for *)
(* a task that is not yet a continuation.  So no task is destroyed, and no *)
(* continuation run, before all of its children are gone.                  *)
(***************************************************************************)
Children(t) == {u \in DOMAIN tasks : tasks[u].parent = t}

TaskRefs ==
  /\ \A t \in DOMAIN tasks :
       /\ tasks[t].parent # Main => tasks[t].parent \in DOMAIN tasks
       /\ LET f == tasks[t].stack[1]
          IN  tasks[t].ref = Cardinality(Children(t)) + (IF f.pc = "loop" THEN 1 ELSE 0)
  /\ root.ref = Cardinality(Children(Main)) + Cardinality(root.todo)
                  + (IF root.pc = "spawn" THEN 1 ELSE 0)

(***************************************************************************)
(* A pool counts the sets that live in it: its blocks are freed, at 0, only*)
(* when none is left, and it exists as long as there is one.               *)
(***************************************************************************)
SetsIn(t) ==
  ({x \in Frames : At(x).mem = t /\ At(x).pc \in {"start", "loop"}} \X {"P", "X"})
    \union
  ({x \in Frames : At(x).cmem = t /\ At(x).pc = "loop"} \X {"cand"})

ChunkCounts ==
  /\ \A x \in Frames : At(x).pc \in {"start", "loop"} =>
       At(x).mem = Heap \/ At(x).mem \in DOMAIN chunks
  /\ \A t \in DOMAIN chunks :
       IF opt.max_clq_size < 0 THEN chunks[t] = Cardinality(SetsIn(t))
       ELSE chunks[t] >= Cardinality(SetsIn(t))

(***************************************************************************)
(* Only the task that owns a pool has sets in it, so that the unlocked     *)
(* counters are never updated by two threads.  SafeThresholds is tight: it *)
(* allows the smallest --thresh for which this holds.                      *)
(***************************************************************************)
ChunkPrivate ==
  \A x \in Frames : At(x).pc \in {"start", "loop"} =>
    At(x).mem \in {Heap, x[1]} /\ At(x).cmem \in {Heap, x[1]}

\* A pool is deleted only when no set is left in it, else its blocks leak.
ChunkDeletedEmpty ==
  [][opt.max_clq_size < 0 =>
       \A t \in DOMAIN chunks \ DOMAIN chunks' : chunks[t] = 0]_vars

\* Nothing is left when the program ends: no task, no subgraph, no pool.
NothingLeft ==
  root.pc = "done" =>
    /\ tasks = << >> /\ chunks = << >>
    /\ opt.max_clq_size < 0 => guards = << >>

\* The assertion of StartTask: a pivot has been found.
PivotFound == ~Aborted

\* The root task comes to its end, whatever the schedule.
TasksTerminate == <>(root.pc = "done")

(***************************************************************************)
(* The tasks implement the recursion: forget which call is run by which    *)
(* task, which graph it reads and where its sets are.                      *)
(***************************************************************************)
RootCallOf(v) ==
  [R |-> {v}, P |-> RootP(graph, opt, v), X |-> RootX(graph, opt, v),
   cand |-> {}, pc |-> "start"]

CallOf(f) == [R |-> f.R, P |-> f.P, X |-> f.X, cand |-> f.cand, pc |-> f.pc]

IsNew(v) == {v} \in DOMAIN tasks /\ tasks[{v}].stack[1].pc = "new"

LiveCalls ==
  {RootCallOf(v) : v \in {w \in V : w \in root.todo \/ IsNew(w)}}
    \union
  UNION {{CallOf(f) : f \in {g \in ToSet(tasks[t].stack) : g.pc = "start" \/ g.cand # {}}} :
           t \in DOMAIN tasks}

Recursion == INSTANCE BronKerbosch WITH calls <- LiveCalls

ImplementsRecursion == Recursion!Spec
=============================================================================
