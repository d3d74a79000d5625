--------------------------- MODULE BKTasks_proofs ---------------------------
(***************************************************************************)
(* Correctness of the parallel execution, for every graph, every number of *)
(* tasks, every schedule and every command line that is not Faulty: the    *)
(* reference counts of tasks, subgraphs and pools are right, nothing is    *)
(* used after it was deleted, nothing is left at the end, and the tasks    *)
(* implement the Bron-Kerbosch recursion.                                  *)
(*                                                                         *)
(* Most of the invariant is about frames alone.  It is stated for a `view' *)
(* E of the tasks: a function from sites, pairs of a task and a position   *)
(* in its stack, to frames.  A root task that is not spawned yet has a     *)
(* site as well, with the frame it will be spawned with, so that spawning  *)
(* it does not change the view.                                            *)
(***************************************************************************)
EXTENDS BKTasks, FiniteSetTheorems, WellFoundedInduction, TLAPS

-----------------------------------------------------------------------------
(***************************************************************************)
(* The inductive invariant.                                                *)
(***************************************************************************)
RootFrame(r) == Frame(r, {}, {}, Main, Heap, "new")

Sites(T, todo) ==
  (UNION {{t} \X DOMAIN T[t].stack : t \in DOMAIN T}) \union {<<{v}, 1>> : v \in todo}

FrameAt(T, x) == IF x[1] \in DOMAIN T THEN T[x[1]].stack[x[2]] ELSE RootFrame(x[1])

View(T, todo) == [x \in Sites(T, todo) |-> FrameAt(T, x)]

\* The call is not over.
Active(f) == f.pc \in {"new", "start", "loop"}

\* The site of the own call of a root task.
IsRoot(x) == x[2] = 1 /\ \E v \in V : x[1] = {v}

IsFcn(f) == f = [x \in DOMAIN f |-> f[x]]

\* What every frame is like, whatever the other frames are.
FrameSound(x, f) ==
  /\ f \in FrameType
  /\ f.R # {} /\ f.P \intersect f.R = {} /\ f.cand \subseteq f.P
  /\ x[1] \subseteq f.R /\ (x[2] = 1 => f.R = x[1])
  /\ f.pc # "assert"
  /\ f.pc # "loop" => f.cand = {}
  /\ f.pc = "new" => IsRoot(x) /\ f = RootFrame(x[1])

FramesSound(E) ==
  /\ IsFiniteSet(DOMAIN E)
  /\ \A x \in DOMAIN E : x[1] \in SUBSET V /\ FrameSound(x, E[x])

(***************************************************************************)
(* The cliques a frame may still reach lie within its span.  No two frames *)
(* are within the span of each other: this is why the name of a new task   *)
(* is new.                                                                 *)
(***************************************************************************)
Span(g, o, f) ==
  IF f.pc = "new" THEN f.R \union (UNION {RootP(g, o, v) : v \in f.R}) ELSE f.R \union f.P

Apart(g, o, e, f) == ~(e.R \subseteq Span(g, o, f) /\ f.R \subseteq Span(g, o, e))

FramesApart(E, g, o) == \A x, y \in DOMAIN E : x # y => Apart(g, o, E[x], E[y])

\* A subgraph has the name of a clique that no frame will come to again,
\* even if --max-clq has left the subgraph behind.
NamesApart(E, G, g, o) ==
  \A k \in DOMAIN G \ {Main}, x \in DOMAIN E :
    E[x].R \subseteq k /\ k \subseteq Span(g, o, E[x])
      => E[x].R = k /\ E[x].pc \notin {"new", "start"}

(***************************************************************************)
(* The graph of an active frame is alive and has the edges of the input    *)
(* graph that the frame will look at: those of P, and those from X to P.   *)
(***************************************************************************)
SeesGraph(G, g, f) ==
  /\ f.gg \in DOMAIN G
  /\ \A v \in f.P :
       Adj(G, f.gg, v) \intersect (f.P \union f.X) = g.adj[v] \intersect (f.P \union f.X)
  /\ \A v \in f.X : Adj(G, f.gg, v) \intersect f.P = g.adj[v] \intersect f.P

FramesSee(E, G, g) == \A x \in DOMAIN E : Active(E[x]) => SeesGraph(G, g, E[x])

\* Which graph a frame uses, for each -s.
GraphUse(E, o) ==
  \A x \in DOMAIN E :
    LET f == E[x]
        s == o.subgraphBased
        unopened == IsRoot(x) /\ f.pc \in {"new", "start"}
    IN  /\ unopened => f.gg = Main
        /\ s = 0 => f.gg = Main
        /\ s \in {1, 2} => f.gg = E[<<x[1], 1>>].gg
        /\ s = 1 /\ IsRoot(x) => f.gg \in {Main, x[1]} /\ (f.pc = "loop" => f.gg = x[1])
        /\ s \in {2, 3} /\ Active(f) /\ ~unopened => f.gg # Main

\* The frames that will release the subgraph k.
Holding(E, o, k) ==
  {x \in DOMAIN E :
     /\ E[x].gg = k
     /\ \/ o.subgraphBased = 1 /\ x = <<k, 1>>
        \/ o.subgraphBased = 2 /\ x[2] = 1 /\ Active(E[x])
        \/ o.subgraphBased = 3 /\ Active(E[x])}

CountOK(E, G, o, k) ==
  /\ G[k].ref >= Cardinality(Holding(E, o, k))
  /\ o.max_clq_size < 0 => G[k].ref = Cardinality(Holding(E, o, k))

GuardsExact(E, G, g, o) ==
  /\ IsFcn(G) /\ DOMAIN G \subseteq SUBSET V
  /\ \A k \in DOMAIN G : G[k].ref \in Nat \ {0}
  /\ Main \in DOMAIN G => G[Main].ref = 1 /\ G[Main].adj = g.adj
  /\ \A k \in DOMAIN G \ {Main} :
       /\ CountOK(E, G, o, k)
       /\ o.subgraphBased # 0
       /\ o.subgraphBased = 1 =>
            G[k].ref = 1 /\ <<k, 1>> \in DOMAIN E /\ E[<<k, 1>>].gg = k /\ IsRoot(<<k, 1>>)
  /\ o.subgraphBased = 1 =>
       \A x \in DOMAIN E : IsRoot(x) /\ E[x].gg = x[1] => x[1] \in DOMAIN G

\* The sites whose P and X, or whose cand, are in the pool of t.
SetsPooled(E, t) == {x \in DOMAIN E : E[x].mem = t /\ E[x].pc \in {"start", "loop"}}
CandsPooled(E, t) == {x \in DOMAIN E : E[x].cmem = t /\ E[x].pc = "loop"}

PoolSize(E, t) == 2 * Cardinality(SetsPooled(E, t)) + Cardinality(CandsPooled(E, t))

PoolsPrivate(E, C) ==
  \A x \in DOMAIN E :
    /\ E[x].pc \in {"start", "loop"} => E[x].mem \in {Heap} \union ({x[1]} \intersect DOMAIN C)
    /\ E[x].pc = "start" => E[x].cmem = Heap
    /\ E[x].pc = "loop" => E[x].cmem \in {Heap} \union ({x[1]} \intersect DOMAIN C)

PoolsExact(E, C, o) ==
  /\ IsFcn(C)
  /\ \A t \in DOMAIN C :
       /\ t \in (SUBSET V) \ {Heap} /\ <<t, 1>> \in DOMAIN E
       /\ C[t] \in Nat
       /\ C[t] >= PoolSize(E, t)
       /\ o.max_clq_size < 0 => C[t] = PoolSize(E, t)

\* All that the invariant says about the frames.
ViewOK(E, G, C, g, o) ==
  /\ FramesSound(E)
  /\ FramesApart(E, g, o)
  /\ NamesApart(E, G, g, o)
  /\ FramesSee(E, G, g)
  /\ GraphUse(E, o)
  /\ GuardsExact(E, G, g, o)
  /\ PoolsPrivate(E, C)
  /\ PoolsExact(E, C, o)

(***************************************************************************)
(* The tasks themselves: only the last frame of a stack is anything but in *)
(* its loop, a parent has begun its loop and has a smaller name.           *)
(***************************************************************************)
TaskSound(T, t) ==
  LET s == T[t].stack
      p == T[t].parent
  IN  /\ t \in (SUBSET V) \ {Main}
      /\ p \in SUBSET V /\ T[t].NewGraph \in BOOLEAN /\ T[t].ref \in Nat
      /\ s \in Seq(FrameType) /\ Len(s) >= 1
      /\ \A i \in 1..Len(s) : i < Len(s) => s[i].pc = "loop"
      /\ \A i \in 1..Len(s) : i > 1 => s[i].pc \in {"start", "loop"}
      /\ p = Main <=> IsRoot(<<t, 1>>)
      /\ p # Main => /\ p \in DOMAIN T /\ p \subseteq t /\ p # t
                     /\ T[p].stack[1].pc \in {"loop", "cont"}

TasksSound(T, todo) ==
  /\ IsFcn(T)
  /\ \A t \in DOMAIN T : TaskSound(T, t)
  /\ \A v \in todo : {v} \notin DOMAIN T

ChildrenOf(T, t) == {u \in DOMAIN T : T[u].parent = t}

RefExact(T, t) ==
  T[t].ref = Cardinality(ChildrenOf(T, t)) + (IF T[t].stack[1].pc = "loop" THEN 1 ELSE 0)

RefsExact(T, r) ==
  /\ \A t \in DOMAIN T : RefExact(T, t)
  /\ r.ref = Cardinality(ChildrenOf(T, Main)) + Cardinality(r.todo)
               + (IF r.pc = "spawn" THEN 1 ELSE 0)

\* NewGraph, and for -s 1 the graph that is handed down from a root task.
FlagOK(T, o, t) ==
  LET f == T[t].stack[1]
      s == o.subgraphBased
      p == T[t].parent
  IN  /\ s = 0 => ~T[t].NewGraph
      /\ s = 1 => T[t].NewGraph = (p = Main /\ (f.pc \in {"new", "start"} \/ f.gg = t))
      /\ s = 1 /\ p # Main => f.gg = T[p].stack[1].gg
      /\ s \in {2, 3} /\ Active(f) => T[t].NewGraph

FlagsOK(T, o) == \A t \in DOMAIN T : FlagOK(T, o, t)

RootOK(T, G, r) ==
  /\ r \in [pc : {"spawn", "cont", "done"}, todo : SUBSET V, ref : 0..(1 + Cardinality(V))]
  /\ r.pc # "spawn" => r.todo = {}
  /\ r.pc = "done" => DOMAIN T = {}
  /\ r.pc # "done" <=> Main \in DOMAIN G

Good(T, G, C, r, g, o) ==
  /\ RootOK(T, G, r)
  /\ TasksSound(T, r.todo)
  /\ RefsExact(T, r)
  /\ FlagsOK(T, o)
  /\ ViewOK(View(T, r.todo), G, C, g, o)

InputOK == graph \in Graphs /\ opt \in Options /\ ~Faulty(opt)
OutputOK == reported \subseteq SUBSET V /\ hist \in [1..Cardinality(V) -> Nat]

IInv ==
  /\ InputOK /\ OutputOK
  /\ Good(tasks, guards, chunks, root, graph, opt)

-----------------------------------------------------------------------------
(***************************************************************************)
(* Facts about the constants.                                              *)
(***************************************************************************)

\* A set of vertices is finite and has a size.
LEMMA VertexSets ==
  ASSUME NEW S \in SUBSET V
  PROVE  /\ IsFiniteSet(S)
         /\ Cardinality(S) \in Nat
         /\ \A U \in SUBSET S : /\ Cardinality(U) \in Nat
                                /\ Cardinality(U) <= Cardinality(S)
                                /\ U # S => Cardinality(U) < Cardinality(S)
  <1>1. IsFiniteSet(S)
    BY TaskVAssumption, FS_Subset
  <1>2. Cardinality(S) \in Nat
    BY <1>1, FS_CardinalityType
  <1>3. ASSUME NEW U \in SUBSET S
        PROVE  /\ Cardinality(U) \in Nat
               /\ Cardinality(U) <= Cardinality(S)
               /\ U # S => Cardinality(U) < Cardinality(S)
    <2>1. IsFiniteSet(U) /\ Cardinality(U) <= Cardinality(S)
      BY <1>1, FS_Subset
    <2>2. Cardinality(U) \in Nat
      BY <2>1, FS_CardinalityType
    <2>3. Cardinality(U) = Cardinality(S) => U = S
      BY <1>1, FS_Subset
    <2> QED BY <1>2, <2>1, <2>2, <2>3
  <1> QED BY <1>1, <1>2, <1>3

\* The edges of a graph, and what the order of the root sets makes of them.
LEMMA GraphFacts ==
  ASSUME NEW g \in Graphs
  PROVE  /\ g.adj \in [V -> SUBSET V]
         /\ \A u, v \in V : v \in g.adj[u] => u # v /\ u \in g.adj[v]
  BY TaskGraphsAssumption DEF IsSimpleGraph

\* Of two vertices at most one comes later than the other.
LEMMA LaterOneWay ==
  ASSUME NEW g \in Graphs, NEW o \in Options, NEW u \in V, NEW v \in V,
         Later(g, o, u, v)
  PROVE  ~Later(g, o, v, u)
  <1>1. u \in Int /\ v \in Int /\ g.pos[u] \in Nat /\ g.pos[v] \in Nat
    BY TaskGraphsAssumption, TaskVAssumption
  <1>2. g.adj[u] \in SUBSET V /\ g.adj[v] \in SUBSET V
    BY GraphFacts
  <1>3. Cardinality(g.adj[u]) \in Nat /\ Cardinality(g.adj[v]) \in Nat
    BY <1>2, VertexSets
  <1> QED BY <1>1, <1>3 DEF Later

-----------------------------------------------------------------------------
(***************************************************************************)
(* What the operations on tasks make of the view.                          *)
(***************************************************************************)
StacksOK(T) == \A t \in DOMAIN T : T[t].stack \in Seq(FrameType) /\ Len(T[t].stack) >= 1

\* The sites of a view, and the frames at them.
LEMMA SiteIff ==
  ASSUME NEW T, NEW todo, StacksOK(T)
  PROVE  /\ \A x \in Sites(T, todo) : x = <<x[1], x[2]>>
         /\ \A t, i : <<t, i>> \in Sites(T, todo)
                        <=> \/ t \in DOMAIN T /\ i \in 1..Len(T[t].stack)
                            \/ i = 1 /\ \E v \in todo : t = {v}
         /\ DOMAIN View(T, todo) = Sites(T, todo)
         /\ \A x \in Sites(T, todo) : View(T, todo)[x] = FrameAt(T, x)
  <1>1. \A t \in DOMAIN T : DOMAIN T[t].stack = 1..Len(T[t].stack)
    BY DEF StacksOK
  <1> DEFINE A == UNION {{t} \X DOMAIN T[t].stack : t \in DOMAIN T}
             B == {<<{v}, 1>> : v \in todo}
  <1>a. Sites(T, todo) = A \union B
    BY DEF Sites
  <1>b. \A x : x \in A <=> \E t \in DOMAIN T : x \in {t} \X DOMAIN T[t].stack
    OBVIOUS
  <1>c. \A x : x \in B <=> \E v \in todo : x = <<{v}, 1>>
    OBVIOUS
  <1> HIDE DEF A, B
  <1>2. ASSUME NEW x \in Sites(T, todo) PROVE x = <<x[1], x[2]>>
    <2>1. CASE x \in A
      <3>1. PICK t \in DOMAIN T : x \in {t} \X DOMAIN T[t].stack
        BY <1>b, <2>1
      <3> QED BY <3>1
    <2>2. CASE x \in B
      BY <1>c, <2>2
    <2> QED BY <1>a, <2>1, <2>2
  <1>3. ASSUME NEW t, NEW i
        PROVE  <<t, i>> \in Sites(T, todo)
                        <=> \/ t \in DOMAIN T /\ i \in 1..Len(T[t].stack)
                            \/ i = 1 /\ \E v \in todo : t = {v}
    <2>1. <<t, i>> \in A <=> t \in DOMAIN T /\ i \in 1..Len(T[t].stack)
      BY <1>1, <1>b
    <2>2. <<t, i>> \in B <=> i = 1 /\ \E v \in todo : t = {v}
      BY <1>c
    <2> QED BY <1>a, <2>1, <2>2
  <1> QED BY <1>2, <1>3 DEF View

\* Two views are equal if they have the same sites and the same frames.
LEMMA SameView ==
  ASSUME NEW T, NEW todo, NEW F, IsFcn(F), StacksOK(T),
         \A x \in DOMAIN F : x = <<x[1], x[2]>>,
         \A t, i : <<t, i>> \in Sites(T, todo) <=> <<t, i>> \in DOMAIN F,
         \A t, i : <<t, i>> \in DOMAIN F => FrameAt(T, <<t, i>>) = F[<<t, i>>]
  PROVE  View(T, todo) = F
  <1>1. \A x \in Sites(T, todo) : x = <<x[1], x[2]>>
    BY SiteIff
  <1>2. Sites(T, todo) = DOMAIN F
    <2>1. \A x \in Sites(T, todo) : x \in DOMAIN F
      BY <1>1
    <2>2. \A x \in DOMAIN F : x \in Sites(T, todo)
      OBVIOUS
    <2> QED BY <2>1, <2>2
  <1>3. \A x \in DOMAIN F : FrameAt(T, x) = F[x]
    OBVIOUS
  <1> QED BY <1>2, <1>3 DEF View, IsFcn

\* The running frame of t is replaced.
LEMMA ViewReplace ==
  ASSUME NEW T, NEW todo, StacksOK(T), NEW T2, NEW t \in DOMAIN T, NEW f \in FrameType,
         DOMAIN T2 = DOMAIN T,
         \A u \in DOMAIN T : u # t => T2[u].stack = T[u].stack,
         T2[t].stack = [T[t].stack EXCEPT ![Len(T[t].stack)] = f]
  PROVE  /\ StacksOK(T2)
         /\ View(T2, todo) = [View(T, todo) EXCEPT ![<<t, Len(T[t].stack)>>] = f]
         /\ <<t, Len(T[t].stack)>> \in DOMAIN View(T, todo)
  <1> DEFINE n == Len(T[t].stack)
             F == [View(T, todo) EXCEPT ![<<t, n>>] = f]
  <1>0. n \in Nat /\ n >= 1 /\ Len(T2[t].stack) = n
    BY DEF StacksOK
  <1>1. StacksOK(T2)
    BY DEF StacksOK
  <1>2. ASSUME NEW s, NEW i
        PROVE  <<s, i>> \in Sites(T2, todo) <=> <<s, i>> \in Sites(T, todo)
    <2>1. s \in DOMAIN T => Len(T2[s].stack) = Len(T[s].stack)
      BY <1>0
    <2> QED BY <1>1, <2>1, SiteIff
  <1>3. DOMAIN F = Sites(T, todo) /\ IsFcn(F)
    BY SiteIff DEF IsFcn
  <1>4. \A x \in DOMAIN F : x = <<x[1], x[2]>>
    BY <1>3, SiteIff
  <1>5. ASSUME NEW s, NEW i, <<s, i>> \in DOMAIN F
        PROVE  FrameAt(T2, <<s, i>>) = F[<<s, i>>]
    <2>1. F[<<s, i>>] = IF <<s, i>> = <<t, n>> THEN f ELSE FrameAt(T, <<s, i>>)
      BY <1>3, <1>5, SiteIff
    <2>2. CASE s # t
      BY <2>1, <2>2 DEF FrameAt
    <2>3. CASE s = t
      <3>1. i \in 1..n
        BY <1>0, <1>3, <1>5, <2>3, SiteIff
      <3>2. T2[t].stack[i] = IF i = n THEN f ELSE T[t].stack[i]
        BY <3>1 DEF StacksOK
      <3> QED BY <2>1, <2>3, <3>2 DEF FrameAt
    <2> QED BY <2>2, <2>3
  <1>6. View(T2, todo) = F
    <2> HIDE DEF F
    <2> QED BY <1>1, <1>2, <1>3, <1>4, <1>5, SameView
  <1> QED BY <1>0, <1>1, <1>6, SiteIff

\* The same, for citing.
Restacked(T, T2, t, s) ==
  /\ t \in DOMAIN T /\ DOMAIN T2 = DOMAIN T
  /\ \A u \in DOMAIN T : u # t => T2[u].stack = T[u].stack
  /\ T2[t].stack = s

TopIs(s, f) == [s EXCEPT ![Len(s)] = f]
ViewWith(E, x, f) == [E EXCEPT ![x] = f]

\* A new frame on top of a stack is a new frame at one site of the view.
LEMMA ReplaceTop ==
  ASSUME NEW T, NEW todo, StacksOK(T), NEW T2, NEW t, NEW f \in FrameType,
         Restacked(T, T2, t, TopIs(T[t].stack, f))
  PROVE  View(T2, todo) = ViewWith(View(T, todo), <<t, Len(T[t].stack)>>, f)
  BY ViewReplace DEF Restacked, TopIs, ViewWith

\* The running frame of t, not its only one, returns.
LEMMA ViewPop ==
  ASSUME NEW T, NEW todo, StacksOK(T), NEW T2, NEW t \in DOMAIN T,
         \A v \in todo : {v} # t,
         Len(T[t].stack) > 1,
         DOMAIN T2 = DOMAIN T,
         \A u \in DOMAIN T : u # t => T2[u].stack = T[u].stack,
         T2[t].stack = Front(T[t].stack)
  PROVE  /\ StacksOK(T2)
         /\ View(T2, todo) = Drop(View(T, todo), <<t, Len(T[t].stack)>>)
  <1> DEFINE n == Len(T[t].stack)
             F == Drop(View(T, todo), <<t, n>>)
  <1>0. /\ n \in Nat /\ n > 1 /\ Len(T2[t].stack) = n - 1
        /\ T2[t].stack \in Seq(FrameType)
        /\ \A i \in 1..(n - 1) : T2[t].stack[i] = T[t].stack[i]
    BY DEF StacksOK, Front
  <1>1. StacksOK(T2)
    BY <1>0 DEF StacksOK
  <1>3. DOMAIN F = Sites(T, todo) \ {<<t, n>>} /\ IsFcn(F)
    BY SiteIff DEF IsFcn, Drop
  <1>2. ASSUME NEW s, NEW i
        PROVE  <<s, i>> \in Sites(T2, todo) <=> <<s, i>> \in DOMAIN F
    <2>1. CASE s = t
      BY <1>0, <1>1, <1>3, <2>1, SiteIff
    <2>2. CASE s # t
      <3>1. s \in DOMAIN T => T2[s].stack = T[s].stack
        BY <2>2
      <3> QED BY <1>1, <1>3, <2>2, <3>1, SiteIff
    <2> QED BY <2>1, <2>2
  <1>4. \A x \in DOMAIN F : x = <<x[1], x[2]>>
    BY <1>3, SiteIff
  <1>5. ASSUME NEW s, NEW i, <<s, i>> \in DOMAIN F
        PROVE  FrameAt(T2, <<s, i>>) = F[<<s, i>>]
    <2>1. F[<<s, i>>] = FrameAt(T, <<s, i>>)
      BY <1>3, <1>5, SiteIff DEF Drop
    <2>2. CASE s # t
      BY <2>1, <2>2 DEF FrameAt
    <2>3. CASE s = t
      <3>1. i \in 1..n /\ i # n
        BY <1>0, <1>3, <1>5, <2>3, SiteIff
      <3>2. T2[t].stack[i] = T[t].stack[i]
        BY <1>0, <3>1
      <3> QED BY <2>1, <2>3, <3>2 DEF FrameAt
    <2> QED BY <2>2, <2>3
  <1>6. View(T2, todo) = F
    <2> HIDE DEF F
    <2> QED BY <1>1, <1>2, <1>3, <1>4, <1>5, SameView
  <1> QED BY <1>1, <1>6

\* Task t starts a nested call.
LEMMA ViewPush ==
  ASSUME NEW T, NEW todo, StacksOK(T), NEW T2, NEW t \in DOMAIN T, NEW c \in FrameType,
         DOMAIN T2 = DOMAIN T,
         \A v \in todo : {v} # t,
         \A u \in DOMAIN T : u # t => T2[u].stack = T[u].stack,
         T2[t].stack = Append(T[t].stack, c)
  PROVE  /\ StacksOK(T2)
         /\ View(T2, todo) = Put(View(T, todo), <<t, Len(T[t].stack) + 1>>, c)
         /\ <<t, Len(T[t].stack) + 1>> \notin DOMAIN View(T, todo)
  <1> DEFINE n == Len(T[t].stack)
             y == <<t, n + 1>>
             F == Put(View(T, todo), y, c)
  <1>0. /\ n \in Nat /\ n >= 1 /\ Len(T2[t].stack) = n + 1
        /\ T2[t].stack \in Seq(FrameType)
        /\ \A i \in 1..n : T2[t].stack[i] = T[t].stack[i]
        /\ T2[t].stack[n + 1] = c
    BY DEF StacksOK
  <1>1. StacksOK(T2)
    <2> SUFFICES ASSUME NEW u \in DOMAIN T2
                 PROVE  T2[u].stack \in Seq(FrameType) /\ Len(T2[u].stack) >= 1
      BY DEF StacksOK
    <2>1. CASE u = t
      BY <1>0, <2>1, SMTT(30)
    <2>2. CASE u # t
      BY <2>2 DEF StacksOK
    <2> QED BY <2>1, <2>2
  <1>3. DOMAIN F = Sites(T, todo) \union {y} /\ IsFcn(F)
    BY SiteIff DEF IsFcn, Put
  <1>7. y \notin Sites(T, todo)
    BY <1>0, SiteIff
  <1>2. ASSUME NEW s, NEW i
        PROVE  <<s, i>> \in Sites(T2, todo) <=> <<s, i>> \in DOMAIN F
    <2>1. CASE s = t
      BY <1>0, <1>1, <1>3, <2>1, SiteIff
    <2>2. CASE s # t
      <3>1. s \in DOMAIN T => T2[s].stack = T[s].stack
        BY <2>2
      <3> QED BY <1>1, <1>3, <2>2, <3>1, SiteIff
    <2> QED BY <2>1, <2>2
  <1>4. \A x \in DOMAIN F : x = <<x[1], x[2]>>
    BY <1>3, SiteIff
  <1>5. ASSUME NEW s, NEW i, <<s, i>> \in DOMAIN F
        PROVE  FrameAt(T2, <<s, i>>) = F[<<s, i>>]
    <2>1. F[<<s, i>>] = IF <<s, i>> = y THEN c ELSE FrameAt(T, <<s, i>>)
      BY <1>3, <1>5, SiteIff DEF Put
    <2>2. CASE s # t
      BY <2>1, <2>2 DEF FrameAt
    <2>3. CASE s = t
      <3>1. i \in 1..(n + 1)
        BY <1>0, <1>3, <1>5, <2>3, SiteIff, SMTT(30)
      <3>2. T2[t].stack[i] = IF i = n + 1 THEN c ELSE T[t].stack[i]
        BY <1>0, <3>1
      <3> QED BY <2>1, <2>3, <3>2 DEF FrameAt
    <2> QED BY <2>2, <2>3
  <1>6. View(T2, todo) = F
    <2> HIDE DEF F
    <2> QED BY <1>1, <1>2, <1>3, <1>4, <1>5, SameView
  <1> QED BY <1>1, <1>6, <1>7, SiteIff

\* A task k is created, whose own call is c.
LEMMA ViewSpawn ==
  ASSUME NEW T, NEW todo, StacksOK(T), NEW T2, NEW k, NEW c \in FrameType,
         <<k, 1>> \notin DOMAIN View(T, todo),
         DOMAIN T2 = DOMAIN T \union {k},
         \A u \in DOMAIN T : T2[u].stack = T[u].stack,
         T2[k].stack = <<c>>
  PROVE  /\ StacksOK(T2) /\ k \notin DOMAIN T
         /\ View(T2, todo) = Put(View(T, todo), <<k, 1>>, c)
  <1> DEFINE F == Put(View(T, todo), <<k, 1>>, c)
  <1>0. k \notin DOMAIN T /\ \A v \in todo : {v} # k
    BY SiteIff DEF StacksOK
  <1>8. /\ T2[k].stack \in Seq(FrameType)
        /\ Len(T2[k].stack) = 1 /\ T2[k].stack[1] = c
    OBVIOUS
  <1>1. StacksOK(T2)
    <2> SUFFICES ASSUME NEW u \in DOMAIN T2
                 PROVE  T2[u].stack \in Seq(FrameType) /\ Len(T2[u].stack) >= 1
      BY DEF StacksOK
    <2>1. CASE u = k
      BY <1>8, <2>1, SMTT(30)
    <2>2. CASE u # k
      BY <2>2 DEF StacksOK
    <2> QED BY <2>1, <2>2
  <1>3. DOMAIN F = Sites(T, todo) \union {<<k, 1>>} /\ IsFcn(F)
    BY SiteIff DEF IsFcn, Put
  <1>2. ASSUME NEW s, NEW i
        PROVE  <<s, i>> \in Sites(T2, todo) <=> <<s, i>> \in DOMAIN F
    <2>1. CASE s = k
      BY <1>0, <1>1, <1>3, <2>1, SiteIff
    <2>2. CASE s # k
      BY <1>1, <1>3, <2>2, SiteIff
    <2> QED BY <2>1, <2>2
  <1>4. \A x \in DOMAIN F : x = <<x[1], x[2]>>
    BY <1>3, SiteIff
  <1>5. ASSUME NEW s, NEW i, <<s, i>> \in DOMAIN F
        PROVE  FrameAt(T2, <<s, i>>) = F[<<s, i>>]
    <2>1. F[<<s, i>>] = IF <<s, i>> = <<k, 1>> THEN c ELSE FrameAt(T, <<s, i>>)
      BY <1>3, <1>5, SiteIff DEF Put
    <2>2. CASE s # k
      BY <2>1, <2>2 DEF FrameAt
    <2>3. CASE s = k
      <3>1. i = 1
        BY <1>0, <1>3, <1>5, <2>3, SiteIff
      <3> QED BY <2>1, <2>3, <3>1 DEF FrameAt
    <2> QED BY <2>2, <2>3
  <1>6. View(T2, todo) = F
    <2> HIDE DEF F
    <2> QED BY <1>1, <1>2, <1>3, <1>4, <1>5, SameView
  <1> QED BY <1>0, <1>1, <1>6

\* A root task is spawned: the view has had it before.
RootSpawns(T, T2, todo, v) ==
  /\ v \in todo
  /\ \A w \in todo : {w} \notin DOMAIN T
  /\ RootFrame({v}) \in FrameType
  /\ DOMAIN T2 = DOMAIN T \union {{v}}
  /\ \A u \in DOMAIN T : T2[u].stack = T[u].stack
  /\ T2[{v}].stack = <<RootFrame({v})>>

\* Spawning a root task leaves the view as it is.
LEMMA ViewRootSpawn ==
  ASSUME NEW T, NEW todo, StacksOK(T), NEW T2, NEW v, RootSpawns(T, T2, todo, v)
  PROVE  View(T2, todo \ {v}) = View(T, todo)
  <1>0. /\ v \in todo
        /\ \A w \in todo : {w} \notin DOMAIN T
        /\ RootFrame({v}) \in FrameType
        /\ DOMAIN T2 = DOMAIN T \union {{v}}
        /\ \A u \in DOMAIN T : T2[u].stack = T[u].stack
        /\ T2[{v}].stack = <<RootFrame({v})>>
    BY DEF RootSpawns
  <1> USE <1>0
  <1> DEFINE F == View(T, todo)
  <1>8. /\ T2[{v}].stack \in Seq(FrameType)
        /\ Len(T2[{v}].stack) = 1 /\ T2[{v}].stack[1] = RootFrame({v})
        /\ Len(T2[{v}].stack) >= 1
    OBVIOUS
  <1>1. StacksOK(T2)
    <2> SUFFICES ASSUME NEW u \in DOMAIN T2
                 PROVE  T2[u].stack \in Seq(FrameType) /\ Len(T2[u].stack) >= 1
      BY DEF StacksOK
    <2>1. CASE u = {v}
      BY <1>8, <2>1, Zenon
    <2>2. CASE u # {v}
      BY <2>2 DEF StacksOK
    <2> QED BY <2>1, <2>2
  <1>3. DOMAIN F = Sites(T, todo) /\ IsFcn(F)
    BY SiteIff DEF IsFcn, View
  <1>2. ASSUME NEW s, NEW i
        PROVE  <<s, i>> \in Sites(T2, todo \ {v}) <=> <<s, i>> \in DOMAIN F
    <2>1. CASE s = {v}
      <3>1. <<s, i>> \in Sites(T2, todo \ {v}) <=> i = 1
        <4>1. ~\E w \in todo \ {v} : {v} = {w}
          OBVIOUS
        <4>2. {v} \in DOMAIN T2 /\ (i \in 1..1 <=> i = 1)
          OBVIOUS
        <4> HIDE DEF F
        <4> QED BY <1>1, <1>8, <2>1, <4>1, <4>2, SiteIff, ZenonT(60)
      <3>2. <<s, i>> \in Sites(T, todo) <=> i = 1
        BY <2>1, SiteIff
      <3> QED BY <1>3, <3>1, <3>2
    <2>2. CASE s # {v}
      <3>1. s \in DOMAIN T <=> s \in DOMAIN T2
        BY <2>2
      <3>2. s \in DOMAIN T => T2[s].stack = T[s].stack
        OBVIOUS
      <3>3. (\E w \in todo \ {v} : s = {w}) <=> (\E w \in todo : s = {w})
        BY <2>2
      <3>4. <<s, i>> \in Sites(T2, todo \ {v})
              <=> \/ s \in DOMAIN T2 /\ i \in 1..Len(T2[s].stack)
                  \/ i = 1 /\ \E w \in todo \ {v} : s = {w}
        BY <1>1, SiteIff
      <3>5. <<s, i>> \in Sites(T, todo)
              <=> \/ s \in DOMAIN T /\ i \in 1..Len(T[s].stack)
                  \/ i = 1 /\ \E w \in todo : s = {w}
        BY SiteIff
      <3> HIDE DEF F
      <3> QED BY <1>3, <3>1, <3>2, <3>3, <3>4, <3>5
    <2> QED BY <2>1, <2>2
  <1>4. \A x \in DOMAIN F : x = <<x[1], x[2]>>
    BY <1>3, SiteIff
  <1>5. ASSUME NEW s, NEW i, <<s, i>> \in DOMAIN F
        PROVE  FrameAt(T2, <<s, i>>) = F[<<s, i>>]
    <2>1. F[<<s, i>>] = FrameAt(T, <<s, i>>)
      BY <1>3, <1>5, SiteIff
    <2>2. CASE s # {v}
      BY <2>1, <2>2 DEF FrameAt
    <2>3. CASE s = {v}
      <3>1. i = 1
        BY <1>3, <1>5, <2>3, SiteIff
      <3>2. {v} \notin DOMAIN T /\ {v} \in DOMAIN T2
        OBVIOUS
      <3> QED BY <1>8, <2>1, <2>3, <3>1, <3>2 DEF FrameAt
    <2> QED BY <2>2, <2>3
  <1>6. View(T2, todo \ {v}) = F
    <2> HIDE DEF F
    <2> QED BY <1>1, <1>2, <1>3, <1>4, <1>5, SameView
  <1> QED BY <1>1, <1>6

\* A task with one frame is destroyed.
LEMMA ViewDestroy ==
  ASSUME NEW T, NEW todo, StacksOK(T), NEW T2, NEW t \in DOMAIN T,
         \A v \in todo : {v} # t,
         Len(T[t].stack) = 1,
         DOMAIN T2 = DOMAIN T \ {t},
         \A u \in DOMAIN T2 : T2[u].stack = T[u].stack
  PROVE  /\ StacksOK(T2)
         /\ View(T2, todo) = Drop(View(T, todo), <<t, 1>>)
  <1> DEFINE F == Drop(View(T, todo), <<t, 1>>)
  <1>1. StacksOK(T2)
    BY DEF StacksOK
  <1>3. DOMAIN F = Sites(T, todo) \ {<<t, 1>>} /\ IsFcn(F)
    BY SiteIff DEF IsFcn, Drop
  <1>9. \A i : /\ <<t, i>> \notin Sites(T2, todo)
               /\ <<t, i>> \in Sites(T, todo) <=> i = 1
    <2>1. t \notin DOMAIN T2 /\ ~\E v \in todo : t = {v}
      OBVIOUS
    <2>2. \A i : i \in 1..1 <=> i = 1
      OBVIOUS
    <2> HIDE DEF F
    <2>3. \A i : <<t, i>> \notin Sites(T2, todo)
      BY <1>1, <2>1, SiteIff
    <2>4. \A i : <<t, i>> \in Sites(T, todo) <=> i \in 1..Len(T[t].stack)
      BY <2>1, SiteIff
    <2> QED BY <2>2, <2>3, <2>4
  <1>2. ASSUME NEW s, NEW i
        PROVE  <<s, i>> \in Sites(T2, todo) <=> <<s, i>> \in DOMAIN F
    <2>1. CASE s = t
      BY <1>3, <1>9, <2>1
    <2>2. CASE s # t
      <3>1. s \in DOMAIN T <=> s \in DOMAIN T2
        BY <2>2
      <3>2. s \in DOMAIN T2 => T2[s].stack = T[s].stack
        OBVIOUS
      <3> QED BY <1>1, <1>3, <2>2, <3>1, <3>2, SiteIff
    <2> QED BY <2>1, <2>2
  <1>4. \A x \in DOMAIN F : x = <<x[1], x[2]>>
    BY <1>3, SiteIff
  <1>5. ASSUME NEW s, NEW i, <<s, i>> \in DOMAIN F
        PROVE  FrameAt(T2, <<s, i>>) = F[<<s, i>>]
    <2>1. F[<<s, i>>] = FrameAt(T, <<s, i>>)
      BY <1>3, <1>5, SiteIff DEF Drop
    <2>2. s # t
      BY <1>3, <1>5, <1>9
    <2>3. s \in DOMAIN T2 <=> s \in DOMAIN T
      BY <2>2
    <2> QED BY <2>1, <2>3 DEF FrameAt
  <1>6. View(T2, todo) = F
    <2> HIDE DEF F
    <2> QED BY <1>1, <1>2, <1>3, <1>4, <1>5, SameView
  <1> QED BY <1>1, <1>6

-----------------------------------------------------------------------------
(***************************************************************************)
(* What the operations on guards and pools do.                             *)
(***************************************************************************)

\* A guard that is not touched by a step, but perhaps by its count.
Kept(G, G2, k) == k \in DOMAIN G2 /\ G2[k].adj = G[k].adj

\* A frame sees its graph as long as the graph is kept.
LEMMA KeptSees ==
  ASSUME NEW G, NEW G2, NEW g, NEW f, SeesGraph(G, g, f), Kept(G, G2, f.gg)
  PROVE  SeesGraph(G2, g, f)
  <1>1. \A v : Adj(G2, f.gg, v) = Adj(G, f.gg, v)
    BY DEF SeesGraph, Kept, Adj
  <1> QED BY <1>1 DEF SeesGraph, Kept

\* G2 is G after one more call holds k.
Shared(G, G2, k) ==
  /\ IsFcn(G2) /\ DOMAIN G2 = DOMAIN G
  /\ \A j \in DOMAIN G : G2[j].adj = G[j].adj /\ (j # k => G2[j] = G[j])
  /\ G2[k].ref = G[k].ref + 1

\* inc_graph_ref_count gives the graph one more holder.
LEMMA IncFacts ==
  ASSUME NEW G, NEW k \in DOMAIN G
  PROVE  Shared(G, inc_graph_ref_count(G, k), k)
  BY DEF Shared, inc_graph_ref_count, Counted, Guard, IsFcn

\* G2 is G after one of the calls that hold k has released it.
Released(G, G2, k) ==
  /\ IsFcn(G2)
  /\ G[k].ref = 1 => DOMAIN G2 = DOMAIN G \ {k}
  /\ G[k].ref # 1 => DOMAIN G2 = DOMAIN G /\ G2[k].ref = G[k].ref - 1
  /\ \A j \in DOMAIN G2 : G2[j].adj = G[j].adj /\ (j # k => G2[j] = G[j])

\* dec_graph_ref_count takes one holder away, and with the last one the graph.
LEMMA DecFacts ==
  ASSUME NEW G, NEW k \in DOMAIN G, G[k].ref \in Nat \ {0}
  PROVE  Released(G, dec_graph_ref_count(G, k), k)
  <1>1. CASE G[k].ref = 1
    <2>1. dec_graph_ref_count(G, k) = Drop(G, k)
      BY <1>1 DEF dec_graph_ref_count
    <2>2. /\ IsFcn(Drop(G, k)) /\ DOMAIN Drop(G, k) = DOMAIN G \ {k}
          /\ \A j \in DOMAIN G : j # k => Drop(G, k)[j] = G[j]
      BY DEF Drop, IsFcn
    <2> QED BY <1>1, <2>1, <2>2 DEF Released
  <1>2. CASE G[k].ref # 1
    <2>1. dec_graph_ref_count(G, k) = Counted(G, k, G[k].ref - 1)
      BY <1>2 DEF dec_graph_ref_count
    <2>2. /\ IsFcn(Counted(G, k, G[k].ref - 1))
          /\ DOMAIN Counted(G, k, G[k].ref - 1) = DOMAIN G
          /\ \A j \in DOMAIN G : Counted(G, k, G[k].ref - 1)[j].adj = G[j].adj
          /\ \A j \in DOMAIN G : j # k => Counted(G, k, G[k].ref - 1)[j] = G[j]
          /\ Counted(G, k, G[k].ref - 1)[k].ref = G[k].ref - 1
      BY DEF Counted, Guard, IsFcn
    <2> QED BY <1>2, <2>1, <2>2 DEF Released
  <1> QED BY <1>1, <1>2

\* Put sets one value and keeps the others.
LEMMA PutFacts ==
  ASSUME NEW f, NEW k, NEW w
  PROVE  /\ IsFcn(Put(f, k, w))
         /\ DOMAIN Put(f, k, w) = DOMAIN f \union {k}
         /\ Put(f, k, w)[k] = w
         /\ \A j \in DOMAIN f : j # k => Put(f, k, w)[j] = f[j]
  BY DEF Put, IsFcn

\* f2 is f with the value w at k.
Added(f, f2, k, w) ==
  /\ IsFcn(f2) /\ DOMAIN f2 = DOMAIN f \union {k}
  /\ f2[k] = w
  /\ \A j \in DOMAIN f : j # k => f2[j] = f[j]

\* Put, in the words of Added.
LEMMA PutAdds ==
  ASSUME NEW f, NEW k, NEW w
  PROVE  Added(f, Put(f, k, w), k, w)
  BY DEF Added, Put, IsFcn

\* Drop removes one key and keeps the values of the others.
LEMMA DropFacts ==
  ASSUME NEW f, NEW k
  PROVE  /\ IsFcn(Drop(f, k))
         /\ DOMAIN Drop(f, k) = DOMAIN f \ {k}
         /\ \A j \in DOMAIN f : j # k => Drop(f, k)[j] = f[j]
  BY DEF Drop, IsFcn

-----------------------------------------------------------------------------
(***************************************************************************)
(* Steps of one frame that give up part of its span, and those that give   *)
(* up a subgraph.                                                          *)
(***************************************************************************)
Narrows(E, E2, x, g, o) ==
  /\ DOMAIN E2 \subseteq DOMAIN E
  /\ \A y \in DOMAIN E2 : y # x => E2[y] = E[y]
  /\ x \in DOMAIN E2 =>
       /\ E2[x].R = E[x].R /\ Span(g, o, E2[x]) \subseteq Span(g, o, E[x])
       /\ E2[x].pc \in {"new", "start"} => E[x].pc \in {"new", "start"}

\* Frames whose spans shrink stay apart.
LEMMA NarrowsApart ==
  ASSUME NEW E, NEW E2, NEW x, NEW g, NEW o, Narrows(E, E2, x, g, o),
         FramesApart(E, g, o)
  PROVE  FramesApart(E2, g, o)
  <1> SUFFICES ASSUME NEW y \in DOMAIN E2, NEW z \in DOMAIN E2, y # z
               PROVE  Apart(g, o, E2[y], E2[z])
    BY DEF FramesApart
  <1>1. \A w \in DOMAIN E2 : /\ E2[w].R = E[w].R
                             /\ Span(g, o, E2[w]) \subseteq Span(g, o, E[w])
    BY DEF Narrows
  <1>2. Apart(g, o, E[y], E[z])
    BY DEF FramesApart, Narrows
  <1> QED BY <1>1, <1>2 DEF Apart

\* No name of a subgraph comes back into a span that shrinks.
LEMMA NarrowsNames ==
  ASSUME NEW E, NEW E2, NEW x, NEW g, NEW o, Narrows(E, E2, x, g, o),
         NEW G, NEW G2, DOMAIN G2 \subseteq DOMAIN G, NamesApart(E, G, g, o)
  PROVE  NamesApart(E2, G2, g, o)
  <1> SUFFICES ASSUME NEW k \in DOMAIN G2 \ {Main}, NEW y \in DOMAIN E2,
                      E2[y].R \subseteq k, k \subseteq Span(g, o, E2[y])
               PROVE  E2[y].R = k /\ E2[y].pc \notin {"new", "start"}
    BY DEF NamesApart
  <1>1. /\ E2[y].R = E[y].R /\ Span(g, o, E2[y]) \subseteq Span(g, o, E[y])
        /\ E2[y].pc \in {"new", "start"} => E[y].pc \in {"new", "start"}
        /\ y \in DOMAIN E /\ k \in DOMAIN G \ {Main}
    BY DEF Narrows
  <1>2. E[y].R = k /\ E[y].pc \notin {"new", "start"}
    BY <1>1 DEF NamesApart
  <1> QED BY <1>1, <1>2

\* A nested call runs within the loop of the task's own call.
Nested(E) ==
  \A y \in DOMAIN E : /\ y = <<y[1], y[2]>> /\ <<y[1], 1>> \in DOMAIN E
                      /\ y[2] # 1 => E[<<y[1], 1>>].pc = "loop"

\* The frame at x is the running frame of its task.
Running(E, x) == x[2] = 1 => \A y \in DOMAIN E : y[1] = x[1] => y = x

\* The holders of a graph can be counted.
LEMMA HoldingFinite ==
  ASSUME NEW E, IsFiniteSet(DOMAIN E), NEW o, NEW k
  PROVE  /\ IsFiniteSet(Holding(E, o, k))
         /\ Cardinality(Holding(E, o, k)) \in Nat
  <1>1. Holding(E, o, k) \in SUBSET DOMAIN E
    BY DEF Holding
  <1> QED BY <1>1, FS_Subset, FS_CardinalityType

(***************************************************************************)
(* A frame that releases its subgraph, with -s 2 or 3, deletes it only if  *)
(* no other frame needs it.                                                *)
(***************************************************************************)
LEMMA ReleaseSafe ==
  ASSUME NEW E, NEW G, NEW g, NEW o, GuardsExact(E, G, g, o), GraphUse(E, o),
         FramesSound(E), FramesSee(E, G, g), Nested(E),
         NEW x \in DOMAIN E, Running(E, x), Active(E[x]), E[x].gg # Main,
         o.subgraphBased = 3 \/ (o.subgraphBased = 2 /\ x[2] = 1)
  PROVE  /\ E[x].gg \in DOMAIN G
         /\ x \in Holding(E, o, E[x].gg)
         /\ \A y \in DOMAIN E :
              y # x /\ Active(E[y]) /\ E[y].gg = E[x].gg => G[E[x].gg].ref # 1
  <1> DEFINE k == E[x].gg
             H == Holding(E, o, k)
  <1>1. k \in DOMAIN G
    BY DEF FramesSee, SeesGraph
  <1>2. x \in H
    BY DEF Holding
  <1>3. ASSUME NEW y \in DOMAIN E, y # x, Active(E[y]), E[y].gg = k, G[k].ref = 1
        PROVE  FALSE
    <2>1. IsFiniteSet(H) /\ Cardinality(H) \in Nat
      BY HoldingFinite DEF FramesSound
    <2>2. Cardinality(H) <= 1
      BY <1>1, <1>3 DEF GuardsExact, CountOK
    <2>3. \A z \in H : z = x
      <3>1. IsFiniteSet({x}) /\ Cardinality({x}) = 1
        BY FS_Singleton
      <3>2. {x} \in SUBSET H
        BY <1>2
      <3>3. Cardinality({x}) <= Cardinality(H)
        BY <2>1, <3>2, FS_Subset
      <3>4. Cardinality(H) = Cardinality({x})
        BY <2>1, <2>2, <3>1, <3>3
      <3>5. H = {x}
        BY <2>1, <3>2, <3>4, FS_Subset
      <3> QED BY <3>5
    <2>4. CASE o.subgraphBased = 3
      <3>1. y \in H
        BY <1>3, <2>4 DEF Holding
      <3> QED BY <1>3, <2>3, <3>1
    <2>5. CASE o.subgraphBased = 2 /\ x[2] = 1
      <3> DEFINE z == <<y[1], 1>>
      <3>1. z \in DOMAIN E /\ E[z].gg = k
        BY <1>3, <2>5 DEF Nested, GraphUse
      <3>2. Active(E[z])
        BY <1>3 DEF Nested, Active
      <3>3. z \in H
        BY <2>5, <3>1, <3>2 DEF Holding
      <3>4. z = x
        BY <2>3, <3>3
      <3>5. y[1] = x[1]
        BY <3>4
      <3> QED BY <1>3, <2>5, <3>5 DEF Running
    <2> QED BY <2>4, <2>5
  <1> QED BY <1>1, <1>2, <1>3

\* The counts after such a release.
LEMMA ReleaseExact ==
  ASSUME NEW E, NEW G, NEW o, NEW x \in DOMAIN E, IsFiniteSet(DOMAIN E),
         o.max_clq_size \in Int,
         NEW k \in DOMAIN G, x \in Holding(E, o, k), k # Main,
         \A j \in DOMAIN G : G[j].ref \in Nat \ {0},
         \A j \in DOMAIN G \ {Main} : CountOK(E, G, o, j),
         NEW E2, NEW G2, Released(G, G2, k),
         \A j \in DOMAIN G \ {Main} : Holding(E2, o, j) = Holding(E, o, j) \ {x}
  PROVE  /\ \A j \in DOMAIN G2 : G2[j].ref \in Nat \ {0}
         /\ \A j \in DOMAIN G2 \ {Main} : CountOK(E2, G2, o, j)
  <1>1. /\ DOMAIN G2 \subseteq DOMAIN G
        /\ \A j \in DOMAIN G2 : j # k => G2[j] = G[j]
        /\ k \in DOMAIN G2 => G[k].ref # 1 /\ G2[k].ref = G[k].ref - 1
    BY DEF Released
  <1>2. \A j \in DOMAIN G2 : G2[j].ref \in Nat \ {0}
    BY <1>1
  <1>3. ASSUME NEW j \in DOMAIN G2 \ {Main}
        PROVE  CountOK(E2, G2, o, j)
    <2>0. j \in DOMAIN G \ {Main} /\ CountOK(E, G, o, j)
      BY <1>1
    <2>1. /\ IsFiniteSet(Holding(E, o, j))
          /\ Cardinality(Holding(E, o, j)) \in Nat
      BY HoldingFinite
    <2>2. Cardinality(Holding(E2, o, j)) =
            IF x \in Holding(E, o, j) THEN Cardinality(Holding(E, o, j)) - 1
            ELSE Cardinality(Holding(E, o, j))
      BY <2>0, <2>1, FS_RemoveElement
    <2>3. CASE j = k
      BY <1>1, <2>0, <2>1, <2>2, <2>3 DEF CountOK
    <2>4. CASE j # k
      <3>1. x \notin Holding(E, o, j)
        BY <2>4 DEF Holding
      <3> QED BY <1>1, <2>0, <2>2, <2>4, <3>1 DEF CountOK
    <2> QED BY <2>3, <2>4
  <1> QED BY <1>2, <1>3

\* The same, with the facts in the form that OpenGuards has them.
Counts(E, G, o) ==
  /\ \A j \in DOMAIN G : G[j].ref \in Nat \ {0}
  /\ \A j \in DOMAIN G \ {Main} : CountOK(E, G, o, j)

Unheld(E, E2, G, o, x) ==
  \A j \in DOMAIN G \ {Main} : Holding(E2, o, j) = Holding(E, o, j) \ {x}

\* When a holder goes and the count is decremented, counts stay exact.
LEMMA ReleaseCounts ==
  ASSUME NEW E, NEW G, NEW o \in Options, NEW x \in DOMAIN E, FramesSound(E),
         NEW k \in DOMAIN G \ {Main}, x \in Holding(E, o, k),
         Counts(E, G, o), NEW E2, NEW G2, Released(G, G2, k), Unheld(E, E2, G, o, x)
  PROVE  Counts(E2, G2, o)
  <1>1. IsFiniteSet(DOMAIN E) /\ o.max_clq_size \in Int
    BY TaskOptionsAssumption DEF FramesSound
  <1> QED BY <1>1, ReleaseExact DEF Counts, Unheld

\* The size of a pool when the sets of one frame leave it.
LEMMA PoolFinite ==
  ASSUME NEW E, IsFiniteSet(DOMAIN E), NEW t
  PROVE  /\ IsFiniteSet(SetsPooled(E, t)) /\ Cardinality(SetsPooled(E, t)) \in Nat
         /\ IsFiniteSet(CandsPooled(E, t)) /\ Cardinality(CandsPooled(E, t)) \in Nat
         /\ PoolSize(E, t) \in Nat
  <1>1. SetsPooled(E, t) \in SUBSET DOMAIN E /\ CandsPooled(E, t) \in SUBSET DOMAIN E
    BY DEF SetsPooled, CandsPooled
  <1>2. /\ IsFiniteSet(SetsPooled(E, t)) /\ Cardinality(SetsPooled(E, t)) \in Nat
        /\ IsFiniteSet(CandsPooled(E, t)) /\ Cardinality(CandsPooled(E, t)) \in Nat
    BY <1>1, FS_Subset, FS_CardinalityType
  <1> QED BY <1>2 DEF PoolSize

\* What a pool loses with the frame at x: P and X, and cand if it had one.
LEMMA PoolRemove ==
  ASSUME NEW E, IsFiniteSet(DOMAIN E), NEW E2, NEW x \in DOMAIN E, NEW t,
         SetsPooled(E2, t) = SetsPooled(E, t) \ {x},
         CandsPooled(E2, t) = CandsPooled(E, t) \ {x}
  PROVE  PoolSize(E2, t) = PoolSize(E, t) - (IF x \in SetsPooled(E, t) THEN 2 ELSE 0)
                                          - (IF x \in CandsPooled(E, t) THEN 1 ELSE 0)
  <1> DEFINE S == SetsPooled(E, t)
             D == CandsPooled(E, t)
  <1>1. IsFiniteSet(S) /\ Cardinality(S) \in Nat /\ IsFiniteSet(D) /\ Cardinality(D) \in Nat
    BY PoolFinite
  <1> HIDE DEF S, D
  <1>2. Cardinality(S \ {x}) = IF x \in S THEN Cardinality(S) - 1 ELSE Cardinality(S)
    BY <1>1, FS_RemoveElement
  <1>3. Cardinality(D \ {x}) = IF x \in D THEN Cardinality(D) - 1 ELSE Cardinality(D)
    BY <1>1, FS_RemoveElement
  <1>4. 2 * Cardinality(S \ {x}) + Cardinality(D \ {x})
          = 2 * Cardinality(S) + Cardinality(D)
              - (IF x \in S THEN 2 ELSE 0) - (IF x \in D THEN 1 ELSE 0)
    BY <1>1, <1>2, <1>3
  <1>5. PoolSize(E2, t) = 2 * Cardinality(S \ {x}) + Cardinality(D \ {x})
    BY DEF PoolSize, S, D
  <1>6. PoolSize(E, t) = 2 * Cardinality(S) + Cardinality(D)
    BY DEF PoolSize, S, D
  <1>7. /\ x \in SetsPooled(E, t) <=> x \in S
        /\ x \in CandsPooled(E, t) <=> x \in D
    BY DEF S, D
  <1> QED BY <1>1, <1>4, <1>5, <1>6, <1>7

-----------------------------------------------------------------------------
(***************************************************************************)
(* A call is over: its frame becomes that of the continuation, or is gone. *)
(***************************************************************************)
Left(E, x) ==
  IF x[2] = 1 THEN [E EXCEPT ![x] = [E[x] EXCEPT !.pc = "cont"]] ELSE Drop(E, x)

\* The view after a return: the frame is gone, or is the continuation's.
LEMMA LeftFacts ==
  ASSUME NEW E, NEW x \in DOMAIN E, E[x] \in FrameType
  PROVE  LET E2 == Left(E, x)
             f == E[x]
             h == E2[x]
         IN  /\ DOMAIN E2 = IF x[2] = 1 THEN DOMAIN E ELSE DOMAIN E \ {x}
             /\ \A y \in DOMAIN E2 : y # x => E2[y] = E[y]
             /\ x[2] = 1 => /\ h \in FrameType /\ h.pc = "cont"
                            /\ h.R = f.R /\ h.P = f.P /\ h.X = f.X /\ h.cand = f.cand
                            /\ h.gg = f.gg
  <1>1. CASE x[2] = 1
    <2> DEFINE h == [E[x] EXCEPT !.pc = "cont"]
    <2>1. /\ h \in FrameType /\ h.pc = "cont"
          /\ h.R = E[x].R /\ h.P = E[x].P /\ h.X = E[x].X /\ h.cand = E[x].cand
          /\ h.gg = E[x].gg
      BY DEF FrameType, Pcs
    <2> HIDE DEF h
    <2>2. Left(E, x) = [E EXCEPT ![x] = h]
      BY <1>1 DEF Left, h
    <2> QED BY <1>1, <2>1, <2>2
  <1>2. CASE x[2] # 1
    BY <1>2, DropFacts DEF Left
  <1> QED BY <1>1, <1>2

\* A return keeps frames sound and apart.
LEMMA LeaveFrames ==
  ASSUME NEW g, NEW o, NEW E, FramesSound(E), FramesApart(E, g, o), GraphUse(E, o),
         Nested(E), NEW x \in DOMAIN E, Running(E, x),
         E[x].pc \in {"start", "loop"}, E[x].cand = {}
  PROVE  /\ FramesSound(Left(E, x))
         /\ Narrows(E, Left(E, x), x, g, o)
         /\ FramesApart(Left(E, x), g, o)
         /\ GraphUse(Left(E, x), o)
  <1> DEFINE E2 == Left(E, x)
             f == E[x]
             h == E2[x]
  <1>1. /\ DOMAIN E2 = IF x[2] = 1 THEN DOMAIN E ELSE DOMAIN E \ {x}
        /\ \A y \in DOMAIN E2 : y # x => E2[y] = E[y]
        /\ x[2] = 1 => /\ h \in FrameType /\ h.pc = "cont"
                       /\ h.R = f.R /\ h.P = f.P /\ h.X = f.X /\ h.cand = f.cand
                       /\ h.gg = f.gg
    BY LeftFacts DEF FramesSound, FrameSound
  <1>2. x \in DOMAIN E2 => x[2] = 1
    BY <1>1
  <1> HIDE DEF E2
  <1>3. FramesSound(E2)
    <2>1. IsFiniteSet(DOMAIN E2)
      BY <1>1, FS_RemoveElement DEF FramesSound
    <2>2. ASSUME NEW y \in DOMAIN E2
          PROVE  y[1] \in SUBSET V /\ FrameSound(y, E2[y])
      <3>1. y \in DOMAIN E /\ y[1] \in SUBSET V /\ FrameSound(y, E[y])
        BY <1>1 DEF FramesSound
      <3>2. CASE y = x
        BY <1>1, <1>2, <3>1, <3>2 DEF FrameSound
      <3> QED BY <1>1, <3>1, <3>2
    <2> QED BY <2>1, <2>2 DEF FramesSound
  <1>4. Narrows(E, E2, x, g, o)
    BY <1>1, <1>2 DEF Narrows, Span
  <1>5. FramesApart(E2, g, o)
    BY <1>4, NarrowsApart
  <1>6. GraphUse(E2, o)
    <2>1. \A y \in DOMAIN E2 : y \in DOMAIN E /\ E2[y].gg = E[y].gg
      BY <1>1, <1>2
    <2>2. \A y \in DOMAIN E2 : /\ E2[y].pc \in {"new", "start", "loop"} => E2[y].pc = E[y].pc
      BY <1>1, <1>2
    <2>3. ASSUME NEW y \in DOMAIN E2 PROVE <<y[1], 1>> \in DOMAIN E2
      <3>1. <<y[1], 1>> \in DOMAIN E /\ <<y[1], 1>>[2] = 1
        BY <2>1 DEF Nested
      <3> QED BY <1>1, <3>1
    <2>4. ASSUME NEW y \in DOMAIN E2, o.subgraphBased \in {1, 2}
          PROVE  E2[y].gg = E2[<<y[1], 1>>].gg
      BY <2>1, <2>3, <2>4 DEF GraphUse
    <2> SUFFICES ASSUME NEW y \in DOMAIN E2
                 PROVE  LET e == E2[y]
                            s == o.subgraphBased
                            unopened == IsRoot(y) /\ e.pc \in {"new", "start"}
                        IN  /\ unopened => e.gg = Main
                            /\ s = 0 => e.gg = Main
                            /\ s \in {1, 2} => e.gg = E2[<<y[1], 1>>].gg
                            /\ s = 1 /\ IsRoot(y) =>
                                 e.gg \in {Main, y[1]} /\ (e.pc = "loop" => e.gg = y[1])
                            /\ s \in {2, 3} /\ Active(e) /\ ~unopened => e.gg # Main
      BY DEF GraphUse
    <2> QED BY <2>1, <2>2, <2>4 DEF GraphUse, Active
  <1> QED BY <1>3, <1>4, <1>5, <1>6 DEF E2

\* The frame at x gives its subgraph back, if it holds one.
MustRelease(E, o, x) ==
  /\ o.subgraphBased = 3 \/ (o.subgraphBased = 2 /\ x[2] = 1)
  /\ E[x].gg # Main

\* A return that releases what it must keeps graphs alive and counts exact.
LEMMA LeaveGuards ==
  ASSUME NEW g, NEW o \in Options, NEW E, NEW G,
         FramesSound(E), FramesApart(E, g, o), NamesApart(E, G, g, o), FramesSee(E, G, g),
         GraphUse(E, o), GuardsExact(E, G, g, o), Nested(E),
         NEW x \in DOMAIN E, Running(E, x),
         E[x].pc \in {"start", "loop"}, E[x].cand = {},
         NEW rel \in BOOLEAN,
         rel => MustRelease(E, o, x),
         ~rel => ~MustRelease(E, o, x) \/ o.max_clq_size >= 0,
         NEW G2, G2 = IF rel THEN dec_graph_ref_count(G, E[x].gg) ELSE G
  PROVE  /\ NamesApart(Left(E, x), G2, g, o)
         /\ FramesSee(Left(E, x), G2, g)
         /\ GuardsExact(Left(E, x), G2, g, o)
  <1> DEFINE E2 == Left(E, x)
             f == E[x]
             h == E2[x]
             k == E[x].gg
             s == o.subgraphBased
  <1>0. o.max_clq_size \in Int /\ s \in Int
    BY TaskOptionsAssumption
  <1>1. /\ DOMAIN E2 = IF x[2] = 1 THEN DOMAIN E ELSE DOMAIN E \ {x}
        /\ \A y \in DOMAIN E2 : y # x => E2[y] = E[y]
        /\ x[2] = 1 => h.pc = "cont" /\ h.gg = f.gg
    BY LeftFacts, ZenonT(60) DEF FramesSound, FrameSound
  <1>2. x \in DOMAIN E2 => x[2] = 1
    BY <1>1
  <1>a. \A y \in DOMAIN E2 : y \in DOMAIN E /\ E2[y].gg = E[y].gg
    BY <1>1, <1>2
  <1>3. Narrows(E, E2, x, g, o)
    BY LeaveFrames
  <1> HIDE DEF E2
  <1>4. IsFiniteSet(DOMAIN E)
    BY DEF FramesSound
  <1>5. ASSUME NEW j \in SUBSET V, s \in {2, 3}
        PROVE  Holding(E2, o, j) = Holding(E, o, j) \ {x}
    BY <1>1, <1>2, <1>5 DEF Holding, Active
  <1>6. CASE rel
    <2>0. MustRelease(E, o, x) /\ Active(f) /\ s \in {2, 3} /\ s # 1 /\ s # 0 /\ k # Main
      BY <1>6 DEF MustRelease, Active
    <2>1. /\ k \in DOMAIN G /\ x \in Holding(E, o, k)
          /\ \A y \in DOMAIN E :
               y # x /\ Active(E[y]) /\ E[y].gg = k => G[k].ref # 1
      BY <2>0, ReleaseSafe DEF MustRelease
    <2>2. G2 = dec_graph_ref_count(G, k)
      BY <1>6
    <2>3. \A j \in DOMAIN G : G[j].ref \in Nat \ {0}
      BY DEF GuardsExact
    <2>4. Released(G, G2, k)
      BY <2>1, <2>2, <2>3, DecFacts
    <2>5. DOMAIN G2 \subseteq DOMAIN G
      BY <2>4 DEF Released
    <2>6. NamesApart(E2, G2, g, o)
      BY <1>3, <2>5, NarrowsNames
    <2>7. FramesSee(E2, G2, g)
      <3> SUFFICES ASSUME NEW y \in DOMAIN E2, Active(E2[y])
                   PROVE  SeesGraph(G2, g, E2[y])
        BY DEF FramesSee
      <3>1. y # x
        BY <1>1, <1>2 DEF Active
      <3>2. E2[y] = E[y] /\ y \in DOMAIN E
        BY <1>1, <3>1
      <3>3. SeesGraph(G, g, E[y])
        BY <3>2 DEF FramesSee
      <3>4. Kept(G, G2, E[y].gg)
        BY <2>1, <2>4, <3>1, <3>2, <3>3 DEF Kept, SeesGraph, Released
      <3> QED BY <3>2, <3>3, <3>4, KeptSees
    <2>8. /\ \A j \in DOMAIN G2 : G2[j].ref \in Nat \ {0}
          /\ \A j \in DOMAIN G2 \ {Main} : CountOK(E2, G2, o, j)
      <3>1. \A j \in DOMAIN G \ {Main} : Holding(E2, o, j) = Holding(E, o, j) \ {x}
        BY <1>5, <2>0 DEF GuardsExact
      <3>2. \A j \in DOMAIN G \ {Main} : CountOK(E, G, o, j)
        BY DEF GuardsExact
      <3> QED BY <1>0, <1>4, <2>0, <2>1, <2>4, <2>3, <3>1, <3>2, ReleaseExact
    <2>9. Main \in DOMAIN G2 => G2[Main].ref = 1 /\ G2[Main].adj = g.adj
      BY <2>0, <2>4, <2>5 DEF GuardsExact, Released
    <2>10. DOMAIN G2 \subseteq SUBSET V
      BY <2>5 DEF GuardsExact
    <2>11. GuardsExact(E2, G2, g, o)
      BY <2>0, <2>4, <2>8, <2>9, <2>10 DEF GuardsExact, Released
    <2> QED BY <2>6, <2>7, <2>11 DEF E2
  <1>7. CASE ~rel
    <2>0. G2 = G
      BY <1>7
    <2>1. NamesApart(E2, G, g, o)
      BY <1>3, NarrowsNames
    <2>2. FramesSee(E2, G, g)
      <3> SUFFICES ASSUME NEW y \in DOMAIN E2, Active(E2[y])
                   PROVE  SeesGraph(G, g, E2[y])
        BY DEF FramesSee
      <3>1. y # x
        BY <1>1, <1>2 DEF Active
      <3>2. E2[y] = E[y] /\ y \in DOMAIN E
        BY <1>1, <3>1
      <3> QED BY <3>2 DEF FramesSee
    <2>3. ASSUME NEW j \in DOMAIN G \ {Main}
          PROVE  /\ CountOK(E2, G, o, j)
                 /\ s # 0
                 /\ s = 1 => /\ G[j].ref = 1 /\ <<j, 1>> \in DOMAIN E2
                             /\ E2[<<j, 1>>].gg = j /\ IsRoot(<<j, 1>>)
      <3>0. /\ CountOK(E, G, o, j) /\ s # 0
            /\ s = 1 => /\ G[j].ref = 1 /\ <<j, 1>> \in DOMAIN E
                        /\ E[<<j, 1>>].gg = j /\ IsRoot(<<j, 1>>)
            /\ j \in SUBSET V /\ G[j].ref \in Nat
        BY DEF GuardsExact
      <3>1. /\ IsFiniteSet(Holding(E, o, j)) /\ Cardinality(Holding(E, o, j)) \in Nat
        BY <1>4, HoldingFinite
      <3>2. CASE s = 1
        <4>1. <<j, 1>>[2] = 1
          OBVIOUS
        <4>2. <<j, 1>> \in DOMAIN E2 /\ E2[<<j, 1>>].gg = j
          BY <1>1, <1>a, <3>0, <3>2, <4>1
        <4>3. Holding(E2, o, j) = Holding(E, o, j)
          BY <1>a, <3>0, <3>2, <4>2 DEF Holding
        <4> QED BY <3>0, <3>2, <4>2, <4>3 DEF CountOK
      <3>3. CASE s \in {2, 3}
        <4>1. Holding(E2, o, j) = Holding(E, o, j) \ {x}
          BY <1>5, <3>0, <3>3
        <4>2. Cardinality(Holding(E2, o, j)) =
                IF x \in Holding(E, o, j) THEN Cardinality(Holding(E, o, j)) - 1
                ELSE Cardinality(Holding(E, o, j))
          BY <3>1, <4>1, FS_RemoveElement
        <4>3. CASE x \notin Holding(E, o, j)
          BY <3>0, <3>3, <4>2, <4>3 DEF CountOK
        <4>4. CASE x \in Holding(E, o, j)
          <5>1. MustRelease(E, o, x)
            BY <3>3, <4>4 DEF MustRelease, Holding
          <5>2. o.max_clq_size >= 0
            BY <1>7, <5>1
          <5> QED BY <1>0, <3>0, <3>1, <3>3, <4>2, <4>4, <5>2 DEF CountOK
        <4> QED BY <4>3, <4>4
      <3>4. CASE s \notin {1, 2, 3}
        <4>1. Holding(E2, o, j) = {} /\ Holding(E, o, j) = {}
          BY <3>4 DEF Holding
        <4> QED BY <3>0, <3>4, <4>1 DEF CountOK
      <3> QED BY <3>2, <3>3, <3>4
    <2>4. GuardsExact(E2, G, g, o)
      BY <1>a, <2>3 DEF GuardsExact
    <2> QED BY <2>0, <2>1, <2>2, <2>4 DEF E2
  <1> QED BY <1>6, <1>7

\* The sets of the frame at x are deleted, or --max-clq has stopped it.
LEMMA LeavePools ==
  ASSUME NEW o \in Options, NEW E, NEW C, FramesSound(E),
         PoolsPrivate(E, C), PoolsExact(E, C, o), Nested(E),
         NEW x \in DOMAIN E, E[x].pc \in {"start", "loop"},
         NEW C2, IsFcn(C2), DOMAIN C2 = DOMAIN C,
         \/ C2 = C /\ o.max_clq_size >= 0
         \/ \A t \in DOMAIN C :
              C2[t] = C[t] - (IF E[x].mem = t THEN 2 ELSE 0)
                           - (IF E[x].pc = "loop" /\ E[x].cmem = t THEN 1 ELSE 0)
  PROVE  PoolsPrivate(Left(E, x), C2) /\ PoolsExact(Left(E, x), C2, o)
  <1> DEFINE E2 == Left(E, x)
             h == E2[x]
  <1>0. o.max_clq_size \in Int
    BY TaskOptionsAssumption
  <1>1. /\ DOMAIN E2 = IF x[2] = 1 THEN DOMAIN E ELSE DOMAIN E \ {x}
        /\ \A y \in DOMAIN E2 : y # x => E2[y] = E[y]
        /\ x[2] = 1 => h.pc = "cont"
    BY LeftFacts, ZenonT(60) DEF FramesSound, FrameSound
  <1>2. x \in DOMAIN E2 => x[2] = 1
    BY <1>1
  <1> HIDE DEF E2
  <1>3. PoolsPrivate(E2, C2)
    BY <1>1, <1>2 DEF PoolsPrivate
  <1>4. ASSUME NEW t \in DOMAIN C2
        PROVE  /\ t \in (SUBSET V) \ {Heap} /\ <<t, 1>> \in DOMAIN E2
               /\ C2[t] \in Nat
               /\ C2[t] >= PoolSize(E2, t)
               /\ o.max_clq_size < 0 => C2[t] = PoolSize(E2, t)
    <2>1. /\ t \in (SUBSET V) \ {Heap} /\ <<t, 1>> \in DOMAIN E
          /\ C[t] \in Nat
          /\ C[t] >= PoolSize(E, t)
          /\ o.max_clq_size < 0 => C[t] = PoolSize(E, t)
      BY DEF PoolsExact
    <2>2. <<t, 1>> \in DOMAIN E2
      <3>1. <<t, 1>>[2] = 1
        OBVIOUS
      <3> QED BY <1>1, <2>1, <3>1
    <2>3. /\ SetsPooled(E2, t) = SetsPooled(E, t) \ {x}
          /\ CandsPooled(E2, t) = CandsPooled(E, t) \ {x}
      BY <1>1, <1>2 DEF SetsPooled, CandsPooled
    <2>4. PoolSize(E2, t) = PoolSize(E, t) - (IF x \in SetsPooled(E, t) THEN 2 ELSE 0)
                                           - (IF x \in CandsPooled(E, t) THEN 1 ELSE 0)
      BY <2>3, PoolRemove DEF FramesSound
    <2>5. PoolSize(E, t) \in Nat
      BY PoolFinite DEF FramesSound
    <2>6. IsFiniteSet(DOMAIN E2)
      BY <1>1, FS_RemoveElement DEF FramesSound
    <2>7. PoolSize(E2, t) \in Nat
      BY <2>6, PoolFinite
    <2>8. /\ x \in SetsPooled(E, t) <=> E[x].mem = t
          /\ x \in CandsPooled(E, t) <=> E[x].pc = "loop" /\ E[x].cmem = t
      BY DEF SetsPooled, CandsPooled
    <2>9. CASE C2 = C /\ o.max_clq_size >= 0
      BY <1>0, <2>1, <2>2, <2>4, <2>5, <2>7, <2>9
    <2>10. CASE C2[t] = C[t] - (IF E[x].mem = t THEN 2 ELSE 0)
                             - (IF E[x].pc = "loop" /\ E[x].cmem = t THEN 1 ELSE 0)
      <3> DEFINE a == IF E[x].mem = t THEN 2 ELSE 0
                 b == IF E[x].pc = "loop" /\ E[x].cmem = t THEN 1 ELSE 0
      <3>1. a \in Nat /\ b \in Nat
        OBVIOUS
      <3>2. PoolSize(E2, t) = PoolSize(E, t) - a - b
        BY <2>4, <2>8
      <3>3. C2[t] = C[t] - a - b
        BY <2>10
      <3> HIDE DEF a, b
      <3> QED BY <2>1, <2>2, <2>5, <2>7, <3>1, <3>2, <3>3
    <2> QED BY <2>9, <2>10
  <1>5. PoolsExact(E2, C2, o)
    BY <1>4 DEF PoolsExact
  <1> QED BY <1>3, <1>5 DEF E2

-----------------------------------------------------------------------------
(***************************************************************************)
(* StartTask opens the loop of a call: the frame f at x becomes h.         *)
(***************************************************************************)
OpensTo(f, h) ==
  /\ h \in FrameType /\ f.pc = "start" /\ h.pc = "loop"
  /\ h.R = f.R /\ h.P = f.P /\ h.X = f.X /\ h.mem = f.mem
  /\ h.cand \subseteq f.P

\* Choosing candidates keeps frames sound and apart.
LEMMA OpenFrames ==
  ASSUME NEW g, NEW o, NEW E, FramesSound(E), FramesApart(E, g, o),
         NEW x \in DOMAIN E, NEW h, OpensTo(E[x], h), NEW E2, E2 = [E EXCEPT ![x] = h]
  PROVE  FramesSound(E2) /\ Narrows(E, E2, x, g, o) /\ FramesApart(E2, g, o)
  <1>1. /\ DOMAIN E2 = DOMAIN E /\ E2[x] = h
        /\ \A y \in DOMAIN E : y # x => E2[y] = E[y]
    OBVIOUS
  <1>2. FramesSound(E2)
    <2>1. FrameSound(x, h)
      BY DEF FramesSound, FrameSound, OpensTo
    <2> QED BY <1>1, <2>1 DEF FramesSound
  <1>3. Narrows(E, E2, x, g, o)
    BY <1>1 DEF Narrows, OpensTo, Span
  <1> QED BY <1>2, <1>3, NarrowsApart

\* When the call makes a subgraph of its own.
Creates(o, x) ==
  \/ o.subgraphBased = 1 /\ IsRoot(x)
  \/ o.subgraphBased = 2 /\ x[2] = 1
  \/ o.subgraphBased = 3

\* Choosing candidates, also in a new subgraph, keeps to the use of graphs
\* that -s allows.
LEMMA OpenGraphUse ==
  ASSUME NEW o, NEW E, FramesSound(E), GraphUse(E, o), Nested(E),
         NEW x \in DOMAIN E, Running(E, x), NEW h, OpensTo(E[x], h),
         h.gg = IF Creates(o, x) THEN E[x].R ELSE E[x].gg,
         NEW E2, E2 = [E EXCEPT ![x] = h]
  PROVE  GraphUse(E2, o)
  <1>1. /\ DOMAIN E2 = DOMAIN E /\ E2[x] = h
        /\ \A y \in DOMAIN E : y # x => E2[y] = E[y]
    OBVIOUS
  <1>2. /\ x[2] = 1 => E[x].R = x[1]
        /\ E[x].R # Main /\ E[x].pc = "start" /\ h.pc = "loop"
    BY DEF FramesSound, FrameSound, OpensTo, Main
  <1>3. \A y \in DOMAIN E : <<y[1], 1>> \in DOMAIN E
    BY DEF Nested
  <1>4. ASSUME NEW y \in DOMAIN E, o.subgraphBased \in {1, 2}
        PROVE  E2[y].gg = E2[<<y[1], 1>>].gg
    <2> DEFINE z == <<y[1], 1>>
    <2>0. E[y].gg = E[z].gg /\ z \in DOMAIN E /\ z[1] = y[1] /\ z[2] = 1
      BY <1>3, <1>4 DEF GraphUse
    <2>1. CASE Creates(o, x)
      <3>1. x[2] = 1
        BY <1>4, <2>1 DEF Creates, IsRoot
      <3>2. y = x <=> z = x
        BY <2>0, <3>1 DEF Running, Nested
      <3> QED BY <1>1, <2>0, <3>2
    <2>2. CASE ~Creates(o, x)
      <3>1. \A w \in DOMAIN E : E2[w].gg = E[w].gg
        BY <1>1, <2>2
      <3> QED BY <2>0, <3>1
    <2> QED BY <2>1, <2>2
  <1> SUFFICES ASSUME NEW y \in DOMAIN E
               PROVE  LET f == E2[y]
                          s == o.subgraphBased
                          unopened == IsRoot(y) /\ f.pc \in {"new", "start"}
                      IN  /\ unopened => f.gg = Main
                          /\ s = 0 => f.gg = Main
                          /\ s \in {1, 2} => f.gg = E2[<<y[1], 1>>].gg
                          /\ s = 1 /\ IsRoot(y) =>
                               f.gg \in {Main, y[1]} /\ (f.pc = "loop" => f.gg = y[1])
                          /\ s \in {2, 3} /\ Active(f) /\ ~unopened => f.gg # Main
    BY <1>1 DEF GraphUse
  <1>5. CASE y # x
    BY <1>1, <1>4, <1>5 DEF GraphUse
  <1>6. CASE y = x
    <2>1. CASE Creates(o, x)
      <3>1. E2[x].gg = E[x].R /\ o.subgraphBased # 0
        BY <1>1, <2>1 DEF Creates
      <3>2. IsRoot(x) => E[x].R = x[1]
        BY <1>2 DEF IsRoot
      <3> QED BY <1>1, <1>2, <1>4, <1>6, <3>1, <3>2
    <2>2. CASE ~Creates(o, x)
      <3>1. E2[x].gg = E[x].gg
        BY <1>1, <2>2
      <3>2. o.subgraphBased # 3 /\ ~(o.subgraphBased = 1 /\ IsRoot(x))
        BY <2>2 DEF Creates
      <3>3. o.subgraphBased = 2 => x[2] # 1
        BY <2>2 DEF Creates
      <3>4. o.subgraphBased = 2 => ~IsRoot(x)
        BY <3>3 DEF IsRoot
      <3>5. /\ o.subgraphBased = 0 => E[x].gg = Main
            /\ o.subgraphBased \in {2, 3} /\ ~IsRoot(x) => E[x].gg # Main
        BY <1>2 DEF GraphUse, Active
      <3> QED BY <1>1, <1>2, <1>4, <1>6, <3>1, <3>2, <3>4, <3>5
    <2> QED BY <2>1, <2>2
  <1> QED BY <1>5, <1>6

\* The name of the new subgraph is new.
LEMMA NameIsNew ==
  ASSUME NEW g, NEW o, NEW E, NEW G, FramesSound(E), NamesApart(E, G, g, o),
         NEW x \in DOMAIN E, E[x].pc = "start"
  PROVE  E[x].R \notin DOMAIN G \ {Main} /\ E[x].R # Main
  <1>1. E[x].R # Main
    BY DEF FramesSound, FrameSound, Main
  <1>2. E[x].R \subseteq Span(g, o, E[x])
    BY DEF Span
  <1> QED BY <1>1, <1>2 DEF NamesApart

\* The new subgraph of f has the edges that f will look at.
LEMMA SubgraphSees ==
  ASSUME NEW G, NEW g, NEW f, SeesGraph(G, g, f),
         NEW h, h.P = f.P, h.X = f.X, h.gg = f.R,
         NEW G2, f.R \in DOMAIN G2, G2[f.R].adj = HpxAdj(G, f)
  PROVE  SeesGraph(G2, g, h)
  <1>1. ASSUME NEW v \in f.P \union f.X
        PROVE  Adj(G2, f.R, v) =
                 Adj(G, f.gg, v) \intersect (IF v \in f.P THEN f.P \union f.X ELSE f.P)
    BY DEF Adj, HpxAdj
  <1>2. ASSUME NEW v \in f.P
        PROVE  Adj(G2, f.R, v) \intersect (f.P \union f.X)
                 = g.adj[v] \intersect (f.P \union f.X)
    <2>1. Adj(G2, f.R, v) = Adj(G, f.gg, v) \intersect (f.P \union f.X)
      BY <1>1
    <2>2. Adj(G, f.gg, v) \intersect (f.P \union f.X) = g.adj[v] \intersect (f.P \union f.X)
      BY DEF SeesGraph
    <2> QED BY <2>1, <2>2
  <1>3. ASSUME NEW v \in f.X
        PROVE  Adj(G2, f.R, v) \intersect f.P = g.adj[v] \intersect f.P
    <2>1. Adj(G, f.gg, v) \intersect f.P = g.adj[v] \intersect f.P
      BY DEF SeesGraph
    <2>2. \/ Adj(G2, f.R, v) = Adj(G, f.gg, v) \intersect (f.P \union f.X)
          \/ Adj(G2, f.R, v) = Adj(G, f.gg, v) \intersect f.P
      BY <1>1
    <2> QED BY <2>1, <2>2
  <1> QED BY <1>2, <1>3 DEF SeesGraph

\* The guards when the frame at x opens its loop.
LeftGraph(E, G, o, x) ==
  IF ~IsRoot(x) /\ o.subgraphBased # 1 THEN dec_graph_ref_count(G, E[x].gg) ELSE G

OpenedGraph(E, G, G2, o, x, node) ==
  G2 = IF Creates(o, x)
       THEN Put(LeftGraph(E, G, o, x), E[x].R, Guard(1, HpxAdj(G, E[x]), node)) ELSE G

\* Replacing the graph of a call by its subgraph keeps graphs and counts
\* right.
LEMMA OpenGuards ==
  ASSUME NEW g, NEW o \in Options, ~Faulty(o), NEW E, NEW G,
         FramesSound(E), FramesApart(E, g, o), NamesApart(E, G, g, o), FramesSee(E, G, g),
         GraphUse(E, o), GuardsExact(E, G, g, o), Nested(E),
         NEW x \in DOMAIN E, Running(E, x), NEW h, OpensTo(E[x], h),
         h.gg = IF Creates(o, x) THEN E[x].R ELSE E[x].gg,
         NEW E2, E2 = [E EXCEPT ![x] = h],
         NEW node, NEW G2, OpenedGraph(E, G, G2, o, x, node)
  PROVE  /\ NamesApart(E2, G2, g, o)
         /\ FramesSee(E2, G2, g)
         /\ GuardsExact(E2, G2, g, o)
  <1> DEFINE f == E[x]
             k == E[x].gg
             s == o.subgraphBased
             r == E[x].R
             G1 == LeftGraph(E, G, o, x)
  <1>0. o.max_clq_size \in Int /\ s \in 0..3
    BY TaskOptionsAssumption DEF Faulty
  <1>1. /\ DOMAIN E2 = DOMAIN E /\ E2[x] = h
        /\ \A y \in DOMAIN E : y # x => E2[y] = E[y]
    OBVIOUS
  <1>2. Narrows(E, E2, x, g, o)
    BY OpenFrames
  <1>3. /\ h.R = r /\ h.P = f.P /\ h.X = f.X /\ h.pc = "loop" /\ f.pc = "start"
        /\ Active(f) /\ Active(h)
    BY DEF OpensTo, Active
  <1>4. IsFiniteSet(DOMAIN E)
    BY DEF FramesSound
  <1>5. SeesGraph(G, g, f) /\ k \in DOMAIN G
    BY <1>3 DEF FramesSee, SeesGraph
  <1>6. r \notin DOMAIN G \ {Main} /\ r # Main /\ r \notin DOMAIN G
    BY <1>3, NameIsNew
  <1>7. r \in SUBSET V
    BY DEF FramesSound, FrameSound, FrameType
  <1>8. CASE ~Creates(o, x)
    <2>0. G2 = G /\ h.gg = k
      BY <1>8 DEF OpenedGraph
    <2>1. NamesApart(E2, G, g, o)
      BY <1>2, NarrowsNames
    <2>2. FramesSee(E2, G, g)
      <3>1. SeesGraph(G, g, h)
        BY <1>3, <1>5, <2>0 DEF SeesGraph
      <3> QED BY <1>1, <3>1 DEF FramesSee
    <2>3. \A y \in DOMAIN E : E2[y].gg = E[y].gg /\ (Active(E2[y]) <=> Active(E[y]))
      BY <1>1, <1>3, <2>0
    <2>4. \A j : Holding(E2, o, j) = Holding(E, o, j)
      BY <1>1, <2>3 DEF Holding
    <2>5. GuardsExact(E2, G, g, o)
      BY <1>1, <2>3, <2>4 DEF GuardsExact, CountOK
    <2> QED BY <2>0, <2>1, <2>2, <2>5
  <1>9. CASE Creates(o, x)
    <2>0. /\ h.gg = r /\ G2 = Put(G1, r, Guard(1, HpxAdj(G, f), node))
          /\ s \in {1, 2, 3}
      BY <1>9 DEF Creates, OpenedGraph
    <2>a. /\ ~IsRoot(x) /\ s # 1 => G1 = dec_graph_ref_count(G, k)
          /\ ~(~IsRoot(x) /\ s # 1) => G1 = G
      BY DEF LeftGraph
    <2> HIDE DEF G1
    <2>1. /\ IsFcn(G2) /\ DOMAIN G2 = DOMAIN G1 \union {r}
          /\ G2[r] = Guard(1, HpxAdj(G, f), node)
          /\ \A j \in DOMAIN G1 : j # r => G2[j] = G1[j]
      <3> DEFINE w == Guard(1, HpxAdj(G, f), node)
      <3> HIDE DEF w
      <3>1. G2 = Put(G1, r, w)
        BY <2>0 DEF w
      <3>2. Added(G1, G2, r, w)
        BY <3>1, PutAdds, Zenon
      <3> HIDE DEF r
      <3> QED BY <3>2 DEF Added, w
    <2>2. G2[r].ref = 1 /\ G2[r].adj = HpxAdj(G, f)
      BY <2>1 DEF Guard
    \* What is left of the other guards.
    <2>3. /\ DOMAIN G1 \subseteq DOMAIN G
          /\ \A j \in DOMAIN G1 : G1[j].ref \in Nat \ {0}
          /\ Main \in DOMAIN G1 => G1[Main].ref = 1 /\ G1[Main].adj = g.adj
          /\ \A j \in DOMAIN G1 \ {Main} : CountOK(E2, G1, o, j)
          /\ \A y \in DOMAIN E : y # x /\ Active(E[y]) => Kept(G, G1, E[y].gg)
          /\ s = 1 => G1 = G
      <3>1. CASE ~IsRoot(x) /\ s # 1
        <4>1. MustRelease(E, o, x) /\ k # Main
          <5>1. k # Main
            BY <1>3, <2>0, <3>1 DEF GraphUse
          <5> QED BY <1>9, <3>1, <5>1 DEF MustRelease, Creates
        <4>2. /\ x \in Holding(E, o, k)
              /\ \A y \in DOMAIN E :
                   y # x /\ Active(E[y]) /\ E[y].gg = k => G[k].ref # 1
          BY <1>3, <4>1, ReleaseSafe DEF MustRelease
        <4>3. \A j \in DOMAIN G : G[j].ref \in Nat \ {0}
          BY DEF GuardsExact
        <4>4. Released(G, G1, k)
          BY <1>5, <2>a, <3>1, <4>3, DecFacts
        <4>5. ASSUME NEW j \in DOMAIN G \ {Main}
              PROVE  Holding(E2, o, j) = Holding(E, o, j) \ {x}
          <5>1. j # r
            BY <1>6
          <5>2. x \notin Holding(E2, o, j)
            BY <1>1, <2>0, <5>1 DEF Holding
          <5>3. \A y \in DOMAIN E : y # x => (y \in Holding(E2, o, j) <=> y \in Holding(E, o, j))
            BY <1>1 DEF Holding
          <5>4. Holding(E2, o, j) \subseteq DOMAIN E /\ Holding(E, o, j) \subseteq DOMAIN E
            BY <1>1 DEF Holding
          <5> QED BY <5>2, <5>3, <5>4
        <4>6. /\ \A j \in DOMAIN G1 : G1[j].ref \in Nat \ {0}
              /\ \A j \in DOMAIN G1 \ {Main} : CountOK(E2, G1, o, j)
          <5>1. \A j \in DOMAIN G \ {Main} : CountOK(E, G, o, j)
            BY DEF GuardsExact
          <5>2. \A j \in DOMAIN G \ {Main} : Holding(E2, o, j) = Holding(E, o, j) \ {x}
            BY <4>5
          <5>3. k \in DOMAIN G \ {Main} /\ x \in Holding(E, o, k)
            BY <1>5, <4>1, <4>2
          <5>4. Counts(E, G, o) /\ Unheld(E, E2, G, o, x)
            BY <4>3, <5>1, <5>2 DEF Counts, Unheld
          <5> HIDE DEF k, r, s, f
          <5>5. Counts(E2, G1, o)
            BY <4>4, <5>3, <5>4, ReleaseCounts, Zenon
          <5> QED BY <5>5 DEF Counts
        <4>7. DOMAIN G1 \subseteq DOMAIN G
          BY <4>4 DEF Released
        <4>8. Main \in DOMAIN G1 => G1[Main].ref = 1 /\ G1[Main].adj = g.adj
          BY <4>1, <4>4, <4>7 DEF GuardsExact, Released
        <4>9. ASSUME NEW y \in DOMAIN E, y # x, Active(E[y])
              PROVE  Kept(G, G1, E[y].gg)
          <5>1. E[y].gg \in DOMAIN G
            BY <4>9 DEF FramesSee, SeesGraph
          <5> QED BY <4>2, <4>4, <4>9, <5>1 DEF Kept, Released
        <4> QED BY <3>1, <4>6, <4>7, <4>8, <4>9
      <3>2. CASE IsRoot(x) \/ s = 1
        <4>0. G1 = G /\ IsRoot(x)
          BY <1>9, <2>a, <3>2 DEF Creates
        <4>1. k = Main
          BY <1>3, <4>0 DEF GraphUse
        <4>2. x = <<r, 1>>
          BY <4>0 DEF IsRoot, Nested, FramesSound, FrameSound
        <4>3. ASSUME NEW j \in DOMAIN G \ {Main}
              PROVE  Holding(E2, o, j) = Holding(E, o, j)
          <5>1. j # r
            BY <1>6
          <5>2. x \notin Holding(E2, o, j) /\ x \notin Holding(E, o, j)
            BY <1>1, <2>0, <4>1, <5>1 DEF Holding
          <5>3. \A y \in DOMAIN E : y # x => (y \in Holding(E2, o, j) <=> y \in Holding(E, o, j))
            BY <1>1 DEF Holding
          <5>4. Holding(E2, o, j) \subseteq DOMAIN E /\ Holding(E, o, j) \subseteq DOMAIN E
            BY <1>1 DEF Holding
          <5>5. \A y : y \in Holding(E2, o, j) <=> y \in Holding(E, o, j)
            BY <5>2, <5>3, <5>4
          <5> QED BY <5>5
        <4>4. \A j \in DOMAIN G \ {Main} : CountOK(E2, G, o, j)
          BY <4>3 DEF GuardsExact, CountOK
        <4>5. \A y \in DOMAIN E : Active(E[y]) => Kept(G, G, E[y].gg)
          BY DEF Kept, FramesSee, SeesGraph
        <4> QED BY <4>0, <4>4, <4>5 DEF GuardsExact
      <3> QED BY <3>1, <3>2
    <2>4. NamesApart(E2, G2, g, o)
      <3>1. NamesApart(E2, G1, g, o)
        BY <1>2, <2>3, NarrowsNames
      <3>2. ASSUME NEW y \in DOMAIN E2, E2[y].R \subseteq r, r \subseteq Span(g, o, E2[y])
            PROVE  E2[y].R = r /\ E2[y].pc \notin {"new", "start"}
        <4>1. CASE y = x
          BY <1>1, <1>3, <4>1
        <4>2. CASE y # x
          <5>1. Apart(g, o, E[y], f) /\ E2[y] = E[y]
            BY <1>1, <4>2 DEF FramesApart
          <5>2. r \subseteq Span(g, o, f)
            BY <1>3 DEF Span
          <5> QED BY <3>2, <5>1, <5>2 DEF Apart
        <4> QED BY <4>1, <4>2
      <3> QED BY <2>1, <3>1, <3>2 DEF NamesApart
    <2>5. FramesSee(E2, G2, g)
      <3> SUFFICES ASSUME NEW y \in DOMAIN E, Active(E2[y])
                   PROVE  SeesGraph(G2, g, E2[y])
        BY <1>1 DEF FramesSee
      <3>1. CASE y = x
        <4>1. SeesGraph(G2, g, h)
          BY <1>3, <1>5, <2>0, <2>1, <2>2, SubgraphSees
        <4> QED BY <1>1, <3>1, <4>1
      <3>2. CASE y # x
        <4>1. E2[y] = E[y]
          BY <1>1, <3>2
        <4>2. SeesGraph(G, g, E[y]) /\ E[y].gg \in DOMAIN G
          BY <4>1 DEF FramesSee, SeesGraph
        <4>3. Kept(G, G1, E[y].gg)
          BY <2>3, <3>2, <4>1
        <4>4. Kept(G, G2, E[y].gg)
          BY <1>6, <2>1, <4>2, <4>3 DEF Kept
        <4> QED BY <4>1, <4>2, <4>4, KeptSees
      <3> QED BY <3>1, <3>2
    <2>6. Holding(E2, o, r) = {x}
      <3>1. x \in Holding(E2, o, r)
        <4>1. s = 1 \/ s = 2 => x[2] = 1
          BY <1>9 DEF Creates, IsRoot
        <4>2. s = 1 => x = <<r, 1>>
          BY <4>1 DEF Nested, FramesSound, FrameSound
        <4> QED BY <1>1, <1>3, <2>0, <4>1, <4>2 DEF Holding
      <3>2. ASSUME NEW y \in Holding(E2, o, r) PROVE y = x
        <4>1. y \in DOMAIN E /\ E2[y].gg = r
          BY <1>1 DEF Holding
        <4>2. CASE s = 1
          BY <3>1, <3>2, <4>2 DEF Holding
        <4>3. CASE s \in {2, 3}
          <5>1. Active(E2[y])
            BY <4>3 DEF Holding
          <5>2. y # x => E[y].gg = r /\ Active(E[y])
            BY <1>1, <4>1, <5>1
          <5>3. y # x => r \in DOMAIN G
            BY <4>1, <5>2 DEF FramesSee, SeesGraph
          <5> QED BY <1>6, <5>3
        <4> QED BY <2>0, <4>2, <4>3
      <3> QED BY <3>1, <3>2
    <2>7. CountOK(E2, G2, o, r)
      <3>1. Cardinality({x}) = 1
        BY FS_Singleton
      <3>2. G2[r].ref = 1 /\ Cardinality(Holding(E2, o, r)) = 1
        BY <2>2, <2>6, <3>1, Zenon
      <3>3. 1 >= 1
        OBVIOUS
      <3> HIDE DEF r
      <3> QED BY <3>2, <3>3 DEF CountOK
    <2>8. \A j \in DOMAIN G2 : G2[j].ref \in Nat \ {0}
      BY <2>1, <2>2, <2>3
    <2>9. ASSUME NEW j \in DOMAIN G2 \ {Main}
          PROVE  /\ CountOK(E2, G2, o, j)
                 /\ s # 0
                 /\ s = 1 => /\ G2[j].ref = 1 /\ <<j, 1>> \in DOMAIN E2
                             /\ E2[<<j, 1>>].gg = j /\ IsRoot(<<j, 1>>)
      <3>1. CASE j = r
        <4>1. s = 1 => IsRoot(x)
          BY <1>9 DEF Creates
        <4>2. s = 1 => x = <<r, 1>>
          BY <4>1 DEF IsRoot, Nested, FramesSound, FrameSound
        <4> QED BY <1>1, <2>0, <2>2, <2>7, <3>1, <4>1, <4>2
      <3>2. CASE j # r
        <4>1. j \in DOMAIN G1 \ {Main} /\ j \in DOMAIN G \ {Main} /\ G2[j] = G1[j]
          BY <2>1, <2>3, <3>2
        <4>2. CountOK(E2, G2, o, j)
          BY <2>3, <4>1 DEF CountOK
        <4>3. ASSUME s = 1
              PROVE  /\ G2[j].ref = 1 /\ <<j, 1>> \in DOMAIN E2
                     /\ E2[<<j, 1>>].gg = j /\ IsRoot(<<j, 1>>)
          <5>1. /\ G[j].ref = 1 /\ <<j, 1>> \in DOMAIN E
                /\ E[<<j, 1>>].gg = j /\ IsRoot(<<j, 1>>)
            BY <4>1, <4>3 DEF GuardsExact
          <5>2. x[1] = r
            BY <1>9, <4>3 DEF Creates, IsRoot, FramesSound, FrameSound
          <5>3. <<j, 1>> # x
            BY <3>2, <5>2
          <5> QED BY <1>1, <2>3, <4>1, <4>3, <5>1, <5>3
        <4> QED BY <2>0, <4>2, <4>3
      <3> QED BY <3>1, <3>2
    <2>10. Main \in DOMAIN G2 => G2[Main].ref = 1 /\ G2[Main].adj = g.adj
      BY <1>6, <2>1, <2>3
    <2>11. DOMAIN G2 \subseteq SUBSET V
      BY <1>7, <2>1, <2>3 DEF GuardsExact
    <2>12. ASSUME s = 1, NEW y \in DOMAIN E2, IsRoot(y), E2[y].gg = y[1]
           PROVE  y[1] \in DOMAIN G2
      <3>1. CASE y = x
        BY <1>1, <2>0, <2>1, <2>12, <3>1
      <3>2. CASE y # x
        <4>1. y[1] \in DOMAIN G
          BY <1>1, <2>12, <3>2 DEF GuardsExact
        <4> QED BY <2>1, <2>3, <2>12, <4>1
      <3> QED BY <3>1, <3>2
    <2>13. GuardsExact(E2, G2, g, o)
      BY <2>1, <2>8, <2>9, <2>10, <2>11, <2>12 DEF GuardsExact
    <2> QED BY <2>4, <2>5, <2>13
  <1> QED BY <1>8, <1>9

-----------------------------------------------------------------------------
(***************************************************************************)
(* Sets are made: the pool m, if it is not the heap, counts n sets more.   *)
(***************************************************************************)
Grown(C, C2, m, n) ==
  /\ IsFcn(C2)
  /\ \A t : t \in DOMAIN C2 <=> (t \in DOMAIN C \/ (t = m /\ m # Heap))
  /\ \A t \in DOMAIN C2 :
       C2[t] = (IF t \in DOMAIN C THEN C[t] ELSE 0) + (IF t = m THEN n ELSE 0)

\* allocate adds the new sets to one pool.
LEMMA AllocateGrows ==
  ASSUME NEW E, NEW C, NEW o, PoolsExact(E, C, o), NEW m, NEW n \in Nat
  PROVE  Grown(C, allocate(C, m, n), m, n)
  <1>1. IsFcn(C)
    BY DEF PoolsExact
  <1>2. \A t \in DOMAIN C : C[t] \in Nat
    BY DEF PoolsExact
  <1>3. \A t \in DOMAIN C : t # Heap
    BY DEF PoolsExact
  <1>4. CASE m = Heap
    <2>1. allocate(C, m, n) = C
      BY <1>4 DEF allocate
    <2>2. \A t \in DOMAIN C : t # m /\ C[t] = C[t] + 0
      BY <1>2, <1>3, <1>4
    <2> QED BY <1>1, <1>4, <2>1, <2>2 DEF Grown
  <1>5. CASE m # Heap
    <2> DEFINE w == n + (IF m \in DOMAIN C THEN C[m] ELSE 0)
               A == Put(C, m, w)
    <2>1. allocate(C, m, n) = A
      BY <1>5 DEF allocate
    <2>2. w = (IF m \in DOMAIN C THEN C[m] ELSE 0) + n
      BY <1>2
    <2> HIDE DEF w
    <2>3. Added(C, A, m, w)
      BY PutAdds
    <2> HIDE DEF A
    <2>4. ASSUME NEW t \in DOMAIN A
          PROVE  A[t] = (IF t \in DOMAIN C THEN C[t] ELSE 0) + (IF t = m THEN n ELSE 0)
      <3>1. CASE t = m
        BY <2>2, <2>3, <3>1 DEF Added
      <3>2. CASE t # m
        BY <1>2, <2>3, <3>2 DEF Added
      <3> QED BY <3>1, <3>2
    <2> QED BY <1>5, <2>1, <2>3, <2>4 DEF Added, Grown
  <1> QED BY <1>4, <1>5

\* A pool that does not exist has no sets.
LEMMA NoPoolNoSets ==
  ASSUME NEW E, NEW C, PoolsPrivate(E, C), NEW t, t \notin DOMAIN C, t # Heap
  PROVE  PoolSize(E, t) = 0
  <1>1. SetsPooled(E, t) = {} /\ CandsPooled(E, t) = {}
    BY DEF SetsPooled, CandsPooled, PoolsPrivate
  <1>2. Cardinality({}) = 0
    BY FS_EmptySet
  <1> QED BY <1>1, <1>2 DEF PoolSize

\* A pool that grows by the sets the view gains stays exact.
LEMMA PoolsGrow ==
  ASSUME NEW o \in Options, NEW E, NEW E2, NEW C, NEW C2, NEW m \in SUBSET V, NEW n \in Nat,
         PoolsPrivate(E, C), PoolsExact(E, C, o), IsFiniteSet(DOMAIN E),
         DOMAIN E \subseteq DOMAIN E2, m # Heap => <<m, 1>> \in DOMAIN E2,
         Grown(C, C2, m, n),
         \A t \in (SUBSET V) \ {Heap} : PoolSize(E2, t) = PoolSize(E, t) + (IF t = m THEN n ELSE 0)
  PROVE  PoolsExact(E2, C2, o)
  <1> SUFFICES ASSUME NEW t \in DOMAIN C2
               PROVE  /\ t \in (SUBSET V) \ {Heap} /\ <<t, 1>> \in DOMAIN E2
                      /\ C2[t] \in Nat
                      /\ C2[t] >= PoolSize(E2, t)
                      /\ o.max_clq_size < 0 => C2[t] = PoolSize(E2, t)
    BY DEF PoolsExact, Grown
  <1> DEFINE a == IF t = m THEN n ELSE 0
  <1>1. a \in Nat
    OBVIOUS
  <1>2. t \in DOMAIN C \/ (t = m /\ m # Heap)
    BY DEF Grown
  <1>3. t \in (SUBSET V) \ {Heap} /\ <<t, 1>> \in DOMAIN E2
    BY <1>2 DEF PoolsExact
  <1>4. PoolSize(E, t) \in Nat
    BY PoolFinite
  <1>5. PoolSize(E2, t) = PoolSize(E, t) + a
    BY <1>3
  <1>6. CASE t \in DOMAIN C
    <2>1. /\ C[t] \in Nat /\ C[t] >= PoolSize(E, t)
          /\ o.max_clq_size < 0 => C[t] = PoolSize(E, t)
      BY <1>6 DEF PoolsExact
    <2>2. C2[t] = C[t] + a
      BY <1>6 DEF Grown
    <2> HIDE DEF a
    <2> QED BY <1>1, <1>3, <1>4, <1>5, <2>1, <2>2
  <1>7. CASE t \notin DOMAIN C
    <2>1. PoolSize(E, t) = 0
      BY <1>3, <1>7, NoPoolNoSets
    <2>2. C2[t] = a
      BY <1>1, <1>7 DEF Grown
    <2> HIDE DEF a
    <2> QED BY <1>1, <1>3, <1>5, <2>1, <2>2
  <1> QED BY <1>6, <1>7

\* StartTask makes cand.
LEMMA OpenPools ==
  ASSUME NEW o \in Options, NEW E, NEW C, FramesSound(E), Nested(E),
         PoolsPrivate(E, C), PoolsExact(E, C, o),
         NEW x \in DOMAIN E, NEW h, OpensTo(E[x], h), h.cmem \in {Heap, x[1]},
         NEW E2, E2 = [E EXCEPT ![x] = h], NEW C2, Grown(C, C2, h.cmem, 1)
  PROVE  PoolsPrivate(E2, C2) /\ PoolsExact(E2, C2, o)
  <1>1. /\ DOMAIN E2 = DOMAIN E /\ E2[x] = h
        /\ \A y \in DOMAIN E : y # x => E2[y] = E[y]
    OBVIOUS
  <1>2. /\ h.cmem \in SUBSET V /\ IsFiniteSet(DOMAIN E)
        /\ h.pc = "loop" /\ E[x].pc = "start" /\ h.mem = E[x].mem
    BY DEF FramesSound, OpensTo, Heap
  <1>3. h.cmem # Heap => <<h.cmem, 1>> \in DOMAIN E2
    BY <1>1 DEF Nested
  <1>4. \A t \in DOMAIN C : t \in DOMAIN C2
    BY DEF Grown
  <1>5. h.cmem # Heap => h.cmem \in DOMAIN C2
    BY DEF Grown
  <1>6. PoolsPrivate(E2, C2)
    BY <1>1, <1>2, <1>4, <1>5 DEF PoolsPrivate
  <1>7. ASSUME NEW t \in (SUBSET V) \ {Heap}
        PROVE  PoolSize(E2, t) = PoolSize(E, t) + (IF t = h.cmem THEN 1 ELSE 0)
    <2>1. SetsPooled(E2, t) = SetsPooled(E, t)
      <3>1. \A y : y \in SetsPooled(E2, t) <=> y \in SetsPooled(E, t)
        BY <1>1, <1>2 DEF SetsPooled
      <3> QED BY <3>1
    <2>2. x \notin CandsPooled(E, t)
      BY <1>2 DEF CandsPooled
    <2>3. IsFiniteSet(CandsPooled(E, t)) /\ Cardinality(CandsPooled(E, t)) \in Nat
          /\ Cardinality(SetsPooled(E, t)) \in Nat
      BY <1>2, PoolFinite
    <2>4. CASE t = h.cmem
      <3>1. \A y : y \in CandsPooled(E2, t) <=> y \in CandsPooled(E, t) \union {x}
        BY <1>1, <1>2, <2>4 DEF CandsPooled
      <3>2. CandsPooled(E2, t) = CandsPooled(E, t) \union {x}
        BY <3>1
      <3>3. Cardinality(CandsPooled(E2, t)) = Cardinality(CandsPooled(E, t)) + 1
        BY <2>2, <2>3, <3>2, FS_AddElement
      <3> QED BY <2>1, <2>3, <2>4, <3>3 DEF PoolSize
    <2>5. CASE t # h.cmem
      <3>1. \A y : y \in CandsPooled(E2, t) <=> y \in CandsPooled(E, t)
        BY <1>1, <1>2, <2>5 DEF CandsPooled
      <3>2. CandsPooled(E2, t) = CandsPooled(E, t)
        BY <3>1
      <3> QED BY <2>1, <2>3, <2>5, <3>2 DEF PoolSize
    <2> QED BY <2>4, <2>5
  <1>8. PoolsExact(E2, C2, o)
    <2>1. DOMAIN E \subseteq DOMAIN E2 /\ 1 \in Nat
      BY <1>1
    <2> QED BY <1>2, <1>3, <1>7, <2>1, PoolsGrow
  <1> QED BY <1>6, <1>8

-----------------------------------------------------------------------------
(***************************************************************************)
(* LoopIteration: the frame at x hands v over to a child call, whose frame *)
(* is at y.  The child is run in place, or it is a task named c.R.         *)
(***************************************************************************)
ChildIn(g, f, v, c) ==
  /\ c \in FrameType /\ c.pc = "start" /\ c.gg = f.gg /\ c.cand = {} /\ c.cmem = Heap
  /\ c.R = f.R \union {v} /\ c.P = f.P \intersect g.adj[v] /\ c.X = f.X \intersect g.adj[v]

Descends(E, E2, x, y, g, v, c) ==
  /\ x \in DOMAIN E /\ E[x].pc = "loop" /\ v \in E[x].cand /\ ChildIn(g, E[x], v, c)
  /\ (y = <<x[1], x[2] + 1>> /\ y[2] # 1) \/ y = <<c.R, 1>>
  /\ y \notin DOMAIN E /\ DOMAIN E2 = DOMAIN E \union {y}
  /\ E2[y] = c /\ E2[x] = Iterated(E[x], v)
  /\ \A z \in DOMAIN E : z # x => E2[z] = E[z]

\* The fields of a frame after an iteration.
LEMMA IteratedFacts ==
  ASSUME NEW f \in FrameType, NEW v \in V
  PROVE  /\ Iterated(f, v) \in FrameType
         /\ Iterated(f, v).R = f.R /\ Iterated(f, v).P = f.P \ {v}
         /\ Iterated(f, v).X = f.X \union {v} /\ Iterated(f, v).cand = f.cand \ {v}
         /\ Iterated(f, v).gg = f.gg /\ Iterated(f, v).pc = f.pc
         /\ Iterated(f, v).mem = f.mem /\ Iterated(f, v).cmem = f.cmem
  BY DEF Iterated, FrameType

\* The fields of a new frame.
LEMMA FrameFacts ==
  ASSUME NEW r, NEW p, NEW q, NEW k, NEW m, NEW pc
  PROVE  /\ Frame(r, p, q, k, m, pc).R = r /\ Frame(r, p, q, k, m, pc).P = p
         /\ Frame(r, p, q, k, m, pc).X = q /\ Frame(r, p, q, k, m, pc).cand = {}
         /\ Frame(r, p, q, k, m, pc).gg = k /\ Frame(r, p, q, k, m, pc).mem = m
         /\ Frame(r, p, q, k, m, pc).cmem = Heap /\ Frame(r, p, q, k, m, pc).pc = pc
         /\ (r \in SUBSET V /\ p \in SUBSET V /\ q \in SUBSET V /\ k \in SUBSET V
               /\ m \in SUBSET V /\ pc \in Pcs) => Frame(r, p, q, k, m, pc) \in FrameType
  BY DEF Frame, FrameType, Heap

\* The child that the code makes, from the graph its parent uses.
LEMMA ChildFacts ==
  ASSUME NEW g \in Graphs, NEW G, NEW f \in FrameType, SeesGraph(G, g, f),
         NEW v \in f.P, NEW m \in SUBSET V
  PROVE  ChildIn(g, f, v, Frame(f.R \union {v}, f.P \intersect Adj(G, f.gg, v),
                                f.X \intersect Adj(G, f.gg, v), f.gg, m, "start"))
  <1>1. /\ f.P \intersect Adj(G, f.gg, v) = f.P \intersect g.adj[v]
        /\ f.X \intersect Adj(G, f.gg, v) = f.X \intersect g.adj[v]
    BY DEF SeesGraph
  <1>2. /\ f.R \in SUBSET V /\ f.P \in SUBSET V /\ f.X \in SUBSET V /\ f.gg \in SUBSET V
        /\ v \in V /\ "start" \in Pcs
    BY DEF FrameType, Pcs
  <1>3. f.R \union {v} \in SUBSET V /\ f.P \intersect g.adj[v] \in SUBSET V
        /\ f.X \intersect g.adj[v] \in SUBSET V
    BY <1>2
  <1> QED BY <1>1, <1>2, <1>3, FrameFacts DEF ChildIn

\* What the steps below need of the parent, what is left of it and its child.
Handed(E, E2, x, y, g, o, v, c) ==
  /\ E[x].pc = "loop" /\ v \in E[x].P /\ v \notin E[x].R /\ v \in V
  /\ Span(g, o, c) \subseteq Span(g, o, E[x]) /\ v \notin Span(g, o, E2[x])
  /\ FrameSound(x, E2[x]) /\ FrameSound(y, c)
  /\ E2[x].R = E[x].R /\ E2[x].gg = E[x].gg /\ E2[x].pc = "loop"
  /\ E2[x].mem = E[x].mem /\ E2[x].cmem = E[x].cmem
  /\ ~IsRoot(y) /\ x # y
  /\ Narrows(E, [z \in DOMAIN E |-> E2[z]], x, g, o)

\* What an iteration hands to the child call.
LEMMA DescendFacts ==
  ASSUME NEW g \in Graphs, NEW o, NEW E, FramesSound(E), NEW x, NEW y, NEW v, NEW c, NEW E2,
         Descends(E, E2, x, y, g, v, c)
  PROVE  Handed(E, E2, x, y, g, o, v, c)
  <1> DEFINE f == E[x]
             e == E2[x]
  <1>1. /\ f \in FrameType /\ f.pc = "loop" /\ v \in f.cand /\ f.cand \subseteq f.P
        /\ f.P \intersect f.R = {} /\ f.R # {} /\ x[1] \subseteq f.R /\ (x[2] = 1 => f.R = x[1])
    BY DEF Descends, FramesSound, FrameSound
  <1>2. v \in f.P /\ v \notin f.R /\ v \in V
    BY <1>1 DEF FrameType
  <1>3. v \notin g.adj[v]
    BY <1>2, GraphFacts
  <1>4. /\ e \in FrameType /\ e.R = f.R /\ e.P = f.P \ {v} /\ e.cand = f.cand \ {v}
        /\ e.gg = f.gg /\ e.pc = "loop" /\ e.mem = f.mem /\ e.cmem = f.cmem
    BY <1>1, <1>2, IteratedFacts DEF Descends
  <1>5. /\ c \in FrameType /\ c.pc = "start" /\ c.cand = {} /\ c.R = f.R \union {v}
        /\ c.P = f.P \intersect g.adj[v]
    BY DEF Descends, ChildIn
  <1>6. Span(g, o, c) \subseteq Span(g, o, f) /\ v \notin Span(g, o, e)
    BY <1>1, <1>2, <1>4, <1>5 DEF Span
  <1>7. FrameSound(x, e)
    BY <1>1, <1>4 DEF FrameSound
  <1>8. c.P \intersect c.R = {}
    BY <1>1, <1>3, <1>5
  <1>9. y[1] \subseteq c.R /\ (y[2] = 1 => y[1] = c.R)
    BY <1>1, <1>5 DEF Descends
  <1>10. FrameSound(y, c)
    BY <1>5, <1>8, <1>9 DEF FrameSound
  <1>11. ~IsRoot(y)
    <2>1. ~\E w \in V : c.R = {w}
      BY <1>1, <1>2, <1>5
    <2> QED BY <1>9, <2>1 DEF IsRoot
  <1>12. x # y
    BY DEF Descends
  <1>13. Narrows(E, [z \in DOMAIN E |-> E2[z]], x, g, o)
    <2>1. Span(g, o, e) \subseteq Span(g, o, f)
      BY <1>1, <1>4 DEF Span
    <2> QED BY <1>4, <2>1 DEF Narrows, Descends
  <1> QED BY <1>1, <1>2, <1>4, <1>6, <1>7, <1>10, <1>11, <1>12, <1>13 DEF Handed

\* A child call is apart from every other call.
LEMMA DescendFrames ==
  ASSUME NEW g \in Graphs, NEW o, NEW E, FramesSound(E), FramesApart(E, g, o),
         GraphUse(E, o), Nested(E), NEW x, NEW y, NEW v, NEW c, NEW E2,
         Descends(E, E2, x, y, g, v, c)
  PROVE  /\ FramesSound(E2)
         /\ FramesApart(E2, g, o)
         /\ GraphUse(E2, o)
  <1> DEFINE f == E[x]
             e == E2[x]
             N == [z \in DOMAIN E |-> E2[z]]
  <1>1. /\ f.pc = "loop" /\ v \in f.P /\ v \notin f.R /\ v \in V
        /\ Span(g, o, c) \subseteq Span(g, o, f) /\ v \notin Span(g, o, e)
        /\ FrameSound(x, e) /\ FrameSound(y, c)
        /\ e.R = f.R /\ e.gg = f.gg /\ e.pc = "loop"
        /\ ~IsRoot(y) /\ x # y
        /\ Narrows(E, N, x, g, o)
    <2>1. Handed(E, E2, x, y, g, o, v, c)
      BY DescendFacts
    <2> QED BY <2>1 DEF Handed
  <1>2. /\ x \in DOMAIN E /\ c.R = f.R \union {v} /\ c.gg = f.gg /\ c.pc = "start"
        /\ (y = <<x[1], x[2] + 1>> /\ y[2] # 1) \/ y = <<c.R, 1>>
        /\ y \notin DOMAIN E /\ DOMAIN E2 = DOMAIN E \union {y} /\ E2[y] = c
        /\ \A z \in DOMAIN E : z # x => E2[z] = E[z]
    BY DEF Descends, ChildIn
  <1>3. FramesSound(E2)
    <2>1. IsFiniteSet(DOMAIN E2)
      BY <1>2, FS_AddElement DEF FramesSound
    <2>2. y[1] \in SUBSET V
      BY <1>1, <1>2 DEF FramesSound, FrameSound, FrameType
    <2> QED BY <1>1, <1>2, <2>1, <2>2 DEF FramesSound
  <1>4. FramesApart(E2, g, o)
    <2>1. FramesApart(N, g, o)
      BY <1>1, NarrowsApart
    <2>2. ASSUME NEW z \in DOMAIN E, NEW w \in DOMAIN E, z # w
          PROVE  Apart(g, o, E2[z], E2[w])
      BY <2>1, <2>2 DEF FramesApart
    <2>3. ASSUME NEW z \in DOMAIN E PROVE Apart(g, o, E2[z], c) /\ Apart(g, o, c, E2[z])
      <3>1. CASE z = x
        BY <1>1, <1>2, <3>1 DEF Apart
      <3>2. CASE z # x
        <4>1. Apart(g, o, E[z], f) /\ E2[z] = E[z]
          BY <1>2, <3>2 DEF FramesApart
        <4> QED BY <1>1, <1>2, <4>1 DEF Apart
      <3> QED BY <3>1, <3>2
    <2> QED BY <1>2, <2>2, <2>3 DEF FramesApart
  <1>5. GraphUse(E2, o)
    <2>1. \A z \in DOMAIN E : E2[z].gg = E[z].gg /\ E2[z].pc = E[z].pc
      BY <1>1, <1>2
    <2>2. \A z \in DOMAIN E : <<z[1], 1>> \in DOMAIN E
      BY DEF Nested
    <2>3. ~IsRoot(x) \/ f.pc \notin {"new", "start"}
      BY <1>1
    <2>4. ASSUME o.subgraphBased \in {1, 2}
          PROVE  c.gg = E2[<<y[1], 1>>].gg
      <3>1. CASE y = <<c.R, 1>>
        BY <1>2, <3>1
      <3>2. CASE y = <<x[1], x[2] + 1>>
        <4>1. y[1] = x[1] /\ f.gg = E[<<x[1], 1>>].gg
          BY <1>2, <2>4, <3>2 DEF GraphUse
        <4> QED BY <1>2, <2>1, <2>2, <4>1
      <3> QED BY <1>2, <3>1, <3>2
    <2>5. /\ o.subgraphBased = 0 => c.gg = Main
          /\ o.subgraphBased \in {2, 3} => c.gg # Main
      BY <1>1, <1>2 DEF GraphUse, Active
    <2> SUFFICES ASSUME NEW z \in DOMAIN E2
                 PROVE  LET h == E2[z]
                            s == o.subgraphBased
                            unopened == IsRoot(z) /\ h.pc \in {"new", "start"}
                        IN  /\ unopened => h.gg = Main
                            /\ s = 0 => h.gg = Main
                            /\ s \in {1, 2} => h.gg = E2[<<z[1], 1>>].gg
                            /\ s = 1 /\ IsRoot(z) =>
                                 h.gg \in {Main, z[1]} /\ (h.pc = "loop" => h.gg = z[1])
                            /\ s \in {2, 3} /\ Active(h) /\ ~unopened => h.gg # Main
      BY DEF GraphUse
    <2>6. CASE z = y
      BY <1>1, <1>2, <2>4, <2>5, <2>6
    <2>7. CASE z \in DOMAIN E
      <3>1. Active(E2[z]) <=> Active(E[z])
        BY <2>1, <2>7 DEF Active
      <3>2. o.subgraphBased \in {1, 2} => E2[z].gg = E2[<<z[1], 1>>].gg
        BY <2>1, <2>2, <2>7 DEF GraphUse
      <3> QED BY <2>1, <2>7, <3>1, <3>2 DEF GraphUse
    <2> QED BY <1>2, <2>6, <2>7
  <1> QED BY <1>3, <1>4, <1>5

\* The child call shares the graph of its parent, and is counted if it must
\* release it.
LEMMA DescendGuards ==
  ASSUME NEW g \in Graphs, NEW o \in Options, ~Faulty(o), NEW E, NEW G,
         FramesSound(E), FramesApart(E, g, o), NamesApart(E, G, g, o), FramesSee(E, G, g),
         GraphUse(E, o), GuardsExact(E, G, g, o), Nested(E),
         NEW x, NEW y, NEW v, NEW c, NEW E2, Descends(E, E2, x, y, g, v, c),
         NEW G2,
         IF o.subgraphBased = 3 \/ (o.subgraphBased = 2 /\ y[2] = 1)
         THEN G2 = inc_graph_ref_count(G, E[x].gg) ELSE G2 = G
  PROVE  /\ NamesApart(E2, G2, g, o)
         /\ FramesSee(E2, G2, g)
         /\ GuardsExact(E2, G2, g, o)
  <1> DEFINE f == E[x]
             e == E2[x]
             k == E[x].gg
             s == o.subgraphBased
             inc == s = 3 \/ (s = 2 /\ y[2] = 1)
             N == [z \in DOMAIN E |-> E2[z]]
  <1>0. o.max_clq_size \in Int /\ s \in 0..3
    BY TaskOptionsAssumption DEF Faulty
  <1>1. /\ f.pc = "loop" /\ v \in f.P /\ v \notin f.R /\ v \in V
        /\ Span(g, o, c) \subseteq Span(g, o, f)
        /\ e.R = f.R /\ e.gg = f.gg /\ e.pc = "loop"
        /\ ~IsRoot(y) /\ x # y
        /\ Narrows(E, N, x, g, o)
    <2>1. Handed(E, E2, x, y, g, o, v, c)
      BY DescendFacts
    <2> QED BY <2>1 DEF Handed
  <1>2. /\ x \in DOMAIN E /\ c.R = f.R \union {v} /\ c.gg = f.gg /\ c.pc = "start"
        /\ (y = <<x[1], x[2] + 1>> /\ y[2] # 1) \/ y = <<c.R, 1>>
        /\ y \notin DOMAIN E /\ DOMAIN E2 = DOMAIN E \union {y} /\ E2[y] = c
        /\ \A z \in DOMAIN E : z # x => E2[z] = E[z]
    BY DEF Descends, ChildIn
  <1>3. SeesGraph(G, g, f) /\ k \in DOMAIN G
    BY <1>1, <1>2 DEF FramesSee, SeesGraph, Active
  <1>4. /\ DOMAIN G2 = DOMAIN G /\ IsFcn(G2)
        /\ \A j \in DOMAIN G : Kept(G, G2, j)
        /\ \A j \in DOMAIN G : ~inc \/ j # k => G2[j] = G[j]
        /\ inc => G2[k].ref = G[k].ref + 1
    <2>1. CASE inc
      <3>1. G2 = inc_graph_ref_count(G, k)
        BY <2>1
      <3>2. Shared(G, G2, k)
        BY <1>3, <3>1, IncFacts
      <3> QED BY <1>3, <2>1, <3>2 DEF Shared, Kept
    <2>2. CASE ~inc
      <3>1. G2 = G
        BY <2>2
      <3> QED BY <2>2, <3>1 DEF Kept, GuardsExact
    <2> QED BY <2>1, <2>2
  <1>5. NamesApart(E2, G2, g, o)
    <2>1. NamesApart(N, G2, g, o)
      BY <1>1, <1>4, NarrowsNames
    <2>2. ASSUME NEW j \in DOMAIN G2 \ {Main}, c.R \subseteq j, j \subseteq Span(g, o, c)
          PROVE  FALSE
      <3>1. f.R \subseteq j /\ j \subseteq Span(g, o, f)
        BY <1>1, <1>2, <2>2
      <3>2. f.R = j
        BY <1>2, <1>4, <3>1 DEF NamesApart
      <3> QED BY <1>1, <1>2, <2>2, <3>2
    <2>3. ASSUME NEW j \in DOMAIN G2 \ {Main}, NEW z \in DOMAIN E,
                 E2[z].R \subseteq j, j \subseteq Span(g, o, E2[z])
          PROVE  E2[z].R = j /\ E2[z].pc \notin {"new", "start"}
      <3>1. N[z] = E2[z] /\ z \in DOMAIN N
        OBVIOUS
      <3> QED BY <2>1, <2>3, <3>1 DEF NamesApart
    <2> QED BY <1>2, <2>2, <2>3 DEF NamesApart
  <1>6. FramesSee(E2, G2, g)
    <2>1. SeesGraph(G, g, e)
      <3>1. e.P = f.P \ {v} /\ e.X = f.X \union {v}
        <4>1. e = Iterated(f, v) /\ f \in FrameType
          BY <1>2 DEF Descends, FramesSound, FrameSound
        <4> QED BY <1>1, <4>1, IteratedFacts
      <3> QED BY <1>1, <1>3, <3>1 DEF SeesGraph
    <2>2. SeesGraph(G, g, c)
      <3>1. c.P \subseteq f.P /\ c.X \subseteq f.X
        BY DEF Descends, ChildIn
      <3> QED BY <1>2, <1>3, <3>1 DEF SeesGraph
    <2>3. \A z \in DOMAIN E2 : Active(E2[z]) => SeesGraph(G, g, E2[z])
      BY <1>2, <2>1, <2>2 DEF FramesSee
    <2>4. ASSUME NEW z \in DOMAIN E2, Active(E2[z]) PROVE SeesGraph(G2, g, E2[z])
      <3>1. SeesGraph(G, g, E2[z]) /\ E2[z].gg \in DOMAIN G
        BY <2>3, <2>4 DEF SeesGraph
      <3> QED BY <1>4, <3>1, KeptSees
    <2> QED BY <2>4 DEF FramesSee
  <1>7. ASSUME NEW j \in DOMAIN G \ {Main}
        PROVE  /\ ~(inc /\ j = k) => Holding(E2, o, j) = Holding(E, o, j)
               /\ inc /\ j = k => Holding(E2, o, j) = Holding(E, o, j) \union {y}
    <2>1. \A z \in DOMAIN E : /\ E2[z].gg = E[z].gg
                              /\ Active(E2[z]) <=> Active(E[z])
      BY <1>1, <1>2 DEF Active
    <2>2. \A z \in DOMAIN E : z \in Holding(E2, o, j) <=> z \in Holding(E, o, j)
      BY <1>2, <2>1 DEF Holding
    <2>3. y \in Holding(E2, o, j) <=> inc /\ j = k
      <3>1. CASE s = 1
        <4>1. ASSUME y = <<j, 1>>, c.gg = j PROVE FALSE
          <5>1. y = <<c.R, 1>> /\ c.R = j
            BY <1>2, <4>1
          <5>2. f.R \subseteq j /\ j \subseteq Span(g, o, f)
            BY <1>1, <1>2, <5>1 DEF Span
          <5>3. f.R = j
            BY <1>2, <5>2 DEF NamesApart
          <5> QED BY <1>1, <1>2, <5>1, <5>3
        <4> QED BY <1>2, <3>1, <4>1 DEF Holding
      <3>2. CASE s \in {0, 2, 3}
        <4>1. Active(c)
          BY <1>2 DEF Active
        <4> QED BY <1>2, <3>2, <4>1 DEF Holding
      <3> QED BY <1>0, <3>1, <3>2
    <2>4. \A z : z \in Holding(E2, o, j) \/ z \in Holding(E, o, j) => z \in DOMAIN E \/ z = y
      BY <1>2 DEF Holding
    <2>5. y \notin Holding(E, o, j)
      BY <1>2 DEF Holding
    <2>6. CASE inc /\ j = k
      <3>1. \A z : z \in Holding(E2, o, j) <=> z \in Holding(E, o, j) \union {y}
        BY <2>2, <2>3, <2>4, <2>6
      <3> QED BY <2>6, <3>1
    <2>7. CASE ~(inc /\ j = k)
      <3>1. \A z : z \in Holding(E2, o, j) <=> z \in Holding(E, o, j)
        BY <2>2, <2>3, <2>4, <2>5, <2>7
      <3> QED BY <2>7, <3>1
    <2> QED BY <2>6, <2>7
  <1>8. ASSUME NEW j \in DOMAIN G \ {Main} PROVE CountOK(E2, G2, o, j)
    <2>1. CountOK(E, G, o, j) /\ G[j].ref \in Nat
      BY DEF GuardsExact
    <2>2. /\ IsFiniteSet(Holding(E, o, j)) /\ Cardinality(Holding(E, o, j)) \in Nat
          /\ y \notin Holding(E, o, j)
      <3>1. IsFiniteSet(DOMAIN E)
        BY DEF FramesSound
      <3>2. y \notin Holding(E, o, j)
        BY <1>2 DEF Holding
      <3> QED BY <3>1, <3>2, HoldingFinite
    <2>3. CASE inc /\ j = k
      <3>1. Cardinality(Holding(E2, o, j)) = Cardinality(Holding(E, o, j)) + 1
        BY <1>7, <2>2, <2>3, FS_AddElement
      <3>2. G2[j].ref = G[j].ref + 1
        BY <1>4, <2>3
      <3> QED BY <1>0, <2>1, <2>2, <3>1, <3>2 DEF CountOK
    <2>4. CASE ~(inc /\ j = k)
      <3>1. Holding(E2, o, j) = Holding(E, o, j) /\ G2[j] = G[j]
        BY <1>4, <1>7, <2>4
      <3> QED BY <2>1, <3>1 DEF CountOK
    <2> QED BY <2>3, <2>4
  <1>9. inc => k # Main
    BY <1>1, <1>2 DEF GraphUse, Active
  <1>10. /\ \A j \in DOMAIN G : G2[j].ref \in Nat \ {0}
         /\ Main \in DOMAIN G => G2[Main].ref = 1 /\ G2[Main].adj = g.adj
    BY <1>3, <1>4, <1>9 DEF GuardsExact
  <1>11. ASSUME NEW j \in DOMAIN G \ {Main}, s = 1
         PROVE  /\ G2[j].ref = 1 /\ <<j, 1>> \in DOMAIN E2
                /\ E2[<<j, 1>>].gg = j /\ IsRoot(<<j, 1>>)
    BY <1>1, <1>2, <1>4, <1>11 DEF GuardsExact
  <1>12. ASSUME s = 1, NEW z \in DOMAIN E2, IsRoot(z), E2[z].gg = z[1]
         PROVE  z[1] \in DOMAIN G
    <2>1. z \in DOMAIN E /\ E[z].gg = z[1]
      BY <1>1, <1>2, <1>12
    <2> QED BY <1>12, <2>1 DEF GuardsExact
  <1>13. /\ DOMAIN G \subseteq SUBSET V
         /\ \A j \in DOMAIN G \ {Main} : s # 0
    BY DEF GuardsExact
  <1>14. GuardsExact(E2, G2, g, o)
    BY <1>4, <1>8, <1>10, <1>11, <1>12, <1>13 DEF GuardsExact
  <1> QED BY <1>5, <1>6, <1>14

\* The sets of a child call are in the pool of its own task, or on the heap.
LEMMA DescendPools ==
  ASSUME NEW g \in Graphs, NEW o \in Options, NEW E, NEW C, FramesSound(E), Nested(E),
         PoolsPrivate(E, C), PoolsExact(E, C, o),
         NEW x, NEW y, NEW v, NEW c, NEW E2, Descends(E, E2, x, y, g, v, c),
         c.mem = Heap \/ (c.mem = x[1] /\ c.mem = y[1]),
         NEW C2, Grown(C, C2, c.mem, 2)
  PROVE  PoolsPrivate(E2, C2) /\ PoolsExact(E2, C2, o)
  <1> DEFINE f == E[x]
             e == E2[x]
  <1>1. /\ f.pc = "loop" /\ e.pc = "loop" /\ e.mem = f.mem /\ e.cmem = f.cmem /\ x # y
    <2>1. Handed(E, E2, x, y, g, o, v, c)
      BY DescendFacts
    <2> QED BY <2>1 DEF Handed
  <1>2. /\ x \in DOMAIN E /\ c.pc = "start" /\ c.cmem = Heap /\ c \in FrameType
        /\ y \notin DOMAIN E /\ DOMAIN E2 = DOMAIN E \union {y} /\ E2[y] = c
        /\ \A z \in DOMAIN E : z # x => E2[z] = E[z]
    BY DEF Descends, ChildIn
  <1>3. c.mem \in SUBSET V /\ IsFiniteSet(DOMAIN E) /\ DOMAIN E \subseteq DOMAIN E2
    BY <1>2 DEF FramesSound, FrameType
  <1>4. c.mem # Heap => <<c.mem, 1>> \in DOMAIN E2
    BY <1>2 DEF Nested
  <1>5. \A t \in DOMAIN C : t \in DOMAIN C2
    BY DEF Grown
  <1>6. c.mem # Heap => c.mem \in DOMAIN C2
    BY DEF Grown
  <1>7. \A z \in DOMAIN E : E2[z].pc = E[z].pc /\ E2[z].mem = E[z].mem /\ E2[z].cmem = E[z].cmem
    BY <1>1, <1>2
  <1>8. PoolsPrivate(E2, C2)
    <2> SUFFICES ASSUME NEW z \in DOMAIN E2
                 PROVE  /\ E2[z].pc \in {"start", "loop"} =>
                             E2[z].mem \in {Heap} \union ({z[1]} \intersect DOMAIN C2)
                        /\ E2[z].pc = "start" => E2[z].cmem = Heap
                        /\ E2[z].pc = "loop" =>
                             E2[z].cmem \in {Heap} \union ({z[1]} \intersect DOMAIN C2)
      BY DEF PoolsPrivate
    <2>1. CASE z = y
      BY <1>2, <1>6, <2>1
    <2>2. CASE z \in DOMAIN E
      BY <1>5, <1>7, <2>2 DEF PoolsPrivate
    <2> QED BY <1>2, <2>1, <2>2
  <1>9. ASSUME NEW t \in (SUBSET V) \ {Heap}
        PROVE  PoolSize(E2, t) = PoolSize(E, t) + (IF t = c.mem THEN 2 ELSE 0)
    <2>1. CandsPooled(E2, t) = CandsPooled(E, t)
      <3>1. \A z : z \in CandsPooled(E2, t) <=> z \in CandsPooled(E, t)
        BY <1>2, <1>7 DEF CandsPooled
      <3> QED BY <3>1
    <2>2. y \notin SetsPooled(E, t)
      BY <1>2 DEF SetsPooled
    <2>3. IsFiniteSet(SetsPooled(E, t)) /\ Cardinality(CandsPooled(E, t)) \in Nat
          /\ Cardinality(SetsPooled(E, t)) \in Nat
      BY <1>3, PoolFinite
    <2>4. CASE t = c.mem
      <3>1. \A z : z \in SetsPooled(E2, t) <=> z \in SetsPooled(E, t) \union {y}
        BY <1>2, <1>7, <2>4 DEF SetsPooled
      <3>2. SetsPooled(E2, t) = SetsPooled(E, t) \union {y}
        BY <3>1
      <3>3. Cardinality(SetsPooled(E2, t)) = Cardinality(SetsPooled(E, t)) + 1
        BY <2>2, <2>3, <3>2, FS_AddElement
      <3> QED BY <2>1, <2>3, <2>4, <3>3 DEF PoolSize
    <2>5. CASE t # c.mem
      <3>1. \A z : z \in SetsPooled(E2, t) <=> z \in SetsPooled(E, t)
        BY <1>2, <1>7, <2>5 DEF SetsPooled
      <3>2. SetsPooled(E2, t) = SetsPooled(E, t)
        BY <3>1
      <3> QED BY <2>1, <2>3, <2>5, <3>2 DEF PoolSize
    <2> QED BY <2>4, <2>5
  <1>10. PoolsExact(E2, C2, o)
    <2>1. 2 \in Nat
      OBVIOUS
    <2> QED BY <1>3, <1>4, <1>9, <2>1, PoolsGrow
  <1> QED BY <1>8, <1>10

\* No task has the name of a task that is about to be created.
LEMMA SpawnNameNew ==
  ASSUME NEW g \in Graphs, NEW o, NEW E, FramesSound(E), FramesApart(E, g, o),
         NEW x \in DOMAIN E, E[x].pc = "loop", NEW v \in E[x].cand
  PROVE  <<E[x].R \union {v}, 1>> \notin DOMAIN E
  <1> DEFINE r == E[x].R \union {v}
             y == <<E[x].R \union {v}, 1>>
  <1>1. E[x].cand \subseteq E[x].P /\ E[x].P \intersect E[x].R = {}
    BY DEF FramesSound, FrameSound
  <1>2. v \in E[x].P /\ v \notin E[x].R
    BY <1>1
  <1>3. SUFFICES ASSUME y \in DOMAIN E PROVE FALSE
    OBVIOUS
  <1>4. y[1] = r /\ y[2] = 1
    OBVIOUS
  <1>5. E[y].R = r
    BY <1>3, <1>4 DEF FramesSound, FrameSound
  <1>6. y # x
    BY <1>2, <1>5
  <1>7. Apart(g, o, E[y], E[x])
    BY <1>3, <1>6 DEF FramesApart
  <1>8. r \subseteq Span(g, o, E[x]) /\ E[x].R \subseteq r /\ r \subseteq Span(g, o, E[y])
    BY <1>2, <1>5 DEF Span
  <1> QED BY <1>5, <1>7, <1>8 DEF Apart

-----------------------------------------------------------------------------
(***************************************************************************)
(* A root task makes its sets.                                             *)
(***************************************************************************)
RootStart(g, o, r, f) ==
  /\ f \in FrameType /\ f.pc = "start" /\ f.R = r /\ f.cand = {} /\ f.gg = Main
  /\ f.mem = Heap /\ f.cmem = Heap
  /\ \A v \in r : f.P = RootP(g, o, v) /\ f.X = RootX(g, o, v)

\* create_root_sets preserves the invariant of the view.
LEMMA RootSetsView ==
  ASSUME NEW g \in Graphs, NEW o \in Options, ~Faulty(o), NEW E, NEW G, NEW C,
         ViewOK(E, G, C, g, o), Nested(E), Main \in DOMAIN G,
         NEW x \in DOMAIN E, E[x].pc = "new",
         NEW f, RootStart(g, o, x[1], f), NEW E2, E2 = [E EXCEPT ![x] = f]
  PROVE  ViewOK(E2, G, C, g, o)
  <1> USE DEF ViewOK
  <1>1. /\ DOMAIN E2 = DOMAIN E /\ E2[x] = f
        /\ \A y \in DOMAIN E : y # x => E2[y] = E[y]
    OBVIOUS
  <1>2. IsRoot(x) /\ E[x] = RootFrame(x[1]) /\ FrameSound(x, E[x])
    BY DEF FramesSound, FrameSound
  <1>3. PICK v \in V : x[1] = {v}
    BY <1>2 DEF IsRoot
  <1>4. /\ f \in FrameType /\ f.pc = "start" /\ f.R = {v} /\ f.cand = {} /\ f.gg = Main
        /\ f.mem = Heap /\ f.cmem = Heap /\ f.P = RootP(g, o, v) /\ f.X = RootX(g, o, v)
    BY <1>3, Zenon DEF RootStart
  <1>5. /\ E[x].R = {v} /\ E[x].pc = "new" /\ E[x].gg = Main /\ E[x].mem = Heap
        /\ E[x].cmem = Heap
    BY <1>2, <1>3 DEF RootFrame, Frame
  <1>6. f.P = {u \in g.adj[v] : Later(g, o, u, v)} /\ f.X = g.adj[v] \ f.P
    BY <1>4 DEF RootP, RootX
  <1>7. v \notin g.adj[v] /\ g.adj[v] \subseteq V
    BY GraphFacts
  <1>8. FrameSound(x, f)
    BY <1>2, <1>3, <1>4, <1>6, <1>7 DEF FrameSound
  <1>9. FramesSound(E2)
    BY <1>1, <1>8 DEF FramesSound
  <1>10. Span(g, o, f) = Span(g, o, E[x])
    <2>1. Span(g, o, f) = {v} \union RootP(g, o, v)
      BY <1>4 DEF Span
    <2>2. Span(g, o, E[x]) = {v} \union UNION {RootP(g, o, w) : w \in {v}}
      BY <1>5, Zenon DEF Span
    <2>3. UNION {RootP(g, o, w) : w \in {v}} = RootP(g, o, v)
      OBVIOUS
    <2> QED BY <2>1, <2>2, <2>3
  <1>11. Narrows(E, E2, x, g, o)
    <2>1. f.R = E[x].R
      BY <1>4, <1>5
    <2> QED BY <1>1, <1>5, <1>10, <2>1 DEF Narrows
  <1>12. FramesApart(E2, g, o)
    BY <1>11, NarrowsApart
  <1>13. NamesApart(E2, G, g, o)
    BY <1>11, NarrowsNames
  <1>14. FramesSee(E2, G, g)
    <2>1. G[Main].adj = g.adj
      BY DEF GuardsExact
    <2>2. \A u \in V : Adj(G, Main, u) = g.adj[u]
      BY <2>1, GraphFacts DEF Adj
    <2>3. f.P \subseteq V /\ f.X \subseteq V
      BY <1>4 DEF FrameType
    <2>4. SeesGraph(G, g, f)
      BY <1>4, <2>2, <2>3 DEF SeesGraph
    <2> QED BY <1>1, <2>4 DEF FramesSee
  <1>15. /\ \A y \in DOMAIN E : E2[y].gg = E[y].gg /\ (Active(E2[y]) <=> Active(E[y]))
         /\ \A y \in DOMAIN E : E2[y].pc = "loop" <=> E[y].pc = "loop"
         /\ \A y \in DOMAIN E : E2[y].pc \in {"new", "start"} <=> E[y].pc \in {"new", "start"}
    BY <1>1, <1>4, <1>5 DEF Active
  <1>16. GraphUse(E2, o)
    <2>1. \A y \in DOMAIN E : <<y[1], 1>> \in DOMAIN E
      BY DEF Nested
    <2>2. ASSUME NEW y \in DOMAIN E, o.subgraphBased \in {1, 2}
          PROVE  E2[y].gg = E2[<<y[1], 1>>].gg
      BY <1>15, <2>1, <2>2 DEF GraphUse
    <2> SUFFICES ASSUME NEW y \in DOMAIN E
                 PROVE  LET h == E2[y]
                            s == o.subgraphBased
                            unopened == IsRoot(y) /\ h.pc \in {"new", "start"}
                        IN  /\ unopened => h.gg = Main
                            /\ s = 0 => h.gg = Main
                            /\ s \in {1, 2} => h.gg = E2[<<y[1], 1>>].gg
                            /\ s = 1 /\ IsRoot(y) =>
                                 h.gg \in {Main, y[1]} /\ (h.pc = "loop" => h.gg = y[1])
                            /\ s \in {2, 3} /\ Active(h) /\ ~unopened => h.gg # Main
      BY <1>1 DEF GraphUse
    <2> QED BY <1>15, <2>2 DEF GraphUse
  <1>17. GuardsExact(E2, G, g, o)
    <2>1. \A j : Holding(E2, o, j) = Holding(E, o, j)
      BY <1>1, <1>15 DEF Holding
    <2>2. \A j : CountOK(E, G, o, j) => CountOK(E2, G, o, j)
      BY <2>1 DEF CountOK
    <2>3. ASSUME NEW j \in DOMAIN G \ {Main}
          PROVE  /\ CountOK(E2, G, o, j)
                 /\ o.subgraphBased # 0
                 /\ o.subgraphBased = 1 =>
                      /\ G[j].ref = 1 /\ <<j, 1>> \in DOMAIN E2
                      /\ E2[<<j, 1>>].gg = j /\ IsRoot(<<j, 1>>)
      <3>1. /\ CountOK(E, G, o, j)
            /\ o.subgraphBased # 0
            /\ o.subgraphBased = 1 =>
                 /\ G[j].ref = 1 /\ <<j, 1>> \in DOMAIN E
                 /\ E[<<j, 1>>].gg = j /\ IsRoot(<<j, 1>>)
        BY DEF GuardsExact
      <3>2. DOMAIN E2 = DOMAIN E /\ \A y \in DOMAIN E : E2[y].gg = E[y].gg
        BY <1>1, <1>15
      <3> QED BY <2>2, <3>1, <3>2
    <2>4. ASSUME o.subgraphBased = 1, NEW y \in DOMAIN E2, IsRoot(y), E2[y].gg = y[1]
          PROVE  y[1] \in DOMAIN G
      BY <1>1, <1>15, <2>4 DEF GuardsExact
    <2> QED BY <2>3, <2>4 DEF GuardsExact
  <1>18. PoolsPrivate(E2, C)
    BY <1>1, <1>4 DEF PoolsPrivate
  <1>19. PoolsExact(E2, C, o)
    <2>1. ASSUME NEW t, t # Heap
          PROVE  SetsPooled(E2, t) = SetsPooled(E, t) /\ CandsPooled(E2, t) = CandsPooled(E, t)
      <3>1. \A y : y \in SetsPooled(E2, t) <=> y \in SetsPooled(E, t)
        BY <1>1, <1>4, <1>5, <2>1 DEF SetsPooled
      <3>2. \A y : y \in CandsPooled(E2, t) <=> y \in CandsPooled(E, t)
        BY <1>1, <1>4, <1>5, <2>1 DEF CandsPooled
      <3> QED BY <3>1, <3>2
    <2>2. \A t \in DOMAIN C : PoolSize(E2, t) = PoolSize(E, t)
      BY <2>1 DEF PoolSize, PoolsExact
    <2> QED BY <1>1, <2>2 DEF PoolsExact
  <1> QED BY <1>9, <1>12, <1>13, <1>14, <1>16, <1>17, <1>18, <1>19

-----------------------------------------------------------------------------
(***************************************************************************)
(* The continuation of task t: the task and its pool are gone, and with    *)
(* -s 1 the subgraph of a root task.                                       *)
(***************************************************************************)
Destroys(E, E2, C, C2, t) ==
  /\ <<t, 1>> \in DOMAIN E /\ E[<<t, 1>>].pc = "cont"
  /\ \A y \in DOMAIN E : y[1] = t => y = <<t, 1>>
  /\ E2 = Drop(E, <<t, 1>>)
  /\ C2 = Drop(C, t)

\* Destroying a task preserves the invariant of the view.
LEMMA DestroyView ==
  ASSUME NEW g \in Graphs, NEW o \in Options, ~Faulty(o), NEW E, NEW G, NEW C,
         ViewOK(E, G, C, g, o), Nested(E), NEW t, NEW E2, NEW C2, Destroys(E, E2, C, C2, t),
         NEW rel \in BOOLEAN,
         o.subgraphBased = 1 /\ IsRoot(<<t, 1>>) /\ E[<<t, 1>>].gg = t <=> rel,
         rel => \A y \in DOMAIN E : Active(E[y]) => E[y].gg # t,
         NEW G2, IF rel THEN G2 = dec_graph_ref_count(G, t) ELSE G2 = G
  PROVE  ViewOK(E2, G2, C2, g, o)
  <1> USE DEF ViewOK
  <1> DEFINE x == <<t, 1>>
             s == o.subgraphBased
  <1>0. o.max_clq_size \in Int /\ s \in 0..3
    BY TaskOptionsAssumption DEF Faulty
  <1>1. /\ x \in DOMAIN E /\ E[x].pc = "cont" /\ DOMAIN E2 = DOMAIN E \ {x}
        /\ \A y \in DOMAIN E2 : E2[y] = E[y] /\ y[1] # t
    BY DEF Destroys, Drop
  <1>2. /\ DOMAIN C2 = DOMAIN C \ {t} /\ IsFcn(C2)
        /\ \A u \in DOMAIN C2 : C2[u] = C[u]
    BY DEF Destroys, Drop, IsFcn
  <1>3. FramesSound(E2)
    <2>1. IsFiniteSet(DOMAIN E2)
      BY <1>1, FS_RemoveElement DEF FramesSound
    <2> QED BY <1>1, <2>1 DEF FramesSound
  <1>4. Narrows(E, E2, x, g, o)
    BY <1>1 DEF Narrows
  <1>5. FramesApart(E2, g, o)
    BY <1>4, NarrowsApart
  <1>6. \A y \in DOMAIN E2 : <<y[1], 1>> \in DOMAIN E2
    BY <1>1 DEF Nested
  <1>7. GraphUse(E2, o)
    BY <1>1, <1>6 DEF GraphUse
  <1>8. PoolsPrivate(E2, C2)
    BY <1>1, <1>2 DEF PoolsPrivate
  <1>9. PoolsExact(E2, C2, o)
    <2>1. \A u : SetsPooled(E2, u) = SetsPooled(E, u) /\ CandsPooled(E2, u) = CandsPooled(E, u)
      BY <1>1 DEF SetsPooled, CandsPooled
    <2>2. \A u : PoolSize(E2, u) = PoolSize(E, u)
      BY <2>1 DEF PoolSize
    <2>3. \A u \in DOMAIN C2 : <<u, 1>> \in DOMAIN E2
      BY <1>1, <1>2 DEF PoolsExact
    <2> QED BY <1>2, <2>2, <2>3 DEF PoolsExact
  <1>10. ASSUME NEW j \in DOMAIN G \ {Main}, j # t \/ ~rel
         PROVE  /\ Holding(E2, o, j) = Holding(E, o, j)
                /\ s = 1 => j # t
    <2>1. s = 1 => j # t
      BY <1>10 DEF GuardsExact
    <2>2. x \notin Holding(E, o, j)
      BY <1>1, <2>1 DEF Holding, Active
    <2>3. \A y : y \in Holding(E2, o, j) <=> y \in Holding(E, o, j)
      BY <1>1, <2>2 DEF Holding
    <2> QED BY <2>1, <2>3
  <1>11. CASE rel
    <2>1. t \in DOMAIN G /\ t # Main /\ G[t].ref = 1
      <3>1. t \in DOMAIN G
        BY <1>1, <1>11 DEF GuardsExact
      <3>2. t # Main
        BY <1>11 DEF IsRoot, Main
      <3> QED BY <1>11, <3>1, <3>2 DEF GuardsExact
    <2>2. Released(G, G2, t)
      <3>1. G[t].ref \in Nat \ {0} /\ G2 = dec_graph_ref_count(G, t)
        BY <1>11, <2>1
      <3> QED BY <2>1, <3>1, DecFacts
    <2>3. /\ DOMAIN G2 = DOMAIN G \ {t} /\ IsFcn(G2)
          /\ \A j \in DOMAIN G2 : G2[j] = G[j]
      BY <2>1, <2>2 DEF Released
    <2>4. NamesApart(E2, G2, g, o)
      BY <1>4, <2>3, NarrowsNames
    <2>5. FramesSee(E2, G2, g)
      <3> SUFFICES ASSUME NEW y \in DOMAIN E2, Active(E2[y]) PROVE SeesGraph(G2, g, E2[y])
        BY DEF FramesSee
      <3>1. SeesGraph(G, g, E[y]) /\ E2[y] = E[y] /\ E[y].gg # t
        BY <1>1, <1>11 DEF FramesSee
      <3>2. Kept(G, G2, E[y].gg)
        BY <2>3, <3>1 DEF Kept, SeesGraph
      <3> QED BY <3>1, <3>2, KeptSees
    <2>6. ASSUME NEW j \in DOMAIN G2 \ {Main}
          PROVE  /\ CountOK(E2, G2, o, j)
                 /\ s # 0
                 /\ s = 1 => /\ G2[j].ref = 1 /\ <<j, 1>> \in DOMAIN E2
                             /\ E2[<<j, 1>>].gg = j /\ IsRoot(<<j, 1>>)
      <3>1. j \in DOMAIN G \ {Main} /\ j # t /\ G2[j] = G[j]
        BY <2>3
      <3>2. CountOK(E2, G2, o, j)
        BY <1>10, <3>1 DEF GuardsExact, CountOK
      <3>3. <<j, 1>> # x
        BY <3>1
      <3> QED BY <1>1, <3>1, <3>2, <3>3 DEF GuardsExact
    <2>7. ASSUME NEW y \in DOMAIN E2, IsRoot(y), E2[y].gg = y[1], s = 1
          PROVE  y[1] \in DOMAIN G2
      BY <1>1, <2>3, <2>7 DEF GuardsExact
    <2>8. GuardsExact(E2, G2, g, o)
      BY <2>3, <2>6, <2>7 DEF GuardsExact
    <2> QED BY <1>3, <1>5, <1>7, <1>8, <1>9, <2>4, <2>5, <2>8
  <1>12. CASE ~rel
    <2>0. G2 = G
      BY <1>12
    <2>1. NamesApart(E2, G, g, o)
      BY <1>4, NarrowsNames
    <2>2. FramesSee(E2, G, g)
      BY <1>1 DEF FramesSee
    <2>3. ASSUME NEW j \in DOMAIN G \ {Main}
          PROVE  /\ CountOK(E2, G, o, j)
                 /\ s # 0
                 /\ s = 1 => /\ G[j].ref = 1 /\ <<j, 1>> \in DOMAIN E2
                             /\ E2[<<j, 1>>].gg = j /\ IsRoot(<<j, 1>>)
      <3>1. CountOK(E2, G, o, j)
        BY <1>10, <1>12 DEF GuardsExact, CountOK
      <3>2. s = 1 => <<j, 1>> # x
        BY <1>10, <1>12
      <3> QED BY <1>1, <3>1, <3>2 DEF GuardsExact
    <2>4. ASSUME NEW y \in DOMAIN E2, IsRoot(y), E2[y].gg = y[1], s = 1
          PROVE  y[1] \in DOMAIN G
      BY <1>1, <2>4 DEF GuardsExact
    <2>5. GuardsExact(E2, G, g, o)
      BY <2>3, <2>4 DEF GuardsExact
    <2> QED BY <1>3, <1>5, <1>7, <1>8, <1>9, <2>0, <2>1, <2>2, <2>5
  <1> QED BY <1>11, <1>12

\* Nothing is left in the pool of a task that is destroyed.
LEMMA DestroyedEmpty ==
  ASSUME NEW o, NEW E, NEW C, PoolsPrivate(E, C), PoolsExact(E, C, o), o.max_clq_size < 0,
         NEW t \in DOMAIN C, NEW E2, NEW C2, Destroys(E, E2, C, C2, t)
  PROVE  C[t] = 0
  <1>1. t # Heap
    BY DEF PoolsExact
  <1>2. SetsPooled(E, t) = {} /\ CandsPooled(E, t) = {}
    BY <1>1 DEF SetsPooled, CandsPooled, PoolsPrivate, Destroys
  <1>3. Cardinality({}) = 0
    BY FS_EmptySet
  <1>4. PoolSize(E, t) = 0
    BY <1>2, <1>3 DEF PoolSize
  <1> QED BY <1>4 DEF PoolsExact

-----------------------------------------------------------------------------
(***************************************************************************)
(* The steps on the view as a whole.                                       *)
(***************************************************************************)

\* The sets of the frame f are deleted, or --max-clq has stopped f.
Shrunk(C, C2, f, o) ==
  /\ IsFcn(C2) /\ DOMAIN C2 = DOMAIN C
  /\ \/ C2 = C /\ o.max_clq_size >= 0
     \/ \A t \in DOMAIN C :
          C2[t] = C[t] - (IF f.mem = t THEN 2 ELSE 0)
                       - (IF f.pc = "loop" /\ f.cmem = t THEN 1 ELSE 0)

\* A return preserves the invariant of the view.
LEMMA LeaveView ==
  ASSUME NEW g, NEW o \in Options, NEW E, NEW G, NEW C, ViewOK(E, G, C, g, o),
         Nested(E), NEW x \in DOMAIN E, Running(E, x),
         E[x].pc \in {"start", "loop"}, E[x].cand = {},
         NEW rel \in BOOLEAN,
         rel => MustRelease(E, o, x),
         ~rel => ~MustRelease(E, o, x) \/ o.max_clq_size >= 0,
         NEW G2, G2 = IF rel THEN dec_graph_ref_count(G, E[x].gg) ELSE G,
         NEW C2, Shrunk(C, C2, E[x], o)
  PROVE  ViewOK(Left(E, x), G2, C2, g, o)
  <1> USE DEF ViewOK
  <1>1. FramesSound(Left(E, x)) /\ FramesApart(Left(E, x), g, o) /\ GraphUse(Left(E, x), o)
    BY LeaveFrames
  <1>2. /\ NamesApart(Left(E, x), G2, g, o)
        /\ FramesSee(Left(E, x), G2, g)
        /\ GuardsExact(Left(E, x), G2, g, o)
    BY LeaveGuards
  <1>3. PoolsPrivate(Left(E, x), C2) /\ PoolsExact(Left(E, x), C2, o)
    BY LeavePools DEF Shrunk
  <1> QED BY <1>1, <1>2, <1>3

\* Choosing candidates preserves the invariant of the view.
LEMMA OpenView ==
  ASSUME NEW g, NEW o \in Options, ~Faulty(o), NEW E, NEW G, NEW C, ViewOK(E, G, C, g, o),
         Nested(E), NEW x \in DOMAIN E, Running(E, x), NEW h, OpensTo(E[x], h),
         h.gg = IF Creates(o, x) THEN E[x].R ELSE E[x].gg,
         h.cmem \in {Heap, x[1]},
         NEW E2, E2 = [E EXCEPT ![x] = h],
         NEW node, NEW G2, OpenedGraph(E, G, G2, o, x, node),
         NEW C2, Grown(C, C2, h.cmem, 1)
  PROVE  ViewOK(E2, G2, C2, g, o)
  <1> USE DEF ViewOK
  <1>1. FramesSound(E2) /\ FramesApart(E2, g, o)
    BY OpenFrames
  <1>2. GraphUse(E2, o)
    BY OpenGraphUse
  <1>3. NamesApart(E2, G2, g, o) /\ FramesSee(E2, G2, g) /\ GuardsExact(E2, G2, g, o)
    BY OpenGuards
  <1>4. PoolsPrivate(E2, C2) /\ PoolsExact(E2, C2, o)
    BY OpenPools
  <1> QED BY <1>1, <1>2, <1>3, <1>4

\* An iteration preserves the invariant of the view.
LEMMA DescendView ==
  ASSUME NEW g \in Graphs, NEW o \in Options, ~Faulty(o), NEW E, NEW G, NEW C,
         ViewOK(E, G, C, g, o), Nested(E),
         NEW x, NEW y, NEW v, NEW c, NEW E2, Descends(E, E2, x, y, g, v, c),
         NEW G2,
         IF o.subgraphBased = 3 \/ (o.subgraphBased = 2 /\ y[2] = 1)
         THEN G2 = inc_graph_ref_count(G, E[x].gg) ELSE G2 = G,
         c.mem = Heap \/ (c.mem = x[1] /\ c.mem = y[1]),
         NEW C2, Grown(C, C2, c.mem, 2)
  PROVE  ViewOK(E2, G2, C2, g, o)
  <1> USE DEF ViewOK
  <1>1. FramesSound(E2) /\ FramesApart(E2, g, o) /\ GraphUse(E2, o)
    BY DescendFrames
  <1>2. NamesApart(E2, G2, g, o) /\ FramesSee(E2, G2, g) /\ GuardsExact(E2, G2, g, o)
    BY DescendGuards
  <1>3. PoolsPrivate(E2, C2) /\ PoolsExact(E2, C2, o)
    BY DescendPools
  <1> QED BY <1>1, <1>2, <1>3

\* One set leaves the pool m.
Less(C, C2, m) ==
  /\ IsFcn(C2) /\ DOMAIN C2 = DOMAIN C
  /\ \A t \in DOMAIN C : C2[t] \in Int /\ C2[t] = IF t = m THEN C[t] - 1 ELSE C[t]

\* delete_set takes one set out of one pool.
LEMMA DeleteLess ==
  ASSUME NEW C, IsFcn(C), \A t \in DOMAIN C : C[t] \in Int, NEW m
  PROVE  Less(C, delete_set(C, m), m)
  <1>1. CASE m \in DOMAIN C
    BY <1>1 DEF Less, delete_set, IsFcn
  <1>2. CASE m \notin DOMAIN C
    BY <1>2 DEF Less, delete_set, IsFcn
  <1> QED BY <1>1, <1>2

\* StartTask with P empty deletes P and X.
LEMMA ExitShrinks ==
  ASSUME NEW E, NEW C, NEW o, PoolsExact(E, C, o), NEW f, f.pc = "start"
  PROVE  Shrunk(C, delete_set(delete_set(C, f.mem), f.mem), f, o)
  <1> DEFINE D == delete_set(C, f.mem)
             A == delete_set(D, f.mem)
  <1>1. IsFcn(C) /\ \A t \in DOMAIN C : C[t] \in Int
    <2>1. IsFcn(C) /\ \A t \in DOMAIN C : C[t] \in Nat
      BY DEF PoolsExact
    <2> QED BY <2>1
  <1>2. Less(C, D, f.mem)
    BY <1>1, DeleteLess
  <1> HIDE DEF D
  <1>3. Less(D, A, f.mem)
    BY <1>2, DeleteLess DEF Less
  <1> HIDE DEF A
  <1>4. IsFcn(A) /\ DOMAIN A = DOMAIN C
    BY <1>2, <1>3 DEF Less
  <1>5. ASSUME NEW t \in DOMAIN C
        PROVE  A[t] = C[t] - (IF f.mem = t THEN 2 ELSE 0)
                           - (IF f.pc = "loop" /\ f.cmem = t THEN 1 ELSE 0)
    BY <1>1, <1>2, <1>3 DEF Less
  <1>6. Shrunk(C, A, f, o)
    BY <1>4, <1>5 DEF Shrunk
  <1> QED BY <1>6 DEF A, D

\* The end of a loop deletes P, X and cand.
LEMMA LoopShrinks ==
  ASSUME NEW E, NEW C, NEW o, PoolsExact(E, C, o), NEW f, f.pc = "loop"
  PROVE  Shrunk(C, DeleteAll(C, f), f, o)
  <1> DEFINE D == delete_set(C, f.mem)
             A == delete_set(D, f.mem)
             B == delete_set(A, f.cmem)
  <1>1. IsFcn(C) /\ \A t \in DOMAIN C : C[t] \in Int
    <2>1. IsFcn(C) /\ \A t \in DOMAIN C : C[t] \in Nat
      BY DEF PoolsExact
    <2> QED BY <2>1
  <1>2. Less(C, D, f.mem)
    BY <1>1, DeleteLess
  <1> HIDE DEF D
  <1>3. Less(D, A, f.mem)
    BY <1>2, DeleteLess DEF Less
  <1> HIDE DEF A
  <1>4. Less(A, B, f.cmem)
    BY <1>3, DeleteLess DEF Less
  <1> HIDE DEF B
  <1>5. IsFcn(B) /\ DOMAIN B = DOMAIN C
    BY <1>2, <1>3, <1>4 DEF Less
  <1>6. ASSUME NEW t \in DOMAIN C
        PROVE  B[t] = C[t] - (IF f.mem = t THEN 2 ELSE 0)
                           - (IF f.pc = "loop" /\ f.cmem = t THEN 1 ELSE 0)
    BY <1>1, <1>2, <1>3, <1>4 DEF Less
  <1>7. Shrunk(C, B, f, o)
    BY <1>5, <1>6 DEF Shrunk
  <1> QED BY <1>7 DEF B, A, D, DeleteAll

-----------------------------------------------------------------------------
(***************************************************************************)
(* The tasks.                                                              *)
(***************************************************************************)
StackOK(s) ==
  /\ s \in Seq(FrameType) /\ Len(s) >= 1
  /\ \A i \in 1..Len(s) : i < Len(s) => s[i].pc = "loop"
  /\ \A i \in 1..Len(s) : i > 1 => s[i].pc \in {"start", "loop"}

\* T2 is T, with another NewGraph, ref and stack of task t.
Updated(T, T2, t, ng, n, s) ==
  /\ IsFcn(T2) /\ t \in DOMAIN T /\ DOMAIN T2 = DOMAIN T
  /\ T2[t] = Task(T[t].parent, ng, n, s)
  /\ \A u \in DOMAIN T : u # t => T2[u] = T[u]

\* The fields of a task.
LEMMA TaskFields ==
  ASSUME NEW p, NEW ng, NEW n, NEW s
  PROVE  /\ Task(p, ng, n, s).parent = p /\ Task(p, ng, n, s).NewGraph = ng
         /\ Task(p, ng, n, s).ref = n /\ Task(p, ng, n, s).stack = s
  BY DEF Task

\* Only a task that has begun its loop has children.
LEMMA NoChildren ==
  ASSUME NEW T, NEW todo, TasksSound(T, todo), NEW t \in DOMAIN T,
         T[t].stack[1].pc \notin {"loop", "cont"}
  PROVE  ChildrenOf(T, t) = {} /\ Cardinality(ChildrenOf(T, t)) = 0
  <1>1. t # Main
    BY DEF TasksSound, TaskSound
  <1>2. ChildrenOf(T, t) = {}
    BY <1>1, ZenonT(60) DEF ChildrenOf, TasksSound, TaskSound
  <1> QED BY <1>2, FS_EmptySet

\* The children of a task can be counted.
LEMMA TasksFinite ==
  ASSUME NEW T, NEW todo, TasksSound(T, todo)
  PROVE  /\ IsFiniteSet(DOMAIN T)
         /\ \A t : IsFiniteSet(ChildrenOf(T, t)) /\ Cardinality(ChildrenOf(T, t)) \in Nat
  <1>1. DOMAIN T \subseteq SUBSET V
    BY DEF TasksSound, TaskSound
  <1>2. IsFiniteSet(SUBSET V)
    BY TaskVAssumption, FS_SUBSET
  <1>3. IsFiniteSet(DOMAIN T)
    BY <1>1, <1>2, FS_Subset
  <1>4. \A t : ChildrenOf(T, t) \subseteq DOMAIN T
    BY DEF ChildrenOf
  <1> QED BY <1>3, <1>4, FS_Subset, FS_CardinalityType

\* A change of one task that keeps its count exact preserves the invariant of
\* the tasks.
LEMMA TaskUpdate ==
  ASSUME NEW T, NEW r, NEW o, TasksSound(T, r.todo), RefsExact(T, r), FlagsOK(T, o),
         NEW T2, NEW t, NEW ng \in BOOLEAN, NEW n, NEW s, Updated(T, T2, t, ng, n, s),
         StackOK(s),
         T[t].stack[1].pc \in {"loop", "cont"} =>
            s[1].pc \in {"loop", "cont"} /\ s[1].gg = T[t].stack[1].gg,
         n = Cardinality(ChildrenOf(T, t)) + (IF s[1].pc = "loop" THEN 1 ELSE 0),
         FlagOK(T2, o, t)
  PROVE  TasksSound(T2, r.todo) /\ RefsExact(T2, r) /\ FlagsOK(T2, o)
  <1>1. /\ IsFcn(T2) /\ t \in DOMAIN T /\ DOMAIN T2 = DOMAIN T
        /\ T2[t].parent = T[t].parent /\ T2[t].NewGraph = ng /\ T2[t].ref = n /\ T2[t].stack = s
        /\ \A u \in DOMAIN T : u # t => T2[u] = T[u]
    BY TaskFields DEF Updated
  <1>2. \A u : ChildrenOf(T2, u) = ChildrenOf(T, u)
    BY <1>1 DEF ChildrenOf
  <1>3. n \in Nat
    <2>1. Cardinality(ChildrenOf(T, t)) \in Nat
      BY TasksFinite
    <2> QED BY <2>1
  <1>4. ASSUME NEW u \in DOMAIN T, u # Main, T[u].parent # Main
        PROVE  LET p == T[u].parent
               IN  /\ p \in DOMAIN T
                   /\ T2[p].stack[1].pc \in {"loop", "cont"}
                   /\ T2[p].stack[1].gg = T[p].stack[1].gg
    <2> DEFINE p == T[u].parent
    <2>1. p \in DOMAIN T /\ T[p].stack[1].pc \in {"loop", "cont"}
      BY <1>4 DEF TasksSound, TaskSound
    <2>2. CASE p = t
      BY <1>1, <2>1, <2>2
    <2>3. CASE p # t
      BY <1>1, <2>1, <2>3
    <2> QED BY <2>1, <2>2, <2>3
  <1>5. TasksSound(T2, r.todo)
    <2>1. ASSUME NEW u \in DOMAIN T PROVE TaskSound(T2, u)
      <3>1. TaskSound(T, u) /\ T2[u].parent = T[u].parent
        BY <1>1 DEF TasksSound
      <3>2. CASE u = t
        <4>1. TaskSound(T, t)
          BY <3>1, <3>2
        <4>2. T[t].parent # Main => T2[T[t].parent].stack[1].pc \in {"loop", "cont"}
          BY <1>1, <1>4, <4>1 DEF TaskSound
        <4> HIDE DEF Main
        <4> QED BY <1>1, <1>3, <3>2, <4>1, <4>2 DEF TaskSound, StackOK
      <3>3. CASE u # t
        <4>1. T2[u] = T[u]
          BY <1>1, <3>3
        <4>2. T[u].parent # Main => T2[T[u].parent].stack[1].pc \in {"loop", "cont"}
          BY <1>4, <3>1 DEF TaskSound
        <4> QED BY <1>1, <3>1, <4>1, <4>2 DEF TaskSound
      <3> QED BY <3>2, <3>3
    <2> QED BY <1>1, <2>1 DEF TasksSound
  <1>6. RefsExact(T2, r)
    <2>1. ASSUME NEW u \in DOMAIN T PROVE RefExact(T2, u)
      <3>1. CASE u = t
        BY <1>1, <1>2, <3>1 DEF RefExact
      <3>2. CASE u # t
        BY <1>1, <1>2, <3>2 DEF RefsExact, RefExact
      <3> QED BY <3>1, <3>2
    <2> QED BY <1>1, <1>2, <2>1 DEF RefsExact
  <1>7. FlagsOK(T2, o)
    <2>1. ASSUME NEW u \in DOMAIN T, u # t PROVE FlagOK(T2, o, u)
      <3>1. FlagOK(T, o, u) /\ T2[u] = T[u] /\ u # Main
        BY <1>1, <2>1 DEF FlagsOK, TasksSound, TaskSound
      <3>2. T[u].parent # Main => T2[T[u].parent].stack[1].gg = T[T[u].parent].stack[1].gg
        BY <1>4, <3>1
      <3> QED BY <3>1, <3>2 DEF FlagOK
    <2> QED BY <1>1, <2>1 DEF FlagsOK
  <1> QED BY <1>5, <1>6, <1>7

\* Task t has created the task k for a child call.
Spawned(T, T2, t, k, ng, c) ==
  /\ IsFcn(T2) /\ t \in DOMAIN T /\ DOMAIN T2 = DOMAIN T \union {k}
  /\ T2[k] = Task(t, ng, 0, <<c>>)
  /\ T2[t] = Task(T[t].parent, T[t].NewGraph, T[t].ref + 1, T[t].stack)
  /\ \A u \in DOMAIN T : u # t => T2[u] = T[u]

\* A spawned task is counted by its parent.
LEMMA TaskSpawn ==
  ASSUME NEW T, NEW r, NEW o, TasksSound(T, r.todo), RefsExact(T, r), FlagsOK(T, o),
         NEW T2, NEW t, NEW k \in SUBSET V, NEW ng \in BOOLEAN, NEW c \in FrameType,
         Spawned(T, T2, t, k, ng, c), k \notin DOMAIN T, \A v \in r.todo : {v} # k,
         t \subseteq k, t # k, ~IsRoot(<<k, 1>>), c.pc = "start",
         T[t].stack[1].pc = "loop",
         o.subgraphBased \in {0, 1} => ~ng,
         o.subgraphBased \in {2, 3} => ng,
         o.subgraphBased = 1 => c.gg = T[t].stack[1].gg
  PROVE  TasksSound(T2, r.todo) /\ RefsExact(T2, r) /\ FlagsOK(T2, o)
  <1>0. t \in DOMAIN T /\ TaskSound(T, t)
    BY DEF Spawned, TasksSound
  <1>a. t # Main /\ k # Main /\ t # k
    BY <1>0 DEF TaskSound, Main
  <1>1. /\ IsFcn(T2) /\ DOMAIN T2 = DOMAIN T \union {k}
        /\ T2[k].parent = t /\ T2[k].NewGraph = ng /\ T2[k].ref = 0 /\ T2[k].stack = <<c>>
        /\ T2[t].ref = T[t].ref + 1
        /\ \A u \in DOMAIN T : /\ T2[u].parent = T[u].parent /\ T2[u].NewGraph = T[u].NewGraph
                               /\ T2[u].stack = T[u].stack
                               /\ u # t => T2[u].ref = T[u].ref
    BY TaskFields DEF Spawned
  <1>2. StackOK(<<c>>) /\ <<c>>[1] = c
    BY DEF StackOK
  <1>3. /\ \A u : u # t => ChildrenOf(T2, u) = ChildrenOf(T, u)
        /\ ChildrenOf(T2, t) = ChildrenOf(T, t) \union {k}
        /\ k \notin ChildrenOf(T, t)
    BY <1>1 DEF ChildrenOf
  <1>4. ChildrenOf(T2, k) = {}
    <2>1. \A u \in DOMAIN T : T[u].parent # k
      BY <1>a, ZenonT(60) DEF TasksSound, TaskSound
    <2> QED BY <1>1, <1>a, <2>1 DEF ChildrenOf
  <1>5. /\ Cardinality(ChildrenOf(T, t)) \in Nat
        /\ Cardinality(ChildrenOf(T2, t)) = Cardinality(ChildrenOf(T, t)) + 1
    <2> DEFINE S == ChildrenOf(T, t)
    <2>1. IsFiniteSet(S) /\ Cardinality(S) \in Nat
      BY TasksFinite
    <2>2. ChildrenOf(T2, t) = S \union {k} /\ k \notin S
      BY <1>3
    <2> HIDE DEF S
    <2>3. Cardinality(S \union {k}) = Cardinality(S) + 1
      BY <2>1, <2>2, FS_AddElement
    <2> QED BY <2>1, <2>2, <2>3 DEF S
  <1>6. TasksSound(T2, r.todo)
    <2>1. ASSUME NEW u \in DOMAIN T PROVE TaskSound(T2, u)
      <3>1. TaskSound(T, u)
        BY DEF TasksSound
      <3>2. T2[u].ref \in Nat
        BY <1>1, <3>1 DEF TaskSound
      <3>3. T[u].parent # Main => T2[T[u].parent].stack = T[T[u].parent].stack
        BY <1>1, <3>1 DEF TaskSound
      <3> QED BY <1>1, <3>1, <3>2, <3>3 DEF TaskSound
    <2>2. TaskSound(T2, k)
      <3>1. T2[t].stack[1].pc = "loop" /\ t \in DOMAIN T2
        BY <1>0, <1>1
      <3>2. t \in SUBSET V
        BY <1>0 DEF TaskSound
      <3>3. 0 \in Nat
        OBVIOUS
      <3> HIDE DEF Main
      <3> QED BY <1>1, <1>2, <1>a, <3>1, <3>2, <3>3 DEF TaskSound, StackOK
    <2> QED BY <1>1, <2>1, <2>2 DEF TasksSound
  <1>7. RefsExact(T2, r)
    <2>1. ASSUME NEW u \in DOMAIN T PROVE RefExact(T2, u)
      <3>1. RefExact(T, u)
        BY DEF RefsExact
      <3>2. CASE u = t
        <4> DEFINE w == IF T[t].stack[1].pc = "loop" THEN 1 ELSE 0
        <4>1. w \in Nat
          OBVIOUS
        <4>2. T[t].ref = Cardinality(ChildrenOf(T, t)) + w
          BY <3>1, <3>2 DEF RefExact
        <4>3. T2[t].stack = T[t].stack
          BY <1>0, <1>1
        <4> HIDE DEF w
        <4>4. T2[t].ref = Cardinality(ChildrenOf(T2, t)) + w
          BY <1>1, <1>5, <4>1, <4>2
        <4> QED BY <3>2, <4>3, <4>4 DEF RefExact, w
      <3>3. CASE u # t
        BY <1>1, <1>3, <3>1, <3>3 DEF RefExact
      <3> QED BY <3>2, <3>3
    <2>2. RefExact(T2, k)
      <3>1. T2[k].stack[1].pc # "loop" /\ T2[k].ref = 0 /\ Cardinality(ChildrenOf(T2, k)) = 0
        BY <1>1, <1>2, <1>4, FS_EmptySet
      <3> QED BY <3>1 DEF RefExact
    <2>3. ChildrenOf(T2, Main) = ChildrenOf(T, Main)
      BY <1>3, <1>a
    <2> QED BY <1>1, <2>1, <2>2, <2>3 DEF RefsExact
  <1>8. FlagsOK(T2, o)
    <2>1. ASSUME NEW u \in DOMAIN T PROVE FlagOK(T2, o, u)
      <3>1. FlagOK(T, o, u) /\ TaskSound(T, u)
        BY DEF FlagsOK, TasksSound
      <3>2. T[u].parent # Main => T2[T[u].parent].stack = T[T[u].parent].stack
        BY <1>1, <3>1 DEF TaskSound
      <3> QED BY <1>1, <3>1, <3>2 DEF FlagOK
    <2>2. FlagOK(T2, o, k)
      <3>1. T2[t].stack[1].gg = T[t].stack[1].gg
        BY <1>0, <1>1
      <3> QED BY <1>1, <1>2, <1>a, <3>1 DEF FlagOK
    <2> QED BY <1>1, <2>1, <2>2 DEF FlagsOK
  <1> QED BY <1>6, <1>7, <1>8

\* The parallel_for of the root task has spawned the task of v.
LEMMA TaskRootSpawn ==
  ASSUME NEW T, NEW r, NEW o, TasksSound(T, r.todo), RefsExact(T, r), FlagsOK(T, o),
         r.todo \in SUBSET V, NEW v \in r.todo, NEW ng \in BOOLEAN,
         o.subgraphBased = 0 => ~ng,
         o.subgraphBased \in {1, 2, 3} => ng,
         NEW T2, Added(T, T2, {v}, Task(Main, ng, 0, <<RootFrame({v})>>)),
         NEW r2, r2.ref = r.ref, r2.pc = r.pc, r2.todo = r.todo \ {v}
  PROVE  TasksSound(T2, r2.todo) /\ RefsExact(T2, r2) /\ FlagsOK(T2, o)
  <1> DEFINE k == {v}
             c == RootFrame({v})
  <1>0. v \in V /\ k \in SUBSET V /\ k # Main /\ k \notin DOMAIN T /\ IsRoot(<<k, 1>>)
    BY DEF TasksSound, IsRoot, Main
  <1>c. c \in FrameType /\ c.pc = "new" /\ c.gg = Main
    BY <1>0, FrameFacts DEF RootFrame, Pcs, Main, Heap
  <1>d. \A w \in r2.todo : {w} \notin DOMAIN T /\ {w} # k
    BY DEF TasksSound
  <1> DEFINE w == Task(Main, ng, 0, <<c>>)
  <1>e. Added(T, T2, k, w)
    OBVIOUS
  <1>f. w.parent = Main /\ w.NewGraph = ng /\ w.ref = 0 /\ w.stack = <<c>>
    BY TaskFields
  <1> HIDE DEF k, c, w
  <1>1. /\ IsFcn(T2) /\ DOMAIN T2 = DOMAIN T \union {k}
        /\ T2[k].parent = Main /\ T2[k].NewGraph = ng /\ T2[k].ref = 0 /\ T2[k].stack = <<c>>
        /\ \A u \in DOMAIN T : T2[u] = T[u]
    BY <1>0, <1>e, <1>f DEF Added
  <1>2. StackOK(<<c>>) /\ <<c>>[1] = c
    BY <1>c DEF StackOK
  <1>3. /\ \A u : u # Main => ChildrenOf(T2, u) = ChildrenOf(T, u)
        /\ ChildrenOf(T2, Main) = ChildrenOf(T, Main) \union {k}
        /\ k \notin ChildrenOf(T, Main)
    BY <1>0, <1>1 DEF ChildrenOf
  <1>4. ChildrenOf(T2, k) = {}
    <2>1. \A u \in DOMAIN T : T[u].parent # k
      BY <1>0, ZenonT(60) DEF TasksSound, TaskSound
    <2> QED BY <1>0, <1>1, <2>1 DEF ChildrenOf
  <1>5. /\ Cardinality(ChildrenOf(T, Main)) \in Nat
        /\ Cardinality(ChildrenOf(T2, Main)) = Cardinality(ChildrenOf(T, Main)) + 1
    <2> DEFINE S == ChildrenOf(T, Main)
    <2>1. IsFiniteSet(S) /\ Cardinality(S) \in Nat
      BY TasksFinite
    <2>2. ChildrenOf(T2, Main) = S \union {k} /\ k \notin S
      BY <1>3
    <2> HIDE DEF S
    <2>3. Cardinality(S \union {k}) = Cardinality(S) + 1
      BY <2>1, <2>2, FS_AddElement
    <2> QED BY <2>1, <2>2, <2>3 DEF S
  <1>6. TasksSound(T2, r2.todo)
    <2>1. ASSUME NEW u \in DOMAIN T PROVE TaskSound(T2, u)
      <3>1. TaskSound(T, u)
        BY DEF TasksSound
      <3> QED BY <1>1, <3>1 DEF TaskSound
    <2>2. TaskSound(T2, k)
      <3>1. 0 \in Nat /\ Main \in SUBSET V
        BY DEF Main
      <3> HIDE DEF Main
      <3> QED BY <1>0, <1>1, <1>2, <3>1 DEF TaskSound, StackOK
    <2> QED BY <1>1, <1>d, <2>1, <2>2 DEF TasksSound
  <1>7. RefsExact(T2, r2)
    <2>1. ASSUME NEW u \in DOMAIN T PROVE RefExact(T2, u)
      <3>1. RefExact(T, u) /\ u # Main
        BY DEF RefsExact, TasksSound, TaskSound
      <3> QED BY <1>1, <1>3, <3>1 DEF RefExact
    <2>2. RefExact(T2, k)
      <3>1. T2[k].stack[1].pc # "loop" /\ T2[k].ref = 0 /\ Cardinality(ChildrenOf(T2, k)) = 0
        BY <1>1, <1>2, <1>4, <1>c, FS_EmptySet
      <3> QED BY <3>1 DEF RefExact
    <2>3. /\ Cardinality(r.todo) \in Nat
          /\ Cardinality(r2.todo) = Cardinality(r.todo) - 1
      <3>1. IsFiniteSet(r.todo)
        BY VertexSets
      <3> QED BY <3>1, FS_RemoveElement, FS_CardinalityType
    <2>4. r2.ref = Cardinality(ChildrenOf(T2, Main)) + Cardinality(r2.todo)
                     + (IF r2.pc = "spawn" THEN 1 ELSE 0)
      <3> DEFINE one == IF r.pc = "spawn" THEN 1 ELSE 0
      <3>1. one \in Nat
        OBVIOUS
      <3>2. r.ref = Cardinality(ChildrenOf(T, Main)) + Cardinality(r.todo) + one
        BY DEF RefsExact
      <3>3. one = IF r2.pc = "spawn" THEN 1 ELSE 0
        OBVIOUS
      <3> HIDE DEF one
      <3>4. r2.ref = Cardinality(ChildrenOf(T2, Main)) + Cardinality(r2.todo) + one
        BY <1>5, <2>3, <3>1, <3>2
      <3> QED BY <3>3, <3>4
    <2> QED BY <1>1, <2>1, <2>2, <2>4 DEF RefsExact
  <1>8. FlagsOK(T2, o)
    <2>1. ASSUME NEW u \in DOMAIN T PROVE FlagOK(T2, o, u)
      <3>1. FlagOK(T, o, u) /\ TaskSound(T, u)
        BY DEF FlagsOK, TasksSound
      <3>2. T[u].parent # Main => T2[T[u].parent] = T[T[u].parent]
        BY <1>1, <3>1 DEF TaskSound
      <3> QED BY <1>1, <3>1, <3>2 DEF FlagOK
    <2>2. FlagOK(T2, o, k)
      BY <1>1, <1>2, <1>c DEF FlagOK
    <2> QED BY <1>1, <2>1, <2>2 DEF FlagsOK
  <1> QED BY <1>6, <1>7, <1>8

\* TBB destroys t: its parent, or the root task, waits for one child less.
TaskGone(T, T2, t) ==
  /\ IsFcn(T2) /\ DOMAIN T2 = DOMAIN T \ {t}
  /\ \A u \in DOMAIN T2 : u # T[t].parent => T2[u] = T[u]
  /\ T[t].parent # Main =>
       T2[T[t].parent] = Task(T[T[t].parent].parent, T[T[t].parent].NewGraph,
                              T[T[t].parent].ref - 1, T[T[t].parent].stack)

Told(T, r, r2, t) ==
  /\ r2.pc = r.pc /\ r2.todo = r.todo
  /\ r2.ref = IF T[t].parent = Main THEN r.ref - 1 ELSE r.ref

\* Destroying a task whose count is 0: it has no children, and its parent is
\* told.
LEMMA TaskDestroy ==
  ASSUME NEW T, NEW r, NEW o, TasksSound(T, r.todo), RefsExact(T, r), FlagsOK(T, o),
         r.todo \in SUBSET V, NEW t \in DOMAIN T, T[t].ref = 0, T[t].stack[1].pc = "cont",
         NEW T2, TaskGone(T, T2, t), NEW r2, Told(T, r, r2, t)
  PROVE  /\ ChildrenOf(T, t) = {}
         /\ TasksSound(T2, r2.todo) /\ RefsExact(T2, r2) /\ FlagsOK(T2, o)
         /\ r.ref \in Nat /\ r2.ref \in Nat
  <1>a. /\ IsFcn(T2) /\ DOMAIN T2 = DOMAIN T \ {t}
        /\ \A u \in DOMAIN T2 : u # T[t].parent => T2[u] = T[u]
        /\ T[t].parent # Main =>
             T2[T[t].parent] = Task(T[T[t].parent].parent, T[T[t].parent].NewGraph,
                                    T[T[t].parent].ref - 1, T[T[t].parent].stack)
        /\ r2.pc = r.pc /\ r2.todo = r.todo
        /\ r2.ref = IF T[t].parent = Main THEN r.ref - 1 ELSE r.ref
    BY DEF TaskGone, Told
  <1> USE <1>a
  <1> DEFINE p == T[t].parent
  <1>0. TaskSound(T, t) /\ RefExact(T, t)
    BY DEF TasksSound, RefsExact
  <1>1. ChildrenOf(T, t) = {}
    <2>1. Cardinality(ChildrenOf(T, t)) = 0
      <3>1. Cardinality(ChildrenOf(T, t)) \in Nat
        BY TasksFinite
      <3> QED BY <1>0, <3>1 DEF RefExact
    <2>2. IsFiniteSet(ChildrenOf(T, t))
      BY TasksFinite
    <2> QED BY <2>1, <2>2, FS_EmptySet
  <1>2. p # Main => p \in DOMAIN T /\ p # t /\ p \in DOMAIN T2
    BY <1>0 DEF TaskSound
  <1>3. \A u \in DOMAIN T2 : /\ T2[u].parent = T[u].parent /\ T2[u].NewGraph = T[u].NewGraph
                             /\ T2[u].stack = T[u].stack
                             /\ u # p => T2[u].ref = T[u].ref
                             /\ u = p /\ p # Main => T2[u].ref = T[u].ref - 1
    <2> SUFFICES ASSUME NEW u \in DOMAIN T2
                 PROVE  /\ T2[u].parent = T[u].parent /\ T2[u].NewGraph = T[u].NewGraph
                        /\ T2[u].stack = T[u].stack
                        /\ u # p => T2[u].ref = T[u].ref
                        /\ u = p /\ p # Main => T2[u].ref = T[u].ref - 1
      OBVIOUS
    <2>1. u # Main
      BY DEF TasksSound, TaskSound
    <2>2. CASE u = p
      <3>1. T2[p] = Task(T[p].parent, T[p].NewGraph, T[p].ref - 1, T[p].stack)
        BY <2>1, <2>2
      <3> HIDE DEF p
      <3> QED BY <2>2, <3>1, TaskFields
    <2>3. CASE u # p
      BY <2>3
    <2> QED BY <2>2, <2>3
  <1>4. \A u : ChildrenOf(T2, u) = ChildrenOf(T, u) \ {t}
    BY <1>3 DEF ChildrenOf
  <1>5. \A u : u # p => ChildrenOf(T2, u) = ChildrenOf(T, u)
    BY <1>3 DEF ChildrenOf
  <1>6. /\ Cardinality(ChildrenOf(T, p)) \in Nat
        /\ Cardinality(ChildrenOf(T2, p)) = Cardinality(ChildrenOf(T, p)) - 1
        /\ Cardinality(ChildrenOf(T2, p)) \in Nat
    <2> DEFINE S == ChildrenOf(T, p)
    <2>1. IsFiniteSet(S) /\ Cardinality(S) \in Nat
      BY TasksFinite
    <2>2. ChildrenOf(T2, p) = S \ {t} /\ t \in S
      BY <1>4 DEF ChildrenOf
    <2> HIDE DEF S
    <2>3. IsFiniteSet(S \ {t}) /\ Cardinality(S \ {t}) = Cardinality(S) - 1
      BY <2>1, <2>2, FS_RemoveElement
    <2>4. Cardinality(S \ {t}) \in Nat
      BY <2>3, FS_CardinalityType
    <2> QED BY <2>1, <2>2, <2>3, <2>4 DEF S
  <1>7. ASSUME NEW u \in DOMAIN T2, T[u].parent # Main
        PROVE  T[u].parent \in DOMAIN T2 /\ T2[T[u].parent].stack = T[T[u].parent].stack
    <2>1. T[u].parent \in DOMAIN T
      BY <1>7 DEF TasksSound, TaskSound
    <2>2. T[u].parent # t
      BY <1>1 DEF ChildrenOf
    <2> QED BY <1>3, <2>1, <2>2
  <1>8. \A u \in DOMAIN T2 : RefExact(T2, u)
    <2> SUFFICES ASSUME NEW u \in DOMAIN T2 PROVE RefExact(T2, u)
      OBVIOUS
    <2>1. RefExact(T, u) /\ T2[u].stack = T[u].stack /\ u # Main
      BY <1>3, ZenonT(60) DEF RefsExact, TasksSound, TaskSound
    <2>2. CASE u = p
      <3> DEFINE w == IF T[u].stack[1].pc = "loop" THEN 1 ELSE 0
      <3>1. w \in Nat
        OBVIOUS
      <3>2. T[u].ref = Cardinality(ChildrenOf(T, u)) + w
        BY <2>1 DEF RefExact
      <3> HIDE DEF w
      <3>3. T2[u].ref = Cardinality(ChildrenOf(T2, u)) + w
        BY <1>3, <1>6, <2>1, <2>2, <3>1, <3>2
      <3> QED BY <2>1, <3>3 DEF RefExact, w
    <2>3. CASE u # p
      BY <1>3, <1>5, <2>1, <2>3 DEF RefExact
    <2> QED BY <2>2, <2>3
  <1>9. TasksSound(T2, r2.todo)
    <2>1. ASSUME NEW u \in DOMAIN T2 PROVE TaskSound(T2, u)
      <3>1. TaskSound(T, u) /\ RefExact(T2, u)
        BY <1>8 DEF TasksSound
      <3>2. T2[u].ref \in Nat
        <4>1. CASE u = p
          <5>1. Cardinality(ChildrenOf(T2, u)) \in Nat
            BY <1>6, <4>1
          <5> QED BY <3>1, <5>1 DEF RefExact
        <4>2. CASE u # p
          BY <1>3, <3>1, <4>2 DEF TaskSound
        <4> QED BY <4>1, <4>2
      <3> QED BY <1>3, <1>7, <3>1, <3>2, SMTT(30) DEF TaskSound
    <2> QED BY <2>1 DEF TasksSound
  <1>10. /\ RefsExact(T2, r2) /\ r.ref \in Nat /\ r2.ref \in Nat
    <2> DEFINE w == IF r.pc = "spawn" THEN 1 ELSE 0
               a == Cardinality(r.todo)
               b == Cardinality(ChildrenOf(T, Main))
               b2 == Cardinality(ChildrenOf(T2, Main))
    <2>1. w \in Nat /\ a \in Nat /\ b \in Nat
      BY TasksFinite, VertexSets
    <2>2. r.ref = b + a + w
      BY DEF RefsExact
    <2>3. b2 \in Nat /\ r2.ref = b2 + a + w
      <3>1. CASE p = Main
        <4>1. b2 = b - 1 /\ b2 \in Nat /\ r2.ref = r.ref - 1
          BY <1>6, <3>1
        <4> HIDE DEF w, a, b, b2
        <4> QED BY <2>1, <2>2, <4>1
      <3>2. CASE p # Main
        <4>1. b2 = b /\ r2.ref = r.ref
          BY <1>5, <3>2
        <4> HIDE DEF w, a, b, b2
        <4> QED BY <2>1, <2>2, <4>1
      <3> QED BY <3>1, <3>2
    <2>4. r2.ref = b2 + Cardinality(r2.todo) + (IF r2.pc = "spawn" THEN 1 ELSE 0)
      BY <2>3
    <2>5. RefsExact(T2, r2)
      BY <1>8, <2>4 DEF RefsExact
    <2> HIDE DEF w, a, b, b2
    <2> QED BY <2>1, <2>2, <2>3, <2>5
  <1>11. FlagsOK(T2, o)
    <2>1. ASSUME NEW u \in DOMAIN T2 PROVE FlagOK(T2, o, u)
      <3>1. FlagOK(T, o, u)
        BY DEF FlagsOK
      <3> QED BY <1>3, <1>7, <3>1 DEF FlagOK
    <2> QED BY <2>1 DEF FlagsOK
  <1> QED BY <1>1, <1>9, <1>10, <1>11

-----------------------------------------------------------------------------
(***************************************************************************)
(* Tasks and view together.                                                *)
(***************************************************************************)
RunsAt(T, todo, t, x) ==
  LET E == View(T, todo)
      n == Len(T[t].stack)
  IN  /\ n \in Nat /\ n >= 1 /\ x = <<t, n>> /\ x[1] = t /\ x[2] = n
      /\ x \in DOMAIN E /\ E[x] = T[t].stack[n] /\ Running(E, x)
      /\ <<t, 1>> \in DOMAIN E /\ E[<<t, 1>>] = T[t].stack[1]
      /\ IsRoot(x) <=> T[t].parent = Main /\ n = 1
      /\ \A v \in todo : {v} # t

\* Sound tasks have stacks of frames.
LEMMA StacksSound ==
  ASSUME NEW T, NEW todo, TasksSound(T, todo)
  PROVE  StacksOK(T) /\ \A t \in DOMAIN T : StackOK(T[t].stack)
  BY DEF TasksSound, TaskSound, StacksOK, StackOK

\* The frames of a stack are nested: only the last one runs.
LEMMA ViewNested ==
  ASSUME NEW T, NEW todo, TasksSound(T, todo)
  PROVE  Nested(View(T, todo))
  <1> DEFINE E == View(T, todo)
  <1>0. StacksOK(T)
    BY StacksSound
  <1>1. DOMAIN E = Sites(T, todo) /\ \A x \in Sites(T, todo) : E[x] = FrameAt(T, x)
    BY <1>0, SiteIff
  <1> HIDE DEF E
  <1> SUFFICES ASSUME NEW y \in Sites(T, todo)
               PROVE  /\ y = <<y[1], y[2]>> /\ <<y[1], 1>> \in Sites(T, todo)
                      /\ y[2] # 1 => E[<<y[1], 1>>].pc = "loop"
    BY <1>1 DEF Nested, E
  <1>2. y = <<y[1], y[2]>>
    BY <1>0, SiteIff
  <1>3. \/ y[1] \in DOMAIN T /\ y[2] \in 1..Len(T[y[1]].stack)
        \/ y[2] = 1 /\ \E v \in todo : y[1] = {v}
    BY <1>0, <1>2, SiteIff
  <1>4. CASE y[1] \in DOMAIN T /\ y[2] \in 1..Len(T[y[1]].stack)
    <2> DEFINE s == T[y[1]].stack
    <2>1. StackOK(s)
      BY <1>4, StacksSound
    <2>2. Len(s) \in Nat /\ 1 \in 1..Len(s)
      BY <2>1 DEF StackOK
    <2>3. <<y[1], 1>> \in Sites(T, todo)
      BY <1>0, <1>4, <2>2, SiteIff
    <2>4. E[<<y[1], 1>>] = s[1]
      <3>1. <<y[1], 1>>[1] = y[1] /\ <<y[1], 1>>[2] = 1
        OBVIOUS
      <3> QED BY <1>1, <1>4, <2>3, <3>1 DEF FrameAt
    <2>5. y[2] # 1 => s[1].pc = "loop"
      <3> HIDE DEF s
      <3> QED BY <1>4, <2>1, <2>2 DEF StackOK, s
    <2> QED BY <1>2, <2>3, <2>4, <2>5
  <1>5. CASE y[2] = 1 /\ \E v \in todo : y[1] = {v}
    BY <1>2, <1>5
  <1> QED BY <1>3, <1>4, <1>5

\* The site of the running frame of a task.
LEMMA SiteOfTask ==
  ASSUME NEW T, NEW todo, TasksSound(T, todo), NEW t \in DOMAIN T
  PROVE  RunsAt(T, todo, t, <<t, Len(T[t].stack)>>)
  <1> DEFINE E == View(T, todo)
             s == T[t].stack
             n == Len(T[t].stack)
             x == <<t, n>>
  <1>0. StacksOK(T) /\ StackOK(s)
    BY StacksSound
  <1>1. n \in Nat /\ n >= 1 /\ 1 \in 1..n /\ n \in 1..n
    BY <1>0 DEF StackOK
  <1>2. DOMAIN E = Sites(T, todo) /\ \A y \in Sites(T, todo) : E[y] = FrameAt(T, y)
    BY <1>0, SiteIff
  <1>3. x \in Sites(T, todo) /\ <<t, 1>> \in Sites(T, todo)
    BY <1>0, <1>1, SiteIff
  <1> HIDE DEF n
  <1>4. FrameAt(T, x) = s[n] /\ FrameAt(T, <<t, 1>>) = s[1]
    BY DEF FrameAt
  <1>5. \A v \in todo : {v} # t
    BY DEF TasksSound
  <1>6. Running(E, x)
    <2> SUFFICES ASSUME n = 1, NEW y \in Sites(T, todo), y[1] = t PROVE y = x
      BY <1>2 DEF Running
    <2>1. y = <<y[1], y[2]>>
      BY <1>0, SiteIff
    <2>2. <<t, y[2]>> \in Sites(T, todo)
      BY <2>1
    <2>3. y[2] \in 1..n
      BY <1>0, <1>5, <2>2, SiteIff DEF n
    <2>4. y[2] = 1
      BY <2>3
    <2> QED BY <2>1, <2>4
  <1>7. IsRoot(x) <=> T[t].parent = Main /\ n = 1
    <2>1. T[t].parent = Main <=> IsRoot(<<t, 1>>)
      BY DEF TasksSound, TaskSound
    <2> QED BY <2>1 DEF IsRoot
  <1>8. /\ n \in Nat /\ n >= 1 /\ x[1] = t /\ x[2] = n
        /\ x \in DOMAIN E /\ E[x] = s[n] /\ <<t, 1>> \in DOMAIN E /\ E[<<t, 1>>] = s[1]
    BY <1>1, <1>2, <1>3, <1>4
  <1> QED BY <1>5, <1>6, <1>7, <1>8 DEF RunsAt, n

(***************************************************************************)
(* With -s 1 a subgraph is used below its root task only: when that task   *)
(* has no children left, it can be deleted.                                *)
(***************************************************************************)
LEMMA SubgraphUnused ==
  ASSUME NEW T, NEW r, NEW o, TasksSound(T, r.todo), FlagsOK(T, o), o.subgraphBased = 1,
         GraphUse(View(T, r.todo), o),
         NEW t \in DOMAIN T, ChildrenOf(T, t) = {}, T[t].stack[1].pc = "cont",
         NEW y \in DOMAIN View(T, r.todo), Active(View(T, r.todo)[y])
  PROVE  View(T, r.todo)[y].gg # t
  <1> DEFINE E == View(T, r.todo)
             A == {u \in DOMAIN T : u # t /\ T[u].stack[1].gg = t}
  <1>0. t # Main /\ StacksOK(T)
    BY StacksSound DEF TasksSound, TaskSound
  <1>1. ASSUME NEW u \in A PROVE \E w \in A : w \subseteq u /\ w # u
    <2> DEFINE p == T[u].parent
    <2>1. RunsAt(T, r.todo, u, <<u, Len(T[u].stack)>>)
      BY SiteOfTask
    <2>2. <<u, 1>> \in DOMAIN E /\ E[<<u, 1>>] = T[u].stack[1]
      BY <2>1 DEF RunsAt
    <2>3. TaskSound(T, u) /\ FlagOK(T, o, u)
      BY DEF TasksSound, FlagsOK
    <2>4. p # Main
      <3>1. SUFFICES ASSUME p = Main PROVE FALSE
        OBVIOUS
      <3>2. IsRoot(<<u, 1>>) /\ <<u, 1>>[1] = u
        BY <2>3, <3>1 DEF TaskSound
      <3>3. E[<<u, 1>>].gg \in {Main, u}
        BY <2>2, <3>2 DEF GraphUse
      <3> QED BY <1>0, <2>2, <3>3
    <2>5. p \in DOMAIN T /\ p \subseteq u /\ p # u /\ T[p].stack[1].gg = t
      BY <2>3, <2>4 DEF TaskSound, FlagOK
    <2>6. p # t
      BY DEF ChildrenOf
    <2> QED BY <2>5, <2>6
  <1>2. A = {}
    <2>1. SUFFICES ASSUME A # {} PROVE FALSE
      OBVIOUS
    <2> DEFINE B == {Cardinality(u) : u \in A}
    <2>2. \A u \in A : u \in SUBSET V
      BY DEF TasksSound, TaskSound
    <2>3. B \in SUBSET Nat /\ B # {}
      BY <2>1, <2>2, VertexSets
    <2> HIDE DEF A
    <2>4. PICK m \in B : \A k \in B : <<k, m>> \notin OpToRel(<, Nat)
      <3> HIDE DEF B
      <3> QED BY <2>3, NatLessThanWellFounded, WFMin
    <2>5. PICK u \in A : m = Cardinality(u)
      BY <2>4
    <2>6. PICK w \in A : w \subseteq u /\ w # u
      BY <1>1
    <2>7. Cardinality(w) < Cardinality(u) /\ Cardinality(w) \in Nat /\ Cardinality(u) \in Nat
      BY <2>2, <2>6, VertexSets
    <2>8. Cardinality(w) \in B
      OBVIOUS
    <2>9. <<Cardinality(w), Cardinality(u)>> \in OpToRel(<, Nat)
      BY <2>7 DEF OpToRel
    <2> QED BY <2>4, <2>5, <2>8, <2>9
  <1>3. SUFFICES ASSUME E[y].gg = t PROVE FALSE
    OBVIOUS
  <1> DEFINE z == <<y[1], 1>>
  <1>4. E[z].gg = t
    BY <1>3 DEF GraphUse
  <1>5. y = <<y[1], y[2]>> /\ z \in DOMAIN E /\ (y[2] # 1 => E[z].pc = "loop")
    BY ViewNested DEF Nested
  <1>6. y[1] \in DOMAIN T
    <2>1. SUFFICES ASSUME y[1] \notin DOMAIN T PROVE FALSE
      OBVIOUS
    <2>2. E[z] = RootFrame(y[1])
      <3>1. z \in Sites(T, r.todo) /\ E[z] = FrameAt(T, z) /\ z[1] = y[1]
        BY <1>0, <1>5, SiteIff
      <3> QED BY <2>1, <3>1 DEF FrameAt
    <2> QED BY <1>0, <1>4, <2>2, FrameFacts DEF RootFrame
  <1>7. E[z] = T[y[1]].stack[1]
    <2>1. RunsAt(T, r.todo, y[1], <<y[1], Len(T[y[1]].stack)>>)
      BY <1>6, SiteOfTask
    <2> QED BY <2>1 DEF RunsAt
  <1>8. y[1] = t
    BY <1>2, <1>4, <1>6, <1>7
  <1>9. y[2] = 1
    BY <1>5, <1>7, <1>8
  <1> QED BY <1>5, <1>7, <1>8, <1>9 DEF Active

-----------------------------------------------------------------------------
(***************************************************************************)
(* The steps on tasks and view together.                                   *)
(***************************************************************************)
LEMMA GoodFacts ==
  ASSUME NEW T, NEW G, NEW C, NEW r, NEW g, NEW o, Good(T, G, C, r, g, o), NEW t \in DOMAIN T
  PROVE  /\ RunsAt(T, r.todo, t, <<t, Len(T[t].stack)>>)
         /\ Nested(View(T, r.todo)) /\ ViewOK(View(T, r.todo), G, C, g, o)
         /\ TasksSound(T, r.todo) /\ StacksOK(T) /\ StackOK(T[t].stack)
         /\ TaskSound(T, t) /\ FlagOK(T, o, t) /\ RefExact(T, t)
         /\ Main \in DOMAIN G /\ r.todo \in SUBSET V
  <1>1. TasksSound(T, r.todo) /\ ViewOK(View(T, r.todo), G, C, g, o) /\ RootOK(T, G, r)
    BY DEF Good
  <1>2. r.pc # "done" /\ Main \in DOMAIN G
    BY <1>1 DEF RootOK
  <1>3. TaskSound(T, t) /\ FlagOK(T, o, t) /\ RefExact(T, t) /\ r.todo \in SUBSET V
    BY DEF Good, FlagsOK, RefsExact, TasksSound, RootOK
  <1> QED BY <1>1, <1>2, <1>3, SiteOfTask, ViewNested, StacksSound

\* The root task sees no difference.
LEMMA SameRoot ==
  ASSUME NEW T, NEW G, NEW r, RootOK(T, G, r), NEW t \in DOMAIN T, NEW T2, NEW G2,
         Main \in DOMAIN G2
  PROVE  RootOK(T2, G2, r)
  BY DEF RootOK

\* Releasing a subgraph does not delete the input graph.
LEMMA DecKeepsMain ==
  ASSUME NEW G, NEW k, k # Main, Main \in DOMAIN G
  PROVE  Main \in DOMAIN dec_graph_ref_count(G, k)
  BY DEF dec_graph_ref_count, Drop, Counted

\* The running call of t is over; n is the count of a continuation.
Returned(T, T2, t, ng) ==
  IF Len(T[t].stack) = 1
  THEN Updated(T, T2, t, ng, Cardinality(ChildrenOf(T, t)),
               <<[T[t].stack[1] EXCEPT !.pc = "cont"]>>)
  ELSE Updated(T, T2, t, T[t].NewGraph, T[t].ref, Front(T[t].stack))

\* A return preserves the invariant of the tasks.
LEMMA ReturnedTasks ==
  ASSUME NEW T, NEW r, NEW o, TasksSound(T, r.todo), RefsExact(T, r), FlagsOK(T, o),
         NEW T2, NEW t \in DOMAIN T, NEW ng \in BOOLEAN, Returned(T, T2, t, ng),
         Len(T[t].stack) = 1 =>
           /\ o.subgraphBased = 0 => ~ng
           /\ o.subgraphBased = 1 =>
                ng = (T[t].parent = Main /\ T[t].stack[1].gg = t),
         T[t].stack[Len(T[t].stack)].pc \in {"start", "loop"}
  PROVE  /\ TasksSound(T2, r.todo) /\ RefsExact(T2, r) /\ FlagsOK(T2, o)
         /\ View(T2, r.todo) = Left(View(T, r.todo), <<t, Len(T[t].stack)>>)
  <1> DEFINE s == T[t].stack
             n == Len(T[t].stack)
             x == <<t, n>>
             E == View(T, r.todo)
  <1>0. TaskSound(T, t) /\ FlagOK(T, o, t) /\ RefExact(T, t) /\ StackOK(s) /\ StacksOK(T)
    BY StacksSound DEF TasksSound, FlagsOK, RefsExact
  <1>1. RunsAt(T, r.todo, t, x)
    BY SiteOfTask
  <1>2. /\ n \in Nat /\ n >= 1 /\ x[2] = n /\ x \in DOMAIN E /\ E[x] = s[n]
        /\ \A v \in r.todo : {v} # t
    BY <1>1 DEF RunsAt
  <1>3. CASE n = 1
    <2> DEFINE h == [s[1] EXCEPT !.pc = "cont"]
    <2>1. s[1] \in FrameType /\ s[1].pc \in {"start", "loop"} /\ s = <<s[1]>>
      BY <1>0, <1>3 DEF StackOK
    <2>2. h \in FrameType /\ h.pc = "cont" /\ h.gg = s[1].gg
      BY <2>1 DEF FrameType, Pcs
    <2>3. Updated(T, T2, t, ng, Cardinality(ChildrenOf(T, t)), <<h>>)
      BY <1>3 DEF Returned
    <2>4. E[x] = s[1] /\ Left(E, x) = [E EXCEPT ![x] = h]
      BY <1>2, <1>3 DEF Left
    <2> HIDE DEF h
    <2>5. StackOK(<<h>>) /\ <<h>>[1] = h
      BY <2>2 DEF StackOK
    <2>6. T2[t].stack = <<h>> /\ T2[t].parent = T[t].parent /\ T2[t].NewGraph = ng
      BY <2>3, TaskFields DEF Updated
    <2>7. FlagOK(T2, o, t)
      <3>1. T[t].parent # Main => T[t].parent # t /\ T[t].parent \in DOMAIN T
        BY <1>0 DEF TaskSound
      <3>2. T[t].parent # Main => T2[T[t].parent] = T[T[t].parent]
        BY <2>3, <3>1 DEF Updated
      <3>3. ~Active(h)
        BY <2>2 DEF Active
      <3> HIDE DEF Main
      <3> QED BY <1>0, <1>3, <2>2, <2>5, <2>6, <3>2, <3>3 DEF FlagOK
    <2>8. Cardinality(ChildrenOf(T, t)) \in Nat
      BY TasksFinite
    <2>9. TasksSound(T2, r.todo) /\ RefsExact(T2, r) /\ FlagsOK(T2, o)
      <3>1. Cardinality(ChildrenOf(T, t)) =
              Cardinality(ChildrenOf(T, t)) + (IF <<h>>[1].pc = "loop" THEN 1 ELSE 0)
        BY <2>2, <2>5, <2>8
      <3> QED BY <2>2, <2>3, <2>5, <2>7, <3>1, TaskUpdate
    <2>10. View(T2, r.todo) = [E EXCEPT ![x] = h]
      <3>1. T2[t].stack = [T[t].stack EXCEPT ![Len(T[t].stack)] = h]
        BY <1>3, <2>1, <2>6
      <3>2. DOMAIN T2 = DOMAIN T /\ \A u \in DOMAIN T : u # t => T2[u].stack = T[u].stack
        BY <2>3 DEF Updated
      <3>3. StacksOK(T) /\ h \in FrameType
        BY <1>0, <2>2
      <3> HIDE DEF E, x, n, s
      <3>4. Restacked(T, T2, t, TopIs(T[t].stack, h))
        BY <3>1, <3>2 DEF Restacked, TopIs
      <3>5. View(T2, r.todo) = ViewWith(View(T, r.todo), <<t, Len(T[t].stack)>>, h)
        BY <3>3, <3>4, ReplaceTop
      <3> QED BY <3>5, Zenon DEF E, x, n, ViewWith
    <2> QED BY <2>4, <2>9, <2>10
  <1>4. CASE n # 1
    <2>0. n > 1
      <3>1. n \in Nat /\ n >= 1
        BY <1>2
      <3> HIDE DEF n
      <3> QED BY <1>4, <3>1
    <2>1. Updated(T, T2, t, T[t].NewGraph, T[t].ref, Front(s))
      BY <1>4 DEF Returned
    <2>2. T2[t].stack = Front(s) /\ T2[t].parent = T[t].parent /\ T2[t].NewGraph = T[t].NewGraph
      BY <2>1, TaskFields DEF Updated
    <2>3. StackOK(Front(s)) /\ Front(s)[1] = s[1] /\ s[1].pc = "loop"
      BY <1>0, <1>2, <2>0 DEF StackOK, Front
    <2>4. FlagOK(T2, o, t)
      <3>1. T[t].parent # Main => T[t].parent # t /\ T[t].parent \in DOMAIN T
        BY <1>0 DEF TaskSound
      <3>2. T[t].parent # Main => T2[T[t].parent] = T[T[t].parent]
        BY <2>1, <3>1 DEF Updated
      <3> HIDE DEF Main
      <3> QED BY <1>0, <2>2, <2>3, <3>2 DEF FlagOK
    <2>5. TasksSound(T2, r.todo) /\ RefsExact(T2, r) /\ FlagsOK(T2, o)
      <3>1. T[t].NewGraph \in BOOLEAN
        BY <1>0 DEF TaskSound
      <3>2. T[t].ref = Cardinality(ChildrenOf(T, t)) + (IF Front(s)[1].pc = "loop" THEN 1 ELSE 0)
        BY <1>0, <2>3 DEF RefExact
      <3> QED BY <2>1, <2>3, <2>4, <3>1, <3>2, TaskUpdate
    <2>6. View(T2, r.todo) = Drop(E, x)
      <3>1. DOMAIN T2 = DOMAIN T /\ \A u \in DOMAIN T : u # t => T2[u].stack = T[u].stack
        BY <2>1 DEF Updated
      <3> QED BY <1>0, <1>2, <2>0, <2>2, <3>1, ViewPop
    <2>7. Left(E, x) = Drop(E, x)
      BY <1>2, <1>4 DEF Left
    <2> QED BY <2>5, <2>6, <2>7
  <1> QED BY <1>3, <1>4

\* What a step of t makes of the view.
LeavesView(T, T2, todo, t) ==
  View(T2, todo) = Left(View(T, todo), <<t, Len(T[t].stack)>>)

TopsView(T, T2, todo, t, h) ==
  View(T2, todo) = ViewWith(View(T, todo), <<t, Len(T[t].stack)>>, h)

DescendsView(T, T2, todo, t, g, v, c) ==
  \E y : Descends(View(T, todo), View(T2, todo), <<t, Len(T[t].stack)>>, y, g, v, c)

KeepsView(T, T2, todo, todo2) == View(T2, todo2) = View(T, todo)

\* The running call f of t is over; rel says whether it releases its graph.
Must(T, t, f, o) ==
  /\ o.subgraphBased = 3 \/ (o.subgraphBased = 2 /\ Len(T[t].stack) = 1)
  /\ f.gg # Main

Leaves(T, T2, G, G2, t, f, ng, rel, o) ==
  /\ t \in DOMAIN T /\ f = T[t].stack[Len(T[t].stack)]
  /\ f.pc \in {"start", "loop"} /\ f.cand = {}
  /\ ng \in BOOLEAN /\ Returned(T, T2, t, ng)
  /\ Len(T[t].stack) = 1 =>
       /\ o.subgraphBased = 0 => ~ng
       /\ o.subgraphBased = 1 => ng = (T[t].parent = Main /\ f.gg = t)
  /\ rel \in BOOLEAN
  /\ rel => Must(T, t, f, o)
  /\ ~rel => ~Must(T, t, f, o) \/ o.max_clq_size >= 0
  /\ G2 = IF rel THEN dec_graph_ref_count(G, f.gg) ELSE G

\* A return preserves the whole invariant.
LEMMA LeaveGood ==
  ASSUME NEW g, NEW o \in Options, NEW T, NEW G, NEW C, NEW r, Good(T, G, C, r, g, o),
         NEW T2, NEW G2, NEW t, NEW f, NEW ng, NEW rel, Leaves(T, T2, G, G2, t, f, ng, rel, o),
         NEW C2, Shrunk(C, C2, f, o)
  PROVE  /\ Good(T2, G2, C2, r, g, o)
         /\ LeavesView(T, T2, r.todo, t)
  <1>a. /\ t \in DOMAIN T /\ f = T[t].stack[Len(T[t].stack)]
        /\ f.pc \in {"start", "loop"} /\ f.cand = {}
        /\ ng \in BOOLEAN /\ Returned(T, T2, t, ng)
        /\ Len(T[t].stack) = 1 =>
             /\ o.subgraphBased = 0 => ~ng
             /\ o.subgraphBased = 1 => ng = (T[t].parent = Main /\ f.gg = t)
        /\ rel \in BOOLEAN
        /\ G2 = IF rel THEN dec_graph_ref_count(G, f.gg) ELSE G
    BY DEF Leaves
  <1> DEFINE n == Len(T[t].stack)
             x == <<t, n>>
             E == View(T, r.todo)
  <1>1. /\ RunsAt(T, r.todo, t, x) /\ Nested(E) /\ ViewOK(E, G, C, g, o)
        /\ Main \in DOMAIN G
    BY <1>a, GoodFacts
  <1>2. x \in DOMAIN E /\ E[x] = f /\ Running(E, x) /\ x[2] = n
    BY <1>1, <1>a DEF RunsAt
  <1>3. /\ TasksSound(T2, r.todo) /\ RefsExact(T2, r) /\ FlagsOK(T2, o)
        /\ View(T2, r.todo) = Left(E, x)
    <2>1. Len(T[t].stack) = 1 =>
            /\ o.subgraphBased = 0 => ~ng
            /\ o.subgraphBased = 1 => ng = (T[t].parent = Main /\ T[t].stack[1].gg = t)
      BY <1>a
    <2>2. T[t].stack[Len(T[t].stack)].pc \in {"start", "loop"}
      BY <1>a
    <2>3. TasksSound(T, r.todo) /\ RefsExact(T, r) /\ FlagsOK(T, o)
      BY DEF Good
    <2>4. t \in DOMAIN T /\ ng \in BOOLEAN /\ Returned(T, T2, t, ng)
      BY <1>a
    <2> QED BY <2>1, <2>2, <2>3, <2>4, ReturnedTasks, ZenonT(60)
  <1>4. /\ rel => MustRelease(E, o, x)
        /\ ~rel => ~MustRelease(E, o, x) \/ o.max_clq_size >= 0
    <2>1. Must(T, t, f, o) <=> MustRelease(E, o, x)
      BY <1>2 DEF MustRelease, Must
    <2> QED BY <2>1 DEF Leaves
  <1>5. ViewOK(Left(E, x), G2, C2, g, o)
    <2> HIDE DEF E, x
    <2> QED BY <1>1, <1>2, <1>4, <1>a, LeaveView
  <1>6. RootOK(T2, G2, r)
    <2>1. Main \in DOMAIN G2
      <3>1. rel => f.gg # Main
        BY DEF Leaves, Must
      <3> QED BY <1>1, <1>a, <3>1, DecKeepsMain
    <2> QED BY <1>a, <2>1, SameRoot DEF Good
  <1> QED BY <1>3, <1>5, <1>6 DEF Good, LeavesView

\* The running frame of t becomes h.
LEMMA TopStack ==
  ASSUME NEW s, StackOK(s), NEW h \in FrameType, h.pc \in {"start", "loop"}
  PROVE  /\ StackOK(TopIs(s, h)) /\ Len(TopIs(s, h)) = Len(s)
         /\ Len(s) = 1 => TopIs(s, h)[1] = h
         /\ Len(s) # 1 => TopIs(s, h)[1] = s[1] /\ s[1].pc = "loop"
         /\ TopIs(s, h)[Len(s)] = h
  <1> DEFINE w == TopIs(s, h)
  <1>1. Len(s) \in Nat /\ Len(s) >= 1 /\ DOMAIN s = 1..Len(s) /\ s \in Seq(FrameType)
    BY DEF StackOK
  <1>2. /\ w \in Seq(FrameType) /\ Len(w) = Len(s)
        /\ \A i \in 1..Len(s) : w[i] = IF i = Len(s) THEN h ELSE s[i]
    BY <1>1 DEF TopIs
  <1> HIDE DEF w
  <1>3. StackOK(w)
    <2>1. ASSUME NEW i \in 1..Len(s)
          PROVE  /\ i < Len(s) => w[i].pc = "loop"
                 /\ i > 1 => w[i].pc \in {"start", "loop"}
      <3>1. CASE i = Len(s)
        <4>1. w[i] = h
          BY <1>2, <3>1
        <4> QED BY <1>1, <3>1, <4>1
      <3>2. CASE i # Len(s)
        <4>1. w[i] = s[i]
          BY <1>2, <3>2
        <4>2. i < Len(s) => s[i].pc = "loop"
          BY DEF StackOK
        <4>3. i > 1 => s[i].pc \in {"start", "loop"}
          BY DEF StackOK
        <4> QED BY <4>1, <4>2, <4>3
      <3> QED BY <3>1, <3>2
    <2> QED BY <1>1, <1>2, <2>1 DEF StackOK
  <1>4. 1 \in 1..Len(s) /\ Len(s) \in 1..Len(s)
    BY <1>1
  <1>5. Len(s) # 1 => 1 < Len(s)
    BY <1>1
  <1> QED BY <1>2, <1>3, <1>4, <1>5 DEF w, StackOK

\* The running frame of t becomes h, and the count of t becomes n.
Tops(T, T2, t, h, n, o) ==
  /\ t \in DOMAIN T /\ h \in FrameType /\ h.pc \in {"start", "loop"}
  /\ Updated(T, T2, t, T[t].NewGraph, n, TopIs(T[t].stack, h))
  /\ Len(T[t].stack) # 1 => n = T[t].ref
  /\ Len(T[t].stack) = 1 =>
       /\ T[t].stack[1].pc \in {"loop", "cont"} => h.pc = "loop" /\ h.gg = T[t].stack[1].gg
       /\ n = Cardinality(ChildrenOf(T, t)) + (IF h.pc = "loop" THEN 1 ELSE 0)
       /\ FlagOK(T2, o, t)

Topped(T, T2, r, o, t, h) ==
  /\ TasksSound(T2, r.todo) /\ RefsExact(T2, r) /\ FlagsOK(T2, o)
  /\ View(T2, r.todo) = ViewWith(View(T, r.todo), <<t, Len(T[t].stack)>>, h)
  /\ T2[t].stack = TopIs(T[t].stack, h) /\ T2[t].parent = T[t].parent

\* A change of the running frame preserves the invariant of the tasks.
LEMMA TopTasks ==
  ASSUME NEW T, NEW r, NEW o, TasksSound(T, r.todo), RefsExact(T, r), FlagsOK(T, o),
         NEW T2, NEW t, NEW h, NEW n, Tops(T, T2, t, h, n, o)
  PROVE  Topped(T, T2, r, o, t, h)
  <1> DEFINE s == T[t].stack
             w == TopIs(T[t].stack, h)
  <1>a. /\ t \in DOMAIN T /\ h \in FrameType /\ h.pc \in {"start", "loop"}
        /\ Updated(T, T2, t, T[t].NewGraph, n, w)
    BY DEF Tops
  <1>0. TaskSound(T, t) /\ FlagOK(T, o, t) /\ RefExact(T, t) /\ StackOK(s) /\ StacksOK(T)
    BY <1>a, StacksSound DEF TasksSound, FlagsOK, RefsExact
  <1>1. /\ StackOK(w) /\ Len(w) = Len(s)
        /\ Len(s) = 1 => w[1] = h
        /\ Len(s) # 1 => w[1] = s[1] /\ s[1].pc = "loop"
    BY <1>0, <1>a, TopStack
  <1>2. T2[t].stack = w /\ T2[t].parent = T[t].parent /\ T2[t].NewGraph = T[t].NewGraph
    BY <1>a, TaskFields DEF Updated
  <1>3. T[t].NewGraph \in BOOLEAN
    BY <1>0 DEF TaskSound
  <1>4. FlagOK(T2, o, t)
    <2>1. CASE Len(s) = 1
      BY <2>1 DEF Tops
    <2>2. CASE Len(s) # 1
      <3>1. T[t].parent # Main => T[t].parent # t /\ T[t].parent \in DOMAIN T
        BY <1>0 DEF TaskSound
      <3>2. T[t].parent # Main => T2[T[t].parent] = T[T[t].parent]
        BY <1>a, <3>1 DEF Updated
      <3> HIDE DEF Main, w
      <3> QED BY <1>0, <1>1, <1>2, <2>2, <3>2 DEF FlagOK
    <2> QED BY <2>1, <2>2
  <1>5. n = Cardinality(ChildrenOf(T, t)) + (IF w[1].pc = "loop" THEN 1 ELSE 0)
    <2>1. CASE Len(s) = 1
      BY <1>1, <2>1 DEF Tops
    <2>2. CASE Len(s) # 1
      BY <1>0, <1>1, <2>2 DEF RefExact, Tops
    <2> QED BY <2>1, <2>2
  <1>6. s[1].pc \in {"loop", "cont"} => w[1].pc \in {"loop", "cont"} /\ w[1].gg = s[1].gg
    BY <1>1 DEF Tops
  <1>7. Updated(T, T2, t, T[t].NewGraph, n, w)
    BY <1>a
  <1>8. Restacked(T, T2, t, w)
    BY <1>a, <1>2 DEF Updated, Restacked
  <1> HIDE DEF w
  <1>9. TasksSound(T2, r.todo) /\ RefsExact(T2, r) /\ FlagsOK(T2, o)
    BY <1>1, <1>3, <1>4, <1>5, <1>6, <1>7, TaskUpdate
  <1>10. View(T2, r.todo) = ViewWith(View(T, r.todo), <<t, Len(T[t].stack)>>, h)
    BY <1>0, <1>8, <1>a, ReplaceTop DEF w
  <1> QED BY <1>2, <1>9, <1>10 DEF w, Topped

\* Choosing candidates preserves the whole invariant.
LEMMA OpenGood ==
  ASSUME NEW g, NEW o \in Options, ~Faulty(o), NEW T, NEW G, NEW C, NEW r,
         Good(T, G, C, r, g, o), NEW t \in DOMAIN T,
         NEW x, x = <<t, Len(T[t].stack)>>, NEW E, E = View(T, r.todo),
         NEW h, OpensTo(E[x], h),
         h.gg = IF Creates(o, x) THEN E[x].R ELSE E[x].gg,
         h.cmem \in {Heap, t},
         NEW T2, NEW n, Updated(T, T2, t, T[t].NewGraph, n, TopIs(T[t].stack, h)),
         n = IF Len(T[t].stack) = 1 THEN 1 ELSE T[t].ref,
         NEW node, NEW G2, OpenedGraph(E, G, G2, o, x, node),
         NEW C2, Grown(C, C2, h.cmem, 1)
  PROVE  Good(T2, G2, C2, r, g, o) /\ TopsView(T, T2, r.todo, t, h)
  <1>1. /\ RunsAt(T, r.todo, t, x) /\ Nested(E) /\ ViewOK(E, G, C, g, o)
        /\ Main \in DOMAIN G /\ TaskSound(T, t) /\ FlagOK(T, o, t) /\ RefExact(T, t)
        /\ TasksSound(T, r.todo) /\ RefsExact(T, r) /\ FlagsOK(T, o) /\ RootOK(T, G, r)
    BY GoodFacts DEF Good
  <1>2. /\ x \in DOMAIN E /\ E[x] = T[t].stack[Len(T[t].stack)] /\ Running(E, x)
        /\ x[1] = t /\ x[2] = Len(T[t].stack)
        /\ IsRoot(x) <=> T[t].parent = Main /\ Len(T[t].stack) = 1
    BY <1>1 DEF RunsAt
  <1>3. /\ h \in FrameType /\ h.pc = "loop" /\ E[x].pc = "start" /\ h.R = E[x].R
    BY DEF OpensTo
  <1>4. Len(T[t].stack) = 1 => E[x].R = t
    BY <1>1, <1>2 DEF ViewOK, FramesSound, FrameSound
  <1>5. ASSUME Len(T[t].stack) = 1
        PROVE  /\ T[t].stack[1].pc = "start"
               /\ n = Cardinality(ChildrenOf(T, t)) + (IF h.pc = "loop" THEN 1 ELSE 0)
               /\ FlagOK(T2, o, t)
    <2>1. T[t].stack[1].pc = "start" /\ T[t].stack[1] = E[x]
      BY <1>2, <1>3, <1>5
    <2>2. Cardinality(ChildrenOf(T, t)) = 0
      BY <1>1, <2>1, NoChildren
    <2>3. T[t].parent # Main => T[t].parent # t /\ T[t].parent \in DOMAIN T
      BY <1>1 DEF TaskSound
    <2>4. T[t].parent # Main => T2[T[t].parent] = T[T[t].parent]
      BY <2>3 DEF Updated
    <2>5. T2[t].stack = TopIs(T[t].stack, h) /\ T2[t].parent = T[t].parent
          /\ T2[t].NewGraph = T[t].NewGraph
      BY TaskFields DEF Updated
    <2>6. TopIs(T[t].stack, h)[1] = h
      <3>1. StackOK(T[t].stack)
        BY <1>1, StacksSound
      <3> QED BY <1>3, <1>5, <3>1, TopStack
    <2>7. Creates(o, x) => h.gg = t
      BY <1>4, <1>5
    <2>8. o.subgraphBased = 1 /\ T[t].parent = Main => Creates(o, x)
      BY <1>2, <1>5 DEF Creates
    <2>9. o.subgraphBased = 1 /\ T[t].parent # Main => ~Creates(o, x)
      BY <1>2, <1>5 DEF Creates
    <2>10. FlagOK(T2, o, t)
      <3>1. Active(h) /\ Active(E[x])
        BY <1>3 DEF Active
      <3> HIDE DEF Main
      <3> QED BY <1>1, <1>3, <2>1, <2>4, <2>5, <2>6, <2>7, <2>8, <2>9, <3>1 DEF FlagOK
    <2> QED BY <1>3, <1>5, <2>1, <2>2, <2>10
  <1>6. /\ TasksSound(T2, r.todo) /\ RefsExact(T2, r) /\ FlagsOK(T2, o)
        /\ View(T2, r.todo) = ViewWith(E, x, h)
    <2>1. Tops(T, T2, t, h, n, o)
      BY <1>3, <1>5 DEF Tops
    <2>2. Topped(T, T2, r, o, t, h)
      BY <1>1, <2>1, TopTasks
    <2> QED BY <2>2 DEF Topped
  <1>7. ViewOK(ViewWith(E, x, h), G2, C2, g, o)
    <2>1. h.cmem \in {Heap, x[1]} /\ ViewWith(E, x, h) = [E EXCEPT ![x] = h]
      BY <1>2 DEF ViewWith
    <2> QED BY <1>1, <1>2, <2>1, OpenView
  <1>8. RootOK(T2, G2, r)
    <2>1. Main \in DOMAIN G2
      <3>1. ~IsRoot(x) /\ o.subgraphBased \notin {0, 1} => E[x].gg # Main
        <4>1. o.subgraphBased \in 0..3
          BY TaskOptionsAssumption DEF Faulty
        <4>2. o.subgraphBased \notin {0, 1} => o.subgraphBased \in {2, 3}
          BY <4>1
        <4>3. GraphUse(E, o) /\ Active(E[x])
          BY <1>1, <1>3 DEF ViewOK, Active
        <4> HIDE DEF Main
        <4> QED BY <1>2, <4>2, <4>3 DEF GraphUse
      <3>2. Creates(o, x) => Main \in DOMAIN LeftGraph(E, G, o, x)
        BY <1>1, <3>1, DecKeepsMain DEF LeftGraph, Creates
      <3>3. CASE Creates(o, x)
        <4> DEFINE W == LeftGraph(E, G, o, x)
                   k == E[x].R
                   d == Guard(1, HpxAdj(G, E[x]), node)
        <4>1. G2 = Put(W, k, d)
          BY <3>3 DEF OpenedGraph
        <4>2. Main \in DOMAIN W
          BY <3>2, <3>3
        <4> HIDE DEF W, k, d
        <4>3. Added(W, G2, k, d)
          BY <4>1, PutAdds
        <4> QED BY <4>2, <4>3 DEF Added
      <3>4. CASE ~Creates(o, x)
        BY <1>1, <3>4 DEF OpenedGraph
      <3> QED BY <3>3, <3>4
    <2> QED BY <1>1, <2>1, SameRoot
  <1> QED BY <1>6, <1>7, <1>8 DEF Good, TopsView

\* The loop of the running frame goes on without v.
LEMMA IterateTasks ==
  ASSUME NEW T, NEW r, NEW o, TasksSound(T, r.todo), RefsExact(T, r), FlagsOK(T, o),
         NEW t \in DOMAIN T, NEW f, f = T[t].stack[Len(T[t].stack)], f.pc = "loop",
         NEW v \in V, NEW T1,
         Updated(T, T1, t, T[t].NewGraph, T[t].ref, TopIs(T[t].stack, Iterated(f, v)))
  PROVE  Topped(T, T1, r, o, t, Iterated(f, v))
  <1> DEFINE s == T[t].stack
             h == Iterated(f, v)
  <1>0. TaskSound(T, t) /\ FlagOK(T, o, t) /\ RefExact(T, t) /\ StackOK(s)
    BY StacksSound DEF TasksSound, FlagsOK, RefsExact
  <1>1. f \in FrameType
    BY <1>0 DEF StackOK
  <1>2. h \in FrameType /\ h.pc = "loop" /\ h.gg = f.gg
    BY <1>1, IteratedFacts
  <1>3. Updated(T, T1, t, T[t].NewGraph, T[t].ref, TopIs(s, h))
    OBVIOUS
  <1> HIDE DEF h
  <1>4. T1[t].stack = TopIs(s, h) /\ T1[t].parent = T[t].parent /\ T1[t].NewGraph = T[t].NewGraph
    BY <1>3, TaskFields DEF Updated
  <1>5. ASSUME Len(s) = 1
        PROVE  /\ T[t].stack[1].pc \in {"loop", "cont"} => h.pc = "loop" /\ h.gg = T[t].stack[1].gg
               /\ T[t].ref = Cardinality(ChildrenOf(T, t)) + (IF h.pc = "loop" THEN 1 ELSE 0)
               /\ FlagOK(T1, o, t)
    <2>1. f = s[1]
      BY <1>5
    <2>2. TopIs(s, h)[1] = h
      BY <1>0, <1>2, <1>5, TopStack
    <2>3. T[t].parent # Main => T[t].parent # t /\ T[t].parent \in DOMAIN T
      BY <1>0 DEF TaskSound
    <2>4. T[t].parent # Main => T1[T[t].parent] = T[T[t].parent]
      BY <1>3, <2>3 DEF Updated
    <2>5. FlagOK(T1, o, t)
      <3>1. Active(h) /\ Active(f)
        BY <1>2 DEF Active
      <3> HIDE DEF Main
      <3> QED BY <1>0, <1>2, <1>4, <2>1, <2>2, <2>4, <3>1 DEF FlagOK
    <2>6. T[t].ref = Cardinality(ChildrenOf(T, t)) + (IF h.pc = "loop" THEN 1 ELSE 0)
      BY <1>0, <1>2, <2>1 DEF RefExact
    <2> QED BY <1>2, <2>1, <2>5, <2>6
  <1>6. Tops(T, T1, t, h, T[t].ref, o)
    BY <1>2, <1>3, <1>5 DEF Tops
  <1>7. Topped(T, T1, r, o, t, h)
    BY <1>6, TopTasks
  <1> QED BY <1>7 DEF h

\* A call in place: a frame is pushed on the stack of t.
Pushed(T, T2, r, o, t, c) ==
  /\ TasksSound(T2, r.todo) /\ RefsExact(T2, r) /\ FlagsOK(T2, o)
  /\ View(T2, r.todo) = Put(View(T, r.todo), <<t, Len(T[t].stack) + 1>>, c)
  /\ <<t, Len(T[t].stack) + 1>> \notin DOMAIN View(T, r.todo)

\* A call run in place preserves the invariant of the tasks.
LEMMA PushTasks ==
  ASSUME NEW T, NEW r, NEW o, TasksSound(T, r.todo), RefsExact(T, r), FlagsOK(T, o),
         NEW t \in DOMAIN T, T[t].stack[Len(T[t].stack)].pc = "loop",
         NEW c \in FrameType, c.pc = "start", NEW T2,
         Updated(T, T2, t, T[t].NewGraph, T[t].ref, Append(T[t].stack, c))
  PROVE  Pushed(T, T2, r, o, t, c)
  <1> DEFINE s == T[t].stack
             w == Append(s, c)
  <1>0. /\ TaskSound(T, t) /\ FlagOK(T, o, t) /\ RefExact(T, t) /\ StackOK(s) /\ StacksOK(T)
        /\ \A v \in r.todo : {v} # t
    BY StacksSound DEF TasksSound, FlagsOK, RefsExact
  <1>1. /\ Len(s) \in Nat /\ Len(s) >= 1 /\ s \in Seq(FrameType)
        /\ \A i \in 1..Len(s) : i < Len(s) => s[i].pc = "loop"
        /\ \A i \in 1..Len(s) : i > 1 => s[i].pc \in {"start", "loop"}
    BY <1>0 DEF StackOK
  <1>2. /\ w \in Seq(FrameType) /\ Len(w) = Len(s) + 1 /\ w[Len(s) + 1] = c
        /\ \A i \in 1..Len(s) : w[i] = s[i]
    BY <1>1
  <1>3. Updated(T, T2, t, T[t].NewGraph, T[t].ref, w)
    OBVIOUS
  <1>a. s[Len(s)].pc = "loop"
    OBVIOUS
  <1> HIDE DEF w, s
  <1>4. StackOK(w)
    <2>1. ASSUME NEW i \in 1..Len(w)
          PROVE  /\ i < Len(w) => w[i].pc = "loop"
                 /\ i > 1 => w[i].pc \in {"start", "loop"}
      <3>1. CASE i = Len(s) + 1
        <4>1. ~(i < Len(w))
          BY <1>1, <1>2, <3>1
        <4> QED BY <1>2, <3>1, <4>1
      <3>2. CASE i # Len(s) + 1
        <4>1. i \in 1..Len(s)
          BY <1>1, <1>2, <3>2
        <4>2. s[i].pc = "loop"
          BY <1>1, <1>a, <4>1
        <4> QED BY <1>2, <4>1, <4>2
      <3> QED BY <3>1, <3>2
    <2>2. Len(w) >= 1
      BY <1>1, <1>2
    <2> QED BY <1>2, <2>1, <2>2 DEF StackOK
  <1>5. w[1] = s[1] /\ (s[1].pc \in {"loop", "cont"} => w[1].pc \in {"loop", "cont"} /\ w[1].gg = s[1].gg)
    BY <1>1, <1>2
  <1>6. T2[t].stack = w /\ T2[t].parent = T[t].parent /\ T2[t].NewGraph = T[t].NewGraph
    BY <1>3, TaskFields DEF Updated
  <1>7. FlagOK(T2, o, t)
    <2>1. T[t].parent # Main => T[t].parent # t /\ T[t].parent \in DOMAIN T
      BY <1>0 DEF TaskSound
    <2>2. T[t].parent # Main => T2[T[t].parent] = T[T[t].parent]
      BY <1>3, <2>1 DEF Updated
    <2> HIDE DEF Main
    <2> QED BY <1>0, <1>5, <1>6, <2>2 DEF FlagOK, s
  <1>8. TasksSound(T2, r.todo) /\ RefsExact(T2, r) /\ FlagsOK(T2, o)
    <2>1. T[t].NewGraph \in BOOLEAN
      BY <1>0 DEF TaskSound
    <2>2. T[t].ref = Cardinality(ChildrenOf(T, t)) + (IF w[1].pc = "loop" THEN 1 ELSE 0)
      BY <1>0, <1>5 DEF RefExact, s
    <2>3. T[t].stack[1].pc \in {"loop", "cont"} =>
            w[1].pc \in {"loop", "cont"} /\ w[1].gg = T[t].stack[1].gg
      BY <1>5 DEF s
    <2> QED BY <1>3, <1>4, <1>7, <2>1, <2>2, <2>3, TaskUpdate
  <1>9. DOMAIN T2 = DOMAIN T /\ \A u \in DOMAIN T : u # t => T2[u].stack = T[u].stack
    BY <1>3 DEF Updated
  <1>10. T2[t].stack = Append(T[t].stack, c)
    BY <1>6 DEF w, s
  <1>11. /\ View(T2, r.todo) = Put(View(T, r.todo), <<t, Len(T[t].stack) + 1>>, c)
         /\ <<t, Len(T[t].stack) + 1>> \notin DOMAIN View(T, r.todo)
    BY <1>0, <1>9, <1>10, ViewPush
  <1> QED BY <1>8, <1>11 DEF Pushed

\* An iteration, from what it does to the view.
LEMMA DescendsIn ==
  ASSUME NEW g, NEW E, NEW E2, NEW x \in DOMAIN E, NEW y, NEW v, NEW c,
         E[x].pc = "loop", v \in E[x].cand, ChildIn(g, E[x], v, c),
         (y = <<x[1], x[2] + 1>> /\ y[2] # 1) \/ y = <<c.R, 1>>,
         y \notin DOMAIN ViewWith(E, x, Iterated(E[x], v)),
         E2 = Put(ViewWith(E, x, Iterated(E[x], v)), y, c)
  PROVE  Descends(E, E2, x, y, g, v, c)
  <1> DEFINE E1 == ViewWith(E, x, Iterated(E[x], v))
  <1>1. /\ DOMAIN E1 = DOMAIN E /\ E1[x] = Iterated(E[x], v)
        /\ \A z \in DOMAIN E : z # x => E1[z] = E[z]
    BY DEF ViewWith
  <1>2. Added(E1, E2, y, c)
    <2> HIDE DEF E1
    <2>1. E2 = Put(E1, y, c)
      BY DEF E1
    <2> QED BY <2>1, PutAdds
  <1>3. y \notin DOMAIN E
    BY <1>1
  <1> HIDE DEF E1
  <1> QED BY <1>1, <1>2, <1>3 DEF Descends, Added

\* Sharing a graph creates and deletes none.
LEMMA IncKeepsMain ==
  ASSUME NEW G, NEW k
  PROVE  DOMAIN inc_graph_ref_count(G, k) = DOMAIN G
  BY DEF inc_graph_ref_count, Counted

\* LoopIteration calls SequentialRun.
CallsInPlace(T, T2, G, G2, t, f, v, c, g, o) ==
  /\ t \in DOMAIN T /\ f = T[t].stack[Len(T[t].stack)] /\ f.pc = "loop" /\ v \in f.cand
  /\ ChildIn(g, f, v, c) /\ c.mem \in {Heap, t}
  /\ Updated(T, T2, t, T[t].NewGraph, T[t].ref, Append(TopIs(T[t].stack, Iterated(f, v)), c))
  /\ IF o.subgraphBased = 3 THEN G2 = inc_graph_ref_count(G, f.gg) ELSE G2 = G

\* The invariant is kept, and the view gets the frame of the child.
LEMMA InPlaceGood ==
  ASSUME NEW g \in Graphs, NEW o \in Options, ~Faulty(o), NEW T, NEW G, NEW C, NEW r,
         Good(T, G, C, r, g, o), NEW T2, NEW G2, NEW t, NEW f, NEW v, NEW c,
         CallsInPlace(T, T2, G, G2, t, f, v, c, g, o),
         NEW C2, Grown(C, C2, c.mem, 2)
  PROVE  /\ Good(T2, G2, C2, r, g, o)
         /\ DescendsView(T, T2, r.todo, t, g, v, c)
  <1> SUFFICES ASSUME t \in DOMAIN T, f = T[t].stack[Len(T[t].stack)], f.pc = "loop",
                      v \in f.cand, ChildIn(g, f, v, c), c.mem \in {Heap, t},
                      Updated(T, T2, t, T[t].NewGraph, T[t].ref,
                              Append(TopIs(T[t].stack, Iterated(f, v)), c)),
                      IF o.subgraphBased = 3 THEN G2 = inc_graph_ref_count(G, f.gg) ELSE G2 = G
               PROVE  Good(T2, G2, C2, r, g, o) /\ DescendsView(T, T2, r.todo, t, g, v, c)
    BY DEF CallsInPlace
  <1> DEFINE n == Len(T[t].stack)
             x == <<t, n>>
             y == <<t, n + 1>>
             E == View(T, r.todo)
             h == Iterated(f, v)
             s1 == TopIs(T[t].stack, h)
             T1 == [T EXCEPT ![t] = Task(T[t].parent, T[t].NewGraph, T[t].ref, s1)]
  <1>1. /\ RunsAt(T, r.todo, t, x) /\ Nested(E) /\ ViewOK(E, G, C, g, o)
        /\ Main \in DOMAIN G /\ StackOK(T[t].stack)
        /\ TasksSound(T, r.todo) /\ RefsExact(T, r) /\ FlagsOK(T, o) /\ RootOK(T, G, r)
    BY GoodFacts DEF Good
  <1>2. x \in DOMAIN E /\ E[x] = f /\ n \in Nat /\ n >= 1 /\ x[1] = t /\ x[2] = n
    BY <1>1 DEF RunsAt
  <1>3. f \in FrameType /\ v \in V
    BY <1>1, <1>2 DEF ViewOK, FramesSound, FrameSound, FrameType
  <1>4. h \in FrameType /\ h.pc = "loop" /\ c \in FrameType /\ c.pc = "start"
    BY <1>3, IteratedFacts DEF ChildIn
  <1>5. Len(s1) = n /\ s1[n] = h
    BY <1>1, <1>4, TopStack
  <1>6. Updated(T, T1, t, T[t].NewGraph, T[t].ref, s1)
    <2> HIDE DEF s1
    <2>1. IsFcn(T1)
      BY DEF IsFcn
    <2> QED BY <2>1 DEF Updated
  <1>7. Topped(T, T1, r, o, t, h)
    <2> HIDE DEF T1
    <2> QED BY <1>1, <1>3, <1>6, IterateTasks
  <1>8. T1[t] = Task(T[t].parent, T[t].NewGraph, T[t].ref, s1) /\ DOMAIN T1 = DOMAIN T
        /\ \A u \in DOMAIN T : u # t => T1[u] = T[u]
    OBVIOUS
  <1>9. Updated(T, T2, t, T[t].NewGraph, T[t].ref, Append(s1, c))
    OBVIOUS
  <1> HIDE DEF T1, s1, h
  <1>10. T1[t].parent = T[t].parent /\ T1[t].NewGraph = T[t].NewGraph
         /\ T1[t].ref = T[t].ref /\ T1[t].stack = s1
    BY <1>8, TaskFields
  <1>11. Updated(T1, T2, t, T1[t].NewGraph, T1[t].ref, Append(T1[t].stack, c))
    BY <1>8, <1>9, <1>10 DEF Updated
  <1>12. Pushed(T1, T2, r, o, t, c)
    <2>1. TasksSound(T1, r.todo) /\ RefsExact(T1, r) /\ FlagsOK(T1, o)
      BY <1>7 DEF Topped
    <2>2. T1[t].stack[Len(T1[t].stack)].pc = "loop" /\ t \in DOMAIN T1
      BY <1>4, <1>5, <1>8, <1>10
    <2> QED BY <1>4, <1>11, <2>1, <2>2, PushTasks
  <1>13. View(T2, r.todo) = Put(ViewWith(E, x, h), y, c) /\ y \notin DOMAIN ViewWith(E, x, h)
    <2>1. View(T1, r.todo) = ViewWith(E, x, h)
      BY <1>7 DEF Topped
    <2>2. Len(T1[t].stack) = n
      BY <1>5, <1>10
    <2>3. /\ View(T2, r.todo) = Put(View(T1, r.todo), <<t, Len(T1[t].stack) + 1>>, c)
          /\ <<t, Len(T1[t].stack) + 1>> \notin DOMAIN View(T1, r.todo)
      BY <1>12 DEF Pushed
    <2> HIDE DEF E, x, n
    <2> QED BY <2>1, <2>2, <2>3 DEF y
  <1>14. y = <<x[1], x[2] + 1>> /\ y[2] # 1 /\ y[1] = t
    <2> HIDE DEF n
    <2> QED BY <1>2
  <1> HIDE DEF E, x, y
  <1>15. Descends(E, View(T2, r.todo), x, y, g, v, c)
    <2>1. y \notin DOMAIN ViewWith(E, x, Iterated(E[x], v))
      BY <1>2, <1>13 DEF h
    <2>2. View(T2, r.todo) = Put(ViewWith(E, x, Iterated(E[x], v)), y, c)
      BY <1>2, <1>13 DEF h
    <2>3. E[x].pc = "loop" /\ v \in E[x].cand /\ ChildIn(g, E[x], v, c)
      BY <1>2
    <2> QED BY <1>2, <1>14, <2>1, <2>2, <2>3, DescendsIn
  <1>16. ViewOK(View(T2, r.todo), G2, C2, g, o)
    <2>1. IF o.subgraphBased = 3 \/ (o.subgraphBased = 2 /\ y[2] = 1)
          THEN G2 = inc_graph_ref_count(G, E[x].gg) ELSE G2 = G
      BY <1>2, <1>14
    <2>2. c.mem = Heap \/ (c.mem = x[1] /\ c.mem = y[1])
      BY <1>2, <1>14
    <2> QED BY <1>1, <1>15, <2>1, <2>2, DescendView
  <1>17. RootOK(T2, G2, r)
    <2>1. Main \in DOMAIN G2
      BY <1>1, IncKeepsMain
    <2> QED BY <1>1, <2>1, SameRoot
  <1> QED BY <1>12, <1>15, <1>16, <1>17 DEF Good, Pushed, E, x, DescendsView

\* LoopIteration spawns a task.
LEMMA SpawnGood ==
  ASSUME NEW g \in Graphs, NEW o \in Options, ~Faulty(o), NEW T, NEW G, NEW C, NEW r,
         Good(T, G, C, r, g, o), NEW t \in DOMAIN T,
         NEW f, f = T[t].stack[Len(T[t].stack)], f.pc = "loop",
         NEW v \in f.cand, NEW c, ChildIn(g, f, v, c), c.mem = Heap,
         NEW T1, Updated(T, T1, t, T[t].NewGraph, T[t].ref, TopIs(T[t].stack, Iterated(f, v))),
         NEW T2, Spawned(T1, T2, t, c.R, o.subgraphBased > 1, c),
         NEW G2,
         IF o.subgraphBased > 1 THEN G2 = inc_graph_ref_count(G, f.gg) ELSE G2 = G,
         NEW C2, Grown(C, C2, Heap, 2)
  PROVE  /\ Good(T2, G2, C2, r, g, o)
         /\ DescendsView(T, T2, r.todo, t, g, v, c)
  <1> DEFINE n == Len(T[t].stack)
             x == <<t, n>>
             k == c.R
             y == <<k, 1>>
             E == View(T, r.todo)
             h == Iterated(f, v)
             ng == o.subgraphBased > 1
  <1>0. o.subgraphBased \in 0..3
    BY TaskOptionsAssumption DEF Faulty
  <1>1. /\ RunsAt(T, r.todo, t, x) /\ Nested(E) /\ ViewOK(E, G, C, g, o)
        /\ Main \in DOMAIN G /\ StackOK(T[t].stack) /\ TaskSound(T, t)
        /\ TasksSound(T, r.todo) /\ RefsExact(T, r) /\ FlagsOK(T, o) /\ RootOK(T, G, r)
    BY GoodFacts DEF Good
  <1>2. /\ x \in DOMAIN E /\ E[x] = f /\ n \in Nat /\ n >= 1 /\ x[1] = t /\ x[2] = n
        /\ <<t, 1>> \in DOMAIN E /\ E[<<t, 1>>] = T[t].stack[1]
    BY <1>1 DEF RunsAt
  <1>a. FrameSound(x, f) /\ GraphUse(E, o)
    BY <1>1, <1>2 DEF ViewOK, FramesSound
  <1>3. f \in FrameType /\ v \in V /\ v \notin f.R /\ t \subseteq f.R /\ f.R # {} /\ f.R \in SUBSET V
    BY <1>2, <1>a DEF FrameSound, FrameType
  <1>4. /\ h \in FrameType /\ h.pc = "loop" /\ h.gg = f.gg
        /\ c \in FrameType /\ c.pc = "start" /\ c.gg = f.gg /\ k = f.R \union {v}
    BY <1>3, IteratedFacts DEF ChildIn
  <1>5. Topped(T, T1, r, o, t, h)
    BY <1>1, <1>3, IterateTasks
  <1>6. /\ TasksSound(T1, r.todo) /\ RefsExact(T1, r) /\ FlagsOK(T1, o)
        /\ View(T1, r.todo) = ViewWith(E, x, h) /\ T1[t].stack = TopIs(T[t].stack, h)
    BY <1>5 DEF Topped
  <1>7. y \notin DOMAIN E
    <2>1. FramesSound(E) /\ FramesApart(E, g, o)
      BY <1>1 DEF ViewOK
    <2>2. <<E[x].R \union {v}, 1>> \notin DOMAIN E
      <3> HIDE DEF E, x
      <3> QED BY <1>2, <2>1, SpawnNameNew
    <2> QED BY <1>2, <1>4, <2>2
  <1>8. DOMAIN ViewWith(E, x, h) = DOMAIN E
    BY DEF ViewWith
  <1>9. k \in SUBSET V /\ t \subseteq k /\ t # k /\ ~IsRoot(<<k, 1>>)
    <2>1. \A w : k # {w}
      BY <1>3, <1>4
    <2> QED BY <1>3, <1>4, <2>1 DEF IsRoot
  <1>10. k \notin DOMAIN T /\ \A w \in r.todo : {w} # k
    <2>1. StacksOK(T)
      BY <1>1, StacksSound
    <2>2. <<k, 1>> \notin Sites(T, r.todo)
      BY <1>7, <2>1, SiteIff
    <2>3. k \in DOMAIN T => 1 \in 1..Len(T[k].stack)
      BY <2>1 DEF StacksOK
    <2> QED BY <2>1, <2>2, <2>3, SiteIff
  <1>11. DOMAIN T1 = DOMAIN T
    BY DEF Updated
  <1>12. T1[t].stack[1].pc = "loop" /\ T1[t].stack[1].gg = T[t].stack[1].gg
    <2>1. CASE n = 1
      <3>1. TopIs(T[t].stack, h)[1] = h
        BY <1>1, <1>4, <2>1, TopStack
      <3> QED BY <1>4, <1>6, <2>1, <3>1
    <2>2. CASE n # 1
      <3>1. TopIs(T[t].stack, h)[1] = T[t].stack[1] /\ T[t].stack[1].pc = "loop"
        BY <1>1, <1>4, <2>2, TopStack, SMTT(30)
      <3> QED BY <1>6, <3>1
    <2> QED BY <2>1, <2>2
  <1>13. o.subgraphBased = 1 => c.gg = T1[t].stack[1].gg
    BY <1>2, <1>4, <1>12, <1>a, SMTT(30) DEF GraphUse
  <1>14. (o.subgraphBased \in {0, 1} => ~ng) /\ (o.subgraphBased \in {2, 3} => ng) /\ ng \in BOOLEAN
    BY <1>0
  <1>15. Spawned(T1, T2, t, k, ng, c)
    OBVIOUS
  <1> HIDE DEF k, ng, h
  <1>16. TasksSound(T2, r.todo) /\ RefsExact(T2, r) /\ FlagsOK(T2, o)
    <2> HIDE DEF E, x, n
    <2>1. k \notin DOMAIN T1
      BY <1>10, <1>11
    <2>2. c \in FrameType /\ c.pc = "start"
      BY <1>4
    <2>3. T1[t].stack[1].pc = "loop" /\ \A w \in r.todo : {w} # k
      BY <1>10, <1>12
    <2>4. TasksSound(T1, r.todo) /\ RefsExact(T1, r) /\ FlagsOK(T1, o)
      BY <1>6
    <2> QED BY <1>9, <1>13, <1>14, <1>15, <2>1, <2>2, <2>3, <2>4, TaskSpawn
  <1>17. View(T2, r.todo) = Put(ViewWith(E, x, h), y, c)
    <2>1. StacksOK(T1)
      BY <1>6, StacksSound
    <2>2. y \notin DOMAIN View(T1, r.todo)
      BY <1>6, <1>7, <1>8
    <2>3. DOMAIN T2 = DOMAIN T1 \union {k} /\ T2[k].stack = <<c>>
      <3>1. DOMAIN T2 = DOMAIN T1 \union {k} /\ T2[k] = Task(t, ng, 0, <<c>>)
        BY <1>15 DEF Spawned
      <3>2. Task(t, ng, 0, <<c>>).stack = <<c>>
        BY DEF Task
      <3> QED BY <3>1, <3>2
    <2>4. \A u \in DOMAIN T1 : T2[u].stack = T1[u].stack
      BY <1>15, TaskFields DEF Spawned
    <2>5. View(T2, r.todo) = Put(View(T1, r.todo), <<k, 1>>, c)
      <3>1. c \in FrameType /\ <<k, 1>> \notin DOMAIN View(T1, r.todo)
        BY <1>4, <2>2
      <3> HIDE DEF y, E, x, n
      <3> QED BY <2>1, <2>3, <2>4, <3>1, ViewSpawn
    <2> QED BY <1>6, <2>5
  <1>18. y = <<c.R, 1>> /\ y[2] = 1
    BY DEF k
  <1> HIDE DEF E, x, y
  <1>19. Descends(E, View(T2, r.todo), x, y, g, v, c)
    <2>1. y \notin DOMAIN ViewWith(E, x, Iterated(E[x], v))
      BY <1>2, <1>7, <1>8 DEF h
    <2>2. View(T2, r.todo) = Put(ViewWith(E, x, Iterated(E[x], v)), y, c)
      BY <1>2, <1>17 DEF h
    <2>3. E[x].pc = "loop" /\ v \in E[x].cand /\ ChildIn(g, E[x], v, c)
      BY <1>2
    <2> QED BY <1>2, <1>18, <2>1, <2>2, <2>3, DescendsIn
  <1>20. ViewOK(View(T2, r.todo), G2, C2, g, o)
    <2>1. IF o.subgraphBased = 3 \/ (o.subgraphBased = 2 /\ y[2] = 1)
          THEN G2 = inc_graph_ref_count(G, E[x].gg) ELSE G2 = G
      BY <1>0, <1>2, <1>18
    <2> QED BY <1>1, <1>19, <2>1, DescendView
  <1>21. RootOK(T2, G2, r)
    <2>1. Main \in DOMAIN G2
      BY <1>1, IncKeepsMain
    <2> QED BY <1>1, <2>1, SameRoot
  <1> QED BY <1>16, <1>19, <1>20, <1>21 DEF Good, E, x, DescendsView

\* create_root_sets.
LEMMA RootSetsGood ==
  ASSUME NEW g \in Graphs, NEW o \in Options, ~Faulty(o), NEW T, NEW G, NEW C, NEW r,
         Good(T, G, C, r, g, o), NEW t \in DOMAIN T,
         T[t].stack[Len(T[t].stack)].pc = "new", NEW h, RootStart(g, o, t, h),
         NEW T2, Updated(T, T2, t, T[t].NewGraph, T[t].ref, TopIs(T[t].stack, h))
  PROVE  /\ Good(T2, G, C, r, g, o)
         /\ TopsView(T, T2, r.todo, t, h)
  <1> DEFINE n == Len(T[t].stack)
             x == <<t, n>>
             E == View(T, r.todo)
  <1>1. /\ RunsAt(T, r.todo, t, x) /\ Nested(E) /\ ViewOK(E, G, C, g, o)
        /\ Main \in DOMAIN G /\ StackOK(T[t].stack) /\ TaskSound(T, t) /\ FlagOK(T, o, t)
        /\ RefExact(T, t)
        /\ TasksSound(T, r.todo) /\ RefsExact(T, r) /\ FlagsOK(T, o) /\ RootOK(T, G, r)
    BY GoodFacts DEF Good
  <1>2. x \in DOMAIN E /\ E[x] = T[t].stack[n] /\ x[1] = t /\ x[2] = n
        /\ (IsRoot(x) <=> T[t].parent = Main /\ n = 1)
    BY <1>1 DEF RunsAt
  <1>3. IsRoot(x)
    BY <1>1, <1>2 DEF ViewOK, FramesSound, FrameSound
  <1>4. n = 1 /\ T[t].parent = Main /\ T[t].stack[1].pc = "new"
    BY <1>2, <1>3
  <1>5. h \in FrameType /\ h.pc = "start" /\ h.gg = Main
    BY DEF RootStart
  <1>6. T2[t].stack = TopIs(T[t].stack, h) /\ T2[t].parent = Main /\ T2[t].NewGraph = T[t].NewGraph
    BY <1>4, TaskFields DEF Updated
  <1>7. TopIs(T[t].stack, h)[1] = h
    BY <1>1, <1>4, <1>5, TopStack
  <1>8. FlagOK(T2, o, t)
    <2>1. Active(h) /\ Active(T[t].stack[1])
      BY <1>4, <1>5 DEF Active
    <2> HIDE DEF Main
    <2> QED BY <1>1, <1>4, <1>5, <1>6, <1>7, <2>1 DEF FlagOK
  <1>9. T[t].ref = Cardinality(ChildrenOf(T, t)) + (IF h.pc = "loop" THEN 1 ELSE 0)
    BY <1>1, <1>4, <1>5 DEF RefExact
  <1>10. Tops(T, T2, t, h, T[t].ref, o)
    BY <1>4, <1>5, <1>8, <1>9 DEF Tops
  <1>11. Topped(T, T2, r, o, t, h)
    BY <1>1, <1>10, TopTasks
  <1>12. ViewOK(ViewWith(E, x, h), G, C, g, o)
    <2>1. ViewWith(E, x, h) = [E EXCEPT ![x] = h] /\ E[x].pc = "new" /\ RootStart(g, o, x[1], h)
      BY <1>2 DEF ViewWith
    <2> HIDE DEF E, x
    <2> QED BY <1>1, <1>2, <2>1, RootSetsView
  <1>13. RootOK(T2, G, r)
    BY <1>1, SameRoot
  <1> QED BY <1>11, <1>12, <1>13 DEF Good, Topped, TopsView

\* RootIterBKTask spawns a task.
LEMMA RootSpawnGood ==
  ASSUME NEW g, NEW o \in Options, ~Faulty(o), NEW T, NEW G, NEW C, NEW r,
         Good(T, G, C, r, g, o), r.pc = "spawn", NEW v \in r.todo,
         NEW T2, Added(T, T2, {v}, Task(Main, o.subgraphBased # 0, 0, <<RootFrame({v})>>)),
         NEW r2, r2 = [r EXCEPT !.todo = @ \ {v}]
  PROVE  Good(T2, G, C, r2, g, o) /\ KeepsView(T, T2, r.todo, r2.todo)
  <1> DEFINE ng == o.subgraphBased # 0
  <1>0. o.subgraphBased \in 0..3
    BY TaskOptionsAssumption DEF Faulty
  <1>1. TasksSound(T, r.todo) /\ RefsExact(T, r) /\ FlagsOK(T, o) /\ RootOK(T, G, r)
    BY DEF Good
  <1>2. r.todo \in SUBSET V /\ v \in V /\ r \in [pc : {"spawn", "cont", "done"}, todo : SUBSET V, ref : 0..(1 + Cardinality(V))]
    BY <1>1 DEF RootOK
  <1>3. r2.ref = r.ref /\ r2.pc = r.pc /\ r2.todo = r.todo \ {v}
    BY <1>2
  <1>4. (o.subgraphBased = 0 => ~ng) /\ (o.subgraphBased \in {1, 2, 3} => ng) /\ ng \in BOOLEAN
    OBVIOUS
  <1>5. Added(T, T2, {v}, Task(Main, ng, 0, <<RootFrame({v})>>))
    OBVIOUS
  <1>6. TasksSound(T2, r2.todo) /\ RefsExact(T2, r2) /\ FlagsOK(T2, o)
    <2> HIDE DEF ng
    <2> QED BY <1>1, <1>2, <1>3, <1>4, <1>5, TaskRootSpawn
  <1>7. View(T2, r2.todo) = View(T, r.todo)
    <2>1. StacksOK(T)
      BY <1>1, StacksSound
    <2>2. \A w \in r.todo : {w} \notin DOMAIN T
      BY <1>1 DEF TasksSound
    <2>3. RootFrame({v}) \in FrameType
      <3>1. {v} \in SUBSET V /\ {} \in SUBSET V /\ Main \in SUBSET V /\ Heap \in SUBSET V
            /\ "new" \in Pcs
        BY <1>2 DEF Main, Heap, Pcs
      <3> QED BY <3>1, FrameFacts DEF RootFrame
    <2>4. DOMAIN T2 = DOMAIN T \union {{v}} /\ T2[{v}].stack = <<RootFrame({v})>>
      <3>1. DOMAIN T2 = DOMAIN T \union {{v}} /\ T2[{v}] = Task(Main, ng, 0, <<RootFrame({v})>>)
        BY <1>5 DEF Added
      <3>2. Task(Main, ng, 0, <<RootFrame({v})>>).stack = <<RootFrame({v})>>
        BY DEF Task
      <3> QED BY <3>1, <3>2
    <2>5. \A u \in DOMAIN T : T2[u].stack = T[u].stack
      BY <1>5, <2>2 DEF Added
    <2>6. RootSpawns(T, T2, r.todo, v)
      BY <2>2, <2>3, <2>4, <2>5 DEF RootSpawns
    <2>7. View(T2, r.todo \ {v}) = View(T, r.todo)
      BY <2>1, <2>6, ViewRootSpawn
    <2> QED BY <1>3, <2>7
  <1>8. RootOK(T2, G, r2)
    <2>1. r2 \in [pc : {"spawn", "cont", "done"}, todo : SUBSET V, ref : 0..(1 + Cardinality(V))]
      BY <1>2
    <2> QED BY <1>1, <1>3, <2>1 DEF RootOK
  <1> QED BY <1>6, <1>7, <1>8 DEF Good, KeepsView

\* The root task waits.
LEMMA RootWaitGood ==
  ASSUME NEW g, NEW o, NEW T, NEW G, NEW C, NEW r,
         Good(T, G, C, r, g, o), r.pc = "spawn", r.todo = {},
         NEW r2, r2 = [r EXCEPT !.pc = "cont", !.ref = @ - 1]
  PROVE  Good(T, G, C, r2, g, o)
  <1>1. TasksSound(T, r.todo) /\ RefsExact(T, r) /\ FlagsOK(T, o) /\ RootOK(T, G, r)
    BY DEF Good
  <1>2. r \in [pc : {"spawn", "cont", "done"}, todo : SUBSET V, ref : 0..(1 + Cardinality(V))]
    BY <1>1 DEF RootOK
  <1>3. r2.ref = r.ref - 1 /\ r2.pc = "cont" /\ r2.todo = r.todo
    BY <1>2
  <1>4. Cardinality(ChildrenOf(T, Main)) \in Nat
    BY <1>1, TasksFinite
  <1>5. r.ref = Cardinality(ChildrenOf(T, Main)) + Cardinality({}) + 1 /\ Cardinality({}) = 0
    BY <1>1, FS_EmptySet DEF RefsExact
  <1>a. Cardinality(V) \in Nat
    BY VertexSets
  <1>6. r2.ref = Cardinality(ChildrenOf(T, Main)) + Cardinality(r2.todo) + 0
        /\ r2.ref \in 0..(1 + Cardinality(V))
    <2> DEFINE a == Cardinality(ChildrenOf(T, Main))
               b == Cardinality(V)
    <2>1. r2.todo = {} /\ r.ref = a + 0 + 1 /\ a \in Nat /\ b \in Nat /\ r.ref \in 0..(1 + b)
      BY <1>2, <1>3, <1>4, <1>5, <1>a
    <2> HIDE DEF a, b
    <2>2. r2.ref = a + 0 + 0 /\ r2.ref \in 0..(1 + b)
      BY <1>3, <2>1
    <2> QED BY <1>5, <2>1, <2>2 DEF a, b
  <1>7. RefsExact(T, r2)
    BY <1>1, <1>3, <1>6 DEF RefsExact
  <1>8. r2 \in [pc : {"spawn", "cont", "done"}, todo : SUBSET V, ref : 0..(1 + Cardinality(V))]
    BY <1>2, <1>3, <1>6
  <1>9. RootOK(T, G, r2)
    BY <1>1, <1>3, <1>8 DEF RootOK
  <1> QED BY <1>1, <1>3, <1>7, <1>9 DEF Good

\* Every task has a root task among its ancestors.
LEMMA NoTasks ==
  ASSUME NEW T, NEW todo, TasksSound(T, todo), ChildrenOf(T, Main) = {}
  PROVE  DOMAIN T = {}
  <1>1. SUFFICES ASSUME DOMAIN T # {} PROVE FALSE
    OBVIOUS
  <1> DEFINE B == {Cardinality(u) : u \in DOMAIN T}
  <1>2. \A u \in DOMAIN T : u \in SUBSET V
    BY DEF TasksSound, TaskSound
  <1>3. B \in SUBSET Nat /\ B # {}
    BY <1>1, <1>2, VertexSets
  <1>4. PICK m \in B : \A k \in B : <<k, m>> \notin OpToRel(<, Nat)
    <2> HIDE DEF B
    <2> QED BY <1>3, NatLessThanWellFounded, WFMin
  <1>5. PICK u \in DOMAIN T : m = Cardinality(u)
    BY <1>4
  <1>6. PICK w \in DOMAIN T : w \subseteq u /\ w # u
    <2>1. T[u].parent # Main
      BY DEF ChildrenOf
    <2> QED BY <2>1 DEF TasksSound, TaskSound
  <1>7. Cardinality(w) < Cardinality(u) /\ Cardinality(w) \in Nat /\ Cardinality(u) \in Nat
    BY <1>2, <1>6, VertexSets
  <1>8. Cardinality(w) \in B
    OBVIOUS
  <1>9. <<Cardinality(w), Cardinality(u)>> \in OpToRel(<, Nat)
    BY <1>7 DEF OpToRel
  <1> QED BY <1>4, <1>5, <1>8, <1>9

\* The root task is over.
LEMMA RootDoneGood ==
  ASSUME NEW g, NEW o, NEW T, NEW G, NEW C, NEW r,
         Good(T, G, C, r, g, o), r.pc = "cont", r.ref = 0,
         NEW r2, r2 = [r EXCEPT !.pc = "done"], NEW G2, G2 = Drop(G, Main)
  PROVE  Good(T, G2, C, r2, g, o)
  <1> DEFINE E == View(T, r.todo)
  <1>1. /\ TasksSound(T, r.todo) /\ RefsExact(T, r) /\ FlagsOK(T, o) /\ RootOK(T, G, r)
        /\ ViewOK(E, G, C, g, o)
    BY DEF Good
  <1>2. r \in [pc : {"spawn", "cont", "done"}, todo : SUBSET V, ref : 0..(1 + Cardinality(V))]
        /\ r.todo = {}
    BY <1>1 DEF RootOK
  <1>3. r2.ref = r.ref /\ r2.pc = "done" /\ r2.todo = r.todo
        /\ r2 \in [pc : {"spawn", "cont", "done"}, todo : SUBSET V, ref : 0..(1 + Cardinality(V))]
    BY <1>2
  <1>4. ChildrenOf(T, Main) = {}
    <2>1. IsFiniteSet(ChildrenOf(T, Main)) /\ Cardinality(ChildrenOf(T, Main)) \in Nat
      BY <1>1, TasksFinite
    <2>2. 0 = Cardinality(ChildrenOf(T, Main)) + Cardinality({}) + 0 /\ Cardinality({}) = 0
      BY <1>1, <1>2, FS_EmptySet DEF RefsExact
    <2>3. Cardinality(ChildrenOf(T, Main)) = 0
      BY <2>1, <2>2
    <2> QED BY <2>1, <2>3, FS_EmptySet
  <1>5. DOMAIN T = {}
    BY <1>1, <1>4, NoTasks
  <1>6. DOMAIN E = {}
    <2>1. Sites(T, r.todo) = {}
      BY <1>2, <1>5 DEF Sites
    <2> QED BY <2>1 DEF View
  <1>7. /\ IsFcn(G2) /\ DOMAIN G2 = DOMAIN G \ {Main}
        /\ \A j \in DOMAIN G : j # Main => G2[j] = G[j]
    BY DropFacts
  <1>8. ViewOK(E, G2, C, g, o)
    <2> HIDE DEF E
    <2>1. NamesApart(E, G2, g, o) /\ FramesSee(E, G2, g)
      BY <1>6 DEF NamesApart, FramesSee
    <2>2. GuardsExact(E, G, g, o)
      BY <1>1 DEF ViewOK
    <2>3. \A k \in DOMAIN G2 : CountOK(E, G2, o, k)
      BY <1>7, <2>2 DEF GuardsExact, CountOK
    <2>4. GuardsExact(E, G2, g, o)
      BY <1>6, <1>7, <2>2, <2>3 DEF GuardsExact
    <2> QED BY <1>1, <2>1, <2>4 DEF ViewOK
  <1>9. RootOK(T, G2, r2)
    BY <1>2, <1>3, <1>5, <1>7 DEF RootOK
  <1>10. RefsExact(T, r2)
    BY <1>1, <1>3 DEF RefsExact
  <1> QED BY <1>1, <1>3, <1>8, <1>9, <1>10 DEF Good

\* A continuation is the only frame of its task.
LEMMA ContinuationAlone ==
  ASSUME NEW s, StackOK(s), s[Len(s)].pc = "cont"
  PROVE  Len(s) = 1
  <1>1. Len(s) \in Nat /\ Len(s) >= 1 /\ Len(s) \in 1..Len(s)
    BY DEF StackOK
  <1>2. ~(Len(s) > 1)
    BY <1>1 DEF StackOK
  <1> DEFINE n == Len(s)
  <1>3. n \in Nat /\ n >= 1 /\ ~(n > 1)
    BY <1>1, <1>2
  <1> HIDE DEF n
  <1>4. n = 1
    BY <1>3
  <1> QED BY <1>4 DEF n

\* The continuation of t has run, and t is destroyed.
Ends(T, T2, G, G2, r, r2, t, f, o) ==
  /\ t \in DOMAIN T /\ f = T[t].stack[Len(T[t].stack)] /\ f.pc = "cont" /\ T[t].ref = 0
  /\ TaskGone(T, T2, t)
  /\ r2 = IF T[t].parent = Main THEN [r EXCEPT !.ref = @ - 1] ELSE r
  /\ IF o.subgraphBased = 1 /\ T[t].NewGraph
     THEN G2 = dec_graph_ref_count(G, f.gg) ELSE G2 = G

\* The end of a task preserves the whole invariant.
LEMMA DestroyGood ==
  ASSUME NEW g \in Graphs, NEW o \in Options, ~Faulty(o), NEW T, NEW G, NEW C, NEW r,
         Good(T, G, C, r, g, o), NEW T2, NEW G2, NEW r2, NEW t, NEW f,
         Ends(T, T2, G, G2, r, r2, t, f, o), NEW C2, C2 = Drop(C, t)
  PROVE  /\ Good(T2, G2, C2, r2, g, o)
         /\ Destroys(View(T, r.todo), View(T2, r2.todo), C, C2, t)
  <1>a. /\ t \in DOMAIN T /\ f = T[t].stack[Len(T[t].stack)] /\ f.pc = "cont" /\ T[t].ref = 0
        /\ TaskGone(T, T2, t)
        /\ r2 = IF T[t].parent = Main THEN [r EXCEPT !.ref = @ - 1] ELSE r
        /\ IF o.subgraphBased = 1 /\ T[t].NewGraph
           THEN G2 = dec_graph_ref_count(G, f.gg) ELSE G2 = G
    BY DEF Ends
  <1> USE <1>a
  <1> DEFINE n == Len(T[t].stack)
             x == <<t, n>>
             E == View(T, r.todo)
             E2 == View(T2, r2.todo)
             p == T[t].parent
             rel == o.subgraphBased = 1 /\ T[t].NewGraph
  <1>1. /\ RunsAt(T, r.todo, t, x) /\ Nested(E) /\ ViewOK(E, G, C, g, o)
        /\ Main \in DOMAIN G /\ StackOK(T[t].stack) /\ TaskSound(T, t) /\ FlagOK(T, o, t)
        /\ TasksSound(T, r.todo) /\ RefsExact(T, r) /\ FlagsOK(T, o) /\ RootOK(T, G, r)
        /\ StacksOK(T) /\ r.todo \in SUBSET V
    BY GoodFacts DEF Good
  <1>2. n = 1
    BY <1>1, ContinuationAlone
  <1>3. /\ <<t, 1>> \in DOMAIN E /\ E[<<t, 1>>] = f /\ T[t].stack[1] = f
        /\ \A y \in DOMAIN E : y[1] = t => y = <<t, 1>>
        /\ IsRoot(<<t, 1>>) <=> p = Main
        /\ \A v \in r.todo : {v} # t
    BY <1>1, <1>2 DEF RunsAt, Running
  <1>4. r2.pc = r.pc /\ r2.todo = r.todo /\ r2.ref = IF p = Main THEN r.ref - 1 ELSE r.ref
    <2>1. r \in [pc : {"spawn", "cont", "done"}, todo : SUBSET V, ref : 0..(1 + Cardinality(V))]
      BY <1>1 DEF RootOK
    <2> QED BY <2>1
  <1>5. /\ ChildrenOf(T, t) = {}
        /\ TasksSound(T2, r2.todo) /\ RefsExact(T2, r2) /\ FlagsOK(T2, o)
        /\ r.ref \in Nat /\ r2.ref \in Nat
    <2>1. Told(T, r, r2, t)
      BY <1>4 DEF Told
    <2>2. T[t].stack[1].pc = "cont"
      BY <1>3
    <2> HIDE DEF E, E2, x, n, rel
    <2> QED BY <1>1, <2>1, <2>2, TaskDestroy
  <1>6. \A u \in DOMAIN T2 : T2[u].stack = T[u].stack
    <2> SUFFICES ASSUME NEW u \in DOMAIN T2 PROVE T2[u].stack = T[u].stack
      OBVIOUS
    <2>1. CASE u # p
      BY <2>1 DEF TaskGone
    <2>2. CASE u = p
      <3>1. p # Main
        BY <1>5, <2>2 DEF TasksSound, TaskSound
      <3> QED BY <2>2, <3>1, TaskFields DEF TaskGone
    <2> QED BY <2>1, <2>2
  <1>7. E2 = Drop(E, <<t, 1>>)
    <2>1. DOMAIN T2 = DOMAIN T \ {t}
      BY DEF TaskGone
    <2> QED BY <1>1, <1>2, <1>3, <1>4, <1>6, <2>1, ViewDestroy
  <1>8. Destroys(E, E2, C, C2, t)
    BY <1>3, <1>7 DEF Destroys
  <1>9. rel <=> o.subgraphBased = 1 /\ IsRoot(<<t, 1>>) /\ f.gg = t
    <2> HIDE DEF Main, E, E2, x, n
    <2> QED BY <1>1, <1>3 DEF FlagOK
  <1>10. rel => \A y \in DOMAIN E : Active(E[y]) => E[y].gg # t
    <2> SUFFICES ASSUME rel, NEW y \in DOMAIN E, Active(E[y]) PROVE E[y].gg # t
      OBVIOUS
    <2>1. T[t].stack[1].pc = "cont" /\ GraphUse(E, o)
      BY <1>1, <1>3 DEF ViewOK
    <2> QED BY <1>1, <1>5, <2>1, SubgraphUnused
  <1>11. IF rel THEN G2 = dec_graph_ref_count(G, t) ELSE G2 = G
    BY <1>9
  <1>12. ViewOK(E2, G2, C2, g, o)
    <2>1. o.subgraphBased = 1 /\ IsRoot(<<t, 1>>) /\ E[<<t, 1>>].gg = t <=> rel
      BY <1>3, <1>9
    <2>2. rel \in BOOLEAN
      BY <1>1 DEF TaskSound
    <2> HIDE DEF E, E2, rel
    <2> QED BY <1>1, <1>8, <1>10, <1>11, <2>1, <2>2, DestroyView
  <1>13. RootOK(T2, G2, r2)
    <2>1. Main \in DOMAIN G2
      <3>1. t # Main
        BY <1>1 DEF TaskSound
      <3> QED BY <1>1, <1>11, <3>1, DecKeepsMain
    <2>2. r2 \in [pc : {"spawn", "cont", "done"}, todo : SUBSET V, ref : 0..(1 + Cardinality(V))]
      <3>1. r \in [pc : {"spawn", "cont", "done"}, todo : SUBSET V, ref : 0..(1 + Cardinality(V))]
        BY <1>1 DEF RootOK
      <3>2. Cardinality(V) \in Nat
        BY VertexSets
      <3>3. r2.ref \in 0..(1 + Cardinality(V))
        BY <1>4, <1>5, <3>1, <3>2
      <3> QED BY <3>1, <3>3
    <2>3. r.pc # "done" /\ (r.pc # "spawn" => r.todo = {})
      BY <1>1 DEF RootOK
    <2> QED BY <1>4, <2>1, <2>2, <2>3 DEF RootOK
  <1> QED BY <1>5, <1>8, <1>12, <1>13 DEF Good

-----------------------------------------------------------------------------
(***************************************************************************)
(* The operators of the module in the terms used above.                    *)
(***************************************************************************)
LEMMA WithFacts ==
  ASSUME NEW T, NEW t \in DOMAIN T, NEW s, NEW n
  PROVE  /\ Updated(T, WithStack(T, t, s), t, T[t].NewGraph, T[t].ref, s)
         /\ Updated(T, WithRef(T, t, n), t, T[t].NewGraph, n, T[t].stack)
  BY DEF Updated, WithStack, WithRef, IsFcn

\* Two updates of one task are one.
LEMMA UpdateTwice ==
  ASSUME NEW T, NEW T1, NEW T2, NEW t, NEW ng, NEW n, NEW s, NEW ng2, NEW n2, NEW s2,
         Updated(T, T1, t, ng, n, s), Updated(T1, T2, t, ng2, n2, s2)
  PROVE  Updated(T, T2, t, ng2, n2, s2)
  <1>1. T1[t].parent = T[t].parent
    BY TaskFields DEF Updated
  <1> QED BY <1>1 DEF Updated

\* The fields of a task that was updated.
LEMMA UpdatedTask ==
  ASSUME NEW T, NEW T2, NEW t, NEW ng, NEW n, NEW s, Updated(T, T2, t, ng, n, s)
  PROVE  /\ T2[t].parent = T[t].parent /\ T2[t].NewGraph = ng /\ T2[t].ref = n
         /\ T2[t].stack = s /\ t \in DOMAIN T2
  BY TaskFields DEF Updated

\* Return takes the count of the task to that of a continuation.
LEMMA ReturnFacts ==
  ASSUME NEW T, NEW t \in DOMAIN T
  PROVE  /\ Len(T[t].stack) = 1 =>
              Updated(T, Return(T, t), t, T[t].NewGraph, T[t].ref - 1,
                      <<[T[t].stack[1] EXCEPT !.pc = "cont"]>>)
         /\ Len(T[t].stack) # 1 =>
              Updated(T, Return(T, t), t, T[t].NewGraph, T[t].ref, Front(T[t].stack))
  <1> DEFINE s == T[t].stack
             ng == T[t].NewGraph
             n == T[t].ref
  <1>1. CASE Len(s) = 1
    <2> DEFINE w == <<[s[1] EXCEPT !.pc = "cont"]>>
               T2 == WithStack(T, t, w)
    <2>1. Return(T, t) = WithRef(T2, t, n - 1)
      BY <1>1 DEF Return, BecomeContinuation
    <2> HIDE DEF w
    <2>2. Updated(T, T2, t, ng, n, w)
      BY WithFacts
    <2> HIDE DEF T2
    <2>3. T2[t].NewGraph = ng /\ T2[t].stack = w /\ t \in DOMAIN T2
      BY <2>2, UpdatedTask
    <2>4. Updated(T2, WithRef(T2, t, n - 1), t, ng, n - 1, w)
      BY <2>3, WithFacts
    <2>5. Updated(T, WithRef(T2, t, n - 1), t, ng, n - 1, w)
      BY <2>2, <2>4, UpdateTwice
    <2> QED BY <1>1, <2>1, <2>5 DEF w
  <1>2. CASE Len(s) # 1
    <2>1. Return(T, t) = WithStack(T, t, Front(s))
      BY <1>2 DEF Return
    <2>2. Updated(T, WithStack(T, t, Front(s)), t, ng, n, Front(s))
      BY WithFacts
    <2> QED BY <1>2, <2>1, <2>2
  <1> QED BY <1>1, <1>2

\* SetTop, in the words of Updated.
LEMMA SetTopFacts ==
  ASSUME NEW T, NEW t \in DOMAIN T, NEW f
  PROVE  Updated(T, SetTop(T, t, f), t, T[t].NewGraph, T[t].ref, TopIs(T[t].stack, f))
  <1>1. SetTop(T, t, f) = WithStack(T, t, TopIs(T[t].stack, f))
    BY DEF SetTop, TopIs
  <1>2. Updated(T, WithStack(T, t, TopIs(T[t].stack, f)), t, T[t].NewGraph, T[t].ref,
                TopIs(T[t].stack, f))
    BY WithFacts
  <1> QED BY <1>1, <1>2

(***************************************************************************)
(* The actions.                                                            *)
(***************************************************************************)
\* The end of a loop.
LEMMA LoopEndGood ==
  ASSUME NEW g, NEW o \in Options, ~Faulty(o), NEW T, NEW G, NEW C, NEW r,
         Good(T, G, C, r, g, o), NEW t \in DOMAIN T,
         NEW f, f = T[t].stack[Len(T[t].stack)], f.pc = "loop", f.cand = {},
         NEW rel \in BOOLEAN,
         rel <=> \/ o.subgraphBased = 3
                 \/ Len(T[t].stack) = 1 /\ o.subgraphBased = 2 /\ T[t].NewGraph,
         NEW G2, G2 = IF rel THEN dec_graph_ref_count(G, f.gg) ELSE G
  PROVE  /\ Good(Return(T, t), G2, DeleteAll(C, f), r, g, o)
         /\ LeavesView(T, Return(T, t), r.todo, t)
  <1> DEFINE n == Len(T[t].stack)
             x == <<t, n>>
             E == View(T, r.todo)
  <1>1. /\ RunsAt(T, r.todo, t, x) /\ ViewOK(E, G, C, g, o) /\ TaskSound(T, t)
        /\ FlagOK(T, o, t) /\ RefExact(T, t) /\ TasksSound(T, r.todo) /\ StackOK(T[t].stack)
    BY GoodFacts DEF Good
  <1>2. x \in DOMAIN E /\ E[x] = f /\ x[2] = n
    BY <1>1 DEF RunsAt
  <1>3. Active(f) /\ GraphUse(E, o) /\ PoolsExact(E, C, o)
    BY <1>1 DEF Active, ViewOK
  <1>4. n = 1 => f = T[t].stack[1]
    OBVIOUS
  <1>5. o.subgraphBased \in {2, 3} => f.gg # Main
    BY <1>2, <1>3 DEF GraphUse
  <1>6. o.subgraphBased = 2 /\ n = 1 => T[t].NewGraph
    BY <1>1, <1>3, <1>4 DEF FlagOK
  <1>7. rel <=> Must(T, t, f, o)
    BY <1>5, <1>6 DEF Must
  <1>8. Returned(T, Return(T, t), t, T[t].NewGraph)
    <2>1. n = 1 => T[t].ref - 1 = Cardinality(ChildrenOf(T, t))
      <3>1. Cardinality(ChildrenOf(T, t)) \in Nat
        BY <1>1, TasksFinite
      <3>2. n = 1 => T[t].ref = Cardinality(ChildrenOf(T, t)) + 1
        BY <1>1, <1>4 DEF RefExact
      <3> QED BY <3>1, <3>2
    <2>2. CASE n = 1
      BY <2>1, <2>2, ReturnFacts DEF Returned
    <2>3. CASE n # 1
      BY <2>3, ReturnFacts DEF Returned
    <2> QED BY <2>2, <2>3
  <1>9. n = 1 => /\ o.subgraphBased = 0 => ~T[t].NewGraph
                 /\ o.subgraphBased = 1 => T[t].NewGraph = (T[t].parent = Main /\ f.gg = t)
    <2> HIDE DEF Main
    <2> QED BY <1>1, <1>4 DEF FlagOK
  <1>10. Shrunk(C, DeleteAll(C, f), f, o)
    BY <1>3, LoopShrinks
  <1>11. T[t].NewGraph \in BOOLEAN
    BY <1>1 DEF TaskSound
  <1>12. Leaves(T, Return(T, t), G, G2, t, f, T[t].NewGraph, rel, o)
    BY <1>7, <1>8, <1>9, <1>11 DEF Leaves
  <1> QED BY <1>10, <1>12, LeaveGood

\* What is left to show for a step.
LEMMA NextGood ==
  ASSUME IInv, UNCHANGED <<graph, opt>>, OutputOK',
         Good(tasks', guards', chunks', root', graph, opt)
  PROVE  IInv'
  BY DEF IInv, InputOK

\* The running frame of a task, and its site.
TopAt(t, f, x, E) ==
  /\ f = tasks[t].stack[Len(tasks[t].stack)] /\ f = top(t) /\ depth(t) = Len(tasks[t].stack)
  /\ x = <<t, Len(tasks[t].stack)>> /\ x \in DOMAIN E /\ E[x] = f
  /\ x[1] = t /\ x[2] = depth(t)
  /\ IsRoot(x) <=> isRootSg(t)
  /\ FrameSound(x, f)
  /\ depth(t) = 1 => f = tasks[t].stack[1]

\* The running frame of a task, in the view.
LEMMA TopFacts ==
  ASSUME IInv, NEW t \in DOMAIN tasks
  PROVE  TopAt(t, top(t), <<t, Len(tasks[t].stack)>>, View(tasks, root.todo))
  <1> DEFINE E == View(tasks, root.todo)
             n == Len(tasks[t].stack)
             x == <<t, n>>
             f == tasks[t].stack[n]
  <1>1. RunsAt(tasks, root.todo, t, x) /\ ViewOK(E, guards, chunks, graph, opt)
    BY GoodFacts DEF IInv
  <1>2. x \in DOMAIN E /\ E[x] = f /\ x[1] = t /\ x[2] = n
        /\ (IsRoot(x) <=> tasks[t].parent = Main /\ n = 1)
    BY <1>1 DEF RunsAt
  <1>3. top(t) = f /\ depth(t) = n
    BY DEF top, depth, Last
  <1>4. FrameSound(x, f)
    BY <1>1, <1>2 DEF ViewOK, FramesSound
  <1>5. IsRoot(x) <=> isRootSg(t)
    BY <1>2, <1>3 DEF isRootSg
  <1>6. depth(t) = 1 => f = tasks[t].stack[1]
    BY <1>3
  <1> HIDE DEF E, x
  <1> QED BY <1>2, <1>3, <1>4, <1>5, <1>6 DEF TopAt, x, E

\* The options of a command line that is not faulty.
LEMMA SubFacts ==
  ASSUME IInv
  PROVE  /\ graph \in Graphs /\ opt \in Options /\ ~Faulty(opt)
         /\ opt.subgraphBased \in 0..3 /\ Sub = opt.subgraphBased
         /\ Good(tasks, guards, chunks, root, graph, opt) /\ OutputOK
  <1>1. graph \in Graphs /\ opt \in Options /\ ~Faulty(opt)
        /\ Good(tasks, guards, chunks, root, graph, opt) /\ OutputOK
    BY DEF IInv, InputOK
  <1>2. opt.subgraphBased \in 0..3
    BY <1>1 DEF Faulty
  <1> QED BY <1>1, <1>2 DEF Sub

\* LoopEnd preserves the invariant.
LEMMA LoopEndOK ==
  ASSUME IInv, NEW t \in DOMAIN tasks, LoopEnd(t)
  PROVE  /\ IInv'
         /\ LeavesView(tasks, tasks', root.todo, t) /\ root'.todo = root.todo
  <1> DEFINE f == top(t)
             rel == ReleasesGraph(t)
             x == <<t, Len(tasks[t].stack)>>
             E == View(tasks, root.todo)
  <1>1. /\ f.pc = "loop" /\ f.cand = {} /\ chunks' = DeleteAll(chunks, f)
        /\ guards' = IF rel THEN dec_graph_ref_count(guards, f.gg) ELSE guards
        /\ tasks' = Return(tasks, t)
        /\ UNCHANGED <<graph, opt, root, reported, hist>>
    BY DEF LoopEnd, AfterLoop
  <1>2. TopAt(t, f, x, E)
    BY TopFacts
  <1>3. /\ graph \in Graphs /\ opt \in Options /\ ~Faulty(opt) /\ Sub = opt.subgraphBased
        /\ Good(tasks, guards, chunks, root, graph, opt) /\ OutputOK
    BY SubFacts
  <1>4. rel <=> \/ opt.subgraphBased = 3
                \/ Len(tasks[t].stack) = 1 /\ opt.subgraphBased = 2 /\ tasks[t].NewGraph
    BY <1>2, <1>3 DEF ReleasesGraph, TopAt
  <1>5. f = tasks[t].stack[Len(tasks[t].stack)]
    BY <1>2 DEF TopAt
  <1>6. rel \in BOOLEAN
    BY DEF ReleasesGraph
  <1> HIDE DEF f, rel, x, E
  <1>7. /\ Good(Return(tasks, t), guards', DeleteAll(chunks, f), root, graph, opt)
        /\ LeavesView(tasks, Return(tasks, t), root.todo, t)
    BY <1>1, <1>3, <1>4, <1>5, <1>6, LoopEndGood
  <1>8. Good(tasks', guards', chunks', root', graph, opt) /\ OutputOK'
    BY <1>1, <1>3, <1>7 DEF OutputOK
  <1> QED BY <1>1, <1>7, <1>8, NextGood

\* create_root_sets preserves the invariant.
LEMMA CreateRootSetsOK ==
  ASSUME IInv, NEW t \in DOMAIN tasks, create_root_sets(t)
  PROVE  /\ IInv'
         /\ root'.todo = root.todo
         /\ \E h : RootStart(graph, opt, t, h) /\ TopsView(tasks, tasks', root.todo, t, h)
  <1> DEFINE f == top(t)
             x == <<t, Len(tasks[t].stack)>>
             E == View(tasks, root.todo)
  <1>1. f.pc = "new" /\ UNCHANGED <<graph, opt, root, guards, chunks, reported, hist>>
    BY DEF create_root_sets
  <1>2. PICK v \in f.R :
          LET P == {u \in Adj(guards, Main, v) : Later(graph, opt, u, v)}
              X == Adj(guards, Main, v) \ P
          IN  tasks' = SetTop(tasks, t, Frame({v}, P, X, Main, Heap, "start"))
    BY DEF create_root_sets
  <1>3. TopAt(t, f, x, E)
    BY TopFacts
  <1>4. /\ graph \in Graphs /\ opt \in Options /\ ~Faulty(opt)
        /\ Good(tasks, guards, chunks, root, graph, opt) /\ OutputOK
    BY SubFacts
  <1>5. f = tasks[t].stack[Len(tasks[t].stack)] /\ FrameSound(x, f) /\ x[1] = t
    BY <1>3 DEF TopAt
  <1>6. f.R = t /\ IsRoot(x)
    BY <1>1, <1>5 DEF FrameSound, RootFrame, Frame
  <1>7. t = {v} /\ v \in V
    BY <1>5, <1>6 DEF IsRoot
  <1>8. Adj(guards, Main, v) = graph.adj[v]
    <2>1. ViewOK(E, guards, chunks, graph, opt) /\ Main \in DOMAIN guards
      BY <1>4, GoodFacts
    <2>2. guards[Main].adj = graph.adj
      BY <2>1 DEF ViewOK, GuardsExact
    <2>3. v \in DOMAIN graph.adj
      BY <1>4, <1>7, GraphFacts
    <2> QED BY <2>1, <2>2, <2>3 DEF Adj
  <1> DEFINE P == RootP(graph, opt, v)
             X == RootX(graph, opt, v)
             h == Frame({v}, P, X, Main, Heap, "start")
  <1>9. tasks' = SetTop(tasks, t, h)
    BY <1>2, <1>8 DEF RootP, RootX
  <1>10. RootStart(graph, opt, t, h)
    <2>1. graph.adj[v] \in SUBSET V
      BY <1>4, <1>7, GraphFacts
    <2>2. P \in SUBSET V /\ X \in SUBSET V /\ {v} \in SUBSET V /\ Main \in SUBSET V
          /\ Heap \in SUBSET V /\ "start" \in Pcs
      BY <1>7, <2>1 DEF RootP, RootX, Main, Heap, Pcs
    <2> HIDE DEF P, X
    <2>3. /\ h \in FrameType /\ h.pc = "start" /\ h.R = {v} /\ h.cand = {} /\ h.gg = Main
          /\ h.mem = Heap /\ h.cmem = Heap /\ h.P = P /\ h.X = X
      BY <2>2, FrameFacts
    <2>4. \A w \in t : w = v
      BY <1>7
    <2> HIDE DEF h
    <2> QED BY <1>7, <2>3, <2>4 DEF RootStart, P, X
  <1> HIDE DEF h, f, x, E
  <1>11. Updated(tasks, tasks', t, tasks[t].NewGraph, tasks[t].ref, TopIs(tasks[t].stack, h))
    BY <1>9, SetTopFacts
  <1>12. /\ Good(tasks', guards, chunks, root, graph, opt)
         /\ TopsView(tasks, tasks', root.todo, t, h)
    BY <1>1, <1>4, <1>5, <1>10, <1>11, RootSetsGood
  <1>13. Good(tasks', guards', chunks', root', graph, opt) /\ OutputOK'
    BY <1>1, <1>4, <1>12 DEF OutputOK
  <1> QED BY <1>1, <1>10, <1>12, <1>13, NextGood

\* StartTaskExit preserves the invariant.
LEMMA StartTaskExitOK ==
  ASSUME IInv, NEW t \in DOMAIN tasks, StartTaskExit(t)
  PROVE  /\ IInv'
         /\ LeavesView(tasks, tasks', root.todo, t) /\ root'.todo = root.todo
  <1> DEFINE f == top(t)
             x == <<t, Len(tasks[t].stack)>>
             E == View(tasks, root.todo)
             rel == (Sub = 3 \/ (Sub = 2 /\ depth(t) = 1)) /\ ~isRootSg(t)
             T1 == [tasks EXCEPT ![t] = Task(@.parent, FALSE, 1, @.stack)]
             ng == FALSE
             C2 == delete_set(delete_set(chunks, f.mem), f.mem)
  <1>1. /\ f.pc = "start" /\ chunks' = C2
        /\ guards' = IF rel THEN dec_graph_ref_count(guards, f.gg) ELSE guards
        /\ tasks' = Return(IF depth(t) = 1 THEN T1 ELSE tasks, t)
        /\ UNCHANGED <<graph, opt, root>>
    BY DEF StartTaskExit
  <1>2. TopAt(t, f, x, E)
    BY TopFacts
  <1>3. /\ graph \in Graphs /\ opt \in Options /\ ~Faulty(opt) /\ Sub = opt.subgraphBased
        /\ Good(tasks, guards, chunks, root, graph, opt) /\ OutputOK
    BY SubFacts
  <1>4. /\ f = tasks[t].stack[Len(tasks[t].stack)] /\ FrameSound(x, f)
        /\ x \in DOMAIN E /\ E[x] = f /\ depth(t) = Len(tasks[t].stack)
        /\ IsRoot(x) <=> isRootSg(t)
        /\ depth(t) = 1 => f = tasks[t].stack[1]
        /\ isRootSg(t) <=> tasks[t].parent = Main /\ depth(t) = 1
    BY <1>2 DEF TopAt, isRootSg
  <1>5. /\ ViewOK(E, guards, chunks, graph, opt) /\ TasksSound(tasks, root.todo)
        /\ TaskSound(tasks, t)
    BY <1>3, GoodFacts
  <1>6. GraphUse(E, opt) /\ PoolsExact(E, chunks, opt) /\ Active(f)
    BY <1>1, <1>5 DEF ViewOK, Active
  <1>7. /\ isRootSg(t) => f.gg = Main
        /\ opt.subgraphBased \in {2, 3} /\ ~isRootSg(t) => f.gg # Main
    BY <1>1, <1>4, <1>6 DEF GraphUse
  <1>8. rel <=> Must(tasks, t, f, opt)
    BY <1>3, <1>4, <1>7 DEF Must
  <1>9. Returned(tasks, tasks', t, ng)
    <2>1. CASE depth(t) = 1
      <3>1. Updated(tasks, T1, t, ng, 1, tasks[t].stack)
        BY DEF Updated, IsFcn
      <3>a. tasks' = Return(T1, t)
        BY <1>1, <2>1
      <3> HIDE DEF T1, ng
      <3>2. t \in DOMAIN T1 /\ T1[t].stack = tasks[t].stack /\ T1[t].ref = 1 /\ T1[t].NewGraph = ng
        BY <3>1, UpdatedTask
      <3>3. Updated(T1, Return(T1, t), t, ng, 1 - 1, <<[tasks[t].stack[1] EXCEPT !.pc = "cont"]>>)
        BY <1>4, <2>1, <3>2, ReturnFacts
      <3>4. Updated(tasks, tasks', t, ng, 1 - 1, <<[tasks[t].stack[1] EXCEPT !.pc = "cont"]>>)
        BY <3>1, <3>3, <3>a, UpdateTwice
      <3>5. Cardinality(ChildrenOf(tasks, t)) = 0
        BY <1>1, <1>4, <1>5, <2>1, NoChildren
      <3>6. 1 - 1 = Cardinality(ChildrenOf(tasks, t))
        BY <3>5
      <3> QED BY <1>4, <2>1, <3>4, <3>6 DEF Returned
    <2>2. CASE depth(t) # 1
      BY <1>1, <1>4, <2>2, ReturnFacts DEF Returned
    <2> QED BY <2>1, <2>2
  <1>10. f.cand = {} /\ f.R \in SUBSET V
    BY <1>1, <1>4 DEF FrameSound, FrameType
  <1>11. ~(tasks[t].parent = Main /\ depth(t) = 1 /\ f.gg = t)
    <2>1. t # Main
      BY <1>5 DEF TaskSound
    <2> QED BY <1>4, <1>7, <2>1
  <1>12. Leaves(tasks, tasks', guards, guards', t, f, ng, rel, opt)
    <2>1. rel \in BOOLEAN /\ ng \in BOOLEAN /\ ~ng
      OBVIOUS
    <2>2. f.pc \in {"start", "loop"}
      BY <1>1
    <2>3. guards' = IF rel THEN dec_graph_ref_count(guards, f.gg) ELSE guards
      BY <1>1
    <2>4. Len(tasks[t].stack) = 1 /\ opt.subgraphBased = 1 =>
            ng = (tasks[t].parent = Main /\ f.gg = t)
      BY <1>4, <1>11
    <2> HIDE DEF rel, ng, f
    <2> QED BY <1>4, <1>8, <1>9, <1>10, <2>1, <2>2, <2>3, <2>4 DEF Leaves
  <1>13. Shrunk(chunks, C2, f, opt)
    BY <1>1, <1>6, ExitShrinks
  <1>14. OutputOK'
    <2>1. reported' \subseteq SUBSET V /\ hist' \in [1..Cardinality(V) -> Nat]
      BY <1>3, <1>10 DEF StartTaskExit, OutputOK
    <2> QED BY <2>1 DEF OutputOK
  <1> HIDE DEF f, rel, x, E, T1, ng, C2
  <1>15. /\ Good(tasks', guards', C2, root, graph, opt)
         /\ LeavesView(tasks, tasks', root.todo, t)
    BY <1>3, <1>12, <1>13, LeaveGood
  <1>16. Good(tasks', guards', chunks', root', graph, opt)
    BY <1>1, <1>15
  <1> QED BY <1>1, <1>14, <1>15, <1>16, NextGood

\* Started sets the count of a task that has begun its own call.
LEMMA StartedFacts ==
  ASSUME NEW t \in DOMAIN tasks
  PROVE  /\ depth(t) = 1 =>
              Updated(tasks, Started(t), t, tasks[t].NewGraph, 1, tasks[t].stack)
         /\ depth(t) # 1 => Started(t) = tasks
  <1>1. Updated(tasks, WithRef(tasks, t, 1), t, tasks[t].NewGraph, 1, tasks[t].stack)
    BY WithFacts
  <1> QED BY <1>1 DEF Started

\* StartTaskCut preserves the invariant.
LEMMA StartTaskCutOK ==
  ASSUME IInv, NEW t \in DOMAIN tasks, StartTaskCut(t)
  PROVE  /\ IInv'
         /\ LeavesView(tasks, tasks', root.todo, t) /\ root'.todo = root.todo
  <1> DEFINE f == top(t)
             x == <<t, Len(tasks[t].stack)>>
             E == View(tasks, root.todo)
             ng == tasks[t].NewGraph
  <1>1. /\ f.pc = "start" /\ Limited(f) /\ tasks' = Return(Started(t), t)
        /\ UNCHANGED <<graph, opt, root, guards, chunks, reported, hist>>
    BY DEF StartTaskCut
  <1>2. TopAt(t, f, x, E)
    BY TopFacts
  <1>3. /\ graph \in Graphs /\ opt \in Options /\ ~Faulty(opt)
        /\ Good(tasks, guards, chunks, root, graph, opt) /\ OutputOK
    BY SubFacts
  <1>4. /\ f = tasks[t].stack[Len(tasks[t].stack)] /\ FrameSound(x, f)
        /\ x \in DOMAIN E /\ E[x] = f /\ depth(t) = Len(tasks[t].stack)
        /\ x[1] = t /\ x[2] = depth(t)
        /\ IsRoot(x) <=> isRootSg(t)
        /\ depth(t) = 1 => f = tasks[t].stack[1]
        /\ isRootSg(t) <=> tasks[t].parent = Main /\ depth(t) = 1
    BY <1>2 DEF TopAt, isRootSg
  <1>5. /\ ViewOK(E, guards, chunks, graph, opt) /\ TasksSound(tasks, root.todo)
        /\ TaskSound(tasks, t) /\ FlagOK(tasks, opt, t)
    BY <1>3, GoodFacts
  <1>6. GraphUse(E, opt) /\ PoolsExact(E, chunks, opt) /\ Active(f)
    BY <1>1, <1>5 DEF ViewOK, Active
  <1>7. opt.max_clq_size >= 0 /\ opt.max_clq_size \in Int
        /\ Cardinality(f.R) >= opt.max_clq_size
    BY <1>1, <1>3, TaskOptionsAssumption DEF Limited
  <1>8. opt.subgraphBased = 1 => ~isRootSg(t)
    <2> SUFFICES ASSUME opt.subgraphBased = 1, isRootSg(t) PROVE FALSE
      OBVIOUS
    <2>1. f.R = t /\ IsRoot(x)
      BY <1>4 DEF FrameSound
    <2>2. PICK v \in V : f.R = {v}
      BY <1>4, <2>1 DEF IsRoot
    <2>3. Cardinality(f.R) = 1
      BY <2>2, FS_Singleton
    <2>4. opt.max_clq_size \in {0, 1}
      <3> HIDE DEF f
      <3> QED BY <1>7, <2>3
    <2> QED BY <1>3, <2>4 DEF Faulty
  <1>9. Returned(tasks, tasks', t, ng)
    <2>1. CASE depth(t) = 1
      <3> DEFINE T1 == Started(t)
      <3>1. Updated(tasks, T1, t, ng, 1, tasks[t].stack)
        BY <2>1, StartedFacts
      <3>a. tasks' = Return(T1, t)
        BY <1>1, <2>1
      <3> HIDE DEF T1, ng
      <3>2. t \in DOMAIN T1 /\ T1[t].stack = tasks[t].stack /\ T1[t].ref = 1 /\ T1[t].NewGraph = ng
        BY <3>1, UpdatedTask
      <3>3. Updated(T1, Return(T1, t), t, ng, 1 - 1, <<[tasks[t].stack[1] EXCEPT !.pc = "cont"]>>)
        BY <1>4, <2>1, <3>2, ReturnFacts
      <3>4. Updated(tasks, tasks', t, ng, 1 - 1, <<[tasks[t].stack[1] EXCEPT !.pc = "cont"]>>)
        BY <3>1, <3>3, <3>a, UpdateTwice
      <3>5. Cardinality(ChildrenOf(tasks, t)) = 0
        BY <1>1, <1>4, <1>5, <2>1, NoChildren
      <3>6. 1 - 1 = Cardinality(ChildrenOf(tasks, t))
        BY <3>5
      <3> QED BY <1>4, <2>1, <3>4, <3>6 DEF Returned
    <2>2. CASE depth(t) # 1
      <3>1. tasks' = Return(tasks, t)
        BY <1>1, <2>2, StartedFacts
      <3> QED BY <1>4, <2>2, <3>1, ReturnFacts DEF Returned
    <2> QED BY <2>1, <2>2
  <1>10. f.cand = {}
    BY <1>1, <1>4 DEF FrameSound
  <1>11. Len(tasks[t].stack) = 1 =>
           /\ opt.subgraphBased = 0 => ~ng
           /\ opt.subgraphBased = 1 => ng = (tasks[t].parent = Main /\ f.gg = t)
    <2>1. opt.subgraphBased = 0 => ~ng
      BY <1>5 DEF FlagOK
    <2>2. opt.subgraphBased = 1 /\ tasks[t].parent # Main => ng = FALSE
      <3> HIDE DEF Main
      <3> QED BY <1>5 DEF FlagOK
    <2> QED BY <1>4, <1>8, <2>1, <2>2
  <1>12. Leaves(tasks, tasks', guards, guards, t, f, ng, FALSE, opt)
    <2>1. ng \in BOOLEAN
      BY <1>5 DEF TaskSound
    <2>2. f.pc \in {"start", "loop"}
      BY <1>1
    <2> HIDE DEF ng, f
    <2> QED BY <1>4, <1>7, <1>9, <1>10, <1>11, <2>1, <2>2 DEF Leaves
  <1>13. Shrunk(chunks, chunks, f, opt)
    BY <1>6, <1>7 DEF Shrunk, PoolsExact
  <1> HIDE DEF f, x, E, ng
  <1>14. /\ Good(tasks', guards, chunks, root, graph, opt)
         /\ LeavesView(tasks, tasks', root.todo, t)
    BY <1>3, <1>12, <1>13, LeaveGood
  <1>15. Good(tasks', guards', chunks', root', graph, opt) /\ OutputOK'
    BY <1>1, <1>3, <1>14 DEF OutputOK
  <1> QED BY <1>1, <1>14, <1>15, NextGood

\* Pivots are vertices of P or X.
LEMMA PivotVertices ==
  ASSUME NEW G, NEW f \in FrameType
  PROVE  /\ \A p \in HpxPivots(G, f) : p \in V
         /\ \A p \in GetPivots(G, f) : p \in V
         /\ \A p \in V : p # -1
  <1>1. f.P \union f.X \subseteq V
    BY DEF FrameType
  <1>2. Best(G, f, f.P \union f.X) \subseteq f.P \union f.X
    BY DEF Best
  <1>3. \A p \in HpxPivots(G, f) : p \in V
    BY <1>1, <1>2 DEF HpxPivots
  <1>4. \A p \in GetPivots(G, f) : p \in V
    BY <1>1, <1>2 DEF GetPivots
  <1>5. \A p \in V : p # -1
    BY TaskVAssumption
  <1> QED BY <1>3, <1>4, <1>5

\* p is a vertex of P or X with the most neighbours in P.
BestPivot(g, f, p) ==
  /\ p \in f.P \union f.X
  /\ \A w \in f.P \union f.X :
       Cardinality(f.P \intersect g.adj[w]) <= Cardinality(f.P \intersect g.adj[p])

\* There is a vertex of the highest degree.
LEMMA BestExists ==
  ASSUME NEW G, NEW f \in FrameType, f.P # {}
  PROVE  /\ \A w : Degree(G, f, w) \in Nat
         /\ Best(G, f, f.P \union f.X) # {}
  <1> DEFINE S == f.P \union f.X
             N == Cardinality(f.P)
             B == {N - Degree(G, f, w) : w \in S}
  <1>1. ASSUME NEW w PROVE Degree(G, f, w) \in Nat /\ Degree(G, f, w) <= N
    <2>1. f.P \in SUBSET V /\ f.P \intersect Adj(G, f.gg, w) \in SUBSET f.P
      BY DEF FrameType
    <2> QED BY <2>1, VertexSets DEF Degree
  <1>2. N \in Nat
    BY VertexSets DEF FrameType
  <1>3. B \in SUBSET Nat /\ B # {}
    <2>1. \A w : N - Degree(G, f, w) \in Nat
      <3> HIDE DEF N
      <3> QED BY <1>1, <1>2
    <2> HIDE DEF N
    <2> QED BY <2>1
  <1>4. PICK m \in B : \A k \in B : <<k, m>> \notin OpToRel(<, Nat)
    <2> HIDE DEF B
    <2> QED BY <1>3, NatLessThanWellFounded, WFMin
  <1>5. PICK v \in S : m = N - Degree(G, f, v)
    BY <1>4
  <1>6. ASSUME NEW w \in S PROVE Degree(G, f, w) <= Degree(G, f, v)
    <2> DEFINE k == N - Degree(G, f, w)
    <2>1. k \in B
      OBVIOUS
    <2>2. k \in Nat /\ m \in Nat
      BY <1>3, <1>4, <2>1
    <2>3. ~(k < m)
      <3> HIDE DEF k, B
      <3> QED BY <1>4, <2>1, <2>2 DEF OpToRel
    <2>4. Degree(G, f, w) \in Nat /\ Degree(G, f, v) \in Nat
      BY <1>1
    <2> HIDE DEF N, B
    <2> QED BY <1>2, <1>5, <2>3, <2>4
  <1>7. v \in Best(G, f, S)
    <2> HIDE DEF S
    <2> QED BY <1>6 DEF Best
  <1> QED BY <1>1, <1>7

(***************************************************************************)
(* createHpxSubgraph and getPivot choose by the degrees in the subgraph of *)
(* the call, which are those in the input graph.  The candidates are those *)
(* of the recursion, too.                                                  *)
(***************************************************************************)
LEMMA PivotsBest ==
  ASSUME NEW g, NEW G, NEW f \in FrameType, f.P # {}, SeesGraph(G, g, f)
  PROVE  /\ \A p \in HpxPivots(G, f) : BestPivot(g, f, p)
         /\ \A p \in GetPivots(G, f) : BestPivot(g, f, p)
         /\ \A p \in f.P \union f.X : f.P \ Adj(G, f.gg, p) = f.P \ g.adj[p]
  <1> DEFINE S == f.P \union f.X
             best == Best(G, f, S)
  <1>1. ASSUME NEW p \in S
        PROVE  f.P \intersect Adj(G, f.gg, p) = f.P \intersect g.adj[p]
    BY DEF SeesGraph
  <1>2. \A p \in S : f.P \ Adj(G, f.gg, p) = f.P \ g.adj[p]
    BY <1>1
  <1>3. \A p \in S : Degree(G, f, p) = Cardinality(f.P \intersect g.adj[p])
    BY <1>1 DEF Degree
  <1>4. best # {} /\ \A w : Degree(G, f, w) \in Nat
    BY BestExists
  <1>5. ASSUME NEW p \in S, \A w \in S : Degree(G, f, w) <= Degree(G, f, p)
        PROVE  BestPivot(g, f, p)
    BY <1>3, <1>5 DEF BestPivot
  <1>6. \A p \in best : p \in S /\ \A w \in S : Degree(G, f, w) <= Degree(G, f, p)
    BY DEF Best
  <1>7. \A p \in HpxPivots(G, f) : p \in best
    BY DEF HpxPivots
  <1>8. ASSUME NEW p \in GetPivots(G, f)
        PROVE  p \in S /\ \A w \in S : Degree(G, f, w) <= Degree(G, f, p)
    <2>1. CASE \A v \in best : Degree(G, f, v) = 0
      <3>1. p \in f.P
        BY <2>1 DEF GetPivots
      <3>2. PICK v \in best : Degree(G, f, v) = 0
        BY <1>4, <2>1
      <3>3. \A w \in S : Degree(G, f, w) <= 0
        BY <1>6, <3>2
      <3> HIDE DEF best
      <3> QED BY <1>4, <3>1, <3>3
    <2>2. CASE ~\A v \in best : Degree(G, f, v) = 0
      <3>1. p \in best
        BY <2>2 DEF GetPivots
      <3> QED BY <1>6, <3>1
    <2> QED BY <2>1, <2>2
  <1> HIDE DEF best, S
  <1>9. \A p \in HpxPivots(G, f) : BestPivot(g, f, p)
    BY <1>5, <1>6, <1>7
  <1>10. \A p \in GetPivots(G, f) : BestPivot(g, f, p)
    BY <1>5, <1>8
  <1> QED BY <1>2, <1>9, <1>10 DEF S

\* The step StartTask that begins a loop.
LEMMA StartTaskOpenOK ==
  ASSUME IInv, NEW t \in DOMAIN tasks, StartTaskOpen(t)
  PROVE  /\ IInv' /\ root'.todo = root.todo
         /\ \E h, p : /\ TopsView(tasks, tasks', root.todo, t, h) /\ OpensTo(top(t), h)
                      /\ BestPivot(graph, top(t), p) /\ h.cand = top(t).P \ graph.adj[p]
  <1> DEFINE f == top(t)
             x == <<t, Len(tasks[t].stack)>>
             E == View(tasks, root.todo)
             gg == IF createGraph(t) THEN f.R ELSE f.gg
             h == [f EXCEPT !.gg = gg]
             Made(node) == IF createGraph(t) THEN WithSubgraph(t, f, node) ELSE guards
             usesNode == (tasks[t].NewGraph /\ depth(t) = 1) \/ Sub = 3
             k(node, pivot) == [h EXCEPT !.pc = "loop", !.cmem = Owner(t, f),
                                         !.cand = f.P \ Adj(Made(node), gg, pivot)]
  <1>1. f.pc = "start" /\ f.P # {} /\ UNCHANGED <<graph, opt, root, reported, hist>>
    BY DEF StartTaskOpen
  <1>2. PICK node \in IF createGraph(t) THEN HpxPivots(guards, f) ELSE {-1} :
          \E pivot \in IF usesNode THEN {Made(node)[gg].pivot_node} ELSE GetPivots(Made(node), h) :
            /\ guards' = Made(node)
            /\ IF pivot = -1
               THEN /\ tasks' = SetTop(tasks, t, [f EXCEPT !.pc = "assert"])
                    /\ UNCHANGED chunks
               ELSE /\ tasks' = SetTop(Started(t), t, k(node, pivot))
                    /\ chunks' = allocate(chunks, Owner(t, f), 1)
    BY DEF StartTaskOpen
  <1>3. PICK pivot \in IF usesNode THEN {Made(node)[gg].pivot_node} ELSE GetPivots(Made(node), h) :
            /\ guards' = Made(node)
            /\ IF pivot = -1
               THEN /\ tasks' = SetTop(tasks, t, [f EXCEPT !.pc = "assert"])
                    /\ UNCHANGED chunks
               ELSE /\ tasks' = SetTop(Started(t), t, k(node, pivot))
                    /\ chunks' = allocate(chunks, Owner(t, f), 1)
    BY <1>2
  <1>4. TopAt(t, f, x, E)
    BY TopFacts
  <1>5. /\ graph \in Graphs /\ opt \in Options /\ ~Faulty(opt)
        /\ opt.subgraphBased \in 0..3 /\ Sub = opt.subgraphBased
        /\ Good(tasks, guards, chunks, root, graph, opt) /\ OutputOK
    BY SubFacts
  <1>6. /\ f = tasks[t].stack[Len(tasks[t].stack)] /\ FrameSound(x, f)
        /\ x \in DOMAIN E /\ E[x] = f /\ depth(t) = Len(tasks[t].stack)
        /\ x = <<t, Len(tasks[t].stack)>> /\ x[1] = t /\ x[2] = depth(t)
        /\ IsRoot(x) <=> isRootSg(t)
        /\ depth(t) = 1 => f = tasks[t].stack[1]
        /\ isRootSg(t) <=> tasks[t].parent = Main /\ depth(t) = 1
    BY <1>4 DEF TopAt, isRootSg
  <1>7. /\ ViewOK(E, guards, chunks, graph, opt) /\ TasksSound(tasks, root.todo)
        /\ TaskSound(tasks, t) /\ FlagOK(tasks, opt, t)
    BY <1>5, GoodFacts
  <1>8. f \in FrameType /\ Active(f) /\ PoolsExact(E, chunks, opt)
    BY <1>1, <1>6, <1>7 DEF Active, FrameSound, ViewOK
  <1>9. createGraph(t) <=> Creates(opt, x)
    <2>1. opt.subgraphBased = 2 /\ depth(t) = 1 => tasks[t].NewGraph
      BY <1>6, <1>7, <1>8 DEF FlagOK
    <2> QED BY <1>5, <1>6, <2>1 DEF createGraph, Creates
  <1>10. usesNode => createGraph(t)
    <2>1. tasks[t].NewGraph /\ opt.subgraphBased = 1 => tasks[t].parent = Main
      <3> HIDE DEF Main
      <3> QED BY <1>7 DEF FlagOK
    <2>2. opt.subgraphBased = 0 => ~tasks[t].NewGraph
      BY <1>7 DEF FlagOK
    <2>3. opt.subgraphBased \in {0, 1, 2, 3}
      BY <1>5
    <2> QED BY <1>5, <1>6, <2>1, <2>2, <2>3 DEF createGraph
  <1>11. /\ h \in FrameType /\ gg \in SUBSET V
         /\ h.R = f.R /\ h.P = f.P /\ h.X = f.X /\ h.gg = gg /\ h.mem = f.mem
    BY <1>8 DEF FrameType
  <1>12. pivot # -1 /\ (usesNode => pivot \in HpxPivots(guards, f))
    <2>1. CASE usesNode
      <3>1. node \in V
        BY <1>2, <1>8, <1>10, <2>1, PivotVertices
      <3>2. gg = f.R /\ Made(node) = WithSubgraph(t, f, node)
        BY <1>10, <2>1
      <3>3. WithSubgraph(t, f, node)[f.R] = Guard(1, HpxAdj(guards, f), node)
        BY DEF WithSubgraph, Put
      <3>4. Guard(1, HpxAdj(guards, f), node).pivot_node = node
        BY DEF Guard
      <3>5. pivot = Made(node)[gg].pivot_node
        BY <1>3, <2>1
      <3>6. pivot = node
        BY <3>2, <3>3, <3>4, <3>5
      <3>7. node \in HpxPivots(guards, f)
        BY <1>2, <1>10, <2>1
      <3> QED BY <1>8, <3>1, <3>6, <3>7, PivotVertices
    <2>2. CASE ~usesNode
      <3>1. pivot \in GetPivots(Made(node), h)
        BY <1>3, <2>2
      <3> HIDE DEF h, Made
      <3> QED BY <1>11, <2>2, <3>1, PivotVertices
    <2> QED BY <2>1, <2>2
  <1> DEFINE G2 == Made(node)
             l == k(node, pivot)
  <1>13. /\ guards' = G2 /\ tasks' = SetTop(Started(t), t, l)
         /\ chunks' = allocate(chunks, Owner(t, f), 1)
    BY <1>3, <1>12
  <1>14. Owner(t, f) \in {Heap, t} /\ Owner(t, f) \in SUBSET V
    BY <1>7 DEF Owner, Heap, TaskSound
  <1>15. OpensTo(f, l) /\ l.gg = gg /\ l.cmem = Owner(t, f) /\ l.cand = f.P \ Adj(Made(node), gg, pivot)
    <2> DEFINE S == f.P \ Adj(Made(node), gg, pivot)
               own == Owner(t, f)
    <2>1. S \subseteq f.P /\ S \in SUBSET V /\ own \in SUBSET V
      BY <1>8, <1>14 DEF FrameType
    <2>2. l = [h EXCEPT !.pc = "loop", !.cmem = own, !.cand = S]
      OBVIOUS
    <2> HIDE DEF S, own, h, l, gg
    <2>3. /\ l \in FrameType /\ l.pc = "loop" /\ l.cmem = own /\ l.cand = S
          /\ l.R = h.R /\ l.P = h.P /\ l.X = h.X /\ l.gg = h.gg /\ l.mem = h.mem
      BY <1>11, <2>1, <2>2 DEF FrameType, Pcs
    <2> QED BY <1>1, <1>11, <2>1, <2>3 DEF OpensTo, own, S
  <1>16. OpenedGraph(E, guards, G2, opt, x, node)
    <2>1. ~IsRoot(x) /\ opt.subgraphBased # 1 <=> ~isRootSg(t) /\ Sub # 1
      BY <1>5, <1>6
    <2>2. E[x] = f
      BY <1>6
    <2> HIDE DEF f, x, E
    <2> QED BY <1>9, <2>1, <2>2 DEF OpenedGraph, LeftGraph, WithSubgraph
  <1> HIDE DEF l, G2
  <1> DEFINE n == IF Len(tasks[t].stack) = 1 THEN 1 ELSE tasks[t].ref
  <1>17. Updated(tasks, tasks', t, tasks[t].NewGraph, n, TopIs(tasks[t].stack, l))
    <2>1. CASE depth(t) = 1
      <3> DEFINE T1 == Started(t)
      <3>1. Updated(tasks, T1, t, tasks[t].NewGraph, 1, tasks[t].stack)
        BY <2>1, StartedFacts
      <3>2. tasks' = SetTop(T1, t, l)
        BY <1>13
      <3> HIDE DEF T1
      <3>3. t \in DOMAIN T1 /\ T1[t].stack = tasks[t].stack /\ T1[t].ref = 1
            /\ T1[t].NewGraph = tasks[t].NewGraph
        BY <3>1, UpdatedTask
      <3>4. Updated(T1, SetTop(T1, t, l), t, tasks[t].NewGraph, 1, TopIs(tasks[t].stack, l))
        BY <3>3, SetTopFacts
      <3>5. Updated(tasks, tasks', t, tasks[t].NewGraph, 1, TopIs(tasks[t].stack, l))
        BY <3>1, <3>2, <3>4, UpdateTwice
      <3> QED BY <1>6, <2>1, <3>5
    <2>2. CASE depth(t) # 1
      <3>1. tasks' = SetTop(tasks, t, l)
        BY <1>13, <2>2, StartedFacts
      <3>2. Updated(tasks, tasks', t, tasks[t].NewGraph, tasks[t].ref, TopIs(tasks[t].stack, l))
        BY <3>1, SetTopFacts
      <3> QED BY <1>6, <2>2, <3>2
    <2> QED BY <2>1, <2>2
  <1>18. Grown(chunks, chunks', l.cmem, 1)
    BY <1>8, <1>13, <1>15, AllocateGrows
  <1>19. OpensTo(E[x], l) /\ l.gg = (IF Creates(opt, x) THEN E[x].R ELSE E[x].gg)
         /\ l.cmem \in {Heap, t}
    BY <1>6, <1>9, <1>14, <1>15
  <1> HIDE DEF n
  <1>20. Good(tasks', G2, chunks', root, graph, opt) /\ TopsView(tasks, tasks', root.todo, t, l)
    <2>1. n = IF Len(tasks[t].stack) = 1 THEN 1 ELSE tasks[t].ref
      BY DEF n
    <2> HIDE DEF f
    <2> QED BY <1>5, <1>16, <1>17, <1>18, <1>19, <2>1, OpenGood
  <1>21. Good(tasks', guards', chunks', root', graph, opt) /\ OutputOK'
    BY <1>1, <1>5, <1>13, <1>20 DEF OutputOK
  <1>22. SeesGraph(guards, graph, f)
    BY <1>6, <1>7, <1>8 DEF ViewOK, FramesSee
  <1>23. SeesGraph(G2, graph, h)
    <2> DEFINE E2 == View(tasks', root.todo)
    <2>1. FramesSee(E2, G2, graph)
      BY <1>20 DEF Good, ViewOK
    <2>2. x \in DOMAIN E2 /\ E2[x] = l
      BY <1>6, <1>20 DEF TopsView, ViewWith
    <2>3. Active(l) /\ l.P = f.P /\ l.X = f.X /\ l.gg = gg
      BY <1>15 DEF OpensTo, Active
    <2> HIDE DEF E2, h
    <2> QED BY <1>11, <2>1, <2>2, <2>3 DEF FramesSee, SeesGraph
  <1>24. BestPivot(graph, f, pivot)
    <2>1. CASE usesNode
      BY <1>1, <1>8, <1>12, <1>22, <2>1, PivotsBest
    <2>2. CASE ~usesNode
      <3>1. pivot \in GetPivots(G2, h)
        BY <1>3, <2>2 DEF G2
      <3>2. h \in FrameType /\ h.P # {}
        BY <1>1, <1>11
      <3> HIDE DEF h
      <3>3. BestPivot(graph, h, pivot)
        BY <1>23, <3>1, <3>2, PivotsBest
      <3> QED BY <1>11, <3>3 DEF BestPivot
    <2> QED BY <2>1, <2>2
  <1>25. l.cand = f.P \ graph.adj[pivot]
    <2>1. l.cand = h.P \ Adj(G2, h.gg, pivot) /\ pivot \in h.P \union h.X
      BY <1>11, <1>15, <1>24 DEF BestPivot, G2
    <2>2. h \in FrameType /\ h.P # {} /\ h.P = f.P
      BY <1>1, <1>11
    <2> HIDE DEF h
    <2>3. h.P \ Adj(G2, h.gg, pivot) = h.P \ graph.adj[pivot]
      BY <1>23, <2>1, <2>2, PivotsBest
    <2> QED BY <2>1, <2>2, <2>3
  <1>26. \E k2, p : /\ TopsView(tasks, tasks', root.todo, t, k2) /\ OpensTo(f, k2)
                    /\ BestPivot(graph, f, p) /\ k2.cand = f.P \ graph.adj[p]
    BY <1>15, <1>20, <1>24, <1>25
  <1> QED BY <1>1, <1>21, <1>26, NextGood DEF f

\* The child call of an iteration, as ChildIn describes it.
LEMMA ChildFrameFacts ==
  ASSUME IInv, NEW t \in DOMAIN tasks, top(t).pc = "loop", NEW v \in top(t).cand
  PROVE  /\ ChildIn(graph, top(t), v, ChildFrame(t, top(t), v))
         /\ ChildFrame(t, top(t), v).mem = Owner(t, top(t))
         /\ Owner(t, top(t)) \in {Heap, t}
         /\ v \in V /\ v \notin top(t).R /\ v \in top(t).P
  <1> DEFINE f == top(t)
             x == <<t, Len(tasks[t].stack)>>
             E == View(tasks, root.todo)
             m == Owner(t, f)
  <1>1. TopAt(t, f, x, E)
    BY TopFacts
  <1>2. graph \in Graphs /\ Good(tasks, guards, chunks, root, graph, opt)
    BY SubFacts
  <1>3. FrameSound(x, f) /\ x \in DOMAIN E /\ E[x] = f
    BY <1>1 DEF TopAt
  <1>4. f \in FrameType /\ v \in f.P /\ v \notin f.R /\ v \in V
    BY <1>3 DEF FrameSound, FrameType
  <1>5. ViewOK(E, guards, chunks, graph, opt) /\ TaskSound(tasks, t)
    BY <1>2, GoodFacts
  <1>6. SeesGraph(guards, graph, f)
    BY <1>3, <1>5 DEF ViewOK, FramesSee, Active
  <1>7. m \in {Heap, t} /\ m \in SUBSET V
    BY <1>5 DEF Owner, Heap, TaskSound
  <1> HIDE DEF f, m, x, E
  <1>8. ChildIn(graph, f, v, Frame(f.R \union {v}, f.P \intersect Adj(guards, f.gg, v),
                                   f.X \intersect Adj(guards, f.gg, v), f.gg, m, "start"))
    BY <1>2, <1>4, <1>6, <1>7, ChildFacts
  <1>9. ChildFrame(t, f, v) = Frame(f.R \union {v}, f.P \intersect Adj(guards, f.gg, v),
                                    f.X \intersect Adj(guards, f.gg, v), f.gg, m, "start")
    BY DEF ChildFrame, m
  <1>10. ChildFrame(t, f, v).mem = m
    BY <1>9, FrameFacts
  <1> QED BY <1>4, <1>7, <1>8, <1>9, <1>10 DEF f, m

\* LoopIterationSequential preserves the invariant.
LEMMA LoopIterationSequentialOK ==
  ASSUME IInv, NEW t \in DOMAIN tasks, NEW v \in top(t).cand, LoopIterationSequential(t, v)
  PROVE  /\ IInv'
         /\ root'.todo = root.todo
         /\ DescendsView(tasks, tasks', root.todo, t, graph, v, ChildFrame(t, top(t), v))
  <1> DEFINE f == top(t)
             c == ChildFrame(t, f, v)
             h == Iterated(f, v)
             T1 == SetTop(tasks, t, h)
             x == <<t, Len(tasks[t].stack)>>
             E == View(tasks, root.todo)
  <1>1. /\ f.pc = "loop" /\ tasks' = WithStack(T1, t, Append(T1[t].stack, c))
        /\ guards' = IF Sub = 3 THEN inc_graph_ref_count(guards, f.gg) ELSE guards
        /\ chunks' = allocate(chunks, Owner(t, f), 2)
        /\ UNCHANGED <<graph, opt, root, reported, hist>>
    BY DEF LoopIterationSequential
  <1>2. ChildIn(graph, f, v, c) /\ c.mem = Owner(t, f) /\ c.mem \in {Heap, t}
    BY <1>1, ChildFrameFacts
  <1>3. /\ graph \in Graphs /\ opt \in Options /\ ~Faulty(opt) /\ Sub = opt.subgraphBased
        /\ Good(tasks, guards, chunks, root, graph, opt) /\ OutputOK
    BY SubFacts
  <1>4. f = tasks[t].stack[Len(tasks[t].stack)]
    BY TopFacts DEF TopAt
  <1>5. PoolsExact(E, chunks, opt)
    BY <1>3, GoodFacts DEF ViewOK
  <1>6. Updated(tasks, T1, t, tasks[t].NewGraph, tasks[t].ref, TopIs(tasks[t].stack, h))
    BY SetTopFacts
  <1> HIDE DEF f, c, h, T1, x, E
  <1>7. t \in DOMAIN T1 /\ T1[t].NewGraph = tasks[t].NewGraph /\ T1[t].ref = tasks[t].ref
        /\ T1[t].stack = TopIs(tasks[t].stack, h)
    BY <1>6, UpdatedTask
  <1> DEFINE w == Append(TopIs(tasks[t].stack, h), c)
  <1>8. tasks' = WithStack(T1, t, w)
    BY <1>1, <1>7
  <1> HIDE DEF w
  <1>9. Updated(T1, tasks', t, tasks[t].NewGraph, tasks[t].ref, w)
    BY <1>7, <1>8, WithFacts
  <1>10. Updated(tasks, tasks', t, tasks[t].NewGraph, tasks[t].ref, w)
    BY <1>6, <1>9, UpdateTwice
  <1>11. Updated(tasks, tasks', t, tasks[t].NewGraph, tasks[t].ref,
                 Append(TopIs(tasks[t].stack, Iterated(f, v)), c))
    BY <1>10 DEF w, h
  <1>12. Grown(chunks, chunks', c.mem, 2)
    BY <1>1, <1>2, <1>5, AllocateGrows
  <1>13. IF opt.subgraphBased = 3 THEN guards' = inc_graph_ref_count(guards, f.gg)
         ELSE guards' = guards
    BY <1>1, <1>3
  <1>14. v \in f.cand
    BY DEF f
  <1>15. /\ Good(tasks', guards', chunks', root, graph, opt)
         /\ DescendsView(tasks, tasks', root.todo, t, graph, v, c)
    <2>1. f.pc = "loop" /\ c.mem \in {Heap, t} /\ ChildIn(graph, f, v, c)
      BY <1>1, <1>2
    <2>2. /\ graph \in Graphs /\ opt \in Options /\ ~Faulty(opt)
          /\ Good(tasks, guards, chunks, root, graph, opt)
      BY <1>3
    <2>3. CallsInPlace(tasks, tasks', guards, guards', t, f, v, c, graph, opt)
      BY <1>4, <1>11, <1>13, <1>14, <2>1 DEF CallsInPlace
    <2> QED BY <1>12, <2>2, <2>3, InPlaceGood
  <1>16. Good(tasks', guards', chunks', root', graph, opt) /\ OutputOK'
    BY <1>1, <1>3, <1>15 DEF OutputOK
  <1> QED BY <1>1, <1>15, <1>16, NextGood DEF c, f

\* A call whose child is too large to be run in place has no pooled sets.
LEMMA SpawnFromHeap ==
  ASSUME IInv, NEW t \in DOMAIN tasks, NEW f \in FrameType, NEW v \in f.P, NEW c,
         ChildIn(graph, f, v, c), ~RunInPlace(c)
  PROVE  Owner(t, f) = Heap
  <1>1. graph \in Graphs /\ opt \in Options
    BY SubFacts
  <1>2. /\ f.P \in SUBSET V /\ f.X \in SUBSET V /\ v \in V
        /\ c.P = f.P \intersect graph.adj[v] /\ c.X = f.X \intersect graph.adj[v]
    BY DEF ChildIn, FrameType
  <1>3. v \notin graph.adj[v]
    BY <1>1, <1>2, GraphFacts
  <1>4. c.P \in SUBSET f.P /\ c.P # f.P /\ c.X \in SUBSET f.X
    BY <1>2, <1>3
  <1>5. /\ Cardinality(c.P) \in Nat /\ Cardinality(f.P) \in Nat /\ Cardinality(c.P) < Cardinality(f.P)
        /\ Cardinality(c.X) \in Nat /\ Cardinality(f.X) \in Nat /\ Cardinality(c.X) <= Cardinality(f.X)
    BY <1>2, <1>4, VertexSets
  <1>6. /\ opt.PX_threshold \in Int /\ opt.mem_threshold \in Int
        /\ opt.setsMempool => opt.PX_threshold >= opt.mem_threshold - 1
    BY <1>1, TaskOptionsAssumption, SafeThresholds
  <1>7. ~(Cardinality(c.P) + Cardinality(c.X) < opt.PX_threshold)
    BY DEF RunInPlace
  <1>8. opt.setsMempool => ~(Cardinality(f.P) + Cardinality(f.X) < opt.mem_threshold)
    BY <1>5, <1>6, <1>7
  <1> QED BY <1>8 DEF Owner, Pooled

\* The view after LoopIteration has spawned a task, and has ended if v was last.
SpawnsIn(E, E2, x, y, g, v, c) ==
  \E E1 : /\ Descends(E, E1, x, y, g, v, c)
          /\ \/ E2 = E1
             \/ E1[x].cand = {} /\ E2 = Left(E1, x)

\* The step LoopIteration with a new task.
LEMMA LoopIterationSpawnOK ==
  ASSUME IInv, NEW t \in DOMAIN tasks, NEW v \in top(t).cand, LoopIterationSpawn(t, v)
  PROVE  /\ IInv'
         /\ root'.todo = root.todo
         /\ \E y : SpawnsIn(View(tasks, root.todo), View(tasks', root.todo),
                         <<t, Len(tasks[t].stack)>>, y, graph, v, ChildFrame(t, top(t), v))
  <1> DEFINE f == top(t)
             c == ChildFrame(t, f, v)
             h == Iterated(f, v)
             ng == Sub > 1
             T1 == SetTop(tasks, t, h)
             T2 == WithRef(T1, t, tasks[t].ref + 1)
             T == Put(T2, c.R, NewTask(t, ng, c))
             G == IF Sub > 1 THEN inc_graph_ref_count(guards, f.gg) ELSE guards
             C == allocate(chunks, Owner(t, f), 2)
             last == depth(t) = 1 /\ h.cand = {}
             x == <<t, Len(tasks[t].stack)>>
             E == View(tasks, root.todo)
             rel == ReleasesGraph(t)
  <1>1. /\ f.pc = "loop" /\ ~RunInPlace(c)
        /\ tasks' = (IF last THEN Return(T, t) ELSE T)
        /\ guards' = (IF last THEN AfterLoop(G, t, h) ELSE G)
        /\ chunks' = (IF last THEN DeleteAll(C, h) ELSE C)
        /\ UNCHANGED <<graph, opt, root, reported, hist>>
    BY DEF LoopIterationSpawn
  <1>2. /\ ChildIn(graph, f, v, c) /\ c.mem = Owner(t, f)
        /\ v \in V /\ v \notin f.R /\ v \in f.P
    BY <1>1, ChildFrameFacts
  <1>3. /\ graph \in Graphs /\ opt \in Options /\ ~Faulty(opt) /\ Sub = opt.subgraphBased
        /\ Good(tasks, guards, chunks, root, graph, opt) /\ OutputOK
        /\ opt.subgraphBased \in 0..3
    BY SubFacts
  <1>4. TopAt(t, f, x, E)
    BY TopFacts
  <1>5. /\ f = tasks[t].stack[Len(tasks[t].stack)] /\ FrameSound(x, f)
        /\ depth(t) = Len(tasks[t].stack) /\ x[1] = t
    BY <1>4 DEF TopAt
  <1>6. f \in FrameType /\ t \subseteq f.R
    BY <1>5 DEF FrameSound
  <1>7. Owner(t, f) = Heap
    BY <1>1, <1>2, <1>6, SpawnFromHeap
  <1>8. PoolsExact(E, chunks, opt) /\ StackOK(tasks[t].stack)
    BY <1>3, GoodFacts DEF ViewOK
  <1>9. Updated(tasks, T1, t, tasks[t].NewGraph, tasks[t].ref, TopIs(tasks[t].stack, h))
    BY SetTopFacts
  <1>10. c.R = f.R \union {v} /\ c \in FrameType
    BY <1>2 DEF ChildIn
  <1>a. c.R # t
    BY <1>2, <1>6, <1>10
  <1>b. AfterLoop(G, t, h) = IF rel THEN dec_graph_ref_count(G, h.gg) ELSE G
    BY DEF AfterLoop
  <1>c. h \in FrameType /\ h.pc = "loop"
    BY <1>1, <1>2, <1>6, IteratedFacts
  <1>d. rel \in BOOLEAN
    BY DEF ReleasesGraph
  <1>e. NewTask(t, ng, c) = Task(t, ng, 0, <<c>>)
    BY DEF NewTask
  <1> HIDE DEF c, h, T1, x, E, ng
  <1>11. /\ t \in DOMAIN T1 /\ T1[t].NewGraph = tasks[t].NewGraph /\ T1[t].ref = tasks[t].ref
         /\ T1[t].stack = TopIs(tasks[t].stack, h) /\ T1[t].parent = tasks[t].parent
    BY <1>9, UpdatedTask
  <1>12. Updated(T1, T2, t, T1[t].NewGraph, T1[t].ref + 1, T1[t].stack)
    BY <1>11, WithFacts
  <1> HIDE DEF T2
  <1>13. Added(T2, T, c.R, Task(t, ng, 0, <<c>>))
    BY <1>e, PutAdds
  <1> HIDE DEF T
  <1>14. Spawned(T1, T, t, c.R, ng, c)
    <2>1. DOMAIN T2 = DOMAIN T1 /\ T2[t] = Task(T1[t].parent, T1[t].NewGraph, T1[t].ref + 1, T1[t].stack)
          /\ \A u \in DOMAIN T1 : u # t => T2[u] = T1[u]
      BY <1>12 DEF Updated
    <2>2. c.R \notin DOMAIN T1
      <3>1. FramesSound(View(tasks, root.todo)) /\ FramesApart(View(tasks, root.todo), graph, opt)
            /\ StacksOK(tasks)
        BY <1>3, GoodFacts DEF ViewOK
      <3>2. x \in DOMAIN E /\ E[x] = f
        BY <1>4 DEF TopAt
      <3>3. <<f.R \union {v}, 1>> \notin DOMAIN E
        <4>1. v \in E[x].cand /\ E[x].pc = "loop"
          BY <1>1, <3>2
        <4>2. <<E[x].R \union {v}, 1>> \notin DOMAIN E
          BY <1>3, <3>1, <3>2, <4>1, SpawnNameNew DEF E
        <4> QED BY <3>2, <4>2
      <3>4. DOMAIN E = Sites(tasks, root.todo)
        BY <3>1, SiteIff DEF E
      <3>5. \A u \in DOMAIN tasks : <<u, 1>> \in Sites(tasks, root.todo)
        <4> SUFFICES ASSUME NEW u \in DOMAIN tasks PROVE <<u, 1>> \in Sites(tasks, root.todo)
          OBVIOUS
        <4>1. 1 \in 1..Len(tasks[u].stack)
          BY <3>1 DEF StacksOK
        <4> QED BY <3>1, <4>1, SiteIff
      <3>6. DOMAIN T1 = DOMAIN tasks
        BY <1>9 DEF Updated
      <3> QED BY <1>10, <3>3, <3>4, <3>5, <3>6
    <2>3. IsFcn(T) /\ DOMAIN T = DOMAIN T2 \union {c.R} /\ T[c.R] = Task(t, ng, 0, <<c>>)
          /\ \A j \in DOMAIN T2 : j # c.R => T[j] = T2[j]
      BY <1>13 DEF Added
    <2> QED BY <1>11, <2>1, <2>2, <2>3 DEF Spawned
  <1>15. /\ Good(T, G, C, root, graph, opt)
         /\ DescendsView(tasks, T, root.todo, t, graph, v, c)
    <2>1. c.mem = Heap
      BY <1>2, <1>7
    <2>2. Grown(chunks, C, Heap, 2)
      BY <1>7, <1>8, AllocateGrows
    <2>3. IF opt.subgraphBased > 1 THEN G = inc_graph_ref_count(guards, f.gg) ELSE G = guards
      BY <1>3
    <2>4. Spawned(T1, T, t, c.R, opt.subgraphBased > 1, c)
      BY <1>3, <1>14 DEF ng
    <2>5. Updated(tasks, T1, t, tasks[t].NewGraph, tasks[t].ref, TopIs(tasks[t].stack, Iterated(f, v)))
      BY <1>9 DEF h
    <2>6. v \in f.cand
      OBVIOUS
    <2> HIDE DEF G, C, f
    <2> QED BY <1>1, <1>2, <1>3, <1>5, <2>1, <2>2, <2>3, <2>4, <2>5, <2>6, SpawnGood, ZenonT(60)
  <1>z. PICK y : Descends(View(tasks, root.todo), View(T, root.todo),
                          <<t, Len(tasks[t].stack)>>, y, graph, v, c)
    BY <1>15 DEF DescendsView
  <1>16. CASE ~last
    <2>1. Good(tasks', guards', chunks', root', graph, opt) /\ OutputOK'
      BY <1>1, <1>3, <1>15, <1>16 DEF OutputOK
    <2>2. View(tasks', root.todo) = View(T, root.todo)
      BY <1>1, <1>16
    <2>3. SpawnsIn(View(tasks, root.todo), View(tasks', root.todo),
                   <<t, Len(tasks[t].stack)>>, y, graph, v, c)
      BY <1>z, <2>2 DEF SpawnsIn
    <2> HIDE DEF f
    <2> QED BY <1>1, <2>1, <2>3, NextGood DEF c, f
  <1>17. CASE last
    <2>1. T[t].stack = TopIs(tasks[t].stack, h) /\ T[t].NewGraph = tasks[t].NewGraph /\ t \in DOMAIN T
      <3>1. T[t] = Task(T1[t].parent, T1[t].NewGraph, T1[t].ref + 1, T1[t].stack) /\ t \in DOMAIN T
        BY <1>14 DEF Spawned
      <3> QED BY <1>11, <3>1, TaskFields
    <2>2. Len(tasks[t].stack) = 1 /\ h.cand = {}
      BY <1>5, <1>17
    <2>3. Len(T[t].stack) = 1 /\ T[t].stack[1] = h
      BY <1>8, <1>c, <2>1, <2>2, TopStack
    <2>4. h = T[t].stack[Len(T[t].stack)]
      BY <2>3
    <2>5. rel <=> \/ opt.subgraphBased = 3
                  \/ Len(T[t].stack) = 1 /\ opt.subgraphBased = 2 /\ T[t].NewGraph
      BY <1>3, <1>5, <2>1, <2>2, <2>3 DEF ReleasesGraph
    <2> DEFINE G2 == AfterLoop(G, t, h)
    <2>6. G2 = IF rel THEN dec_graph_ref_count(G, h.gg) ELSE G
      BY <1>b
    <2> HIDE DEF G2, rel, G, C, f
    <2>7. /\ Good(Return(T, t), G2, DeleteAll(C, h), root, graph, opt)
          /\ LeavesView(T, Return(T, t), root.todo, t)
      BY <1>3, <1>15, <1>c, <1>d, <2>1, <2>2, <2>4, <2>5, <2>6, LoopEndGood
    <2>8. tasks' = Return(T, t) /\ guards' = G2 /\ chunks' = DeleteAll(C, h)
      BY <1>1, <1>17 DEF G2
    <2>9. Good(tasks', guards', chunks', root', graph, opt) /\ OutputOK'
      BY <1>1, <1>3, <2>7, <2>8 DEF OutputOK
    <2>10. View(tasks', root.todo) = Left(View(T, root.todo), <<t, Len(tasks[t].stack)>>)
      BY <2>2, <2>3, <2>7, <2>8 DEF LeavesView
    <2>11. View(T, root.todo)[<<t, Len(tasks[t].stack)>>] = h
      BY <1>4, <1>5, <1>z DEF Descends, TopAt, h, E, x
    <2>12. SpawnsIn(View(tasks, root.todo), View(tasks', root.todo),
                    <<t, Len(tasks[t].stack)>>, y, graph, v, c)
      BY <1>z, <2>2, <2>10, <2>11 DEF SpawnsIn
    <2> QED BY <1>1, <2>9, <2>12, NextGood DEF c, f
  <1> QED BY <1>16, <1>17

\* TBB destroys a task after its continuation.
ContinuationFacts(t) ==
  /\ TaskGone(tasks, tasks', t)
  /\ root' = IF tasks[t].parent = Main THEN [root EXCEPT !.ref = @ - 1] ELSE root

\* What Continuation does, in the words of the lemmas above.
LEMMA ContinuationDestroys ==
  ASSUME IInv, NEW t \in DOMAIN tasks, Continuation(t)
  PROVE  ContinuationFacts(t)
  <1> DEFINE p == tasks[t].parent
             T1 == WithRef(tasks, p, tasks[p].ref - 1)
  <1>1. TasksSound(tasks, root.todo) /\ TaskSound(tasks, t)
    BY SubFacts, GoodFacts
  <1>2. CASE p = Main
    <2>1. tasks' = Drop(tasks, t) /\ root' = [root EXCEPT !.ref = @ - 1]
      BY <1>2 DEF Continuation
    <2>2. IsFcn(tasks') /\ DOMAIN tasks' = DOMAIN tasks \ {t}
          /\ \A u \in DOMAIN tasks : u # t => tasks'[u] = tasks[u]
      BY <2>1, DropFacts
    <2> QED BY <1>2, <2>1, <2>2 DEF ContinuationFacts, TaskGone
  <1>3. CASE p # Main
    <2>1. tasks' = Drop(T1, t) /\ root' = root
      BY <1>3 DEF Continuation
    <2>2. p \in DOMAIN tasks /\ p # t
      BY <1>1, <1>3 DEF TaskSound
    <2>3. Updated(tasks, T1, p, tasks[p].NewGraph, tasks[p].ref - 1, tasks[p].stack)
      BY <2>2, WithFacts
    <2> HIDE DEF T1
    <2>4. IsFcn(tasks') /\ DOMAIN tasks' = DOMAIN T1 \ {t}
          /\ \A u \in DOMAIN T1 : u # t => tasks'[u] = T1[u]
      BY <2>1, DropFacts
    <2>5. /\ DOMAIN T1 = DOMAIN tasks /\ \A u \in DOMAIN tasks : u # p => T1[u] = tasks[u]
          /\ T1[p] = Task(tasks[p].parent, tasks[p].NewGraph, tasks[p].ref - 1, tasks[p].stack)
      BY <2>3 DEF Updated
    <2> QED BY <1>3, <2>1, <2>2, <2>4, <2>5 DEF ContinuationFacts, TaskGone
  <1> QED BY <1>2, <1>3

\* Continuation preserves the invariant.
LEMMA ContinuationOK ==
  ASSUME IInv, NEW t \in DOMAIN tasks, Continuation(t)
  PROVE  /\ IInv'
         /\ Destroys(View(tasks, root.todo), View(tasks', root'.todo), chunks, chunks', t)
  <1> DEFINE f == top(t)
  <1>1. /\ f.pc = "cont" /\ tasks[t].ref = 0 /\ chunks' = Drop(chunks, t)
        /\ guards' = IF Sub = 1 /\ tasks[t].NewGraph
                     THEN dec_graph_ref_count(guards, f.gg) ELSE guards
        /\ UNCHANGED <<graph, opt, reported, hist>>
    BY DEF Continuation
  <1>2. TaskGone(tasks, tasks', t)
        /\ root' = IF tasks[t].parent = Main THEN [root EXCEPT !.ref = @ - 1] ELSE root
    BY ContinuationDestroys DEF ContinuationFacts
  <1>3. /\ graph \in Graphs /\ opt \in Options /\ ~Faulty(opt) /\ Sub = opt.subgraphBased
        /\ Good(tasks, guards, chunks, root, graph, opt) /\ OutputOK
    BY SubFacts
  <1>4. f = tasks[t].stack[Len(tasks[t].stack)]
    BY TopFacts DEF TopAt
  <1>5. IF opt.subgraphBased = 1 /\ tasks[t].NewGraph
        THEN guards' = dec_graph_ref_count(guards, f.gg) ELSE guards' = guards
    BY <1>1, <1>3
  <1> HIDE DEF f
  <1>6. /\ Good(tasks', guards', chunks', root', graph, opt)
        /\ Destroys(View(tasks, root.todo), View(tasks', root'.todo), chunks, chunks', t)
    <2>1. Ends(tasks, tasks', guards, guards', root, root', t, f, opt)
      BY <1>1, <1>2, <1>4, <1>5 DEF Ends
    <2> QED BY <1>1, <1>3, <2>1, DestroyGood
  <1>7. OutputOK'
    BY <1>1, <1>3 DEF OutputOK
  <1> QED BY <1>1, <1>6, <1>7, NextGood

\* RootSpawn preserves the invariant.
LEMMA RootSpawnOK ==
  ASSUME IInv, NEW v \in V, RootSpawn(v)
  PROVE  /\ IInv'
         /\ KeepsView(tasks, tasks', root.todo, root'.todo)
  <1>1. /\ root.pc = "spawn" /\ v \in root.todo /\ root' = [root EXCEPT !.todo = @ \ {v}]
        /\ tasks' = Put(tasks, {v}, NewTask(Main, Sub # 0, Frame({v}, {}, {}, Main, Heap, "new")))
        /\ UNCHANGED <<graph, opt, guards, chunks, reported, hist>>
    BY DEF RootSpawn
  <1>2. /\ opt \in Options /\ ~Faulty(opt) /\ Sub = opt.subgraphBased
        /\ Good(tasks, guards, chunks, root, graph, opt) /\ OutputOK
    BY SubFacts
  <1>3. tasks' = Put(tasks, {v}, Task(Main, opt.subgraphBased # 0, 0, <<RootFrame({v})>>))
    BY <1>1, <1>2 DEF NewTask, RootFrame
  <1>4. Added(tasks, tasks', {v}, Task(Main, opt.subgraphBased # 0, 0, <<RootFrame({v})>>))
    BY <1>3, PutAdds
  <1>5. /\ Good(tasks', guards, chunks, root', graph, opt)
        /\ KeepsView(tasks, tasks', root.todo, root'.todo)
    BY <1>1, <1>2, <1>4, RootSpawnGood
  <1>6. Good(tasks', guards', chunks', root', graph, opt) /\ OutputOK'
    BY <1>1, <1>2, <1>5 DEF OutputOK
  <1> QED BY <1>1, <1>5, <1>6, NextGood

\* RootWait preserves the invariant.
LEMMA RootWaitOK ==
  ASSUME IInv, RootWait
  PROVE  IInv'
  <1>1. /\ root.pc = "spawn" /\ root.todo = {} /\ root' = [root EXCEPT !.pc = "cont", !.ref = @ - 1]
        /\ UNCHANGED <<graph, opt, tasks, guards, chunks, reported, hist>>
    BY DEF RootWait, memory
  <1>2. Good(tasks, guards, chunks, root, graph, opt) /\ OutputOK
    BY SubFacts
  <1>3. Good(tasks, guards, chunks, root', graph, opt)
    BY <1>1, <1>2, RootWaitGood
  <1>4. Good(tasks', guards', chunks', root', graph, opt) /\ OutputOK'
    BY <1>1, <1>2, <1>3 DEF OutputOK
  <1> QED BY <1>1, <1>4, NextGood

\* RootContinuation preserves the invariant.
LEMMA RootContinuationOK ==
  ASSUME IInv, RootContinuation
  PROVE  IInv'
  <1>1. /\ root.pc = "cont" /\ root.ref = 0 /\ root' = [root EXCEPT !.pc = "done"]
        /\ guards' = Drop(guards, Main)
        /\ UNCHANGED <<graph, opt, tasks, chunks, reported, hist>>
    BY DEF RootContinuation
  <1>2. Good(tasks, guards, chunks, root, graph, opt) /\ OutputOK
    BY SubFacts
  <1>3. Good(tasks, guards', chunks, root', graph, opt)
    BY <1>1, <1>2, RootDoneGood
  <1>4. Good(tasks', guards', chunks', root', graph, opt) /\ OutputOK'
    BY <1>1, <1>2, <1>3 DEF OutputOK
  <1> QED BY <1>1, <1>4, NextGood

\* The initial state: every root task has its site, and nothing else has.
LEMMA InitView ==
  ASSUME NEW g \in Graphs, NEW o \in Options, ~Faulty(o), NEW T, DOMAIN T = {}, IsFcn(T),
         NEW C, DOMAIN C = {}, IsFcn(C), NEW G, G = [k \in {Main} |-> Guard(1, g.adj, -1)]
  PROVE  ViewOK(View(T, V), G, C, g, o)
  <1> DEFINE E == View(T, V)
             F == {<<{v}, 1>> : v \in V}
  <1>1. DOMAIN E = F
    <2>1. Sites(T, V) = F
      BY DEF Sites
    <2> QED BY <2>1 DEF View
  <1>2. ASSUME NEW x \in F
        PROVE  /\ E[x] = RootFrame(x[1]) /\ IsRoot(x) /\ x = <<x[1], 1>> /\ x[2] = 1
               /\ x[1] \in SUBSET V /\ x[1] # {}
    <2>1. PICK v \in V : x = <<{v}, 1>>
      OBVIOUS
    <2>2. x[1] = {v} /\ x[2] = 1
      BY <2>1
    <2>3. E[x] = RootFrame(x[1])
      BY <1>1 DEF View, FrameAt
    <2> HIDE DEF E
    <2> QED BY <2>1, <2>2, <2>3 DEF IsRoot
  <1>3. \A r : /\ RootFrame(r).R = r /\ RootFrame(r).P = {} /\ RootFrame(r).X = {}
               /\ RootFrame(r).cand = {} /\ RootFrame(r).gg = Main /\ RootFrame(r).mem = Heap
               /\ RootFrame(r).cmem = Heap /\ RootFrame(r).pc = "new"
               /\ r \in SUBSET V => RootFrame(r) \in FrameType
    <2> SUFFICES ASSUME NEW r
                 PROVE  /\ RootFrame(r).R = r /\ RootFrame(r).P = {} /\ RootFrame(r).X = {}
                        /\ RootFrame(r).cand = {} /\ RootFrame(r).gg = Main
                        /\ RootFrame(r).mem = Heap /\ RootFrame(r).cmem = Heap
                        /\ RootFrame(r).pc = "new"
                        /\ r \in SUBSET V => RootFrame(r) \in FrameType
      OBVIOUS
    <2>1. {} \in SUBSET V /\ Main \in SUBSET V /\ Heap \in SUBSET V /\ "new" \in Pcs
      BY DEF Main, Heap, Pcs
    <2> QED BY <2>1, FrameFacts DEF RootFrame
  <1>4. /\ DOMAIN G = {Main} /\ IsFcn(G) /\ G[Main].ref = 1 /\ G[Main].adj = g.adj
    BY DEF Guard, IsFcn
  <1>5. IsFiniteSet(F)
    <2> DEFINE site == [v \in V |-> <<{v}, 1>>]
    <2>1. site \in Surjection(V, F)
      BY DEF Surjection
    <2> HIDE DEF site, F
    <2> QED BY <2>1, TaskVAssumption, FS_Surjection
  <1> HIDE DEF E, F, RootFrame
  <1>6. FramesSound(E)
    <2> SUFFICES ASSUME NEW x \in F PROVE x[1] \in SUBSET V /\ FrameSound(x, E[x])
      BY <1>1, <1>5 DEF FramesSound
    <2> QED BY <1>2, <1>3 DEF FrameSound
  <1>7. FramesApart(E, g, o)
    <2> SUFFICES ASSUME NEW x \in F, NEW y \in F, x # y, ~Apart(g, o, E[x], E[y]) PROVE FALSE
      BY <1>1 DEF FramesApart
    <2>1. PICK v \in V : x = <<{v}, 1>> /\ x[1] = {v}
      BY DEF F
    <2>2. PICK w \in V : y = <<{w}, 1>> /\ y[1] = {w}
      BY DEF F
    <2>3. v # w
      BY <2>1, <2>2
    <2>4. E[x].R = {v} /\ E[x].pc = "new" /\ E[y].R = {w} /\ E[y].pc = "new"
      BY <1>2, <1>3, <2>1, <2>2
    <2>5. \A u \in V : UNION {RootP(g, o, z) : z \in {u}} = RootP(g, o, u)
      OBVIOUS
    <2>6. Span(g, o, E[x]) = {v} \union RootP(g, o, v) /\ Span(g, o, E[y]) = {w} \union RootP(g, o, w)
      BY <2>4, <2>5 DEF Span
    <2>7. v \in RootP(g, o, w) /\ w \in RootP(g, o, v)
      BY <2>3, <2>4, <2>6 DEF Apart
    <2>8. Later(g, o, v, w) /\ Later(g, o, w, v)
      BY <2>7 DEF RootP
    <2> QED BY <2>8, LaterOneWay
  <1>8. NamesApart(E, G, g, o)
    BY <1>4 DEF NamesApart
  <1>9. FramesSee(E, G, g)
    BY <1>1, <1>2, <1>3, <1>4 DEF FramesSee, SeesGraph
  <1>10. GraphUse(E, o)
    <2> SUFFICES ASSUME NEW x \in F
                 PROVE  /\ E[x].gg = Main /\ E[<<x[1], 1>>].gg = Main /\ IsRoot(x)
                        /\ E[x].pc = "new"
      BY <1>1 DEF GraphUse
    <2> QED BY <1>2, <1>3
  <1>11. GuardsExact(E, G, g, o)
    <2>1. \A x \in DOMAIN E : E[x].gg # x[1]
      BY <1>1, <1>2, <1>3 DEF Main
    <2>2. DOMAIN G \subseteq SUBSET V
      BY <1>4 DEF Main
    <2> QED BY <1>4, <2>1, <2>2 DEF GuardsExact
  <1>12. PoolsPrivate(E, C) /\ PoolsExact(E, C, o)
    BY <1>1, <1>2, <1>3 DEF PoolsPrivate, PoolsExact
  <1> QED BY <1>6, <1>7, <1>8, <1>9, <1>10, <1>11, <1>12 DEF ViewOK, E

\* The invariant holds at the beginning, unless the command line is Faulty.
LEMMA InitOK ==
  ASSUME Init, ~Faulty(opt)
  PROVE  IInv
  <1>1. /\ graph \in Graphs /\ opt \in Options /\ reported = {} /\ tasks = << >> /\ chunks = << >>
        /\ guards = [k \in {Main} |-> Guard(1, graph.adj, -1)]
        /\ hist = [k \in 1..Cardinality(V) |-> 0]
        /\ root = [pc |-> "spawn", todo |-> V, ref |-> 1 + Cardinality(V)]
    BY DEF Init
  <1>2. DOMAIN tasks = {} /\ IsFcn(tasks) /\ DOMAIN chunks = {} /\ IsFcn(chunks)
    BY <1>1 DEF IsFcn
  <1>3. root.pc = "spawn" /\ root.todo = V /\ root.ref = 1 + Cardinality(V)
    BY <1>1
  <1>4. Cardinality(V) \in Nat
    BY VertexSets
  <1>5. ViewOK(View(tasks, root.todo), guards, chunks, graph, opt)
    BY <1>1, <1>2, <1>3, InitView
  <1>6. TasksSound(tasks, root.todo) /\ FlagsOK(tasks, opt)
    BY <1>2 DEF TasksSound, FlagsOK
  <1>7. RefsExact(tasks, root)
    <2>1. ChildrenOf(tasks, Main) = {}
      BY <1>2 DEF ChildrenOf
    <2>2. Cardinality(ChildrenOf(tasks, Main)) = 0
      BY <2>1, FS_EmptySet
    <2>3. root.ref = Cardinality(ChildrenOf(tasks, Main)) + Cardinality(root.todo) + 1
      BY <1>3, <1>4, <2>2
    <2> QED BY <1>2, <1>3, <2>3 DEF RefsExact
  <1>8. RootOK(tasks, guards, root)
    <2>1. root \in [pc : {"spawn", "cont", "done"}, todo : SUBSET V, ref : 0..(1 + Cardinality(V))]
      BY <1>1, <1>4
    <2> QED BY <1>1, <1>3, <2>1 DEF RootOK
  <1>9. OutputOK
    BY <1>1 DEF OutputOK
  <1> QED BY <1>1, <1>5, <1>6, <1>7, <1>8, <1>9 DEF IInv, InputOK, Good

\* Every step preserves the invariant.
LEMMA NextOK ==
  ASSUME IInv, [Next]_vars
  PROVE  IInv'
  <1>1. CASE UNCHANGED vars
    BY <1>1 DEF vars, IInv, InputOK, OutputOK
  <1>2. ASSUME NEW v \in V, RootSpawn(v) PROVE IInv'
    BY <1>2, RootSpawnOK
  <1>3. CASE RootWait
    BY <1>3, RootWaitOK
  <1>4. CASE RootContinuation
    BY <1>4, RootContinuationOK
  <1>5. ASSUME NEW t \in DOMAIN tasks, TaskStep(t) PROVE IInv'
    <2>1. CASE create_root_sets(t)
      BY <2>1, CreateRootSetsOK
    <2>2. CASE StartTaskExit(t)
      BY <2>2, StartTaskExitOK
    <2>3. CASE StartTaskCut(t)
      BY <2>3, StartTaskCutOK
    <2>4. CASE StartTaskOpen(t)
      BY <2>4, StartTaskOpenOK
    <2>5. ASSUME NEW v \in top(t).cand, LoopIterationSequential(t, v) PROVE IInv'
      BY <2>5, LoopIterationSequentialOK
    <2>6. ASSUME NEW v \in top(t).cand, LoopIterationSpawn(t, v) PROVE IInv'
      BY <2>6, LoopIterationSpawnOK
    <2>7. CASE LoopEnd(t)
      BY <2>7, LoopEndOK
    <2>8. CASE Continuation(t)
      BY <2>8, ContinuationOK
    <2> QED BY <1>5, <2>1, <2>2, <2>3, <2>4, <2>5, <2>6, <2>7, <2>8 DEF TaskStep
  <1> QED BY <1>1, <1>2, <1>3, <1>4, <1>5 DEF Next, Terminated

-----------------------------------------------------------------------------
(***************************************************************************)
(* What the invariant says.                                                *)
(***************************************************************************)
\* Frames are sites, and the other sites are those of root tasks to come.
LEMMA FramesAreSites ==
  ASSUME IInv
  PROVE  /\ \A x \in Frames :
              /\ x \in DOMAIN View(tasks, root.todo) /\ At(x) = View(tasks, root.todo)[x]
              /\ x[1] \in DOMAIN tasks /\ x[2] \in 1..Len(tasks[x[1]].stack) /\ x = <<x[1], x[2]>>
         /\ \A x \in DOMAIN View(tasks, root.todo) :
              x \notin Frames => View(tasks, root.todo)[x] = RootFrame(x[1])
  <1> DEFINE E == View(tasks, root.todo)
  <1>1. TasksSound(tasks, root.todo)
    BY DEF IInv, Good
  <1>2. StacksOK(tasks)
    BY <1>1, StacksSound
  <1>3. \A t \in DOMAIN tasks : DOMAIN tasks[t].stack = 1..Len(tasks[t].stack)
    BY <1>2 DEF StacksOK
  <1>4. DOMAIN E = Sites(tasks, root.todo)
        /\ \A x \in Sites(tasks, root.todo) : E[x] = FrameAt(tasks, x)
    BY <1>2, SiteIff
  <1>5. Sites(tasks, root.todo) = Frames \union {<<{v}, 1>> : v \in root.todo}
    BY DEF Sites, Frames
  <1>6. ASSUME NEW x \in Frames
        PROVE  /\ x \in DOMAIN E /\ At(x) = E[x]
               /\ x[1] \in DOMAIN tasks /\ x[2] \in 1..Len(tasks[x[1]].stack) /\ x = <<x[1], x[2]>>
    <2>1. PICK t \in DOMAIN tasks : x \in {t} \X DOMAIN tasks[t].stack
      BY DEF Frames
    <2>2. x[1] = t /\ x[2] \in 1..Len(tasks[t].stack) /\ x = <<x[1], x[2]>>
      BY <1>3, <2>1
    <2>3. x \in DOMAIN E /\ E[x] = FrameAt(tasks, x)
      BY <1>4, <1>5
    <2>4. FrameAt(tasks, x) = At(x)
      BY <2>2 DEF FrameAt, At
    <2> QED BY <2>2, <2>3, <2>4
  <1>7. ASSUME NEW x \in DOMAIN E, x \notin Frames
        PROVE  E[x] = RootFrame(x[1])
    <2>1. PICK v \in root.todo : x = <<{v}, 1>>
      BY <1>4, <1>5, <1>7
    <2>2. x[1] \notin DOMAIN tasks
      BY <1>1, <2>1 DEF TasksSound
    <2> QED BY <1>4, <2>2 DEF FrameAt
  <1> QED BY <1>6, <1>7

\* The invariant gives the types of the variables.
LEMMA TypeInv ==
  ASSUME IInv
  PROVE  TypeOK
  <1> DEFINE E == View(tasks, root.todo)
  <1>1. /\ graph \in Graphs /\ opt \in Options /\ OutputOK
        /\ Good(tasks, guards, chunks, root, graph, opt)
    BY SubFacts
  <1>2. /\ RootOK(tasks, guards, root) /\ TasksSound(tasks, root.todo)
        /\ ViewOK(E, guards, chunks, graph, opt)
    BY <1>1 DEF Good
  <1>3. GuardsExact(E, guards, graph, opt) /\ PoolsExact(E, chunks, opt)
    BY <1>2 DEF ViewOK
  <1>4. ASSUME NEW t \in DOMAIN tasks
        PROVE  /\ t \in SUBSET V
               /\ tasks[t].parent \in SUBSET V /\ tasks[t].NewGraph \in BOOLEAN
               /\ tasks[t].ref \in Nat
               /\ tasks[t].stack # << >>
               /\ \A i \in DOMAIN tasks[t].stack : tasks[t].stack[i] \in FrameType
    <2>1. TaskSound(tasks, t)
      BY <1>2 DEF TasksSound
    <2>2. tasks[t].stack \in Seq(FrameType) /\ Len(tasks[t].stack) >= 1
      BY <2>1 DEF TaskSound
    <2>3. tasks[t].stack # << >>
      BY <2>2
    <2> QED BY <2>1, <2>2, <2>3 DEF TaskSound
  <1>5. DOMAIN guards \subseteq SUBSET V /\ \A k \in DOMAIN guards : guards[k].ref \in Nat \ {0}
    BY <1>3 DEF GuardsExact
  <1>6. DOMAIN chunks \subseteq SUBSET V /\ \A t \in DOMAIN chunks : chunks[t] \in Nat
    BY <1>3 DEF PoolsExact
  <1>7. root \in [pc : {"spawn", "cont", "done"}, todo : SUBSET V, ref : 0..(1 + Cardinality(V))]
    BY <1>2 DEF RootOK
  <1> QED BY <1>1, <1>4, <1>5, <1>6, <1>7 DEF TypeOK, OutputOK

\* The invariant gives GuardAlive: graphs outlive the calls that use them.
LEMMA GuardAliveInv ==
  ASSUME IInv
  PROVE  GuardAlive
  <1> DEFINE E == View(tasks, root.todo)
  <1>1. Sub = opt.subgraphBased /\ Good(tasks, guards, chunks, root, graph, opt)
    BY SubFacts
  <1>2. /\ RootOK(tasks, guards, root) /\ TasksSound(tasks, root.todo) /\ FlagsOK(tasks, opt)
        /\ FramesSee(E, guards, graph) /\ GuardsExact(E, guards, graph, opt)
    BY <1>1 DEF Good, ViewOK
  <1>3. ASSUME NEW x \in Frames, InCall(x)
        PROVE  At(x).gg \in DOMAIN guards
    <2>1. x \in DOMAIN E /\ At(x) = E[x]
      BY FramesAreSites
    <2>2. Active(E[x])
      BY <1>3, <2>1 DEF InCall, Active
    <2> QED BY <1>2, <2>1, <2>2 DEF FramesSee, SeesGraph
  <1>4. ASSUME NEW x \in Frames, At(x).pc = "cont", Sub = 1, tasks[x[1]].NewGraph
        PROVE  At(x).gg \in DOMAIN guards
    <2>1. /\ x \in DOMAIN E /\ At(x) = E[x] /\ x[1] \in DOMAIN tasks
          /\ x[2] \in 1..Len(tasks[x[1]].stack) /\ x = <<x[1], x[2]>>
      BY FramesAreSites
    <2>2. TaskSound(tasks, x[1]) /\ FlagOK(tasks, opt, x[1])
      BY <1>2, <2>1 DEF TasksSound, FlagsOK
    <2>3. x[2] = 1
      <3>1. x[2] > 1 => At(x).pc \in {"start", "loop"}
        BY <2>1, <2>2 DEF TaskSound, At
      <3>2. ~(x[2] > 1)
        BY <1>4, <3>1
      <3> QED BY <2>1, <2>2, <3>2 DEF TaskSound
    <2>4. tasks[x[1]].stack[1] = At(x)
      BY <2>3 DEF At
    <2>5. tasks[x[1]].parent = Main /\ At(x).gg = x[1]
      <3> HIDE DEF Main
      <3> QED BY <1>1, <1>4, <2>2, <2>4 DEF FlagOK
    <2>6. IsRoot(x)
      BY <2>1, <2>2, <2>3, <2>5 DEF TaskSound
    <2> QED BY <1>1, <1>2, <1>4, <2>1, <2>5, <2>6 DEF GuardsExact
  <1>5. root.pc # "done" => Main \in DOMAIN guards
    BY <1>2 DEF RootOK
  <1> QED BY <1>3, <1>4, <1>5 DEF GuardAlive

\* The invariant gives GuardRefs: the holders of the view are those of the
\* tasks.
LEMMA GuardRefsInv ==
  ASSUME IInv
  PROVE  GuardRefs
  <1> DEFINE E == View(tasks, root.todo)
  <1>1. Sub = opt.subgraphBased /\ Good(tasks, guards, chunks, root, graph, opt)
    BY SubFacts
  <1>2. /\ TasksSound(tasks, root.todo) /\ FlagsOK(tasks, opt) /\ GraphUse(E, opt)
        /\ GuardsExact(E, guards, graph, opt)
    BY <1>1 DEF Good, ViewOK
  <1>3. ASSUME NEW k \in DOMAIN guards \ {Main}
        PROVE  Holders(k) = Holding(E, opt, k)
    <2>1. ASSUME NEW x \in Holders(k) PROVE x \in Holding(E, opt, k)
      <3>1. x \in Frames /\ At(x).gg = k
        BY DEF Holders
      <3>2. /\ x \in DOMAIN E /\ At(x) = E[x] /\ x[1] \in DOMAIN tasks
            /\ x[2] \in 1..Len(tasks[x[1]].stack) /\ x = <<x[1], x[2]>>
        BY <3>1, FramesAreSites
      <3>3. InCall(x) <=> Active(E[x])
        BY <3>2 DEF InCall, Active
      <3>4. ASSUME Sub = 1, x[2] = 1, tasks[x[1]].NewGraph
            PROVE  x = <<k, 1>>
        <4>1. TaskSound(tasks, x[1]) /\ FlagOK(tasks, opt, x[1])
          BY <1>2, <3>2 DEF TasksSound, FlagsOK
        <4>2. tasks[x[1]].stack[1] = E[x]
          BY <3>2, <3>4 DEF At
        <4>3. tasks[x[1]].parent = Main /\ (E[x].pc \in {"new", "start"} \/ E[x].gg = x[1])
          <5> HIDE DEF Main, E
          <5> QED BY <1>1, <3>4, <4>1, <4>2 DEF FlagOK
        <4>4. IsRoot(x)
          BY <3>2, <3>4, <4>1, <4>3 DEF TaskSound
        <4>5. E[x].pc \in {"new", "start"} => E[x].gg = Main
          BY <1>2, <3>2, <4>4 DEF GraphUse
        <4> QED BY <3>1, <3>2, <3>4, <4>3, <4>5
      <3> HIDE DEF E
      <3> QED BY <1>1, <3>1, <3>2, <3>3, <3>4 DEF Holders, Holding
    <2>2. ASSUME NEW x \in Holding(E, opt, k) PROVE x \in Holders(k)
      <3>1. x \in DOMAIN E /\ E[x].gg = k
        BY DEF Holding
      <3>2. x \in Frames
        <4>1. x \notin Frames => E[x].gg = Main
          BY <3>1, FramesAreSites, FrameFacts DEF RootFrame
        <4> QED BY <3>1, <4>1
      <3>3. At(x) = E[x] /\ x[1] \in DOMAIN tasks
        BY <3>2, FramesAreSites
      <3>4. InCall(x) <=> Active(E[x])
        BY <3>3 DEF InCall, Active
      <3>5. ASSUME Sub = 1, x = <<k, 1>>
            PROVE  x[2] = 1 /\ tasks[x[1]].NewGraph
        <4>1. x[1] = k /\ x[2] = 1 /\ IsRoot(<<k, 1>>)
          BY <1>1, <1>2, <3>5 DEF GuardsExact
        <4>2. TaskSound(tasks, k) /\ FlagOK(tasks, opt, k)
          BY <1>2, <3>3, <4>1 DEF TasksSound, FlagsOK
        <4>3. tasks[k].stack[1] = E[x]
          BY <3>3, <4>1 DEF At
        <4>4. tasks[k].parent = Main
          BY <4>1, <4>2 DEF TaskSound
        <4>5. tasks[k].NewGraph
          <5> HIDE DEF Main, E
          <5> QED BY <1>1, <3>1, <3>5, <4>2, <4>3, <4>4 DEF FlagOK
        <4> QED BY <4>1, <4>5
      <3> HIDE DEF E
      <3> QED BY <1>1, <3>1, <3>2, <3>3, <3>4, <3>5 DEF Holders, Holding
    <2> QED BY <2>1, <2>2
  <1>4. ASSUME NEW k \in DOMAIN guards
        PROVE  IF k = Main THEN guards[k].ref = 1
               ELSE IF opt.max_clq_size < 0 THEN guards[k].ref = Cardinality(Holders(k))
               ELSE guards[k].ref >= Cardinality(Holders(k))
    <2>1. CASE k = Main
      BY <1>2, <2>1 DEF GuardsExact
    <2>2. CASE k # Main
      <3>1. CountOK(E, guards, opt, k) /\ Holders(k) = Holding(E, opt, k)
        BY <1>2, <1>3, <2>2 DEF GuardsExact
      <3> QED BY <2>2, <3>1 DEF CountOK
    <2> QED BY <2>1, <2>2
  <1> QED BY <1>4 DEF GuardRefs

\* The invariant gives TaskRefs: the counts of tasks and of the root task.
LEMMA TaskRefsInv ==
  ASSUME IInv
  PROVE  TaskRefs
  <1>1. TasksSound(tasks, root.todo) /\ RefsExact(tasks, root)
    BY DEF IInv, Good
  <1>2. \A t : Children(t) = ChildrenOf(tasks, t)
    BY DEF Children, ChildrenOf
  <1>3. ASSUME NEW t \in DOMAIN tasks
        PROVE  /\ tasks[t].parent # Main => tasks[t].parent \in DOMAIN tasks
               /\ tasks[t].ref = Cardinality(Children(t))
                                   + (IF tasks[t].stack[1].pc = "loop" THEN 1 ELSE 0)
    BY <1>1, <1>2 DEF TasksSound, TaskSound, RefsExact, RefExact
  <1>4. root.ref = Cardinality(Children(Main)) + Cardinality(root.todo)
                     + (IF root.pc = "spawn" THEN 1 ELSE 0)
    BY <1>1, <1>2 DEF RefsExact
  <1> QED BY <1>3, <1>4 DEF TaskRefs

\* The invariant gives ChunkPrivate: pools are not shared.
LEMMA ChunkPrivateInv ==
  ASSUME IInv
  PROVE  ChunkPrivate
  <1> DEFINE E == View(tasks, root.todo)
  <1>1. PoolsPrivate(E, chunks)
    BY DEF IInv, Good, ViewOK
  <1>2. ASSUME NEW x \in Frames, At(x).pc \in {"start", "loop"}
        PROVE  At(x).mem \in {Heap, x[1]} /\ At(x).cmem \in {Heap, x[1]}
    <2>1. x \in DOMAIN E /\ At(x) = E[x]
      BY FramesAreSites
    <2> HIDE DEF E
    <2> QED BY <1>1, <1>2, <2>1 DEF PoolsPrivate
  <1> QED BY <1>2 DEF ChunkPrivate

\* The invariant gives PivotFound: no frame has failed the assertion.
LEMMA PivotFoundInv ==
  ASSUME IInv
  PROVE  PivotFound
  <1> SUFFICES ASSUME NEW t \in DOMAIN tasks PROVE top(t).pc # "assert"
    BY DEF PivotFound, Aborted
  <1> QED BY TopFacts DEF TopAt, FrameSound

\* The invariant gives NothingLeft: with no frame left, nothing is held.
LEMMA NothingLeftInv ==
  ASSUME IInv
  PROVE  NothingLeft
  <1> SUFFICES ASSUME root.pc = "done"
               PROVE  /\ tasks = << >> /\ chunks = << >>
                      /\ opt.max_clq_size < 0 => guards = << >>
    BY DEF NothingLeft
  <1> DEFINE E == View(tasks, root.todo)
  <1>1. /\ RootOK(tasks, guards, root) /\ TasksSound(tasks, root.todo)
        /\ PoolsExact(E, chunks, opt) /\ GuardsExact(E, guards, graph, opt)
    BY DEF IInv, Good, ViewOK
  <1>2. DOMAIN tasks = {} /\ root.todo = {} /\ Main \notin DOMAIN guards
    BY <1>1 DEF RootOK
  <1>3. DOMAIN E = {}
    BY <1>2 DEF View, Sites
  <1>4. \A f : IsFcn(f) /\ DOMAIN f = {} => f = << >>
    BY DEF IsFcn
  <1> HIDE DEF E
  <1>5. DOMAIN chunks = {}
    BY <1>1, <1>3 DEF PoolsExact
  <1>6. opt.max_clq_size < 0 => DOMAIN guards = {}
    <2> SUFFICES ASSUME opt.max_clq_size < 0, NEW k \in DOMAIN guards PROVE FALSE
      OBVIOUS
    <2>1. guards[k].ref = Cardinality(Holding(E, opt, k)) /\ guards[k].ref # 0
      BY <1>1, <1>2 DEF GuardsExact, CountOK
    <2>2. Holding(E, opt, k) = {}
      BY <1>3 DEF Holding
    <2> QED BY <2>1, <2>2, FS_EmptySet
  <1> QED BY <1>1, <1>2, <1>4, <1>5, <1>6 DEF TasksSound, PoolsExact, GuardsExact

\* The sets in a pool are the P and X, and the cand, that PoolSize counts.
LEMMA PoolSizeCounts ==
  ASSUME NEW E, IsFiniteSet(DOMAIN E), NEW t
  PROVE  Cardinality((SetsPooled(E, t) \X {"P", "X"}) \union (CandsPooled(E, t) \X {"cand"}))
           = PoolSize(E, t)
  <1> DEFINE A == SetsPooled(E, t)
             B == CandsPooled(E, t)
             PX == A \X {"P", "X"}
             K == B \X {"cand"}
  <1>1. /\ IsFiniteSet(A) /\ Cardinality(A) \in Nat
        /\ IsFiniteSet(B) /\ Cardinality(B) \in Nat
    BY PoolFinite
  <1>2. PoolSize(E, t) = 2 * Cardinality(A) + Cardinality(B)
    BY DEF PoolSize
  <1>3. \A c : IsFiniteSet({c}) /\ Cardinality({c}) = 1
    BY FS_Singleton
  <1>4. IsFiniteSet({"P", "X"}) /\ Cardinality({"P", "X"}) = 2
    <2>1. {"P", "X"} = {"P"} \union {"X"} /\ "X" \notin {"P"}
      OBVIOUS
    <2>2. /\ IsFiniteSet({"P"} \union {"X"})
          /\ Cardinality({"P"} \union {"X"}) = Cardinality({"P"}) + 1
      BY <1>3, <2>1, FS_AddElement
    <2>3. IsFiniteSet({"P", "X"}) /\ Cardinality({"P", "X"}) = Cardinality({"P"}) + 1
      BY <2>1, <2>2, Zenon
    <2>4. Cardinality({"P"}) = 1
      BY <1>3, Zenon
    <2> DEFINE c == Cardinality({"P"})
               d == Cardinality({"P", "X"})
    <2>5. d = c + 1 /\ c = 1
      BY <2>3, <2>4
    <2> HIDE DEF c, d
    <2>6. d = 2
      BY <2>5
    <2> QED BY <2>3, <2>6 DEF d
  <1> HIDE DEF A, B
  <1>5. IsFiniteSet(PX) /\ Cardinality(PX) = Cardinality(A) * 2
    BY <1>1, <1>4, FS_Product
  <1>6. IsFiniteSet(K) /\ Cardinality(K) = Cardinality(B) * 1
    <2> DEFINE c == {"cand"}
    <2>1. IsFiniteSet(c) /\ Cardinality(c) = 1
      BY <1>3
    <2> HIDE DEF c
    <2>2. IsFiniteSet(B \X c) /\ Cardinality(B \X c) = Cardinality(B) * Cardinality(c)
      BY <1>1, <2>1, FS_Product
    <2> QED BY <2>1, <2>2 DEF c
  <1>7. PX \intersect K = {}
    <2>1. \A y \in PX : y[2] \in {"P", "X"}
      OBVIOUS
    <2>2. \A y \in K : y[2] = "cand"
      OBVIOUS
    <2> HIDE DEF PX, K
    <2>3. \A y : ~(y \in PX /\ y \in K)
      BY <2>1, <2>2
    <2> QED BY <2>3
  <1> HIDE DEF PX, K
  <1>8. Cardinality(PX \union K) = Cardinality(PX) + Cardinality(K) - Cardinality(PX \intersect K)
    BY <1>5, <1>6, FS_Union
  <1>9. Cardinality(PX \intersect K) = 0
    BY <1>7, FS_EmptySet
  <1>10. Cardinality(PX \union K) = PoolSize(E, t)
    BY <1>1, <1>2, <1>5, <1>6, <1>8, <1>9
  <1> QED BY <1>10 DEF PX, K, A, B

\* ChunkCounts follows: a site that is no frame has no sets.
LEMMA ChunkCountsInv ==
  ASSUME IInv
  PROVE  ChunkCounts
  <1> DEFINE E == View(tasks, root.todo)
  <1>1. FramesSound(E) /\ PoolsPrivate(E, chunks) /\ PoolsExact(E, chunks, opt)
    BY DEF IInv, Good, ViewOK
  <1>2. \A x \in Frames : x \in DOMAIN E /\ At(x) = E[x]
    BY FramesAreSites
  <1>3. \A x \in DOMAIN E : x \notin Frames => E[x].pc = "new"
    BY FramesAreSites, FrameFacts DEF RootFrame
  <1> HIDE DEF E
  <1>4. ASSUME NEW x \in Frames, At(x).pc \in {"start", "loop"}
        PROVE  At(x).mem = Heap \/ At(x).mem \in DOMAIN chunks
    BY <1>1, <1>2, <1>4 DEF PoolsPrivate
  <1>5. ASSUME NEW t \in DOMAIN chunks
        PROVE  IF opt.max_clq_size < 0 THEN chunks[t] = Cardinality(SetsIn(t))
               ELSE chunks[t] >= Cardinality(SetsIn(t))
    <2>1. {x \in Frames : At(x).mem = t /\ At(x).pc \in {"start", "loop"}} = SetsPooled(E, t)
      BY <1>2, <1>3 DEF SetsPooled
    <2>2. {x \in Frames : At(x).cmem = t /\ At(x).pc = "loop"} = CandsPooled(E, t)
      BY <1>2, <1>3 DEF CandsPooled
    <2>3. SetsIn(t) = (SetsPooled(E, t) \X {"P", "X"}) \union (CandsPooled(E, t) \X {"cand"})
      BY <2>1, <2>2 DEF SetsIn
    <2>4. Cardinality(SetsIn(t)) = PoolSize(E, t)
      BY <1>1, <2>3, PoolSizeCounts DEF FramesSound
    <2> QED BY <1>1, <2>4 DEF PoolsExact
  <1> QED BY <1>4, <1>5 DEF ChunkCounts

\* Allocating in a pool or giving a set back does not delete a pool.
LEMMA PoolsStay ==
  /\ \A C, m : DOMAIN delete_set(C, m) = DOMAIN C
  /\ \A C, f : DOMAIN DeleteAll(C, f) = DOMAIN C
  /\ \A C, m, n : DOMAIN C \subseteq DOMAIN allocate(C, m, n)
  <1>1. \A C, m : DOMAIN delete_set(C, m) = DOMAIN C
    BY DEF delete_set
  <1>2. \A C, m, n : DOMAIN C \subseteq DOMAIN allocate(C, m, n)
    BY DEF allocate, Put
  <1>3. \A C, f : DOMAIN DeleteAll(C, f) = DOMAIN C
    BY <1>1 DEF DeleteAll
  <1> QED BY <1>1, <1>2, <1>3

\* Only a continuation deletes a pool.
LEMMA PoolsStayNext ==
  ASSUME [Next]_vars, \A t \in DOMAIN tasks : ~Continuation(t)
  PROVE  DOMAIN chunks \subseteq DOMAIN chunks'
  <1>1. CASE UNCHANGED vars
    BY <1>1 DEF vars
  <1>2. ASSUME NEW v \in V, RootSpawn(v) PROVE chunks' = chunks
    BY <1>2 DEF RootSpawn
  <1>3. CASE RootWait
    BY <1>3 DEF RootWait, memory
  <1>4. CASE RootContinuation
    BY <1>4 DEF RootContinuation
  <1>5. ASSUME NEW t \in DOMAIN tasks, TaskStep(t) PROVE DOMAIN chunks \subseteq DOMAIN chunks'
    <2>1. CASE create_root_sets(t)
      BY <2>1 DEF create_root_sets
    <2>2. CASE StartTaskExit(t)
      <3>1. chunks' = delete_set(delete_set(chunks, top(t).mem), top(t).mem)
        BY <2>2 DEF StartTaskExit
      <3> QED BY <3>1, PoolsStay
    <2>3. CASE StartTaskCut(t)
      BY <2>3 DEF StartTaskCut
    <2>4. CASE StartTaskOpen(t)
      <3>1. chunks' = chunks \/ chunks' = allocate(chunks, Owner(t, top(t)), 1)
        BY <2>4 DEF StartTaskOpen
      <3> QED BY <3>1, PoolsStay
    <2>5. ASSUME NEW v \in top(t).cand, LoopIterationSequential(t, v)
          PROVE  DOMAIN chunks \subseteq DOMAIN chunks'
      <3>1. chunks' = allocate(chunks, Owner(t, top(t)), 2)
        BY <2>5 DEF LoopIterationSequential
      <3> QED BY <3>1, PoolsStay
    <2>6. ASSUME NEW v \in top(t).cand, LoopIterationSpawn(t, v)
          PROVE  DOMAIN chunks \subseteq DOMAIN chunks'
      <3> DEFINE C == allocate(chunks, Owner(t, top(t)), 2)
      <3>1. chunks' = C \/ chunks' = DeleteAll(C, Iterated(top(t), v))
        BY <2>6 DEF LoopIterationSpawn
      <3>2. DOMAIN chunks \subseteq DOMAIN C
        BY PoolsStay
      <3> HIDE DEF C
      <3> QED BY <3>1, <3>2, PoolsStay
    <2>7. CASE LoopEnd(t)
      <3>1. chunks' = DeleteAll(chunks, top(t))
        BY <2>7 DEF LoopEnd
      <3> QED BY <3>1, PoolsStay
    <2> QED BY <1>5, <2>1, <2>2, <2>3, <2>4, <2>5, <2>6, <2>7 DEF TaskStep
  <1> QED BY <1>1, <1>2, <1>3, <1>4, <1>5 DEF Next, Terminated

\* A deleted pool is empty.
LEMMA DeletedEmpty ==
  ASSUME IInv, [Next]_vars, opt.max_clq_size < 0, NEW t \in DOMAIN chunks \ DOMAIN chunks'
  PROVE  chunks[t] = 0
  <1> DEFINE E == View(tasks, root.todo)
             E2 == View(tasks', root'.todo)
  <1>1. PICK u \in DOMAIN tasks : Continuation(u)
    BY PoolsStayNext
  <1>2. Destroys(E, E2, chunks, chunks', u)
    BY <1>1, ContinuationOK
  <1>3. t = u
    BY <1>2 DEF Destroys, Drop
  <1>4. PoolsPrivate(E, chunks) /\ PoolsExact(E, chunks, opt)
    BY DEF IInv, Good, ViewOK
  <1> HIDE DEF E, E2
  <1> QED BY <1>2, <1>3, <1>4, DestroyedEmpty

-----------------------------------------------------------------------------
(***************************************************************************)
(* The theorems.  The command line is any that is not Faulty.              *)
(***************************************************************************)
\* The inductive invariant holds throughout.
THEOREM TasksInvariant ==
  Spec /\ ~Faulty(opt) => []IInv
  <1>1. Init /\ ~Faulty(opt) => IInv
    BY InitOK
  <1>2. IInv /\ [Next]_vars => IInv'
    BY NextOK
  <1> QED BY <1>1, <1>2, PTL DEF Spec

\* Types of the variables.
THEOREM TaskTypes ==
  Spec /\ ~Faulty(opt) => []TypeOK
  <1>1. IInv => TypeOK
    BY TypeInv
  <1> QED BY <1>1, TasksInvariant, PTL

(***************************************************************************)
(* TBB's counts are exact, for every number of tasks and every schedule:   *)
(* no task is destroyed, and no continuation runs, while a child is alive. *)
(***************************************************************************)
THEOREM TaskCountsExact ==
  Spec /\ ~Faulty(opt) => []TaskRefs
  <1>1. IInv => TaskRefs
    BY TaskRefsInv
  <1> QED BY <1>1, TasksInvariant, PTL

(***************************************************************************)
(* A call that will still read or release its graph finds it alive, for    *)
(* each -s, however the tasks that share the graph overtake each other.    *)
(***************************************************************************)
THEOREM GraphsOutliveCalls ==
  Spec /\ ~Faulty(opt) => []GuardAlive
  <1>1. IInv => GuardAlive
    BY GuardAliveInv
  <1> QED BY <1>1, TasksInvariant, PTL

\* The count of a subgraph is the number of calls that will release it.
THEOREM GraphCountsExact ==
  Spec /\ ~Faulty(opt) => []GuardRefs
  <1>1. IInv => GuardRefs
    BY GuardRefsInv
  <1> QED BY <1>1, TasksInvariant, PTL

\* The assertion in StartTask does not fail: P is not empty, so that both
\* createHpxSubgraph and getPivot choose a vertex of the graph.
THEOREM AssertionHolds ==
  Spec /\ ~Faulty(opt) => []PivotFound
  <1>1. IInv => PivotFound
    BY PivotFoundInv
  <1> QED BY <1>1, TasksInvariant, PTL

\* The count of a pool is the number of the sets in it.
THEOREM PoolCountsExact ==
  Spec /\ ~Faulty(opt) => []ChunkCounts
  <1>1. IInv => ChunkCounts
    BY ChunkCountsInv
  <1> QED BY <1>1, TasksInvariant, PTL

\* Only the task that owns a pool has sets in it: SafeThresholds is enough
\* for the counters of MemChunk, which take no lock.
THEOREM PoolsOfOneTask ==
  Spec /\ ~Faulty(opt) => []ChunkPrivate
  <1>1. IInv => ChunkPrivate
    BY ChunkPrivateInv
  <1> QED BY <1>1, TasksInvariant, PTL

\* No pool is deleted while a set is in it, unless --max-clq stops calls.
THEOREM PoolsDeletedEmpty ==
  Spec /\ ~Faulty(opt) => ChunkDeletedEmpty
  <1>1. IInv /\ [Next]_vars =>
          [opt.max_clq_size < 0 =>
             \A t \in DOMAIN chunks \ DOMAIN chunks' : chunks[t] = 0]_vars
    BY DeletedEmpty
  <1> QED BY <1>1, TasksInvariant, PTL DEF Spec, ChunkDeletedEmpty

\* When the root task is done, no task, no pool and, without --max-clq, no
\* subgraph is left.
THEOREM EverythingGivenBack ==
  Spec /\ ~Faulty(opt) => []NothingLeft
  <1>1. IInv => NothingLeft
    BY NothingLeftInv
  <1> QED BY <1>1, TasksInvariant, PTL

-----------------------------------------------------------------------------
(***************************************************************************)
(* The tasks implement the recursion.  The calls of BronKerbosch are the   *)
(* frames of the view that still have something to do.                     *)
(***************************************************************************)
Live(f) == f.pc \in {"new", "start"} \/ f.cand # {}

CallIn(g, o, f) ==
  IF f.pc = "new"
  THEN [R |-> f.R, P |-> UNION {RootP(g, o, v) : v \in f.R},
        X |-> UNION {RootX(g, o, v) : v \in f.R}, cand |-> {}, pc |-> "start"]
  ELSE CallOf(f)

CallsIn(E, g, o) == {CallIn(g, o, E[x]) : x \in {y \in DOMAIN E : Live(E[y])}}

\* The call of a root task, before and after create_root_sets.
LEMMA RootCallIs ==
  ASSUME NEW g, NEW o, NEW v
  PROVE  CallIn(g, o, RootFrame({v})) = [R |-> {v}, P |-> RootP(g, o, v), X |-> RootX(g, o, v),
                                        cand |-> {}, pc |-> "start"]
  <1>1. RootFrame({v}).pc = "new" /\ RootFrame({v}).R = {v}
    BY FrameFacts DEF RootFrame
  <1>2. UNION {RootP(g, o, w) : w \in {v}} = RootP(g, o, v)
    OBVIOUS
  <1>3. UNION {RootX(g, o, w) : w \in {v}} = RootX(g, o, v)
    OBVIOUS
  <1> HIDE DEF RootFrame
  <1> QED BY <1>1, <1>2, <1>3 DEF CallIn

\* The call of a frame has the clique of the frame.
LEMMA CallOfFrame ==
  ASSUME NEW g, NEW o, NEW f
  PROVE  /\ CallIn(g, o, f).R = f.R
         /\ f.pc # "new" => CallIn(g, o, f) = CallOf(f)
  BY DEF CallIn, CallOf

\* LiveCalls are the calls of the view.
LEMMA LiveCallsAre ==
  ASSUME IInv
  PROVE  LiveCalls = CallsIn(View(tasks, root.todo), graph, opt)
  <1> DEFINE E == View(tasks, root.todo)
             N == {RootCallOf(v) : v \in {w \in V : w \in root.todo \/ IsNew(w)}}
             M(t) == {CallOf(f) : f \in {g \in ToSet(tasks[t].stack) : g.pc = "start" \/ g.cand # {}}}
             U == UNION {M(t) : t \in DOMAIN tasks}
  <1>1. /\ TasksSound(tasks, root.todo) /\ FramesSound(E) /\ root.todo \subseteq V
    BY DEF IInv, Good, ViewOK, RootOK
  <1>2. StacksOK(tasks)
    BY <1>1, StacksSound
  <1>3. /\ DOMAIN E = Sites(tasks, root.todo)
        /\ \A x \in Sites(tasks, root.todo) : x = <<x[1], x[2]>> /\ E[x] = FrameAt(tasks, x)
        /\ \A t, i : <<t, i>> \in Sites(tasks, root.todo)
                       <=> \/ t \in DOMAIN tasks /\ i \in 1..Len(tasks[t].stack)
                           \/ i = 1 /\ \E v \in root.todo : t = {v}
    BY <1>2, SiteIff
  <1>4. \A t \in DOMAIN tasks : DOMAIN tasks[t].stack = 1..Len(tasks[t].stack)
                                /\ 1 \in 1..Len(tasks[t].stack)
    BY <1>2 DEF StacksOK
  <1>5. LiveCalls = N \union U
    BY DEF LiveCalls
  <1>6. \A t \in DOMAIN tasks : \A i \in 1..Len(tasks[t].stack) :
          <<t, i>> \in DOMAIN E /\ E[<<t, i>>] = tasks[t].stack[i]
    BY <1>3 DEF FrameAt
  <1>7. \A v \in root.todo : <<{v}, 1>> \in DOMAIN E /\ E[<<{v}, 1>>] = RootFrame({v})
    BY <1>1, <1>3 DEF FrameAt, TasksSound
  <1>8. \A v : CallIn(graph, opt, RootFrame({v})) = RootCallOf(v)
    BY RootCallIs DEF RootCallOf
  <1>9. \A v : Live(RootFrame({v}))
    BY FrameFacts DEF RootFrame, Live
  <1>10. \A x \in DOMAIN E : E[x].pc = "new" => IsRoot(x) /\ E[x] = RootFrame(x[1]) /\ E[x].cand = {}
    BY <1>1 DEF FramesSound, FrameSound
  <1> HIDE DEF E
  <1>11. ASSUME NEW c \in N PROVE c \in CallsIn(E, graph, opt)
    <2>1. PICK v \in V : c = RootCallOf(v) /\ (v \in root.todo \/ IsNew(v))
      OBVIOUS
    <2>2. <<{v}, 1>> \in DOMAIN E /\ E[<<{v}, 1>>] = RootFrame({v})
      <3>1. CASE v \in root.todo
        BY <1>7, <3>1
      <3>2. CASE IsNew(v)
        <4>1. {v} \in DOMAIN tasks /\ tasks[{v}].stack[1].pc = "new"
          BY <3>2 DEF IsNew
        <4>2. <<{v}, 1>> \in DOMAIN E /\ E[<<{v}, 1>>].pc = "new"
          BY <1>4, <1>6, <4>1
        <4> QED BY <1>10, <4>2
      <3> QED BY <2>1, <3>1, <3>2
    <2> QED BY <1>8, <1>9, <2>1, <2>2 DEF CallsIn
  <1>12. ASSUME NEW c \in U PROVE c \in CallsIn(E, graph, opt)
    <2>1. PICK t \in DOMAIN tasks : c \in M(t)
      OBVIOUS
    <2>2. PICK f \in ToSet(tasks[t].stack) : c = CallOf(f) /\ (f.pc = "start" \/ f.cand # {})
      BY <2>1
    <2>3. PICK i \in 1..Len(tasks[t].stack) : f = tasks[t].stack[i]
      BY <1>4, <2>2 DEF ToSet
    <2>4. <<t, i>> \in DOMAIN E /\ E[<<t, i>>] = f
      BY <1>6, <2>3
    <2>5. f.pc # "new" /\ Live(f)
      BY <1>10, <2>2, <2>4 DEF Live
    <2>6. c = CallIn(graph, opt, f)
      BY <2>2, <2>5, CallOfFrame
    <2> QED BY <2>4, <2>5, <2>6 DEF CallsIn
  <1>13. ASSUME NEW c \in CallsIn(E, graph, opt) PROVE c \in N \union U
    <2>1. PICK x \in DOMAIN E : Live(E[x]) /\ c = CallIn(graph, opt, E[x])
      BY DEF CallsIn
    <2>2. /\ x = <<x[1], x[2]>>
          /\ \/ x[1] \in DOMAIN tasks /\ x[2] \in 1..Len(tasks[x[1]].stack)
             \/ x[2] = 1 /\ \E v \in root.todo : x[1] = {v}
      BY <1>3
    <2>3. CASE x[1] \in DOMAIN tasks /\ x[2] \in 1..Len(tasks[x[1]].stack) /\ E[x].pc # "new"
      <3> DEFINE f == tasks[x[1]].stack[x[2]]
      <3>1. E[x] = f /\ f \in ToSet(tasks[x[1]].stack)
        BY <1>4, <1>6, <2>2, <2>3 DEF ToSet
      <3> HIDE DEF f
      <3>2. c = CallOf(f) /\ (f.pc = "start" \/ f.cand # {})
        BY <2>1, <2>3, <3>1, CallOfFrame DEF Live
      <3>3. c \in M(x[1])
        BY <3>1, <3>2
      <3> QED BY <2>3, <3>3
    <2>4. CASE x[1] \in DOMAIN tasks /\ x[2] \in 1..Len(tasks[x[1]].stack) /\ E[x].pc = "new"
      <3>1. IsRoot(x) /\ E[x] = RootFrame(x[1])
        BY <1>10, <2>4
      <3>2. PICK v \in V : x[1] = {v}
        BY <3>1 DEF IsRoot
      <3>3. x[2] = 1
        BY <3>1 DEF IsRoot
      <3>4. IsNew(v)
        BY <1>6, <2>2, <2>4, <3>2, <3>3 DEF IsNew
      <3>5. c = RootCallOf(v)
        BY <1>8, <2>1, <3>1, <3>2
      <3> QED BY <3>4, <3>5
    <2>5. CASE x[2] = 1 /\ \E v \in root.todo : x[1] = {v}
      <3>1. PICK v \in root.todo : x[1] = {v}
        BY <2>5
      <3>2. E[x] = RootFrame({v})
        BY <1>7, <2>2, <2>5, <3>1
      <3>3. c = RootCallOf(v)
        BY <1>8, <2>1, <3>2
      <3> QED BY <1>1, <3>1, <3>3
    <2> QED BY <2>2, <2>3, <2>4, <2>5
  <1> HIDE DEF N, U
  <1>14. LiveCalls = CallsIn(E, graph, opt)
    BY <1>5, <1>11, <1>12, <1>13
  <1> QED BY <1>14 DEF E

\* The frame at x is replaced by frames whose live calls are S.
Swapped(E, E2, x, S, g, o) ==
  \A c : c \in CallsIn(E2, g, o)
           <=> c \in S \/ \E y \in DOMAIN E : y # x /\ Live(E[y]) /\ c = CallIn(g, o, E[y])

\* No two frames are the same call: calls can be told apart in the set.
LEMMA CallsSwap ==
  ASSUME NEW g, NEW o, NEW E, FramesApart(E, g, o), NEW x \in DOMAIN E, Live(E[x]),
         NEW E2, NEW S, Swapped(E, E2, x, S, g, o)
  PROVE  CallsIn(E2, g, o) = (CallsIn(E, g, o) \ {CallIn(g, o, E[x])}) \union S
  <1> DEFINE k == CallIn(g, o, E[x])
  <1>1. ASSUME NEW y \in DOMAIN E, y # x PROVE CallIn(g, o, E[y]) # k
    <2>1. ~(E[y].R \subseteq Span(g, o, E[x]) /\ E[x].R \subseteq Span(g, o, E[y]))
      BY <1>1 DEF FramesApart, Apart
    <2>2. E[y].R \subseteq Span(g, o, E[y]) /\ E[x].R \subseteq Span(g, o, E[x])
      BY DEF Span
    <2>3. E[y].R # E[x].R
      BY <2>1, <2>2
    <2> QED BY <2>3, CallOfFrame
  <1>2. \A c : c \in CallsIn(E, g, o)
                 <=> \E y \in DOMAIN E : Live(E[y]) /\ c = CallIn(g, o, E[y])
    BY DEF CallsIn
  <1>3. \A c : c \in CallsIn(E, g, o) \ {k}
                 <=> \E y \in DOMAIN E : y # x /\ Live(E[y]) /\ c = CallIn(g, o, E[y])
    BY <1>1, <1>2
  <1> HIDE DEF k
  <1>4. \A c : c \in CallsIn(E2, g, o) <=> c \in (CallsIn(E, g, o) \ {k}) \union S
    BY <1>3 DEF Swapped
  <1>5. CallsIn(E2, g, o) = (CallsIn(E, g, o) \ {k}) \union S
    BY <1>4
  <1> QED BY <1>5 DEF k

\* A frame that has nothing to do may go or change.
LEMMA CallsStay ==
  ASSUME NEW g, NEW o, NEW E, NEW x \in DOMAIN E, ~Live(E[x]),
         NEW E2, Swapped(E, E2, x, {}, g, o)
  PROVE  CallsIn(E2, g, o) = CallsIn(E, g, o)
  <1>1. \A c : c \in CallsIn(E, g, o)
                 <=> \E y \in DOMAIN E : Live(E[y]) /\ c = CallIn(g, o, E[y])
    BY DEF CallsIn
  <1>2. \A c : c \in CallsIn(E2, g, o) <=> c \in CallsIn(E, g, o)
    BY <1>1 DEF Swapped
  <1> QED BY <1>2

\* What is left of a frame.
RestIn(g, o, h) == IF Live(h) THEN {CallIn(g, o, h)} ELSE {}

\* Frames at other sites are the same; those in W are the new ones.
LEMMA SwapsTo ==
  ASSUME NEW g, NEW o, NEW E, NEW E2, NEW x, NEW W, W \subseteq DOMAIN E2,
         DOMAIN E2 \ W = DOMAIN E \ {x}, \A y \in DOMAIN E2 \ W : E2[y] = E[y]
  PROVE  Swapped(E, E2, x, UNION {RestIn(g, o, E2[y]) : y \in W}, g, o)
  <1> DEFINE S == UNION {RestIn(g, o, E2[y]) : y \in W}
  <1>1. \A c : c \in S <=> \E y \in W : Live(E2[y]) /\ c = CallIn(g, o, E2[y])
    <2>1. \A c : c \in S <=> \E y \in W : c \in RestIn(g, o, E2[y])
      OBVIOUS
    <2>2. \A c, f : c \in RestIn(g, o, f) <=> Live(f) /\ c = CallIn(g, o, f)
      BY DEF RestIn
    <2> HIDE DEF S
    <2> QED BY <2>1, <2>2
  <1>2. \A c : c \in CallsIn(E2, g, o)
                 <=> \E y \in DOMAIN E2 : Live(E2[y]) /\ c = CallIn(g, o, E2[y])
    BY DEF CallsIn
  <1>3. \A y : y \in DOMAIN E2 <=> y \in W \/ (y \in DOMAIN E /\ y # x)
    OBVIOUS
  <1>4. \A y \in DOMAIN E : y # x /\ y \notin W => E2[y] = E[y]
    OBVIOUS
  <1>5. \A y \in W : ~(y \in DOMAIN E /\ y # x)
    OBVIOUS
  <1> HIDE DEF S
  <1>6. ASSUME NEW c
        PROVE  c \in CallsIn(E2, g, o)
                 <=> c \in S \/ \E y \in DOMAIN E : y # x /\ Live(E[y]) /\ c = CallIn(g, o, E[y])
    BY <1>1, <1>2, <1>3, <1>4, <1>5
  <1>7. Swapped(E, E2, x, S, g, o)
    BY <1>6 DEF Swapped
  <1> QED BY <1>7 DEF S

\* A call that is over leaves the set of calls, if it was still in it.
LEMMA LeftCalls ==
  ASSUME NEW g, NEW o, NEW E, NEW x \in DOMAIN E, E[x] \in FrameType, E[x].cand = {}
  PROVE  Swapped(E, Left(E, x), x, {}, g, o)
  <1> DEFINE E2 == Left(E, x)
  <1>1. /\ DOMAIN E2 = IF x[2] = 1 THEN DOMAIN E ELSE DOMAIN E \ {x}
        /\ \A y \in DOMAIN E2 : y # x => E2[y] = E[y]
        /\ x[2] = 1 => E2[x].pc = "cont" /\ E2[x].cand = E[x].cand
    BY LeftFacts
  <1> HIDE DEF E2
  <1>2. CASE x[2] = 1
    <2> DEFINE W == {x}
    <2>1. W \subseteq DOMAIN E2 /\ DOMAIN E2 \ W = DOMAIN E \ {x} /\ \A y \in DOMAIN E2 \ W : E2[y] = E[y]
      BY <1>1, <1>2
    <2>2. RestIn(g, o, E2[x]) = {}
      BY <1>1, <1>2 DEF RestIn, Live
    <2>3. UNION {RestIn(g, o, E2[y]) : y \in W} = {}
      BY <2>2
    <2> HIDE DEF W
    <2>4. Swapped(E, E2, x, UNION {RestIn(g, o, E2[y]) : y \in W}, g, o)
      BY <2>1, SwapsTo
    <2> QED BY <2>3, <2>4 DEF E2
  <1>3. CASE x[2] # 1
    <2> DEFINE W == {}
    <2>1. W \subseteq DOMAIN E2 /\ DOMAIN E2 \ W = DOMAIN E \ {x} /\ \A y \in DOMAIN E2 \ W : E2[y] = E[y]
      BY <1>1, <1>3
    <2>2. UNION {RestIn(g, o, E2[y]) : y \in W} = {}
      OBVIOUS
    <2> HIDE DEF W
    <2>3. Swapped(E, E2, x, UNION {RestIn(g, o, E2[y]) : y \in W}, g, o)
      BY <2>1, SwapsTo
    <2> QED BY <2>2, <2>3 DEF E2
  <1> QED BY <1>2, <1>3

\* The frame at x becomes h.
LEMMA TopCalls ==
  ASSUME NEW g, NEW o, NEW E, NEW x \in DOMAIN E, NEW h
  PROVE  Swapped(E, ViewWith(E, x, h), x, RestIn(g, o, h), g, o)
  <1> DEFINE E2 == ViewWith(E, x, h)
             W == {x}
  <1>1. DOMAIN E2 = DOMAIN E /\ E2[x] = h /\ \A y \in DOMAIN E : y # x => E2[y] = E[y]
    BY DEF ViewWith
  <1> HIDE DEF E2
  <1>2. W \subseteq DOMAIN E2 /\ DOMAIN E2 \ W = DOMAIN E \ {x} /\ \A y \in DOMAIN E2 \ W : E2[y] = E[y]
    BY <1>1
  <1>3. UNION {RestIn(g, o, E2[y]) : y \in W} = RestIn(g, o, h)
    BY <1>1
  <1> HIDE DEF W
  <1>4. Swapped(E, E2, x, UNION {RestIn(g, o, E2[y]) : y \in W}, g, o)
    BY <1>2, SwapsTo
  <1> QED BY <1>3, <1>4 DEF E2

\* The frame of a continuation is dropped with its task.
LEMMA DropCalls ==
  ASSUME NEW g, NEW o, NEW E, NEW x \in DOMAIN E
  PROVE  Swapped(E, Drop(E, x), x, {}, g, o)
  <1> DEFINE E2 == Drop(E, x)
             W == {}
  <1>1. W \subseteq DOMAIN E2 /\ DOMAIN E2 \ W = DOMAIN E \ {x} /\ \A y \in DOMAIN E2 \ W : E2[y] = E[y]
    BY DEF Drop
  <1>2. UNION {RestIn(g, o, E2[y]) : y \in W} = {}
    OBVIOUS
  <1> HIDE DEF W, E2
  <1>3. Swapped(E, E2, x, UNION {RestIn(g, o, E2[y]) : y \in W}, g, o)
    BY <1>1, SwapsTo
  <1> QED BY <1>2, <1>3 DEF E2

\* An iteration adds the call of the child.
LEMMA DescendCalls ==
  ASSUME NEW g, NEW o, NEW E, NEW E2, NEW x, NEW y, NEW v, NEW c,
         Descends(E, E2, x, y, g, v, c)
  PROVE  Swapped(E, E2, x, {CallOf(c)} \union RestIn(g, o, Iterated(E[x], v)), g, o)
  <1> DEFINE W == {x, y}
  <1>1. /\ x \in DOMAIN E /\ y \notin DOMAIN E /\ DOMAIN E2 = DOMAIN E \union {y}
        /\ E2[y] = c /\ E2[x] = Iterated(E[x], v) /\ c.pc = "start"
        /\ \A z \in DOMAIN E : z # x => E2[z] = E[z]
    BY DEF Descends, ChildIn
  <1>2. W \subseteq DOMAIN E2 /\ DOMAIN E2 \ W = DOMAIN E \ {x} /\ \A z \in DOMAIN E2 \ W : E2[z] = E[z]
    BY <1>1
  <1>3. RestIn(g, o, c) = {CallOf(c)}
    BY <1>1, CallOfFrame DEF RestIn, Live
  <1>4. UNION {RestIn(g, o, E2[z]) : z \in W} = RestIn(g, o, E2[x]) \union RestIn(g, o, E2[y])
    OBVIOUS
  <1> HIDE DEF W
  <1>5. Swapped(E, E2, x, UNION {RestIn(g, o, E2[z]) : z \in W}, g, o)
    BY <1>2, SwapsTo
  <1>6. UNION {RestIn(g, o, E2[z]) : z \in W} = {CallOf(c)} \union RestIn(g, o, Iterated(E[x], v))
    BY <1>1, <1>3, <1>4
  <1> QED BY <1>5, <1>6

\* So does one that spawns a task, also if it is the last.
LEMMA SpawnCalls ==
  ASSUME NEW g \in Graphs, NEW o, NEW E, FramesSound(E), NEW E2, NEW x, NEW y, NEW v, NEW c,
         SpawnsIn(E, E2, x, y, g, v, c)
  PROVE  Swapped(E, E2, x, {CallOf(c)} \union RestIn(g, o, Iterated(E[x], v)), g, o)
  <1>1. PICK E1 : /\ Descends(E, E1, x, y, g, v, c)
                  /\ \/ E2 = E1
                     \/ E1[x].cand = {} /\ E2 = Left(E1, x)
    BY DEF SpawnsIn
  <1> DEFINE S == {CallOf(c)} \union RestIn(g, o, Iterated(E[x], v))
  <1>2. Swapped(E, E1, x, S, g, o)
    BY <1>1, DescendCalls
  <1> HIDE DEF S
  <1>3. CASE E2 = E1
    BY <1>2, <1>3 DEF S
  <1>4. CASE E1[x].cand = {} /\ E2 = Left(E1, x)
    <2>1. Handed(E, E1, x, y, g, o, v, c)
      BY <1>1, DescendFacts
    <2>2. E1[x] \in FrameType /\ E1[x].pc = "loop" /\ x \in DOMAIN E1
      BY <1>1, <2>1 DEF Handed, FrameSound, Descends
    <2>3. Swapped(E1, E2, x, {}, g, o)
      BY <1>4, <2>2, LeftCalls
    <2>4. ~Live(E1[x])
      BY <1>4, <2>2 DEF Live
    <2>5. CallsIn(E2, g, o) = CallsIn(E1, g, o)
      BY <2>2, <2>3, <2>4, CallsStay
    <2> QED BY <1>2, <2>5 DEF Swapped, S
  <1> QED BY <1>1, <1>3, <1>4

\* The call of the running frame of t is replaced by the calls S.
LEMMA CallTaken ==
  ASSUME IInv, NEW t \in DOMAIN tasks, top(t).pc # "new", Live(top(t)), NEW E2, NEW S,
         Swapped(View(tasks, root.todo), E2, <<t, Len(tasks[t].stack)>>, S, graph, opt)
  PROVE  /\ CallOf(top(t)) \in LiveCalls
         /\ CallsIn(E2, graph, opt) = (LiveCalls \ {CallOf(top(t))}) \union S
  <1> DEFINE E == View(tasks, root.todo)
             x == <<t, Len(tasks[t].stack)>>
  <1>1. x \in DOMAIN E /\ E[x] = top(t)
    BY TopFacts DEF TopAt
  <1>2. LiveCalls = CallsIn(E, graph, opt)
    BY LiveCallsAre
  <1>3. FramesApart(E, graph, opt)
    BY DEF IInv, Good, ViewOK
  <1>4. CallIn(graph, opt, E[x]) = CallOf(top(t))
    BY <1>1, CallOfFrame
  <1> HIDE DEF E, x
  <1>5. Swapped(E, E2, x, S, graph, opt) /\ Live(E[x])
    BY <1>1 DEF E, x
  <1>6. CallsIn(E2, graph, opt) = (CallsIn(E, graph, opt) \ {CallIn(graph, opt, E[x])}) \union S
    BY <1>1, <1>3, <1>5, CallsSwap
  <1>7. CallIn(graph, opt, E[x]) \in CallsIn(E, graph, opt)
    BY <1>1, <1>5 DEF CallsIn
  <1> QED BY <1>2, <1>4, <1>6, <1>7

\* The calls after a step.
LiveNext == CallsIn(View(tasks', root'.todo), graph', opt')

\* A call after one candidate was moved, field by field.
LEMMA MovedIs ==
  ASSUME NEW f, NEW v
  PROVE  Recursion!Moved(CallOf(f), v) =
           [R |-> f.R, P |-> f.P \ {v}, X |-> f.X \union {v}, cand |-> f.cand \ {v}, pc |-> f.pc]
  <1> DEFINE r == f.R
             p == f.P
             x == f.X
             d == f.cand
             k == f.pc
             c == CallOf(f)
  <1>0. c = [R |-> r, P |-> p, X |-> x, cand |-> d, pc |-> k]
    BY DEF CallOf
  <1> HIDE DEF c, r, p, x, d, k
  <1> DEFINE c1 == [c EXCEPT !.P = p \ {v}]
             c2 == [c1 EXCEPT !.X = x \union {v}]
             c3 == [c2 EXCEPT !.cand = d \ {v}]
  <1>1. Recursion!Moved(c, v) = c3
    BY <1>0 DEF Recursion!Moved
  <1>2. c1 = [R |-> r, P |-> p \ {v}, X |-> x, cand |-> d, pc |-> k]
    BY <1>0
  <1> HIDE DEF c1
  <1>3. c2 = [R |-> r, P |-> p \ {v}, X |-> x \union {v}, cand |-> d, pc |-> k]
    BY <1>2
  <1> HIDE DEF c2
  <1>4. c3 = [R |-> r, P |-> p \ {v}, X |-> x \union {v}, cand |-> d \ {v}, pc |-> k]
    BY <1>3
  <1> HIDE DEF c3
  <1> QED BY <1>1, <1>4 DEF c, r, p, x, d, k

\* A call after its candidates were chosen, field by field.
LEMMA OpenedIs ==
  ASSUME NEW f, NEW v
  PROVE  Recursion!Opened(CallOf(f), v) =
           [R |-> f.R, P |-> f.P, X |-> f.X, cand |-> f.P \ graph.adj[v], pc |-> "loop"]
  <1> DEFINE r == f.R
             p == f.P
             x == f.X
             d == f.cand
             k == f.pc
             c == CallOf(f)
  <1>0. c = [R |-> r, P |-> p, X |-> x, cand |-> d, pc |-> k]
    BY DEF CallOf
  <1> HIDE DEF c, r, p, x, d, k
  <1> DEFINE c1 == [c EXCEPT !.cand = p \ graph.adj[v]]
             c2 == [c1 EXCEPT !.pc = "loop"]
  <1>1. Recursion!Opened(c, v) = c2
    BY <1>0 DEF Recursion!Opened
  <1>2. c1 = [R |-> r, P |-> p, X |-> x, cand |-> p \ graph.adj[v], pc |-> k]
    BY <1>0
  <1> HIDE DEF c1
  <1>3. c2 = [R |-> r, P |-> p, X |-> x, cand |-> p \ graph.adj[v], pc |-> "loop"]
    BY <1>2
  <1> HIDE DEF c2
  <1> QED BY <1>1, <1>3 DEF c, r, p, x

\* Cardinality is the same operator in both modules.
LEMMA SameSize == ASSUME NEW S PROVE Recursion!Cardinality(S) = Cardinality(S)
  BY DEF Cardinality, Recursion!Cardinality

\* StartTask with P empty is Exit.
LEMMA ExitRefines ==
  ASSUME IInv, LiveCalls' = LiveNext, NEW t \in DOMAIN tasks, StartTaskExit(t)
  PROVE  Recursion!Next
  <1> DEFINE f == top(t)
             c == CallOf(f)
             x == <<t, Len(tasks[t].stack)>>
             E == View(tasks, root.todo)
             E2 == View(tasks', root'.todo)
  <1>1. /\ f.pc = "start" /\ f.P = {} /\ UNCHANGED <<graph, opt, root>>
        /\ IF f.X = {}
           THEN /\ reported' = reported \union {f.R}
                /\ hist' = [hist EXCEPT ![Cardinality(f.R)] = @ + 1]
           ELSE UNCHANGED <<reported, hist>>
    BY DEF StartTaskExit
  <1>2. x \in DOMAIN E /\ E[x] = f /\ FrameSound(x, f)
    BY TopFacts DEF TopAt
  <1>3. E2 = Left(E, x)
    BY StartTaskExitOK DEF LeavesView
  <1>4. E[x] \in FrameType /\ E[x].cand = {}
    BY <1>1, <1>2 DEF FrameSound
  <1>5. Swapped(E, E2, x, {}, graph, opt)
    BY <1>2, <1>3, <1>4, LeftCalls
  <1>6. f.pc # "new" /\ Live(f)
    BY <1>1 DEF Live
  <1>7. c \in LiveCalls /\ CallsIn(E2, graph, opt) = (LiveCalls \ {c}) \union {}
    BY <1>5, <1>6, CallTaken
  <1>8. LiveCalls' = LiveCalls \ {c}
    BY <1>1, <1>7 DEF LiveNext
  <1>9. c.pc = "start" /\ c.P = {} /\ c.X = f.X /\ c.R = f.R
    BY <1>1 DEF CallOf
  <1> HIDE DEF c, f
  <1>10. Recursion!Cardinality(f.R) = Cardinality(f.R)
    BY SameSize
  <1>11. Recursion!Exit(c)
    <2>1. IF c.X = {}
          THEN /\ reported' = reported \union {c.R}
               /\ hist' = [hist EXCEPT ![Recursion!Cardinality(c.R)] = @ + 1]
          ELSE UNCHANGED <<reported, hist>>
      BY <1>1, <1>9, <1>10
    <2> QED BY <1>1, <1>8, <1>9, <2>1 DEF Recursion!Exit
  <1> QED BY <1>7, <1>11 DEF Recursion!Next

\* StartTask stopped by --max-clq is CutOff.
LEMMA CutRefines ==
  ASSUME IInv, LiveCalls' = LiveNext, NEW t \in DOMAIN tasks, StartTaskCut(t)
  PROVE  Recursion!Next
  <1> DEFINE f == top(t)
             c == CallOf(f)
             x == <<t, Len(tasks[t].stack)>>
             E == View(tasks, root.todo)
             E2 == View(tasks', root'.todo)
  <1>1. /\ f.pc = "start" /\ f.P # {} /\ UNCHANGED <<graph, opt, root, reported, hist>>
        /\ opt.max_clq_size >= 0 /\ Cardinality(f.R) >= opt.max_clq_size
    BY DEF StartTaskCut, Limited
  <1>2. x \in DOMAIN E /\ E[x] = f /\ FrameSound(x, f)
    BY TopFacts DEF TopAt
  <1>3. E2 = Left(E, x)
    BY StartTaskCutOK DEF LeavesView
  <1>4. E[x] \in FrameType /\ E[x].cand = {}
    BY <1>1, <1>2 DEF FrameSound
  <1>5. Swapped(E, E2, x, {}, graph, opt)
    BY <1>2, <1>3, <1>4, LeftCalls
  <1>6. f.pc # "new" /\ Live(f)
    BY <1>1 DEF Live
  <1>7. c \in LiveCalls /\ CallsIn(E2, graph, opt) = (LiveCalls \ {c}) \union {}
    BY <1>5, <1>6, CallTaken
  <1>8. LiveCalls' = LiveCalls \ {c}
    BY <1>1, <1>7 DEF LiveNext
  <1>9. c.pc = "start" /\ c.P = f.P /\ c.R = f.R
    BY <1>1 DEF CallOf
  <1> HIDE DEF c, f
  <1>10. Recursion!CutOff(c)
    <2>1. Recursion!Cardinality(f.R) = Cardinality(f.R)
      BY SameSize
    <2>2. Recursion!Cut(c)
      BY <1>1, <1>9, <2>1 DEF Recursion!Cut
    <2> QED BY <1>1, <1>8, <1>9, <2>2 DEF Recursion!CutOff
  <1> QED BY <1>7, <1>10 DEF Recursion!Next

\* StartTask that begins a loop is Open, with a pivot Open allows.
LEMMA OpenRefines ==
  ASSUME IInv, LiveCalls' = LiveNext, NEW t \in DOMAIN tasks, StartTaskOpen(t)
  PROVE  Recursion!Next
  <1> DEFINE f == top(t)
             c == CallOf(f)
             x == <<t, Len(tasks[t].stack)>>
             E == View(tasks, root.todo)
             E2 == View(tasks', root'.todo)
  <1>1. /\ f.pc = "start" /\ f.P # {} /\ UNCHANGED <<graph, opt, root, reported, hist>>
        /\ ~(opt.max_clq_size >= 0 /\ Cardinality(f.R) >= opt.max_clq_size)
    BY DEF StartTaskOpen, Limited
  <1>2. x \in DOMAIN E /\ E[x] = f /\ FrameSound(x, f)
    BY TopFacts DEF TopAt
  <1>3. PICK h, p : /\ TopsView(tasks, tasks', root.todo, t, h) /\ OpensTo(f, h)
                    /\ BestPivot(graph, f, p) /\ h.cand = f.P \ graph.adj[p]
    BY StartTaskOpenOK
  <1>4. E2 = ViewWith(E, x, h)
    BY <1>1, <1>3 DEF TopsView
  <1>5. Swapped(E, E2, x, RestIn(graph, opt, h), graph, opt)
    BY <1>2, <1>4, TopCalls
  <1>6. f.pc # "new" /\ Live(f)
    BY <1>1 DEF Live
  <1>7. c \in LiveCalls
        /\ CallsIn(E2, graph, opt) = (LiveCalls \ {c}) \union RestIn(graph, opt, h)
    BY <1>5, <1>6, CallTaken
  <1>8. LiveCalls' = (LiveCalls \ {c}) \union RestIn(graph, opt, h)
    BY <1>1, <1>7 DEF LiveNext
  <1>9. c.pc = "start" /\ c.P = f.P /\ c.X = f.X /\ c.R = f.R
    BY <1>1 DEF CallOf
  <1>10. p \in Recursion!Pivots(c)
    <2> HIDE DEF c, f
    <2>1. \A w : Recursion!Cardinality(f.P \intersect graph.adj[w]) = Cardinality(f.P \intersect graph.adj[w])
      BY SameSize
    <2>2. /\ p \in f.P \union f.X
          /\ \A w \in f.P \union f.X : Cardinality(f.P \intersect graph.adj[w])
                                       =< Cardinality(f.P \intersect graph.adj[p])
      BY <1>3 DEF BestPivot
    <2>3. /\ p \in c.P \union c.X
          /\ \A w \in c.P \union c.X : Recursion!Cardinality(c.P \intersect graph.adj[w])
                                       =< Recursion!Cardinality(c.P \intersect graph.adj[p])
      BY <1>9, <2>1, <2>2
    <2> QED BY <2>3 DEF Recursion!Pivots
  <1>11. CallOf(h) = Recursion!Opened(c, p)
    <2>1. h.pc = "loop" /\ h.R = f.R /\ h.P = f.P /\ h.X = f.X /\ h.cand = f.P \ graph.adj[p]
      BY <1>3 DEF OpensTo
    <2>2. CallOf(h) = [R |-> f.R, P |-> f.P, X |-> f.X, cand |-> f.P \ graph.adj[p], pc |-> "loop"]
      BY <2>1 DEF CallOf
    <2> HIDE DEF f
    <2>3. Recursion!Opened(CallOf(f), p) =
            [R |-> f.R, P |-> f.P, X |-> f.X, cand |-> f.P \ graph.adj[p], pc |-> "loop"]
      BY OpenedIs
    <2> QED BY <2>2, <2>3
  <1>12. RestIn(graph, opt, h) = Recursion!Rest(CallOf(h))
    <2>1. h.pc = "loop"
      BY <1>3 DEF OpensTo
    <2>2. CallIn(graph, opt, h) = CallOf(h) /\ CallOf(h).cand = h.cand
      BY <2>1, CallOfFrame DEF CallOf
    <2> QED BY <2>1, <2>2 DEF RestIn, Live, Recursion!Rest
  <1> HIDE DEF c, f
  <1>13. Recursion!Open(c)
    <2>1. \E pivot \in Recursion!Pivots(c) :
            LiveCalls' = (LiveCalls \ {c}) \union Recursion!Rest(Recursion!Opened(c, pivot))
      BY <1>8, <1>10, <1>11, <1>12
    <2>2. Recursion!Cardinality(f.R) = Cardinality(f.R)
      BY SameSize
    <2>3. ~Recursion!Cut(c)
      BY <1>1, <1>9, <2>2 DEF Recursion!Cut
    <2> QED BY <1>1, <1>9, <2>1, <2>3 DEF Recursion!Open
  <1> QED BY <1>7, <1>13 DEF Recursion!Next

\* Both kinds of LoopIteration are LoopIteration of the recursion.
LEMMA IterationRefines ==
  ASSUME IInv, LiveCalls' = LiveNext, NEW t \in DOMAIN tasks, NEW v \in top(t).cand,
         LoopIterationSequential(t, v) \/ LoopIterationSpawn(t, v)
  PROVE  Recursion!Next
  <1> DEFINE f == top(t)
             c == CallOf(f)
             d == ChildFrame(t, f, v)
             h == Iterated(f, v)
             x == <<t, Len(tasks[t].stack)>>
             E == View(tasks, root.todo)
             E2 == View(tasks', root'.todo)
             S == {CallOf(d)} \union RestIn(graph, opt, h)
  <1>1. f.pc = "loop" /\ UNCHANGED <<graph, opt, root, reported, hist>>
    BY DEF LoopIterationSequential, LoopIterationSpawn
  <1>2. x \in DOMAIN E /\ E[x] = f /\ FrameSound(x, f)
    BY TopFacts DEF TopAt
  <1>3. graph \in Graphs /\ FramesSound(E)
    BY SubFacts DEF Good, ViewOK
  <1>4. Swapped(E, E2, x, S, graph, opt)
    <2>1. CASE LoopIterationSequential(t, v)
      <3>1. DescendsView(tasks, tasks', root.todo, t, graph, v, d) /\ root'.todo = root.todo
        BY <2>1, LoopIterationSequentialOK
      <3>2. PICK y : Descends(E, E2, x, y, graph, v, d)
        BY <3>1 DEF DescendsView
      <3> HIDE DEF E, E2, x, d
      <3> QED BY <1>2, <3>2, DescendCalls
    <2>2. CASE LoopIterationSpawn(t, v)
      <3>1. root'.todo = root.todo
            /\ \E y : SpawnsIn(E, View(tasks', root.todo), x, y, graph, v, d)
        BY <2>2, LoopIterationSpawnOK
      <3>2. PICK y : SpawnsIn(E, E2, x, y, graph, v, d)
        BY <3>1
      <3> HIDE DEF E, E2, x, d
      <3> QED BY <1>2, <1>3, <3>2, SpawnCalls
    <2> QED BY <2>1, <2>2
  <1>5. f.pc # "new" /\ Live(f)
    BY <1>1 DEF Live
  <1>6. c \in LiveCalls /\ CallsIn(E2, graph, opt) = (LiveCalls \ {c}) \union S
    BY <1>4, <1>5, CallTaken
  <1>7. LiveCalls' = (LiveCalls \ {c}) \union S
    BY <1>1, <1>6 DEF LiveNext
  <1>8. ChildIn(graph, f, v, d) /\ f \in FrameType /\ v \in V
    BY <1>1, <1>2, ChildFrameFacts DEF FrameSound
  <1>9. c = [R |-> f.R, P |-> f.P, X |-> f.X, cand |-> f.cand, pc |-> f.pc]
    BY DEF CallOf
  <1>10. CallOf(d) = Recursion!Child(c, v)
    <2>1. d.R = f.R \union {v} /\ d.P = f.P \intersect graph.adj[v]
          /\ d.X = f.X \intersect graph.adj[v] /\ d.cand = {} /\ d.pc = "start"
      BY <1>8 DEF ChildIn
    <2> HIDE DEF c, d, f
    <2> QED BY <1>9, <2>1 DEF CallOf, Recursion!Child, Recursion!StartCall
  <1>11. CallOf(h) = Recursion!Moved(c, v) /\ CallOf(h).cand = h.cand /\ h.pc = "loop"
    <2>1. h.R = f.R /\ h.P = f.P \ {v} /\ h.X = f.X \union {v} /\ h.cand = f.cand \ {v} /\ h.pc = f.pc
      BY <1>8, IteratedFacts
    <2> HIDE DEF c, h, f
    <2>2. CallOf(h) = [R |-> f.R, P |-> f.P \ {v}, X |-> f.X \union {v}, cand |-> f.cand \ {v}, pc |-> f.pc]
      BY <2>1 DEF CallOf
    <2>3. CallOf(h) = Recursion!Moved(c, v)
      <3>1. Recursion!Moved(CallOf(f), v) =
              [R |-> f.R, P |-> f.P \ {v}, X |-> f.X \union {v}, cand |-> f.cand \ {v}, pc |-> f.pc]
        BY MovedIs
      <3> QED BY <2>2, <3>1 DEF c
    <2> QED BY <1>1, <2>1, <2>3 DEF CallOf
  <1>12. RestIn(graph, opt, h) = Recursion!Rest(CallOf(h))
    <2> HIDE DEF h
    <2>1. CallIn(graph, opt, h) = CallOf(h)
      BY <1>11, CallOfFrame
    <2> QED BY <1>11, <2>1 DEF RestIn, Live, Recursion!Rest
  <1>13. c.pc = "loop" /\ v \in c.cand
    BY <1>1, <1>9
  <1>14. LiveCalls' = (LiveCalls \ {c}) \union {Recursion!Child(c, v)}
                        \union Recursion!Rest(Recursion!Moved(c, v))
    <2> HIDE DEF c, d, h
    <2> QED BY <1>7, <1>10, <1>11, <1>12
  <1> HIDE DEF c
  <1>15. Recursion!LoopIteration(c, v)
    BY <1>1, <1>13, <1>14 DEF Recursion!LoopIteration
  <1> QED BY <1>6, <1>13, <1>15 DEF Recursion!Next

\* create_root_sets computes the sets of the call that was already there.
LEMMA RootSetsStutter ==
  ASSUME IInv, LiveCalls' = LiveNext, NEW t \in DOMAIN tasks, create_root_sets(t)
  PROVE  LiveCalls' = LiveCalls
  <1> DEFINE f == top(t)
             x == <<t, Len(tasks[t].stack)>>
             E == View(tasks, root.todo)
             E2 == View(tasks', root'.todo)
             k == CallIn(graph, opt, E[x])
  <1>1. f.pc = "new" /\ UNCHANGED <<graph, opt>>
    BY DEF create_root_sets
  <1>2. x \in DOMAIN E /\ E[x] = f /\ FrameSound(x, f) /\ x[1] = t
    BY TopFacts DEF TopAt
  <1>3. PICK h : RootStart(graph, opt, t, h) /\ TopsView(tasks, tasks', root.todo, t, h)
                 /\ root'.todo = root.todo
    BY CreateRootSetsOK
  <1>4. f = RootFrame(t) /\ IsRoot(x)
    BY <1>1, <1>2 DEF FrameSound
  <1>5. PICK v \in V : t = {v}
    BY <1>2, <1>4 DEF IsRoot
  <1>6. k = [R |-> {v}, P |-> RootP(graph, opt, v), X |-> RootX(graph, opt, v),
             cand |-> {}, pc |-> "start"]
    BY <1>2, <1>4, <1>5, RootCallIs
  <1>7. /\ h.pc = "start" /\ h.R = {v} /\ h.cand = {}
        /\ h.P = RootP(graph, opt, v) /\ h.X = RootX(graph, opt, v)
    BY <1>3, <1>5 DEF RootStart
  <1>8. RestIn(graph, opt, h) = {k}
    <2>1. CallIn(graph, opt, h) = CallOf(h) /\ Live(h)
      BY <1>7, CallOfFrame DEF Live
    <2>2. CallOf(h) = k
      BY <1>6, <1>7 DEF CallOf
    <2> QED BY <2>1, <2>2 DEF RestIn
  <1>9. E2 = ViewWith(E, x, h)
    BY <1>3 DEF TopsView
  <1>10. Swapped(E, E2, x, RestIn(graph, opt, h), graph, opt)
    BY <1>2, <1>9, TopCalls
  <1>11. FramesApart(E, graph, opt) /\ Live(E[x])
    BY <1>1, <1>2 DEF IInv, Good, ViewOK, Live
  <1>12. LiveCalls = CallsIn(E, graph, opt) /\ LiveCalls' = CallsIn(E2, graph, opt)
    BY <1>1, LiveCallsAre DEF LiveNext
  <1> HIDE DEF E, E2, x, f
  <1>13. CallsIn(E2, graph, opt) = (CallsIn(E, graph, opt) \ {k}) \union {k}
    BY <1>2, <1>8, <1>10, <1>11, CallsSwap
  <1>14. k \in CallsIn(E, graph, opt)
    BY <1>2, <1>11 DEF CallsIn
  <1> QED BY <1>12, <1>13, <1>14

\* The end of a loop and a continuation take no call away: none was left.
LEMMA ReturnStutters ==
  ASSUME IInv, LiveCalls' = LiveNext, NEW t \in DOMAIN tasks, LoopEnd(t) \/ Continuation(t)
  PROVE  LiveCalls' = LiveCalls
  <1> DEFINE E == View(tasks, root.todo)
             E2 == View(tasks', root'.todo)
  <1>1. UNCHANGED <<graph, opt>>
    BY DEF LoopEnd, Continuation
  <1>2. LiveCalls = CallsIn(E, graph, opt) /\ LiveCalls' = CallsIn(E2, graph, opt)
    BY <1>1, LiveCallsAre DEF LiveNext
  <1>3. CASE LoopEnd(t)
    <2> DEFINE x == <<t, Len(tasks[t].stack)>>
    <2>1. top(t).pc = "loop" /\ top(t).cand = {}
      BY <1>3 DEF LoopEnd
    <2>2. x \in DOMAIN E /\ E[x] = top(t) /\ FrameSound(x, top(t))
      BY TopFacts DEF TopAt
    <2>3. E2 = Left(E, x)
      BY <1>3, LoopEndOK DEF LeavesView
    <2>4. E[x] \in FrameType /\ E[x].cand = {} /\ ~Live(E[x])
      BY <2>1, <2>2 DEF FrameSound, Live
    <2> HIDE DEF E, E2, x
    <2>5. Swapped(E, E2, x, {}, graph, opt)
      BY <2>2, <2>3, <2>4, LeftCalls
    <2>6. CallsIn(E2, graph, opt) = CallsIn(E, graph, opt)
      BY <2>2, <2>4, <2>5, CallsStay
    <2> QED BY <1>2, <2>6
  <1>4. CASE Continuation(t)
    <2> DEFINE x == <<t, 1>>
    <2>1. x \in DOMAIN E /\ E[x].pc = "cont" /\ E2 = Drop(E, x)
      BY <1>4, ContinuationOK DEF Destroys
    <2>2. FrameSound(x, E[x])
      BY <2>1 DEF IInv, Good, ViewOK, FramesSound
    <2>3. ~Live(E[x])
      BY <2>1, <2>2 DEF FrameSound, Live
    <2> HIDE DEF E, E2, x
    <2>4. Swapped(E, E2, x, {}, graph, opt)
      BY <2>1, DropCalls
    <2>5. CallsIn(E2, graph, opt) = CallsIn(E, graph, opt)
      BY <2>1, <2>3, <2>4, CallsStay
    <2> QED BY <1>2, <2>5
  <1> QED BY <1>3, <1>4

\* The steps of the root task leave the view as it is.
LEMMA RootStutters ==
  ASSUME IInv, LiveCalls' = LiveNext, (\E v \in V : RootSpawn(v)) \/ RootWait \/ RootContinuation
  PROVE  LiveCalls' = LiveCalls /\ UNCHANGED <<graph, opt, reported, hist>>
  <1>1. UNCHANGED <<graph, opt, reported, hist>>
    BY DEF RootSpawn, RootWait, RootContinuation, memory
  <1>2. View(tasks', root'.todo) = View(tasks, root.todo)
    <2>1. ASSUME NEW v \in V, RootSpawn(v)
          PROVE  View(tasks', root'.todo) = View(tasks, root.todo)
      BY <2>1, RootSpawnOK DEF KeepsView
    <2>2. CASE RootWait \/ RootContinuation
      <3>1. root \in [pc : {"spawn", "cont", "done"}, todo : SUBSET V, ref : 0..(1 + Cardinality(V))]
        BY DEF IInv, Good, RootOK
      <3>2. tasks' = tasks /\ root'.todo = root.todo
        BY <2>2, <3>1 DEF RootWait, RootContinuation, memory
      <3> QED BY <3>2
    <2> QED BY <2>1, <2>2
  <1>3. LiveNext = CallsIn(View(tasks, root.todo), graph, opt)
    BY <1>1, <1>2 DEF LiveNext
  <1> QED BY <1>1, <1>3, LiveCallsAre

\* Every step of the tasks is a step of the recursion, or leaves its calls.
LEMMA StepRefines ==
  ASSUME IInv, LiveCalls' = LiveNext, [Next]_vars
  PROVE  [Recursion!Next]_(Recursion!vars)
  <1>1. CASE UNCHANGED vars
    <2>1. UNCHANGED <<graph, opt, reported, hist, tasks, root>>
      BY <1>1 DEF vars
    <2>2. LiveCalls' = LiveCalls
      BY <2>1, LiveCallsAre DEF LiveNext
    <2> QED BY <2>1, <2>2 DEF Recursion!vars
  <1>2. CASE (\E v \in V : RootSpawn(v)) \/ RootWait \/ RootContinuation
    BY <1>2, RootStutters DEF Recursion!vars
  <1>3. ASSUME NEW t \in DOMAIN tasks, TaskStep(t)
        PROVE  [Recursion!Next]_(Recursion!vars)
    <2>1. CASE create_root_sets(t)
      <3>1. UNCHANGED <<graph, opt, reported, hist>>
        BY <2>1 DEF create_root_sets
      <3>2. LiveCalls' = LiveCalls
        BY <2>1, RootSetsStutter
      <3> QED BY <3>1, <3>2 DEF Recursion!vars
    <2>2. CASE StartTaskExit(t)
      BY <2>2, ExitRefines
    <2>3. CASE StartTaskCut(t)
      BY <2>3, CutRefines
    <2>4. CASE StartTaskOpen(t)
      BY <2>4, OpenRefines
    <2>5. CASE \E v \in top(t).cand : LoopIterationSequential(t, v) \/ LoopIterationSpawn(t, v)
      BY <2>5, IterationRefines
    <2>6. CASE LoopEnd(t) \/ Continuation(t)
      <3>1. UNCHANGED <<graph, opt, reported, hist>>
        BY <2>6 DEF LoopEnd, Continuation
      <3>2. LiveCalls' = LiveCalls
        BY <2>6, ReturnStutters
      <3> QED BY <3>1, <3>2 DEF Recursion!vars
    <2> QED BY <1>3, <2>1, <2>2, <2>3, <2>4, <2>5, <2>6 DEF TaskStep
  <1> QED BY <1>1, <1>2, <1>3 DEF Next, Terminated

\* The root call of the recursion and of the tasks.
LEMMA SameRootCall ==
  ASSUME NEW v
  PROVE  Recursion!RootCall(graph, opt, v) = RootCallOf(v)
  <1>1. \A u : Recursion!Later(graph, opt, u, v) <=> Later(graph, opt, u, v)
    <2>1. \A u : Recursion!Cardinality(graph.adj[u]) = Cardinality(graph.adj[u])
      BY SameSize
    <2> QED BY <2>1 DEF Recursion!Later, Later
  <1>2. Recursion!RootP(graph, opt, v) = RootP(graph, opt, v)
    BY <1>1 DEF Recursion!RootP, RootP
  <1>3. Recursion!RootX(graph, opt, v) = RootX(graph, opt, v)
    BY <1>2 DEF Recursion!RootX, RootX
  <1> QED BY <1>2, <1>3 DEF Recursion!RootCall, Recursion!StartCall, RootCallOf

\* At the beginning, the calls are the root calls of all vertices.
LEMMA StartRefines ==
  ASSUME Init
  PROVE  Recursion!Init
  <1>1. /\ graph \in Graphs /\ opt \in Options /\ reported = {} /\ tasks = << >>
        /\ hist = [k \in 1..Cardinality(V) |-> 0] /\ root.todo = V
    BY DEF Init
  <1>2. DOMAIN tasks = {}
    BY <1>1
  <1>3. LiveCalls = {RootCallOf(v) : v \in V}
    <2>1. {w \in V : w \in root.todo \/ IsNew(w)} = V
      BY <1>1
    <2>2. UNION {{CallOf(f) : f \in {g \in ToSet(tasks[t].stack) : g.pc = "start" \/ g.cand # {}}} :
                   t \in DOMAIN tasks} = {}
      BY <1>2
    <2> QED BY <2>1, <2>2 DEF LiveCalls
  <1>4. \A v : Recursion!RootCall(graph, opt, v) = RootCallOf(v)
    BY SameRootCall
  <1>5. LiveCalls = {Recursion!RootCall(graph, opt, v) : v \in V}
    BY <1>3, <1>4
  <1>6. Recursion!Cardinality(V) = Cardinality(V)
    BY SameSize
  <1> QED BY <1>1, <1>5, <1>6 DEF Recursion!Init

(***************************************************************************)
(* The tasks implement the recursion of BronKerbosch: whatever runs a call *)
(* -- a task, a continuation, SequentialRun -- and whichever subgraph it   *)
(* reads, its reports and its children are those of the recursion.         *)
(***************************************************************************)
THEOREM TasksImplementRecursion ==
  Spec /\ ~Faulty(opt) => ImplementsRecursion
  <1> DEFINE CallsSeen == LiveCalls = CallsIn(View(tasks, root.todo), graph, opt)
  <1>1. IInv => CallsSeen
    BY LiveCallsAre
  <1>2. IInv' => LiveCalls' = LiveNext
    <2>1. CallsSeen' => LiveCalls' = LiveNext
      BY DEF LiveNext
    <2> HIDE DEF CallsSeen
    <2>2. IInv' => CallsSeen'
      BY <1>1, PTL
    <2> QED BY <2>1, <2>2
  <1>3. IInv /\ IInv' /\ [Next]_vars => [Recursion!Next]_(Recursion!vars)
    BY <1>2, StepRefines
  <1>4. Init => Recursion!Init
    BY StartRefines
  <1> QED BY <1>3, <1>4, TasksInvariant, PTL
      DEF Spec, ImplementsRecursion, Recursion!Spec

-----------------------------------------------------------------------------
(***************************************************************************)
(* What BronKerbosch_proofs proves of the recursion holds of the tasks.    *)
(* Proved is the same instance of BronKerbosch as Recursion, with its      *)
(* theorems.                                                               *)
(***************************************************************************)
Proved == INSTANCE BronKerbosch_proofs WITH calls <- LiveCalls

\* Cardinality once more.
LEMMA ProvedSize == ASSUME NEW S PROVE Proved!Cardinality(S) = Recursion!Cardinality(S)
  BY DEF Proved!Cardinality, Recursion!Cardinality

\* The two instances are the same specification.
LEMMA SameRecursion == Recursion!Spec => Proved!Spec
  <1>1. \A v : Recursion!RootCall(graph, opt, v) = Proved!RootCall(graph, opt, v)
    BY ProvedSize, ZenonT(60) DEF Recursion!RootCall, Proved!RootCall, Recursion!StartCall, Proved!StartCall,
      Recursion!RootP, Proved!RootP, Recursion!RootX, Proved!RootX, Recursion!Later, Proved!Later
  <1>2. Recursion!Init => Proved!Init
    BY <1>1, ProvedSize DEF Recursion!Init, Proved!Init
  <1>3. ASSUME NEW c PROVE Recursion!Exit(c) => Proved!Exit(c)
    BY ProvedSize DEF Recursion!Exit, Proved!Exit
  <1>4. ASSUME NEW c PROVE Recursion!CutOff(c) => Proved!CutOff(c)
    BY ProvedSize DEF Recursion!CutOff, Proved!CutOff, Recursion!Cut, Proved!Cut
  <1>5. ASSUME NEW c PROVE Recursion!Open(c) => Proved!Open(c)
    <2>1. ASSUME NEW p
          PROVE  Recursion!Rest(Recursion!Opened(c, p)) = Proved!Rest(Proved!Opened(c, p))
      BY DEF Recursion!Rest, Proved!Rest, Recursion!Opened, Proved!Opened
    <2>2. Recursion!Pivots(c) = Proved!Pivots(c)
      BY ProvedSize DEF Recursion!Pivots, Proved!Pivots
    <2> QED BY ProvedSize, <2>1, <2>2
        DEF Recursion!Open, Proved!Open, Recursion!Cut, Proved!Cut
  <1>6. ASSUME NEW c, NEW v PROVE Recursion!LoopIteration(c, v) => Proved!LoopIteration(c, v)
    <2>1. Recursion!Rest(Recursion!Moved(c, v)) = Proved!Rest(Proved!Moved(c, v))
      BY DEF Recursion!Rest, Proved!Rest, Recursion!Moved, Proved!Moved
    <2>2. Recursion!Child(c, v) = Proved!Child(c, v)
      BY DEF Recursion!Child, Proved!Child, Recursion!StartCall, Proved!StartCall
    <2> QED BY <2>1, <2>2 DEF Recursion!LoopIteration, Proved!LoopIteration
  <1>7. Recursion!Terminated => Proved!Terminated
    BY DEF Recursion!Terminated, Proved!Terminated, Recursion!Done, Proved!Done,
      Recursion!vars, Proved!vars
  <1>8. Recursion!Next => Proved!Next
    BY <1>3, <1>4, <1>5, <1>6, <1>7 DEF Recursion!Next, Proved!Next
  <1>9. UNCHANGED Recursion!vars => UNCHANGED Proved!vars
    BY DEF Recursion!vars, Proved!vars
  <1> QED BY <1>2, <1>8, <1>9, PTL DEF Recursion!Spec, Proved!Spec

\* The assumptions of BronKerbosch follow from those of BKTasks.
LEMMA RecursionAssumptions ==
  Proved!VAssumption /\ Proved!GraphsAssumption /\ Proved!OptionsAssumption
  <1>1. Proved!VAssumption
    BY TaskVAssumption DEF Proved!VAssumption, Proved!IsFiniteSet, IsFiniteSet
  <1>2. Proved!GraphsAssumption
    BY TaskGraphsAssumption DEF Proved!GraphsAssumption, Proved!IsSimpleGraph, IsSimpleGraph
  <1>3. Proved!OptionsAssumption
    BY TaskOptionsAssumption DEF Proved!OptionsAssumption, Proved!Ords, Ords
  <1> QED BY <1>1, <1>2, <1>3

\* The cliques a run must report, in the words of either module.
LEMMA SameWanted ==
  Proved!Wanted = WantedCliques(V, graph.adj, opt.max_clq_size)
  <1>1. \A S : Proved!Cardinality(S) = Cardinality(S)
    BY ProvedSize, SameSize
  <1>2. ASSUME NEW C
        PROVE  Proved!IsMaximalClique(V, graph.adj, C) <=> IsMaximalClique(V, graph.adj, C)
    BY DEF Proved!IsMaximalClique, IsMaximalClique, Proved!IsClique, IsClique
  <1>3. ASSUME NEW C
        PROVE  Proved!WithinLimit(opt.max_clq_size, C) <=> WithinLimit(opt.max_clq_size, C)
    BY <1>1 DEF Proved!WithinLimit, WithinLimit
  <1> QED BY <1>2, <1>3
      DEF Proved!Wanted, Proved!WantedOf, Proved!WantedCliques, WantedCliques

(***************************************************************************)
(* The results when the root task is done: the cliques reported are those  *)
(* the command line asks for, and the histogram counts each of them once.  *)
(***************************************************************************)
ResultsRight ==
  root.pc = "done" =>
    LET Wanted == WantedCliques(V, graph.adj, opt.max_clq_size)
    IN  /\ reported = Wanted
        /\ \A k \in DOMAIN hist : hist[k] = Cardinality({C \in Wanted : Cardinality(C) = k})

\* No call is left when the root task is done.
LEMMA NoCallsLeft ==
  ASSUME IInv, root.pc = "done"
  PROVE  Proved!Done
  <1>1. tasks = << >> /\ root.todo = {}
    BY NothingLeftInv DEF NothingLeft, IInv, Good, RootOK
  <1>2. DOMAIN tasks = {}
    BY <1>1
  <1>3. DOMAIN View(tasks, root.todo) = {}
    BY <1>1, <1>2 DEF View, Sites
  <1>4. LiveCalls = {}
    BY <1>3, LiveCallsAre DEF CallsIn
  <1> QED BY <1>4 DEF Proved!Done

(***************************************************************************)
(* The parallel program is correct: for every graph, every order, every    *)
(* --max-clq, every -s, every threshold and every schedule, when the root  *)
(* task ends, exactly the wanted maximal cliques have been reported, each  *)
(* of them once.                                                           *)
(***************************************************************************)
THEOREM ParallelResultsRight ==
  Spec /\ ~Faulty(opt) => []ResultsRight
  <1>1. Proved!Spec => []Proved!CompleteAtEnd
    BY RecursionAssumptions, Proved!EnumerationComplete, PTL
  <1>2. Spec /\ ~Faulty(opt) => Proved!Spec
    BY TasksImplementRecursion, SameRecursion, PTL DEF ImplementsRecursion
  <1>3. IInv /\ Proved!CompleteAtEnd => ResultsRight
    <2> SUFFICES ASSUME IInv, Proved!CompleteAtEnd, root.pc = "done"
                 PROVE  LET Wanted == WantedCliques(V, graph.adj, opt.max_clq_size)
                        IN  /\ reported = Wanted
                            /\ \A k \in DOMAIN hist :
                                 hist[k] = Cardinality({C \in Wanted : Cardinality(C) = k})
      BY DEF ResultsRight
    <2>1. \A S : Proved!Cardinality(S) = Cardinality(S)
      BY ProvedSize, SameSize
    <2>2. /\ reported = Proved!Wanted
          /\ \A k \in DOMAIN hist :
               hist[k] = Proved!Cardinality({C \in Proved!Wanted : Proved!Cardinality(C) = k})
      BY NoCallsLeft DEF Proved!CompleteAtEnd
    <2> QED BY <2>1, <2>2, SameWanted
  <1> QED BY <1>1, <1>2, <1>3, TasksInvariant, PTL
=============================================================================
