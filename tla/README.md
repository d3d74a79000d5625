# TLA+ verification of parallel-clique-enumeration

The program enumerates the maximal cliques of a graph: a Bron-Kerbosch recursion with pivoting
(`src/src/BronKerboschTBB.cpp`) whose calls are run by TBB tasks or in place, on shared reference
counted subgraphs, with sets taken from per-task memory pools. This directory holds TLA+ models of
it, the TLC configurations that check them on small instances, and TLAPS proofs.

Paths below are relative to the root of the project's sources: `src/src/...` and `src/include/...`.

## 1. Inventory

| Component | State | Operations | Interaction | What makes it correct |
|---|---|---|---|---|
| Recursion (`BronKerboschTBB.cpp`) | R, P, X, cand of each call | `StartTask`, `LoopIteration` | a call creates child calls on intersections of its P and X | every maximal clique reported once, nothing else |
| Vertex orders (`create_root_sets`) | degrees, `backwardsMapping` | split of the neighbours of a root vertex into P and X | one root call per vertex | for two neighbours, exactly one has the other in P |
| TBB tasks (`BKTask.h/.cpp`, `SpawnTask`, `Continuation`, `SequentialRun`) | `isContinuation`, `newTask`, TBB reference count, `taskSpawnCnt`, `taskLevel`, `NewGraph` | spawn, run in place, re-execute, become a continuation | parent and children run concurrently; TBB decrements the parent's count | no task destroyed before its children; termination |
| Subgraphs (`Graph.cpp`) | `adjList`, `pivot_node` | `createHpxSubgraph`, `getPivot` | read by all calls below the one that made it | same answers as the whole graph, for the sets of these calls |
| `GraphGuard` | `ref_count`, mutex | `inc_graph_ref_count`, `dec_graph_ref_count` | shared by calls in several threads | deleted once, after its last user |
| `MemChunk` | `allocations`, blocks, `free_index` | `get_address`, `increment_allocations`, `decrement_allocations` | one per task; no lock | regions disjoint, in bounds, not freed too early |
| `UnrolledList` | buckets, `offset`, `num_of_elems`, iterator | `push_back`, `remove`, `pop_back`, `get_next`, `for_each` | holds R and the elements of sets | contents and iteration as those of a set |
| `SimpleHashSet`, `SimpleHashTable` | list or hopscotch table | `intersect`, `exclude`, `contains`, `hashSet` | adjacency sets | lookup agrees with membership |
| Degeneracy ordering (`Graph.cpp`) | degree buckets | `degeneracyOrdering` | positions used by the root sets | a permutation, each vertex with few later neighbours |
| Graph input (`initFromFile`) | `adjList`, `nodeNo` | reading an edge list | before everything else | the graph of the file |
| Histogram (`pt_hist`, `writeCliqueHist`) | counts per thread and size | increment, sum | per thread, summed at the end | the numbers of cliques by size |
| `MemUsageLogger` | counters per thread, flag, mutex | add, delete, sample | called by all threads | sums of what is allocated |
| Command line (`main.cpp`) | globals | option parsing | read by all | |

What is hard to test: schedules of tasks (which of several tasks sharing a subgraph or a parent ends
first), the many conditions under which a graph is released, the thresholds that decide between task
and in-place call and between pool and heap, stale slots in list buckets, hash tables that are rebuilt
while they are rebuilt, samples taken while other threads count, odd lines of an input file, and
boundaries of blocks, buckets, vectors, tables and integers. The list of hazards, each at its line, is in `PROJECT.json`.

## 2. Modules

```
CliqueEnumeration      abstract: each wanted clique reported once          (what)
   ^ ImplementsEnumeration       (checked by TLC, proved)
BronKerbosch           calls of the recursion in any order                 (algorithm)
   ^ ImplementsRecursion         (checked by TLC, proved)
BKTasks                TBB tasks, subgraphs, reference counts, pools       (implementation)
   |- GraphGuard           one guard, with its mutex, step by step
   |- MemChunk             one pool, with its blocks
   |- SimpleHashSet        set operations, EXTENDS UnrolledList: one list, with its buckets
   |- SimpleHashTable      one adjacency set, as it is hashed and looked up
   |- VertexOrder          --ord
CliqueProgram          main: file, order, enumeration by threads, output   (composition)
   |- DegeneracyOrdering   EXTENDS GraphInput: the graph that was read, and its order
MemUsageLogger         the memory log of -m, called by all threads
MaximalCliques         textbook definitions, the reference for all of them
SumTheorems            facts about sums over finite sets, used by the proofs
*_proofs               theorems about the module of that name; TaskMemory_proofs about
                       GraphGuard and MemChunk; UnrolledList_proofs also about SimpleHashSet,
                       CliqueProgram_proofs also about the modules CliqueProgram extends
```

**`BronKerbosch`** keeps the set `calls` of recursion calls that still have something to do. A call
is `[R, P, X, cand, pc]`. `Exit`, `CutOff` and `Open` are the three ways through `StartTask`;
`LoopIteration` creates the child call and moves the vertex from P to X. R is a set: the code reads
only its size and its last vertex. `hist` is the sum of the per-thread histograms. Since any call may
move next, every schedule of tasks and every choice between task and in-place call is covered.

**`BKTasks`** has the tasks. Tasks, subgraphs and pools are named by the clique of the call they
belong to, which is unique in a run. A task is its parent, `NewGraph`, its TBB reference count and a
stack of frames: frame 1 is the task's own call, the others are nested `SequentialRun` calls, so
`taskSpawnCnt == 0` and `taskLevel == 0` in `StartTask` both mean depth 1. One action is one
`StartTask`, one `LoopIteration`, one return, or one continuation; `RootSpawn`, `RootWait` and
`RootContinuation` are `RootIterBKTask`. `guards` are the existing `GraphGuard`s with adjacency,
pivot and count; operations on a missing guard do nothing, and `GuardAlive` says that none is tried.
`chunks` holds `allocations` of each pool. A pool is not locked: the step granularity is justified by
`ChunkPrivate`, which needs `SafeThresholds` (`--thresh >= --mem-thresh - 1`, true of the defaults 30
and 20; the program does not enforce it).

**`GraphGuard`** splits `inc_graph_ref_count` and `dec_graph_ref_count` into call, acquisition of
the spin mutex, load of `ref_count`, store of the new value, test, deletion and unlock, for calls that
create child calls and release the graph. `ref_count` is a plain `int`: without the mutex, a
store would overwrite that of another thread. It justifies that `BKTasks` takes each operation as a single step.

**`GraphInput`** reads a file one line at a time. A file is a sequence of comments and rows of
numbers, and may lack its last newline. `adjList` has the lists `addEdge` makes, with repeated
entries; `adj` is what `for_each` visits after `hashSet`, and `HashedSize` what `size()` returns. A hash table
cannot hold its own markers of free slots (`ReservedKeys`, -1 and `0xEEEEEEEE`): they are stored nowhere or passed over,
and -1 is counted each time. (A table that is rebuilt forgets these counts; that takes more than 16
neighbours, and is left out.) The two numbers of a row are uninitialized variables
in the code, so a row that is too short adds an edge of arbitrary (`Garbage`) vertices.

`DescribedAdj` is the graph that a file describes by the format in `src/README.md`: an edge in each row, with or without
a newline after the last one, and optionally a first row with the number of vertices. Where
the code departs from that, there is a named condition (`LastRowEnds`, `HeaderAgrees`, `Unreserved`) of the properties
that hold; section 6 says what happens without them, and `EnumeratesDescribed` is the promise itself, which a run violates. `WellFormed` asks for complete rows;
the code takes a third number of -1 in the first row for none.

**`DegeneracyOrdering`** continues on the graph that was read: it takes one iteration of the loop over
`curnode` as one action, with any member of the first non-empty bucket as the next vertex. An
iteration that finds all buckets empty would be a deadlock of the model; there is none, also with reserved
vertices, which no neighbour lowers.

**`CliqueProgram`** composes the two as `main` does, and adds threads that report cliques into their
own histograms and `writeCliqueHist`. Its enumeration is the one `BronKerbosch` is proved to
implement (each maximal clique once, in any order). Ints have `IntRange` values, so that a row of the
histogram overflows on small graphs. A graph with a reserved vertex is not symmetric, and `contains` answers
for -1 otherwise than `for_each` visits: there, the program is followed to the end of the ordering only.

**`SimpleHashTable`** is `SimpleHashSet::hashSet` and the hopscotch table below it. `stack` holds the
calls of `hopscotchInsert` in progress, each with the rest of the old array (`todo`, the keys not yet
inserted by their slots) if it is rebuilding; one action is the search for a free slot, one displacement, one insertion or one step of a rebuild.
Hash functions are the multiplicative ones of the code, computed in `WORD` bits, with any parameters.
`TableAssumption` says that a lane of the vectorised build is a bucket (`VECTOR_SIZE` and `HS_BUCKET_SIZE`
are both 16) and that the shifts of `reserve` stay below the word (`MaxBits < WORD`, 31 and 32 in the code).
The lookups are operators: the set of slots they load (`Probed`), and the results they can have;
a slot behind the array has no defined value, so a lookup that loads it may answer either way.

**`SimpleHashSet`** has the operations on a list and a hashed set, in the vectorised form that looks
up whole buckets under a mask, and in the scalar form. A result is the set of list slots whose keys
are pushed into the new set; their order is left out, as nothing depends on it.

**`MemUsageLogger`** splits `addTmpMem` and `delTmpMem` at each access to a variable that other
threads access: the test of the flag, each counter, the mutex, test and setting of the flag, and
the reading of one thread's counter by `combine_each`. Whether a call samples is left open, as it is
random. Counters are read and written whole, as aligned `long`s are.

**`UnrolledList`** numbers the slots of all buckets from 0. Slots behind the end keep old values, and
`find_element` is modelled for both builds (`USE_AVX512` on and off). The client discipline is
that of the enumeration: elements are pushed once, only present elements are removed, and a list is
not changed while it is iterated with `get_next`. `members` and `visited` are history variables.

**`MemChunk`** tracks the region of every request of a live set.

Definitions with a comment "Mutant of X" are faulty variants of X. They are not used by
any specification; replacing X by its variant must violate the property `PROJECT.json` names.

## 3. Runs

| Run | Instance | Shows |
|---|---|---|
| `recursion` | all 64 graphs on 4 vertices, 3 orders, limits none, 0, 2, 3 | exactly-once enumeration, completeness, termination, refinement of `CliqueEnumeration` |
| `tasks_small` | all graphs on 3 vertices, `-s` 0 to 3, thresholds that make all, some or no calls tasks, pools on and off, `--max-clq` none, 1, 2 | refinement of `BronKerbosch`, termination, no use of a deleted graph, nothing left at the end |
| `tasks_graphs` | dense graphs on 4 vertices, `-s` 0 to 3, pools at the smallest safe thresholds | guard, TBB and pool counts, pools private, no use of a deleted graph, a pivot is always found, refinement of `BronKerbosch` |
| `guard` | 4 calls sharing a graph | no update lost under all interleavings of loads and stores, deletion in the end |
| `program` | all files of up to 3 lines of 12 kinds, with and without last newline, reserved keys in rows and in uninitialized numbers; listings of all graphs on 4 vertices, also with repeated rows; 2 threads; `--ord` 0 and 1 | the graph of the file and buckets exact under the conditions above, the degeneracy is found, the printed numbers, an output in the end |
| `list` | 5 elements, buckets of 3 slots, both builds | contents, iteration, set operations with every second operand |
| `table` | lists of up to 4 keys, buckets and vectors of 2 slots, words of 6 bits, both builds, every hash function | nothing lost in nested rebuilds, table sound at every step, lookups exact, where a lookup leaves the array |
| `logger` | 2 threads, 2 calls each, 2 types | samplers exclude each other, how far a sample can be off, no call waits for ever |
| `chunk` | 3 sets, lines of 2 bytes, blocks of 7, requests of 1, 3 and 8 bytes | regions |
| `tasks_s1_max1`, `guard_unlock`, `program_documented` | | the findings of section 6 |

Bounds. Four vertices are the fewest for which a call has two siblings and a child below it, so that
a task can outlive the one that shares its subgraph, a pivot can lie in X, and both degree orders
break ties; all labelled graphs are tried, so no order of vertices needs to be varied. The task runs
use 3 vertices for liveness and refinement over all graphs, and 4 with many edges where the depth
matters: a vertex of X that an inner call must still see in a subgraph needs the fourth. `MCTight`
keeps `tasks_graphs` to pools at the smallest safe threshold, where a pooled set is closest to being
handed to another task. `MaxBlocks` bounds the blocks of a pool: a pool whose count never reaches 0 grows without
limit, in the code as well. `MCMinEdges` leaves out sparse graphs, whose task trees are contained in
those of the dense ones and of `tasks_small`.

In `table`, four keys with buckets of two slots give displacements in a row, one that fails half way
and leaves a key twice, rebuilds nested in rebuilds, a second attempt, and the final exit
(`Attempts` 1 and 2 for 10 in the code); `MaxBits` ends the growth of a table, and `WORD` = 6 bits
leave every hash function of a small table possible. `logger` needs two threads, one of which samples
while the other passes the flag; a second call of each makes the waiting happen. `MaxCalls` bounds
the calls. In `program`, `IntRange` = 4 makes two cliques of one size an overflow. Three lines are a first row, one
that repeats or reverses it, and one that joins a third vertex, with a header or a comment before or
between them; an edge of each reserved key may take the place of any of these. `guard` needs a call that increments while
two others decrement; a fourth user adds a child of a child. `GuardRefs` and `ChunkCounts` are checked
without a limit; the case of `-s` 1 to 3 with `--max-clq` is covered by their theorems. No symmetry is used:
vertex names are compared by the tie break.

Fairness. `BronKerbosch` and `BKTasks` assume `WF(Next)`: TBB keeps at least one worker running as
long as some task can run, and each step of a task ends. Which task runs is left open, so termination
does not depend on TBB being fair between tasks. `GraphGuard` assumes weak fairness for each calling
thread; the spin mutex need not be fair, as each call takes it a bounded number of times.
`MemUsageLogger` assumes weak fairness for each thread: a thread that spins on the flag or the
mutex may be overtaken by every call of the others, but these are finitely many. `CliqueProgram`
assumes `WF(Next)`, the progress of the main thread and of the enumeration.

The type invariants that no run lists (`TypeOK` of `BKTasks`, `GraphGuard`, `UnrolledList`,
`SimpleHashTable`, `MemUsageLogger`, and `ChunkTypes` of `MemChunk`) hold on the same instances, and are
also proved, as parts of the inductive invariants or from them.

Deadlock is checked in every run; the end of the program is an explicit stuttering step. In `list`
and `chunk` some operation is always possible.

## 4. Proofs

Every theorem holds for all values of the constants that satisfy the named assumptions of its model,
and is checked by TLAPS down to the last leaf. The inductive invariants were checked with TLC
on the instances of section 3 too.

**`BronKerbosch_proofs`**, for every finite set of integer vertices, every simple graph, every
order and every limit (`VAssumption`, `GraphsAssumption`, `OptionsAssumption`):
`TypeCorrect`, `ReportsCorrect`, `CallsNeverOverlap`, `EnumerationComplete`, `Refinement`.
The inductive invariant `IInv` has these parts. `CallsOK`: R is a clique, and P and X are exactly
the vertices that extend it. `CallsApart` and `ReportedApart`: no clique is within reach of two
calls, or of a call and already reported. `NoneLost`: a wanted clique is reported or pending in a
call that still has a candidate in it. `ReportsSound` and `ReportedOnce` follow step by step from
these. Neither exactly-once nor completeness is inductive alone: the first needs `CallsApart`, which
needs the split into P and X; the second needs that a pivot leaves a candidate in each pending
clique (`PivotMissesNothing`: otherwise the pivot would extend the clique). That the root calls
cover each clique needs a first vertex of each set in the chosen order (`EarliestVertex`), hence
that `Later` is a strict total order on neighbours (`LaterIsOrder`).

**`BKTasks_proofs`**, for every finite graph and order (`TaskVAssumption`, `TaskGraphsAssumption`), every
command line (`TaskOptionsAssumption`) with safe pool thresholds (`SafeThresholds`) that is not one of
the findings of section 6 (`~Faulty(opt)`), and every schedule: `TaskTypes`, `TaskCountsExact`,
`GraphsOutliveCalls`, `GraphCountsExact`, `AssertionHolds`, `PoolCountsExact`, `PoolsOfOneTask`,
`PoolsDeletedEmpty` (an action property), `EverythingGivenBack`, `TasksImplementRecursion`, and
`ParallelResultsRight`, which composes the last with `EnumerationComplete`: when the root task is done,
exactly the wanted cliques have been reported and counted. The hypothesis `~Faulty(opt)` is
needed: the run `tasks_s1_max1` violates `GuardAlive` without it, and with `-s 4` and `KnownFaults` TLC finds `PivotFound` violated.

The invariant speaks of frames, wherever they are: `View` maps sites (a task and a position in its
stack) to frames, and root tasks not yet spawned have a site too, so that spawning leaves the view
alone. Its parts: `FramesApart`, no two frames lie within the span (R and P) of each other, which is
why the name of a new task or subgraph is new, and with `NamesApart` also that of a subgraph which
`--max-clq` has left behind; `FramesSee`, a live frame's subgraph exists and agrees with the input
graph on the edges the frame will look at, from which the pivot and every intersection are right;
`GraphUse` and `FlagsOK`, which graph a frame uses under each `-s`, and what `NewGraph` says of it;
`GuardsExact`, the count of a subgraph is the number of frames that will release it (at least that number
under `--max-clq`); `PoolsExact` and `PoolsPrivate` for the pools; `TasksSound` and `RefsExact` for
stacks, parents and TBB counts. Each action is first described by what it does to the view (a
frame is opened, narrowed, left, or handed a child), so that the frame conditions are proved once for
each such change and not for each action. The refinement maps live frames to calls; that no two
frames are mapped to one call follows from `FramesApart`.

**`CliqueProgram_proofs`**, for every file (`FilesAssumption`: lines of integers), every finite set of threads
and every even range of an int (`ProgramAssumption`): `InputGraphSane`, `InputAsDescribed`,
`DegreeBucketsExact`, `DegeneracyCorrect`, `OutputIsCorrect`. They have the hypotheses that the properties
name: no vertex is a reserved key, and where the file's own graph is meant, its last row ends, and its header
counts the vertices that have a row; section 6 says why each is needed. `InputInv` relates the lists to the rows read
so far, and `HashedLists` says that a table holds its list if no vertex is reserved; `OrderInv` says that buckets and `nodeDegrees` are those of the vertices left, and that
each placed vertex had the smallest degree among them and at most `degen`. That `degen` is the degeneracy
takes an argument over all subgraphs: the first vertex of a subgraph that is placed has at most `degen`
neighbours in it, and the vertex that raised `degen` last has the smallest degree in what was left.
`ReportInv` says that the threads' counts of a size add up to the reported cliques of that size.

**`UnrolledList_proofs`**, for every bucket size, set of keys and sequence of calls, in both builds
(`ListAssumption`): `ListContents`, `ListIteration`, `SetOperations`. `IInv` says that the used slots hold the
members, each once, whatever the slots behind them hold; positions are related to pairs of bucket and slot
once (`PosSplit`, `PosOrder`, `UsedPositions`). That the masks admit exactly the used slots is `LanesUsed`.

**`MemUsageLogger_proofs`**, for any number of threads, types and sizes (`LoggerAssumption`): `SamplersExclusive` and
`SamplesClose`. A sample reads one counter at a time, so its bound needs what each thread has done since
the flag was set: `SkewInv` says that there are functions for the totals read (R), the sums of types read
(Q) and the one call each thread may have made (M), from which the two sums differ thread by thread
by at most one call, and not at all for the sampling thread.

**`SimpleHashTable_proofs`**, for every set of lists of keys, every bucket size, every number of attempts and
every word length (`TableAssumption`), in both builds and for all hash functions that the rebuilds may draw:
`TableInvariance`, `NoKeyLost`, `AlwaysSound`, `LookupsRight`, `OverrunConfined`, `TypeCorrect`. Growth ends at
`2^MaxBits` slots; with `MaxBits = WORD - 1` that is the width of the code's shift and no further restriction.
The proof has three layers. About slots as values: distances and steps around a table of `c` slots are inverse
to each other (`RoundTrip`), powers of two are numbers of subsets (`SubsetsOf`, `Doubled`, `PowerFacts`: the
provers know nothing of `^`), so hash values are slots (`HashBelow`) and a rebuilt table doubles. About one
insertion: `HoleFor` says of the hole that it is empty or holds a key that is also elsewhere, and that the search
from the hash value of the new key to it passes no empty slot; from this `MoveKeeps` and `PlaceKeeps` show that
a displacement and the final write leave every key reachable. `TableSound` alone is not inductive, because it
does not say why a hole may be overwritten. `FindsPlace` needs an empty slot, which exists because all keys,
those still in the list included, fill at most half of the table (`Sized`, `EmptySlot`). About the stack:
only the running call is not rebuilding (`Calls`), and what the calls owe (`Owed`) with what the table holds
are all keys (`Stored`); a rebuild moves all keys of the table to what its call owes (`ForEach`). For lookups,
`Reached` shows that a key lies in the first load, or that the search for it passes all slots up to the end, so
that the first load finds no empty slot and the second begins at 0.

**`TaskMemory_proofs`** is about what tasks share and own, `GraphGuard` and `MemChunk`. For any finite set of users
of a guard: `CountExact`, `NeverUsedAfterDelete`. The count is not exact by itself, as a value is stored a step after the
one it replaces was loaded: `IInv` adds mutual exclusion (`Mutex`), from which the loaded value is still the current
one (`LoadedCurrent`), that each child is reserved by one
user, and that without counted users the guard is deleted or about to be. For every line size, block size and
set of requests to a pool: `ChunkSafe`, `RequestsApart`, `NothingKept`. `ChunkInv` adds that the counter counts the
live sets, that everything in the last block lies before `free_index`, and that no block is smaller
than `dynamic_block_size`.

**`SumTheorems`** has what these proofs need about sums: the folds of the community modules are defined by
recursion over subsets, so that first such a function is shown to exist (`SumExists`) and to be
unique; then the order of summation does not matter (`SumAny`), and a sum changes with one of its terms
(`SumChange`). The prover cannot instantiate the induction theorems of the library; in their place the proofs
take a smallest counterexample (`SmallestSet`, from the well-foundedness of `<` on the naturals).

Only model-checked: liveness (`Termination`, `TasksTerminate`, `EventuallyDeleted`, `OutputPrinted`, `CallsReturn`), which is out of the
prover's reach. All other properties of the passing runs are stated by theorems.

## 5. Not modelled, and why

- `SimpleHashTable::insert` without hopscotch hashing: the build defines `USE_HOPSCOTCH`. Lookups of
  a set that is not hashed answer false in both builds; the enumeration makes none.
- `SimpleHashSet::include` and `clone`: no code calls them (the copy would leave `isHashed`
  uninitialized). `intersect` on a hashed first operand, where the two builds differ: never called so.
- What the set classes report to `MemUsageLogger`: the logger is modelled for any sizes, and does not
  influence the enumeration. (`hopscotchReconstruct` reports the size of the new array for the old.)
- `MemUsageLogger::printData`: it prints counters when all threads are done.
- The text of numbers and lines in a file, the search for options in `argv`, paths: I/O.
- `MainBKTask::returnClique`, `GraphGuard` and `Graph` in a `MemChunk`: no code uses them.
- `UnrolledList::isSorted`: never read. `remove` does not maintain it.
- Pools under thresholds that are not safe: two threads would race on unlocked counters. `BKTasks`
  excludes them by an assumption.
- Failure of memory allocation, overflow of `taskSpawnCnt`: see the hazards.
- The enumeration of a graph with a reserved vertex (section 6): `CliqueProgram` stops before it, and
  `SimpleHashTable` assumes that `EMPTY_KEY` is no key.
- The TBB scheduler: external, any runnable task may run.

## 6. Findings

1. `tasks_s1_max1`: with `-s 1 --max-clq 1` a root call is cut off before it makes its subgraph;
   its continuation then releases the guard of the input graph, which is deleted under the other
   tasks. The other runs leave out these options, and the theorems
   about `BKTasks` exclude them (`Faulty` in `BKTasks`).
2. `guard_unlock`: `delete this` inside the scope of a lock on a member mutex; the unlock writes
   freed memory.
3. `program_documented`: a file of the format of `src/README.md:64-65` that is not enumerated as it is described. The file
   is the header `3 3 2` and the rows `1 1` and `2 2`, without a newline at its end; three things go wrong, each on its own.
   - `initFromFile` tests `eof()` right after `getline` (`Graph.cpp:126`) and drops the last row.
   - `nodeNo = -1` (`Graph.cpp:141`) is an assignment, so the number of vertices in the first row is never used, and a
     vertex without a row is in no output.
   - A file with loops only ends in the assertion of `degeneracyOrdering` (`Graph.cpp:87`), as `maxdeg` is still -1.
     `OutputPrinted` says that every graph without vertices or with a proper edge does come to an output.

Three more departures are not shown by a run, but are the reason for a hypothesis of the properties:

- `subgraphBased == 0;` in `main.cpp:83` compares instead of assigning. An `-s` outside 0..3 leads to the failing
  `assert(pivot != -1)` in `StartTask` (`Faulty`; the model reaches it with `KnownFaults`). (3, also meant to be
  excluded, is a working mode: one subgraph per call.)
- The vertices -1 and -286331154 are the marks of free slots in the hash tables (`utils.h:33`);
  their edges are kept on one side only, and nothing rejects them (`Unreserved`).
- A row of the printed histogram is an `int` (`Graph.cpp:164`), wrong from 2^31 cliques of one size on;
  the total and the histograms of the threads are `long`s (`OutputCorrect` claims the rows below that only).

With `--max-clq`, calls that are cut off release neither their sets nor their graph. That is a leak,
not an error: `tasks_small` shows that the tasks still use no deleted graph and implement the recursion.

Behaviour that a property describes as it is, and that a reader may not expect: a lookup can read one slot behind the array of a table (`pos > capacity` in
`SimpleHashTable.h:128`). `OverrunOnlyAtEnd` says when: for a key that is not in the table, hashed
to `capacity - VECTOR_SIZE`, with no free slot from there to the end. It answers wrongly only
if the foreign four bytes equal the key.

## 7. Plan

Done: the modules and proofs above. Left: `MemChunk` shared by two threads, as it happens with unsafe
thresholds.
