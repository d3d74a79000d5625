------------------------- MODULE TaskMemory_proofs --------------------------
(***************************************************************************)
(* The memory that calls share and the memory that their sets are cut      *)
(* from.  The counting of GraphGuard is right for any number of calls that *)
(* share a graph and every interleaving of their increments and            *)
(* decrements.  For every line and block size and every request, memory    *)
(* that MemChunk hands out to live sets is inside a block, and never       *)
(* shared.                                                                 *)
(***************************************************************************)
EXTENDS GraphGuard, MemChunk, FiniteSetTheorems, TLAPS

(***************************************************************************)
(* The inductive invariant.  RefCountExact needs the value that a user has *)
(* loaded to be the count still when it stores, which needs the mutex to   *)
(* be held in the critical sections, and the child of an incrementing user *)
(* to be nobody else's; that a deleted guard is not used needs             *)
(* RefCountExact.                                                          *)
(***************************************************************************)
Mutex == \A u \in Users : Critical(u) <=> lock = u

LoadedCurrent == \A u \in Users : pc[u] \in {"inc_store", "dec_store"} => loaded[u] = ref_count

Incrementing == {"inc_lock", "inc_load", "inc_store"}

ChildReserved ==
  /\ \A u \in Users : pc[u] \in Incrementing => pc[child[u]] = "reserved"
  /\ \A u \in Users : pc[u] = "inc_unlock" => pc[child[u]] = "counted"
  /\ \A u, w \in Users :
       /\ pc[u] \in Incrementing \union {"inc_unlock"}
       /\ pc[w] \in Incrementing \union {"inc_unlock"}
       /\ child[u] = child[w]
       => u = w

\* Without users the guard is deleted, or one user is about to delete it.
NoneCounted ==
  /\ ~alive => Counted = {}
  /\ \A u \in Users : pc[u] = "dec_delete" => Counted = {}
  /\ \A u \in Users : pc[u] \in {"dec_test", "dec_delete", "dec_unlock"} => alive
  /\ Counted = {} => ~alive \/ \E u \in Users : pc[u] \in {"dec_test", "dec_delete"}

IInv ==
  /\ TypeOK
  /\ Mutex
  /\ LoadedCurrent
  /\ ChildReserved
  /\ RefCountExact
  /\ NoneCounted

\* The counted users are finitely many, so the count is a number.
LEMMA CountedFinite ==
  /\ IsFiniteSet(Counted) /\ Cardinality(Counted) \in Nat
  /\ Cardinality(Counted) = 0 <=> Counted = {}
  <1>1. Counted \in SUBSET Users
    BY DEF Counted
  <1>2. IsFiniteSet(Counted)
    BY <1>1, UsersAssumption, FS_Subset
  <1> QED BY <1>2, FS_CardinalityType, FS_EmptySet

\* A new guard, with its creator as the only user, satisfies the invariant.
LEMMA InitIInv == Init => IInv
  <1> SUFFICES ASSUME Init PROVE IInv
    OBVIOUS
  <1> USE UsersAssumption DEF Init
  <1>1. TypeOK
    BY DEF TypeOK, Pcs
  <1>2. Mutex /\ LoadedCurrent /\ ChildReserved
    BY DEF Mutex, Critical, LoadedCurrent, ChildReserved, Incrementing
  <1>3. Counted = {Creator}
    BY DEF Counted
  <1>4. RefCountExact
    BY <1>3, FS_Singleton DEF RefCountExact
  <1>5. NoneCounted
    BY <1>3 DEF NoneCounted
  <1> QED BY <1>1, <1>2, <1>4, <1>5 DEF IInv

\* A step that leaves count, guard and the counted users alone.
LEMMA SameCount ==
  ASSUME IInv, ref_count' = ref_count, alive' = alive, Counted' = Counted,
         \A u \in Users : /\ pc'[u] = "dec_test" <=> pc[u] = "dec_test"
                          /\ pc'[u] = "dec_delete" <=> pc[u] = "dec_delete"
                          /\ pc'[u] = "dec_unlock" => pc[u] = "dec_unlock"
  PROVE  RefCountExact' /\ NoneCounted'
  <1>1. RefCountExact'
    BY DEF IInv, RefCountExact
  <1>2. NoneCounted'
    BY DEF IInv, NoneCounted
  <1> QED BY <1>1, <1>2

\* Every step of every user keeps the invariant.
LEMMA NextIInv == IInv /\ [Next]_vars => IInv'
  <1> SUFFICES ASSUME IInv, [Next]_vars PROVE IInv'
    OBVIOUS
  <1>0. TypeOK /\ Mutex /\ LoadedCurrent /\ ChildReserved /\ RefCountExact /\ NoneCounted
    BY DEF IInv
  <1>1. ASSUME NEW u \in Users, NEW c \in Users, IncCall(u, c)
        PROVE  IInv'
    <2>1. TypeOK'
      BY <1>0, <1>1 DEF TypeOK, IncCall, Pcs
    <2>2. Mutex'
      BY <1>0, <1>1, UsersAssumption DEF TypeOK, IncCall, Mutex, Critical
    <2>3. LoadedCurrent'
      BY <1>0, <1>1 DEF TypeOK, IncCall, LoadedCurrent
    <2>4. ChildReserved'
      BY <1>0, <1>1 DEF TypeOK, IncCall, ChildReserved, Incrementing
    <2>5. Counted' = Counted
      BY <1>0, <1>1 DEF TypeOK, IncCall, Counted
    <2>6. RefCountExact' /\ NoneCounted'
      BY <1>0, <1>1, <2>5, SameCount DEF TypeOK, IncCall
    <2> QED BY <2>1, <2>2, <2>3, <2>4, <2>6 DEF IInv
  <1>2. ASSUME NEW u \in Users, DecCall(u)
        PROVE  IInv'
    <2>1. TypeOK'
      BY <1>0, <1>2 DEF TypeOK, DecCall, Pcs
    <2>2. Mutex'
      BY <1>0, <1>2, UsersAssumption DEF TypeOK, DecCall, Mutex, Critical
    <2>3. LoadedCurrent'
      BY <1>0, <1>2 DEF TypeOK, DecCall, LoadedCurrent
    <2>4. ChildReserved'
      BY <1>0, <1>2 DEF TypeOK, DecCall, ChildReserved, Incrementing
    <2>5. Counted' = Counted
      BY <1>0, <1>2 DEF TypeOK, DecCall, Counted
    <2>6. RefCountExact' /\ NoneCounted'
      BY <1>0, <1>2, <2>5, SameCount DEF TypeOK, DecCall
    <2> QED BY <2>1, <2>2, <2>3, <2>4, <2>6 DEF IInv
  <1>3. ASSUME NEW u \in Users, Acquire(u)
        PROVE  IInv'
    <2>1. TypeOK'
      BY <1>0, <1>3 DEF TypeOK, Acquire, Pcs
    <2>2. Mutex'
      BY <1>0, <1>3, UsersAssumption DEF TypeOK, Acquire, Mutex, Critical
    <2>3. LoadedCurrent'
      BY <1>0, <1>3 DEF TypeOK, Acquire, LoadedCurrent
    <2>4. ChildReserved'
      BY <1>0, <1>3 DEF TypeOK, Acquire, ChildReserved, Incrementing
    <2>5. Counted' = Counted
      BY <1>0, <1>3 DEF TypeOK, Acquire, Counted
    <2>6. RefCountExact' /\ NoneCounted'
      BY <1>0, <1>3, <2>5, SameCount DEF TypeOK, Acquire
    <2> QED BY <2>1, <2>2, <2>3, <2>4, <2>6 DEF IInv
  <1>4. ASSUME NEW u \in Users, Load(u)
        PROVE  IInv'
    <2>1. TypeOK'
      BY <1>0, <1>4 DEF TypeOK, Load, Pcs
    <2>2. Mutex'
      BY <1>0, <1>4, UsersAssumption DEF TypeOK, Load, Mutex, Critical
    <2>3. LoadedCurrent'
      BY <1>0, <1>4 DEF TypeOK, Load, LoadedCurrent
    <2>4. ChildReserved'
      BY <1>0, <1>4 DEF TypeOK, Load, ChildReserved, Incrementing
    <2>5. Counted' = Counted
      BY <1>0, <1>4 DEF TypeOK, Load, Counted
    <2>6. RefCountExact' /\ NoneCounted'
      BY <1>0, <1>4, <2>5, SameCount DEF TypeOK, Load
    <2> QED BY <2>1, <2>2, <2>3, <2>4, <2>6 DEF IInv
  <1>5. ASSUME NEW u \in Users, IncStore(u)
        PROVE  IInv'
    <2>0. /\ pc[u] = "inc_store" /\ child[u] \in Users
          /\ pc[child[u]] = "reserved" /\ child[u] # u /\ loaded[u] = ref_count
      BY <1>0, <1>5 DEF TypeOK, IncStore, ChildReserved, Incrementing, LoadedCurrent
    <2>1. TypeOK'
      BY <1>0, <1>5 DEF TypeOK, IncStore, Pcs
    <2>2. Mutex'
      BY <1>0, <1>5, <2>0 DEF TypeOK, IncStore, Mutex, Critical
    <2>3. LoadedCurrent'
      <3>1. \A w \in Users : w # u => pc[w] \notin {"inc_store", "dec_store"}
        BY <1>0, <2>0 DEF Mutex, Critical
      <3> QED BY <1>0, <1>5, <2>0, <3>1 DEF TypeOK, IncStore, LoadedCurrent
    <2>4. ChildReserved'
      BY <1>0, <1>5, <2>0 DEF TypeOK, IncStore, ChildReserved, Incrementing
    <2>5. Counted' = Counted \union {child[u]} /\ child[u] \notin Counted
      BY <1>0, <1>5, <2>0 DEF TypeOK, IncStore, Counted
    <2>6. RefCountExact'
      <3>1. Cardinality(Counted \union {child[u]}) = Cardinality(Counted) + 1
        BY <2>5, CountedFinite, FS_AddElement
      <3> QED BY <1>0, <1>5, <2>0, <2>5, <3>1 DEF IncStore, RefCountExact
    <2>7. NoneCounted'
      <3>1. u \in Counted
        BY <2>0 DEF Counted
      <3> QED BY <1>0, <1>5, <2>0, <2>5, <3>1 DEF TypeOK, IncStore, NoneCounted
    <2> QED BY <2>1, <2>2, <2>3, <2>4, <2>6, <2>7 DEF IInv
  <1>6. ASSUME NEW u \in Users, IncUnlock(u)
        PROVE  IInv'
    <2>0. /\ pc[u] = "inc_unlock" /\ child[u] \in Users
          /\ pc[child[u]] = "counted" /\ child[u] # u
      BY <1>0, <1>6 DEF TypeOK, IncUnlock, ChildReserved
    <2>1. TypeOK'
      BY <1>0, <1>6, <2>0 DEF TypeOK, IncUnlock, Pcs
    <2>2. Mutex'
      BY <1>0, <1>6, <2>0, UsersAssumption DEF TypeOK, IncUnlock, Mutex, Critical
    <2>3. LoadedCurrent'
      BY <1>0, <1>6, <2>0 DEF TypeOK, IncUnlock, LoadedCurrent
    <2>4. ChildReserved'
      BY <1>0, <1>6, <2>0 DEF TypeOK, IncUnlock, ChildReserved, Incrementing
    <2>5. Counted' = Counted
      BY <1>0, <1>6, <2>0 DEF TypeOK, IncUnlock, Counted
    <2>6. RefCountExact' /\ NoneCounted'
      BY <1>0, <1>6, <2>0, <2>5, SameCount DEF TypeOK, IncUnlock
    <2> QED BY <2>1, <2>2, <2>3, <2>4, <2>6 DEF IInv
  <1>7. ASSUME NEW u \in Users, DecStore(u)
        PROVE  IInv'
    <2>0. pc[u] = "dec_store" /\ loaded[u] = ref_count
      BY <1>0, <1>7 DEF DecStore, LoadedCurrent
    <2>1. Mutex'
      BY <1>0, <1>7 DEF TypeOK, DecStore, Mutex, Critical
    <2>2. LoadedCurrent'
      <3>1. \A w \in Users : w # u => pc[w] \notin {"inc_store", "dec_store"}
        BY <1>0, <2>0 DEF Mutex, Critical
      <3> QED BY <1>0, <1>7, <3>1 DEF TypeOK, DecStore, LoadedCurrent
    <2>3. ChildReserved'
      BY <1>0, <1>7 DEF TypeOK, DecStore, ChildReserved, Incrementing
    <2>4. Counted' = Counted \ {u} /\ u \in Counted
      BY <1>0, <1>7 DEF TypeOK, DecStore, Counted
    <2>5. Cardinality(Counted \ {u}) = Cardinality(Counted) - 1
      BY <2>4, CountedFinite, FS_RemoveElement
    <2>6. RefCountExact'
      BY <1>0, <1>7, <2>0, <2>4, <2>5 DEF DecStore, RefCountExact
    <2>7. ref_count' \in Nat
      <3>1. IsFiniteSet(Counted')
        BY <2>4, CountedFinite, FS_RemoveElement
      <3> QED BY <2>6, <3>1, FS_CardinalityType DEF RefCountExact
    <2>8. TypeOK'
      BY <1>0, <1>7, <2>7 DEF TypeOK, DecStore, Pcs
    <2>9. NoneCounted'
      <3>1. alive /\ alive' /\ \A w \in Users : pc[w] # "dec_delete"
        BY <1>0, <1>7, <2>4 DEF DecStore, NoneCounted
      <3>2. pc'[u] = "dec_test" /\ \A w \in Users : w # u => pc'[w] = pc[w]
        BY <1>0, <1>7 DEF TypeOK, DecStore
      <3> QED BY <3>1, <3>2 DEF NoneCounted
    <2> QED BY <2>1, <2>2, <2>3, <2>6, <2>8, <2>9 DEF IInv
  <1>8. ASSUME NEW u \in Users, DecTest(u)
        PROVE  IInv'
    <2>1. TypeOK'
      BY <1>0, <1>8 DEF TypeOK, DecTest, Pcs
    <2>2. Mutex'
      BY <1>0, <1>8 DEF TypeOK, DecTest, Mutex, Critical
    <2>3. LoadedCurrent' /\ ChildReserved'
      BY <1>0, <1>8 DEF TypeOK, DecTest, LoadedCurrent, ChildReserved, Incrementing
    <2>4. Counted' = Counted
      BY <1>0, <1>8 DEF TypeOK, DecTest, Counted
    <2>5. RefCountExact'
      BY <1>0, <1>8, <2>4 DEF DecTest, RefCountExact
    <2>6. ref_count <= 0 <=> Counted = {}
      BY <1>0, CountedFinite DEF TypeOK, RefCountExact
    <2>7. NoneCounted'
      <3>1. alive /\ alive'
        BY <1>0, <1>8 DEF DecTest, NoneCounted
      <3>2. /\ pc'[u] = IF Counted = {} THEN "dec_delete" ELSE "dec_unlock"
            /\ \A w \in Users : w # u => pc'[w] = pc[w]
        BY <1>0, <1>8, <2>6 DEF TypeOK, DecTest
      <3>3. \A w \in Users : w # u => pc[w] # "dec_delete"
        BY <1>0, <1>8 DEF DecTest, Mutex, Critical
      <3> QED BY <2>4, <3>1, <3>2, <3>3 DEF NoneCounted
    <2> QED BY <2>1, <2>2, <2>3, <2>5, <2>7 DEF IInv
  <1>9. ASSUME NEW u \in Users, Delete(u)
        PROVE  IInv'
    <2>1. TypeOK'
      BY <1>0, <1>9 DEF TypeOK, Delete, Pcs
    <2>2. Mutex'
      BY <1>0, <1>9 DEF TypeOK, Delete, Mutex, Critical
    <2>3. LoadedCurrent' /\ ChildReserved'
      BY <1>0, <1>9 DEF TypeOK, Delete, LoadedCurrent, ChildReserved, Incrementing
    <2>4. Counted' = Counted /\ Counted = {}
      BY <1>0, <1>9 DEF TypeOK, Delete, Counted, NoneCounted
    <2>5. RefCountExact'
      BY <1>0, <1>9, <2>4 DEF Delete, RefCountExact
    <2>6. \A w \in Users : pc'[w] \notin {"dec_test", "dec_delete", "dec_unlock"}
      <3>1. \A w \in Users : w # u => pc[w] \notin {"dec_test", "dec_delete", "dec_unlock"}
        BY <1>0, <1>9 DEF Delete, Mutex, Critical
      <3> QED BY <1>0, <1>9, <3>1 DEF TypeOK, Delete
    <2>7. NoneCounted'
      BY <1>9, <2>4, <2>6 DEF Delete, NoneCounted
    <2> QED BY <2>1, <2>2, <2>3, <2>5, <2>7 DEF IInv
  <1>10. ASSUME NEW u \in Users, DecUnlock(u)
        PROVE  IInv'
    <2>1. TypeOK'
      BY <1>0, <1>10 DEF TypeOK, DecUnlock, Pcs
    <2>2. Mutex'
      BY <1>0, <1>10, UsersAssumption DEF TypeOK, DecUnlock, Mutex, Critical
    <2>3. LoadedCurrent'
      BY <1>0, <1>10 DEF TypeOK, DecUnlock, LoadedCurrent
    <2>4. ChildReserved'
      BY <1>0, <1>10 DEF TypeOK, DecUnlock, ChildReserved, Incrementing
    <2>5. Counted' = Counted
      BY <1>0, <1>10 DEF TypeOK, DecUnlock, Counted
    <2>6. RefCountExact' /\ NoneCounted'
      BY <1>0, <1>10, <2>5, SameCount DEF TypeOK, DecUnlock
    <2> QED BY <2>1, <2>2, <2>3, <2>4, <2>6 DEF IInv
  <1>11. CASE UNCHANGED vars
    <2>1. Counted' = Counted
      BY <1>11 DEF vars, Counted
    <2>2. TypeOK' /\ Mutex' /\ LoadedCurrent' /\ ChildReserved'
      BY <1>0, <1>11 DEF vars, TypeOK, Mutex, Critical, LoadedCurrent, ChildReserved, Incrementing
    <2>3. RefCountExact' /\ NoneCounted'
      BY <1>11, <2>1, SameCount DEF vars
    <2> QED BY <2>2, <2>3 DEF IInv
  <1> QED BY <1>1, <1>2, <1>3, <1>4, <1>5, <1>6, <1>7, <1>8, <1>9, <1>10, <1>11
      DEF Next, UserStep, Terminated

\* The invariant holds in every reachable state.
THEOREM Invariance == Spec => []IInv
  BY InitIInv, NextIInv, PTL DEF Spec

(***************************************************************************)
(* The count of a subgraph is the number of calls that have it, for any    *)
(* number of calls that share it and any interleaving of the loads and     *)
(* stores of their updates: the spin mutex lets no update be lost.         *)
(***************************************************************************)
THEOREM CountExact == Spec => [](TypeOK /\ RefCountExact)
  <1>1. IInv => TypeOK /\ RefCountExact
    BY DEF IInv
  <1> QED BY <1>1, Invariance, PTL

(***************************************************************************)
(* No call uses or unlocks the guard after it was deleted, but for the one *)
(* that deleted it, and it is deleted with the last call that has it.      *)
(***************************************************************************)
THEOREM NeverUsedAfterDelete == Spec => [](NoUseAfterDelete /\ DeletedByLast)
  <1>1. IInv => NoUseAfterDelete
    <2> SUFFICES ASSUME IInv, NEW u \in Users,
                        pc[u] \notin {"none", "reserved", "dec_last", "gone"}
                 PROVE  alive
      BY DEF NoUseAfterDelete
    <2>1. CASE u \in Counted
      BY <2>1 DEF IInv, NoneCounted
    <2>2. CASE u \notin Counted
      <3>1. pc[u] \in {"dec_test", "dec_delete", "dec_unlock"}
        BY <2>2 DEF IInv, TypeOK, Pcs, Counted
      <3> QED BY <3>1 DEF IInv, NoneCounted
    <2> QED BY <2>1, <2>2
  <1>2. IInv => DeletedByLast
    BY DEF IInv, NoneCounted, Counted, DeletedByLast
  <1> QED BY <1>1, <1>2, Invariance, PTL

-----------------------------------------------------------------------------
(***************************************************************************)
(* MemChunk.                                                               *)
(***************************************************************************)
L == L2_CACHE_LINE

-----------------------------------------------------------------------------
(* Rounding to whole lines.                                                *)

\* Division with remainder.
LEMMA DivMod ==
  ASSUME NEW n \in Nat, NEW d \in Nat \ {0}
  PROVE  /\ n \div d \in Nat /\ (n % d) \in 0..(d - 1)
         /\ n = (n \div d) * d + (n % d)
OBVIOUS

\* A multiple of d leaves no remainder.
LEMMA MultipleMod ==
  ASSUME NEW k \in Nat, NEW d \in Nat \ {0}
  PROVE  (k * d) % d = 0
OBVIOUS

\* The sum of two multiples of d is one.
LEMMA SumMod ==
  ASSUME NEW a \in Nat, NEW b \in Nat, NEW d \in Nat \ {0}, a % d = 0, b % d = 0
  PROVE  (a + b) % d = 0
<1>1. a = (a \div d) * d /\ b = (b \div d) * d /\ a \div d \in Nat /\ b \div d \in Nat
  BY DivMod
<1>2. \A x, y \in Nat : x * d + y * d = (x + y) * d
  OBVIOUS
<1>3. a + b = ((a \div d) + (b \div d)) * d
  BY <1>1, <1>2
<1> DEFINE k == (a \div d) + (b \div d)
<1>4. k \in Nat
  BY <1>1
<1> HIDE DEF k
<1>5. (k * d) % d = 0
  BY <1>4, MultipleMod
<1> QED
  BY <1>3, <1>5 DEF k

\* index_increment is a whole number of lines, enough for the request.
LEMMA IncrementEnough ==
  ASSUME NEW size \in RequestSizes
  PROVE  /\ size \in Nat \ {0} /\ index_increment(size) \in Nat
         /\ index_increment(size) >= size
         /\ index_increment(size) % L = 0
<1>1. size \in Nat \ {0} /\ L \in Nat \ {0}
  BY ChunkAssumption DEF L
<1> DEFINE q == size \div L
           whole == q * L
<1>2. /\ q \in Nat /\ (size % L) \in 0..(L - 1) /\ size = whole + (size % L)
  BY <1>1, DivMod
<1>3. whole \in Nat /\ whole % L = 0
  BY <1>1, <1>2, MultipleMod
<1>4. index_increment(size) = IF size % L # 0 THEN whole + L ELSE whole
  BY <1>1, <1>3 DEF index_increment, L
<1>5. L % L = 0
  BY <1>1
<1>6. (whole + L) % L = 0
  BY <1>1, <1>3, <1>5, SumMod
<1> HIDE DEF whole
<1> QED
  BY <1>1, <1>2, <1>3, <1>4, <1>6

-----------------------------------------------------------------------------
(* The inductive invariant.                                                *)

\* The counter counts the live sets, and blocks exist only for live sets.
SetsCounted ==
  /\ IsFiniteSet(live) /\ allocations = Cardinality(live)
  /\ live = {} => blocks = << >>
  /\ blocks = << >> => free_index = 0

\* Everything handed out from the last block lies before free_index.
BeforeFree ==
  /\ free_index % L = 0
  /\ \A r \in regions : r.block = Len(blocks) => r.to <= free_index

\* A block that is not full by the test of NeedsBlock has room for the request.
BlocksLarge == \A b \in DOMAIN blocks : blocks[b] >= dynamic_block_size

ChunkInv == ChunkTypes /\ SetsCounted /\ InBounds /\ BeforeFree /\ BlocksLarge /\ Disjoint

\* A new chunk has no blocks, no sets and no regions.
LEMMA ChunkStarts == ChunkInit => ChunkInv
<1> SUFFICES ASSUME ChunkInit PROVE ChunkInv
  OBVIOUS
<1>1. ChunkTypes /\ InBounds /\ BeforeFree /\ BlocksLarge /\ Disjoint
  BY ChunkAssumption DEF ChunkInit, ChunkTypes, InBounds, BeforeFree, BlocksLarge, Disjoint, L
<1>2. SetsCounted
  BY FS_EmptySet DEF ChunkInit, SetsCounted
<1> QED
  BY <1>1, <1>2 DEF ChunkInv

\* Counting a set changes no memory.
LEMMA IncrementKeeps ==
  ASSUME ChunkInv, NEW s \in Sets, increment_allocations(s)
  PROVE  ChunkInv'
<1> USE DEF ChunkInv, increment_allocations
<1>1. ChunkTypes' /\ InBounds' /\ BeforeFree' /\ BlocksLarge' /\ Disjoint'
  BY DEF ChunkTypes, InBounds, BeforeFree, BlocksLarge, Disjoint
<1>2. IsFiniteSet(live') /\ Cardinality(live') = Cardinality(live) + 1
  BY FS_AddElement DEF SetsCounted
<1>3. SetsCounted'
  BY <1>2 DEF SetsCounted
<1> QED
  BY <1>1, <1>3

\* Uncounting the last set frees all blocks, when no region is left in them.
LEMMA DecrementKeeps ==
  ASSUME ChunkInv, NEW s \in Sets, decrement_allocations(s)
  PROVE  ChunkInv'
<1> USE DEF ChunkInv, decrement_allocations
<1>1. /\ IsFiniteSet(live') /\ Cardinality(live') = Cardinality(live) - 1
      /\ Cardinality(live) \in Nat /\ Cardinality(live') \in Nat
  BY FS_RemoveElement, FS_CardinalityType DEF SetsCounted
<1>2. allocations' = Cardinality(live') /\ allocations' \in Nat
  BY <1>1 DEF SetsCounted
<1>3. CASE allocations' = 0
  <2>1. live' = {}
    BY <1>1, <1>2, <1>3, FS_EmptySet
  <2>2. regions' = {}
    BY <2>1 DEF InBounds
  <2>3. blocks' = << >> /\ free_index' = 0
    BY <1>3 DEF delete_dynamic_blocks
  <2> QED
    BY <1>1, <1>2, <2>1, <2>2, <2>3, ChunkAssumption
    DEF ChunkTypes, SetsCounted, InBounds, BeforeFree, BlocksLarge, Disjoint, L
<1>4. CASE allocations' # 0
  <2>1. UNCHANGED <<blocks, free_index>>
    BY <1>4
  <2>2. live' # {}
    BY <1>2, <1>4, FS_EmptySet
  <2>3. ChunkTypes' /\ SetsCounted'
    BY <1>1, <1>2, <2>1, <2>2 DEF ChunkTypes, SetsCounted
  <2>4. InBounds'
    BY <2>1 DEF InBounds, ChunkTypes, Region
  <2>5. BeforeFree' /\ BlocksLarge' /\ Disjoint'
    BY <2>1 DEF BeforeFree, BlocksLarge, Disjoint
  <2> QED
    BY <2>3, <2>4, <2>5
<1> QED
  BY <1>3, <1>4

\* The new region ends within its block, and begins after all others in it.
LEMMA GetAddressKeeps ==
  ASSUME ChunkInv, NEW s \in Sets, NEW size \in RequestSizes, get_address(s, size)
  PROVE  ChunkInv'
<1> DEFINE inc == index_increment(size)
           start == IF NeedsBlock(inc) THEN 0 ELSE free_index
           new == [set |-> s, block |-> Len(blocks'), from |-> start, to |-> start + size]
<1>1. /\ size \in Nat \ {0} /\ inc \in Nat /\ inc >= size /\ inc % L = 0
      /\ L \in Nat \ {0} /\ dynamic_block_size \in Nat \ {0}
  BY IncrementEnough, ChunkAssumption DEF L
<1>2. /\ s \in live /\ free_index' = start + inc /\ regions' = regions \union {new}
      /\ blocks' = IF NeedsBlock(inc) THEN Append(blocks, alloc_size(inc)) ELSE blocks
      /\ UNCHANGED <<allocations, live>>
  BY DEF get_address
<1> HIDE DEF inc
<1>3. start \in Nat /\ start % L = 0
  BY <1>1 DEF ChunkInv, ChunkTypes, BeforeFree
<1>4. alloc_size(inc) \in Nat \ {0} /\ alloc_size(inc) >= inc
  BY <1>1 DEF alloc_size
<1>5. /\ blocks' \in Seq(Nat \ {0}) /\ Len(blocks') \in DOMAIN blocks'
      /\ \A b \in DOMAIN blocks : b \in DOMAIN blocks' /\ blocks'[b] = blocks[b]
      /\ start + inc <= blocks'[Len(blocks')] /\ BlocksLarge'
  <2>1. CASE NeedsBlock(inc)
    BY <1>1, <1>2, <1>4, <2>1 DEF ChunkInv, ChunkTypes, BlocksLarge, alloc_size
  <2>2. CASE ~NeedsBlock(inc)
    <3>1. /\ blocks' = blocks /\ blocks # << >> /\ start = free_index
          /\ free_index + inc < dynamic_block_size
      BY <1>1, <1>2, <2>2 DEF NeedsBlock, ChunkInv, ChunkTypes
    <3>2. Len(blocks) \in DOMAIN blocks
      BY <3>1 DEF ChunkInv, ChunkTypes
    <3> QED
      BY <1>1, <3>1, <3>2 DEF ChunkInv, ChunkTypes, BlocksLarge
  <2> QED
    BY <2>1, <2>2
<1>6. new \in Region
  BY <1>1, <1>3, <1>5 DEF Region
\* What was handed out before is in an earlier block, or ends where new begins.
<1>7. \A r \in regions : r.block = new.block => r.to <= new.from
  <2> SUFFICES ASSUME NEW r \in regions, r.block = Len(blocks')
               PROVE  r.to <= start
    OBVIOUS
  <2>1. ~NeedsBlock(inc)
    <3> SUFFICES ASSUME NeedsBlock(inc) PROVE FALSE
      OBVIOUS
    <3>1. Len(blocks') = Len(blocks) + 1 /\ r.block \in DOMAIN blocks
      BY <1>2 DEF ChunkInv, ChunkTypes, InBounds
    <3> QED
      BY <3>1 DEF ChunkInv, ChunkTypes
  <2> QED
    BY <1>2, <2>1 DEF ChunkInv, BeforeFree
<1>8. ChunkTypes'
  BY <1>1, <1>2, <1>3, <1>5, <1>6 DEF ChunkInv, ChunkTypes
<1>9. SetsCounted'
  <2>1. blocks' # << >>
    <3>1. blocks' \in Seq(Nat \ {0}) /\ Len(blocks') \in 1..Len(blocks')
      BY <1>5
    <3>2. Len(blocks') # 0
      BY <3>1
    <3> QED BY <3>2
  <2>2. live # {}
    BY <1>2
  <2> QED
    BY <1>2, <2>1, <2>2 DEF ChunkInv, SetsCounted
<1>10. InBounds'
  <2> SUFFICES ASSUME NEW r \in regions'
               PROVE  /\ r.set \in live /\ r.block \in DOMAIN blocks'
                      /\ r.from < r.to /\ r.to <= blocks'[r.block]
    BY <1>2 DEF InBounds
  <2>1. CASE r \in regions
    BY <1>5, <2>1 DEF ChunkInv, InBounds
  <2>2. CASE r = new
    BY <1>1, <1>2, <1>3, <1>5, <2>2 DEF ChunkInv, ChunkTypes
  <2> QED
    BY <1>2, <2>1, <2>2
<1>11. BeforeFree'
  <2>1. free_index' % L = 0
    <3>1. (start + inc) % L = 0
      <4> HIDE DEF start
      <4> QED BY <1>1, <1>3, SumMod
    <3> QED BY <1>2, <3>1
  <2>2. ASSUME NEW r \in regions', r.block = Len(blocks')
        PROVE  r.to <= free_index'
    <3>1. CASE r \in regions
      BY <1>1, <1>2, <1>3, <1>7, <2>2, <3>1 DEF ChunkInv, ChunkTypes, Region
    <3>2. CASE r = new
      BY <1>1, <1>2, <1>3, <3>2
    <3> QED
      BY <1>2, <3>1, <3>2
  <2> QED
    BY <2>1, <2>2 DEF BeforeFree
<1>12. Disjoint'
  <2>1. \A r \in regions' : r.from % L = 0
    BY <1>2, <1>3 DEF ChunkInv, Disjoint, L
  <2>2. \A q, r \in regions' :
          q.block = r.block /\ q # r => q.to <= r.from \/ r.to <= q.from
    BY <1>2, <1>7 DEF ChunkInv, Disjoint
  <2> QED
    BY <2>1, <2>2 DEF Disjoint, L
<1> QED
  BY <1>5, <1>8, <1>9, <1>10, <1>11, <1>12 DEF ChunkInv

(***************************************************************************)
(* Every operation of the chunk keeps the invariant.                       *)
(***************************************************************************)
THEOREM ChunkInvariance == ChunkSpec => []ChunkInv
<1>1. ChunkInv /\ [ChunkNext]_chunkVars => ChunkInv'
  <2> SUFFICES ASSUME ChunkInv, [ChunkNext]_chunkVars PROVE ChunkInv'
    OBVIOUS
  <2>1. ASSUME NEW s \in Sets, increment_allocations(s) PROVE ChunkInv'
    BY <2>1, IncrementKeeps
  <2>2. ASSUME NEW s \in Sets, decrement_allocations(s) PROVE ChunkInv'
    BY <2>2, DecrementKeeps
  <2>3. ASSUME NEW s \in Sets, NEW size \in RequestSizes, get_address(s, size) PROVE ChunkInv'
    BY <2>3, GetAddressKeeps
  <2>4. CASE UNCHANGED chunkVars
    BY <2>4 DEF chunkVars, ChunkInv, ChunkTypes, SetsCounted, InBounds, BeforeFree, BlocksLarge, Disjoint
  <2> QED
    BY <2>1, <2>2, <2>3, <2>4 DEF ChunkNext
<1> QED
  BY <1>1, ChunkStarts, PTL DEF ChunkSpec

(***************************************************************************)
(* For every number of sets, every line and block size and every sequence  *)
(* of requests and deletions: the memory of a live set lies inside a block *)
(* that has not been freed.                                                *)
(***************************************************************************)
THEOREM ChunkSafe == ChunkSpec => [](ChunkTypes /\ InBounds)
<1>1. ChunkInv => ChunkTypes /\ InBounds
  BY DEF ChunkInv
<1> QED
  BY <1>1, ChunkInvariance, PTL

(***************************************************************************)
(* No two requests that get_address has served share a byte, and each is   *)
(* aligned to a cache line.                                                *)
(***************************************************************************)
THEOREM RequestsApart == ChunkSpec => []Disjoint
<1>1. ChunkInv => Disjoint
  BY DEF ChunkInv
<1> QED
  BY <1>1, ChunkInvariance, PTL

\* decrement_allocations of the last set frees every block, and no earlier.
THEOREM NothingKept == ChunkSpec => []FreedWithLast
<1>1. ChunkInv => FreedWithLast
  BY FS_EmptySet DEF ChunkInv, SetsCounted, FreedWithLast
<1> QED
  BY <1>1, ChunkInvariance, PTL
=============================================================================
