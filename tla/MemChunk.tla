------------------------------ MODULE MemChunk ------------------------------
(***************************************************************************)
(* MemChunk: the memory pool of the sets of one task.  Memory is cut from  *)
(* the last of a list of blocks and never given back piece by piece; when  *)
(* the last set is deleted, all blocks are freed at once and the chunk is  *)
(* used again from the start.                                              *)
(*                                                                         *)
(* The client is MainBKTask: it counts a set (increment_allocations)       *)
(* before the set takes its memory, the set takes more with every bucket,  *)
(* and delete_set uncounts it.  A chunk is used by one thread at a time    *)
(* (ChunkPrivate of BKTasks).  Sizes stay far below the 32 bits of         *)
(* free_index, and posix_memalign does not fail.                           *)
(***************************************************************************)
EXTENDS Integers, Sequences

CONSTANTS Sets,                \* the sets a task may have in its chunk
          RequestSizes,        \* the sizes asked for: sets and their buckets
          L2_CACHE_LINE,
          dynamic_block_size,  \* option -b
          MaxBlocks            \* bound: the blocks of the chunk at a time

ASSUME ChunkAssumption ==
  /\ RequestSizes \subseteq Nat \ {0}
  /\ L2_CACHE_LINE \in Nat \ {0}
  /\ dynamic_block_size \in Nat \ {0}
  /\ MaxBlocks \in Nat

VARIABLES allocations,
          blocks,      \* dynamic_block_list: the size of each block
          free_index,  \* where the free part of the last block begins
          live,        \* the sets that have been counted and not deleted
          regions      \* the memory handed out to the live sets

chunkVars == <<allocations, blocks, free_index, live, regions>>

ChunkInit ==
  /\ allocations = 0
  /\ blocks = << >> /\ free_index = 0
  /\ live = {} /\ regions = {}

-----------------------------------------------------------------------------
\* Mutant of index_increment: the part of a line at the end is forgotten.
whole_lines_only(size) == (size \div L2_CACHE_LINE) * L2_CACHE_LINE

\* The size rounded up to whole cache lines.
index_increment(size) ==
  (size \div L2_CACHE_LINE) * L2_CACHE_LINE
    + (IF size % L2_CACHE_LINE # 0 THEN L2_CACHE_LINE ELSE 0)

NeedsBlock(inc) ==
  blocks = << >> \/ free_index + inc >= dynamic_block_size

\* Mutant of alloc_size: large requests get a block of the usual size too.
alloc_size_fixed(inc) == dynamic_block_size

alloc_size(inc) == IF inc > dynamic_block_size THEN inc ELSE dynamic_block_size

increment_allocations(s) ==
  /\ s \notin live
  /\ allocations' = allocations + 1
  /\ live' = live \union {s}
  /\ UNCHANGED <<blocks, free_index, regions>>

\* The region is the part of the block that the caller may use.
get_address(s, size) ==
  LET inc == index_increment(size)
      start == IF NeedsBlock(inc) THEN 0 ELSE free_index
  IN  /\ s \in live
      /\ blocks' = IF NeedsBlock(inc) THEN Append(blocks, alloc_size(inc)) ELSE blocks
      /\ Len(blocks') <= MaxBlocks
      /\ free_index' = start + inc
      /\ regions' = regions \union
           {[set |-> s, block |-> Len(blocks'), from |-> start, to |-> start + size]}
      /\ UNCHANGED <<allocations, live>>

\* Mutant of delete_dynamic_blocks: free_index is not reset.
delete_blocks_only == blocks' = << >> /\ UNCHANGED free_index

delete_dynamic_blocks == blocks' = << >> /\ free_index' = 0

decrement_allocations(s) ==
  /\ s \in live
  /\ allocations' = allocations - 1
  /\ IF allocations' = 0 THEN delete_dynamic_blocks ELSE UNCHANGED <<blocks, free_index>>
  /\ live' = live \ {s}
  /\ regions' = {r \in regions : r.set # s}

ChunkNext ==
  \E s \in Sets :
    \/ increment_allocations(s) \/ decrement_allocations(s)
    \/ \E size \in RequestSizes : get_address(s, size)

ChunkSpec == ChunkInit /\ [][ChunkNext]_chunkVars

-----------------------------------------------------------------------------
Region == [set : Sets, block : Nat, from : Nat, to : Nat]

\* Types of the variables.
ChunkTypes ==
  /\ allocations \in Nat
  /\ blocks \in Seq(Nat \ {0})
  /\ free_index \in Nat
  /\ live \subseteq Sets
  /\ regions \subseteq Region

(***************************************************************************)
(* The memory of a set that still exists lies inside a block that has not  *)
(* been freed: the blocks go only when no set needs them, and no request,  *)
(* however large, runs over the end of its block.                          *)
(***************************************************************************)
InBounds ==
  \A r \in regions :
    /\ r.set \in live
    /\ r.block \in DOMAIN blocks
    /\ r.from < r.to /\ r.to <= blocks[r.block]

(***************************************************************************)
(* No two requests are given overlapping memory, of one set or of two,     *)
(* and every address is aligned to a cache line.                           *)
(***************************************************************************)
Disjoint ==
  /\ \A r \in regions : r.from % L2_CACHE_LINE = 0
  /\ \A q, r \in regions :
       q.block = r.block /\ q # r => q.to <= r.from \/ r.to <= q.from

\* Nothing is kept when no set is left: the chunk can be deleted, or used again.
FreedWithLast == live = {} => blocks = << >> /\ free_index = 0 /\ allocations = 0
=============================================================================
