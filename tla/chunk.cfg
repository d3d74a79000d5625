CONSTANTS
  Sets = {s1, s2, s3}
  RequestSizes = {1, 3, 8}
  L2_CACHE_LINE = 2
  dynamic_block_size = 7
  MaxBlocks = 3
SPECIFICATION ChunkSpec
INVARIANTS
  InBounds
  Disjoint
  FreedWithLast
