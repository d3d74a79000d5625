\* Every graph with 3 vertices, every -s, all mixes of thresholds,
\* with and without --max-clq.
CONSTANTS
  MCN = 3
  MCMinEdges = 0
  MCSub = {0, 1, 2, 3}
  MCThresh = {0, 1, 2, 4}
  MCMemThresh = {0, 2, 3}
  MCLimit = {NoLimit, 1, 2}
  NoLimit = NoLimit
  MCTight = FALSE
  KnownFaults = FALSE
  V <- MCV
  Graphs <- MCGraphs
  Options <- MCOptions
SPECIFICATION FairSpec
INVARIANTS
  GuardAlive
  NothingLeft
PROPERTIES
  ImplementsRecursion
  TasksTerminate
  ChunkDeletedEmpty
