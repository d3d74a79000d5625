\* Dense graphs with 4 vertices: tasks of tasks, shared subgraphs, pools with
\* the smallest safe thresholds.
CONSTANTS
  MCN = 4
  MCMinEdges = 5
  MCSub = {0, 1, 2, 3}
  MCThresh = {0, 2}
  MCMemThresh = {1, 3}
  MCLimit = {NoLimit}
  NoLimit = NoLimit
  MCTight = TRUE
  KnownFaults = FALSE
  V <- MCV
  Graphs <- MCGraphs
  Options <- MCOptions
SPECIFICATION Spec
INVARIANTS
  GuardAlive
  GuardRefs
  TaskRefs
  PivotFound
  ChunkCounts
  ChunkPrivate
PROPERTY ImplementsRecursion
