\* -s 1 with --max-clq 1.
CONSTANTS
  MCN = 3
  MCMinEdges = 2
  MCSub = {1}
  MCThresh = {2}
  MCMemThresh = {0}
  MCLimit = {1}
  NoLimit = NoLimit
  MCTight = FALSE
  KnownFaults = TRUE
  V <- MCV
  Graphs <- MCGraphs
  Options <- MCOptions
SPECIFICATION Spec
INVARIANT GuardAlive
