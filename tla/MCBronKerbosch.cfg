\* Every graph with 4 vertices, every order, no limit and limits around the
\* sizes of its cliques.
CONSTANTS
  MCN = 4
  MCOrds = {"degeneracy", "degree", "inverse"}
  V <- MCV
  Graphs <- MCGraphs
  Options <- MCOptions
SPECIFICATION FairSpec
INVARIANTS
  TypeOK
  CallsApart
  NoneLost
  CompleteAtEnd
PROPERTIES
  Termination
  ImplementsEnumeration
