CONSTANTS
  Elems = {1, 2, 3, 4, 5}
  ELEMS_IN_BUCKET = 3
  Builds = {TRUE, FALSE}
  INVAL_KEY = 99
SPECIFICATION Spec
INVARIANTS
  ContentsExact
  IterationExact
  SetOperationsExact
