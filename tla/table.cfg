\* Both builds, one and two attempts.
CONSTANTS
  Keys = {0, 1, 2, 3, 4, 5}
  WORD = 6
  MaxBits = 5
  Attempts = {1, 2}
  EMPTY_KEY = EMPTY_KEY
  INVAL_KEY = INVAL_KEY
  Builds <- MCBuilds
  Lists <- MCLists
SPECIFICATION Spec
INVARIANTS
  NothingLost
  TableSound
  LookupExact
  OverrunOnlyAtEnd
