\* A file of the format of README.md, ordered by degeneracy.
CONSTANTS
  Files <- MCDocumented
  Garbage <- MCGarbage
  Threads = {t1, t2}
  Ords = {0}
  IntRange = 4
SPECIFICATION Spec
INVARIANT EnumeratesDescribed
