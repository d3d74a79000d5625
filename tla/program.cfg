\* Threads are counted in histograms of ints of four values.
CONSTANTS
  Files <- MCFiles
  Garbage <- MCGarbage
  Threads = {t1, t2}
  Ords = {0, 1}
  IntRange = 4
SPECIFICATION FairSpec
INVARIANTS
  GraphAsDescribed
  GraphSane
  BucketsExact
  OrderingCorrect
  OutputCorrect
PROPERTIES
  OutputPrinted
