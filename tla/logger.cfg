\* Two threads with two calls each.
CONSTANTS
  Threads = {t1, t2}
  NUM_OF_TYPES = 2
  Sizes = {1}
  MaxCalls = 2
SPECIFICATION FairSpec
INVARIANTS
  OneSampler
  SampleSkew
PROPERTIES
  CallsReturn
