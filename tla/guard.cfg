\* Four calls that share one subgraph.
CONSTANTS
  u1 = u1
  u2 = u2
  u3 = u3
  u4 = u4
  Users <- MCUsers
  Creator = u1
  NoUser = NoUser
SPECIFICATION FairSpec
INVARIANTS
  RefCountExact
  NoUseAfterDelete
PROPERTY
  EventuallyDeleted
