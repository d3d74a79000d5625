\* The scoped_lock outlives the mutex.
CONSTANTS
  u1 = u1
  u2 = u2
  u3 = u3
  u4 = u4
  Users <- MCUsers
  Creator = u1
  NoUser = NoUser
SPECIFICATION Spec
INVARIANT UnlockBeforeDelete
