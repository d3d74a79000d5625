----------------------------- MODULE GraphGuard -----------------------------
(***************************************************************************)
(* One GraphGuard, step by step: inc_graph_ref_count and                   *)
(* dec_graph_ref_count as they are executed by several threads, with the   *)
(* spin mutex taken and given back by a scoped_lock.  ref_count is a plain *)
(* int: ref_count++ and ref_count-- load it, and store it in a later step. *)
(* BKTasks takes each of the two operations as one step.                   *)
(*                                                                         *)
(* A user is a call (a frame of BKTasks) that has, or will have, the right *)
(* to one dec_graph_ref_count.  A call that has it may create a child call *)
(* that shares the graph: it increments the count, then hands the child    *)
(* over (LoopIteration: the child is not known to any other thread before  *)
(* the increment is done).                                                 *)
(***************************************************************************)
EXTENDS Integers, FiniteSets

CONSTANTS Users,
          Creator,   \* the call that creates the guard
          NoUser     \* the mutex is free

ASSUME UsersAssumption ==
  IsFiniteSet(Users) /\ Creator \in Users /\ NoUser \notin Users

VARIABLES pc,       \* what each user is doing
          child,    \* whom it does it for, while incrementing
          lock,     \* the user in the critical section, or NoUser
          ref_count,
          loaded,   \* the value a user has loaded to change it, otherwise 0
          alive     \* the guard (and its graph) has not been deleted

vars == <<pc, child, lock, ref_count, loaded, alive>>

(***************************************************************************)
(* none      the call does not exist yet                                   *)
(* reserved  its parent is about to increment for it                       *)
(* counted   its parent has incremented for it                             *)
(* holds     the call is running, and will release the graph               *)
(* inc_...   in inc_graph_ref_count                                        *)
(* dec_...   in dec_graph_ref_count; dec_last: the guard is deleted, and   *)
(*           the lock is still to be given back                            *)
(* gone      it has released the graph                                     *)
(***************************************************************************)
Pcs == {"none", "reserved", "counted", "holds",
        "inc_lock", "inc_load", "inc_store", "inc_unlock",
        "dec_lock", "dec_load", "dec_store", "dec_test", "dec_delete",
        "dec_last", "dec_unlock", "gone"}

\* GraphGuard(g): the count starts at 1, for the call that made the subgraph.
Init ==
  /\ pc = [u \in Users |-> IF u = Creator THEN "holds" ELSE "none"]
  /\ child = [u \in Users |-> u]
  /\ lock = NoUser
  /\ ref_count = 1
  /\ loaded = [u \in Users |-> 0]
  /\ alive = TRUE

-----------------------------------------------------------------------------
\* inc_graph_ref_count is called for a new child.
IncCall(u, c) ==
  /\ pc[u] = "holds" /\ pc[c] = "none"
  /\ pc' = [pc EXCEPT ![u] = "inc_lock", ![c] = "reserved"]
  /\ child' = [child EXCEPT ![u] = c]
  /\ UNCHANGED <<lock, ref_count, loaded, alive>>

\* dec_graph_ref_count is called.
DecCall(u) ==
  /\ pc[u] = "holds"
  /\ pc' = [pc EXCEPT ![u] = "dec_lock"]
  /\ UNCHANGED <<child, lock, ref_count, loaded, alive>>

\* Mutant of Acquire: there is no mutex.
AcquireUnlocked(u) ==
  /\ pc[u] \in {"inc_lock", "dec_lock"}
  /\ lock' = u
  /\ pc' = [pc EXCEPT ![u] = IF @ = "inc_lock" THEN "inc_load" ELSE "dec_load"]
  /\ UNCHANGED <<child, ref_count, loaded, alive>>

\* The constructor of scoped_lock has spun until the mutex was free.
Acquire(u) ==
  /\ pc[u] \in {"inc_lock", "dec_lock"}
  /\ lock = NoUser
  /\ lock' = u
  /\ pc' = [pc EXCEPT ![u] = IF @ = "inc_lock" THEN "inc_load" ELSE "dec_load"]
  /\ UNCHANGED <<child, ref_count, loaded, alive>>

\* The first half of ref_count++ and of ref_count--.
Load(u) ==
  /\ pc[u] \in {"inc_load", "dec_load"}
  /\ loaded' = [loaded EXCEPT ![u] = ref_count]
  /\ pc' = [pc EXCEPT ![u] = IF @ = "inc_load" THEN "inc_store" ELSE "dec_store"]
  /\ UNCHANGED <<child, lock, ref_count, alive>>

\* The second half of ref_count++.
IncStore(u) ==
  /\ pc[u] = "inc_store"
  /\ ref_count' = loaded[u] + 1
  /\ loaded' = [loaded EXCEPT ![u] = 0]
  /\ pc' = [pc EXCEPT ![u] = "inc_unlock", ![child[u]] = "counted"]
  /\ UNCHANGED <<child, lock, alive>>

\* The destructor of scoped_lock; then the child is started.
IncUnlock(u) ==
  /\ pc[u] = "inc_unlock"
  /\ lock' = NoUser
  /\ pc' = [pc EXCEPT ![u] = "holds", ![child[u]] = "holds"]
  /\ child' = [child EXCEPT ![u] = u]
  /\ UNCHANGED <<ref_count, loaded, alive>>

\* The second half of ref_count--.
DecStore(u) ==
  /\ pc[u] = "dec_store"
  /\ ref_count' = loaded[u] - 1
  /\ loaded' = [loaded EXCEPT ![u] = 0]
  /\ pc' = [pc EXCEPT ![u] = "dec_test"]
  /\ UNCHANGED <<child, lock, alive>>

\* Mutant of DecTest: the last user finds the count at 0 and keeps the guard.
DecTestBelow(u) ==
  /\ pc[u] = "dec_test"
  /\ pc' = [pc EXCEPT ![u] = IF ref_count < 0 THEN "dec_delete" ELSE "dec_unlock"]
  /\ UNCHANGED <<child, lock, ref_count, loaded, alive>>

\* if(ref_count <= 0) reads the count again.
DecTest(u) ==
  /\ pc[u] = "dec_test"
  /\ pc' = [pc EXCEPT ![u] = IF ref_count <= 0 THEN "dec_delete" ELSE "dec_unlock"]
  /\ UNCHANGED <<child, lock, ref_count, loaded, alive>>

\* delete graph; delete this
Delete(u) ==
  /\ pc[u] = "dec_delete"
  /\ alive' = FALSE
  /\ pc' = [pc EXCEPT ![u] = "dec_last"]
  /\ UNCHANGED <<child, lock, ref_count, loaded>>

(***************************************************************************)
(* The destructor of scoped_lock writes the mutex, a member of the guard,  *)
(* whether or not the guard still exists.                                  *)
(***************************************************************************)
DecUnlock(u) ==
  /\ pc[u] \in {"dec_last", "dec_unlock"}
  /\ lock' = NoUser
  /\ pc' = [pc EXCEPT ![u] = "gone"]
  /\ UNCHANGED <<child, ref_count, loaded, alive>>

Terminated ==
  /\ \A u \in Users : pc[u] \in {"none", "gone"}
  /\ UNCHANGED vars

UserStep(u) ==
  \/ \E c \in Users : IncCall(u, c)
  \/ DecCall(u) \/ Acquire(u) \/ Load(u)
  \/ IncStore(u) \/ IncUnlock(u)
  \/ DecStore(u) \/ DecTest(u) \/ Delete(u) \/ DecUnlock(u)

Next == (\E u \in Users : UserStep(u)) \/ Terminated

Spec == Init /\ [][Next]_vars

\* Every thread goes on, and every call ends.  The spin mutex need not be
\* fair: it is taken a bounded number of times.
FairSpec == Spec /\ \A u \in Users : WF_vars(UserStep(u))

-----------------------------------------------------------------------------
\* Types of the variables; the count never falls below zero.
TypeOK ==
  /\ pc \in [Users -> Pcs]
  /\ child \in [Users -> Users]
  /\ lock \in Users \union {NoUser}
  /\ ref_count \in Nat
  /\ loaded \in [Users -> Nat]
  /\ alive \in BOOLEAN

Critical(u) ==
  pc[u] \in {"inc_load", "inc_store", "inc_unlock", "dec_load", "dec_store",
             "dec_test", "dec_delete", "dec_last", "dec_unlock"}

\* The users for whom a raised count has been stored, and no lowered one yet.
Counted ==
  {u \in Users : pc[u] \in {"counted", "holds", "inc_lock", "inc_load", "inc_store",
                            "inc_unlock", "dec_lock", "dec_load", "dec_store"}}

(***************************************************************************)
(* No lost update: the count is the number of users that will still        *)
(* release the graph.  A value that is stored was loaded in an earlier     *)
(* step, so this is what the spin mutex is for.                            *)
(***************************************************************************)
RefCountExact == ref_count = Cardinality(Counted)

(***************************************************************************)
(* No user calls, spins on, works in or unlocks a deleted guard, but for   *)
(* the one that has deleted it and still gives back the lock.              *)
(***************************************************************************)
NoUseAfterDelete ==
  \A u \in Users : pc[u] \notin {"none", "reserved", "dec_last", "gone"} => alive

\* The last release deletes the guard: a guard without users does not stay.
DeletedByLast == (\A u \in Users : pc[u] \in {"none", "gone"}) => ~alive

\* No user spins for ever, and the guard is deleted in the end.
EventuallyDeleted == <>[](~alive /\ \A u \in Users : pc[u] \in {"none", "gone"})

(***************************************************************************)
(* The mutex is part of an existing object whenever it is unlocked: no     *)
(* access to freed memory, which the DEBUG build checks.                   *)
(***************************************************************************)
UnlockBeforeDelete == \A u \in Users : pc[u] \in {"dec_last", "dec_unlock"} => alive
=============================================================================
