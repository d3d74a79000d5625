---------------------------- MODULE UnrolledList ----------------------------
(***************************************************************************)
(* UnrolledList: a list of buckets of ELEMS_IN_BUCKET slots each, filled   *)
(* from the left.  It holds the growing clique R, and the elements of P,   *)
(* X, cand and of the adjacency sets until they are hashed.                *)
(*                                                                         *)
(* Slots beyond the end of the list keep what was last written there.  The *)
(* AVX-512 build of find_element compares whole buckets, those slots       *)
(* included; the other build stops at the end of the list.                 *)
(*                                                                         *)
(* The client is the enumeration: it pushes an element at most once        *)
(* (remove "assumes there is at most one el key"), removes only elements   *)
(* that are in the list, and leaves a list alone while it iterates over    *)
(* it with get_next, as SpawnTask does with cand_task.                     *)
(***************************************************************************)
EXTENDS Integers, Sequences, FiniteSetsExt

CONSTANTS Elems,             \* vertex names: integers
          ELEMS_IN_BUCKET,
          Builds,            \* TRUE: the build defines USE_AVX512
          INVAL_KEY          \* what a new bucket is filled with

ASSUME ListAssumption ==
  /\ Elems \subseteq Int /\ INVAL_KEY \notin Elems
  /\ ELEMS_IN_BUCKET \in Nat \ {0}
  /\ Builds \subseteq BOOLEAN

K == ELEMS_IN_BUCKET
None == -1   \* no position; get_next at the end

VARIABLES avx512,
          buckets,       \* from head to tail, each with its slots 0..K-1
          offset,        \* the last used slot of the tail
          num_of_elems,
          iter,          \* number of the bucket of the iterator, 0 for NULL
          iter_offs,
          members,       \* what the client has put in and not taken out
          visited        \* what get_next has returned since the iterator was NULL

vars == <<avx512, buckets, offset, num_of_elems, iter, iter_offs, members, visited>>

Init ==
  /\ avx512 \in Builds
  /\ buckets = << >> /\ offset = 0 /\ num_of_elems = 0
  /\ iter = 0 /\ iter_offs = 0
  /\ members = {} /\ visited = << >>

-----------------------------------------------------------------------------
\* Positions number the slots of all buckets from left to right, from 0.
Slot(p) == buckets[p \div K + 1][p % K]
Stored == 0..(Len(buckets) * K - 1)

\* The position of tail->elems[offset]; -1 for the empty list.
Last == IF buckets = << >> THEN -1 ELSE (Len(buckets) - 1) * K + offset

\* Bucket(): every byte is INVAL_BYTE.
create_bucket == [i \in 0..(K - 1) |-> INVAL_KEY]

\* The list with el in the first slot after the last one.
Pushed(el) ==
  IF buckets = << >> \/ offset = K - 1
  THEN Append(buckets, [create_bucket EXCEPT ![0] = el])
  ELSE [buckets EXCEPT ![Len(buckets)][offset + 1] = el]

push_back(el) ==
  /\ iter = 0 /\ el \notin members
  /\ buckets' = Pushed(el)
  /\ offset' = IF buckets = << >> \/ offset = K - 1 THEN 0 ELSE offset + 1
  /\ num_of_elems' = num_of_elems + 1
  /\ members' = members \union {el}
  /\ UNCHANGED <<avx512, iter, iter_offs, visited>>

\* Mutant of find_element: the last match of the whole buckets.
find_last(el) ==
  LET scanned == IF avx512 THEN Stored ELSE 0..Last
      hits == {p \in scanned : Slot(p) = el}
  IN  IF hits = {} THEN None ELSE Max(hits)

\* The first match: in whole buckets (AVX-512), or up to the end of the list.
find_element(el) ==
  LET scanned == IF avx512 THEN Stored ELSE 0..Last
      hits == {p \in scanned : Slot(p) = el}
  IN  IF hits = {} THEN None ELSE Min(hits)

\* pop_back clears no slot; a bucket is deleted when its slot 0 is popped.
Popped(bs) == IF offset = 0 THEN SubSeq(bs, 1, Len(bs) - 1) ELSE bs

\* The new offset: 0 in an empty list, else the end of the bucket before.
PoppedOffset ==
  CASE offset # 0                         -> offset - 1
    [] offset = 0 /\ Len(buckets) = 1     -> 0
    [] offset = 0 /\ Len(buckets) # 1     -> K - 1

pop_back ==
  /\ iter = 0 /\ members # {}
  /\ num_of_elems' = num_of_elems - 1
  /\ members' = members \ {Slot(Last)}
  /\ buckets' = Popped(buckets)
  /\ offset' = PoppedOffset
  /\ UNCHANGED <<avx512, iter, iter_offs, visited>>

\* The last element takes the place of el, then the list is popped.
remove(el) ==
  /\ iter = 0 /\ el \in members
  /\ members' = members \ {el}
  /\ LET p == find_element(el)
     IN  IF p = None
         THEN UNCHANGED <<buckets, offset, num_of_elems>>
         ELSE /\ buckets' = Popped([buckets EXCEPT ![p \div K + 1][p % K] = Slot(Last)])
              /\ offset' = PoppedOffset
              /\ num_of_elems' = num_of_elems - 1
  /\ UNCHANGED <<avx512, iter, iter_offs, visited>>

\* The copy constructor, as for the R of a spawned task: stale slots are
\* copied too, the iterator is not.  The model goes on with the copy.
copy_list ==
  /\ iter' = 0 /\ iter_offs' = 0 /\ visited' = << >>
  /\ UNCHANGED <<avx512, buckets, offset, num_of_elems, members>>

\* The destructor deletes every bucket.  The model goes on with a new list.
kill_list ==
  /\ buckets' = << >> /\ offset' = 0 /\ num_of_elems' = 0
  /\ iter' = 0 /\ iter_offs' = 0
  /\ members' = {} /\ visited' = << >>
  /\ UNCHANGED avx512

-----------------------------------------------------------------------------
\* Mutant of end_iter: looks at the slot only.
end_iter_any_bucket == buckets = << >> \/ (iter # 0 /\ iter_offs = offset)

end_iter == buckets = << >> \/ (iter = Len(buckets) /\ iter_offs = offset)

\* Where get_next goes: the head first, the next bucket after slot K - 1.
Advance ==
  IF iter = 0 THEN <<1, 0>>
  ELSE IF iter_offs + 1 = K THEN <<iter + 1, 0>>
  ELSE <<iter, iter_offs + 1>>

get_next ==
  /\ ~end_iter
  /\ iter' = Advance[1] /\ iter_offs' = Advance[2]
  /\ visited' = Append(visited, buckets[Advance[1]][Advance[2]])
  /\ UNCHANGED <<avx512, buckets, offset, num_of_elems, members>>

\* for_each: the elements it passes to its function, in order.
for_each == [i \in 1..(Last + 1) |-> Slot(i - 1)]

Next ==
  \/ \E el \in Elems : push_back(el) \/ remove(el)
  \/ pop_back \/ copy_list \/ kill_list \/ get_next

Spec == Init /\ [][Next]_vars

-----------------------------------------------------------------------------
\* Types of the variables.
TypeOK ==
  /\ avx512 \in Builds
  /\ buckets \in Seq([0..(K - 1) -> Elems \union {INVAL_KEY}])
  /\ offset \in 0..(K - 1)
  /\ num_of_elems \in Nat
  /\ iter \in 0..Len(buckets) /\ iter_offs \in 0..(K - 1)
  /\ members \subseteq Elems
  /\ visited \in Seq(Elems)

(***************************************************************************)
(* The list holds exactly what the client has put in and not taken out:    *)
(* no element is lost, doubled or brought back from a stale slot, whatever *)
(* the order of pushes, removals and pops and in both builds.              *)
(***************************************************************************)
ContentsExact ==
  /\ {Slot(p) : p \in 0..Last} = members
  /\ num_of_elems = Last + 1
  /\ num_of_elems = Cardinality(members)

(***************************************************************************)
(* get_next goes over the list in the order of for_each, and end_iter says *)
(* so exactly when the last element has been returned.  SpawnTask relies   *)
(* on it: it gives up P, X and cand when end_iter holds, and a candidate   *)
(* not yet returned would never be explored.                               *)
(***************************************************************************)
IterationExact ==
  /\ visited = SubSeq(for_each, 1, Len(visited))
  /\ end_iter <=> Len(visited) = num_of_elems
=============================================================================
