--------------------------- MODULE SimpleHashSet ----------------------------
(***************************************************************************)
(* The set operations of the enumeration: P, X and cand are lists, the     *)
(* other operand is an adjacency set, hashed, which answers as a set       *)
(* (SimpleHashTable!LookupExact).  The AVX-512 build looks up whole        *)
(* buckets under a mask; the other build goes over the list with for_each. *)
(* A result is the set of the slots whose keys are pushed into the new     *)
(* set: nothing depends on their order.                                    *)
(***************************************************************************)
EXTENDS UnrolledList, Functions

\* Mutant of Mask: the bucket of the tail is looked up in full.
MaskFull(b) == 0..(K - 1)

\* The slots of bucket b that vector_lookup sees: list_end_mask for the
\* tail, END_MASK for the others.
Mask(b) == IF b = Len(buckets) THEN 0..offset ELSE 0..(K - 1)

Lanes == {p \in Stored : p % K \in Mask(p \div K + 1)}

\* The slots that an operation goes over.
LookedUp == IF avx512 THEN Lanes ELSE 0..Last

intersect(adj) == {p \in LookedUp : Slot(p) \in adj}

\* popcnt of the found lanes of a bucket.
FoundLanes(b, adj) == Cardinality({i \in Mask(b) : buckets[b][i] \in adj})

\* Summed bucket by bucket, or one for each key found.
intersection_size(adj) ==
  IF avx512 THEN FoldFunction(+, 0, [b \in DOMAIN buckets |-> FoundLanes(b, adj)])
  ELSE Cardinality(intersect(adj))

\* exclude has no vectorised form.
exclude(adj) == {p \in 0..Last : Slot(p) \notin adj}

-----------------------------------------------------------------------------
\* The keys in the slots ps are those of S, each once.
IsListOf(ps, S) == {Slot(p) : p \in ps} = S /\ Cardinality(ps) = Cardinality(S)

(***************************************************************************)
(* The operations compute the set operations after every history of the    *)
(* list, in both builds, and the new list has each key once: a slot that   *)
(* pop_back has left behind, or that was never used, is never counted.     *)
(* The tasks take P \intersect adj, X \intersect adj and cand, and the     *)
(* choice of the pivot, from them.                                         *)
(***************************************************************************)
SetOperationsExact ==
  \A adj \in SUBSET Elems :
    /\ IsListOf(intersect(adj), members \intersect adj)
    /\ intersection_size(adj) = Cardinality(members \intersect adj)
    /\ IsListOf(exclude(adj), members \ adj)
=============================================================================
