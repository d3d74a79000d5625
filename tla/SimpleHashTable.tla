-------------------------- MODULE SimpleHashTable ---------------------------
(***************************************************************************)
(* SimpleHashSet::hashSet turns the list of an adjacency set into a        *)
(* hopscotch table: a key lies at most HS_BUCKET_SIZE - 1 slots behind its *)
(* hash value.  A key that cannot be placed rebuilds the table twice as    *)
(* large with a new hash function, and the insertions of a rebuild may     *)
(* rebuild again: stack holds the calls of hopscotchInsert in progress.    *)
(*                                                                         *)
(* Hash values are computed in words of WORD bits, with any odd a_hash     *)
(* below RAND_MAX and any b_hash: the seed is the time.                    *)
(***************************************************************************)
EXTENDS Integers, SequencesExt

CONSTANTS Lists,      \* lists of keys that are to be hashed
          Builds,     \* records [HS, VECTOR, avx512] of utils.h
          Attempts,   \* values of nAttempts (10 in the code)
          WORD,       \* bits of a hash word (32 in the code)
          MaxBits,    \* bound of the model: no table of more than 2^MaxBits slots
          Keys,       \* keys to look up
          EMPTY_KEY, INVAL_KEY

ASSUME TableAssumption ==
  /\ Keys \subseteq Nat /\ Lists \subseteq Seq(Keys)
  /\ EMPTY_KEY \notin Keys /\ INVAL_KEY \notin Keys /\ EMPTY_KEY # INVAL_KEY
  /\ \A b \in Builds : /\ b.HS \in Nat \ {0} /\ b.avx512 \in BOOLEAN
                        /\ b.VECTOR = IF b.avx512 THEN b.HS ELSE 1
  /\ Attempts \subseteq Nat \ {0}
  /\ WORD \in Nat \ {0, 1} /\ MaxBits \in 0..(WORD - 1)
  /\ \A l \in Lists : 2 * Len(l) <= 2^MaxBits

VARIABLES build, nAttempts,
          elems,          \* SimpleHashSet::elems, shrinking
          pc,             \* of hashSet
          array,          \* slots 0..phys_capacity-1
          capacity, M_hash,
          hash,           \* hashFunction, given by a_hash and b_hash
          num_of_elems,
          stack,          \* calls of hopscotchInsert, the running one last
          given           \* history: the keys that were handed to hopscotchInsert

table == <<array, capacity, M_hash, hash, num_of_elems>>
vars == <<build, nAttempts, elems, pc, table, stack, given>>

HS == build.HS
phys_capacity == capacity + build.VECTOR - 1

-----------------------------------------------------------------------------
\* 32 - clz(n), which is WORD for the wrapped -1 of reserve(0).
BitLength(n) == IF n < 0 THEN WORD ELSE Min({b \in 0..WORD : n < 2^b})

\* hashFunction and vectorHashFunction.
hashFunction(a, b, bits) ==
  [k \in Keys |-> ((k * a + b) % 2^WORD) \div 2^(WORD - bits)]

HashFunctions(bits) ==
  {hashFunction(2 * a + 1, b, bits) : a \in 0..(2^(WORD - 2) - 1),
                                      b \in 0..(2^(WORD - bits) - 1)}

\* The shift by 32 of reserve(0) is undefined; x86 takes its count modulo 32.
Capacity(bits) == IF bits = WORD THEN 1 ELSE 2^bits

reserve(cap) ==
  /\ M_hash' = BitLength(2 * cap - 1)
  /\ capacity' = Capacity(M_hash')
  /\ array' = [i \in 0..(capacity' + build.VECTOR - 2) |->
                 IF i < capacity' THEN EMPTY_KEY ELSE INVAL_KEY]
  /\ hash' \in HashFunctions(M_hash')
  /\ num_of_elems' = 0

\* What for_each visits, slot by slot from the first; also the loop of
\* hopscotchReconstruct.
for_each ==
  [i \in {j \in 0..(phys_capacity - 1) : array[j] \notin {EMPTY_KEY, INVAL_KEY}} |-> array[i]]

-----------------------------------------------------------------------------
Init ==
  /\ build \in Builds /\ nAttempts \in Attempts
  /\ elems \in Lists
  /\ pc = "list"
  /\ array = << >> /\ capacity = 0 /\ M_hash = 0 /\ hash = << >> /\ num_of_elems = 0
  /\ stack = << >>
  /\ given = {}

\* A call of hopscotchInsert: cnt attempts have failed; pos is the hole of
\* hopscotchTryInsert, todo the rest of oldArray of hopscotchReconstruct, by
\* slots; inner says that it was called by hopscotchTryInsert.
Call(el) == [el |-> el, cnt |-> 0, pc |-> "try", pos |-> 0, todo |-> << >>, inner |-> FALSE]

top == Last(stack)
SetTop(f) == [stack EXCEPT ![Len(stack)] = f]
Running(where) == pc = "hash" /\ stack # << >> /\ top.pc = where

\* hashSet: reserve, then one hopscotchInsert per element, from the back.
hashSet ==
  /\ pc = "list"
  /\ pc' = "hash"
  /\ reserve(Len(elems))
  /\ UNCHANGED <<build, nAttempts, elems, stack, given>>

hashNext ==
  /\ pc = "hash" /\ stack = << >> /\ elems # << >>
  /\ stack' = <<Call(Last(elems))>>
  /\ given' = given \union {Last(elems)}
  /\ elems' = Front(elems)
  /\ UNCHANGED <<build, nAttempts, pc, table>>

isHashed ==
  /\ pc = "hash" /\ stack = << >> /\ elems = << >>
  /\ pc' = "hashed"
  /\ UNCHANGED <<build, nAttempts, elems, table, stack, given>>

-----------------------------------------------------------------------------
distance(first, second) == (first - second) % capacity

\* Offsets from the hash value at which the search for a place stops.
Scanned(el) ==
  {i \in 0..(capacity - 1) : array[(hash[el] + i) % capacity] \in {EMPTY_KEY, el}}

\* hopscotchTryInsert: the first free slot, or the key itself.
TryFind ==
  LET i == IF Scanned(top.el) = {} THEN 0 ELSE Min(Scanned(top.el))
      pos == (hash[top.el] + i) % capacity
  IN
  /\ Running("try")
  /\ stack' = IF array[pos] = top.el THEN Front(stack)
              ELSE SetTop([top EXCEPT !.pc = "move", !.pos = pos])
  /\ UNCHANGED <<build, nAttempts, elems, pc, table, given>>

Near == distance(top.pos, hash[top.el]) < HS

\* Mutant of Movable: a key may end up one slot too far from its hash value.
MovableFar ==
  {d \in 1..(HS - 1) :
     LET j == (top.pos - d) % capacity
     IN  distance(top.pos, hash[array[j]]) <= HS}

\* How far before the hole the keys lie that the hole may take.
Movable ==
  {d \in 1..(HS - 1) :
     LET j == (top.pos - d) % capacity
     IN  distance(top.pos, hash[array[j]]) <= HS - 1}

\* The key farthest before the hole is copied into it and leaves its slot
\* as the new hole.
TryMove ==
  /\ Running("move") /\ ~Near
  /\ Movable # {}
  /\ LET j == (top.pos - Max(Movable)) % capacity
     IN  /\ array' = [array EXCEPT ![top.pos] = array[j]]
         /\ stack' = SetTop([top EXCEPT !.pos = j])
  /\ UNCHANGED <<build, nAttempts, elems, pc, capacity, M_hash, hash, num_of_elems, given>>

TryPlace ==
  /\ Running("move") /\ Near
  /\ array' = [array EXCEPT ![top.pos] = top.el]
  /\ num_of_elems' = num_of_elems + 1
  /\ stack' = Front(stack)
  /\ UNCHANGED <<build, nAttempts, elems, pc, capacity, M_hash, hash, given>>

-----------------------------------------------------------------------------
InBound == M_hash < MaxBits

\* hopscotchReconstruct: a table twice as large; the old array, whose hole
\* still holds the key that was moved last, is inserted key by key.
Reconstruct(inner) ==
  /\ InBound
  /\ stack' = SetTop([top EXCEPT !.pc = "rebuild", !.todo = for_each, !.inner = inner])
  /\ reserve(capacity)
  /\ UNCHANGED <<build, nAttempts, elems, pc, given>>

TryStuck == Running("move") /\ ~Near /\ Movable = {} /\ Reconstruct(TRUE)

RebuildNext ==
  /\ Running("rebuild") /\ DOMAIN top.todo # {}
  /\ LET i == Min(DOMAIN top.todo)
     IN  stack' = Append(SetTop([top EXCEPT !.todo = Restrict(@, DOMAIN @ \ {i})]),
                         Call(top.todo[i]))
  /\ UNCHANGED <<build, nAttempts, elems, pc, table, given>>

RebuildOver == Running("rebuild") /\ DOMAIN top.todo = {}

\* hopscotchTryInsert has returned false: hopscotchInsert rebuilds once more.
RebuildAgain == RebuildOver /\ top.inner /\ Reconstruct(FALSE)

\* Mutant of Retry: the key that started the rebuild is taken as placed.
RetryForgets ==
  /\ RebuildOver /\ ~top.inner /\ top.cnt + 1 < nAttempts
  /\ stack' = Front(stack)
  /\ UNCHANGED <<build, nAttempts, elems, pc, table, given>>

Retry ==
  /\ RebuildOver /\ ~top.inner /\ top.cnt + 1 < nAttempts
  /\ stack' = SetTop([top EXCEPT !.pc = "try", !.cnt = @ + 1])
  /\ UNCHANGED <<build, nAttempts, elems, pc, table, given>>

Exit ==
  /\ RebuildOver /\ ~top.inner /\ top.cnt + 1 = nAttempts
  /\ pc' = "exit"
  /\ UNCHANGED <<build, nAttempts, elems, table, stack, given>>

\* The end, or the bound of the model.
Terminated ==
  /\ \/ pc \in {"hashed", "exit"}
     \/ ~InBound /\ Running("move") /\ ~Near /\ Movable = {}
     \/ ~InBound /\ RebuildOver /\ top.inner
  /\ UNCHANGED vars

Next ==
  \/ hashSet \/ hashNext \/ isHashed
  \/ TryFind \/ TryMove \/ TryPlace \/ TryStuck
  \/ RebuildNext \/ RebuildAgain \/ Retry \/ Exit
  \/ Terminated

Spec == Init /\ [][Next]_vars

-----------------------------------------------------------------------------
(***************************************************************************)
(* Lookup.  The AVX-512 build loads VECTOR slots at a time: at the hash    *)
(* value, then behind it, or at 0 when that is past the table.  A slot     *)
(* outside the array has no defined value.                                 *)
(***************************************************************************)
Loaded(pos) == pos..(pos + build.VECTOR - 1)

\* Mutants of SecondLoad: no wrap to the beginning of the table; a wrap only
\* behind the padding.
SecondLoadStraight(k) == hash[k] + build.VECTOR

SecondLoadLate(k) ==
  IF hash[k] + build.VECTOR > phys_capacity THEN 0 ELSE hash[k] + build.VECTOR

SecondLoad(k) ==
  IF hash[k] + build.VECTOR > capacity THEN 0 ELSE hash[k] + build.VECTOR

Holds(slots, k) == \E i \in slots \intersect DOMAIN array : array[i] = k

\* The slots that contains(k) loads.
Probed(k) ==
  IF num_of_elems = 0 THEN {}
  ELSE IF Holds(Loaded(hash[k]), k) \/ Holds(Loaded(hash[k]), EMPTY_KEY)
       THEN Loaded(hash[k])
       ELSE Loaded(hash[k]) \union Loaded(SecondLoad(k))

Overrun(k) == build.avx512 /\ ~(Probed(k) \subseteq DOMAIN array)

\* contains of the scalar build: up to HS slots, stopping at an empty one.
ScalarFound(k) ==
  \E i \in 0..(HS - 1) :
    /\ array[(hash[k] + i) % capacity] = k
    /\ \A j \in 0..(i - 1) : array[(hash[k] + j) % capacity] # EMPTY_KEY

\* The results contains(k) can have.
contains(k) ==
  IF num_of_elems = 0 THEN {FALSE}
  ELSE IF ~build.avx512 THEN {ScalarFound(k)}
  ELSE IF Overrun(k) THEN {Holds(Probed(k), k), TRUE}
  ELSE {Holds(Probed(k), k)}

\* One lane of vector_lookup: the slot at the hash value is looked at first.
vector_lookup(k) ==
  IF num_of_elems = 0 THEN {FALSE}
  ELSE IF array[hash[k]] \in {k, EMPTY_KEY} THEN {array[hash[k]] = k}
  ELSE contains(k)

-----------------------------------------------------------------------------
\* Types of the variables.
TypeOK ==
  /\ build \in Builds /\ nAttempts \in Attempts
  /\ elems \in Seq(Keys) /\ given \subseteq Keys
  /\ pc \in {"list", "hash", "hashed", "exit"}
  /\ capacity \in Nat /\ M_hash \in 0..WORD /\ num_of_elems \in Nat
  /\ pc # "list" =>
       /\ array \in [0..(phys_capacity - 1) -> Keys \union {EMPTY_KEY, INVAL_KEY}]
       /\ hash \in [Keys -> Nat]
  /\ \A n \in DOMAIN stack :
       /\ stack[n].el \in Keys /\ stack[n].cnt \in 0..(nAttempts - 1)
       /\ stack[n].pc \in {"try", "move", "rebuild"} /\ stack[n].pos \in Nat
       /\ DOMAIN stack[n].todo \subseteq Nat /\ Range(stack[n].todo) \subseteq Keys
       /\ stack[n].inner \in BOOLEAN

Slots(k) == {i \in DOMAIN array : array[i] = k}

\* The keys that calls in progress have still to insert.
Pending == UNION {{stack[n].el} \union Range(stack[n].todo) : n \in DOMAIN stack}

(***************************************************************************)
(* No key is lost in a rebuild, however deep rebuilds are nested: each key *)
(* that was handed to the table is in it, or some call will insert it.     *)
(* Nothing else is in the table.                                           *)
(***************************************************************************)
NothingLost ==
  LET stored == {k \in Keys : Slots(k) # {}}
  IN  stored \subseteq given /\ given \subseteq stored \union Pending

(***************************************************************************)
(* What lookups rely on, in every state: a key lies within HS_BUCKET_SIZE  *)
(* slots of its hash value with no empty slot between, and in one slot     *)
(* only, but for the hole while keys are being moved; no more than half of *)
(* the slots are taken, and num_of_elems counts them.                      *)
(***************************************************************************)
Hole == IF Running("move") THEN {top.pos} ELSE {}

TableSound ==
  /\ \A k \in given :
       /\ \A i \in Slots(k) :
            /\ i < capacity
            /\ distance(i, hash[k]) < HS
            /\ \A d \in 0..distance(i, hash[k]) : array[(hash[k] + d) % capacity] # EMPTY_KEY
       /\ \A i, j \in Slots(k) \ Hole : i = j
  /\ num_of_elems = Cardinality({k \in given : Slots(k) \ Hole # {}})
  /\ num_of_elems # 0 => 2 * num_of_elems <= capacity

(***************************************************************************)
(* A finished table answers as the set of its keys, in both builds and     *)
(* through vector_lookup: a key is always found; another one is not, but   *)
(* for a lookup that has read behind the array.                            *)
(***************************************************************************)
LookupExact ==
  pc = "hashed" =>
    \A k \in Keys :
      IF k \in given THEN contains(k) = {TRUE} /\ vector_lookup(k) = {TRUE}
      ELSE ~Overrun(k) => contains(k) = {FALSE} /\ vector_lookup(k) = {FALSE}

(***************************************************************************)
(* The wrap test `pos > capacity` lets a lookup read one slot behind the   *)
(* array.  That happens only for a key that is not in the table, whose     *)
(* hash value is capacity - VECTOR_SIZE, with all slots from there to the  *)
(* end taken by other keys, and the slot is the first one behind the array.*)
(***************************************************************************)
OverrunOnlyAtEnd ==
  pc = "hashed" =>
    \A k \in Keys : Overrun(k) =>
      /\ k \notin given
      /\ hash[k] = capacity - build.VECTOR
      /\ \A i \in hash[k]..(capacity - 1) : array[i] # EMPTY_KEY
      /\ Probed(k) \ DOMAIN array = {phys_capacity}
=============================================================================
