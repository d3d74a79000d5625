------------------------- MODULE UnrolledList_proofs ------------------------
(***************************************************************************)
(* Proofs about UnrolledList and SimpleHashSet: the list holds exactly     *)
(* what the client has put in, is iterated over exactly once, and the set  *)
(* operations on it are exact, for every bucket size, every set of keys,   *)
(* every sequence of calls and both builds.                                *)
(*                                                                         *)
(* The model numbers the slots by positions; the proofs speak of pairs of  *)
(* a bucket and a slot, so that positions are computed in few places only. *)
(***************************************************************************)
EXTENDS SimpleHashSet, SumTheorems, SequenceTheorems

-----------------------------------------------------------------------------
(***************************************************************************)
(* Positions and pairs.                                                    *)
(***************************************************************************)

\* The slots of n buckets up to slot off of the last one.
Used(n, off) == {s \in (1..n) \X (0..(K - 1)) : s[1] < n \/ s[2] <= off}

\* The position of slot i of bucket b.
Pos(b, i) == (b - 1) * K + i

\* Bucket sizes are positive.
LEMMA KPositive == K \in Nat \ {0}
  BY ListAssumption DEF K

\* A position is a bucket and a slot.
LEMMA PosSplit ==
  ASSUME NEW p \in Nat
  PROVE  /\ p \div K \in Nat /\ p % K \in 0..(K - 1)
         /\ p = (p \div K) * K + (p % K)
         /\ p = Pos(p \div K + 1, p % K)
  <1>1. p \div K \in Nat /\ p % K \in 0..(K - 1) /\ p = (p \div K) * K + (p % K)
    BY KPositive
  <1>2. (p \div K + 1) - 1 = p \div K
    BY <1>1
  <1> QED BY <1>1, <1>2 DEF Pos

\* Slots are ordered by their buckets first.
LEMMA PosOrder ==
  ASSUME NEW b \in Nat, NEW c \in Nat, NEW i \in 0..(K - 1), NEW j \in 0..(K - 1)
  PROVE  /\ b < c => Pos(b, i) < Pos(c, j)
         /\ Pos(b, i) = Pos(c, j) => b = c /\ i = j
  <1>1. ASSUME NEW x \in Nat, NEW y \in Nat, x < y, NEW u \in 0..(K - 1), NEW w \in 0..(K - 1)
        PROVE  Pos(x, u) < Pos(y, w)
    <2> DEFINE d == y - x - 1
    <2>1. d \in Nat /\ y - 1 = (x - 1) + d + 1
      BY <1>1
    <2>2. (y - 1) * K = (x - 1) * K + d * K + K
      BY <2>1, KPositive
    <2>3. d * K \in Nat /\ (x - 1) * K \in Int
      BY <2>1, KPositive
    <2> HIDE DEF d
    <2> QED BY <2>2, <2>3, KPositive DEF Pos
  <1>2. b < c => Pos(b, i) < Pos(c, j)
    BY <1>1
  <1>3. c < b => Pos(c, j) < Pos(b, i)
    BY <1>1
  <1>4. Pos(b, i) \in Int /\ Pos(c, j) \in Int
    BY KPositive DEF Pos
  <1>5. b = c /\ Pos(b, i) = Pos(c, j) => i = j
    BY KPositive DEF Pos
  <1> QED BY <1>2, <1>3, <1>4, <1>5

\* The slot at a position is found by division.
LEMMA PosDivMod ==
  ASSUME NEW b \in Nat \ {0}, NEW i \in 0..(K - 1)
  PROVE  /\ Pos(b, i) \in Nat
         /\ Pos(b, i) \div K + 1 = b /\ Pos(b, i) % K = i
  <1>1. Pos(b, i) \in Nat
    BY KPositive DEF Pos
  <1>2. /\ Pos(b, i) \div K \in Nat /\ Pos(b, i) % K \in 0..(K - 1)
        /\ Pos(b, i) = Pos(Pos(b, i) \div K + 1, Pos(b, i) % K)
    BY <1>1, PosSplit
  <1>3. Pos(b, i) \div K + 1 \in Nat
    BY <1>2
  <1> QED BY <1>1, <1>2, <1>3, PosOrder

\* The position of the last used slot, as Last has it.
LastPos(n, off) == IF n = 0 THEN -1 ELSE Pos(n, off)

\* The used slots are those at the positions up to the last one.
LEMMA UsedPositions ==
  ASSUME NEW n \in Nat, NEW off \in 0..(K - 1)
  PROVE  /\ \A s \in Used(n, off) : Pos(s[1], s[2]) \in 0..LastPos(n, off)
         /\ \A p \in 0..LastPos(n, off) : <<p \div K + 1, p % K>> \in Used(n, off)
         /\ LastPos(n, off) \in Int /\ LastPos(n, off) >= -1
         /\ n # 0 => <<n, off>> \in Used(n, off)
  <1>1. n # 0 => LastPos(n, off) \in Nat
    BY PosDivMod DEF LastPos
  <1>2. ASSUME NEW s \in Used(n, off)
        PROVE  Pos(s[1], s[2]) \in 0..LastPos(n, off)
    <2>1. s[1] \in Nat \ {0} /\ s[2] \in 0..(K - 1) /\ n # 0 /\ s[1] <= n
          /\ (s[1] < n \/ s[2] <= off)
      BY <1>2 DEF Used
    <2>2. Pos(s[1], s[2]) \in Nat
      BY <2>1, PosDivMod
    <2>3. s[1] < n => Pos(s[1], s[2]) < Pos(n, off)
      BY <2>1, PosOrder
    <2>4. s[1] = n /\ s[2] <= off => Pos(s[1], s[2]) <= Pos(n, off)
      BY <2>1, KPositive DEF Pos
    <2> QED BY <1>1, <2>1, <2>2, <2>3, <2>4 DEF LastPos
  <1>3. ASSUME NEW p \in 0..LastPos(n, off)
        PROVE  <<p \div K + 1, p % K>> \in Used(n, off)
    <2> DEFINE b == p \div K + 1
               i == p % K
    <2>1. p \in Nat /\ n # 0
      BY <1>1, <1>3 DEF LastPos
    <2>2. b \in Nat \ {0} /\ i \in 0..(K - 1) /\ p = Pos(b, i)
      BY <2>1, PosSplit
    <2> HIDE DEF b, i
    <2>3. Pos(b, i) <= Pos(n, off) /\ Pos(b, i) \in Nat /\ Pos(n, off) \in Nat
      BY <1>1, <1>3, <2>1, <2>2 DEF LastPos
    <2>4. ~(n < b)
      BY <2>2, <2>3, PosOrder
    <2>5. b = n => i <= off
      BY <2>2, <2>3, KPositive DEF Pos
    <2>6. <<b, i>> \in Used(n, off)
      BY <2>2, <2>4, <2>5 DEF Used
    <2> QED BY <2>6 DEF b, i
  <1>4. LastPos(n, off) \in Int /\ LastPos(n, off) >= -1
    BY <1>1 DEF LastPos
  <1>5. n # 0 => <<n, off>> \in Used(n, off)
    BY DEF Used
  <1> QED BY <1>2, <1>3, <1>4, <1>5

\* The first free slot: slot 0 of a new bucket, or the one behind the last.
LEMMA UsedPushed ==
  ASSUME NEW n \in Nat, NEW off \in 0..(K - 1), NEW m, NEW new,
         IF n = 0 \/ off = K - 1 THEN m = n + 1 /\ new = 0 ELSE m = n /\ new = off + 1
  PROVE  /\ m \in Nat \ {0} /\ new \in 0..(K - 1)
         /\ Used(m, new) = Used(n, off) \union {<<m, new>>}
         /\ <<m, new>> \notin Used(n, off)
         /\ LastPos(m, new) = LastPos(n, off) + 1
  <1>1. m \in Nat \ {0} /\ new \in 0..(K - 1)
    BY KPositive
  <1>2. <<m, new>> \notin Used(n, off)
    BY KPositive DEF Used
  <1>3. Used(m, new) = Used(n, off) \union {<<m, new>>}
    BY <1>1, KPositive DEF Used
  <1>4. LastPos(m, new) = LastPos(n, off) + 1
    <2>1. CASE n = 0
      BY <2>1, KPositive DEF LastPos, Pos
    <2>2. CASE n # 0 /\ off = K - 1
      <3>1. (n + 1 - 1) * K = (n - 1) * K + K
        BY KPositive
      <3> QED BY <2>2, <3>1, KPositive DEF LastPos, Pos
    <2>3. CASE n # 0 /\ off # K - 1
      <3>1. (n - 1) * K \in Int /\ m = n /\ new = off + 1
        BY <2>3, KPositive
      <3> QED BY <2>3, <3>1 DEF LastPos, Pos
    <2> QED BY <2>1, <2>2, <2>3
  <1> QED BY <1>1, <1>2, <1>3, <1>4

\* pop_back gives up the last used slot, and the bucket if it was its first.
LEMMA UsedPopped ==
  ASSUME NEW n \in Nat \ {0}, NEW off \in 0..(K - 1), NEW m, NEW new,
         m = (IF off = 0 THEN n - 1 ELSE n),
         new = (IF off # 0 THEN off - 1 ELSE IF n = 1 THEN 0 ELSE K - 1)
  PROVE  /\ m \in Nat /\ new \in 0..(K - 1)
         /\ Used(m, new) = Used(n, off) \ {<<n, off>>}
         /\ LastPos(m, new) = LastPos(n, off) - 1
  <1>1. m \in Nat /\ new \in 0..(K - 1)
    BY KPositive
  <1>2. Used(m, new) = Used(n, off) \ {<<n, off>>}
    BY <1>1, KPositive DEF Used
  <1>3. LastPos(m, new) = LastPos(n, off) - 1
    <2>1. CASE off # 0
      BY <2>1, KPositive DEF LastPos, Pos
    <2>2. CASE off = 0 /\ n = 1
      BY <2>2, KPositive DEF LastPos, Pos
    <2>3. CASE off = 0 /\ n # 1
      <3>1. (n - 1) * K = (n - 1 - 1) * K + K
        BY KPositive
      <3> QED BY <2>3, <3>1, KPositive DEF LastPos, Pos
    <2> QED BY <2>1, <2>2, <2>3
  <1> QED BY <1>1, <1>2, <1>3

-----------------------------------------------------------------------------
(***************************************************************************)
(* The inductive invariant.                                                *)
(***************************************************************************)
Elem(bs, s) == bs[s[1]][s[2]]
U == Used(Len(buckets), offset)

\* The slots hold the elements of mem, each once.
Exact(bs, slots, mem) ==
  /\ {Elem(bs, s) : s \in slots} = mem
  /\ \A r, s \in slots : Elem(bs, r) = Elem(bs, s) => r = s

SlotsExact == Exact(buckets, U, members)

CountExact ==
  /\ IsFiniteSet(members)
  /\ num_of_elems = LastPos(Len(buckets), offset) + 1
  /\ num_of_elems = Cardinality(members)

\* What the iterator has passed.
IterSound ==
  /\ iter = 0 => visited = << >>
  /\ iter # 0 => <<iter, iter_offs>> \in U /\ Len(visited) = Pos(iter, iter_offs) + 1
  /\ \A k \in 1..Len(visited) : visited[k] = Slot(k - 1)

IInv == TypeOK /\ SlotsExact /\ CountExact /\ IterSound

\* What a bucket is.
Bucket == [0..(K - 1) -> Elems \union {INVAL_KEY}]

\* A new list is empty.
LEMMA InitIInv == Init => IInv
  <1> SUFFICES ASSUME Init PROVE IInv
    OBVIOUS
  <1>1. TypeOK
    BY KPositive DEF Init, TypeOK
  <1>2. U = {}
    BY DEF Init, U, Used
  <1>3. SlotsExact
    BY <1>2 DEF Init, SlotsExact, Exact
  <1>4. CountExact
    BY FS_EmptySet DEF Init, CountExact, LastPos
  <1>5. IterSound
    BY DEF Init, IterSound
  <1> QED BY <1>1, <1>3, <1>4, <1>5 DEF IInv

\* The elements are members of the list, which has a bucket for them.
LEMMA UsedElems ==
  ASSUME IInv
  PROVE  /\ \A s \in U : s[1] \in 1..Len(buckets) /\ s[2] \in 0..(K - 1) /\ Elem(buckets, s) \in members
         /\ Len(buckets) \in Nat /\ members \subseteq Elems
         /\ members # {} => Len(buckets) # 0
  BY DEF IInv, TypeOK, SlotsExact, Exact, U, Used

(***************************************************************************)
(* An element is written to a slot that was not used.                      *)
(***************************************************************************)
LEMMA ExactAdd ==
  ASSUME NEW bs, NEW cs, NEW slots, NEW mem, Exact(bs, slots, mem),
         NEW s0, s0 \notin slots, NEW el, el \notin mem,
         \A s \in slots : Elem(cs, s) = Elem(bs, s), Elem(cs, s0) = el
  PROVE  Exact(cs, slots \union {s0}, mem \union {el})
  <1>1. \A s \in slots : Elem(bs, s) \in mem
    BY DEF Exact
  <1> QED BY <1>1 DEF Exact

(***************************************************************************)
(* The element of one slot is overwritten by that of another one, which is *)
(* given up; the two may be the same.                                      *)
(***************************************************************************)
LEMMA ExactRemove ==
  ASSUME NEW bs, NEW cs, NEW slots, NEW mem, Exact(bs, slots, mem),
         NEW s0 \in slots, NEW s1 \in slots,
         \A s \in slots \ {s0, s1} : Elem(cs, s) = Elem(bs, s),
         s0 # s1 => Elem(cs, s0) = Elem(bs, s1)
  PROVE  Exact(cs, slots \ {s1}, mem \ {Elem(bs, s0)})
  <1>1. ASSUME NEW s \in slots \ {s1} PROVE Elem(cs, s) \in mem \ {Elem(bs, s0)}
    <2>1. CASE s = s0
      BY <2>1 DEF Exact
    <2>2. CASE s # s0
      BY <2>2 DEF Exact
    <2> QED BY <2>1, <2>2
  <1>2. ASSUME NEW x \in mem \ {Elem(bs, s0)} PROVE \E s \in slots \ {s1} : Elem(cs, s) = x
    <2>1. PICK s \in slots : Elem(bs, s) = x
      BY DEF Exact
    <2>2. CASE s = s1
      BY <2>1, <2>2
    <2>3. CASE s # s1
      BY <2>1, <2>3
    <2> QED BY <2>2, <2>3
  <1>3. ASSUME NEW r \in slots \ {s1}, NEW s \in slots \ {s1}, Elem(cs, r) = Elem(cs, s)
        PROVE  r = s
    <2>1. CASE r = s0
      BY <1>3, <2>1 DEF Exact
    <2>2. CASE s = s0
      BY <1>3, <2>2 DEF Exact
    <2>3. CASE r # s0 /\ s # s0
      BY <1>3, <2>3 DEF Exact
    <2> QED BY <2>1, <2>2, <2>3
  <1> QED BY <1>1, <1>2, <1>3 DEF Exact

\* push_back writes a slot that was not used, and no other one.
LEMMA PushKeeps ==
  ASSUME IInv, NEW el \in Elems, push_back(el)
  PROVE  IInv'
  <1> DEFINE n == Len(buckets)
             m == Len(buckets')
             fresh == buckets = << >> \/ offset = K - 1
  <1>1. /\ buckets \in Seq(Bucket) /\ offset \in 0..(K - 1) /\ num_of_elems \in Nat
        /\ members \subseteq Elems /\ IsFiniteSet(members) /\ iter = 0 /\ visited = << >>
    BY DEF IInv, TypeOK, Bucket, CountExact, IterSound, push_back
  <1>2. n \in Nat /\ (buckets = << >> <=> n = 0) /\ \A b \in 1..n : buckets[b] \in Bucket
    BY <1>1
  <1>3. /\ buckets' \in Seq(Bucket)
        /\ IF fresh THEN m = n + 1 /\ offset' = 0 ELSE m = n /\ offset' = offset + 1
        /\ \A s \in U : Elem(buckets', s) = Elem(buckets, s)
        /\ buckets'[m][offset'] = el
    <2>1. CASE fresh
      <3> DEFINE new == [create_bucket EXCEPT ![0] = el]
      <3>1. new \in Bucket /\ new[0] = el
        BY KPositive DEF create_bucket, Bucket
      <3>2. buckets' = Append(buckets, new) /\ offset' = 0
        BY <2>1 DEF push_back, Pushed
      <3> HIDE DEF new
      <3>3. buckets' \in Seq(Bucket) /\ m = n + 1 /\ buckets'[n + 1] = new
            /\ \A b \in 1..n : buckets'[b] = buckets[b]
        BY <1>1, <3>1, <3>2, AppendProperties
      <3> QED BY <1>2, <2>1, <3>1, <3>2, <3>3 DEF U, Used, Elem
    <2>2. CASE ~fresh
      <3>1. buckets' = [buckets EXCEPT ![n][offset + 1] = el] /\ offset' = offset + 1
        BY <2>2 DEF push_back, Pushed
      <3>2. n \in 1..n /\ offset + 1 \in 0..(K - 1)
        BY <1>1, <1>2, <2>2, KPositive
      <3>3. buckets' = [buckets EXCEPT ![n] = [buckets[n] EXCEPT ![offset + 1] = el]]
        BY <3>1
      <3>4. [buckets[n] EXCEPT ![offset + 1] = el] \in Bucket
        BY <1>2, <3>2 DEF Bucket
      <3>5. buckets' \in Seq(Bucket) /\ m = n
        BY <1>1, <3>2, <3>3, <3>4
      <3>6. ASSUME NEW s \in U PROVE Elem(buckets', s) = Elem(buckets, s)
        <4>1. s[1] \in 1..n /\ s[2] \in 0..(K - 1) /\ (s[1] < n \/ s[2] # offset + 1)
          BY <1>1, <1>2 DEF U, Used
        <4>2. s[1] # n => buckets'[s[1]] = buckets[s[1]]
          BY <1>1, <3>3, <4>1
        <4>3. buckets'[n] = [buckets[n] EXCEPT ![offset + 1] = el]
          BY <1>1, <3>2, <3>3
        <4>4. s[2] # offset + 1 => buckets'[n][s[2]] = buckets[n][s[2]]
          BY <1>2, <3>2, <4>1, <4>3 DEF Bucket
        <4> QED BY <1>2, <4>1, <4>2, <4>4 DEF Elem
      <3>7. buckets'[n][offset'] = el
        <4>1. buckets'[n] = [buckets[n] EXCEPT ![offset + 1] = el]
          BY <1>1, <3>2, <3>3
        <4> QED BY <1>2, <3>1, <3>2, <4>1 DEF Bucket
      <3> QED BY <2>2, <3>1, <3>5, <3>6, <3>7
    <2> QED BY <2>1, <2>2
  <1>4. /\ m \in Nat \ {0} /\ offset' \in 0..(K - 1)
        /\ U' = U \union {<<m, offset'>>} /\ <<m, offset'>> \notin U
        /\ LastPos(m, offset') = LastPos(n, offset) + 1
    BY <1>1, <1>2, <1>3, UsedPushed DEF U
  <1>5. TypeOK'
    BY <1>1, <1>3, <1>4, KPositive DEF IInv, TypeOK, push_back, Bucket
  <1>6. SlotsExact'
    <2>1. Elem(buckets', <<m, offset'>>) = el /\ el \notin members /\ members' = members \union {el}
      BY <1>3 DEF Elem, push_back
    <2>2. Exact(buckets', U \union {<<m, offset'>>}, members \union {el})
      BY <1>3, <1>4, <2>1, ExactAdd DEF IInv, SlotsExact
    <2> QED BY <1>4, <2>1, <2>2 DEF SlotsExact
  <1>7. CountExact'
    <2>1. IsFiniteSet(members') /\ Cardinality(members') = Cardinality(members) + 1
      BY <1>1, FS_AddElement DEF push_back
    <2>2. num_of_elems' = num_of_elems + 1
      BY DEF push_back
    <2>3. LastPos(Len(buckets), offset) \in Int
      BY <1>1, <1>2, UsedPositions
    <2> QED BY <1>4, <2>1, <2>2, <2>3 DEF IInv, CountExact
  <1>8. IterSound'
    BY <1>1 DEF push_back, IterSound
  <1> QED BY <1>5, <1>6, <1>7, <1>8 DEF IInv

(***************************************************************************)
(* pop_back from a list bs that has the buckets of the present one, with   *)
(* the element of slot s0 overwritten by the last one.                     *)
(***************************************************************************)
LEMMA PoppedKeeps ==
  ASSUME IInv, iter = 0, NEW s0 \in U, NEW bs,
         bs \in Seq(Bucket), Len(bs) = Len(buckets),
         \A s \in U \ {s0} : Elem(bs, s) = Elem(buckets, s),
         Elem(bs, s0) = Elem(buckets, <<Len(buckets), offset>>),
         buckets' = Popped(bs), offset' = PoppedOffset,
         num_of_elems' = num_of_elems - 1,
         members' = members \ {Elem(buckets, s0)},
         UNCHANGED <<avx512, iter, iter_offs, visited>>
  PROVE  IInv'
  <1> DEFINE n == Len(buckets)
             m == Len(buckets')
             s1 == <<n, offset>>
  <1>1. /\ buckets \in Seq(Bucket) /\ offset \in 0..(K - 1) /\ num_of_elems \in Nat
        /\ members \subseteq Elems /\ IsFiniteSet(members) /\ visited = << >>
    BY DEF IInv, TypeOK, Bucket, CountExact, IterSound
  <1>2. n \in Nat \ {0} /\ Elem(buckets, s0) \in members
    BY <1>1, UsedElems
  <1>3. /\ m = (IF offset = 0 THEN n - 1 ELSE n)
        /\ offset' = (IF offset # 0 THEN offset - 1 ELSE IF n = 1 THEN 0 ELSE K - 1)
        /\ buckets' \in Seq(Bucket)
        /\ \A b \in 1..m : buckets'[b] = bs[b]
    <2>1. CASE offset = 0
      <3>1. buckets' = SubSeq(bs, 1, n - 1)
        BY <2>1 DEF Popped
      <3>2. buckets' \in Seq(Bucket) /\ m = n - 1 /\ \A b \in 1..(n - 1) : buckets'[b] = bs[b]
        BY <1>2, <3>1, SubSeqProperties
      <3> QED BY <1>1, <1>2, <2>1, <3>2 DEF PoppedOffset
    <2>2. CASE offset # 0
      BY <1>2, <2>2 DEF Popped, PoppedOffset
    <2> QED BY <2>1, <2>2
  <1>4. /\ m \in Nat /\ offset' \in 0..(K - 1)
        /\ U' = U \ {s1} /\ LastPos(m, offset') = LastPos(n, offset) - 1
    BY <1>1, <1>2, <1>3, UsedPopped DEF U
  <1>5. s1 \in U
    BY <1>1, <1>2, UsedPositions DEF U
  <1>6. \A s \in U \ {s1} : Elem(buckets', s) = Elem(bs, s)
    <2>1. \A s \in U \ {s1} : s[1] \in 1..m
      BY <1>4 DEF U, Used
    <2> QED BY <1>3, <2>1 DEF Elem
  <1>7. SlotsExact'
    <2>1. Exact(bs, U \ {s1}, members \ {Elem(buckets, s0)})
      BY <1>5, ExactRemove DEF IInv, SlotsExact
    <2>2. Exact(buckets', U \ {s1}, members \ {Elem(buckets, s0)})
      BY <1>6, <2>1 DEF Exact
    <2> QED BY <1>4, <2>2 DEF SlotsExact
  <1>8. /\ IsFiniteSet(members') /\ Cardinality(members') = Cardinality(members) - 1
        /\ Cardinality(members') \in Nat
    BY <1>1, <1>2, FS_RemoveElement, FS_CardinalityType
  <1>9. CountExact'
    <2>1. LastPos(Len(buckets), offset) \in Int
      BY <1>1, <1>2, UsedPositions
    <2> QED BY <1>4, <1>8, <2>1 DEF IInv, CountExact
  <1>10. TypeOK'
    BY <1>1, <1>3, <1>4, <1>8, <1>9, KPositive DEF IInv, TypeOK, Bucket, CountExact
  <1>11. IterSound'
    BY <1>1 DEF IterSound
  <1> QED BY <1>7, <1>9, <1>10, <1>11 DEF IInv

\* The model reads the last slot by its position.
LEMMA LastSlot ==
  ASSUME IInv, members # {}
  PROVE  /\ <<Len(buckets), offset>> \in U
         /\ Last = LastPos(Len(buckets), offset) /\ Last \in Nat
         /\ Slot(Last) = Elem(buckets, <<Len(buckets), offset>>)
  <1>1. Len(buckets) \in Nat \ {0} /\ offset \in 0..(K - 1) /\ buckets # << >>
    BY UsedElems DEF IInv, TypeOK
  <1>2. Last = Pos(Len(buckets), offset)
    BY <1>1 DEF Last, Pos
  <1>3. Slot(Last) = buckets[Len(buckets)][offset]
    BY <1>1, <1>2, PosDivMod DEF Slot
  <1> QED BY <1>1, <1>2, <1>3, UsedPositions, PosDivMod DEF U, Elem, LastPos

\* pop_back keeps the invariant.
LEMMA PopKeeps ==
  ASSUME IInv, pop_back
  PROVE  IInv'
  <1>1. <<Len(buckets), offset>> \in U /\ Slot(Last) = Elem(buckets, <<Len(buckets), offset>>)
    BY LastSlot DEF pop_back
  <1>2. buckets \in Seq(Bucket)
    BY DEF IInv, TypeOK, Bucket
  <1> QED BY <1>1, <1>2, PoppedKeeps DEF pop_back

\* A non-empty set of naturals has a least element, which Min returns.
LEMMA MinOfNaturals ==
  ASSUME NEW S \in SUBSET Nat, S # {}
  PROVE  Min(S) \in S /\ \A k \in S : Min(S) <= k
  <1>1. PICK m \in S : \A k \in S : <<k, m>> \notin OpToRel(<, Nat)
    BY NatLessThanWellFounded, WFMin
  <1>2. \A k \in S : ~(k < m)
    BY <1>1 DEF OpToRel
  <1>3. \A k \in S : m <= k
    BY <1>2
  <1> QED BY <1>3 DEF Min

(***************************************************************************)
(* find_element finds a member in a used slot, although the AVX-512 build  *)
(* also compares the stale slots: these come later.                        *)
(***************************************************************************)
LEMMA FindMember ==
  ASSUME IInv, NEW el \in members
  PROVE  find_element(el) \in 0..Last /\ Slot(find_element(el)) = el
  <1> DEFINE scanned == IF avx512 THEN Stored ELSE 0..Last
             hits == {p \in scanned : Slot(p) = el}
             n == Len(buckets)
  <1>1. n \in Nat \ {0} /\ offset \in 0..(K - 1) /\ Last = LastPos(n, offset) /\ Last \in Nat
    BY LastSlot, UsedElems DEF IInv, TypeOK
  <1>2. PICK s \in U : Elem(buckets, s) = el
    BY DEF IInv, SlotsExact, Exact
  <1> DEFINE q == Pos(s[1], s[2])
  <1>3. s[1] \in 1..n /\ s[2] \in 0..(K - 1)
    BY UsedElems
  <1>4. q \in 0..Last
    BY <1>1, UsedPositions DEF U
  <1>5. Slot(q) = el
    BY <1>2, <1>3, PosDivMod DEF Slot, Elem
  <1>6. q \in Stored
    <2>1. Pos(s[1], s[2]) < Pos(n + 1, 0)
      BY <1>1, <1>3, KPositive, PosOrder
    <2>2. Pos(n + 1, 0) = n * K /\ n * K \in Nat
      BY <1>1, KPositive DEF Pos
    <2> QED BY <1>1, <1>4, <2>1, <2>2 DEF Stored
  <1> HIDE DEF q
  <1>7. n * K \in Nat
    BY <1>1, KPositive
  <1>8. hits \in SUBSET Nat /\ q \in hits
    BY <1>1, <1>4, <1>5, <1>6, <1>7 DEF Stored
  <1>9. find_element(el) = Min(hits)
    BY <1>8 DEF find_element
  <1> HIDE DEF hits
  <1>10. Min(hits) \in hits /\ Min(hits) <= q
    BY <1>8, MinOfNaturals
  <1>11. Min(hits) \in Nat /\ Slot(Min(hits)) = el
    BY <1>8, <1>10 DEF hits
  <1> QED BY <1>1, <1>4, <1>9, <1>10, <1>11

\* remove keeps the invariant.
LEMMA RemoveKeeps ==
  ASSUME IInv, NEW el \in Elems, remove(el)
  PROVE  IInv'
  <1> DEFINE p == find_element(el)
             s0 == <<p \div K + 1, p % K>>
             n == Len(buckets)
             x == Slot(Last)
             bs == [buckets EXCEPT ![p \div K + 1][p % K] = x]
  <1>1. el \in members /\ iter = 0
    BY DEF remove
  <1>2. p \in 0..Last /\ Slot(p) = el
    BY <1>1, FindMember
  <1>3. /\ buckets \in Seq(Bucket) /\ n \in Nat \ {0} /\ offset \in 0..(K - 1)
        /\ Last = LastPos(n, offset) /\ Last \in Nat
        /\ <<n, offset>> \in U /\ x = Elem(buckets, <<n, offset>>)
    BY <1>1, LastSlot, UsedElems DEF IInv, TypeOK, Bucket
  <1>4. s0 \in U /\ Elem(buckets, s0) = el
    BY <1>2, <1>3, UsedPositions DEF U, Slot, Elem
  <1>5. /\ buckets' = Popped(bs) /\ offset' = PoppedOffset
        /\ num_of_elems' = num_of_elems - 1 /\ members' = members \ {el}
        /\ UNCHANGED <<avx512, iter, iter_offs, visited>>
    <2>1. p # None
      BY <1>2, <1>3 DEF None
    <2> QED BY <2>1 DEF remove
  <1> HIDE DEF p, x
  <1>6. s0[1] \in 1..n /\ s0[2] \in 0..(K - 1) /\ x \in Elems
    BY <1>3, <1>4, UsedElems
  <1>7. \A b \in 1..n : buckets[b] \in Bucket
    BY <1>3
  <1>8. bs = [buckets EXCEPT ![s0[1]] = [buckets[s0[1]] EXCEPT ![s0[2]] = x]]
    OBVIOUS
  <1>9. [buckets[s0[1]] EXCEPT ![s0[2]] = x] \in Bucket
    BY <1>6, <1>7 DEF Bucket
  <1> HIDE DEF bs, s0
  <1>10. bs \in Seq(Bucket) /\ Len(bs) = n
    BY <1>3, <1>6, <1>8, <1>9
  <1>11. bs[s0[1]] = [buckets[s0[1]] EXCEPT ![s0[2]] = x]
    BY <1>3, <1>6, <1>8
  <1>12. ASSUME NEW s \in U \ {s0} PROVE Elem(bs, s) = Elem(buckets, s)
    <2>1. s[1] \in 1..n /\ s[2] \in 0..(K - 1) /\ s = <<s[1], s[2]>> /\ s0 = <<s0[1], s0[2]>>
      BY <1>4, <1>12 DEF U, Used
    <2>2. CASE s[1] # s0[1]
      <3>1. bs[s[1]] = buckets[s[1]]
        BY <1>3, <1>8, <2>1, <2>2
      <3> QED BY <3>1 DEF Elem
    <2>3. CASE s[1] = s0[1]
      <3>1. s[2] # s0[2]
        BY <1>12, <2>1, <2>3
      <3> QED BY <1>6, <1>7, <1>11, <2>1, <2>3, <3>1 DEF Elem, Bucket
    <2> QED BY <2>2, <2>3
  <1>13. Elem(bs, s0) = Elem(buckets, <<n, offset>>)
    BY <1>3, <1>6, <1>7, <1>11 DEF Elem, Bucket
  <1> QED BY <1>1, <1>4, <1>5, <1>10, <1>12, <1>13, PoppedKeeps

\* get_next stays among the used slots and returns the next element.
LEMMA NextKeeps ==
  ASSUME IInv, get_next
  PROVE  IInv'
  <1> DEFINE n == Len(buckets)
             b == Advance[1]
             i == Advance[2]
             k == Len(visited)
  <1>1. /\ n \in Nat \ {0} /\ offset \in 0..(K - 1) /\ iter \in 0..n /\ iter_offs \in 0..(K - 1)
        /\ visited \in Seq(Elems) /\ k \in Nat
        /\ ~(iter = n /\ iter_offs = offset)
    BY DEF IInv, TypeOK, get_next, end_iter
  <1>2. /\ iter' = b /\ iter_offs' = i
        /\ visited' = Append(visited, buckets[b][i])
        /\ UNCHANGED <<avx512, buckets, offset, num_of_elems, members>>
    BY DEF get_next
  <1>3. b \in Nat \ {0} /\ i \in 0..(K - 1) /\ <<b, i>> \in U /\ Pos(b, i) = k
    <2>1. CASE iter = 0
      <3>1. b = 1 /\ i = 0 /\ k = 0
        BY <2>1 DEF Advance, IInv, IterSound
      <3>2. <<1, 0>> \in U /\ Pos(1, 0) = 0 /\ 0 \in 0..(K - 1)
        BY <1>1, KPositive DEF U, Used, Pos
      <3> QED BY <3>1, <3>2
    <2>2. CASE iter # 0
      <3>1. /\ iter \in 1..n /\ iter \in Nat /\ (iter < n \/ iter_offs < offset)
            /\ k = Pos(iter, iter_offs) + 1
        BY <1>1, <2>2 DEF IInv, IterSound, U, Used
      <3>2. CASE iter_offs + 1 = K
        <4>1. b = iter + 1 /\ i = 0
          BY <2>2, <3>2 DEF Advance
        <4>2. iter < n
          BY <1>1, <3>1, <3>2
        <4>3. (iter + 1 - 1) * K = (iter - 1) * K + K /\ (iter - 1) * K \in Int
          BY <3>1, KPositive
        <4>4. Pos(iter + 1, 0) = k
          BY <1>1, <3>1, <3>2, <4>3, KPositive DEF Pos
        <4>5. iter + 1 \in 1..n /\ 0 \in 0..(K - 1) /\ 0 <= offset
          BY <1>1, <3>1, <4>2, KPositive
        <4>6. <<iter + 1, 0>> \in U
          BY <1>1, <4>5 DEF U, Used
        <4> QED BY <1>1, <4>1, <4>4, <4>5, <4>6
      <3>3. CASE iter_offs + 1 # K
        <4>1. b = iter /\ i = iter_offs + 1
          BY <2>2, <3>3 DEF Advance
        <4>2. i \in 0..(K - 1) /\ (iter < n \/ i <= offset)
          BY <1>1, <3>1, <3>3, <4>1, KPositive
        <4>3. <<iter, i>> \in U
          BY <3>1, <4>2 DEF U, Used
        <4>4. (iter - 1) * K \in Int
          BY <3>1, KPositive
        <4>5. Pos(iter, iter_offs + 1) = k
          BY <1>1, <3>1, <4>4 DEF Pos
        <4> QED BY <3>1, <4>1, <4>2, <4>3, <4>5
      <3> QED BY <3>2, <3>3
    <2> QED BY <2>1, <2>2
  <1> HIDE DEF b, i
  <1>4. buckets[b][i] = Slot(k) /\ buckets[b][i] \in Elems /\ b \in 1..n
    <2>1. buckets[b][i] = Slot(k)
      BY <1>3, PosDivMod DEF Slot
    <2>2. Elem(buckets, <<b, i>>) \in Elems /\ b \in 1..n
      BY <1>3, UsedElems
    <2> QED BY <2>1, <2>2 DEF Elem
  <1>5. /\ visited' \in Seq(Elems) /\ Len(visited') = k + 1
        /\ \A j \in 1..k : visited'[j] = visited[j]
        /\ visited'[k + 1] = Slot(k)
    BY <1>1, <1>2, <1>4
  <1>6. TypeOK'
    BY <1>1, <1>2, <1>3, <1>4, <1>5 DEF IInv, TypeOK
  <1>7. U' = U /\ SlotsExact' /\ CountExact'
    BY <1>2 DEF IInv, U, SlotsExact, CountExact
  <1>8. IterSound'
    <2>1. \A j \in 1..Len(visited') : visited'[j] = Slot(j - 1)
      BY <1>1, <1>5 DEF IInv, IterSound
    <2>2. \A j : Slot(j)' = Slot(j)
      BY <1>2 DEF Slot
    <2>3. \A j \in 1..Len(visited') : visited'[j] = Slot(j - 1)'
      BY <2>1, <2>2
    <2> QED BY <1>2, <1>3, <1>5, <1>7, <2>3 DEF IterSound
  <1> QED BY <1>6, <1>7, <1>8 DEF IInv

\* The copy constructor and the destructor keep the invariant.
LEMMA CopyKeeps ==
  ASSUME IInv, copy_list \/ kill_list \/ UNCHANGED vars
  PROVE  IInv'
  <1>1. CASE copy_list
    <2>1. TypeOK' /\ U' = U /\ SlotsExact' /\ CountExact'
      BY <1>1, KPositive DEF copy_list, IInv, TypeOK, U, SlotsExact, CountExact
    <2>2. IterSound'
      BY <1>1 DEF copy_list, IterSound
    <2> QED BY <2>1, <2>2 DEF IInv
  <1>2. CASE kill_list
    <2>1. TypeOK'
      BY <1>2, KPositive DEF kill_list, IInv, TypeOK
    <2>2. SlotsExact'
      BY <1>2 DEF kill_list, SlotsExact, Exact, U, Used
    <2>3. CountExact'
      BY <1>2, FS_EmptySet DEF kill_list, CountExact, LastPos
    <2>4. IterSound'
      BY <1>2 DEF kill_list, IterSound
    <2> QED BY <2>1, <2>2, <2>3, <2>4 DEF IInv
  <1>3. CASE UNCHANGED vars
    BY <1>3 DEF vars, IInv, TypeOK, U, SlotsExact, CountExact, IterSound, Slot
  <1> QED BY <1>1, <1>2, <1>3

\* Every call keeps the invariant.
LEMMA NextIInv == IInv /\ [Next]_vars => IInv'
  BY PushKeeps, RemoveKeeps, PopKeeps, NextKeeps, CopyKeeps DEF Next

\* The invariant holds in every reachable state.
THEOREM Invariance == Spec => []IInv
  BY InitIInv, NextIInv, PTL DEF Spec

-----------------------------------------------------------------------------
(***************************************************************************)
(* The list holds exactly what the client has put in and not taken out,    *)
(* for every bucket size, every sequence of calls and both builds: the     *)
(* stale slots that find_element compares in the AVX-512 build never count.*)
(***************************************************************************)
THEOREM ListContents == Spec => [](TypeOK /\ ContentsExact)
  <1>1. IInv => TypeOK /\ ContentsExact
    <2> SUFFICES ASSUME IInv PROVE TypeOK /\ ContentsExact
      OBVIOUS
    <2> DEFINE n == Len(buckets)
    <2>1. n \in Nat /\ offset \in 0..(K - 1) /\ (n = 0 <=> buckets = << >>)
      BY DEF IInv, TypeOK
    <2>2. Last = LastPos(n, offset)
      BY <2>1 DEF Last, LastPos, Pos
    <2>3. \A p \in 0..Last : <<p \div K + 1, p % K>> \in U
      BY <2>1, <2>2, UsedPositions DEF U
    <2>4. \A p \in 0..Last : Slot(p) \in members
      BY <2>3, UsedElems DEF Slot, Elem
    <2>5. ASSUME NEW x \in members PROVE \E p \in 0..Last : Slot(p) = x
      BY FindMember
    <2> QED BY <2>2, <2>4, <2>5 DEF IInv, CountExact, ContentsExact
  <1> QED BY <1>1, Invariance, PTL

(***************************************************************************)
(* get_next returns the elements in the order of for_each, each once, and  *)
(* end_iter holds exactly when the last one has been returned.             *)
(***************************************************************************)
THEOREM ListIteration == Spec => []IterationExact
  <1>1. IInv => IterationExact
    <2> SUFFICES ASSUME IInv PROVE IterationExact
      OBVIOUS
    <2> DEFINE n == Len(buckets)
               k == Len(visited)
    <2>1. /\ n \in Nat /\ offset \in 0..(K - 1) /\ (n = 0 <=> buckets = << >>)
          /\ iter \in 0..n /\ iter_offs \in 0..(K - 1) /\ k \in Nat /\ visited \in Seq(Elems)
      BY DEF IInv, TypeOK
    <2>2. Last = LastPos(n, offset) /\ Last \in Int /\ Last >= -1 /\ num_of_elems = Last + 1
      BY <2>1, UsedPositions DEF IInv, CountExact, Last, LastPos, Pos
    <2>3. iter # 0 => Pos(iter, iter_offs) \in 0..Last /\ k = Pos(iter, iter_offs) + 1
      BY <2>1, <2>2, UsedPositions DEF IInv, IterSound, U
    <2>4. iter = 0 => k = 0
      BY DEF IInv, IterSound
    <2>5. k <= Last + 1
      BY <2>2, <2>3, <2>4
    <2>6. visited = SubSeq(for_each, 1, k)
      <3>1. for_each = [j \in 1..(Last + 1) |-> Slot(j - 1)] /\ Last + 1 \in Nat
        BY <2>2 DEF for_each
      <3>2. visited = [j \in 1..k |-> visited[j]]
        BY <2>1
      <3>3. SubSeq(for_each, 1, k) = [j \in 1..k |-> for_each[j]]
        BY <2>1
      <3>4. \A j \in 1..k : visited[j] = for_each[j]
        BY <2>1, <2>2, <2>5, <3>1 DEF IInv, IterSound
      <3> QED BY <3>2, <3>3, <3>4
    <2>7. end_iter <=> k = num_of_elems
      <3>1. CASE n = 0
        BY <2>1, <2>2, <2>4, <3>1 DEF end_iter, LastPos
      <3>2. CASE n # 0 /\ iter = 0
        <4>1. Pos(n, offset) \in Nat
          BY <2>1, <3>2, PosDivMod
        <4> QED BY <2>1, <2>2, <2>4, <3>2, <4>1 DEF end_iter, LastPos
      <3>3. CASE n # 0 /\ iter # 0
        <4>1. Pos(iter, iter_offs) = Pos(n, offset) <=> iter = n /\ iter_offs = offset
          BY <2>1, PosOrder
        <4>2. k = num_of_elems <=> Pos(iter, iter_offs) = Pos(n, offset)
          BY <2>2, <2>3, <3>3 DEF LastPos
        <4> QED BY <2>1, <3>3, <4>1, <4>2 DEF end_iter
      <3> QED BY <3>1, <3>2, <3>3
    <2> QED BY <2>6, <2>7 DEF IterationExact
  <1> QED BY <1>1, Invariance, PTL

-----------------------------------------------------------------------------
(***************************************************************************)
(* The set operations of SimpleHashSet.                                    *)
(***************************************************************************)

\* Equally many elements.
LEMMA SameSize ==
  ASSUME NEW S, NEW T, IsFiniteSet(S), NEW f \in [S -> T],
         \A x, y \in S : f[x] = f[y] => x = y, \A z \in T : \E x \in S : f[x] = z
  PROVE  Cardinality(S) = Cardinality(T)
  <1>1. f \in Bijection(S, T)
    BY DEF Bijection, Injection, Surjection, IsInjective
  <1> QED BY <1>1, FS_Bijection DEF ExistsBijection

\* The list has each member in one slot.
LEMMA SlotsOnce ==
  ASSUME IInv
  PROVE  /\ Len(buckets) \in Nat /\ offset \in 0..(K - 1) /\ DOMAIN buckets = 1..Len(buckets)
         /\ Last = LastPos(Len(buckets), offset) /\ Last \in Int /\ Last >= -1
         /\ \A p \in 0..Last : Slot(p) \in members
         /\ \A x \in members : \E p \in 0..Last : Slot(p) = x
         /\ \A p, q \in 0..Last : Slot(p) = Slot(q) => p = q
  <1> DEFINE n == Len(buckets)
  <1>1. n \in Nat /\ offset \in 0..(K - 1) /\ (n = 0 <=> buckets = << >>) /\ DOMAIN buckets = 1..n
    BY DEF IInv, TypeOK
  <1>2. Last = LastPos(n, offset) /\ Last \in Int /\ Last >= -1
    BY <1>1, UsedPositions DEF Last, LastPos, Pos
  <1>3. \A p \in 0..Last : <<p \div K + 1, p % K>> \in U
    BY <1>1, <1>2, UsedPositions DEF U
  <1>4. \A p \in 0..Last : Slot(p) = Elem(buckets, <<p \div K + 1, p % K>>)
    BY DEF Slot, Elem
  <1>5. \A p \in 0..Last : Slot(p) \in members
    BY <1>3, <1>4, UsedElems
  <1>6. \A x \in members : \E p \in 0..Last : Slot(p) = x
    BY FindMember
  <1>7. ASSUME NEW p \in 0..Last, NEW q \in 0..Last, Slot(p) = Slot(q)
        PROVE  p = q
    <2>1. <<p \div K + 1, p % K>> = <<q \div K + 1, q % K>>
      BY <1>3, <1>4, <1>7 DEF IInv, SlotsExact, Exact
    <2>2. p \div K + 1 = q \div K + 1 /\ p % K = q % K
      BY <2>1
    <2>3. p = Pos(p \div K + 1, p % K) /\ q = Pos(q \div K + 1, q % K)
      BY <1>2, PosSplit
    <2> QED BY <2>2, <2>3
  <1> QED BY <1>1, <1>2, <1>5, <1>6, <1>7

\* The members in a set S, by the slots they are in.
LEMMA SlotsOf ==
  ASSUME IInv, NEW S, NEW ps, ps = {p \in 0..Last : Slot(p) \in S}
  PROVE  IsListOf(ps, members \intersect S) /\ IsFiniteSet(ps)
  <1>1. /\ Last \in Int
        /\ \A p \in 0..Last : Slot(p) \in members
        /\ \A x \in members : \E p \in 0..Last : Slot(p) = x
        /\ \A p, q \in 0..Last : Slot(p) = Slot(q) => p = q
    BY SlotsOnce
  <1>2. \A x : x \in {Slot(p) : p \in ps} <=> x \in members \intersect S
    BY <1>1
  <1>3. {Slot(p) : p \in ps} = members \intersect S
    BY <1>2
  <1>4. IsFiniteSet(ps)
    <2>1. IsFiniteSet(0..Last)
      BY <1>1, FS_Interval
    <2> QED BY <2>1, FS_Subset
  <1>5. Cardinality(ps) = Cardinality(members \intersect S)
    <2> DEFINE f == [p \in ps |-> Slot(p)]
               T == members \intersect S
    <2>1. f \in [ps -> T] /\ \A p \in ps : f[p] = Slot(p)
      BY <1>1
    <2>2. \A p, q \in ps : f[p] = f[q] => p = q
      BY <1>1, <2>1
    <2>3. \A x \in T : \E p \in ps : f[p] = x
      BY <1>1, <2>1
    <2> HIDE DEF f, T
    <2>4. Cardinality(ps) = Cardinality(T)
      BY <1>4, <2>1, <2>2, <2>3, SameSize
    <2> QED BY <2>4 DEF T
  <1> QED BY <1>3, <1>4, <1>5 DEF IsListOf

\* The masks let through the slots of the list, and no others.
LEMMA LanesUsed ==
  ASSUME IInv
  PROVE  Lanes = 0..Last
  <1> DEFINE n == Len(buckets)
  <1>1. n \in Nat /\ offset \in 0..(K - 1) /\ Last = LastPos(n, offset) /\ Last \in Int
    BY SlotsOnce
  <1>2. Stored = 0..(n * K - 1) /\ n * K \in Nat /\ Pos(n + 1, 0) = n * K
    BY <1>1, KPositive DEF Stored, Pos
  <1> HIDE DEF n
  <1>3. ASSUME NEW p \in Nat
        PROVE  p \in Lanes <=> p \in 0..Last
    <2> DEFINE b == p \div K + 1
               i == p % K
    <2>1. b \in Nat \ {0} /\ i \in 0..(K - 1) /\ p = Pos(b, i)
      BY PosSplit
    <2>2. p \in Lanes <=> p \in Stored /\ i \in Mask(b)
      BY DEF Lanes
    <2>3. p \in 0..Last => <<b, i>> \in Used(n, offset)
      BY <1>1, UsedPositions
    <2> HIDE DEF b, i
    <2>4. p \in Stored <=> b <= n
      <3>1. CASE b <= n
        <4>1. Pos(b, i) < Pos(n + 1, 0)
          BY <1>1, <2>1, <3>1, PosOrder, KPositive
        <4> QED BY <1>2, <2>1, <3>1, <4>1
      <3>2. CASE b = n + 1
        <4>1. Pos(b, i) >= Pos(n + 1, 0)
          BY <1>1, <1>2, <2>1, <3>2, KPositive DEF Pos
        <4> QED BY <1>1, <1>2, <2>1, <3>2, <4>1
      <3>3. CASE n + 1 < b
        <4>1. Pos(n + 1, 0) < Pos(b, i)
          BY <1>1, <2>1, <3>3, PosOrder, KPositive
        <4> QED BY <1>1, <1>2, <2>1, <3>3, <4>1
      <3> QED BY <1>1, <2>1, <3>1, <3>2, <3>3
    <2>5. b <= n => (i \in Mask(b) <=> <<b, i>> \in Used(n, offset))
      BY <1>1, <2>1 DEF Mask, Used, n
    <2>6. <<b, i>> \in Used(n, offset) => b <= n
      BY <1>1 DEF Used
    <2>7. <<b, i>> \in Used(n, offset) => p \in 0..Last
      <3> DEFINE s == <<b, i>>
      <3>1. s \in Used(n, offset) => Pos(s[1], s[2]) \in 0..LastPos(n, offset)
        BY <1>1, UsedPositions
      <3> QED BY <1>1, <2>1, <3>1
    <2> QED BY <2>2, <2>3, <2>4, <2>5, <2>6, <2>7
  <1>4. \A p : p \in Lanes => p \in Nat
    BY <1>2 DEF Lanes
  <1>5. \A p : p \in 0..Last => p \in Nat
    BY <1>1
  <1>6. \A p : p \in Lanes <=> p \in 0..Last
    BY <1>3, <1>4, <1>5
  <1> QED BY <1>6

\* The lanes found in bucket b are the slots found in it.
LEMMA BucketFound ==
  ASSUME IInv, NEW adj, NEW b \in DOMAIN buckets, NEW c,
         NEW T, T = {p \in 0..Last : Slot(p) \in adj}, c = [p \in T |-> p \div K + 1]
  PROVE  FoundLanes(b, adj) = Cardinality(PartOf(T, c, b))
  <1> DEFINE n == Len(buckets)
             S == {i \in Mask(b) : buckets[b][i] \in adj}
             P == PartOf(T, c, b)
             f == [i \in S |-> Pos(b, i)]
  <1>1. /\ n \in Nat /\ offset \in 0..(K - 1) /\ Last = LastPos(n, offset) /\ Last \in Int
        /\ b \in 1..n
    BY SlotsOnce
  <1>2. \A i \in Mask(b) : i \in 0..(K - 1)
    BY <1>1, KPositive DEF Mask
  <1>3. \A i \in 0..(K - 1) : i \in Mask(b) <=> <<b, i>> \in Used(n, offset)
    BY <1>1 DEF Mask, Used
  <1>4. \A i \in 0..(K - 1) : /\ Pos(b, i) \in Nat /\ Pos(b, i) \div K + 1 = b /\ Pos(b, i) % K = i
    BY <1>1, PosDivMod
  <1>5. ASSUME NEW i \in S PROVE f[i] \in P
    <2>1. i \in 0..(K - 1) /\ i \in Mask(b) /\ buckets[b][i] \in adj
      BY <1>2
    <2>2. Pos(b, i) \in 0..Last
      <3> DEFINE s == <<b, i>>
      <3>1. s \in Used(n, offset)
        BY <1>3, <2>1
      <3>2. Pos(s[1], s[2]) \in 0..LastPos(n, offset)
        BY <1>1, <3>1, UsedPositions
      <3> QED BY <1>1, <3>2
    <2>3. Slot(Pos(b, i)) = buckets[b][i]
      BY <1>4, <2>1 DEF Slot
    <2> QED BY <1>4, <2>1, <2>2, <2>3 DEF PartOf
  <1>6. ASSUME NEW p \in P PROVE \E i \in S : f[i] = p
    <2> DEFINE i == p % K
    <2>1. p \in 0..Last /\ Slot(p) \in adj /\ p \div K + 1 = b
      BY DEF PartOf
    <2>2. i \in 0..(K - 1) /\ p = Pos(b, i)
      BY <1>1, <2>1, PosSplit
    <2>3. <<b, i>> \in Used(n, offset)
      BY <1>1, <2>1, UsedPositions
    <2>4. buckets[b][i] \in adj
      BY <2>1 DEF Slot
    <2> HIDE DEF i
    <2>5. i \in S
      BY <1>3, <2>2, <2>3, <2>4
    <2> QED BY <2>2, <2>5
  <1>7. \A i, j \in S : f[i] = f[j] => i = j
    BY <1>1, <1>2, PosOrder
  <1>8. IsFiniteSet(S)
    <2>1. IsFiniteSet(0..(K - 1))
      BY KPositive, FS_Interval
    <2>2. S \subseteq 0..(K - 1)
      BY <1>2
    <2> QED BY <2>1, <2>2, FS_Subset
  <1>9. f \in [S -> P]
    BY <1>5
  <1> HIDE DEF f, P, S
  <1>10. Cardinality(S) = Cardinality(P)
    BY <1>6, <1>7, <1>8, <1>9, SameSize
  <1> QED BY <1>10 DEF FoundLanes, S, P

\* Bucket by bucket, every found slot is counted once.
LEMMA FoundAddUp ==
  ASSUME IInv, NEW adj, NEW T, T = {p \in 0..Last : Slot(p) \in adj}
  PROVE  FoldFunction(+, 0, [b \in DOMAIN buckets |-> FoundLanes(b, adj)]) = Cardinality(T)
  <1> DEFINE f == [b \in DOMAIN buckets |-> FoundLanes(b, adj)]
             D == DOMAIN buckets
             c == [p \in T |-> p \div K + 1]
  <1>1. FoldFunction(+, 0, f) = SumOn(f, D)
    BY FoldIsSum
  <1>2. ASSUME NEW b \in D
        PROVE  f[b] = Cardinality(PartOf(T, c, b))
    <2>1. f[b] = FoundLanes(b, adj)
      OBVIOUS
    <2>2. c = [p \in T |-> p \div K + 1]
      OBVIOUS
    <2> HIDE DEF f, c
    <2>3. FoundLanes(b, adj) = Cardinality(PartOf(T, c, b))
      BY <2>2, BucketFound
    <2> QED BY <2>1, <2>3
  <1>3. IsFiniteSet(T)
    BY SlotsOf
  <1>4. IsFiniteSet(D)
    BY SlotsOnce, FS_Interval
  <1>5. \A p \in T : c[p] \in D
    <2> TAKE p \in T
    <2>1. <<p \div K + 1, p % K>> \in U
      BY SlotsOnce, UsedPositions DEF U
    <2> QED BY <2>1, SlotsOnce DEF U, Used
  <1> HIDE DEF f, D, c
  <1>6. SumOn(f, D) = Cardinality(T)
    BY <1>2, <1>3, <1>4, <1>5, SumOfParts
  <1> QED BY <1>1, <1>6 DEF f

(***************************************************************************)
(* intersect, intersection_size and exclude compute the set operations on  *)
(* the members of the list, each key once, for every bucket size, after    *)
(* every sequence of calls and in both builds: the masks of the AVX-512    *)
(* build let no stale slot through.                                        *)
(***************************************************************************)
THEOREM SetOperations == Spec => []SetOperationsExact
  <1>1. IInv => SetOperationsExact
    <2> SUFFICES ASSUME IInv, NEW adj \in SUBSET Elems
                 PROVE  /\ IsListOf(intersect(adj), members \intersect adj)
                        /\ intersection_size(adj) = Cardinality(members \intersect adj)
                        /\ IsListOf(exclude(adj), members \ adj)
      BY DEF SetOperationsExact
    <2>1. LookedUp = 0..Last
      BY LanesUsed DEF LookedUp
    <2>2. intersect(adj) = {p \in 0..Last : Slot(p) \in adj}
      BY <2>1 DEF intersect
    <2>3. IsListOf(intersect(adj), members \intersect adj)
      BY <2>2, SlotsOf
    <2>4. intersection_size(adj) = Cardinality(intersect(adj))
      BY <2>2, FoundAddUp DEF intersection_size
    <2>5. exclude(adj) = {p \in 0..Last : Slot(p) \in members \ adj}
      BY SlotsOnce DEF exclude
    <2>6. members \intersect (members \ adj) = members \ adj
      OBVIOUS
    <2>7. IsListOf(exclude(adj), members \intersect (members \ adj))
      BY <2>5, SlotsOf
    <2> QED BY <2>3, <2>4, <2>6, <2>7 DEF IsListOf
  <1> QED BY <1>1, Invariance, PTL
=============================================================================
