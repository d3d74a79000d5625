----------------------- MODULE SimpleHashTable_proofs ------------------------
(***************************************************************************)
(* Proofs about SimpleHashTable: whatever the hash functions are, however  *)
(* often keys are moved and rebuilds nested, a hopscotch table loses no    *)
(* key and its lookups are right.                                          *)
(***************************************************************************)
EXTENDS SimpleHashTable, FiniteSetTheorems, SequenceTheorems, WellFoundedInduction, TLAPS

(***************************************************************************)
(* The table as a value: slots A, hash function h, capacity c, buckets of  *)
(* hs slots, and the set O of the slots that are being vacated.            *)
(***************************************************************************)
Cells(c) == 0..(c - 1)

Dist(c, i, j) == (i - j) % c

\* The slot d behind slot i.
Behind(c, i, d) == (i + d) % c

In(A, c, O) == {A[i] : i \in Cells(c) \ O} \ {EMPTY_KEY}

\* A key is near its hash value, and a search from there reaches it.
Fits(A, h, c, hs, i) ==
  /\ Dist(c, i, h[A[i]]) < hs
  /\ \A d \in 0..Dist(c, i, h[A[i]]) : A[Behind(c, h[A[i]], d)] # EMPTY_KEY

Sound(A, h, c, hs, O) ==
  /\ \A i \in Cells(c) : A[i] # EMPTY_KEY => Fits(A, h, c, hs, i)
  /\ \A i, j \in Cells(c) \ O : A[i] = A[j] /\ A[i] # EMPTY_KEY => i = j

\* The hole p found for el: it is empty, or what it holds is also elsewhere,
\* and it was reached from the hash value of el without an empty slot.
HoleFor(A, h, c, el, p) ==
  /\ p \in Cells(c) /\ el \notin In(A, c, {})
  /\ A[p] # EMPTY_KEY => \E j \in Cells(c) \ {p} : A[j] = A[p]
  /\ \A e \in 0..(Dist(c, p, h[el]) - 1) : A[Behind(c, h[el], e)] # EMPTY_KEY

(***************************************************************************)
(* The calls in progress, as a value: s is the stack, G the keys handed to *)
(* the table.                                                              *)
(***************************************************************************)
Needs(f) == {f.el} \union Range(f.todo)

CallOK(f, G) ==
  /\ f.el \in G /\ Range(f.todo) \subseteq G
  /\ f.pc # "rebuild" => DOMAIN f.todo = {}

Calls(s, G) ==
  \A n \in DOMAIN s : CallOK(s[n], G) /\ (n # Len(s) => s[n].pc = "rebuild")

Owed(s) == UNION {Needs(s[n]) : n \in DOMAIN s}

-----------------------------------------------------------------------------
(***************************************************************************)
(* The inductive invariant.                                                *)
(***************************************************************************)
Todos == UNION {[D -> Keys] : D \in SUBSET Nat}

Frame == [el : Keys, cnt : 0..(nAttempts - 1), pc : {"try", "move", "rebuild"}, pos : Nat,
          todo : Todos, inner : BOOLEAN]

\* All keys of the set, those that are still in the list included.
All == given \union ToSet(elems)

Types ==
  /\ build \in Builds /\ nAttempts \in Attempts
  /\ elems \in Seq(Keys) /\ given \subseteq Keys
  /\ pc \in {"list", "hash", "hashed", "exit"}
  /\ capacity \in Nat /\ M_hash \in 0..WORD
  /\ stack \in Seq(Frame)

\* Before hashSet.
Unhashed ==
  pc = "list" => /\ elems \in Lists /\ given = {} /\ stack = << >>
                 /\ array = << >> /\ num_of_elems = 0

\* The array has room for twice the keys, and hash values are slots.
Sized ==
  pc # "list" =>
    /\ capacity > 0
    /\ DOMAIN array = 0..(phys_capacity - 1)
    /\ \A i \in DOMAIN array \ Cells(capacity) : array[i] = INVAL_KEY
    /\ hash \in [Keys -> Nat]
    /\ IsFiniteSet(All) /\ 2 * Cardinality(All) <= capacity
    /\ All # {} => /\ M_hash <= MaxBits /\ capacity = 2^M_hash
                   /\ \A k \in Keys : hash[k] \in Cells(capacity)

\* Only the running call is not rebuilding, and then it has nothing else to insert.
CallsOK ==
  /\ Calls(stack, given)
  /\ pc = "hashed" => stack = << >> /\ elems = << >>

Stored ==
  pc # "list" =>
    /\ In(array, capacity, {}) \subseteq given
    /\ given \subseteq In(array, capacity, {}) \union Owed(stack)
    /\ Sound(array, hash, capacity, HS, Hole)
    /\ num_of_elems = Cardinality(In(array, capacity, {}))

HoleOK == Running("move") => HoleFor(array, hash, capacity, top.el, top.pos)

IInv == Types /\ Unhashed /\ Sized /\ CallsOK /\ Stored /\ HoleOK

-----------------------------------------------------------------------------
(***************************************************************************)
(* Numbers: the least one of a set, remainders, and powers of two, which   *)
(* count the subsets of a set.                                             *)
(***************************************************************************)
\* Min of a non-empty set of naturals.
LEMMA LeastOf ==
  ASSUME NEW S \in SUBSET Nat, S # {}
  PROVE  Min(S) \in S /\ \A k \in S : Min(S) <= k
  <1>1. PICK m \in S : \A k \in S : <<k, m>> \notin OpToRel(<, Nat)
    BY NatLessThanWellFounded, WFMin
  <1>2. \A k \in S : ~(k < m)
    BY <1>1 DEF OpToRel
  <1>3. \A k \in S : m <= k
    BY <1>2
  <1> QED BY <1>3 DEF Min

\* Max of a non-empty set of naturals up to b.
LEMMA GreatestOf ==
  ASSUME NEW b \in Nat, NEW S \in SUBSET (0..b), S # {}
  PROVE  Max(S) \in S
  <1> DEFINE R == {b - k : k \in S}
  <1>1. R \in SUBSET Nat /\ R # {}
    <2>1. \A k \in S : k \in Int /\ k <= b
      OBVIOUS
    <2>2. \A k \in S : b - k \in Nat
      BY <2>1
    <2> QED BY <2>2
  <1>2. Min(R) \in R /\ \A k \in R : Min(R) <= k
    BY <1>1, LeastOf
  <1>3. PICK m \in S : Min(R) = b - m
    BY <1>2
  <1>4. \A k \in S : b - m <= b - k
    BY <1>2, <1>3
  <1>5. \A k \in S : m >= k
    BY <1>4
  <1> QED BY <1>5 DEF Max

\* distance, for two slots.
LEMMA DistOf ==
  ASSUME NEW c \in Nat \ {0}, NEW i \in Cells(c), NEW j \in Cells(c)
  PROVE  /\ Dist(c, i, j) = IF i >= j THEN i - j ELSE i - j + c
         /\ Dist(c, i, j) \in Cells(c)
  <1>1. i \in 0..(c - 1) /\ j \in 0..(c - 1)
    BY DEF Cells
  <1>2. CASE i >= j
    BY <1>1, <1>2 DEF Dist, Cells
  <1>3. CASE i < j
    BY <1>1, <1>3 DEF Dist, Cells
  <1> QED BY <1>1, <1>2, <1>3

LEMMA DistNat ==
  ASSUME NEW c \in Nat \ {0}, NEW i \in Cells(c), NEW j \in Cells(c)
  PROVE  Dist(c, i, j) \in Nat /\ Dist(c, i, j) < c
  <1>1. Dist(c, i, j) \in 0..(c - 1)
    BY DistOf DEF Cells
  <1> QED BY <1>1

\* The slot d behind slot i.
LEMMA BehindOf ==
  ASSUME NEW c \in Nat \ {0}, NEW i \in Cells(c), NEW d \in Cells(c)
  PROVE  /\ Behind(c, i, d) = IF i + d < c THEN i + d ELSE i + d - c
         /\ Behind(c, i, d) \in Cells(c)
  <1>1. i \in 0..(c - 1) /\ d \in 0..(c - 1)
    BY DEF Cells
  <1>2. CASE i + d < c
    BY <1>1, <1>2 DEF Behind, Cells
  <1>3. CASE i + d >= c
    BY <1>1, <1>3 DEF Behind, Cells
  <1> QED BY <1>1, <1>2, <1>3

\* Division by y of a number below z * y.
LEMMA DivBelow ==
  ASSUME NEW x \in Nat, NEW y \in Nat \ {0}, NEW z \in Nat, x < z * y
  PROVE  x \div y \in 0..(z - 1)
  <1> DEFINE q == x \div y
  <1>1. q \in Nat /\ x % y \in 0..(y - 1) /\ x = y * q + (x % y)
    OBVIOUS
  <1> HIDE DEF q
  <1>2. ASSUME q >= z PROVE FALSE
    <2>1. PICK e \in Nat : q = z + e
      <3>1. q - z \in Nat /\ q = z + (q - z)
        BY <1>1, <1>2
      <3> QED BY <3>1
    <2>2. y * q = z * y + y * e /\ y * e \in Nat
      BY <2>1
    <2> QED BY <1>1, <2>2
  <1>3. q < z
    BY <1>1, <1>2
  <1> QED BY <1>1, <1>3 DEF q

\* There are 2^n subsets of 1..n.
LEMMA SubsetsOf ==
  ASSUME NEW n \in Nat
  PROVE  /\ IsFiniteSet(SUBSET (1..n)) /\ Cardinality(SUBSET (1..n)) = 2^n
         /\ 2^n \in Nat
  <1>1. IsFiniteSet(1..n) /\ Cardinality(1..n) = n
    BY FS_Interval
  <1>2. IsFiniteSet(SUBSET (1..n)) /\ Cardinality(SUBSET (1..n)) = 2^n
    BY <1>1, FS_SUBSET
  <1> QED BY <1>2, FS_CardinalityType

\* One more element doubles the number of subsets.
LEMMA Doubled ==
  ASSUME NEW n \in Nat
  PROVE  2^(n + 1) = 2 * 2^n
  <1> DEFINE S == SUBSET (1..n)
             T == {s \union {n + 1} : s \in S}
             f == [s \in S |-> s \union {n + 1}]
  <1>1. IsFiniteSet(S) /\ Cardinality(S) = 2^n /\ 2^n \in Nat
    BY SubsetsOf
  <1>2. \A s \in S : n + 1 \notin s
    OBVIOUS
  <1>3. f \in Bijection(S, T)
    <2>1. \A s, r \in S : f[s] = f[r] => s = r
      BY <1>2
    <2>2. f \in [S -> T] /\ \A t \in T : \E s \in S : f[s] = t
      OBVIOUS
    <2> QED BY <2>1, <2>2 DEF Bijection, Injection, Surjection, IsInjective
  <1>4. IsFiniteSet(T) /\ Cardinality(T) = 2^n
    BY <1>1, <1>3, FS_Bijection DEF ExistsBijection
  <1>5. SUBSET (1..(n + 1)) = S \union T
    <2>1. ASSUME NEW s \in SUBSET (1..(n + 1)) PROVE s \in S \union T
      <3>1. CASE n + 1 \in s
        <4>1. s \ {n + 1} \in S /\ s = (s \ {n + 1}) \union {n + 1}
          BY <3>1
        <4> QED BY <4>1
      <3>2. CASE n + 1 \notin s
        BY <3>2
      <3> QED BY <3>1, <3>2
    <2>2. ASSUME NEW s \in S \union T PROVE s \in SUBSET (1..(n + 1))
      OBVIOUS
    <2> QED BY <2>1, <2>2
  <1>6. S \intersect T = {}
    BY <1>2
  <1> HIDE DEF S, T
  <1>7. Cardinality(S \union T) = 2^n + 2^n
    <2>1. Cardinality(S \union T) = Cardinality(S) + Cardinality(T) - Cardinality(S \intersect T)
      BY <1>1, <1>4, FS_Union
    <2>2. Cardinality(S \intersect T) = 0
      BY <1>6, FS_EmptySet
    <2> QED BY <1>1, <1>4, <2>1, <2>2
  <1>8. n + 1 \in Nat
    OBVIOUS
  <1>9. Cardinality(SUBSET (1..(n + 1))) = 2^(n + 1)
    BY <1>8, SubsetsOf
  <1> QED BY <1>1, <1>5, <1>7, <1>9

\* Powers of two: positive, and 2^(m + n) = 2^m * 2^n.
LEMMA PowerFacts ==
  ASSUME NEW m \in Nat, NEW n \in Nat
  PROVE  2^n \in Nat \ {0} /\ 2^(m + n) = 2^m * 2^n
  <1>1. 2^n \in Nat \ {0}
    <2>1. {} \in SUBSET (1..n)
      OBVIOUS
    <2> QED BY <2>1, SubsetsOf, FS_EmptySet
  <1>2. 2^0 = 1
    <2>1. SUBSET (1..0) = {{}}
      OBVIOUS
    <2>2. Cardinality({{}}) = 1
      BY FS_Singleton
    <2>3. Cardinality(SUBSET (1..0)) = 2^0
      BY SubsetsOf
    <2> QED BY <2>1, <2>2, <2>3
  <1> DEFINE Bad == {k \in Nat : 2^(m + k) # 2^m * 2^k}
  <1>3. ASSUME Bad # {} PROVE FALSE
    <2>1. PICK k \in Bad : \A j \in Bad : k <= j
      BY <1>3, LeastOf
    <2>2. 2^m \in Nat /\ 2^(m + 0) = 2^m * 1
      <3>1. m + 0 = m
        OBVIOUS
      <3>2. 2^m \in Nat
        BY SubsetsOf
      <3>3. 2^m * 1 = 2^m
        BY <3>2
      <3> QED BY <3>1, <3>2, <3>3
    <2>3. k # 0
      BY <1>2, <2>2
    <2>4. PICK j \in Nat : k = j + 1
      <3>1. k - 1 \in Nat /\ k = (k - 1) + 1
        BY <2>3
      <3> QED BY <3>1
    <2>5. 2^(m + j) = 2^m * 2^j
      BY <2>1, <2>4
    <2>6. m + j \in Nat /\ m + k = (m + j) + 1
      BY <2>4
    <2>7. 2^(m + k) = 2 * 2^(m + j) /\ 2^k = 2 * 2^j
      BY <2>4, <2>6, Doubled
    <2>8. 2^j \in Nat
      BY SubsetsOf
    <2>9. \A x, y \in Nat : 2 * (x * y) = x * (2 * y)
      OBVIOUS
    <2>10. 2^(m + k) = 2^m * 2^k
      BY <2>2, <2>5, <2>7, <2>8, <2>9
    <2> QED BY <2>10
  <1> QED BY <1>1, <1>3

-----------------------------------------------------------------------------
(***************************************************************************)
(* The table as a value.                                                   *)
(***************************************************************************)
\* The slots and hash values of a table of c slots.
Shaped(A, h, c, hs) ==
  /\ c \in Nat \ {0} /\ hs \in Nat \ {0}
  /\ \A i \in Cells(c) : A[i] # EMPTY_KEY => A[i] \in Keys
  /\ \A k \in Keys : h[k] \in Cells(c)

\* The slot at the distance of i from j is i, and the distance of the slot d
\* behind j is d.
LEMMA RoundTrip ==
  ASSUME NEW c \in Nat \ {0}, NEW j \in Cells(c)
  PROVE  /\ \A i \in Cells(c) : Dist(c, i, j) \in Cells(c) /\ Behind(c, j, Dist(c, i, j)) = i
         /\ \A d \in Cells(c) : Behind(c, j, d) \in Cells(c) /\ Dist(c, Behind(c, j, d), j) = d
  <1>1. ASSUME NEW i \in Cells(c)
        PROVE  Dist(c, i, j) \in Cells(c) /\ Behind(c, j, Dist(c, i, j)) = i
    <2>1. /\ Dist(c, i, j) = IF i >= j THEN i - j ELSE i - j + c
          /\ Dist(c, i, j) \in Cells(c)
      BY DistOf
    <2>2. Behind(c, j, Dist(c, i, j)) =
            IF j + Dist(c, i, j) < c THEN j + Dist(c, i, j) ELSE j + Dist(c, i, j) - c
      BY <2>1, BehindOf
    <2> QED BY <2>1, <2>2 DEF Cells
  <1>2. ASSUME NEW d \in Cells(c)
        PROVE  Behind(c, j, d) \in Cells(c) /\ Dist(c, Behind(c, j, d), j) = d
    <2>1. /\ Behind(c, j, d) = IF j + d < c THEN j + d ELSE j + d - c
          /\ Behind(c, j, d) \in Cells(c)
      BY BehindOf
    <2>2. Dist(c, Behind(c, j, d), j) =
            IF Behind(c, j, d) >= j THEN Behind(c, j, d) - j ELSE Behind(c, j, d) - j + c
      BY <2>1, DistOf
    <2> QED BY <2>1, <2>2 DEF Cells
  <1> QED BY <1>1, <1>2

\* A half empty table has an empty slot.
LEMMA EmptySlot ==
  ASSUME NEW A, NEW h, NEW c, NEW hs, Shaped(A, h, c, hs), Sound(A, h, c, hs, {}),
         NEW S, IsFiniteSet(S), In(A, c, {}) \subseteq S, Cardinality(S) < c
  PROVE  \E i \in Cells(c) : A[i] = EMPTY_KEY
  <1> SUFFICES ASSUME \A i \in Cells(c) : A[i] # EMPTY_KEY PROVE FALSE
    OBVIOUS
  <1> DEFINE f == [i \in Cells(c) |-> A[i]]
  <1>1. c \in Nat \ {0}
    BY DEF Shaped
  <1>2. IsFiniteSet(Cells(c)) /\ Cardinality(Cells(c)) = c
    BY <1>1, FS_Interval DEF Cells
  <1>3. \A i \in Cells(c) : f[i] \in S
    BY DEF In
  <1>4. \A i, j \in Cells(c) : f[i] = f[j] => i = j
    BY DEF Sound
  <1>5. f \in Injection(Cells(c), S)
    BY <1>3, <1>4 DEF Injection, IsInjective
  <1>6. Cardinality(Cells(c)) <= Cardinality(S)
    BY <1>2, <1>5, FS_Injection
  <1> QED BY <1>1, <1>2, <1>6, FS_CardinalityType

\* Where the search for a place for el stops.
Found(A, h, c, el) ==
  LET S == {i \in Cells(c) : A[Behind(c, h[el], i)] \in {EMPTY_KEY, el}}
  IN  IF S = {} THEN 0 ELSE Min(S)

(***************************************************************************)
(* The search finds el where it is, or a hole for it.  An el behind an     *)
(* empty slot is not overlooked, since there is none.                      *)
(***************************************************************************)
LEMMA FindsPlace ==
  ASSUME NEW A, NEW h, NEW c, NEW hs, Shaped(A, h, c, hs), Sound(A, h, c, hs, {}),
         NEW el \in Keys, \E i \in Cells(c) : A[i] = EMPTY_KEY,
         NEW p, p = Behind(c, h[el], Found(A, h, c, el)), A[p] # el
  PROVE  A[p] = EMPTY_KEY /\ HoleFor(A, h, c, el, p)
  <1> DEFINE S == {i \in Cells(c) : A[Behind(c, h[el], i)] \in {EMPTY_KEY, el}}
             m == Min(S)
  <1>1. c \in Nat \ {0} /\ h[el] \in Cells(c)
    BY DEF Shaped
  <1>2. \A i \in Cells(c) : A[i] \in {EMPTY_KEY, el} => Dist(c, i, h[el]) \in S
    BY <1>1, RoundTrip
  <1>3. S \in SUBSET Nat /\ S # {}
    BY <1>1, <1>2 DEF Cells
  <1>4. m \in S /\ \A k \in S : m <= k
    BY <1>3, LeastOf
  <1>5. p = Behind(c, h[el], m)
    BY <1>3 DEF Found
  <1> HIDE DEF m
  <1>6. /\ m \in Cells(c) /\ p \in Cells(c) /\ Dist(c, p, h[el]) = m
        /\ A[p] = EMPTY_KEY
    BY <1>1, <1>4, <1>5, RoundTrip
  <1>7. ASSUME NEW e \in 0..(m - 1)
        PROVE  A[Behind(c, h[el], e)] \notin {EMPTY_KEY, el}
    <2>1. e \in Cells(c) /\ ~(m <= e)
      BY <1>1, <1>6 DEF Cells
    <2> QED BY <1>4, <2>1
  <1>8. el \notin In(A, c, {})
    <2> SUFFICES ASSUME NEW i \in Cells(c), A[i] = el PROVE FALSE
      BY DEF In
    <2>1. el # EMPTY_KEY
      BY TableAssumption
    <2>2. \A d \in 0..Dist(c, i, h[el]) : A[Behind(c, h[el], d)] # EMPTY_KEY
      BY <2>1 DEF Sound, Fits
    <2>3. Dist(c, i, h[el]) \in S
      BY <1>2
    <2>4. m \in 0..Dist(c, i, h[el])
      BY <1>3, <1>4, <2>3 DEF Cells
    <2> QED BY <1>5, <1>6, <2>2, <2>4
  <1> QED BY <1>6, <1>7, <1>8 DEF HoleFor

\* While a hole is moved, the other slots hold all keys.
LEMMA HoleHides ==
  ASSUME NEW A, NEW h, NEW c, NEW el, NEW p, HoleFor(A, h, c, el, p)
  PROVE  In(A, c, {p}) = In(A, c, {})
  BY DEF HoleFor, In

\* The slots before the hole, back to the hash value of el, are taken.
LEMMA BeforeHole ==
  ASSUME NEW A, NEW h, NEW c, NEW hs, Shaped(A, h, c, hs), NEW el \in Keys,
         NEW p, HoleFor(A, h, c, el, p),
         NEW d \in Nat, 1 <= d, d <= Dist(c, p, h[el])
  PROVE  LET j == (p - d) % c
         IN  /\ j \in Cells(c) /\ j # p /\ A[j] # EMPTY_KEY
             /\ Dist(c, j, h[el]) = Dist(c, p, h[el]) - d
             /\ Dist(c, p, j) = d
  <1> DEFINE j == (p - d) % c
             t == h[el]
             D == Dist(c, p, t)
  <1>1. c \in Nat \ {0} /\ t \in Cells(c) /\ p \in Cells(c)
    BY DEF Shaped, HoleFor
  <1>2. D \in Cells(c) /\ D = IF p >= t THEN p - t ELSE p - t + c
    BY <1>1, DistOf
  <1>3. d \in Cells(c)
    BY <1>1, <1>2 DEF Cells
  <1>4. j = IF p >= d THEN p - d ELSE p - d + c
    BY <1>1, <1>3, DistOf DEF Dist
  <1>5. j \in Cells(c) /\ j # p
    BY <1>1, <1>3, <1>4 DEF Cells
  <1> HIDE DEF j
  <1>6. Dist(c, j, t) = IF j >= t THEN j - t ELSE j - t + c
    BY <1>1, <1>5, DistOf
  <1>7. Dist(c, j, t) = D - d
    BY <1>1, <1>2, <1>3, <1>4, <1>5, <1>6 DEF Cells
  <1>8. Dist(c, p, j) = d
    <2>1. Dist(c, p, j) = IF p >= j THEN p - j ELSE p - j + c
      BY <1>1, <1>5, DistOf
    <2> QED BY <1>1, <1>3, <1>4, <1>5, <2>1 DEF Cells
  <1>9. Behind(c, t, D - d) = j
    BY <1>1, <1>5, <1>7, RoundTrip
  <1>10. D - d \in 0..(D - 1)
    BY <1>2, <1>3 DEF Cells
  <1>11. A[j] # EMPTY_KEY
    BY <1>9, <1>10 DEF HoleFor
  <1> QED BY <1>5, <1>7, <1>8, <1>11 DEF j

Writes(A, p, k, A2) == A2 = [A EXCEPT ![p] = k]

\* A slot of the array is overwritten by a key k; nothing becomes empty.
LEMMA Overwritten ==
  ASSUME NEW A, NEW h, NEW c, NEW hs, Shaped(A, h, c, hs), Cells(c) \subseteq DOMAIN A,
         NEW p \in Cells(c), NEW k \in Keys, NEW A2, Writes(A, p, k, A2)
  PROVE  /\ A2[p] = k /\ \A i \in Cells(c) \ {p} : A2[i] = A[i]
         /\ \A i \in Cells(c) : A[i] # EMPTY_KEY => A2[i] # EMPTY_KEY
         /\ Shaped(A2, h, c, hs)
         /\ \A i \in Cells(c) \ {p} :
              A[i] # EMPTY_KEY /\ Fits(A, h, c, hs, i) => Fits(A2, h, c, hs, i)
  <1>1. k # EMPTY_KEY
    BY TableAssumption
  <1>2. A2[p] = k /\ \A i \in Cells(c) \ {p} : A2[i] = A[i]
    BY DEF Writes
  <1>3. \A i \in Cells(c) : A[i] # EMPTY_KEY => A2[i] # EMPTY_KEY
    BY <1>1, <1>2
  <1>4. Shaped(A2, h, c, hs)
    BY <1>2 DEF Shaped
  <1>5. ASSUME NEW i \in Cells(c) \ {p}, A[i] # EMPTY_KEY, Fits(A, h, c, hs, i)
        PROVE  Fits(A2, h, c, hs, i)
    <2> DEFINE t == h[A[i]]
    <2>1. A2[i] = A[i] /\ c \in Nat \ {0} /\ t \in Cells(c)
      BY <1>2, <1>5 DEF Shaped
    <2>2. Dist(c, i, t) \in Cells(c)
      BY <2>1, RoundTrip
    <2>3. \A d \in 0..Dist(c, i, t) : d \in Cells(c)
      BY <2>1, <2>2 DEF Cells
    <2>4. \A d \in 0..Dist(c, i, t) : Behind(c, t, d) \in Cells(c)
      BY <2>1, <2>3, RoundTrip
    <2>5. \A d \in 0..Dist(c, i, t) : A[Behind(c, t, d)] # EMPTY_KEY
      BY <1>5 DEF Fits
    <2>6. \A d \in 0..Dist(c, i, t) : A2[Behind(c, t, d)] # EMPTY_KEY
      BY <1>3, <2>4, <2>5
    <2> QED BY <1>5, <2>1, <2>6 DEF Fits
  <1> QED BY <1>2, <1>3, <1>4, <1>5

\* A key that is put into the hole, near enough to its hash value, is reached
\* from there: the slots before the hole are taken.
LEMMA FillsHole ==
  ASSUME NEW A, NEW h, NEW c, NEW hs, Shaped(A, h, c, hs), Cells(c) \subseteq DOMAIN A,
         NEW el \in Keys, NEW p, HoleFor(A, h, c, el, p),
         NEW k \in Keys, NEW A2, Writes(A, p, k, A2),
         Dist(c, p, h[k]) < hs, Dist(c, p, h[k]) <= Dist(c, p, h[el])
  PROVE  Fits(A2, h, c, hs, p)
  <1> DEFINE t == h[k]
             D == Dist(c, p, t)
  <1>1. /\ c \in Nat \ {0} /\ t \in Cells(c) /\ h[el] \in Cells(c) /\ p \in Cells(c)
        /\ k # EMPTY_KEY
    BY TableAssumption DEF Shaped, HoleFor
  <1>2. /\ A2[p] = k /\ \A i \in Cells(c) : A[i] # EMPTY_KEY => A2[i] # EMPTY_KEY
    BY <1>1, Overwritten
  <1>3. D \in Cells(c) /\ D \in Nat /\ Dist(c, p, h[el]) \in Nat
    BY <1>1, RoundTrip, DistNat
  <1>4. D = IF p >= t THEN p - t ELSE p - t + c
    BY <1>1, DistOf
  <1>5. ASSUME NEW d \in 0..D
        PROVE  A2[Behind(c, t, d)] # EMPTY_KEY
    <2>1. d \in Cells(c) /\ D - d \in Nat
      BY <1>1, <1>3, <1>5 DEF Cells
    <2>2. /\ Behind(c, t, d) = IF t + d < c THEN t + d ELSE t + d - c
          /\ Behind(c, t, d) \in Cells(c)
      BY <1>1, <2>1, BehindOf
    <2>3. CASE d = D
      <3>1. Behind(c, t, d) = p
        BY <1>1, <2>3, RoundTrip
      <3> QED BY <1>1, <1>2, <3>1
    <2>4. CASE d # D
      <3> DEFINE e == D - d
      <3>1. e \in Nat /\ 1 <= e /\ e <= Dist(c, p, h[el]) /\ e \in Cells(c)
        BY <1>1, <1>3, <1>5, <2>1, <2>4 DEF Cells
      <3>2. (p - e) % c = IF p >= e THEN p - e ELSE p - e + c
        BY <1>1, <3>1, DistOf DEF Dist
      <3>3. (p - e) % c = Behind(c, t, d)
        BY <1>1, <1>3, <1>4, <2>1, <2>2, <3>2 DEF Cells
      <3> HIDE DEF e
      <3>4. A[(p - e) % c] # EMPTY_KEY
        BY <3>1, BeforeHole
      <3> QED BY <1>2, <2>2, <3>3, <3>4
    <2> QED BY <2>3, <2>4
  <1> QED BY <1>2, <1>5 DEF Fits

(***************************************************************************)
(* Moving a key into the hole: the key is where it may be, and its old     *)
(* slot is the new hole.                                                   *)
(***************************************************************************)
LEMMA MoveKeeps ==
  ASSUME NEW A, NEW h, NEW c, NEW hs, Shaped(A, h, c, hs), Cells(c) \subseteq DOMAIN A,
         NEW el \in Keys, NEW p, HoleFor(A, h, c, el, p), Sound(A, h, c, hs, {p}),
         Dist(c, p, h[el]) >= hs, NEW d \in 1..(hs - 1), NEW j, j = (p - d) % c,
         NEW k \in Keys, k = A[j], Dist(c, p, h[k]) <= hs - 1,
         NEW A2, Writes(A, p, k, A2)
  PROVE  /\ Sound(A2, h, c, hs, {j}) /\ HoleFor(A2, h, c, el, j)
         /\ In(A2, c, {}) = In(A, c, {}) /\ j \in Cells(c)
  <1>1. /\ c \in Nat \ {0} /\ hs \in Nat \ {0} /\ h[el] \in Cells(c) /\ p \in Cells(c)
    BY DEF Shaped, HoleFor
  <1>2. Dist(c, p, h[el]) \in Nat
    BY <1>1, DistNat
  <1>3. d \in Nat /\ 1 <= d /\ d <= Dist(c, p, h[el])
    BY <1>1, <1>2
  <1>4. /\ j \in Cells(c) /\ j # p /\ A[j] # EMPTY_KEY
        /\ Dist(c, j, h[el]) = Dist(c, p, h[el]) - d
    BY <1>3, BeforeHole
  <1>6. /\ A2[p] = k /\ \A i \in Cells(c) \ {p} : A2[i] = A[i]
        /\ \A i \in Cells(c) : A[i] # EMPTY_KEY => A2[i] # EMPTY_KEY
        /\ \A i \in Cells(c) \ {p} :
             A[i] # EMPTY_KEY /\ Fits(A, h, c, hs, i) => Fits(A2, h, c, hs, i)
    <2>1. /\ A2[p] = k /\ \A i \in Cells(c) \ {p} : A2[i] = A[i]
          /\ \A i \in Cells(c) : A[i] # EMPTY_KEY => A2[i] # EMPTY_KEY
      BY <1>1, Overwritten
    <2>2. \A i \in Cells(c) \ {p} :
             A[i] # EMPTY_KEY /\ Fits(A, h, c, hs, i) => Fits(A2, h, c, hs, i)
      BY <1>1, Overwritten
    <2> QED BY <2>1, <2>2
  <1>7. Fits(A2, h, c, hs, p)
    <2>1. h[k] \in Cells(c)
      BY DEF Shaped
    <2>2. Dist(c, p, h[k]) \in Nat
      BY <1>1, <2>1, DistNat
    <2>3. Dist(c, p, h[k]) < hs /\ Dist(c, p, h[k]) <= Dist(c, p, h[el])
      BY <1>1, <1>2, <2>2
    <2> QED BY <2>3, FillsHole
  <1>8. Sound(A2, h, c, hs, {j})
    <2>1. ASSUME NEW i \in Cells(c), A2[i] # EMPTY_KEY PROVE Fits(A2, h, c, hs, i)
      <3>1. CASE i = p
        BY <1>7, <3>1
      <3>2. CASE i # p
        BY <1>6, <2>1, <3>2 DEF Sound
      <3> QED BY <3>1, <3>2
    <2>2. ASSUME NEW i \in Cells(c) \ {j}, NEW l \in Cells(c) \ {j}, A2[i] = A2[l],
                 A2[i] # EMPTY_KEY
          PROVE  i = l
      <3>1. \A a, b \in Cells(c) \ {p} : A[a] = A[b] /\ A[a] # EMPTY_KEY => a = b
        BY DEF Sound
      <3>2. CASE i = p /\ l # p
        <4>1. A[j] = A[l]
          BY <1>6, <2>2, <3>2
        <4> QED BY <1>4, <2>2, <3>1, <3>2, <4>1
      <3>3. CASE i # p /\ l = p
        <4>1. A[j] = A[i]
          BY <1>6, <2>2, <3>3
        <4> QED BY <1>4, <2>2, <3>1, <3>3, <4>1
      <3>4. CASE i # p /\ l # p
        BY <1>6, <2>2, <3>1, <3>4
      <3> QED BY <3>2, <3>3, <3>4
    <2> QED BY <2>1, <2>2 DEF Sound
  <1>9. In(A2, c, {}) = In(A, c, {})
    <2>1. ASSUME NEW y \in In(A, c, {}) PROVE y \in In(A2, c, {})
      <3>1. PICK i \in Cells(c) \ {p} : A[i] = y
        BY <2>1, HoleHides DEF In
      <3> QED BY <1>6, <2>1, <3>1 DEF In
    <2>2. ASSUME NEW y \in In(A2, c, {}) PROVE y \in In(A, c, {})
      BY <1>4, <1>6, <2>2 DEF In
    <2> QED BY <2>1, <2>2
  <1>10. HoleFor(A2, h, c, el, j)
    <2>1. el \notin In(A2, c, {})
      BY <1>9 DEF HoleFor
    <2>2. p \in Cells(c) \ {j} /\ A2[p] = A2[j]
      BY <1>1, <1>4, <1>6
    <2>3. ASSUME NEW e \in 0..(Dist(c, j, h[el]) - 1)
          PROVE  A2[Behind(c, h[el], e)] # EMPTY_KEY
      <3>1. e \in 0..(Dist(c, p, h[el]) - 1)
        BY <1>2, <1>3, <1>4, <2>3
      <3>2. e \in Cells(c)
        <4> DEFINE D == Dist(c, p, h[el])
        <4>1. D \in Nat /\ D < c /\ c \in Nat
          BY <1>1, DistNat
        <4> HIDE DEF D
        <4>2. e \in 0..(D - 1)
          BY <3>1 DEF D
        <4> QED BY <4>1, <4>2 DEF Cells
      <3>3. Behind(c, h[el], e) \in Cells(c)
        BY <1>1, <3>2, RoundTrip
      <3>4. A[Behind(c, h[el], e)] # EMPTY_KEY
        BY <3>1 DEF HoleFor
      <3> QED BY <1>6, <3>3, <3>4
    <2> QED BY <1>4, <2>1, <2>2, <2>3 DEF HoleFor
  <1> QED BY <1>4, <1>8, <1>9, <1>10

\* Putting el into a hole that is near enough.
LEMMA PlaceKeeps ==
  ASSUME NEW A, NEW h, NEW c, NEW hs, Shaped(A, h, c, hs), Cells(c) \subseteq DOMAIN A,
         NEW el \in Keys, NEW p, HoleFor(A, h, c, el, p), Sound(A, h, c, hs, {p}),
         Dist(c, p, h[el]) < hs, NEW A2, Writes(A, p, el, A2)
  PROVE  /\ Sound(A2, h, c, hs, {}) /\ In(A2, c, {}) = In(A, c, {}) \union {el}
         /\ el \notin In(A, c, {}) /\ p \in Cells(c)
  <1>1. /\ c \in Nat \ {0} /\ hs \in Nat \ {0} /\ h[el] \in Cells(c) /\ p \in Cells(c)
        /\ el # EMPTY_KEY /\ el \notin In(A, c, {})
    BY TableAssumption DEF Shaped, HoleFor
  <1>2. /\ A2[p] = el /\ \A i \in Cells(c) \ {p} : A2[i] = A[i]
        /\ \A i \in Cells(c) \ {p} :
             A[i] # EMPTY_KEY /\ Fits(A, h, c, hs, i) => Fits(A2, h, c, hs, i)
    BY <1>1, Overwritten
  <1>3. Fits(A2, h, c, hs, p)
    <2>1. Dist(c, p, h[el]) \in Nat
      BY <1>1, DistNat
    <2>2. Dist(c, p, h[el]) <= Dist(c, p, h[el])
      BY <2>1
    <2> QED BY <2>2, FillsHole
  <1>4. \A i \in Cells(c) : A[i] # el
    BY <1>1 DEF In
  <1>5. Sound(A2, h, c, hs, {})
    <2>1. ASSUME NEW i \in Cells(c), A2[i] # EMPTY_KEY PROVE Fits(A2, h, c, hs, i)
      <3>1. CASE i = p
        BY <1>3, <3>1
      <3>2. CASE i # p
        BY <1>2, <2>1, <3>2 DEF Sound
      <3> QED BY <3>1, <3>2
    <2>2. ASSUME NEW i \in Cells(c), NEW l \in Cells(c), A2[i] = A2[l], A2[i] # EMPTY_KEY
          PROVE  i = l
      BY <1>2, <1>4, <2>2 DEF Sound
    <2> QED BY <2>1, <2>2 DEF Sound
  <1>6. In(A2, c, {}) = In(A, c, {}) \union {el}
    <2>1. ASSUME NEW y \in In(A, c, {}) PROVE y \in In(A2, c, {})
      <3>1. PICK i \in Cells(c) \ {p} : A[i] = y
        BY <2>1, HoleHides DEF In
      <3> QED BY <1>2, <2>1, <3>1 DEF In
    <2>2. ASSUME NEW y \in In(A2, c, {}) PROVE y \in In(A, c, {}) \union {el}
      BY <1>2, <2>2 DEF In
    <2>3. el \in In(A2, c, {})
      BY <1>1, <1>2 DEF In
    <2> QED BY <2>1, <2>2, <2>3
  <1> QED BY <1>1, <1>5, <1>6

-----------------------------------------------------------------------------
(***************************************************************************)
(* reserve.                                                                *)
(***************************************************************************)
\* The bits of a capacity that has room for twice cap keys.
LEMMA BitsEnough ==
  ASSUME NEW cap \in Nat \ {0}, NEW m \in 0..MaxBits, 2 * cap <= 2^m
  PROVE  BitLength(2 * cap - 1) \in 0..m /\ 2 * cap <= 2^BitLength(2 * cap - 1)
  <1> DEFINE n == 2 * cap - 1
             S == {b \in 0..WORD : n < 2^b}
  <1>1. WORD \in Nat /\ MaxBits \in Nat /\ MaxBits < WORD
    BY TableAssumption
  <1>2. m \in Nat /\ m \in 0..WORD /\ n \in Nat
    BY <1>1
  <1>3. 2^m \in Nat
    BY <1>2, PowerFacts
  <1>4. m \in S
    BY <1>2, <1>3
  <1>5. S \in SUBSET Nat /\ S # {}
    <2>1. 0..WORD \subseteq Nat
      BY <1>1
    <2> QED BY <1>4, <2>1
  <1>6. Min(S) \in S /\ \A k \in S : Min(S) <= k
    BY <1>5, LeastOf
  <1>7. BitLength(n) = Min(S)
    BY <1>2 DEF BitLength
  <1> DEFINE b == Min(S)
  <1>8. b \in 0..m /\ n < 2^b
    BY <1>4, <1>6
  <1> HIDE DEF b
  <1>9. 2^b \in Nat
    <2>1. b \in Nat
      BY <1>8
    <2> QED BY <2>1, PowerFacts
  <1>10. 2 * cap <= 2^b
    BY <1>8, <1>9
  <1> QED BY <1>7, <1>8, <1>10 DEF b

\* Hash values of the given number of bits.
LEMMA HashBelow ==
  ASSUME NEW bits \in 0..WORD, NEW f \in HashFunctions(bits)
  PROVE  DOMAIN f = Keys /\ \A k \in Keys : f[k] \in 0..(2^bits - 1)
  <1>1. WORD \in Nat /\ WORD - 2 \in Nat /\ bits \in Nat /\ WORD - bits \in Nat
    BY TableAssumption
  <1>2. 2^WORD \in Nat \ {0} /\ 2^(WORD - 2) \in Nat /\ 2^(WORD - bits) \in Nat \ {0} /\ 2^bits \in Nat
    BY <1>1, PowerFacts
  <1>3. PICK a \in 0..(2^(WORD - 2) - 1), b \in 0..(2^(WORD - bits) - 1) :
          f = hashFunction(2 * a + 1, b, bits)
    BY DEF HashFunctions
  <1>4. a \in Nat /\ b \in Nat
    BY <1>2
  <1>5. 2^WORD = 2^bits * 2^(WORD - bits)
    <2>1. WORD = bits + (WORD - bits)
      BY <1>1
    <2> QED BY <1>1, <2>1, PowerFacts
  <1>6. ASSUME NEW k \in Keys
        PROVE  ((k * (2 * a + 1) + b) % 2^WORD) \div 2^(WORD - bits) \in 0..(2^bits - 1)
    <2> DEFINE w == 2^WORD
               y == 2^(WORD - bits)
               z == 2^bits
               u == k * (2 * a + 1) + b
               x == u % w
    <2>1. u \in Nat
      <3>1. k \in Nat
        BY TableAssumption
      <3>2. \A p, q, r \in Nat : p * (2 * q + 1) + r \in Nat
        OBVIOUS
      <3> QED BY <1>4, <3>1, <3>2
    <2>2. w \in Nat \ {0} /\ y \in Nat \ {0} /\ z \in Nat /\ w = z * y
      BY <1>2, <1>5
    <2> HIDE DEF u, w, y, z
    <2>3. x \in Nat /\ x < w
      BY <2>1, <2>2
    <2> HIDE DEF x
    <2>4. x \div y \in 0..(z - 1)
      BY <2>2, <2>3, DivBelow
    <2> QED BY <2>4 DEF u, w, y, z, x
  <1> QED BY <1>3, <1>6 DEF hashFunction

\* c empty slots, with v - 1 slots behind them that never match.
Fresh(A, c, v) ==
  /\ DOMAIN A = 0..(c + v - 1 - 1)
  /\ \A i \in DOMAIN A \ Cells(c) : A[i] = INVAL_KEY
  /\ \A i \in Cells(c) : i \in DOMAIN A /\ A[i] = EMPTY_KEY

LEMMA FreshArray ==
  ASSUME NEW c \in Nat \ {0}, NEW v \in Nat \ {0}, NEW A,
         A = [i \in 0..(c + v - 2) |-> IF i < c THEN EMPTY_KEY ELSE INVAL_KEY]
  PROVE  Fresh(A, c, v)
  <1>1. c + v - 1 - 1 = c + v - 2
    OBVIOUS
  <1>2. \A i \in 0..(c + v - 2) : i \notin Cells(c) => ~(i < c)
    BY DEF Cells
  <1>3. \A i \in Cells(c) : i \in 0..(c + v - 2) /\ i < c
    BY DEF Cells
  <1>4. DOMAIN A = 0..(c + v - 2)
    OBVIOUS
  <1>5. DOMAIN A = 0..(c + v - 1 - 1)
    BY <1>1, <1>4
  <1>6. \A i \in DOMAIN A \ Cells(c) : A[i] = INVAL_KEY
    BY <1>2, <1>4
  <1>7. \A i \in Cells(c) : i \in DOMAIN A /\ A[i] = EMPTY_KEY
    BY <1>3
  <1> QED BY <1>5, <1>6, <1>7 DEF Fresh

\* The array that reserve makes.
LEMMA ReserveArray ==
  ASSUME NEW cap, reserve(cap), capacity' \in Nat \ {0}, build \in Builds, build' = build
  PROVE  /\ DOMAIN array' = 0..(phys_capacity' - 1)
         /\ \A i \in DOMAIN array' \ Cells(capacity') : array'[i] = INVAL_KEY
         /\ \A i \in Cells(capacity') : i \in DOMAIN array' /\ array'[i] = EMPTY_KEY
         /\ num_of_elems' = 0
  <1>1. build.VECTOR \in Nat \ {0}
    BY TableAssumption
  <1>2. /\ array' = [i \in 0..(capacity' + build.VECTOR - 2) |->
                       IF i < capacity' THEN EMPTY_KEY ELSE INVAL_KEY]
        /\ num_of_elems' = 0
    BY DEF reserve
  <1>4. Fresh(array', capacity', build.VECTOR)
    BY <1>1, <1>2, FreshArray
  <1>5. DOMAIN array' = 0..(phys_capacity' - 1)
    <2>1. DOMAIN array' = 0..(capacity' + build.VECTOR - 1 - 1)
      BY <1>4 DEF Fresh
    <2> QED BY <1>1, <2>1 DEF phys_capacity
  <1>6. \A i \in DOMAIN array' \ Cells(capacity') : array'[i] = INVAL_KEY
    BY <1>4 DEF Fresh
  <1>7. \A i \in Cells(capacity') : i \in DOMAIN array' /\ array'[i] = EMPTY_KEY
    BY <1>4 DEF Fresh
  <1> QED BY <1>2, <1>5, <1>6, <1>7

\* reserve for some keys: twice as many slots at least, and hash values in them.
LEMMA ReserveSome ==
  ASSUME NEW cap \in Nat \ {0}, NEW m \in 0..MaxBits, 2 * cap <= 2^m, reserve(cap)
  PROVE  /\ M_hash' \in 0..m /\ capacity' = 2^(M_hash') /\ capacity' \in Nat \ {0}
         /\ 2 * cap <= capacity'
         /\ hash' \in [Keys -> Nat] /\ \A k \in Keys : hash'[k] \in Cells(capacity')
  <1>1. M_hash' \in 0..m /\ 2 * cap <= 2^(M_hash')
    BY BitsEnough DEF reserve
  <1>2. WORD \in Nat /\ MaxBits \in Nat /\ MaxBits < WORD
    BY TableAssumption
  <1>3. M_hash' \in 0..WORD /\ M_hash' \in Nat /\ M_hash' # WORD
    BY <1>1, <1>2
  <1>4. capacity' = 2^(M_hash')
    BY <1>3 DEF reserve, Capacity
  <1>5. 2^(M_hash') \in Nat \ {0}
    BY <1>3, PowerFacts
  <1>6. DOMAIN hash' = Keys /\ \A k \in Keys : hash'[k] \in 0..(2^(M_hash') - 1)
    BY <1>3, HashBelow DEF reserve
  <1>7. \A k \in Keys : hash'[k] \in Cells(capacity') /\ hash'[k] \in Nat
    BY <1>4, <1>5, <1>6 DEF Cells
  <1>8. hash' \in [Keys -> Nat]
    <2>1. hash' = [k \in Keys |-> hash'[k]]
      BY DEF reserve, HashFunctions, hashFunction
    <2> QED BY <1>7, <2>1
  <1> QED BY <1>1, <1>4, <1>5, <1>7, <1>8

\* reserve for no key: the shift by WORD leaves one slot.
LEMMA ReserveNone ==
  ASSUME reserve(0)
  PROVE  /\ M_hash' \in 0..WORD /\ capacity' = 1 /\ hash' \in [Keys -> Nat]
  <1>1. WORD \in Nat
    BY TableAssumption
  <1>2. M_hash' = WORD /\ capacity' = 1
    BY <1>1 DEF reserve, BitLength, Capacity
  <1>3. WORD \in 0..WORD /\ 2^WORD \in Nat
    BY <1>1, PowerFacts
  <1>4. DOMAIN hash' = Keys /\ \A k \in Keys : hash'[k] \in 0..(2^WORD - 1)
    BY <1>2, <1>3, HashBelow DEF reserve
  <1>5. \A k \in Keys : hash'[k] \in Nat
    BY <1>3, <1>4
  <1>6. hash' = [k \in Keys |-> hash'[k]]
    BY DEF reserve, HashFunctions, hashFunction
  <1> QED BY <1>2, <1>3, <1>5, <1>6

-----------------------------------------------------------------------------
(***************************************************************************)
(* The stack of calls.                                                     *)
(***************************************************************************)
\* The steps of the stack, from s to r.
Pops(s, r) == r = Front(s)

Sets(s, f, r) == r = [s EXCEPT ![Len(s)] = f]

Pushes(s, f, r) == r = Append(s, f)

\* A call returns: its caller is rebuilding.
LEMMA Popped ==
  ASSUME NEW F, NEW s \in Seq(F), s # << >>, NEW G, Calls(s, G), NEW r, Pops(s, r)
  PROVE  /\ r \in Seq(F) /\ Calls(r, G) /\ (r # << >> => Last(r).pc = "rebuild")
         /\ Owed(s) \subseteq Owed(r) \union Needs(Last(s))
  <1> DEFINE n == Len(s)
  <1>1. n \in Nat \ {0} /\ DOMAIN s = 1..n
    BY EmptySeq, LenProperties
  <1>2. /\ r \in Seq(F) /\ Len(r) = n - 1 /\ DOMAIN r = 1..(n - 1)
        /\ \A i \in 1..(n - 1) : r[i] = s[i]
    BY <1>1 DEF Front, Pops
  <1> HIDE DEF n
  <1>3. Calls(r, G)
    BY <1>1, <1>2 DEF Calls, n
  <1>4. ASSUME r # << >> PROVE Last(r).pc = "rebuild"
    <2>1. n - 1 \in 1..(n - 1) /\ n - 1 # n /\ n - 1 \in DOMAIN s
      BY <1>1, <1>2, <1>4
    <2> QED BY <1>2, <2>1 DEF Last, Calls, n
  <1>5. Owed(s) \subseteq Owed(r) \union Needs(Last(s))
    <2> SUFFICES ASSUME NEW i \in DOMAIN s PROVE Needs(s[i]) \subseteq Owed(r) \union Needs(Last(s))
      BY DEF Owed
    <2>1. CASE i = n
      BY <2>1 DEF Last, n
    <2>2. CASE i # n
      <3>1. i \in DOMAIN r /\ r[i] = s[i]
        BY <1>1, <1>2, <2>2
      <3> QED BY <3>1 DEF Owed
    <2> QED BY <2>1, <2>2
  <1> QED BY <1>2, <1>3, <1>4, <1>5

\* The running call changes.
LEMMA TopSet ==
  ASSUME NEW F, NEW s \in Seq(F), s # << >>, NEW G, Calls(s, G),
         NEW f \in F, CallOK(f, G), NEW r, Sets(s, f, r)
  PROVE  /\ r \in Seq(F) /\ r # << >> /\ Last(r) = f /\ Calls(r, G)
         /\ Owed(s) \subseteq Owed(r) \union Needs(Last(s)) /\ Needs(f) \subseteq Owed(r)
  <1> DEFINE n == Len(s)
  <1>1. n \in Nat \ {0} /\ DOMAIN s = 1..n /\ n \in 1..n
    BY EmptySeq, LenProperties
  <1>2. /\ r \in Seq(F) /\ Len(r) = n
        /\ \A i \in 1..n : r[i] = IF i = n THEN f ELSE s[i]
    BY <1>1, ExceptSeq DEF Sets
  <1>3. DOMAIN r = 1..n
    BY <1>2, LenProperties
  <1>4. r # << >> /\ Last(r) = f
    BY <1>1, <1>2 DEF Last
  <1> HIDE DEF n
  <1>5. Calls(r, G)
    BY <1>1, <1>2, <1>3 DEF Calls, n
  <1>6. Needs(f) \subseteq Owed(r)
    <2>1. n \in DOMAIN r /\ r[n] = f
      BY <1>1, <1>2, <1>3
    <2> QED BY <2>1 DEF Owed
  <1>7. Owed(s) \subseteq Owed(r) \union Needs(Last(s))
    <2> SUFFICES ASSUME NEW i \in DOMAIN s PROVE Needs(s[i]) \subseteq Owed(r) \union Needs(Last(s))
      BY DEF Owed
    <2>1. CASE i = n
      BY <2>1 DEF Last, n
    <2>2. CASE i # n
      <3>1. i \in DOMAIN r /\ r[i] = s[i]
        BY <1>1, <1>2, <1>3, <2>2
      <3> QED BY <3>1 DEF Owed
    <2> QED BY <2>1, <2>2
  <1> QED BY <1>2, <1>4, <1>5, <1>6, <1>7

\* A call is made, by one that is rebuilding.
LEMMA Pushed ==
  ASSUME NEW F, NEW s \in Seq(F), NEW G, Calls(s, G), s # << >> => Last(s).pc = "rebuild",
         NEW f \in F, CallOK(f, G), NEW r, Pushes(s, f, r)
  PROVE  /\ r \in Seq(F) /\ r # << >> /\ Last(r) = f /\ Calls(r, G)
         /\ Owed(s) \subseteq Owed(r) /\ Needs(f) \subseteq Owed(r)
  <1> DEFINE n == Len(s)
  <1>1. n \in Nat /\ DOMAIN s = 1..n
    BY LenProperties
  <1>2. /\ r \in Seq(F) /\ Len(r) = n + 1 /\ DOMAIN r = 1..(n + 1)
        /\ \A i \in 1..n : r[i] = s[i]
        /\ r[n + 1] = f
    BY <1>1 DEF Pushes
  <1>3. r # << >> /\ Last(r) = f
    BY <1>1, <1>2 DEF Last
  <1>4. n # 0 => s[n].pc = "rebuild"
    <2>1. n # 0 => s # << >>
      OBVIOUS
    <2> QED BY <2>1 DEF Last
  <1> HIDE DEF n
  <1>5. Calls(r, G)
    <2> SUFFICES ASSUME NEW i \in DOMAIN r
                 PROVE  CallOK(r[i], G) /\ (i # Len(r) => r[i].pc = "rebuild")
      BY DEF Calls
    <2>1. CASE i = n + 1
      BY <1>2, <2>1
    <2>2. CASE i # n + 1
      <3>1. i \in DOMAIN s /\ r[i] = s[i] /\ n # 0
        BY <1>1, <1>2, <2>2
      <3> QED BY <1>4, <3>1 DEF Calls, n
    <2> QED BY <2>1, <2>2
  <1>6. Needs(f) \subseteq Owed(r)
    <2>1. n + 1 \in DOMAIN r /\ r[n + 1] = f
      BY <1>1, <1>2
    <2> QED BY <2>1 DEF Owed
  <1>7. Owed(s) \subseteq Owed(r)
    <2> SUFFICES ASSUME NEW i \in DOMAIN s PROVE Needs(s[i]) \subseteq Owed(r)
      BY DEF Owed
    <2>1. i \in DOMAIN r /\ r[i] = s[i]
      BY <1>1, <1>2
    <2> QED BY <2>1 DEF Owed
  <1> QED BY <1>2, <1>3, <1>5, <1>6, <1>7

-----------------------------------------------------------------------------
(***************************************************************************)
(* The steps.                                                              *)
(***************************************************************************)
\* The members of a list: no more than it has places.
LEMMA ListSet ==
  ASSUME NEW l \in Seq(Keys)
  PROVE  IsFiniteSet(ToSet(l)) /\ Cardinality(ToSet(l)) \in Nat /\ Cardinality(ToSet(l)) <= Len(l)
  <1>1. Len(l) \in Nat /\ DOMAIN l = 1..Len(l) /\ l \in [1..Len(l) -> Keys]
    BY LenProperties
  <1>2. IsFiniteSet(1..Len(l)) /\ Cardinality(1..Len(l)) = Len(l)
    BY <1>1, FS_Interval
  <1>3. l \in Surjection(1..Len(l), ToSet(l))
    BY <1>1 DEF Surjection, ToSet
  <1>4. IsFiniteSet(ToSet(l)) /\ Cardinality(ToSet(l)) <= Len(l)
    BY <1>2, <1>3, FS_Surjection
  <1> QED BY <1>4, FS_CardinalityType

\* An empty table is sound.
LEMMA EmptyTable ==
  ASSUME NEW A, NEW c, \A i \in Cells(c) : A[i] = EMPTY_KEY, NEW h, NEW hs, NEW O
  PROVE  Sound(A, h, c, hs, O) /\ In(A, c, {}) = {} /\ Cardinality(In(A, c, {})) = 0
  <1>1. Sound(A, h, c, hs, O)
    BY DEF Sound
  <1>2. In(A, c, {}) = {}
    BY DEF In
  <1> QED BY <1>1, <1>2, FS_EmptySet

LEMMA Starts ==
  ASSUME Init
  PROVE  IInv
  <1>1. elems \in Seq(Keys) /\ 0 \in 0..WORD /\ WORD \in Nat
    BY TableAssumption DEF Init
  <1>2. stack \in Seq(Frame) /\ DOMAIN stack = {} /\ stack = << >>
    BY EmptySeq DEF Init
  <1>3. Types
    BY <1>1, <1>2 DEF Init, Types
  <1>4. CallsOK
    BY <1>2 DEF Init, CallsOK, Calls
  <1>5. Unhashed /\ Sized /\ Stored /\ HoleOK
    BY DEF Init, Unhashed, Sized, Stored, HoleOK, Running
  <1> QED BY <1>3, <1>4, <1>5 DEF IInv

\* What is used of the table while a call is running.
LEMMA AtCall ==
  ASSUME IInv, pc # "list", stack # << >>
  PROVE  /\ Shaped(array, hash, capacity, HS) /\ Cells(capacity) \subseteq DOMAIN array
         /\ top \in Frame /\ CallOK(top, given) /\ top.el \in Keys
         /\ (Running("move") => Hole = {top.pos}) /\ (~Running("move") => Hole = {})
  <1>1. Len(stack) \in DOMAIN stack /\ top \in Frame
    <2>1. Len(stack) \in Nat \ {0} /\ DOMAIN stack = 1..Len(stack)
      BY EmptySeq, LenProperties DEF IInv, Types
    <2>2. Len(stack) \in 1..Len(stack)
      BY <2>1
    <2> QED BY <2>1, <2>2, ElementOfSeq DEF IInv, Types, top, Last
  <1>2. CallOK(top, given)
    BY <1>1 DEF IInv, CallsOK, Calls, top, Last
  <1>3. top.el \in Keys /\ All # {}
    BY <1>2 DEF CallOK, IInv, Types, All
  <1>4. HS \in Nat \ {0} /\ build.VECTOR \in Nat \ {0}
    BY TableAssumption DEF IInv, Types, HS
  <1>5. capacity \in Nat \ {0} /\ \A k \in Keys : hash[k] \in Cells(capacity)
    BY <1>3 DEF IInv, Sized, Types
  <1>6. \A i \in Cells(capacity) : array[i] # EMPTY_KEY => array[i] \in Keys
    BY DEF IInv, Stored, In, Types
  <1>7. Shaped(array, hash, capacity, HS)
    BY <1>4, <1>5, <1>6 DEF Shaped
  <1>8. Cells(capacity) \subseteq DOMAIN array
    <2>1. DOMAIN array = 0..(capacity + build.VECTOR - 1 - 1)
      BY <1>4, <1>5 DEF IInv, Sized, phys_capacity
    <2> QED BY <1>4, <1>5, <2>1 DEF Cells
  <1>9. (Running("move") => Hole = {top.pos}) /\ (~Running("move") => Hole = {})
    BY DEF Hole
  <1> QED BY <1>1, <1>2, <1>3, <1>7, <1>8, <1>9

\* A step that leaves the table alone.
LEMMA TableKept ==
  ASSUME IInv, pc # "list", pc' # "list", UNCHANGED <<build, table>>, All' = All
  PROVE  Unhashed' /\ Sized' /\ In(array, capacity, {})' = In(array, capacity, {})
  <1>1. Unhashed'
    BY DEF Unhashed
  <1>2. Sized
    BY DEF IInv
  <1>3. array' = array /\ capacity' = capacity /\ M_hash' = M_hash /\ hash' = hash
    BY DEF table
  <1>4. phys_capacity' = phys_capacity
    BY <1>3 DEF phys_capacity
  <1>5. Sized'
    BY <1>2, <1>3, <1>4 DEF Sized
  <1> QED BY <1>1, <1>3, <1>5

\* hashSet makes an empty table with room for all keys.
LEMMA HashSetStep ==
  ASSUME IInv, hashSet
  PROVE  IInv'
  <1>1. /\ pc = "list" /\ pc' = "hash" /\ reserve(Len(elems))
        /\ UNCHANGED <<build, nAttempts, elems, stack, given>>
    BY DEF hashSet
  <1>2. elems \in Lists /\ elems \in Seq(Keys) /\ given = {} /\ stack = << >>
    BY <1>1 DEF IInv, Unhashed, Types
  <1>3. /\ All' = ToSet(elems) /\ All = ToSet(elems) /\ Len(elems) \in Nat
        /\ IsFiniteSet(All') /\ Cardinality(All') \in Nat /\ Cardinality(All') <= Len(elems)
    <2>1. All' = ToSet(elems) /\ All = ToSet(elems)
      BY <1>1, <1>2 DEF All
    <2> QED BY <1>2, <2>1, ListSet, LenProperties
  <1>4. /\ M_hash' \in 0..WORD /\ capacity' \in Nat \ {0} /\ hash' \in [Keys -> Nat]
        /\ 2 * Cardinality(All') <= capacity'
        /\ All' # {} => /\ M_hash' <= MaxBits /\ capacity' = 2^(M_hash')
                        /\ \A k \in Keys : hash'[k] \in Cells(capacity')
    <2>1. CASE Len(elems) = 0
      <3>1. elems = << >> /\ All' = {} /\ Cardinality(All') = 0
        <4>1. elems = << >> /\ DOMAIN elems = {}
          BY <1>2, <2>1, EmptySeq
        <4>2. All' = {}
          BY <1>3, <4>1 DEF ToSet
        <4> QED BY <4>1, <4>2, FS_EmptySet
      <3>2. M_hash' \in 0..WORD /\ capacity' = 1 /\ hash' \in [Keys -> Nat]
        BY <1>1, <2>1, ReserveNone
      <3> QED BY <3>1, <3>2
    <2>2. CASE Len(elems) # 0
      <3> DEFINE cap == Len(elems)
      <3>1. MaxBits \in 0..MaxBits /\ cap \in Nat \ {0} /\ 2 * cap <= 2^MaxBits /\ MaxBits < WORD
            /\ MaxBits \in Nat /\ WORD \in Nat
        BY <1>2, <1>3, <2>2, TableAssumption
      <3>2. /\ M_hash' \in 0..MaxBits /\ capacity' = 2^(M_hash') /\ capacity' \in Nat \ {0}
            /\ 2 * cap <= capacity' /\ hash' \in [Keys -> Nat]
        BY <1>1, <3>1, ReserveSome
      <3>3. \A k \in Keys : hash'[k] \in Cells(capacity')
        BY <1>1, <3>1, ReserveSome
      <3>4. M_hash' \in 0..WORD /\ M_hash' <= MaxBits
        BY <3>1, <3>2
      <3>5. 2 * Cardinality(All') <= capacity'
        BY <1>3, <3>2
      <3> QED BY <3>2, <3>3, <3>4, <3>5
    <2> QED BY <2>1, <2>2
  <1>5. /\ DOMAIN array' = 0..(phys_capacity' - 1)
        /\ \A i \in DOMAIN array' \ Cells(capacity') : array'[i] = INVAL_KEY
        /\ num_of_elems' = 0
    BY <1>1, <1>4, ReserveArray DEF IInv, Types
  <1>6. \A i \in Cells(capacity') : array'[i] = EMPTY_KEY
    BY <1>1, <1>4, ReserveArray DEF IInv, Types
  <1>7. /\ Sound(array', hash', capacity', HS', Hole') /\ In(array', capacity', {}) = {}
        /\ Cardinality(In(array', capacity', {})) = 0
    BY <1>6, EmptyTable
  <1>8. Types'
    <2>1. Types
      BY DEF IInv
    <2>2. stack' \in Seq(Frame')
      BY <1>1, <1>2, EmptySeq
    <2> QED BY <1>1, <1>4, <2>1, <2>2 DEF Types
  <1>9. Unhashed' /\ HoleOK'
    BY <1>1, <1>2 DEF Unhashed, HoleOK, Running
  <1>10. Sized'
    <2>1. capacity' > 0
      BY <1>4
    <2> QED BY <1>3, <1>4, <1>5, <2>1, Zenon DEF Sized
  <1>11. CallsOK'
    BY <1>1, <1>2 DEF CallsOK, Calls
  <1>12. Stored'
    BY <1>1, <1>2, <1>5, <1>7 DEF Stored
  <1> QED BY <1>8, <1>9, <1>10, <1>11, <1>12 DEF IInv

\* A new call is well formed.
LEMMA NewCall ==
  ASSUME NEW G \in SUBSET Keys, NEW el \in G, nAttempts \in Attempts
  PROVE  /\ Call(el) \in Frame /\ CallOK(Call(el), G) /\ Needs(Call(el)) = {el}
         /\ Call(el).pc = "try"
  <1>1. << >> \in Todos /\ DOMAIN << >> = {} /\ Range(<< >>) = {}
    <2>1. << >> \in [{} -> Keys] /\ {} \in SUBSET Nat
      OBVIOUS
    <2> QED BY <2>1 DEF Todos, Range
  <1>2. 0 \in 0..(nAttempts - 1)
    BY TableAssumption
  <1>3. Call(el) \in Frame
    BY <1>1, <1>2 DEF Call, Frame
  <1> QED BY <1>1, <1>3 DEF Call, CallOK, Needs

\* hashNext hands the last element of the list to the table.
LEMMA HashNextStep ==
  ASSUME IInv, hashNext
  PROVE  IInv'
  <1> DEFINE el == Last(elems)
  <1>1. /\ pc = "hash" /\ stack = << >> /\ elems # << >> /\ stack' = <<Call(el)>>
        /\ given' = given \union {el} /\ elems' = Front(elems)
        /\ UNCHANGED <<build, nAttempts, pc, table>>
    BY DEF hashNext
  <1>2. elems \in Seq(Keys) /\ given \subseteq Keys /\ nAttempts \in Attempts
    BY DEF IInv, Types
  <1>3. /\ el \in Keys /\ elems' \in Seq(Keys) /\ ToSet(elems) = ToSet(elems') \union {el}
    <2> DEFINE n == Len(elems)
    <2>1. n \in Nat \ {0} /\ DOMAIN elems = 1..n /\ n \in 1..n
      BY <1>1, <1>2, EmptySeq, LenProperties
    <2>2. el = elems[n] /\ el \in Keys
      BY <1>2, <2>1, ElementOfSeq DEF Last
    <2>3. /\ elems' \in Seq(Keys) /\ DOMAIN elems' = 1..(n - 1)
          /\ \A i \in 1..(n - 1) : elems'[i] = elems[i]
      BY <1>1, <1>2, <2>1 DEF Front
    <2> HIDE DEF n, el
    <2>4. \A i \in 1..n : i = n \/ i \in 1..(n - 1)
      BY <2>1
    <2>5. \A i \in 1..(n - 1) : i \in 1..n
      BY <2>1
    <2>6. ToSet(elems) = ToSet(elems') \union {el}
      BY <2>1, <2>2, <2>3, <2>4, <2>5 DEF ToSet
    <2> QED BY <2>2, <2>3, <2>6
  <1> HIDE DEF el
  <1>4. All' = All /\ given' \subseteq Keys /\ el \in given'
    BY <1>1, <1>2, <1>3 DEF All
  <1>5. Unhashed' /\ Sized' /\ In(array, capacity, {})' = In(array, capacity, {})
    BY <1>1, <1>4, TableKept
  <1>6. /\ Call(el) \in Frame' /\ CallOK(Call(el), given') /\ Needs(Call(el)) = {el}
        /\ Call(el).pc = "try"
    <2>1. Frame' = Frame
      BY <1>1 DEF Frame
    <2> QED BY <1>2, <1>4, <2>1, NewCall
  <1>7. /\ stack' \in Seq(Frame') /\ stack' # << >> /\ Last(stack') = Call(el)
        /\ Calls(stack', given') /\ Needs(Call(el)) \subseteq Owed(stack')
    <2> DEFINE e == << >>
               F == Frame'
               G == given'
               f == Call(el)
               r == stack'
    <2>1. e \in Seq(F) /\ Calls(e, G) /\ Pushes(e, f, r)
      BY <1>1, EmptySeq DEF Calls, Pushes
    <2>2. e # << >> => Last(e).pc = "rebuild"
      OBVIOUS
    <2>3. f \in F /\ CallOK(f, G)
      BY <1>6
    <2> HIDE DEF e, F, G, f, r
    <2>4. r \in Seq(F) /\ r # << >> /\ Last(r) = f /\ Calls(r, G) /\ Needs(f) \subseteq Owed(r)
      BY <2>1, <2>2, <2>3, Pushed
    <2> QED BY <2>4 DEF F, G, f, r
  <1>8. Types'
    <2>1. Types
      BY DEF IInv
    <2> QED BY <1>1, <1>3, <1>4, <1>7, <2>1 DEF Types, table
  <1>9. CallsOK'
    BY <1>1, <1>7 DEF CallsOK
  <1>10. ~Running("move") /\ ~Running("move")' /\ Hole = {} /\ Hole' = {}
    <2>1. ~Running("move") /\ ~Running("move")'
      BY <1>1, <1>6, <1>7 DEF Running, top
    <2> QED BY <2>1 DEF Hole
  <1>11. Stored'
    <2>1. Stored /\ Owed(stack) = {}
      BY <1>1 DEF IInv, Owed
    <2>2. given' \subseteq In(array, capacity, {})' \union Owed(stack')
      BY <1>1, <1>5, <1>6, <1>7, <2>1 DEF Stored
    <2>3. In(array, capacity, {})' \subseteq given'
      BY <1>1, <1>5, <2>1 DEF Stored
    <2>4. Sound(array, hash, capacity, HS, Hole)'
      BY <1>1, <1>10, <2>1 DEF Stored, table, HS
    <2>5. num_of_elems' = Cardinality(In(array, capacity, {})')
      BY <1>1, <1>5, <2>1 DEF Stored, table
    <2> QED BY <2>2, <2>3, <2>4, <2>5 DEF Stored
  <1>12. HoleOK'
    BY <1>10 DEF HoleOK
  <1> QED BY <1>5, <1>8, <1>9, <1>11, <1>12 DEF IInv

\* isHashed: nothing is left to do.
LEMMA IsHashedStep ==
  ASSUME IInv, isHashed
  PROVE  IInv'
  <1>1. /\ pc = "hash" /\ stack = << >> /\ elems = << >> /\ pc' = "hashed"
        /\ UNCHANGED <<build, nAttempts, elems, table, stack, given>>
    BY DEF isHashed
  <1>2. All' = All /\ Frame' = Frame
    BY <1>1 DEF All, Frame
  <1>3. Unhashed' /\ Sized' /\ In(array, capacity, {})' = In(array, capacity, {})
    BY <1>1, <1>2, TableKept
  <1>4. Types' /\ CallsOK'
    BY <1>1, <1>2 DEF IInv, Types, CallsOK, table
  <1>5. ~Running("move") /\ ~Running("move")' /\ Hole = {} /\ Hole' = {}
    BY <1>1 DEF Running, Hole
  <1>6. Stored'
    BY <1>1, <1>5 DEF IInv, Stored, table, HS
  <1>7. HoleOK'
    BY <1>5 DEF HoleOK
  <1> QED BY <1>3, <1>4, <1>6, <1>7 DEF IInv

\* A step of the running call that leaves table and keys alone: the calls it
\* leaves behind still owe what is not in the table.
LEMMA CallStep ==
  ASSUME IInv, pc # "list", pc' = "hash", UNCHANGED <<build, nAttempts, elems, table, given>>,
         stack' \in Seq(Frame), Calls(stack', given),
         Owed(stack) \subseteq Owed(stack') \union In(array, capacity, {}),
         Sound(array, hash, capacity, HS, Hole'), HoleOK'
  PROVE  IInv'
  <1>1. All' = All /\ Frame' = Frame
    BY DEF All, Frame
  <1>2. Unhashed' /\ Sized' /\ In(array, capacity, {})' = In(array, capacity, {})
    BY <1>1, TableKept
  <1>3. Types' /\ CallsOK'
    BY <1>1 DEF IInv, Types, CallsOK, table
  <1>4. Stored'
    BY <1>2 DEF IInv, Stored, table, HS
  <1> QED BY <1>2, <1>3, <1>4 DEF IInv

\* TryFind finds the key, or a hole that can be reached from its hash value.
LEMMA TryFindStep ==
  ASSUME IInv, TryFind
  PROVE  IInv'
  <1> DEFINE el == top.el
             pos == Behind(capacity, hash[el], Found(array, hash, capacity, el))
             f == [top EXCEPT !.pc = "move", !.pos = pos]
  <1>1. /\ pc = "hash" /\ stack # << >> /\ top.pc = "try" /\ Running("try")
        /\ UNCHANGED <<build, nAttempts, elems, pc, table, given>>
    BY DEF TryFind, Running
  <1>2. stack' = IF array[pos] = el THEN Front(stack) ELSE SetTop(f)
    BY DEF TryFind, Found, Scanned, Behind, Cells
  <1>3. /\ Shaped(array, hash, capacity, HS) /\ Cells(capacity) \subseteq DOMAIN array
        /\ top \in Frame /\ CallOK(top, given) /\ el \in Keys /\ Hole = {}
    BY <1>1, AtCall DEF Running
  <1>4. DOMAIN top.todo = {} /\ Needs(top) = {el}
    BY <1>1, <1>3 DEF CallOK, Needs, Range
  <1>5. /\ stack \in Seq(Frame) /\ Calls(stack, given) /\ Last(stack) = top
    BY DEF IInv, Types, CallsOK, top
  <1>6. Sound(array, hash, capacity, HS, {}) /\ In(array, capacity, {}) \subseteq given
    BY <1>1, <1>3 DEF IInv, Stored
  <1>7. capacity \in Nat \ {0} /\ hash[el] \in Cells(capacity)
    BY <1>3 DEF Shaped
  <1>8. \E i \in Cells(capacity) : array[i] = EMPTY_KEY
    <2>1. IsFiniteSet(All) /\ 2 * Cardinality(All) <= capacity
      BY <1>1 DEF IInv, Sized
    <2>2. Cardinality(All) < capacity
      BY <1>7, <2>1, FS_CardinalityType
    <2>3. In(array, capacity, {}) \subseteq All
      BY <1>6 DEF All
    <2> QED BY <1>3, <1>6, <2>1, <2>2, <2>3, EmptySlot
  <1> HIDE DEF el, pos, f
  <1>9. CASE array[pos] = el
    <2>1. Pops(stack, stack')
      BY <1>2, <1>9 DEF Pops
    <2>2. /\ stack' \in Seq(Frame) /\ Calls(stack', given)
          /\ (stack' # << >> => Last(stack').pc = "rebuild")
          /\ Owed(stack) \subseteq Owed(stack') \union Needs(top)
      BY <1>1, <1>5, <2>1, Popped
    <2>3. pos \in Cells(capacity)
      <3>1. Found(array, hash, capacity, el) \in Cells(capacity)
        <4> DEFINE S == {i \in Cells(capacity) : array[Behind(capacity, hash[el], i)] \in {EMPTY_KEY, el}}
        <4>1. CASE S = {}
          BY <1>7, <4>1 DEF Found, Cells
        <4>2. CASE S # {}
          <5>1. S \in SUBSET Nat /\ S \subseteq Cells(capacity)
            BY <1>7 DEF Cells
          <5>2. Min(S) \in S
            BY <4>2, <5>1, LeastOf
          <5> QED BY <4>2, <5>1, <5>2 DEF Found
        <4> QED BY <4>1, <4>2
      <3> QED BY <1>7, <3>1, BehindOf DEF pos
    <2>4. el \in In(array, capacity, {})
      BY <1>3, <1>9, <2>3, TableAssumption DEF In
    <2>5. ~Running("move")' /\ Hole' = {}
      BY <2>2 DEF Running, top, Hole
    <2>6. HoleOK'
      BY <2>5 DEF HoleOK
    <2> QED BY <1>1, <1>4, <1>6, <2>2, <2>4, <2>5, <2>6, CallStep
  <1>10. CASE array[pos] # el
    <2>1. array[pos] = EMPTY_KEY /\ HoleFor(array, hash, capacity, el, pos)
      BY <1>3, <1>6, <1>8, <1>10, FindsPlace DEF pos
    <2>2. pos \in Nat
      BY <1>7, <2>1 DEF HoleFor, Cells
    <2>3. /\ f \in Frame /\ f.pc = "move" /\ f.pos = pos /\ f.el = el /\ f.todo = top.todo
      BY <1>3, <2>2 DEF f, el, Frame
    <2>4. CallOK(f, given) /\ Needs(f) = {el}
      BY <1>3, <1>4, <2>3 DEF CallOK, Needs, el
    <2>5. Sets(stack, f, stack')
      BY <1>2, <1>10 DEF Sets, SetTop
    <2>6. /\ stack' \in Seq(Frame) /\ stack' # << >> /\ Last(stack') = f /\ Calls(stack', given)
          /\ Owed(stack) \subseteq Owed(stack') \union Needs(top) /\ Needs(f) \subseteq Owed(stack')
      BY <1>1, <1>5, <2>3, <2>4, <2>5, TopSet
    <2>7. Running("move")' /\ top' = f /\ Hole' = {pos}
      BY <1>1, <2>3, <2>6 DEF Running, top, Hole
    <2>8. HoleOK'
      BY <1>1, <2>1, <2>3, <2>7 DEF HoleOK, table
    <2>9. Sound(array, hash, capacity, HS, Hole')
      BY <1>6, <2>7 DEF Sound
    <2> QED BY <1>1, <1>4, <2>4, <2>6, <2>8, <2>9, CallStep
  <1> QED BY <1>9, <1>10

\* A step that writes a key into a slot of the table: its size is kept.
LEMMA Written ==
  ASSUME IInv, pc # "list", pc' # "list", UNCHANGED <<build, elems, capacity, M_hash, hash, given>>,
         NEW p \in Cells(capacity), NEW k, Writes(array, p, k, array')
  PROVE  Unhashed' /\ Sized'
  <1>1. Unhashed'
    BY DEF Unhashed
  <1>2. Sized
    BY DEF IInv
  <1>3. All' = All /\ phys_capacity' = phys_capacity
    BY DEF All, phys_capacity
  <1>4. DOMAIN array' = DOMAIN array
    BY DEF Writes
  <1>5. \A i \in DOMAIN array \ Cells(capacity) : array'[i] = array[i]
    BY DEF Writes
  <1>6. Sized'
    BY <1>2, <1>3, <1>4, <1>5 DEF Sized
  <1> QED BY <1>1, <1>6

\* TryMove brings the hole nearer to the hash value.
LEMMA TryMoveStep ==
  ASSUME IInv, TryMove
  PROVE  IInv'
  <1> DEFINE el == top.el
             p == top.pos
             d == Max(Movable)
             j == (p - d) % capacity
             k == array[j]
             f == [top EXCEPT !.pos = j]
  <1>1. /\ pc = "hash" /\ stack # << >> /\ top.pc = "move" /\ Running("move") /\ ~Near
        /\ Movable # {} /\ Writes(array, p, k, array') /\ stack' = SetTop(f)
        /\ UNCHANGED <<build, nAttempts, elems, pc, capacity, M_hash, hash, num_of_elems, given>>
    BY DEF TryMove, Running, Writes
  <1>2. /\ Shaped(array, hash, capacity, HS) /\ Cells(capacity) \subseteq DOMAIN array
        /\ top \in Frame /\ CallOK(top, given) /\ el \in Keys /\ Hole = {p}
    BY <1>1, AtCall DEF Running
  <1>3. HoleFor(array, hash, capacity, el, p)
    BY <1>1 DEF IInv, HoleOK
  <1>4. Sound(array, hash, capacity, HS, {p})
    BY <1>1, <1>2 DEF IInv, Stored
  <1>5. DOMAIN top.todo = {} /\ Needs(top) = {el}
    BY <1>1, <1>2 DEF CallOK, Needs, Range
  <1>6. /\ stack \in Seq(Frame) /\ Calls(stack, given) /\ Last(stack) = top
    BY DEF IInv, Types, CallsOK, top
  <1>7. capacity \in Nat \ {0} /\ hash[el] \in Cells(capacity) /\ p \in Cells(capacity) /\ HS \in Nat \ {0}
    BY <1>2, <1>3 DEF Shaped, HoleFor
  <1>8. Dist(capacity, p, hash[el]) \in Nat /\ Dist(capacity, p, hash[el]) >= HS
    <2>1. Dist(capacity, p, hash[el]) \in Nat
      BY <1>7, DistNat
    <2>2. ~(Dist(capacity, p, hash[el]) < HS)
      BY <1>1 DEF Near, distance, Dist
    <2> QED BY <1>7, <2>1, <2>2
  <1>9. d \in 1..(HS - 1) /\ Dist(capacity, p, hash[k]) <= HS - 1
    <2>1. d \in Movable
      <3>1. Movable \in SUBSET (0..HS)
        BY <1>7 DEF Movable
      <3> QED BY <1>1, <1>7, <3>1, GreatestOf
    <2> HIDE DEF d
    <2> QED BY <2>1 DEF Movable, distance, Dist
  <1> HIDE DEF el, p, d, j, k, f
  <1>10. k \in Keys
    <2>1. d \in Nat /\ 1 <= d /\ d <= Dist(capacity, p, hash[el])
      BY <1>7, <1>8, <1>9
    <2>2. j \in Cells(capacity) /\ array[j] # EMPTY_KEY
      BY <1>2, <1>3, <2>1, BeforeHole DEF j
    <2> QED BY <1>2, <2>2 DEF Shaped, k
  <1>11. /\ Sound(array', hash, capacity, HS, {j}) /\ HoleFor(array', hash, capacity, el, j)
         /\ In(array', capacity, {}) = In(array, capacity, {}) /\ j \in Cells(capacity)
    BY <1>1, <1>2, <1>3, <1>4, <1>8, <1>9, <1>10, MoveKeeps DEF j, k
  <1>12. Unhashed' /\ Sized'
    BY <1>1, <1>7, Written
  <1>13. f \in Frame /\ f.pc = "move" /\ f.pos = j /\ f.el = el /\ f.todo = top.todo
    <2>1. j \in Nat
      BY <1>7, <1>11 DEF Cells
    <2> QED BY <1>1, <1>2, <2>1 DEF f, el, Frame
  <1>14. CallOK(f, given) /\ Needs(f) = {el}
    BY <1>2, <1>5, <1>13 DEF CallOK, Needs, el
  <1>15. Sets(stack, f, stack')
    BY <1>1 DEF Sets, SetTop
  <1>16. /\ stack' \in Seq(Frame) /\ stack' # << >> /\ Last(stack') = f /\ Calls(stack', given)
         /\ Owed(stack) \subseteq Owed(stack') \union Needs(top) /\ Needs(f) \subseteq Owed(stack')
    BY <1>1, <1>6, <1>13, <1>14, <1>15, TopSet
  <1>17. Running("move")' /\ top' = f /\ Hole' = {j}
    BY <1>1, <1>13, <1>16 DEF Running, top, Hole
  <1>18. Types' /\ CallsOK'
    <2>1. Frame' = Frame
      BY <1>1 DEF Frame
    <2> QED BY <1>1, <1>16, <2>1 DEF IInv, Types, CallsOK
  <1>19. Stored'
    <2>1. Stored
      BY DEF IInv
    <2>2. given \subseteq In(array', capacity, {}) \union Owed(stack')
      BY <1>1, <1>5, <1>11, <1>14, <1>16, <2>1 DEF Stored
    <2> QED BY <1>1, <1>11, <1>17, <2>1, <2>2 DEF Stored, HS
  <1>20. HoleOK'
    BY <1>1, <1>11, <1>13, <1>17 DEF HoleOK
  <1> QED BY <1>12, <1>18, <1>19, <1>20 DEF IInv

\* TryPlace puts the key where lookups find it.
LEMMA TryPlaceStep ==
  ASSUME IInv, TryPlace
  PROVE  IInv'
  <1> DEFINE el == top.el
             p == top.pos
  <1>1. /\ pc = "hash" /\ stack # << >> /\ top.pc = "move" /\ Running("move") /\ Near
        /\ Writes(array, p, el, array') /\ stack' = Front(stack)
        /\ num_of_elems' = num_of_elems + 1
        /\ UNCHANGED <<build, nAttempts, elems, pc, capacity, M_hash, hash, given>>
    BY DEF TryPlace, Running, Writes
  <1>2. /\ Shaped(array, hash, capacity, HS) /\ Cells(capacity) \subseteq DOMAIN array
        /\ top \in Frame /\ CallOK(top, given) /\ el \in Keys /\ Hole = {p}
    BY <1>1, AtCall DEF Running
  <1>3. HoleFor(array, hash, capacity, el, p)
    BY <1>1 DEF IInv, HoleOK
  <1>4. Sound(array, hash, capacity, HS, {p})
    BY <1>1, <1>2 DEF IInv, Stored
  <1>5. DOMAIN top.todo = {} /\ Needs(top) = {el} /\ el \in given
    BY <1>1, <1>2 DEF CallOK, Needs, Range
  <1>6. /\ stack \in Seq(Frame) /\ Calls(stack, given) /\ Last(stack) = top
    BY DEF IInv, Types, CallsOK, top
  <1>7. Dist(capacity, p, hash[el]) < HS
    BY <1>1 DEF Near, distance, Dist
  <1> HIDE DEF el, p
  <1>8. /\ Sound(array', hash, capacity, HS, {}) /\ In(array', capacity, {}) = In(array, capacity, {}) \union {el}
        /\ el \notin In(array, capacity, {}) /\ p \in Cells(capacity)
    BY <1>1, <1>2, <1>3, <1>4, <1>7, PlaceKeeps
  <1>9. Unhashed' /\ Sized'
    BY <1>1, <1>8, Written
  <1>10. Pops(stack, stack')
    BY <1>1 DEF Pops
  <1>11. /\ stack' \in Seq(Frame) /\ Calls(stack', given)
         /\ (stack' # << >> => Last(stack').pc = "rebuild")
         /\ Owed(stack) \subseteq Owed(stack') \union Needs(top)
    BY <1>1, <1>6, <1>10, Popped
  <1>12. ~Running("move")' /\ Hole' = {}
    BY <1>11 DEF Running, top, Hole
  <1>13. Types' /\ CallsOK'
    <2>1. Frame' = Frame
      BY <1>1 DEF Frame
    <2> QED BY <1>1, <1>11, <2>1 DEF IInv, Types, CallsOK
  <1>14. Stored'
    <2>1. Stored
      BY DEF IInv
    <2>2. given \subseteq In(array', capacity, {}) \union Owed(stack')
      BY <1>1, <1>5, <1>8, <1>11, <2>1 DEF Stored
    <2>3. IsFiniteSet(In(array, capacity, {}))
      <3>1. IsFiniteSet(All) /\ In(array, capacity, {}) \subseteq All
        BY <1>1, <2>1 DEF IInv, Sized, Stored, All
      <3> QED BY <3>1, FS_Subset
    <2>4. num_of_elems' = Cardinality(In(array', capacity, {}))
      BY <1>1, <1>8, <2>1, <2>3, FS_AddElement DEF Stored
    <2>5. In(array', capacity, {}) \subseteq given
      BY <1>1, <1>5, <1>8, <2>1 DEF Stored
    <2> QED BY <1>1, <1>8, <1>12, <2>2, <2>4, <2>5 DEF Stored, HS
  <1>15. HoleOK'
    BY <1>12 DEF HoleOK
  <1> QED BY <1>9, <1>13, <1>14, <1>15 DEF IInv

\* What a rebuild has to insert: all keys of the old table.
LEMMA ForEach ==
  ASSUME IInv, pc # "list"
  PROVE  for_each \in Todos /\ Range(for_each) = In(array, capacity, {})
  <1> DEFINE D == {j \in 0..(phys_capacity - 1) : array[j] \notin {EMPTY_KEY, INVAL_KEY}}
             In0 == In(array, capacity, {})
  <1>1. In0 \subseteq given /\ given \subseteq Keys
    BY DEF IInv, Stored, Types
  <1>2. /\ DOMAIN array = 0..(phys_capacity - 1)
        /\ \A i \in DOMAIN array \ Cells(capacity) : array[i] = INVAL_KEY
        /\ capacity \in Nat \ {0}
    BY DEF IInv, Sized, Types
  <1>3. Cells(capacity) \subseteq 0..(phys_capacity - 1) /\ 0..(phys_capacity - 1) \subseteq Nat
    <2>1. build.VECTOR \in Nat \ {0}
      BY TableAssumption DEF IInv, Types
    <2> QED BY <1>2, <2>1 DEF Cells, phys_capacity
  <1>4. for_each = [i \in D |-> array[i]]
    BY DEF for_each
  <1>5. \A i \in D : array[i] \in In0
    <2> SUFFICES ASSUME NEW i \in D PROVE array[i] \in In0
      OBVIOUS
    <2>1. i \in Cells(capacity) /\ array[i] # EMPTY_KEY
      BY <1>2
    <2> QED BY <2>1 DEF In
  <1>6. ASSUME NEW k \in In0 PROVE \E i \in D : array[i] = k
    <2>1. PICK i \in Cells(capacity) : array[i] = k
      BY DEF In
    <2>2. k # EMPTY_KEY /\ k # INVAL_KEY
      BY <1>1, <1>6, TableAssumption
    <2> QED BY <1>3, <2>1, <2>2
  <1>7. D \in SUBSET Nat
    BY <1>3
  <1> HIDE DEF D, In0
  <1>8. for_each \in [D -> Keys]
    BY <1>1, <1>4, <1>5
  <1>9. for_each \in Todos
    BY <1>7, <1>8 DEF Todos
  <1>10. Range(for_each) = In0
    BY <1>4, <1>5, <1>6 DEF Range
  <1> QED BY <1>9, <1>10 DEF In0

\* hopscotchReconstruct, by a call that has nothing else to insert.
LEMMA ReconstructStep ==
  ASSUME IInv, pc = "hash", stack # << >>, DOMAIN top.todo = {},
         NEW inner \in BOOLEAN, Reconstruct(inner)
  PROVE  IInv'
  <1> DEFINE f == [top EXCEPT !.pc = "rebuild", !.todo = for_each, !.inner = inner]
  <1>1. /\ M_hash < MaxBits /\ stack' = SetTop(f) /\ reserve(capacity)
        /\ UNCHANGED <<build, nAttempts, elems, pc, given>>
    BY DEF Reconstruct, InBound
  <1>2. /\ Shaped(array, hash, capacity, HS)
        /\ top \in Frame /\ CallOK(top, given) /\ top.el \in Keys
    BY AtCall
  <1>3. stack \in Seq(Frame) /\ Calls(stack, given) /\ Last(stack) = top
    BY DEF IInv, Types, CallsOK, top
  <1>4. for_each \in Todos /\ Range(for_each) = In(array, capacity, {})
    BY ForEach
  <1>5. /\ f \in Frame /\ f.pc = "rebuild" /\ f.el = top.el /\ f.todo = for_each
    BY <1>2, <1>4 DEF Frame
  <1>6. Stored /\ Sized /\ Types
    BY DEF IInv
  <1> HIDE DEF f
  <1>7. CallOK(f, given) /\ Needs(f) = {top.el} \union In(array, capacity, {})
    BY <1>2, <1>4, <1>5, <1>6 DEF CallOK, Needs, Stored
  <1>8. Needs(top) = {top.el}
    BY DEF Needs, Range
  <1>9. Sets(stack, f, stack')
    BY <1>1 DEF Sets, SetTop
  <1>10. /\ stack' \in Seq(Frame) /\ stack' # << >> /\ Last(stack') = f /\ Calls(stack', given)
         /\ Owed(stack) \subseteq Owed(stack') \union Needs(top) /\ Needs(f) \subseteq Owed(stack')
    BY <1>3, <1>5, <1>7, <1>9, TopSet
  <1>11. /\ capacity \in Nat \ {0} /\ capacity = 2^M_hash /\ M_hash \in Nat /\ All' = All
         /\ IsFiniteSet(All) /\ 2 * Cardinality(All) <= capacity /\ Cardinality(All) \in Nat
    <2>1. top.el \in All
      BY <1>2 DEF CallOK, All
    <2>2. WORD \in Nat
      BY TableAssumption
    <2>3. All' = All
      BY <1>1 DEF All
    <2> QED BY <1>2, <1>6, <2>1, <2>2, <2>3, FS_CardinalityType DEF Sized, Types, Shaped
  <1>12. /\ M_hash' \in 0..(M_hash + 1) /\ capacity' = 2^(M_hash') /\ capacity' \in Nat \ {0}
         /\ 2 * capacity <= capacity' /\ hash' \in [Keys -> Nat]
         /\ \A k \in Keys : hash'[k] \in Cells(capacity')
    <2> DEFINE m == M_hash + 1
    <2>1. MaxBits \in Nat /\ m \in 0..MaxBits
      BY <1>1, <1>11, TableAssumption
    <2>2. 2 * capacity <= 2^m
      <3>1. 2^m = 2 * capacity
        BY <1>11, Doubled
      <3> QED BY <1>11, <3>1
    <2> HIDE DEF m
    <2>3. /\ M_hash' \in 0..m /\ capacity' = 2^(M_hash') /\ capacity' \in Nat \ {0}
          /\ 2 * capacity <= capacity' /\ hash' \in [Keys -> Nat]
      BY <1>1, <1>11, <2>1, <2>2, ReserveSome
    <2>4. \A k \in Keys : hash'[k] \in Cells(capacity')
      BY <1>1, <1>11, <2>1, <2>2, ReserveSome
    <2> QED BY <2>3, <2>4 DEF m
  <1>13. M_hash' \in 0..WORD /\ M_hash' <= MaxBits /\ 2 * Cardinality(All) <= capacity' /\ capacity' > 0
    <2>1. MaxBits \in Nat /\ WORD \in Nat /\ MaxBits < WORD
      BY TableAssumption
    <2>2. M_hash' \in Int /\ 0 <= M_hash' /\ M_hash' <= M_hash + 1
      BY <1>11, <1>12
    <2>3. M_hash' \in 0..WORD /\ M_hash' <= MaxBits
      BY <1>1, <1>11, <2>1, <2>2
    <2>4. /\ capacity' \in Nat \ {0} /\ 2 * capacity <= capacity' /\ capacity \in Nat
          /\ 2 * Cardinality(All) <= capacity /\ Cardinality(All) \in Nat
      BY <1>11, <1>12
    <2>5. 2 * Cardinality(All) <= capacity' /\ capacity' > 0
      BY <2>4
    <2> QED BY <2>3, <2>5
  <1>14. /\ DOMAIN array' = 0..(phys_capacity' - 1)
         /\ \A i \in DOMAIN array' \ Cells(capacity') : array'[i] = INVAL_KEY
         /\ num_of_elems' = 0
    BY <1>1, <1>6, <1>12, ReserveArray DEF Types
  <1>15. \A i \in Cells(capacity') : array'[i] = EMPTY_KEY
    BY <1>1, <1>6, <1>12, ReserveArray DEF Types
  <1>16. /\ Sound(array', hash', capacity', HS', Hole') /\ In(array', capacity', {}) = {}
         /\ Cardinality(In(array', capacity', {})) = 0
    BY <1>15, EmptyTable
  <1>17. Types' /\ CallsOK'
    <2>1. Frame' = Frame
      BY <1>1 DEF Frame
    <2> QED BY <1>1, <1>6, <1>10, <1>12, <1>13, <2>1 DEF Types, CallsOK
  <1>18. Unhashed'
    BY <1>1 DEF Unhashed
  <1>19. Sized'
    BY <1>11, <1>12, <1>13, <1>14, Zenon DEF Sized
  <1>20. Stored'
    <2>1. given \subseteq Owed(stack')
      BY <1>6, <1>7, <1>8, <1>10 DEF Stored
    <2> QED BY <1>1, <1>14, <1>16, <2>1 DEF Stored
  <1>21. HoleOK'
    BY <1>5, <1>10 DEF HoleOK, Running, top
  <1> QED BY <1>17, <1>18, <1>19, <1>20, <1>21 DEF IInv

\* A table in which no move succeeds is rebuilt, and so is one whose rebuild
\* has come from hopscotchTryInsert.
LEMMA RebuildStep ==
  ASSUME IInv, TryStuck \/ RebuildAgain
  PROVE  IInv'
  <1>1. CASE TryStuck
    <2>1. pc = "hash" /\ stack # << >> /\ top.pc = "move" /\ Reconstruct(TRUE)
      BY <1>1 DEF TryStuck, Running
    <2>2. DOMAIN top.todo = {}
      BY <2>1, AtCall DEF CallOK
    <2> QED BY <2>1, <2>2, ReconstructStep
  <1>2. CASE RebuildAgain
    <2>1. pc = "hash" /\ stack # << >> /\ DOMAIN top.todo = {} /\ Reconstruct(FALSE)
      BY <1>2 DEF RebuildAgain, RebuildOver, Running
    <2> QED BY <2>1, ReconstructStep
  <1> QED BY <1>1, <1>2

\* The rest of an old array.
LEMMA TodoOf ==
  ASSUME NEW t \in Todos
  PROVE  /\ DOMAIN t \in SUBSET Nat /\ \A x \in DOMAIN t : t[x] \in Keys
         /\ Range(t) \subseteq Keys
  <1>1. PICK D \in SUBSET Nat : t \in [D -> Keys]
    BY DEF Todos
  <1>2. DOMAIN t \in SUBSET Nat /\ \A x \in DOMAIN t : t[x] \in Keys
    BY <1>1
  <1>3. Range(t) \subseteq Keys
    BY <1>2 DEF Range
  <1> QED BY <1>2, <1>3

\* RebuildNext: the next key of the old array is handed to a new call.
LEMMA RebuildNextStep ==
  ASSUME IInv, RebuildNext
  PROVE  IInv'
  <1> DEFINE i == Min(DOMAIN top.todo)
             t == Restrict(top.todo, DOMAIN top.todo \ {i})
             f == [top EXCEPT !.todo = t]
             g == Call(top.todo[i])
  <1>1. /\ pc = "hash" /\ stack # << >> /\ top.pc = "rebuild" /\ DOMAIN top.todo # {}
        /\ UNCHANGED <<build, nAttempts, elems, pc, table, given>>
    BY DEF RebuildNext, Running
  <1>2. stack' = Append(SetTop(f), g)
    BY DEF RebuildNext
  <1>3. /\ top \in Frame /\ CallOK(top, given) /\ top.el \in Keys /\ Hole = {}
    BY <1>1, AtCall DEF Running
  <1>4. stack \in Seq(Frame) /\ Calls(stack, given) /\ Last(stack) = top
    BY DEF IInv, Types, CallsOK, top
  <1>5. /\ DOMAIN top.todo \in SUBSET Nat /\ top.todo \in Todos
        /\ \A x \in DOMAIN top.todo : top.todo[x] \in Keys
    <2>1. top.todo \in Todos
      BY <1>3 DEF Frame
    <2> QED BY <2>1, TodoOf
  <1>6. i \in DOMAIN top.todo
    BY <1>1, <1>5, LeastOf
  <1> HIDE DEF i
  <1>7. /\ DOMAIN t = DOMAIN top.todo \ {i} /\ \A x \in DOMAIN t : t[x] = top.todo[x]
    BY DEF Restrict
  <1>8. t \in Todos
    <2>1. t \in [DOMAIN top.todo \ {i} -> Keys]
      BY <1>5 DEF Restrict
    <2>2. DOMAIN top.todo \ {i} \in SUBSET Nat
      BY <1>5
    <2> QED BY <2>1, <2>2 DEF Todos
  <1>9. Range(top.todo) = Range(t) \union {top.todo[i]}
    BY <1>6, <1>7 DEF Range
  <1>10. top.todo[i] \in given /\ given \in SUBSET Keys /\ nAttempts \in Attempts
    BY <1>3, <1>9 DEF CallOK, IInv, Types
  <1>11. g \in Frame /\ CallOK(g, given) /\ Needs(g) = {top.todo[i]} /\ g.pc = "try"
    BY <1>10, NewCall
  <1> HIDE DEF t, g
  <1>12. f \in Frame /\ f.pc = "rebuild" /\ f.el = top.el /\ f.todo = t
    BY <1>1, <1>3, <1>8 DEF Frame
  <1> HIDE DEF f
  <1>13. CallOK(f, given) /\ Needs(top) = Needs(f) \union Needs(g)
    BY <1>3, <1>9, <1>11, <1>12 DEF CallOK, Needs
  <1> DEFINE s == SetTop(f)
  <1>14. Sets(stack, f, s) /\ Pushes(s, g, stack')
    BY <1>2 DEF Sets, SetTop, Pushes
  <1> HIDE DEF s
  <1>15. /\ s \in Seq(Frame) /\ s # << >> /\ Last(s) = f /\ Calls(s, given)
         /\ Owed(stack) \subseteq Owed(s) \union Needs(top) /\ Needs(f) \subseteq Owed(s)
    BY <1>1, <1>4, <1>12, <1>13, <1>14, TopSet
  <1>16. /\ stack' \in Seq(Frame) /\ stack' # << >> /\ Last(stack') = g /\ Calls(stack', given)
         /\ Owed(s) \subseteq Owed(stack') /\ Needs(g) \subseteq Owed(stack')
    BY <1>11, <1>12, <1>14, <1>15, Pushed
  <1>17. Owed(stack) \subseteq Owed(stack') \union In(array, capacity, {})
    BY <1>13, <1>15, <1>16
  <1>18. ~Running("move")' /\ Hole' = {}
    BY <1>11, <1>16 DEF Running, top, Hole
  <1>19. HoleOK' /\ Sound(array, hash, capacity, HS, Hole')
    BY <1>1, <1>3, <1>18 DEF HoleOK, IInv, Stored
  <1> QED BY <1>1, <1>16, <1>17, <1>19, CallStep

\* Retry: the key is inserted into the new table.
LEMMA RetryStep ==
  ASSUME IInv, Retry
  PROVE  IInv'
  <1> DEFINE f == [top EXCEPT !.pc = "try", !.cnt = @ + 1]
  <1>1. /\ pc = "hash" /\ stack # << >> /\ top.pc = "rebuild" /\ DOMAIN top.todo = {}
        /\ top.cnt + 1 < nAttempts /\ stack' = SetTop(f)
        /\ UNCHANGED <<build, nAttempts, elems, pc, table, given>>
    BY DEF Retry, RebuildOver, Running
  <1>2. /\ top \in Frame /\ CallOK(top, given) /\ Hole = {}
    BY <1>1, AtCall DEF Running
  <1>3. stack \in Seq(Frame) /\ Calls(stack, given) /\ Last(stack) = top
    BY DEF IInv, Types, CallsOK, top
  <1>4. top.cnt + 1 \in 0..(nAttempts - 1)
    <2>1. nAttempts \in Nat
      BY TableAssumption DEF IInv, Types
    <2>2. top.cnt \in 0..(nAttempts - 1)
      BY <1>2 DEF Frame
    <2>3. top.cnt \in Nat
      BY <2>1, <2>2
    <2> QED BY <1>1, <2>1, <2>3
  <1>5. f \in Frame /\ f.pc = "try" /\ f.el = top.el /\ f.todo = top.todo
    BY <1>2, <1>4 DEF Frame
  <1> HIDE DEF f
  <1>6. CallOK(f, given) /\ Needs(f) = Needs(top)
    BY <1>1, <1>2, <1>5 DEF CallOK, Needs
  <1>7. Sets(stack, f, stack')
    BY <1>1 DEF Sets, SetTop
  <1>8. /\ stack' \in Seq(Frame) /\ stack' # << >> /\ Last(stack') = f /\ Calls(stack', given)
        /\ Owed(stack) \subseteq Owed(stack') \union Needs(top) /\ Needs(f) \subseteq Owed(stack')
    BY <1>1, <1>3, <1>5, <1>6, <1>7, TopSet
  <1>9. ~Running("move")' /\ Hole' = {}
    BY <1>5, <1>8 DEF Running, top, Hole
  <1>10. HoleOK' /\ Sound(array, hash, capacity, HS, Hole')
    BY <1>1, <1>2, <1>9 DEF HoleOK, IInv, Stored
  <1> QED BY <1>1, <1>6, <1>8, <1>10, CallStep

\* Exit: the program gives up.
LEMMA ExitStep ==
  ASSUME IInv, Exit
  PROVE  IInv'
  <1>1. /\ pc = "hash" /\ stack # << >> /\ top.pc = "rebuild" /\ pc' = "exit"
        /\ UNCHANGED <<build, nAttempts, elems, table, stack, given>>
    BY DEF Exit, RebuildOver, Running
  <1>2. All' = All /\ Frame' = Frame
    BY <1>1 DEF All, Frame
  <1>3. Unhashed' /\ Sized' /\ In(array, capacity, {})' = In(array, capacity, {})
    BY <1>1, <1>2, TableKept
  <1>4. Types' /\ CallsOK'
    BY <1>1, <1>2 DEF IInv, Types, CallsOK, table
  <1>5. Hole = {} /\ Hole' = {} /\ HoleOK'
    BY <1>1 DEF Running, Hole, HoleOK
  <1>6. Stored'
    BY <1>1, <1>5 DEF IInv, Stored, table, HS
  <1> QED BY <1>3, <1>4, <1>5, <1>6 DEF IInv

LEMMA Stutters ==
  ASSUME IInv, UNCHANGED vars
  PROVE  IInv'
  <1>1. All' = All /\ Frame' = Frame /\ phys_capacity' = phys_capacity /\ HS' = HS
    BY DEF vars, table, All, Frame, phys_capacity, HS
  <1>2. Running("move")' = Running("move") /\ Hole' = Hole /\ top' = top
    BY DEF vars, Running, top, Hole
  <1>3. Types' /\ Unhashed' /\ CallsOK'
    BY <1>1 DEF vars, table, IInv, Types, Unhashed, CallsOK
  <1>4. Sized' /\ Stored' /\ HoleOK'
    BY <1>1, <1>2 DEF vars, table, IInv, Sized, Stored, HoleOK
  <1> QED BY <1>3, <1>4 DEF IInv

(***************************************************************************)
(* IInv holds in every state: for every list of keys, all builds and all   *)
(* hash functions that the rebuilds may draw.                              *)
(***************************************************************************)
THEOREM TableInvariance == Spec => []IInv
  <1>1. Init => IInv
    BY Starts
  <1>2. IInv /\ [Next]_vars => IInv'
    <2> SUFFICES ASSUME IInv, [Next]_vars PROVE IInv'
      OBVIOUS
    <2>1. CASE hashSet
      BY <2>1, HashSetStep
    <2>2. CASE hashNext
      BY <2>2, HashNextStep
    <2>3. CASE isHashed
      BY <2>3, IsHashedStep
    <2>4. CASE TryFind
      BY <2>4, TryFindStep
    <2>5. CASE TryMove
      BY <2>5, TryMoveStep
    <2>6. CASE TryPlace
      BY <2>6, TryPlaceStep
    <2>7. CASE TryStuck \/ RebuildAgain
      BY <2>7, RebuildStep
    <2>8. CASE RebuildNext
      BY <2>8, RebuildNextStep
    <2>9. CASE Retry
      BY <2>9, RetryStep
    <2>10. CASE Exit
      BY <2>10, ExitStep
    <2>11. CASE Terminated \/ UNCHANGED vars
      BY <2>11, Stutters DEF Terminated
    <2> QED BY <2>1, <2>2, <2>3, <2>4, <2>5, <2>6, <2>7, <2>8, <2>9, <2>10, <2>11 DEF Next
  <1> QED BY <1>1, <1>2, PTL DEF Spec

-----------------------------------------------------------------------------
(***************************************************************************)
(* What the invariant says of the table.                                   *)
(***************************************************************************)
\* The slots of a key are slots of the table proper, never of the padding.
LEMMA SlotsOf ==
  ASSUME IInv, pc # "list", NEW k \in Keys
  PROVE  /\ \A i \in DOMAIN array : array[i] = k => i \in Cells(capacity)
         /\ Slots(k) = {i \in Cells(capacity) : array[i] = k}
         /\ Slots(k) # {} <=> k \in In(array, capacity, {})
  <1>1. k # EMPTY_KEY /\ k # INVAL_KEY
    BY TableAssumption
  <1>2. /\ DOMAIN array = 0..(phys_capacity - 1)
        /\ \A i \in DOMAIN array \ Cells(capacity) : array[i] = INVAL_KEY
        /\ capacity \in Nat \ {0}
    BY DEF IInv, Sized, Types
  <1>3. Cells(capacity) \subseteq DOMAIN array
    <2>1. build.VECTOR \in Nat \ {0}
      BY TableAssumption DEF IInv, Types
    <2> QED BY <1>2, <2>1 DEF Cells, phys_capacity
  <1>4. \A i \in DOMAIN array : array[i] = k => i \in Cells(capacity)
    BY <1>1, <1>2
  <1>5. Slots(k) = {i \in Cells(capacity) : array[i] = k}
    BY <1>3, <1>4 DEF Slots
  <1>6. Slots(k) # {} <=> k \in In(array, capacity, {})
    BY <1>1, <1>5 DEF In
  <1> QED BY <1>4, <1>5, <1>6

LEMMA KeepsAll ==
  ASSUME IInv
  PROVE  NothingLost
  <1> DEFINE stored == {k \in Keys : Slots(k) # {}}
  <1>1. CASE pc = "list"
    <2>1. DOMAIN array = {} /\ given = {}
      BY <1>1 DEF IInv, Unhashed
    <2>2. stored = {}
      BY <2>1 DEF Slots
    <2> QED BY <2>1, <2>2 DEF NothingLost
  <1>2. CASE pc # "list"
    <2>1. given \subseteq Keys
      BY DEF IInv, Types
    <2>2. \A k \in Keys : Slots(k) # {} <=> k \in In(array, capacity, {})
      BY <1>2, SlotsOf
    <2>3. Pending = Owed(stack)
      BY DEF Pending, Owed, Needs
    <2>4. /\ In(array, capacity, {}) \subseteq given
          /\ given \subseteq In(array, capacity, {}) \union Owed(stack)
      BY <1>2 DEF IInv, Stored
    <2>5. stored = In(array, capacity, {})
      BY <2>1, <2>2, <2>4
    <2> QED BY <2>3, <2>4, <2>5 DEF NothingLost
  <1> QED BY <1>1, <1>2

LEMMA KeepsSound ==
  ASSUME IInv
  PROVE  TableSound
  <1>1. CASE pc = "list"
    <2>1. given = {} /\ num_of_elems = 0 /\ {k \in given : Slots(k) \ Hole # {}} = {}
      BY <1>1 DEF IInv, Unhashed
    <2> QED BY <2>1, FS_EmptySet DEF TableSound
  <1>2. CASE pc # "list"
    <2> DEFINE In0 == In(array, capacity, {})
    <2>1. given \subseteq Keys /\ capacity \in Nat
      BY DEF IInv, Types
    <2>2. /\ In0 \subseteq given /\ Sound(array, hash, capacity, HS, Hole)
          /\ num_of_elems = Cardinality(In0)
      BY <1>2 DEF IInv, Stored
    <2>3. ASSUME NEW k \in given
          PROVE  /\ \A i \in Slots(k) :
                      /\ i < capacity
                      /\ distance(i, hash[k]) < HS
                      /\ \A d \in 0..distance(i, hash[k]) : array[(hash[k] + d) % capacity] # EMPTY_KEY
                 /\ \A i, j \in Slots(k) \ Hole : i = j
      <3>1. k \in Keys /\ k # EMPTY_KEY
        BY <2>1, TableAssumption
      <3>2. Slots(k) = {i \in Cells(capacity) : array[i] = k}
        BY <1>2, <3>1, SlotsOf
      <3>3. ASSUME NEW i \in Slots(k)
            PROVE  /\ i < capacity
                   /\ distance(i, hash[k]) < HS
                   /\ \A d \in 0..distance(i, hash[k]) : array[(hash[k] + d) % capacity] # EMPTY_KEY
        <4>1. i \in Cells(capacity) /\ array[i] = k
          BY <3>2
        <4>2. i < capacity
          BY <2>1, <4>1 DEF Cells
        <4>3. Fits(array, hash, capacity, HS, i)
          BY <2>2, <3>1, <4>1 DEF Sound
        <4> QED BY <4>1, <4>2, <4>3 DEF Fits, Dist, Behind, distance
      <3>4. ASSUME NEW i \in Slots(k) \ Hole, NEW j \in Slots(k) \ Hole PROVE i = j
        BY <2>2, <3>1, <3>2 DEF Sound
      <3> QED BY <3>3, <3>4
    <2>4. {k \in given : Slots(k) \ Hole # {}} = In0
      <3>1. ASSUME NEW k \in given, Slots(k) \ Hole # {} PROVE k \in In0
        BY <1>2, <2>1, <3>1, SlotsOf
      <3>2. ASSUME NEW k \in In0 PROVE k \in given /\ Slots(k) \ Hole # {}
        <4>1. k \in given /\ k \in Keys
          BY <2>1, <2>2
        <4>2. Slots(k) = {i \in Cells(capacity) : array[i] = k}
          BY <1>2, <4>1, SlotsOf
        <4>3. \E i \in Cells(capacity) \ Hole : array[i] = k
          <5>1. CASE Running("move")
            <6>1. In(array, capacity, {top.pos}) = In0 /\ Hole = {top.pos}
              BY <5>1, HoleHides DEF IInv, HoleOK, Hole
            <6> QED BY <3>2, <6>1 DEF In
          <5>2. CASE ~Running("move")
            <6>1. Hole = {}
              BY <5>2 DEF Hole
            <6> QED BY <3>2, <6>1 DEF In
          <5> QED BY <5>1, <5>2
        <4> QED BY <4>1, <4>2, <4>3
      <3> QED BY <3>1, <3>2
    <2>5. 2 * num_of_elems <= capacity
      <3>1. IsFiniteSet(All) /\ 2 * Cardinality(All) <= capacity /\ In0 \subseteq All
        BY <1>2, <2>2 DEF IInv, Sized, All
      <3>2. IsFiniteSet(In0) /\ Cardinality(In0) <= Cardinality(All)
        BY <3>1, FS_Subset
      <3>3. Cardinality(In0) \in Nat /\ Cardinality(All) \in Nat
        BY <3>1, <3>2, FS_CardinalityType
      <3> HIDE DEF In0
      <3> QED BY <2>1, <2>2, <3>1, <3>2, <3>3
    <2> HIDE DEF In0
    <2>6. num_of_elems = Cardinality({k \in given : Slots(k) \ Hole # {}})
      BY <2>2, <2>4
    <2> QED BY <2>3, <2>5, <2>6 DEF TableSound
  <1> QED BY <1>1, <1>2

(***************************************************************************)
(* NothingLost, for every list of keys: no key is lost while keys are      *)
(* moved or in a rebuild, however deep rebuilds are nested.                *)
(***************************************************************************)
THEOREM NoKeyLost == Spec => []NothingLost
  BY TableInvariance, KeepsAll, PTL

(***************************************************************************)
(* TableSound, for every list of keys: what the lookups rely on holds      *)
(* after each step of an insertion.                                        *)
(***************************************************************************)
THEOREM AlwaysSound == Spec => []TableSound
  BY TableInvariance, KeepsSound, PTL

-----------------------------------------------------------------------------
(***************************************************************************)
(* Lookups of a finished table.                                            *)
(***************************************************************************)
\* A key less than v slots behind its hash value s is among the v slots from
\* there; or it lies before s, the load wraps, and its search passes all
\* slots from s to the end.
LEMMA Reached ==
  ASSUME NEW c \in Nat \ {0}, NEW s \in Cells(c), NEW i \in Cells(c),
         NEW v \in Nat \ {0}, Dist(c, i, s) < v
  PROVE  \/ i \in s..(s + v - 1)
         \/ /\ s + v > c /\ i \in 0..(0 + v - 1)
            /\ \A x \in s..(c - 1) : \E d \in 0..Dist(c, i, s) : Behind(c, s, d) = x
  <1> DEFINE D == Dist(c, i, s)
  <1>1. D = (IF i >= s THEN i - s ELSE i - s + c) /\ D \in Nat
    BY DistOf, DistNat
  <1>2. i \in Nat /\ s \in Nat /\ i < c /\ s < c
    BY DEF Cells
  <1> HIDE DEF D
  <1>3. D < v
    BY DEF D
  <1>4. CASE i >= s
    BY <1>1, <1>2, <1>3, <1>4
  <1>5. CASE i < s
    <2>1. s + v > c /\ i \in 0..(0 + v - 1)
      BY <1>1, <1>2, <1>3, <1>5
    <2>2. ASSUME NEW x \in s..(c - 1) PROVE \E d \in 0..D : Behind(c, s, d) = x
      <3> DEFINE d == x - s
      <3>1. d \in 0..D /\ d \in Cells(c) /\ s + d < c /\ s + d = x
        BY <1>1, <1>2, <1>5 DEF Cells
      <3> HIDE DEF d
      <3>2. Behind(c, s, d) = x
        BY <3>1, BehindOf
      <3> QED BY <3>1, <3>2
    <2> QED BY <2>1, <2>2 DEF D
  <1> QED BY <1>2, <1>4, <1>5

\* A finished table holds exactly the keys it was given.
LEMMA Finished ==
  ASSUME IInv, pc = "hashed"
  PROVE  /\ given = In(array, capacity, {}) /\ given \subseteq Keys
         /\ Sound(array, hash, capacity, HS, {})
         /\ (num_of_elems = 0 <=> given = {})
         /\ (given # {} => Shaped(array, hash, capacity, HS))
         /\ capacity \in Nat \ {0} /\ build.VECTOR \in Nat \ {0} /\ HS \in Nat \ {0}
         /\ (build.avx512 => build.VECTOR = HS)
         /\ DOMAIN array = 0..(capacity + build.VECTOR - 1 - 1)
         /\ \A i \in DOMAIN array \ Cells(capacity) : array[i] = INVAL_KEY
  <1>1. stack = << >> /\ elems = << >> /\ Hole = {} /\ Owed(stack) = {}
    BY DEF IInv, CallsOK, Hole, Running, Owed
  <1>2. Stored /\ Sized /\ Types
    BY DEF IInv
  <1>3. /\ given = In(array, capacity, {}) /\ Sound(array, hash, capacity, HS, {})
        /\ num_of_elems = Cardinality(given)
    <2>1. given = In(array, capacity, {}) /\ Sound(array, hash, capacity, HS, {})
      BY <1>1, <1>2 DEF Stored
    <2> QED BY <1>2, <2>1 DEF Stored
  <1>4. IsFiniteSet(given)
    <2>1. IsFiniteSet(All) /\ given \subseteq All
      BY <1>2 DEF Sized, All
    <2> QED BY <2>1, FS_Subset
  <1>5. num_of_elems = 0 <=> given = {}
    BY <1>3, <1>4, FS_EmptySet
  <1>6. /\ capacity \in Nat \ {0} /\ build.VECTOR \in Nat \ {0} /\ HS \in Nat \ {0}
        /\ (build.avx512 => build.VECTOR = HS)
    BY <1>2, TableAssumption DEF Sized, Types, HS
  <1>7. /\ DOMAIN array = 0..(capacity + build.VECTOR - 1 - 1)
        /\ \A i \in DOMAIN array \ Cells(capacity) : array[i] = INVAL_KEY
    <2>1. DOMAIN array = 0..(phys_capacity - 1)
      BY <1>2 DEF Sized
    <2>2. DOMAIN array = 0..(capacity + build.VECTOR - 1 - 1)
      BY <1>6, <2>1 DEF phys_capacity
    <2>3. \A i \in DOMAIN array \ Cells(capacity) : array[i] = INVAL_KEY
      BY <1>2 DEF Sized
    <2> QED BY <2>2, <2>3
  <1>8. given \subseteq Keys
    BY <1>2 DEF Types
  <1>9. ASSUME given # {} PROVE Shaped(array, hash, capacity, HS)
    <2>1. \A k \in Keys : hash[k] \in Cells(capacity)
      BY <1>2, <1>9 DEF Sized, All
    <2>2. \A i \in Cells(capacity) : array[i] # EMPTY_KEY => array[i] \in Keys
      BY <1>3, <1>8 DEF In
    <2> QED BY <1>6, <2>1, <2>2 DEF Shaped
  <1> QED BY <1>3, <1>5, <1>6, <1>7, <1>8, <1>9

\* A key that is not in the table is in no slot.
LEMMA NotThere ==
  ASSUME IInv, pc = "hashed", NEW k \in Keys, k \notin given
  PROVE  /\ \A S : ~Holds(S, k)
         /\ \A i \in Cells(capacity) : array[i] # k
  <1>1. given = In(array, capacity, {}) /\ k # EMPTY_KEY
    BY Finished, TableAssumption
  <1>2. \A i \in Cells(capacity) : array[i] # k
    BY <1>1 DEF In
  <1>3. \A i \in DOMAIN array : array[i] # k
    BY <1>2, SlotsOf
  <1> QED BY <1>2, <1>3 DEF Holds

\* Where a key of the table lies.
LEMMA There ==
  ASSUME IInv, pc = "hashed", NEW k \in given
  PROVE  \E i \in Cells(capacity) :
           /\ i \in DOMAIN array /\ array[i] = k /\ Dist(capacity, i, hash[k]) < HS
           /\ \A d \in 0..Dist(capacity, i, hash[k]) :
                array[Behind(capacity, hash[k], d)] # EMPTY_KEY
  <1>1. given = In(array, capacity, {}) /\ k \in Keys /\ k # EMPTY_KEY
    BY Finished, TableAssumption
  <1>2. PICK i \in Cells(capacity) : array[i] = k
    BY <1>1 DEF In
  <1>3. Fits(array, hash, capacity, HS, i)
    BY <1>1, <1>2, Finished DEF Sound
  <1>4. i \in DOMAIN array
    BY <1>1, <1>2, SlotsOf DEF Slots
  <1> QED BY <1>2, <1>3, <1>4 DEF Fits

\* The loads at a hash value and at 0 stay in the array.
LEMMA LoadsInside ==
  ASSUME IInv, pc = "hashed", NEW s \in Cells(capacity)
  PROVE  Loaded(s) \subseteq DOMAIN array /\ Loaded(0) \subseteq DOMAIN array
  <1> DEFINE c == capacity
             v == build.VECTOR
  <1>1. c \in Nat \ {0} /\ v \in Nat \ {0} /\ DOMAIN array = 0..(c + v - 1 - 1)
    BY Finished
  <1>2. s \in Nat /\ s < c
    BY <1>1 DEF Cells
  <1> HIDE DEF c, v
  <1>3. s..(s + v - 1) \subseteq 0..(c + v - 1 - 1) /\ 0..(0 + v - 1) \subseteq 0..(c + v - 1 - 1)
    BY <1>1, <1>2
  <1> QED BY <1>1, <1>3 DEF Loaded, v

\* The AVX-512 lookup finds each key of the table, within the array.
LEMMA VectorFinds ==
  ASSUME IInv, pc = "hashed", build.avx512, NEW k \in given
  PROVE  Holds(Probed(k), k) /\ Probed(k) \subseteq DOMAIN array
  <1> DEFINE c == capacity
             s == hash[k]
             v == build.VECTOR
  <1>1. /\ c \in Nat \ {0} /\ v \in Nat \ {0} /\ v = HS /\ num_of_elems # 0
        /\ Shaped(array, hash, c, HS) /\ k \in Keys
    BY Finished
  <1>2. s \in Cells(c)
    BY <1>1 DEF Shaped
  <1>3. Loaded(s) \subseteq DOMAIN array /\ Loaded(0) \subseteq DOMAIN array
    BY <1>2, LoadsInside
  <1>4. PICK i \in Cells(c) :
          /\ i \in DOMAIN array /\ array[i] = k /\ Dist(c, i, s) < HS
          /\ \A d \in 0..Dist(c, i, s) : array[Behind(c, s, d)] # EMPTY_KEY
    BY There
  <1> HIDE DEF c, s, v
  <1>5. CASE Holds(Loaded(s), k)
    <2>1. Probed(k) = Loaded(s)
      BY <1>1, <1>5 DEF Probed, s
    <2> QED BY <1>3, <1>5, <2>1
  <1>6. CASE ~Holds(Loaded(s), k)
    <2>1. i \notin s..(s + v - 1)
      BY <1>4, <1>6 DEF Holds, Loaded, v
    <2>2. /\ s + v > c /\ i \in 0..(0 + v - 1)
          /\ \A x \in s..(c - 1) : \E d \in 0..Dist(c, i, s) : Behind(c, s, d) = x
      BY <1>1, <1>2, <1>4, <2>1, Reached
    <2>3. ~Holds(Loaded(s), EMPTY_KEY)
      <3> SUFFICES ASSUME NEW x \in Loaded(s), x \in DOMAIN array, array[x] = EMPTY_KEY PROVE FALSE
        BY DEF Holds
      <3>1. x \in Cells(c)
        <4>1. \A y \in DOMAIN array \ Cells(c) : array[y] = INVAL_KEY
          BY Finished DEF c
        <4>2. EMPTY_KEY # INVAL_KEY
          BY TableAssumption
        <4> QED BY <4>1, <4>2
      <3>2. x \in s..(s + v - 1)
        BY DEF Loaded, v
      <3>3. x \in s..(c - 1)
        BY <1>1, <1>2, <3>1, <3>2 DEF Cells
      <3> QED BY <1>4, <2>2, <3>3
    <2>4. SecondLoad(k) = 0
      BY <2>2 DEF SecondLoad, s, v, c
    <2>5. Probed(k) = Loaded(s) \union Loaded(0)
      BY <1>1, <1>6, <2>3, <2>4 DEF Probed, s
    <2>6. i \in Loaded(0)
      BY <2>2 DEF Loaded, v
    <2> QED BY <1>3, <1>4, <2>5, <2>6 DEF Holds
  <1> QED BY <1>5, <1>6

\* The scalar lookup.
LEMMA ScalarExact ==
  ASSUME IInv, pc = "hashed", NEW k \in Keys, num_of_elems # 0
  PROVE  ScalarFound(k) <=> k \in given
  <1> DEFINE c == capacity
             s == hash[k]
  <1>1. c \in Nat \ {0} /\ Shaped(array, hash, c, HS) /\ HS \in Nat \ {0}
    BY Finished
  <1>2. s \in Cells(c) /\ s \in Nat
    BY <1>1 DEF Shaped, Cells
  <1> HIDE DEF c, s
  <1>3. ASSUME ScalarFound(k), k \notin given PROVE FALSE
    <2>1. PICK i \in 0..(HS - 1) : array[(s + i) % c] = k
      BY <1>3 DEF ScalarFound, s, c
    <2>2. s + i \in Nat
      BY <1>1, <1>2
    <2>3. (s + i) % c \in Cells(c)
      BY <1>1, <2>2 DEF Cells
    <2> QED BY <1>3, <2>1, <2>3, NotThere DEF c
  <1>4. ASSUME k \in given PROVE ScalarFound(k)
    <2>1. PICK i \in Cells(c) :
            /\ i \in DOMAIN array /\ array[i] = k /\ Dist(c, i, s) < HS
            /\ \A d \in 0..Dist(c, i, s) : array[Behind(c, s, d)] # EMPTY_KEY
      BY <1>4, There DEF c, s
    <2> DEFINE D == Dist(c, i, s)
    <2>2. D \in Nat /\ Behind(c, s, D) = i
      BY <1>1, <1>2, DistNat, RoundTrip
    <2> HIDE DEF D
    <2>3. D \in 0..(HS - 1) /\ \A d \in 0..(D - 1) : d \in 0..D
      BY <1>1, <2>1, <2>2 DEF D
    <2>4. array[(s + D) % c] = k
      BY <2>1, <2>2 DEF Behind
    <2>5. \A d \in 0..(D - 1) : array[(s + d) % c] # EMPTY_KEY
      BY <2>1, <2>3 DEF D, Behind
    <2> QED BY <2>3, <2>4, <2>5 DEF ScalarFound, s, c
  <1> QED BY <1>3, <1>4

\* contains.
LEMMA ContainsExact ==
  ASSUME IInv, pc = "hashed", NEW k \in Keys
  PROVE  /\ k \in given => contains(k) = {TRUE}
         /\ k \notin given /\ ~Overrun(k) => contains(k) = {FALSE}
  <1>1. CASE num_of_elems = 0
    BY <1>1, Finished DEF contains
  <1>2. CASE num_of_elems # 0 /\ ~build.avx512
    <2>1. contains(k) = {ScalarFound(k)} /\ ScalarFound(k) \in BOOLEAN
      BY <1>2 DEF contains, ScalarFound
    <2>2. ScalarFound(k) <=> k \in given
      BY <1>2, ScalarExact
    <2> QED BY <2>1, <2>2
  <1>3. CASE num_of_elems # 0 /\ build.avx512
    <2>1. Holds(Probed(k), k) \in BOOLEAN
      BY DEF Holds
    <2>2. ASSUME k \in given PROVE contains(k) = {TRUE}
      <3>1. Holds(Probed(k), k) = TRUE
        BY <1>3, <2>1, <2>2, VectorFinds
      <3> QED BY <1>3, <3>1 DEF contains
    <2>3. ASSUME k \notin given, ~Overrun(k) PROVE contains(k) = {FALSE}
      <3>1. Holds(Probed(k), k) = FALSE
        BY <2>1, <2>3, NotThere
      <3> QED BY <1>3, <2>3, <3>1 DEF contains
    <2> QED BY <2>2, <2>3
  <1> QED BY <1>1, <1>2, <1>3

LEMMA LooksUp ==
  ASSUME IInv
  PROVE  LookupExact
  <1> SUFFICES ASSUME pc = "hashed", NEW k \in Keys
               PROVE  IF k \in given THEN contains(k) = {TRUE} /\ vector_lookup(k) = {TRUE}
                      ELSE ~Overrun(k) => contains(k) = {FALSE} /\ vector_lookup(k) = {FALSE}
    BY DEF LookupExact
  <1>1. /\ k \in given => contains(k) = {TRUE}
        /\ k \notin given /\ ~Overrun(k) => contains(k) = {FALSE}
    BY ContainsExact
  <1>2. CASE num_of_elems = 0
    BY <1>1, <1>2, Finished DEF vector_lookup
  <1>3. CASE num_of_elems # 0 /\ array[hash[k]] \notin {k, EMPTY_KEY}
    BY <1>1, <1>3 DEF vector_lookup
  <1>4. CASE num_of_elems # 0 /\ array[hash[k]] \in {k, EMPTY_KEY}
    <2>1. vector_lookup(k) = {array[hash[k]] = k} /\ k # EMPTY_KEY
      BY <1>4, TableAssumption DEF vector_lookup
    <2>2. capacity \in Nat \ {0} /\ hash[k] \in Cells(capacity)
      BY <1>4, Finished DEF Shaped
    <2>3. ASSUME k \in given, array[hash[k]] = EMPTY_KEY PROVE FALSE
      <3>1. PICK i \in Cells(capacity) :
              \A d \in 0..Dist(capacity, i, hash[k]) :
                array[Behind(capacity, hash[k], d)] # EMPTY_KEY
        BY <2>3, There
      <3>2. 0 \in 0..Dist(capacity, i, hash[k]) /\ 0 \in Cells(capacity)
        <4>1. Dist(capacity, i, hash[k]) \in Nat
          BY <2>2, DistNat
        <4> QED BY <2>2, <4>1 DEF Cells
      <3>3. Behind(capacity, hash[k], 0) = hash[k]
        <4> DEFINE u == hash[k]
        <4>1. u \in Nat /\ u < capacity
          BY <2>2 DEF Cells
        <4>2. Behind(capacity, u, 0) = IF u + 0 < capacity THEN u + 0 ELSE u + 0 - capacity
          BY <2>2, <3>2, BehindOf
        <4> HIDE DEF u
        <4>3. Behind(capacity, u, 0) = u
          BY <2>2, <4>1, <4>2
        <4> QED BY <4>3 DEF u
      <3> QED BY <2>3, <3>1, <3>2, <3>3
    <2>4. ASSUME k \notin given PROVE array[hash[k]] # k
      BY <2>2, <2>4, NotThere
    <2>5. array[hash[k]] = k <=> k \in given
      BY <1>4, <2>3, <2>4
    <2>6. CASE k \in given
      <3>1. (array[hash[k]] = k) = TRUE
        BY <2>5, <2>6
      <3> QED BY <1>1, <2>1, <2>6, <3>1
    <2>7. CASE k \notin given
      <3>1. (array[hash[k]] = k) = FALSE
        BY <2>5, <2>7
      <3> QED BY <1>1, <2>1, <2>7, <3>1
    <2> QED BY <2>6, <2>7
  <1> QED BY <1>2, <1>3, <1>4

LEMMA OverrunsAtEnd ==
  ASSUME IInv
  PROVE  OverrunOnlyAtEnd
  <1> SUFFICES ASSUME pc = "hashed", NEW k \in Keys, Overrun(k)
               PROVE  /\ k \notin given
                      /\ hash[k] = capacity - build.VECTOR
                      /\ \A i \in hash[k]..(capacity - 1) : array[i] # EMPTY_KEY
                      /\ Probed(k) \ DOMAIN array = {phys_capacity}
    BY DEF OverrunOnlyAtEnd
  <1> DEFINE c == capacity
             s == hash[k]
             v == build.VECTOR
  <1>1. build.avx512 /\ ~(Probed(k) \subseteq DOMAIN array) /\ num_of_elems # 0
    BY DEF Overrun, Probed
  <1>2. k \notin given
    BY <1>1, VectorFinds
  <1>3. /\ c \in Nat \ {0} /\ v \in Nat \ {0} /\ Shaped(array, hash, c, HS)
        /\ DOMAIN array = 0..(c + v - 1 - 1)
    BY <1>1, Finished
  <1>4. s \in Cells(c) /\ s \in Nat /\ s < c
    BY <1>3 DEF Shaped, Cells
  <1>5. Loaded(s) \subseteq DOMAIN array /\ Loaded(0) \subseteq DOMAIN array
    BY <1>4, LoadsInside
  <1>6. /\ ~Holds(Loaded(s), EMPTY_KEY) /\ Probed(k) = Loaded(s) \union Loaded(SecondLoad(k))
    BY <1>1, <1>5 DEF Probed
  <1>7. ~(s + v > c) /\ SecondLoad(k) = s + v
    BY <1>1, <1>5, <1>6 DEF SecondLoad
  <1>8. ~((s + v)..(s + v + v - 1) \subseteq 0..(c + v - 1 - 1))
    BY <1>1, <1>3, <1>5, <1>6, <1>7 DEF Loaded
  <1>9. phys_capacity = c + v - 1
    BY DEF phys_capacity
  <1> HIDE DEF c, s, v
  <1>10. s + v = c
    <2>1. s + v < c => (s + v)..(s + v + v - 1) \subseteq 0..(c + v - 1 - 1)
      BY <1>3, <1>4
    <2> QED BY <1>3, <1>4, <1>7, <1>8, <2>1
  <1>11. s = c - v
    BY <1>3, <1>4, <1>10
  <1>12. \A i \in s..(c - 1) : array[i] # EMPTY_KEY
    <2> SUFFICES ASSUME NEW i \in s..(c - 1) PROVE array[i] # EMPTY_KEY
      OBVIOUS
    <2>1. i \in s..(s + v - 1)
      BY <1>3, <1>4, <1>10
    <2>2. i \in Loaded(s)
      BY <2>1 DEF Loaded, v
    <2> QED BY <1>5, <1>6, <2>2 DEF Holds
  <1>13. Probed(k) \ DOMAIN array = {c + v - 1}
    <2>1. Probed(k) \ DOMAIN array = (c..(c + v - 1)) \ (0..(c + v - 1 - 1))
      BY <1>3, <1>5, <1>6, <1>7, <1>10 DEF Loaded, v
    <2>2. \A x : x \in (c..(c + v - 1)) \ (0..(c + v - 1 - 1)) <=> x = c + v - 1
      BY <1>3
    <2>3. (c..(c + v - 1)) \ (0..(c + v - 1 - 1)) = {c + v - 1}
      BY <2>2
    <2> QED BY <2>1, <2>3
  <1> QED BY <1>2, <1>9, <1>11, <1>12, <1>13 DEF c, s, v

(***************************************************************************)
(* LookupExact, for every list of keys: both builds of contains and        *)
(* vector_lookup find exactly the keys of the set.                         *)
(***************************************************************************)
THEOREM LookupsRight == Spec => []LookupExact
  BY TableInvariance, LooksUp, PTL

(***************************************************************************)
(* OverrunOnlyAtEnd, for every list of keys: where a lookup reads behind   *)
(* the array, and that it is one slot.                                     *)
(***************************************************************************)
THEOREM OverrunConfined == Spec => []OverrunOnlyAtEnd
  BY TableInvariance, OverrunsAtEnd, PTL

-----------------------------------------------------------------------------
(***************************************************************************)
(* Types.                                                                  *)
(***************************************************************************)
IsArray == array = [i \in DOMAIN array |-> array[i]]

LEMMA StaysArray ==
  ASSUME IsArray, [Next]_vars
  PROVE  IsArray'
  <1>1. ASSUME array' = array PROVE IsArray'
    BY <1>1 DEF IsArray
  <1>2. ASSUME NEW cap, reserve(cap) PROVE IsArray'
    BY <1>2 DEF IsArray, reserve
  <1>3. ASSUME NEW p, NEW k, array' = [array EXCEPT ![p] = k] PROVE IsArray'
    BY <1>3 DEF IsArray
  <1>4. CASE hashSet
    BY <1>2, <1>4 DEF hashSet
  <1>5. CASE TryMove
    BY <1>3, <1>5 DEF TryMove
  <1>6. CASE TryPlace
    BY <1>3, <1>6 DEF TryPlace
  <1>7. CASE TryStuck \/ RebuildAgain
    BY <1>2, <1>7 DEF TryStuck, RebuildAgain, Reconstruct
  <1>8. CASE hashNext \/ isHashed \/ TryFind \/ RebuildNext \/ Retry \/ Exit
    BY <1>1, <1>8 DEF hashNext, isHashed, TryFind, RebuildNext, Retry, Exit, table
  <1>9. CASE Terminated \/ UNCHANGED vars
    BY <1>1, <1>9 DEF Terminated, vars, table
  <1> QED BY <1>4, <1>5, <1>6, <1>7, <1>8, <1>9 DEF Next

LEMMA Typed ==
  ASSUME IInv, IsArray
  PROVE  TypeOK
  <1>1. Types /\ Unhashed /\ Sized /\ Stored
    BY DEF IInv
  <1>2. num_of_elems \in Nat
    <2>1. CASE pc = "list"
      BY <1>1, <2>1 DEF Unhashed
    <2>2. CASE pc # "list"
      <3>1. IsFiniteSet(All) /\ In(array, capacity, {}) \subseteq All
        BY <1>1, <2>2 DEF Sized, Stored, All
      <3>2. Cardinality(In(array, capacity, {})) \in Nat
        BY <3>1, FS_Subset, FS_CardinalityType
      <3> QED BY <1>1, <2>2, <3>2 DEF Stored
    <2> QED BY <2>1, <2>2
  <1>3. ASSUME pc # "list"
        PROVE  /\ array \in [0..(phys_capacity - 1) -> Keys \union {EMPTY_KEY, INVAL_KEY}]
               /\ hash \in [Keys -> Nat]
    <2>1. /\ DOMAIN array = 0..(phys_capacity - 1) /\ hash \in [Keys -> Nat]
          /\ \A i \in DOMAIN array \ Cells(capacity) : array[i] = INVAL_KEY
      BY <1>1, <1>3 DEF Sized
    <2>2. \A i \in Cells(capacity) : array[i] = EMPTY_KEY \/ array[i] \in Keys
      BY <1>1, <1>3 DEF Stored, In, Types
    <2>3. \A i \in DOMAIN array : array[i] \in Keys \union {EMPTY_KEY, INVAL_KEY}
      BY <2>1, <2>2
    <2>4. array \in [DOMAIN array -> Keys \union {EMPTY_KEY, INVAL_KEY}]
      BY <2>3 DEF IsArray
    <2> QED BY <2>1, <2>4
  <1>4. ASSUME NEW n \in DOMAIN stack
        PROVE  /\ stack[n].el \in Keys /\ stack[n].cnt \in 0..(nAttempts - 1)
               /\ stack[n].pc \in {"try", "move", "rebuild"} /\ stack[n].pos \in Nat
               /\ DOMAIN stack[n].todo \subseteq Nat /\ Range(stack[n].todo) \subseteq Keys
               /\ stack[n].inner \in BOOLEAN
    <2>1. stack[n] \in Frame
      BY <1>1, LenProperties, ElementOfSeq DEF Types
    <2>2. /\ stack[n].el \in Keys /\ stack[n].cnt \in 0..(nAttempts - 1)
          /\ stack[n].pc \in {"try", "move", "rebuild"} /\ stack[n].pos \in Nat
          /\ stack[n].todo \in Todos /\ stack[n].inner \in BOOLEAN
      BY <2>1 DEF Frame
    <2>3. DOMAIN stack[n].todo \subseteq Nat /\ Range(stack[n].todo) \subseteq Keys
      BY <2>2, TodoOf
    <2> QED BY <2>2, <2>3
  <1> QED BY <1>1, <1>2, <1>3, <1>4 DEF TypeOK, Types

(***************************************************************************)
(* The variables of the table keep their types.                            *)
(***************************************************************************)
THEOREM TypeCorrect == Spec => []TypeOK
  <1>1. Init => IsArray
    BY DEF Init, IsArray
  <1>2. IsArray /\ [Next]_vars => IsArray'
    BY StaysArray
  <1>3. IInv /\ IsArray => TypeOK
    BY Typed
  <1> QED BY <1>1, <1>2, <1>3, TableInvariance, PTL DEF Spec
=============================================================================
