----------------------------- MODULE SumTheorems ----------------------------
(***************************************************************************)
(* Sums over finite sets, as the folds of the library compute them.  The   *)
(* library defines a fold by recursion over subsets; that there is such a  *)
(* function is proved first.  Inductions are written as the choice of a    *)
(* smallest set for which a claim fails.                                   *)
(***************************************************************************)
EXTENDS Integers, FiniteSetsExt, Functions, FiniteSetTheorems, WellFoundedInduction, TLAPS

Pick(s) == CHOOSE x \in s : TRUE

\* g adds up f over every subset of T, one element after the other.
IsSum(f, T, g) ==
  g = [s \in SUBSET T |-> IF s = {} THEN 0 ELSE f[Pick(s)] + g[s \ {Pick(s)}]]

\* The sum of f over T, as the folds of the library compute it.
SumOn(f, T) == (CHOOSE g : IsSum(f, T, g))[T]

\* Induction over finite sets: a set of subsets has a smallest one.
LEMMA SmallestSet ==
  ASSUME NEW T, IsFiniteSet(T), NEW B \in SUBSET (SUBSET T), B # {}
  PROVE  \E s \in B : \A x \in s : s \ {x} \notin B
  <1> DEFINE sizes == {Cardinality(s) : s \in B}
  <1>1. \A s \in B : IsFiniteSet(s) /\ Cardinality(s) \in Nat
    BY FS_Subset, FS_CardinalityType
  <1>2. sizes \in SUBSET Nat /\ sizes # {}
    BY <1>1
  <1> HIDE DEF sizes
  <1>3. PICK m \in sizes : \A k \in sizes : <<k, m>> \notin OpToRel(<, Nat)
    BY <1>2, NatLessThanWellFounded, WFMin, ZenonT(60)
  <1>4. \A k \in sizes : ~(k < m)
    BY <1>2, <1>3 DEF OpToRel
  <1>5. PICK s \in B : Cardinality(s) = m
    BY DEF sizes
  <1>6. ASSUME NEW x \in s, s \ {x} \in B
        PROVE  FALSE
    <2>1. Cardinality(s \ {x}) = Cardinality(s) - 1
      BY <1>1, FS_RemoveElement
    <2>2. Cardinality(s \ {x}) \in sizes
      BY <1>6 DEF sizes
    <2> QED BY <1>1, <1>4, <1>5, <2>1, <2>2
  <1> QED BY <1>6

\* Two functions that add up step by step agree where both are defined.
LEMMA SumUnique ==
  ASSUME NEW f, NEW T, NEW W, IsFiniteSet(T), NEW g, NEW h, IsSum(f, T, g), IsSum(f, W, h)
  PROVE  \A s \in SUBSET (T \intersect W) : g[s] = h[s]
  <1> DEFINE B == {s \in SUBSET (T \intersect W) : g[s] # h[s]}
  <1> SUFFICES ASSUME B # {} PROVE FALSE
    OBVIOUS
  <1>1. PICK s \in B : \A x \in s : s \ {x} \notin B
    <2>1. B \in SUBSET (SUBSET T)
      OBVIOUS
    <2> HIDE DEF B
    <2> QED BY <2>1, SmallestSet
  <1>2. s \in SUBSET T /\ s \in SUBSET W
    BY <1>1
  <1>3. /\ g[s] = IF s = {} THEN 0 ELSE f[Pick(s)] + g[s \ {Pick(s)}]
        /\ h[s] = IF s = {} THEN 0 ELSE f[Pick(s)] + h[s \ {Pick(s)}]
    BY <1>2 DEF IsSum
  <1>4. s # {}
    BY <1>1, <1>3
  <1>5. Pick(s) \in s
    BY <1>4 DEF Pick
  <1>6. g[s \ {Pick(s)}] = h[s \ {Pick(s)}]
    BY <1>1, <1>5
  <1> QED BY <1>1, <1>3, <1>4, <1>6

\* There is a function that adds up step by step.
LEMMA SumExists ==
  ASSUME NEW f, NEW T, IsFiniteSet(T)
  PROVE  \E g : IsSum(f, T, g)
  <1> DEFINE B == {W \in SUBSET T : ~\E g : IsSum(f, W, g)}
  <1> SUFFICES ASSUME B # {} PROVE FALSE
    OBVIOUS
  <1>1. PICK W \in B : \A x \in W : W \ {x} \notin B
    <2>1. B \in SUBSET (SUBSET T)
      OBVIOUS
    <2> HIDE DEF B
    <2> QED BY <2>1, SmallestSet
  <1> DEFINE H(x) == CHOOSE h : IsSum(f, W \ {x}, h)
  <1>2. \A x \in W : IsSum(f, W \ {x}, H(x))
    BY <1>1
  <1>3. \A x \in W : IsFiniteSet(W \ {x})
    BY <1>1, FS_Subset
  <1> HIDE DEF H, B
  <1>4. \A x, y \in W : \A s \in SUBSET (W \ {x, y}) : H(x)[s] = H(y)[s]
    <2> SUFFICES ASSUME NEW x \in W, NEW y \in W, NEW s \in SUBSET (W \ {x, y})
                 PROVE  H(x)[s] = H(y)[s]
      OBVIOUS
    <2>1. s \in SUBSET ((W \ {x}) \intersect (W \ {y}))
      OBVIOUS
    <2>2. \A u \in SUBSET ((W \ {x}) \intersect (W \ {y})) : H(x)[u] = H(y)[u]
      <3>1. IsSum(f, W \ {x}, H(x)) /\ IsSum(f, W \ {y}, H(y)) /\ IsFiniteSet(W \ {x})
        BY <1>2, <1>3
      <3> QED BY <3>1, SumUnique
    <2> QED BY <2>1, <2>2
  <1>5. \A x \in W : \A s \in SUBSET (W \ {x}) :
          H(x)[s] = IF s = {} THEN 0 ELSE f[Pick(s)] + H(x)[s \ {Pick(s)}]
    BY <1>2 DEF IsSum
  <1> DEFINE P(s) == H(Pick(W \ s))[s]
             g == [s \in SUBSET W |->
                     IF s = {} THEN 0
                     ELSE IF s = W THEN f[Pick(W)] + P(W \ {Pick(W)})
                     ELSE P(s)]
  <1>6. ASSUME NEW s \in SUBSET W
        PROVE  g[s] = IF s = {} THEN 0 ELSE f[Pick(s)] + g[s \ {Pick(s)}]
    <2>1. CASE s = {}
      BY <2>1
    <2>2. CASE s # {}
      <3> DEFINE p == Pick(s)
                 r == s \ {p}
      <3>1. p \in s /\ r \in SUBSET W /\ r # W
        BY <2>2 DEF Pick
      <3>2. g[r] = P(r)
        <4>1. CASE r = {}
          <5>1. Pick(W \ r) \in W
            BY <3>1 DEF Pick
          <5>2. P(r) = 0
            BY <1>5, <4>1, <5>1
          <5> QED BY <3>1, <4>1, <5>2
        <4>2. CASE r # {}
          BY <3>1, <4>2
        <4> QED BY <4>1, <4>2
      <3>3. CASE s = W
        BY <2>2, <3>1, <3>2, <3>3
      <3>4. CASE s # W
        <4> DEFINE x == Pick(W \ s)
                   y == Pick(W \ r)
        <4>1. x \in W \ s
          BY <3>4, <1>6 DEF Pick
        <4>2. y \in W \ r
          BY <3>1 DEF Pick
        <4>3. g[s] = H(x)[s]
          BY <2>2, <3>4
        <4>4. H(x)[s] = f[p] + H(x)[r]
          <5>1. x \in W /\ s \in SUBSET (W \ {x})
            BY <4>1
          <5> HIDE DEF x
          <5> QED BY <1>5, <2>2, <5>1
        <4>5. H(x)[r] = H(y)[r]
          <5>1. x \in W /\ y \in W /\ r \in SUBSET (W \ {x, y})
            BY <4>1, <4>2
          <5> HIDE DEF x, y, r
          <5> QED BY <1>4, <5>1
        <4> QED BY <2>2, <3>2, <4>3, <4>4, <4>5
      <3> QED BY <3>3, <3>4
    <2> QED BY <2>1, <2>2
  <1>7. g = [s \in SUBSET W |-> g[s]]
    OBVIOUS
  <1> HIDE DEF g
  <1>8. IsSum(f, W, g)
    BY <1>6, <1>7 DEF IsSum
  <1> QED BY <1>1, <1>8 DEF B

\* The step of the fold.
LEMMA SumStep ==
  ASSUME NEW f, NEW T, IsFiniteSet(T)
  PROVE  SumOn(f, T) = IF T = {} THEN 0 ELSE f[Pick(T)] + SumOn(f, T \ {Pick(T)})
  <1> DEFINE S == T \ {Pick(T)}
             g == CHOOSE h : IsSum(f, T, h)
             k == CHOOSE h : IsSum(f, S, h)
  <1>1. IsFiniteSet(S)
    BY FS_Subset
  <1>2. IsSum(f, T, g) /\ IsSum(f, S, k)
    BY <1>1, SumExists
  <1>3. SumOn(f, T) = g[T] /\ SumOn(f, S) = k[S]
    BY DEF SumOn
  <1> HIDE DEF g, k
  <1>4. g[T] = IF T = {} THEN 0 ELSE f[Pick(T)] + g[S]
    BY <1>2 DEF IsSum
  <1>5. S \in SUBSET (T \intersect S)
    OBVIOUS
  <1> HIDE DEF S
  <1>6. g[S] = k[S]
    BY <1>2, <1>5, SumUnique
  <1> QED BY <1>3, <1>4, <1>6 DEF S

\* A sum of integers is one.
LEMMA SumType ==
  ASSUME NEW f, NEW T, IsFiniteSet(T), \A x \in T : f[x] \in Int
  PROVE  SumOn(f, T) \in Int
  <1> DEFINE B == {s \in SUBSET T : SumOn(f, s) \notin Int}
  <1> SUFFICES ASSUME B # {} PROVE FALSE
    OBVIOUS
  <1>1. PICK s \in B : \A x \in s : s \ {x} \notin B
    <2>1. B \in SUBSET (SUBSET T)
      OBVIOUS
    <2> HIDE DEF B
    <2> QED BY <2>1, SmallestSet
  <1>2. s \in SUBSET T /\ IsFiniteSet(s) /\ SumOn(f, s) \notin Int
    BY <1>1, FS_Subset
  <1>3. SumOn(f, s) = IF s = {} THEN 0 ELSE f[Pick(s)] + SumOn(f, s \ {Pick(s)})
    BY <1>2, SumStep
  <1>4. s # {} => Pick(s) \in s /\ SumOn(f, s \ {Pick(s)}) \in Int
    BY <1>1, <1>2 DEF Pick
  <1> QED BY <1>2, <1>3, <1>4

(***************************************************************************)
(* The sum over a finite set: 0 for the empty set, and any element may be  *)
(* taken out of it.                                                        *)
(***************************************************************************)
LEMMA SumAny ==
  ASSUME NEW f, NEW T, IsFiniteSet(T), \A x \in T : f[x] \in Int
  PROVE  /\ SumOn(f, T) \in Int
         /\ T = {} => SumOn(f, T) = 0
         /\ \A x \in T : SumOn(f, T) = f[x] + SumOn(f, T \ {x})
  <1> DEFINE Good(s) == \A x \in s : SumOn(f, s) = f[x] + SumOn(f, s \ {x})
             B == {s \in SUBSET T : ~Good(s)}
  <1>1. ASSUME B # {} PROVE FALSE
    <2>1. PICK s \in B : \A x \in s : s \ {x} \notin B
      <3>1. B \in SUBSET (SUBSET T)
        OBVIOUS
      <3> HIDE DEF B
      <3> QED BY <1>1, <3>1, SmallestSet
    <2>2. s \in SUBSET T /\ ~Good(s) /\ IsFiniteSet(s)
      BY <2>1, FS_Subset
    <2>3. \A x \in s : Good(s \ {x})
      BY <2>1, <2>2
    <2>4. s # {}
      BY <2>2
    <2> DEFINE p == Pick(s)
    <2>5. p \in s /\ SumOn(f, s) = f[p] + SumOn(f, s \ {p})
      BY <2>2, <2>4, SumStep DEF Pick
    <2> HIDE DEF p
    <2>6. ASSUME NEW x \in s, x # p PROVE SumOn(f, s) = f[x] + SumOn(f, s \ {x})
      <3> DEFINE r == s \ {p, x}
      <3>1. x \in s \ {p} /\ p \in s \ {x} /\ r = (s \ {p}) \ {x} /\ r = (s \ {x}) \ {p}
        BY <2>5, <2>6
      <3>2. SumOn(f, s \ {p}) = f[x] + SumOn(f, r)
        BY <2>3, <2>5, <3>1
      <3>3. SumOn(f, s \ {x}) = f[p] + SumOn(f, r)
        BY <2>3, <3>1
      <3>4. f[x] \in Int /\ f[p] \in Int
        BY <2>2, <2>5
      <3>5. SumOn(f, r) \in Int
        <4>1. IsFiniteSet(r) /\ \A y \in r : f[y] \in Int
          BY <2>2, FS_Subset
        <4> HIDE DEF r
        <4> QED BY <4>1, SumType
      <3> HIDE DEF r
      <3> QED BY <2>5, <3>2, <3>3, <3>4, <3>5
    <2> QED BY <2>2, <2>5, <2>6
  <1>2. Good(T)
    BY <1>1
  <1> QED BY <1>2, SumStep, SumType

\* The operators of the library are this sum.
LEMMA FoldIsSum ==
  /\ \A f : FoldFunction(+, 0, f) = SumOn(f, DOMAIN f)
  /\ \A f, T : MapThenSumSet(LAMBDA c : f[c], T) = SumOn(f, T)
  <1>1. ASSUME NEW f PROVE FoldFunction(+, 0, f) = SumOn(f, DOMAIN f)
    BY DEF FoldFunction, FoldFunctionOnSet, MapThenFoldSet, SumOn, IsSum, Pick
  <1>2. ASSUME NEW f, NEW T PROVE MapThenSumSet(LAMBDA c : f[c], T) = SumOn(f, T)
    BY DEF MapThenSumSet, MapThenFoldSet, SumOn, IsSum, Pick
  <1> QED BY <1>1, <1>2

-----------------------------------------------------------------------------
\* An element more adds its value.
LEMMA SumExtend ==
  ASSUME NEW f, NEW T, IsFiniteSet(T), NEW x, x \notin T, \A y \in T \union {x} : f[y] \in Int
  PROVE  SumOn(f, T \union {x}) = SumOn(f, T) + f[x]
  <1> DEFINE W == T \union {x}
  <1>1. IsFiniteSet(W) /\ x \in W /\ W \ {x} = T
    BY FS_AddElement
  <1>2. \A y \in W : f[y] \in Int
    OBVIOUS
  <1>3. SumOn(f, T) \in Int /\ f[x] \in Int
    BY SumType
  <1> HIDE DEF W
  <1>4. SumOn(f, W) = f[x] + SumOn(f, W \ {x})
    BY <1>1, <1>2, SumAny
  <1>5. SumOn(f, W) = f[x] + SumOn(f, T)
    BY <1>1, <1>4
  <1> DEFINE m == SumOn(f, T)
             n == f[x]
  <1>6. m \in Int /\ n \in Int
    BY <1>3
  <1> HIDE DEF m, n
  <1>7. n + m = m + n
    BY <1>6
  <1> QED BY <1>5, <1>7 DEF W, m, n

\* The sum over a set depends on the values there alone.
LEMMA SumSame ==
  ASSUME NEW f, NEW h, NEW T, IsFiniteSet(T), \A x \in T : f[x] = h[x]
  PROVE  SumOn(f, T) = SumOn(h, T)
  <1> DEFINE B == {s \in SUBSET T : SumOn(f, s) # SumOn(h, s)}
  <1> SUFFICES ASSUME B # {} PROVE FALSE
    OBVIOUS
  <1>1. PICK s \in B : \A x \in s : s \ {x} \notin B
    <2>1. B \in SUBSET (SUBSET T)
      OBVIOUS
    <2> HIDE DEF B
    <2> QED BY <2>1, SmallestSet
  <1>2. s \in SUBSET T /\ IsFiniteSet(s) /\ SumOn(f, s) # SumOn(h, s)
    BY <1>1, FS_Subset
  <1>3. /\ SumOn(f, s) = IF s = {} THEN 0 ELSE f[Pick(s)] + SumOn(f, s \ {Pick(s)})
        /\ SumOn(h, s) = IF s = {} THEN 0 ELSE h[Pick(s)] + SumOn(h, s \ {Pick(s)})
    BY <1>2, SumStep
  <1>4. s # {} => Pick(s) \in s /\ SumOn(f, s \ {Pick(s)}) = SumOn(h, s \ {Pick(s)})
    BY <1>1, <1>2 DEF Pick
  <1> QED BY <1>2, <1>3, <1>4

\* A sum whose value at x changes.
LEMMA SumChange ==
  ASSUME NEW f, NEW h, NEW T, IsFiniteSet(T), NEW x \in T, NEW d \in Int,
         \A y \in T : f[y] \in Int,
         \A y \in T : h[y] = IF y = x THEN f[y] + d ELSE f[y]
  PROVE  SumOn(h, T) = SumOn(f, T) + d
  <1>1. \A y \in T : h[y] \in Int
    OBVIOUS
  <1>2. IsFiniteSet(T \ {x})
    BY FS_Subset
  <1>3. SumOn(f, T \ {x}) = SumOn(h, T \ {x})
    <2>1. \A y \in T \ {x} : f[y] = h[y]
      OBVIOUS
    <2> QED BY <1>2, <2>1, SumSame
  <1>4. SumOn(f, T) = f[x] + SumOn(f, T \ {x}) /\ SumOn(h, T) = h[x] + SumOn(h, T \ {x})
    BY <1>1, SumAny
  <1>5. SumOn(f, T \ {x}) \in Int /\ f[x] \in Int /\ h[x] = f[x] + d
    BY <1>2, SumType
  <1> QED BY <1>3, <1>4, <1>5

\* The same for a function that is changed at x.
LEMMA SumExcept ==
  ASSUME NEW T, IsFiniteSet(T), NEW f \in [T -> Int], NEW x \in T, NEW d \in Int
  PROVE  SumOn([f EXCEPT ![x] = f[x] + d], T) = SumOn(f, T) + d
  <1> DEFINE h == [f EXCEPT ![x] = f[x] + d]
  <1>1. /\ \A y \in T : f[y] \in Int
        /\ \A y \in T : h[y] = IF y = x THEN f[y] + d ELSE f[y]
    OBVIOUS
  <1> HIDE DEF h
  <1>2. SumOn(h, T) = SumOn(f, T) + d
    BY <1>1, SumChange
  <1> QED BY <1>2 DEF h

\* A sum of zeros.
LEMMA SumZero ==
  ASSUME NEW f, NEW T, IsFiniteSet(T), \A x \in T : f[x] = 0
  PROVE  SumOn(f, T) = 0
  <1> DEFINE B == {s \in SUBSET T : SumOn(f, s) # 0}
  <1> SUFFICES ASSUME B # {} PROVE FALSE
    OBVIOUS
  <1>1. PICK s \in B : \A x \in s : s \ {x} \notin B
    <2>1. B \in SUBSET (SUBSET T)
      OBVIOUS
    <2> HIDE DEF B
    <2> QED BY <2>1, SmallestSet
  <1>2. s \in SUBSET T /\ IsFiniteSet(s) /\ SumOn(f, s) # 0
    BY <1>1, FS_Subset
  <1>3. SumOn(f, s) = IF s = {} THEN 0 ELSE f[Pick(s)] + SumOn(f, s \ {Pick(s)})
    BY <1>2, SumStep
  <1>4. s # {} => f[Pick(s)] = 0 /\ SumOn(f, s \ {Pick(s)}) = 0
    BY <1>1, <1>2 DEF Pick
  <1> QED BY <1>2, <1>3, <1>4

\* Sums whose terms differ by no more than X, and for one element not at all.
LEMMA SumsClose ==
  ASSUME NEW f, NEW h, NEW T, IsFiniteSet(T), NEW X \in Nat, NEW a \in T, f[a] = h[a],
         \A y \in T : f[y] \in Int /\ h[y] \in Int /\ f[y] - h[y] \in -X..X
  PROVE  SumOn(f, T) - SumOn(h, T) \in -((Cardinality(T) - 1) * X)..((Cardinality(T) - 1) * X)
  <1> DEFINE W == T \ {a}
             Near(s) == SumOn(f, s) - SumOn(h, s) \in -(Cardinality(s) * X)..(Cardinality(s) * X)
             B == {s \in SUBSET W : ~Near(s)}
  <1>1. IsFiniteSet(W) /\ Cardinality(W) = Cardinality(T) - 1
    BY FS_RemoveElement
  <1>2. ASSUME B # {} PROVE FALSE
    <2>1. PICK s \in B : \A x \in s : s \ {x} \notin B
      <3>1. B \in SUBSET (SUBSET W)
        OBVIOUS
      <3> HIDE DEF B, W
      <3> QED BY <1>1, <1>2, <3>1, SmallestSet
    <2>2. s \in SUBSET W /\ IsFiniteSet(s) /\ ~Near(s) /\ Cardinality(s) \in Nat
      BY <1>1, <2>1, FS_Subset, FS_CardinalityType
    <2>3. s # {}
      <3>1. CASE s = {}
        <4>1. SumOn(f, s) = 0 /\ SumOn(h, s) = 0
          BY <2>2, <3>1, SumStep
        <4>2. Cardinality(s) = 0
          BY <3>1, FS_EmptySet
        <4> QED BY <2>2, <4>1, <4>2
      <3> QED BY <3>1
    <2> DEFINE p == Pick(s)
               r == s \ {p}
    <2>4. p \in s /\ SumOn(f, s) = f[p] + SumOn(f, r) /\ SumOn(h, s) = h[p] + SumOn(h, r)
      BY <2>2, <2>3, SumStep DEF Pick
    <2>5. IsFiniteSet(r) /\ Cardinality(r) = Cardinality(s) - 1
      BY <2>2, <2>4, FS_RemoveElement
    <2>6. Near(r)
      BY <2>1, <2>2, <2>4
    <2>7. SumOn(f, r) \in Int /\ SumOn(h, r) \in Int
      <3>1. \A y \in r : f[y] \in Int /\ h[y] \in Int
        BY <2>2
      <3> HIDE DEF r
      <3> QED BY <2>5, <3>1, SumType
    <2>8. f[p] \in Int /\ h[p] \in Int /\ f[p] - h[p] \in -X..X
      BY <2>2, <2>4
    <2> DEFINE c == Cardinality(s)
               e == c * X
    <2>9. (c - 1) * X = e - X /\ e \in Int
      BY <2>2
    <2>10. SumOn(f, r) - SumOn(h, r) \in -(e - X)..(e - X)
      BY <2>5, <2>6, <2>9
    <2> HIDE DEF e, r, p
    <2>11. SumOn(f, s) - SumOn(h, s) \in -e..e
      BY <2>4, <2>7, <2>8, <2>9, <2>10
    <2> QED BY <2>2, <2>11 DEF e
  <1>3. Near(W)
    BY <1>2
  <1>4. SumOn(f, T) = f[a] + SumOn(f, W) /\ SumOn(h, T) = h[a] + SumOn(h, W)
    BY SumAny
  <1>5. SumOn(f, W) \in Int /\ SumOn(h, W) \in Int
    BY <1>1, SumType
  <1>6. SumOn(f, T) - SumOn(h, T) = SumOn(f, W) - SumOn(h, W)
    BY <1>4, <1>5
  <1> QED BY <1>1, <1>3, <1>6

\* A finite set of naturals has a largest element.
LEMMA LargestNatural ==
  ASSUME NEW S \in SUBSET Nat, IsFiniteSet(S), S # {}
  PROVE  Max(S) \in S /\ \A y \in S : y <= Max(S)
  <1> DEFINE Top(s) == \E x \in s : \A y \in s : x >= y
             B == {s \in SUBSET S : s # {} /\ ~Top(s)}
  <1>1. ASSUME B # {} PROVE FALSE
    <2>1. PICK s \in B : \A x \in s : s \ {x} \notin B
      <3>1. B \in SUBSET (SUBSET S)
        OBVIOUS
      <3> HIDE DEF B
      <3> QED BY <1>1, <3>1, SmallestSet
    <2>2. PICK p \in s : TRUE
      BY <2>1
    <2>3. s \ {p} = {} \/ Top(s \ {p})
      BY <2>1
    <2>4. Top(s)
      <3>1. CASE s \ {p} = {}
        BY <2>1, <2>2, <3>1
      <3>2. CASE Top(s \ {p})
        <4>1. PICK x \in s \ {p} : \A y \in s \ {p} : x >= y
          BY <3>2
        <4>2. x \in Nat /\ p \in Nat /\ \A y \in s : y \in Nat
          BY <2>1, <2>2
        <4>3. CASE x >= p
          BY <4>1, <4>3
        <4>4. CASE p >= x
          <5>1. \A y \in s : p >= y
            BY <4>1, <4>2, <4>4
          <5> QED BY <5>1
        <4> QED BY <4>2, <4>3, <4>4
      <3> QED BY <2>3, <3>1, <3>2
    <2> QED BY <2>1, <2>4
  <1>2. Top(S)
    BY <1>1
  <1>3. Max(S) \in S /\ \A y \in S : Max(S) >= y
    BY <1>2 DEF Max
  <1> QED BY <1>3

-----------------------------------------------------------------------------
\* The elements of T that c assigns to k.
PartOf(T, c, k) == {x \in T : c[x] = k}

\* One more element in one part.
LEMMA PartExtend ==
  ASSUME NEW T, IsFiniteSet(T), NEW c, NEW x, x \notin T, NEW k
  PROVE  /\ Cardinality(PartOf(T, c, k)) \in Nat
         /\ Cardinality(PartOf(T \union {x}, c, k)) =
              IF c[x] = k THEN Cardinality(PartOf(T, c, k)) + 1 ELSE Cardinality(PartOf(T, c, k))
  <1> DEFINE S == PartOf(T, c, k)
  <1>1. S \in SUBSET T /\ x \notin S
    BY DEF PartOf
  <1>2. IsFiniteSet(S) /\ Cardinality(S) \in Nat
    BY <1>1, FS_Subset, FS_CardinalityType
  <1>3. c[x] = k => PartOf(T \union {x}, c, k) = S \union {x}
    BY DEF PartOf
  <1>4. c[x] # k => PartOf(T \union {x}, c, k) = S
    BY DEF PartOf
  <1> HIDE DEF S
  <1>5. Cardinality(S \union {x}) = Cardinality(S) + 1
    BY <1>1, <1>2, FS_AddElement
  <1> QED BY <1>2, <1>3, <1>4, <1>5 DEF S

\* The parts of a set add up to it.
LEMMA SumOfParts ==
  ASSUME NEW T, IsFiniteSet(T), NEW D, IsFiniteSet(D), NEW c, \A x \in T : c[x] \in D,
         NEW f, \A k \in D : f[k] = Cardinality(PartOf(T, c, k))
  PROVE  SumOn(f, D) = Cardinality(T)
  <1> DEFINE F(s) == [k \in D |-> Cardinality(PartOf(s, c, k))]
             B == {s \in SUBSET T : SumOn(F(s), D) # Cardinality(s)}
  <1>1. ASSUME B # {} PROVE FALSE
    <2>1. PICK s \in B : \A x \in s : s \ {x} \notin B
      <3>1. B \in SUBSET (SUBSET T)
        OBVIOUS
      <3> HIDE DEF B
      <3> QED BY <1>1, <3>1, SmallestSet
    <2>2. s \in SUBSET T /\ IsFiniteSet(s) /\ SumOn(F(s), D) # Cardinality(s)
      BY <2>1, FS_Subset
    <2>3. CASE s = {}
      <3>1. \A k : PartOf({}, c, k) = {}
        BY DEF PartOf
      <3>2. \A k \in D : F(s)[k] = 0
        BY <2>3, <3>1, FS_EmptySet
      <3> HIDE DEF F
      <3>3. SumOn(F(s), D) = 0
        BY <3>2, SumZero
      <3> QED BY <2>2, <2>3, <3>3, FS_EmptySet
    <2>4. CASE s # {}
      <3>1. PICK x \in s : TRUE
        BY <2>4
      <3> DEFINE r == s \ {x}
                 g == F(r)
                 h == F(s)
      <3>2. r \in SUBSET T /\ IsFiniteSet(r) /\ x \notin r /\ s = r \union {x} /\ c[x] \in D
        BY <2>2, FS_Subset
      <3>3. SumOn(g, D) = Cardinality(r)
        BY <2>1, <3>1, <3>2
      <3>4. \A k \in D : g[k] \in Int /\ h[k] = IF k = c[x] THEN g[k] + 1 ELSE g[k]
        <4> TAKE k \in D
        <4>1. g[k] = Cardinality(PartOf(r, c, k)) /\ h[k] = Cardinality(PartOf(s, c, k))
          OBVIOUS
        <4> HIDE DEF g, h, r, F, B
        <4>2. /\ Cardinality(PartOf(r, c, k)) \in Nat
              /\ Cardinality(PartOf(r \union {x}, c, k)) =
                   IF c[x] = k THEN Cardinality(PartOf(r, c, k)) + 1
                   ELSE Cardinality(PartOf(r, c, k))
          BY <3>2, PartExtend
        <4> QED BY <3>2, <4>1, <4>2
      <3> HIDE DEF g, h, r, F, B
      <3>5. SumOn(h, D) = SumOn(g, D) + 1
        <4> DEFINE k0 == c[x]
        <4>1. k0 \in D /\ \A k \in D : g[k] \in Int /\ h[k] = IF k = k0 THEN g[k] + 1 ELSE g[k]
          BY <3>2, <3>4
        <4> HIDE DEF k0
        <4> QED BY <4>1, SumChange
      <3>6. Cardinality(s) = Cardinality(r) + 1
        BY <3>2, FS_AddElement
      <3>7. SumOn(h, D) = Cardinality(s)
        BY <3>3, <3>5, <3>6
      <3> QED BY <2>2, <3>7 DEF h
    <2> QED BY <2>3, <2>4
  <1>2. SumOn(F(T), D) = Cardinality(T)
    BY <1>1
  <1>3. \A k \in D : F(T)[k] = f[k]
    OBVIOUS
  <1> HIDE DEF F, B
  <1>4. SumOn(F(T), D) = SumOn(f, D)
    BY <1>3, SumSame
  <1> QED BY <1>2, <1>4
=============================================================================
