------------------------ MODULE MemUsageLogger_proofs -----------------------
(***************************************************************************)
(* Proofs about MemUsageLogger, for every number of threads, of types of   *)
(* memory and of calls.                                                    *)
(***************************************************************************)
EXTENDS MemUsageLogger, SumTheorems, FiniteSetTheorems, TLAPS

-----------------------------------------------------------------------------
(***************************************************************************)
(* Types, and who holds the mutex.                                         *)
(***************************************************************************)
Pcs == {"idle", "spin", "add", "addtype", "count", "lock", "flag", "set",
        "total", "peak", "row", "unflag", "unlock"}

Locked == {"flag", "set", "total", "peak", "row", "unflag", "unlock"}

\* A thread is between lock and unlock exactly if it holds the mutex.
Mutual ==
  /\ \A t \in Threads : t \in mutex <=> pc[t] \in Locked
  /\ \A t, u \in mutex : t = u

\* The flag is set exactly while some thread is sampling.
FlagExact == tmp_combine_semaphore <=> Samplers # {}

\* The counters of all types, and the total, are different counters.
LEMMA CountersFacts ==
  /\ Total \in Counters /\ Types \subseteq Counters /\ 0 \in Types
  /\ Total \notin Types /\ Counters \subseteq Nat
  BY LoggerAssumption DEF Total, Types, Counters

\* A thread adds up integers.
LEMMA SumOfInt == TypeOK => SumOf(Total) \in Int
  <1> SUFFICES ASSUME TypeOK PROVE SumOf(Total) \in Int
    OBVIOUS
  <1> DEFINE f == usage_pt[Total]
  <1>1. f \in [Threads -> Int]
    BY CountersFacts DEF TypeOK
  <1>2. SumOf(Total) = SumOn(f, DOMAIN f)
    BY FoldIsSum DEF SumOf
  <1> HIDE DEF f
  <1> QED BY <1>1, <1>2, SumType, LoggerAssumption

CallType == [mem : Int, type : Types]
PassType == [c : Counters, left : SUBSET Threads, sum : Int]

\* The values that variables are reset to have their types.
LEMMA ResetTypes ==
  /\ NoCall \in CallType /\ NoPass \in PassType /\ NoRow \in [Counters -> Int]
  /\ \A c \in Counters : [c |-> c, left |-> Threads, sum |-> 0] \in PassType
  BY CountersFacts DEF CallType, PassType, NoCall, NoPass, NoRow

\* A new pass has its type.
LEMMA StartsTyped ==
  ASSUME pass \in [Threads -> PassType], NEW t \in Threads, NEW c \in Counters, StartPass(t, c)
  PROVE  pass' \in [Threads -> PassType]
  <1>1. [c |-> c, left |-> Threads, sum |-> 0] \in PassType
    BY ResetTypes
  <1> QED BY <1>1 DEF StartPass

\* Every step keeps the types.
LEMMA TypeStep ==
  ASSUME TypeOK, NEW t \in Threads, Step(t)
  PROVE  TypeOK'
  <1> USE DEF TypeOK, shared, results
  <1>0. /\ call[t].mem \in Int /\ call[t].type \in Types /\ call[t].type \in Counters
        /\ pass[t] \in PassType /\ pass[t].c \in Counters /\ pass[t].sum \in Int
        /\ pass \in [Threads -> PassType] /\ call \in [Threads -> CallType]
    BY CountersFacts DEF PassType, CallType
  <1>1. CASE Begin(t)
    <2>1. PICK mem \in Sizes \union {-s : s \in Sizes}, type \in Types :
            call' = [call EXCEPT ![t] = [mem |-> mem, type |-> type]]
      BY <1>1 DEF Begin
    <2>2. [mem |-> mem, type |-> type] \in CallType
      <3>1. \A s \in Sizes : s \in Int /\ -s \in Int
        BY LoggerAssumption
      <3>2. mem \in Int
        BY <3>1
      <3> QED BY <3>2 DEF CallType
    <2>3. call' \in [Threads -> CallType]
      BY <1>0, <2>1, <2>2
    <2>4. calls' \in [Threads -> 0..MaxCalls]
      BY <1>1, LoggerAssumption DEF Begin
    <2> QED BY <1>1, <2>3, <2>4 DEF Begin, Goto, CallType
  <1>2. CASE Spin(t)
    BY <1>2 DEF Spin, Goto
  <1>3. CASE AddTotal(t)
    BY <1>3, <1>0, CountersFacts DEF AddTotal, Goto, Added
  <1>4. CASE AddType(t)
    <2>1. usage_pt' \in [Counters -> [Threads -> Int]]
      BY <1>4, <1>0 DEF AddType, Added
    <2>2. pc' \in [Threads -> Pcs]
      BY <1>4 DEF AddType, Pcs
    <2> QED BY <1>4, <2>1, <2>2 DEF AddType, Pcs
  <1>5. CASE Count(t)
    <2>1. call' \in [Threads -> CallType]
      BY <1>5, <1>0, ResetTypes DEF Count
    <2>2. allocation_num_pt' \in [Threads -> Nat]
      BY <1>5 DEF Count
    <2> QED BY <1>5, <2>1, <2>2 DEF Count, Goto, CallType
  <1>6. CASE Lock(t)
    BY <1>6 DEF Lock, Goto
  <1>7. CASE TestFlag(t)
    BY <1>7 DEF TestFlag, Goto
  <1>8. CASE SetFlag(t)
    BY <1>8, CountersFacts, SumOfInt DEF SetFlag, Goto, StartPass
  <1>9. CASE Combine(t)
    <2>1. PICK u \in pass[t].left :
            pass' = [pass EXCEPT ![t] = [c |-> pass[t].c, left |-> pass[t].left \ {u},
                                         sum |-> pass[t].sum + usage_pt[pass[t].c][u]]]
      BY <1>9 DEF Combine
    <2>2. u \in Threads /\ usage_pt[pass[t].c][u] \in Int
      BY <1>0, <2>1 DEF PassType
    <2>3. pass' \in [Threads -> PassType]
      BY <1>0, <2>1, <2>2 DEF PassType
    <2> QED BY <1>9, <2>3 DEF Combine, PassType
  <1>10. CASE TotalSummed(t)
    <2>1. pass' \in [Threads -> PassType]
      BY <1>10, <1>0, CountersFacts, ResetTypes DEF TotalSummed, StartPass
    <2>2. peak' \in [Counters -> Int] /\ row' \in [Counters -> Int]
      BY <1>10, <1>0, CountersFacts DEF TotalSummed
    <2>3. pc' \in [Threads -> Pcs]
      BY <1>10 DEF TotalSummed, Pcs
    <2> QED BY <1>10, <2>1, <2>2, <2>3 DEF TotalSummed, PassType, Pcs
  <1>11. CASE PeakSummed(t)
    <2>1. pass' \in [Threads -> PassType]
      <3>1. pass' = pass \/ \E c \in Counters : StartPass(t, c)
        BY <1>11, CountersFacts DEF PeakSummed
      <3> QED BY <1>0, <3>1, StartsTyped
    <2>2. peak' \in [Counters -> Int]
      BY <1>11, <1>0, CountersFacts DEF PeakSummed
    <2>3. pc' \in [Threads -> Pcs]
      BY <1>11 DEF PeakSummed, Pcs
    <2> QED BY <1>11, <2>1, <2>2, <2>3 DEF PeakSummed, PassType, Pcs
  <1>12. CASE RowSummed(t)
    <2>1. pass' \in [Threads -> PassType]
      <3>1. pass' = pass \/ \E c \in Counters : StartPass(t, c)
        BY <1>12, CountersFacts DEF RowSummed
      <3> QED BY <1>0, <3>1, StartsTyped
    <2>2. row' \in [Counters -> Int]
      BY <1>12, <1>0, CountersFacts DEF RowSummed
    <2>3. pc' \in [Threads -> Pcs]
      BY <1>12 DEF RowSummed, Pcs
    <2> QED BY <1>12, <2>1, <2>2, <2>3 DEF RowSummed, PassType, Pcs
  <1>13. CASE ClearFlag(t)
    <2>1. pass' \in [Threads -> PassType] /\ row' \in [Counters -> Int]
      BY <1>13, <1>0, ResetTypes DEF ClearFlag
    <2>2. pc' \in [Threads -> Pcs]
      BY <1>13 DEF ClearFlag, Goto, Pcs
    <2>3. /\ tmp_combine_semaphore' = FALSE /\ base' = 0
          /\ UNCHANGED <<sampling, mutex, call, calls, usage_pt, allocation_num_pt, peak>>
      BY <1>13 DEF ClearFlag
    <2>4. sampling' \in BOOLEAN /\ tmp_combine_semaphore' \in BOOLEAN
      BY <2>3, Zenon
    <2>5. mutex' \subseteq Threads /\ peak' \in [Counters -> Int] /\ base' \in Int
      BY <2>3
    <2>6. /\ call' \in [Threads -> [mem : Int, type : Types]] /\ calls' \in [Threads -> 0..MaxCalls]
          /\ usage_pt' \in [Counters -> [Threads -> Int]] /\ allocation_num_pt' \in [Threads -> Nat]
      BY <2>3
    <2> QED BY <2>1, <2>2, <2>4, <2>5, <2>6 DEF PassType, Pcs
  <1>14. CASE Unlock(t)
    BY <1>14 DEF Unlock, Goto
  <1> QED BY <1>1, <1>2, <1>3, <1>4, <1>5, <1>6, <1>7, <1>8, <1>9, <1>10, <1>11, <1>12, <1>13, <1>14 DEF Step

\* Every step keeps the mutex and the flag.
LEMMA MutualStep ==
  ASSUME TypeOK, Mutual, FlagExact, NEW t \in Threads, Step(t)
  PROVE  Mutual' /\ FlagExact'
  <1> USE DEF TypeOK, Mutual, FlagExact, Samplers, Locked
  <1>1. CASE Begin(t)
    BY <1>1 DEF Begin, Goto
  <1>2. CASE Spin(t)
    BY <1>2 DEF Spin, Goto
  <1>3. CASE AddTotal(t)
    BY <1>3 DEF AddTotal, Goto
  <1>4. CASE AddType(t)
    BY <1>4 DEF AddType
  <1>5. CASE Count(t)
    BY <1>5 DEF Count, Goto
  <1>6. CASE Lock(t)
    BY <1>6 DEF Lock, Goto
  <1>7. CASE TestFlag(t)
    BY <1>7 DEF TestFlag, Goto
  <1>8. CASE SetFlag(t)
    BY <1>8 DEF SetFlag, Goto
  <1>9. CASE Combine(t)
    BY <1>9 DEF Combine
  <1>10. CASE TotalSummed(t)
    BY <1>10 DEF TotalSummed, Summed
  <1>11. CASE PeakSummed(t)
    BY <1>11 DEF PeakSummed, Summed
  <1>12. CASE RowSummed(t)
    BY <1>12 DEF RowSummed, Summed
  <1>13. CASE ClearFlag(t)
    BY <1>13 DEF ClearFlag, Goto
  <1>14. CASE Unlock(t)
    BY <1>14 DEF Unlock, Goto
  <1> QED BY <1>1, <1>2, <1>3, <1>4, <1>5, <1>6, <1>7, <1>8, <1>9, <1>10, <1>11, <1>12, <1>13, <1>14 DEF Step

\* Init, and the step of the whole.
LEMMA MutualInvariant == Spec => [](TypeOK /\ Mutual /\ FlagExact)
  <1> DEFINE I == TypeOK /\ Mutual /\ FlagExact
  <1>1. ASSUME Init PROVE I
    <2>1. call \in [Threads -> CallType] /\ pass \in [Threads -> PassType]
      BY <1>1, ResetTypes DEF Init
    <2>2. usage_pt \in [Counters -> [Threads -> Int]] /\ calls \in [Threads -> 0..MaxCalls]
      BY <1>1, LoggerAssumption DEF Init
    <2>3. TypeOK
      BY <1>1, <2>1, <2>2, ResetTypes DEF Init, TypeOK, CallType, PassType
    <2> QED BY <1>1, <2>3 DEF Init, Mutual, FlagExact, Samplers, Locked
  <1>2. I /\ [Next]_vars => I'
    <2> SUFFICES ASSUME I, [Next]_vars PROVE I'
      OBVIOUS
    <2>1. ASSUME NEW t \in Threads, Step(t) PROVE I'
      BY <2>1, TypeStep, MutualStep
    <2>2. CASE UNCHANGED vars
      BY <2>2 DEF vars, shared, results, TypeOK, Mutual, FlagExact, Samplers
    <2> QED BY <2>1, <2>2 DEF Next
  <1> QED BY <1>1, <1>2, PTL DEF Spec

-----------------------------------------------------------------------------
(***************************************************************************)
(* How far a sample is off.  U are the counters, P the pcs and C the calls *)
(* of the threads.  M[u] is what thread u may have added since thread s    *)
(* has set the flag: one call, and nothing for s itself.                   *)
(***************************************************************************)
X == Max(Sizes)

Adding == {"add", "addtype"}

Moves(P, C, M, s) ==
  /\ M \in [Threads -> -X..X] /\ M[s] = 0
  /\ \A u \in Threads : P[u] \in Adding => M[u] = C[u].mem

\* The totals are those of W, but for threads that have added since.
Since(T, P, M, W, u) ==
  /\ T[u] - W[u] \in {0, M[u]}
  /\ P[u] = "add" => T[u] = W[u]

\* The counters of the types of thread u.
OfThread(U, u) == [c \in Types |-> U[c][u]]

\* Per thread, the types add up to the total, but for a call half way.
TypesAddUp(U, P, C) ==
  \A u \in Threads :
    SumOn(OfThread(U, u), Types) = U[Total][u] - (IF P[u] = "addtype" THEN C[u].mem ELSE 0)

\* The first pass.  B are the totals when the flag was set, R those read.
TotalPass(T, P, C, ps, b, s) ==
  \E B, R, M \in [Threads -> Int] :
    /\ Moves(P, C, M, s)
    /\ b = SumOn(B, Threads) /\ ps.c = Total /\ ps.sum = SumOn(R, Threads \ ps.left)
    /\ \A u \in Threads : Since(T, P, M, B, u)
    /\ \A u \in Threads \ ps.left : Since(T, P, M, R, u) /\ R[u] - B[u] \in {0, M[u]}

\* The types of thread u that a pass ps has read.
TypesRead(ps, u) == 0..(IF u \in ps.left THEN ps.c - 1 ELSE ps.c)

\* Q[u] is the sum of them as they were read.
ReadSince(U, P, M, Q, ps, u) ==
  /\ SumOn(OfThread(U, u), TypesRead(ps, u)) - Q[u] \in {0, M[u]}
  /\ P[u] \in Adding => Q[u] = SumOn(OfThread(U, u), TypesRead(ps, u))

\* The other passes, which write to r; tot is the total of the first pass.
TypesPass(U, P, C, ps, r, tot, s) ==
  \E R, Q, M \in [Threads -> Int] :
    /\ Moves(P, C, M, s)
    /\ tot = SumOn(R, Threads) /\ ps.c \in Types
    /\ SumOn(Q, Threads) = SumOn(r, 0..(ps.c - 1)) + ps.sum
    /\ \A u \in Threads : Since(U[Total], P, M, R, u) /\ ReadSince(U, P, M, Q, ps, u)

\* The state of a sample that thread s takes.
SampleOK(U, P, C, ps, pk, rw, b, s) ==
  /\ P[s] = "total" => TotalPass(U[Total], P, C, ps, b, s)
  /\ P[s] = "peak" => TypesPass(U, P, C, ps, pk, rw[Total], s) /\ pk[Total] = rw[Total]
  /\ P[s] = "row" => TypesPass(U, P, C, ps, rw, rw[Total], s)
  /\ P[s] \in {"peak", "row", "unflag"} => Close(rw[Total], b)
  /\ P[s] = "unflag" => Close(rw[Total], SumOn(rw, Types))

\* The peak is written while a thread is at "peak".
PeakOK(P, pk) ==
  Threads # {} /\ (\A s \in Threads : P[s] # "peak") => Close(pk[Total], SumOn(pk, Types))

CountersOK(U) == U \in [Counters -> [Threads -> Int]]
CallsOK(C) == \A u \in Threads : C[u].mem \in -X..X

SkewInv ==
  /\ CallsOK(call) /\ TypesAddUp(usage_pt, pc, call)
  /\ \A s \in Threads : SampleOK(usage_pt, pc, call, pass[s], peak, row, base, s)
  /\ PeakOK(pc, peak)

\* Calls of other threads while s takes a sample, on the counters they change.
Quiet(U, P, C, U2, P2, C2, t) ==
  /\ U2 = U /\ P2[t] \notin Adding
  /\ \A u \in Threads \ {t} : P2[u] = P[u] /\ C2[u] = C[u]

TotalAdded(U, P, C, U2, P2, C2, t) ==
  /\ P[t] = "add" /\ P2[t] = "addtype" /\ C2 = C /\ \A u \in Threads \ {t} : P2[u] = P[u]
  /\ \A u \in Threads : U2[Total][u] = U[Total][u] + (IF u = t THEN C[t].mem ELSE 0)
  /\ \A u \in Threads : OfThread(U2, u) = OfThread(U, u)

TypeAdded(U, P, C, U2, P2, C2, t) ==
  /\ P[t] = "addtype" /\ P2[t] \notin Adding /\ C2 = C /\ \A u \in Threads \ {t} : P2[u] = P[u]
  /\ U2[Total] = U[Total]
  /\ \A u \in Threads \ {t} : OfThread(U2, u) = OfThread(U, u)
  /\ \E k \in Types : \A c \in Types :
       OfThread(U2, t)[c] = IF c = k THEN OfThread(U, t)[c] + C[t].mem ELSE OfThread(U, t)[c]

Elsewhere(U, P, C, U2, P2, C2, t) ==
  \/ Quiet(U, P, C, U2, P2, C2, t)
  \/ TotalAdded(U, P, C, U2, P2, C2, t)
  \/ TypeAdded(U, P, C, U2, P2, C2, t)

-----------------------------------------------------------------------------
\* The largest amount of a call.
LEMMA LargestCall == X \in Nat /\ \A m \in Sizes : m \in -X..X /\ -m \in -X..X
  <1>1. Max(Sizes) \in Sizes /\ \A y \in Sizes : y <= Max(Sizes)
    BY LargestNatural, LoggerAssumption
  <1>2. Sizes \subseteq Nat
    BY LoggerAssumption
  <1>3. X \in Nat /\ \A y \in Sizes : y \in Nat /\ y <= X
    BY <1>1, <1>2 DEF X
  <1> HIDE DEF X
  <1> QED BY <1>3

\* Intervals of types.
LEMMA TypeIntervals ==
  /\ IsFiniteSet(Types) /\ Types = 0..(NUM_OF_TYPES - 1) /\ NUM_OF_TYPES \in Nat /\ 0 \in Types
  /\ \A c \in Types : c \in Nat /\ 0..c \subseteq Types /\ 0..(c - 1) \subseteq Types
                      /\ 0..c = (0..(c - 1)) \union {c} /\ c \notin 0..(c - 1)
                      /\ IsFiniteSet(0..c) /\ IsFiniteSet(0..(c - 1))
                      /\ (c + 1 \notin Types => 0..c = Types)
  <1>1. IsFiniteSet(Types) /\ NUM_OF_TYPES \in Nat /\ Types = 0..(NUM_OF_TYPES - 1) /\ NUM_OF_TYPES # 0
    BY LoggerAssumption, FS_Interval DEF Types
  <1>2. ASSUME NEW c \in Types
        PROVE  c \in Nat /\ 0..c \subseteq Types /\ 0..(c - 1) \subseteq Types
               /\ 0..c = (0..(c - 1)) \union {c} /\ c \notin 0..(c - 1)
               /\ (c + 1 \notin Types => 0..c = Types)
    BY <1>1
  <1>3. \A c \in Types : IsFiniteSet(0..c) /\ IsFiniteSet(0..(c - 1))
    BY <1>1, <1>2, FS_Subset
  <1> QED BY <1>1, <1>2, <1>3

\* The sum of the types read is an integer.
LEMMA PartInt ==
  ASSUME NEW U, CountersOK(U), NEW u \in Threads, NEW S \in SUBSET Types
  PROVE  /\ IsFiniteSet(S) /\ SumOn(OfThread(U, u), S) \in Int
         /\ \A c \in S : OfThread(U, u)[c] = U[c][u] /\ OfThread(U, u)[c] \in Int
  <1>0. IsFiniteSet(Types)
    BY TypeIntervals
  <1>1. IsFiniteSet(S)
    BY <1>0, FS_Subset
  <1>2. \A c \in S : OfThread(U, u)[c] = U[c][u] /\ OfThread(U, u)[c] \in Int
    BY CountersFacts DEF CountersOK, OfThread
  <1> QED BY <1>1, <1>2, SumType

\* A call adds to one type: to a part of the types, its amount or nothing.
LEMMA PartAdded ==
  ASSUME NEW U, NEW P, NEW C, NEW U2, NEW P2, NEW C2, NEW t \in Threads,
         CountersOK(U), CallsOK(C), TypeAdded(U, P, C, U2, P2, C2, t), NEW S \in SUBSET Types
  PROVE  /\ SumOn(OfThread(U2, t), S) - SumOn(OfThread(U, t), S) \in {0, C[t].mem}
         /\ S = Types => SumOn(OfThread(U2, t), S) = SumOn(OfThread(U, t), S) + C[t].mem
  <1> DEFINE f == OfThread(U, t)
             h == OfThread(U2, t)
             d == C[t].mem
  <1>1. PICK k \in Types : \A c \in Types : h[c] = IF c = k THEN f[c] + d ELSE f[c]
    BY DEF TypeAdded
  <1>2. IsFiniteSet(S) /\ SumOn(f, S) \in Int /\ \A c \in S : f[c] \in Int
    BY PartInt
  <1>3. d \in Int
    BY LargestCall DEF CallsOK
  <1> HIDE DEF f, h, d
  <1>4. CASE k \in S
    <2>1. SumOn(h, S) = SumOn(f, S) + d
      <3>1. \A c \in S : h[c] = IF c = k THEN f[c] + d ELSE f[c]
        BY <1>1
      <3> QED BY <1>2, <1>3, <1>4, <3>1, SumChange
    <2>2. SumOn(h, S) - SumOn(f, S) = d
      BY <1>2, <1>3, <2>1
    <2> QED BY <2>1, <2>2 DEF f, h, d
  <1>5. CASE k \notin S
    <2>1. SumOn(h, S) = SumOn(f, S)
      <3>1. \A c \in S : f[c] = h[c]
        BY <1>1, <1>5
      <3> QED BY <1>2, <3>1, SumSame
    <2>2. SumOn(h, S) - SumOn(f, S) = 0
      BY <1>2, <2>1
    <2>3. S # Types
      BY <1>5
    <2> QED BY <2>2, <2>3 DEF f, h
  <1> QED BY <1>4, <1>5

\* A call of another thread leaves what it may add as it is.
LEMMA MovesElsewhere ==
  ASSUME NEW U, NEW P, NEW C, NEW U2, NEW P2, NEW C2, NEW t \in Threads,
         Elsewhere(U, P, C, U2, P2, C2, t), NEW M, NEW s, Moves(P, C, M, s)
  PROVE  Moves(P2, C2, M, s)
  <1> SUFFICES ASSUME NEW u \in Threads, P2[u] \in Adding PROVE M[u] = C2[u].mem
    BY DEF Moves
  <1>1. \A v \in Threads : P[v] \in Adding => M[v] = C[v].mem
    BY DEF Moves
  <1>2. CASE u # t
    BY <1>1, <1>2 DEF Elsewhere, Quiet, TotalAdded, TypeAdded
  <1>3. CASE u = t
    BY <1>1, <1>3 DEF Elsewhere, Quiet, TotalAdded, TypeAdded, Adding
  <1> QED BY <1>2, <1>3

\* It adds to its total at most once.
LEMMA SinceElsewhere ==
  ASSUME NEW U, NEW P, NEW C, NEW U2, NEW P2, NEW C2, NEW t \in Threads,
         CountersOK(U), CallsOK(C), Elsewhere(U, P, C, U2, P2, C2, t),
         NEW M, NEW s, Moves(P, C, M, s), NEW W \in [Threads -> Int], NEW u \in Threads,
         Since(U[Total], P, M, W, u)
  PROVE  Since(U2[Total], P2, M, W, u)
  <1>1. U[Total][u] \in Int /\ C[t].mem \in Int /\ W[u] \in Int
    BY CountersFacts, LargestCall DEF CountersOK, CallsOK
  <1>2. CASE Quiet(U, P, C, U2, P2, C2, t)
    BY <1>2 DEF Quiet, Since, Adding
  <1>3. CASE TypeAdded(U, P, C, U2, P2, C2, t)
    BY <1>3 DEF TypeAdded, Since, Adding
  <1>4. CASE TotalAdded(U, P, C, U2, P2, C2, t)
    <2>1. CASE u # t
      <3>1. U2[Total][u] = U[Total][u] /\ P2[u] = P[u]
        BY <1>1, <1>4, <2>1 DEF TotalAdded
      <3> QED BY <3>1 DEF Since
    <2>2. CASE u = t
      <3>1. U[Total][t] = W[t] /\ M[t] = C[t].mem /\ P2[t] = "addtype"
        BY <1>4, <2>2 DEF TotalAdded, Since, Moves, Adding
      <3>2. U2[Total][t] = U[Total][t] + C[t].mem
        BY <1>4 DEF TotalAdded
      <3>3. U2[Total][t] - W[t] = M[t]
        BY <1>1, <2>2, <3>1, <3>2
      <3> QED BY <2>2, <3>1, <3>3 DEF Since
    <2> QED BY <2>1, <2>2
  <1> QED BY <1>2, <1>3, <1>4 DEF Elsewhere

\* It adds to its types at most once.
LEMMA ReadElsewhere ==
  ASSUME NEW U, NEW P, NEW C, NEW U2, NEW P2, NEW C2, NEW t \in Threads,
         CountersOK(U), CallsOK(C), Elsewhere(U, P, C, U2, P2, C2, t),
         NEW M, NEW s, Moves(P, C, M, s), NEW Q \in [Threads -> Int], NEW u \in Threads, NEW ps,
         TypesRead(ps, u) \in SUBSET Types, ReadSince(U, P, M, Q, ps, u)
  PROVE  ReadSince(U2, P2, M, Q, ps, u)
  <1> DEFINE S == TypesRead(ps, u)
             f == OfThread(U, u)
             h == OfThread(U2, u)
  <1>1. SumOn(f, S) - Q[u] \in {0, M[u]} /\ (P[u] \in Adding => Q[u] = SumOn(f, S))
    BY DEF ReadSince
  <1>2. ASSUME h = f, P2[u] \in Adding => P[u] \in Adding
        PROVE  ReadSince(U2, P2, M, Q, ps, u)
    BY <1>1, <1>2 DEF ReadSince
  <1>3. CASE Quiet(U, P, C, U2, P2, C2, t)
    BY <1>2, <1>3 DEF Quiet
  <1>4. CASE TotalAdded(U, P, C, U2, P2, C2, t)
    <2>1. P2[u] \in Adding => P[u] \in Adding
      BY <1>4 DEF TotalAdded, Adding
    <2> QED BY <1>2, <1>4, <2>1 DEF TotalAdded
  <1>5. CASE TypeAdded(U, P, C, U2, P2, C2, t)
    <2>1. CASE u # t
      BY <1>2, <1>5, <2>1 DEF TypeAdded
    <2>2. CASE u = t
      <3>1. Q[t] = SumOn(f, S) /\ M[t] = C[t].mem /\ P2[t] \notin Adding
        BY <1>1, <1>5, <2>2 DEF TypeAdded, Moves, Adding
      <3>2. SumOn(h, S) - SumOn(f, S) \in {0, C[t].mem}
        BY <1>5, <2>2, PartAdded
      <3> QED BY <2>2, <3>1, <3>2 DEF ReadSince
    <2> QED BY <2>1, <2>2
  <1> QED BY <1>3, <1>4, <1>5 DEF Elsewhere

\* So a pass goes on as it was.
LEMMA PassElsewhere ==
  ASSUME NEW U, NEW P, NEW C, NEW U2, NEW P2, NEW C2, NEW t \in Threads,
         CountersOK(U), CallsOK(C), Elsewhere(U, P, C, U2, P2, C2, t),
         NEW s \in Threads, NEW ps
  PROVE  /\ \A b : TotalPass(U[Total], P, C, ps, b, s) => TotalPass(U2[Total], P2, C2, ps, b, s)
         /\ \A r, tot : TypesPass(U, P, C, ps, r, tot, s) => TypesPass(U2, P2, C2, ps, r, tot, s)
  <1>1. ASSUME NEW b, TotalPass(U[Total], P, C, ps, b, s)
        PROVE  TotalPass(U2[Total], P2, C2, ps, b, s)
    <2>1. PICK B, R, M \in [Threads -> Int] :
            /\ Moves(P, C, M, s)
            /\ b = SumOn(B, Threads) /\ ps.c = Total /\ ps.sum = SumOn(R, Threads \ ps.left)
            /\ \A u \in Threads : Since(U[Total], P, M, B, u)
            /\ \A u \in Threads \ ps.left : Since(U[Total], P, M, R, u) /\ R[u] - B[u] \in {0, M[u]}
      BY <1>1 DEF TotalPass
    <2>2. Moves(P2, C2, M, s)
      BY <2>1, MovesElsewhere
    <2>3. \A u \in Threads : Since(U2[Total], P2, M, B, u)
      BY <2>1, SinceElsewhere
    <2>4. \A u \in Threads \ ps.left : Since(U2[Total], P2, M, R, u)
      BY <2>1, SinceElsewhere
    <2> QED BY <2>1, <2>2, <2>3, <2>4 DEF TotalPass
  <1>2. ASSUME NEW r, NEW tot, TypesPass(U, P, C, ps, r, tot, s)
        PROVE  TypesPass(U2, P2, C2, ps, r, tot, s)
    <2>1. PICK R, Q, M \in [Threads -> Int] :
            /\ Moves(P, C, M, s)
            /\ tot = SumOn(R, Threads) /\ ps.c \in Types
            /\ SumOn(Q, Threads) = SumOn(r, 0..(ps.c - 1)) + ps.sum
            /\ \A u \in Threads : Since(U[Total], P, M, R, u) /\ ReadSince(U, P, M, Q, ps, u)
      BY <1>2 DEF TypesPass
    <2>2. Moves(P2, C2, M, s)
      BY <2>1, MovesElsewhere
    <2>3. \A u \in Threads : Since(U2[Total], P2, M, R, u)
      BY <2>1, SinceElsewhere
    <2>4. \A u \in Threads : TypesRead(ps, u) \in SUBSET Types
      BY <2>1, TypeIntervals DEF TypesRead
    <2>5. \A u \in Threads : ReadSince(U2, P2, M, Q, ps, u)
      BY <2>1, <2>4, ReadElsewhere
    <2> QED BY <2>1, <2>2, <2>3, <2>5 DEF TypesPass
  <1> QED BY <1>1, <1>2

-----------------------------------------------------------------------------
(***************************************************************************)
(* The steps of the thread that takes the sample.                          *)
(***************************************************************************)
NewPass(c) == [c |-> c, left |-> Threads, sum |-> 0]
OneMore(ps, u, v) == [c |-> ps.c, left |-> ps.left \ {u}, sum |-> ps.sum + v]

\* Only the pc of the sampling thread changes.
SamplerOnly(P, P2, s) == P2[s] \notin Adding /\ \A u \in Threads \ {s} : P2[u] = P[u]

\* What holds of the threads does not depend on the pc of the sampling one.
LEMMA SamplerMoves ==
  ASSUME NEW P, NEW P2, NEW s \in Threads, SamplerOnly(P, P2, s), NEW C, NEW M, Moves(P, C, M, s)
  PROVE  /\ Moves(P2, C, M, s)
         /\ \A T, W : \A u \in Threads : Since(T, P, M, W, u) => Since(T, P2, M, W, u)
         /\ \A U, Q, ps : \A u \in Threads : ReadSince(U, P, M, Q, ps, u) => ReadSince(U, P2, M, Q, ps, u)
  <1>1. \A u \in Threads : P2[u] \in Adding => P2[u] = P[u]
    BY DEF SamplerOnly
  <1>2. \A u \in Threads : P2[u] = "add" => P2[u] = P[u]
    BY <1>1 DEF Adding
  <1> QED BY <1>1, <1>2 DEF Moves, Since, ReadSince

\* SetFlag: nothing has been read, nothing has been added since.
LEMMA PassStarts ==
  ASSUME NEW T \in [Threads -> Int], NEW P, NEW C, CallsOK(C), NEW s \in Threads,
         P[s] \notin Adding, NEW b, b = SumOn(T, Threads)
  PROVE  TotalPass(T, P, C, NewPass(Total), b, s)
  <1> DEFINE M == [u \in Threads |-> IF P[u] \in Adding THEN C[u].mem ELSE 0]
  <1>1. M \in [Threads -> -X..X] /\ M \in [Threads -> Int]
    BY LargestCall DEF CallsOK
  <1>2. Moves(P, C, M, s)
    BY <1>1 DEF Moves
  <1>3. \A u \in Threads : T[u] - T[u] = 0
    OBVIOUS
  <1>4. SumOn(T, Threads \ Threads) = 0
    <2>1. Threads \ Threads = {} /\ IsFiniteSet({})
      BY FS_EmptySet
    <2> QED BY <2>1, SumStep
  <1>5. \A u \in Threads : Since(T, P, M, T, u)
    BY <1>3 DEF Since
  <1> HIDE DEF M
  <1> QED BY <1>1, <1>2, <1>4, <1>5 DEF TotalPass, NewPass

\* Combine in the first pass.
LEMMA TotalRead ==
  ASSUME NEW T \in [Threads -> Int], NEW P, NEW C, NEW s \in Threads, NEW ps \in PassType,
         NEW b, TotalPass(T, P, C, ps, b, s), NEW x \in ps.left
  PROVE  TotalPass(T, P, C, OneMore(ps, x, T[x]), b, s)
  <1>1. PICK B, R, M \in [Threads -> Int] :
          /\ Moves(P, C, M, s)
          /\ b = SumOn(B, Threads) /\ ps.c = Total /\ ps.sum = SumOn(R, Threads \ ps.left)
          /\ \A u \in Threads : Since(T, P, M, B, u)
          /\ \A u \in Threads \ ps.left : Since(T, P, M, R, u) /\ R[u] - B[u] \in {0, M[u]}
    BY DEF TotalPass
  <1> DEFINE R2 == [R EXCEPT ![x] = T[x]]
             D == Threads \ ps.left
             ps2 == OneMore(ps, x, T[x])
  <1>2. x \in Threads /\ x \notin D /\ ps.left \subseteq Threads
    BY DEF PassType
  <1>3. R2 \in [Threads -> Int] /\ R2[x] = T[x] /\ \A u \in Threads \ {x} : R2[u] = R[u]
    BY <1>2
  <1>4. Threads \ ps2.left = D \union {x} /\ ps2.c = ps.c /\ ps2.sum = ps.sum + T[x]
    BY <1>2 DEF OneMore
  <1>5. IsFiniteSet(D)
    BY LoggerAssumption, FS_Subset
  <1>6. SumOn(R2, D \union {x}) = SumOn(R, D) + T[x]
    <2>1. \A u \in D : R[u] = R2[u]
      BY <1>2, <1>3
    <2> HIDE DEF R2
    <2>2. SumOn(R, D) = SumOn(R2, D)
      BY <1>5, <2>1, SumSame, Zenon
    <2>3. \A u \in D \union {x} : R2[u] \in Int
      BY <1>2, <1>3
    <2>4. SumOn(R2, D \union {x}) = SumOn(R2, D) + R2[x]
      BY <1>2, <1>5, <2>3, SumExtend
    <2> QED BY <1>3, <2>2, <2>4
  <1>7. ASSUME NEW u \in D \union {x}
        PROVE  Since(T, P, M, R2, u) /\ R2[u] - B[u] \in {0, M[u]}
    <2>1. CASE u = x
      <3>1. Since(T, P, M, B, x) /\ T[x] - T[x] = 0
        BY <1>1, <1>2
      <3> QED BY <1>3, <2>1, <3>1 DEF Since
    <2>2. CASE u # x
      <3>1. u \in D /\ R2[u] = R[u]
        BY <1>2, <1>3, <2>2
      <3> QED BY <1>1, <3>1 DEF Since
    <2> QED BY <2>1, <2>2
  <1> HIDE DEF R2, ps2, D
  <1>8. ps2.sum = SumOn(R2, Threads \ ps2.left)
    BY <1>1, <1>4, <1>6 DEF D
  <1>9. TotalPass(T, P, C, ps2, b, s)
    BY <1>1, <1>3, <1>4, <1>7, <1>8 DEF TotalPass
  <1> QED BY <1>9 DEF ps2

\* A new pass over the types has read nothing.
LEMMA TypesStart ==
  ASSUME NEW U, CountersOK(U), NEW P, NEW C, NEW s \in Threads, NEW M \in [Threads -> Int],
         Moves(P, C, M, s), NEW R \in [Threads -> Int],
         \A u \in Threads : Since(U[Total], P, M, R, u), NEW r
  PROVE  TypesPass(U, P, C, NewPass(0), r, SumOn(R, Threads), s)
  <1> DEFINE Q == [u \in Threads |-> 0]
             ps == NewPass(0)
  <1>1. ps.c = 0 /\ ps.sum = 0 /\ ps.left = Threads
    BY DEF NewPass
  <1>2. 0..(ps.c - 1) = {} /\ \A u \in Threads : TypesRead(ps, u) = {}
    BY <1>1 DEF TypesRead
  <1>3. \A f : SumOn(f, {}) = 0
    BY FS_EmptySet, SumStep
  <1>4. SumOn(Q, Threads) = 0
    BY LoggerAssumption, SumZero
  <1>5. \A u \in Threads : ReadSince(U, P, M, Q, ps, u)
    BY <1>2, <1>3 DEF ReadSince
  <1>6. 0 \in Types
    BY TypeIntervals
  <1>7. Q \in [Threads -> Int]
    OBVIOUS
  <1> HIDE DEF Q, ps
  <1>8. SumOn(Q, Threads) = SumOn(r, 0..(ps.c - 1)) + ps.sum
    BY <1>1, <1>2, <1>3, <1>4
  <1>9. TypesPass(U, P, C, ps, r, SumOn(R, Threads), s)
    BY <1>1, <1>5, <1>6, <1>7, <1>8 DEF TypesPass
  <1> QED BY <1>9 DEF ps

\* TotalSummed: the total is close to the usage when the flag was set.
LEMMA TotalClose ==
  ASSUME NEW U, CountersOK(U), NEW P, NEW C, NEW s \in Threads, NEW ps, ps.left = {},
         NEW b, TotalPass(U[Total], P, C, ps, b, s), NEW P2, SamplerOnly(P, P2, s), NEW r
  PROVE  Close(ps.sum, b) /\ TypesPass(U, P2, C, NewPass(0), r, ps.sum, s)
  <1>1. PICK B, R, M \in [Threads -> Int] :
          /\ Moves(P, C, M, s)
          /\ b = SumOn(B, Threads) /\ ps.c = Total /\ ps.sum = SumOn(R, Threads \ ps.left)
          /\ \A u \in Threads : Since(U[Total], P, M, B, u)
          /\ \A u \in Threads \ ps.left : Since(U[Total], P, M, R, u) /\ R[u] - B[u] \in {0, M[u]}
    BY DEF TotalPass
  <1>2. Threads \ ps.left = Threads
    OBVIOUS
  <1>3. ps.sum = SumOn(R, Threads)
    BY <1>1, <1>2
  <1>4. X \in Nat /\ M[s] = 0 /\ \A u \in Threads : M[u] \in -X..X
    BY <1>1, LargestCall DEF Moves
  <1>5. \A u \in Threads : R[u] \in Int /\ B[u] \in Int /\ R[u] - B[u] \in -X..X
    BY <1>1, <1>2, <1>4
  <1>6. R[s] = B[s]
    <2>1. R[s] - B[s] = 0 /\ R[s] \in Int /\ B[s] \in Int
      BY <1>1, <1>2, <1>4
    <2> QED BY <2>1
  <1>7. SumOn(R, Threads) - SumOn(B, Threads)
          \in -((Cardinality(Threads) - 1) * X)..((Cardinality(Threads) - 1) * X)
    BY <1>4, <1>5, <1>6, LoggerAssumption, SumsClose
  <1>8. Close(ps.sum, b)
    BY <1>1, <1>3, <1>7 DEF Close, Skew, X
  <1>9. Moves(P2, C, M, s) /\ \A u \in Threads : Since(U[Total], P2, M, R, u)
    BY <1>1, <1>2, SamplerMoves
  <1>10. TypesPass(U, P2, C, NewPass(0), r, SumOn(R, Threads), s)
    BY <1>9, TypesStart
  <1> QED BY <1>3, <1>8, <1>10

\* The sum over the threads, when the value of one has changed.
LEMMA ChangedSum ==
  ASSUME NEW Q \in [Threads -> Int], NEW Z \in [Threads -> Int], NEW x \in Threads,
         \A u \in Threads \ {x} : Z[u] = Q[u]
  PROVE  SumOn(Z, Threads) = SumOn(Q, Threads) + (Z[x] - Q[x])
  <1> DEFINE W == Threads \ {x}
  <1>1. /\ IsFiniteSet(Threads) /\ IsFiniteSet(W)
        /\ \A u \in Threads : Q[u] \in Int /\ Z[u] \in Int
    BY LoggerAssumption, FS_RemoveElement
  <1>2. SumOn(Q, Threads) = Q[x] + SumOn(Q, W)
    BY <1>1, SumAny
  <1>3. SumOn(Z, Threads) = Z[x] + SumOn(Z, W)
    BY <1>1, SumAny
  <1>4. SumOn(Z, W) = SumOn(Q, W)
    BY <1>1, SumSame
  <1>5. SumOn(Q, W) \in Int
    BY <1>1, SumType
  <1> HIDE DEF W
  <1> QED BY <1>1, <1>2, <1>3, <1>4, <1>5

\* Combine in a pass over the types.
LEMMA TypeRead ==
  ASSUME NEW U, CountersOK(U), NEW P, NEW C, NEW s \in Threads, NEW ps \in PassType,
         NEW r, NEW tot, TypesPass(U, P, C, ps, r, tot, s), NEW x \in ps.left,
         SumOn(r, 0..(ps.c - 1)) \in Int
  PROVE  TypesPass(U, P, C, OneMore(ps, x, U[ps.c][x]), r, tot, s)
  <1>1. PICK R, Q, M \in [Threads -> Int] :
          /\ Moves(P, C, M, s)
          /\ tot = SumOn(R, Threads) /\ ps.c \in Types
          /\ SumOn(Q, Threads) = SumOn(r, 0..(ps.c - 1)) + ps.sum
          /\ \A u \in Threads : Since(U[Total], P, M, R, u) /\ ReadSince(U, P, M, Q, ps, u)
    BY DEF TypesPass
  <1> DEFINE c == ps.c
             v == U[c][x]
             Q2 == [Q EXCEPT ![x] = Q[x] + v]
             ps2 == OneMore(ps, x, v)
             f == OfThread(U, x)
  <1>2. x \in Threads /\ ps.left \subseteq Threads /\ ps.sum \in Int
    BY DEF PassType
  <1>3. v \in Int
    BY <1>1, <1>2, CountersFacts DEF CountersOK
  <1>4. /\ Q2 \in [Threads -> Int] /\ Q2[x] = Q[x] + v
        /\ \A u \in Threads : Q2[u] = IF u = x THEN Q[u] + v ELSE Q[u]
    BY <1>2, <1>3
  <1>5. ps2.c = c /\ ps2.sum = ps.sum + v /\ ps2.left = ps.left \ {x}
    BY DEF OneMore
  <1>6. SumOn(Q2, Threads) = SumOn(Q, Threads) + v
    <2>1. /\ x \in Threads /\ Q \in [Threads -> Int] /\ Q2 \in [Threads -> Int]
          /\ \A u \in Threads \ {x} : Q2[u] = Q[u]
      BY <1>1, <1>2, <1>4
    <2>2. Q2[x] = Q[x] + v /\ Q[x] \in Int
      BY <1>1, <1>2, <1>4
    <2> HIDE DEF v, Q2
    <2>3. SumOn(Q2, Threads) = SumOn(Q, Threads) + (Q2[x] - Q[x])
      BY <2>1, ChangedSum
    <2>4. Q2[x] - Q[x] = v
      BY <1>3, <2>2
    <2> QED BY <2>3, <2>4
  <1>7. SumOn(Q2, Threads) = SumOn(r, 0..(ps2.c - 1)) + ps2.sum
    <2> DEFINE a == SumOn(r, 0..(c - 1))
    <2>1. a \in Int
      OBVIOUS
    <2>2. SumOn(Q, Threads) = a + ps.sum
      BY <1>1
    <2> HIDE DEF a, v, Q2, ps2
    <2>3. SumOn(Q2, Threads) = a + (ps.sum + v)
      BY <1>2, <1>3, <1>6, <2>1, <2>2
    <2> QED BY <1>5, <2>3 DEF a
  <1>8. SumOn(f, 0..c) = SumOn(f, 0..(c - 1)) + v
    <2>1. c \in Types /\ c \in Nat /\ 0..c \subseteq Types /\ 0..(c - 1) \subseteq Types
          /\ 0..c = (0..(c - 1)) \union {c} /\ c \notin 0..(c - 1) /\ IsFiniteSet(0..(c - 1))
      BY <1>1, TypeIntervals
    <2>2. \A i \in 0..c : f[i] \in Int
      BY <1>2, <2>1, PartInt
    <2>3. f[c] = v
      BY <1>1 DEF OfThread
    <2> DEFINE S == 0..(c - 1)
    <2>4. SumOn(f, S \union {c}) = SumOn(f, S) + f[c]
      <3>1. \A i \in S \union {c} : f[i] \in Int
        BY <2>1, <2>2
      <3>2. IsFiniteSet(S) /\ c \notin S
        BY <2>1
      <3> HIDE DEF S, f, c
      <3> QED BY <3>1, <3>2, SumExtend
    <2> QED BY <2>1, <2>3, <2>4
  <1>9. ASSUME NEW u \in Threads
        PROVE  ReadSince(U, P, M, Q2, ps2, u)
    <2>1. ReadSince(U, P, M, Q, ps, u)
      BY <1>1
    <2>2. CASE u # x
      <3>1. Q2[u] = Q[u] /\ (u \in ps2.left <=> u \in ps.left)
        BY <1>4, <1>5, <2>2
      <3>2. TypesRead(ps2, u) = TypesRead(ps, u)
        BY <1>5, <3>1 DEF TypesRead
      <3> QED BY <2>1, <3>1, <3>2 DEF ReadSince
    <2>3. CASE u = x
      <3>1. TypesRead(ps, x) = 0..(c - 1) /\ TypesRead(ps2, x) = 0..c
        BY <1>5 DEF TypesRead
      <3> DEFINE a == SumOn(f, 0..(c - 1))
                 b == SumOn(f, 0..c)
                 q == Q[x]
      <3>2. a - q \in {0, M[x]} /\ (P[x] \in Adding => q = a)
        BY <2>1, <2>3, <3>1 DEF ReadSince
      <3>3. a \in Int /\ q \in Int /\ b = a + v /\ Q2[x] = q + v
        <4>1. 0..(c - 1) \in SUBSET Types
          BY <1>1, TypeIntervals
        <4>2. a \in Int
          BY <1>2, <4>1, PartInt
        <4> QED BY <1>2, <1>4, <1>8, <4>2
      <3> HIDE DEF a, b, q, v, Q2, ps2
      <3>4. b - Q2[x] = a - q /\ (q = a => Q2[x] = b)
        BY <1>3, <3>3
      <3>5. SumOn(OfThread(U, x), TypesRead(ps2, x)) = b
        BY <3>1 DEF b
      <3> HIDE DEF f
      <3> QED BY <2>3, <3>2, <3>4, <3>5 DEF ReadSince
    <2> QED BY <2>2, <2>3
  <1>10. ps2.c \in Types
    BY <1>1, <1>5
  <1> HIDE DEF Q2, ps2, v
  <1>11. TypesPass(U, P, C, ps2, r, tot, s)
    BY <1>1, <1>4, <1>7, <1>9, <1>10 DEF TypesPass
  <1> QED BY <1>11 DEF ps2, v

\* r2 is r with the sum of the type that was read last.
Written(r, ps, r2) ==
  r \in [Counters -> Int] /\ r2 = [r EXCEPT ![ps.c] = ps.sum] /\ ps.c \in Types /\ ps.sum \in Int

\* The sums of the types written so far.
LEMMA WrittenSum ==
  ASSUME NEW r, NEW ps, NEW r2, Written(r, ps, r2)
  PROVE  /\ SumOn(r2, 0..ps.c) = SumOn(r, 0..(ps.c - 1)) + ps.sum
         /\ SumOn(r, 0..(ps.c - 1)) \in Int
  <1> DEFINE c == ps.c
             S == 0..(c - 1)
  <1>1. c \in Types /\ ps.sum \in Int /\ r \in [Counters -> Int]
        /\ r2 = [r EXCEPT ![c] = ps.sum]
    BY DEF Written
  <1>2. 0..c \subseteq Types /\ S \subseteq Types /\ 0..c = S \union {c} /\ c \notin S /\ IsFiniteSet(S)
    BY <1>1, TypeIntervals
  <1>3. Types \subseteq Counters
    BY CountersFacts
  <1>4. r2[c] = ps.sum /\ \A i \in S : r[i] = r2[i]
    BY <1>1, <1>2, <1>3
  <1>5. (\A i \in S \union {c} : r2[i] \in Int) /\ \A i \in S : r[i] \in Int
    BY <1>1, <1>2, <1>3, <1>4
  <1> HIDE DEF S
  <1>6. SumOn(r, S) = SumOn(r2, S) /\ SumOn(r, S) \in Int
    BY <1>2, <1>4, <1>5, SumSame, SumType
  <1>7. SumOn(r2, S \union {c}) = SumOn(r2, S) + r2[c]
    BY <1>2, <1>5, SumExtend
  <1>8. SumOn(r2, S \union {c}) = SumOn(r, S) + ps.sum
    BY <1>4, <1>6, <1>7
  <1> QED BY <1>2, <1>6, <1>8 DEF S

\* PeakSummed and RowSummed: the next type.
LEMMA TypeDone ==
  ASSUME NEW U, CountersOK(U), NEW P, NEW C, NEW s \in Threads, NEW ps, ps.left = {},
         NEW r, NEW r2, NEW tot, TypesPass(U, P, C, ps, r, tot, s), Written(r, ps, r2),
         ps.c + 1 \in Types
  PROVE  TypesPass(U, P, C, NewPass(ps.c + 1), r2, tot, s)
  <1>1. PICK R, Q, M \in [Threads -> Int] :
          /\ Moves(P, C, M, s)
          /\ tot = SumOn(R, Threads) /\ ps.c \in Types
          /\ SumOn(Q, Threads) = SumOn(r, 0..(ps.c - 1)) + ps.sum
          /\ \A u \in Threads : Since(U[Total], P, M, R, u) /\ ReadSince(U, P, M, Q, ps, u)
    BY DEF TypesPass
  <1> DEFINE ps2 == NewPass(ps.c + 1)
  <1>2. ps2.c = ps.c + 1 /\ ps2.left = Threads /\ ps2.sum = 0
    BY DEF NewPass
  <1>3. ps.c \in Nat
    BY <1>1, TypeIntervals
  <1>4. ps2.c - 1 = ps.c
    BY <1>2, <1>3
  <1>5. \A u \in Threads : TypesRead(ps2, u) = TypesRead(ps, u)
    BY <1>2, <1>4 DEF TypesRead
  <1>6. \A u \in Threads : ReadSince(U, P, M, Q, ps2, u)
    BY <1>1, <1>5 DEF ReadSince
  <1>7. SumOn(Q, Threads) = SumOn(r2, 0..(ps2.c - 1)) + ps2.sum
    <2>1. SumOn(Q, Threads) = SumOn(r2, 0..ps.c)
      BY <1>1, WrittenSum
    <2>2. SumOn(Q, Threads) \in Int
      BY LoggerAssumption, SumType
    <2> QED BY <1>2, <1>4, <2>1, <2>2
  <1> HIDE DEF ps2
  <1>8. TypesPass(U, P, C, ps2, r2, tot, s)
    BY <1>1, <1>2, <1>6, <1>7 DEF TypesPass
  <1> QED BY <1>8 DEF ps2

\* The last type: the total is close to the sum of the types.
LEMMA TypesClose ==
  ASSUME NEW U, CountersOK(U), NEW P, NEW C, CallsOK(C), TypesAddUp(U, P, C),
         NEW s \in Threads, NEW ps, ps.left = {},
         NEW r, NEW r2, NEW tot, TypesPass(U, P, C, ps, r, tot, s), Written(r, ps, r2),
         ps.c + 1 \notin Types
  PROVE  Close(tot, SumOn(r2, Types))
  <1>1. PICK R, Q, M \in [Threads -> Int] :
          /\ Moves(P, C, M, s)
          /\ tot = SumOn(R, Threads) /\ ps.c \in Types
          /\ SumOn(Q, Threads) = SumOn(r, 0..(ps.c - 1)) + ps.sum
          /\ \A u \in Threads : Since(U[Total], P, M, R, u) /\ ReadSince(U, P, M, Q, ps, u)
    BY DEF TypesPass
  <1>2. 0..ps.c = Types
    BY <1>1, TypeIntervals
  <1>3. SumOn(Q, Threads) = SumOn(r2, Types)
    BY <1>1, <1>2, WrittenSum
  <1>4. X \in Nat /\ M[s] = 0 /\ \A u \in Threads : M[u] \in -X..X
    BY <1>1, LargestCall DEF Moves
  <1>5. ASSUME NEW u \in Threads
        PROVE  R[u] - Q[u] \in -X..X /\ R[u] \in Int /\ Q[u] \in Int /\ (u = s => R[u] = Q[u])
    <2> DEFINE T == U[Total][u]
               a == SumOn(OfThread(U, u), Types)
               m == M[u]
    <2>1. T \in Int /\ m \in Int /\ R[u] \in Int /\ Q[u] \in Int
      BY CountersFacts DEF CountersOK
    <2>2. T - R[u] \in {0, m}
      BY <1>1 DEF Since
    <2>3. TypesRead(ps, u) = Types
      BY <1>2 DEF TypesRead
    <2>4. a - Q[u] \in {0, m} /\ (P[u] = "addtype" => Q[u] = a)
      BY <1>1, <2>3 DEF ReadSince, Adding
    <2>5. P[u] = "addtype" => a = T - m
      BY <1>1 DEF TypesAddUp, Moves, Adding
    <2>6. P[u] # "addtype" => a = T
      BY <2>1 DEF TypesAddUp
    <2>7. m \in -X..X /\ (u = s => m = 0)
      BY <1>4
    <2> HIDE DEF T, a, m
    <2>8. CASE P[u] = "addtype"
      BY <1>4, <2>1, <2>2, <2>4, <2>5, <2>7, <2>8
    <2>9. CASE P[u] # "addtype"
      BY <1>4, <2>1, <2>2, <2>4, <2>6, <2>7, <2>9
    <2> QED BY <2>8, <2>9
  <1>6. SumOn(R, Threads) - SumOn(Q, Threads)
          \in -((Cardinality(Threads) - 1) * X)..((Cardinality(Threads) - 1) * X)
    BY <1>4, <1>5, LoggerAssumption, SumsClose
  <1> QED BY <1>1, <1>3, <1>6 DEF Close, Skew, X

-----------------------------------------------------------------------------
(***************************************************************************)
(* The steps of the model.                                                 *)
(***************************************************************************)
\* What a call adds to the counters.
LEMMA AddSteps ==
  ASSUME TypeOK, NEW t \in Threads
  PROVE  /\ AddTotal(t) => /\ TotalAdded(usage_pt, pc, call, usage_pt', pc', call', t)
                           /\ UNCHANGED <<pass, peak, row, base>>
         /\ AddType(t) => /\ TypeAdded(usage_pt, pc, call, usage_pt', pc', call', t)
                          /\ UNCHANGED <<pass, peak, row, base>>
  <1>1. /\ pc \in [Threads -> Pcs] /\ call \in [Threads -> CallType]
        /\ usage_pt \in [Counters -> [Threads -> Int]]
    BY DEF TypeOK, Pcs, CallType
  <1>5. ASSUME AddTotal(t)
        PROVE  /\ TotalAdded(usage_pt, pc, call, usage_pt', pc', call', t)
               /\ UNCHANGED <<pass, peak, row, base>>
    <2>1. call' = call /\ UNCHANGED <<pass, peak, row, base>>
      BY <1>5 DEF AddTotal, results
    <2>2. pc[t] = "add" /\ pc'[t] = "addtype" /\ \A u \in Threads \ {t} : pc'[u] = pc[u]
      BY <1>1, <1>5 DEF AddTotal, Goto
    <2>3. usage_pt' = [usage_pt EXCEPT ![Total][t] = @ + call[t].mem]
      BY <1>5 DEF AddTotal, Added
    <2>4. Total \in Counters /\ Types \subseteq Counters /\ Total \notin Types /\ call[t].mem \in Int
      BY <1>1, CountersFacts DEF CallType
    <2>5. \A u \in Threads : usage_pt'[Total][u]
                               = usage_pt[Total][u] + (IF u = t THEN call[t].mem ELSE 0)
      BY <1>1, <2>3, <2>4
    <2>6. \A c \in Types : usage_pt'[c] = usage_pt[c]
      BY <1>1, <2>3, <2>4
    <2>7. \A u \in Threads : OfThread(usage_pt', u) = OfThread(usage_pt, u)
      BY <2>6 DEF OfThread
    <2> QED BY <2>1, <2>2, <2>5, <2>7 DEF TotalAdded
  <1>6. ASSUME AddType(t)
        PROVE  /\ TypeAdded(usage_pt, pc, call, usage_pt', pc', call', t)
               /\ UNCHANGED <<pass, peak, row, base>>
    <2> DEFINE k == call[t].type
    <2>1. call' = call /\ UNCHANGED <<pass, peak, row, base>>
      BY <1>6 DEF AddType, results
    <2>2. pc[t] = "addtype" /\ pc'[t] \in {"count", "lock"} /\ \A u \in Threads \ {t} : pc'[u] = pc[u]
      BY <1>1, <1>6 DEF AddType
    <2>3. usage_pt' = [usage_pt EXCEPT ![k][t] = @ + call[t].mem]
      BY <1>6 DEF AddType, Added
    <2>4. k \in Types /\ Types \subseteq Counters /\ Total \notin Types /\ call[t].mem \in Int
          /\ Total \in Counters
      BY <1>1, CountersFacts DEF CallType
    <2>5. usage_pt'[Total] = usage_pt[Total]
      BY <1>1, <2>3, <2>4
    <2>6. \A c \in Types : \A u \in Threads :
            usage_pt'[c][u] = IF c = k /\ u = t THEN usage_pt[c][u] + call[t].mem ELSE usage_pt[c][u]
      BY <1>1, <2>3, <2>4
    <2>7. \A u \in Threads \ {t} : OfThread(usage_pt', u) = OfThread(usage_pt, u)
      BY <2>6 DEF OfThread
    <2>8. \A c \in Types : OfThread(usage_pt', t)[c] = IF c = k THEN OfThread(usage_pt, t)[c] + call[t].mem
                                                        ELSE OfThread(usage_pt, t)[c]
      BY <2>6 DEF OfThread
    <2>9. pc'[t] \notin Adding
      BY <2>2 DEF Adding
    <2> HIDE DEF k
    <2> QED BY <2>1, <2>2, <2>4, <2>5, <2>7, <2>8, <2>9 DEF TypeAdded
  <1> QED BY <1>5, <1>6

\* While s samples, another thread can only begin a call, add, and return.
LEMMA OthersOnlyAdd ==
  ASSUME TypeOK, Mutual, FlagExact, NEW s \in Samplers, NEW t \in Threads, t # s, Step(t)
  PROVE  /\ Elsewhere(usage_pt, pc, call, usage_pt', pc', call', t)
         /\ UNCHANGED <<pass, peak, row, base>>
  <1>1. s \in Threads /\ tmp_combine_semaphore /\ mutex = {s} /\ pc[t] \notin Locked
    <2>1. s \in Threads /\ pc[s] \in Locked /\ tmp_combine_semaphore
      BY DEF Samplers, Locked, FlagExact
    <2>2. s \in mutex /\ \A u \in mutex : u = s
      BY <2>1 DEF Mutual
    <2> QED BY <2>1, <2>2 DEF Mutual
  <1>2. Begin(t) \/ AddTotal(t) \/ AddType(t) \/ Count(t)
    BY <1>1 DEF Step, Spin, Lock, TestFlag, SetFlag, Combine, TotalSummed, PeakSummed, RowSummed,
                ClearFlag, Unlock, Goto, Summed, Locked
  <1>3. /\ pc \in [Threads -> Pcs] /\ call \in [Threads -> CallType]
        /\ usage_pt \in [Counters -> [Threads -> Int]]
    BY DEF TypeOK, Pcs, CallType
  <1>4. CASE Begin(t) \/ Count(t)
    <2>1. usage_pt' = usage_pt /\ UNCHANGED <<pass, peak, row, base>>
      BY <1>4 DEF Begin, Count, results, shared
    <2>2. pc'[t] \in {"spin", "idle"} /\ \A u \in Threads \ {t} : pc'[u] = pc[u] /\ call'[u] = call[u]
      BY <1>3, <1>4 DEF Begin, Count, Goto
    <2> QED BY <2>1, <2>2 DEF Elsewhere, Quiet, Adding
  <1>5. CASE AddTotal(t) \/ AddType(t)
    BY <1>5, AddSteps DEF Elsewhere
  <1> QED BY <1>2, <1>4, <1>5

\* No call is larger than X.
LEMMA CallBoundStep ==
  ASSUME TypeOK, CallsOK(call), NEW t \in Threads, Step(t)
  PROVE  CallsOK(call')
  <1>1. call \in [Threads -> CallType]
    BY DEF TypeOK, CallType
  <1>2. CASE Begin(t)
    <2>1. PICK mem \in Sizes \union {-m : m \in Sizes}, type \in Types :
            call' = [call EXCEPT ![t] = [mem |-> mem, type |-> type]]
      BY <1>2 DEF Begin
    <2>2. mem \in -X..X
      BY LargestCall
    <2> QED BY <1>1, <2>1, <2>2 DEF CallsOK
  <1>3. CASE Count(t)
    <2>1. call' = [call EXCEPT ![t] = NoCall] /\ NoCall.mem = 0
      BY <1>3 DEF Count, NoCall
    <2>2. 0 \in -X..X
      BY LargestCall
    <2> QED BY <1>1, <2>1, <2>2 DEF CallsOK
  <1>4. CASE call' = call
    BY <1>4
  <1> QED BY <1>2, <1>3, <1>4 DEF Step, Spin, AddTotal, AddType, Lock, TestFlag, SetFlag, Combine,
             TotalSummed, PeakSummed, RowSummed, ClearFlag, Unlock

\* The types of a thread add up to its total.
LEMMA AddUpStep ==
  ASSUME TypeOK, CallsOK(call), TypesAddUp(usage_pt, pc, call), NEW t \in Threads, Step(t)
  PROVE  TypesAddUp(usage_pt', pc', call')
  <1> DEFINE Owed(P, C, u) == IF P[u] = "addtype" THEN C[u].mem ELSE 0
  <1>1. \A u \in Threads : SumOn(OfThread(usage_pt, u), Types) = usage_pt[Total][u] - Owed(pc, call, u)
    BY DEF TypesAddUp
  <1>2. /\ pc \in [Threads -> Pcs] /\ call \in [Threads -> CallType] /\ CountersOK(usage_pt)
    BY DEF TypeOK, Pcs, CallType, CountersOK
  <1>3. \A u \in Threads : usage_pt[Total][u] \in Int /\ call[u].mem \in Int
    BY <1>2, CountersFacts DEF CountersOK, CallType
  <1>4. CASE AddTotal(t)
    <2>1. TotalAdded(usage_pt, pc, call, usage_pt', pc', call', t)
      BY <1>4, AddSteps
    <2> SUFFICES ASSUME NEW u \in Threads
                 PROVE  SumOn(OfThread(usage_pt', u), Types) = usage_pt'[Total][u] - Owed(pc', call', u)
      BY DEF TypesAddUp
    <2>2. OfThread(usage_pt', u) = OfThread(usage_pt, u) /\ call' = call
      BY <2>1 DEF TotalAdded
    <2>3. usage_pt'[Total][u] = usage_pt[Total][u] + (IF u = t THEN call[t].mem ELSE 0)
      BY <2>1 DEF TotalAdded
    <2>4. CASE u = t
      <3>1. Owed(pc, call, t) = 0 /\ Owed(pc', call', t) = call[t].mem
        BY <2>1, <2>2 DEF TotalAdded
      <3> QED BY <1>1, <1>3, <2>2, <2>3, <2>4, <3>1
    <2>5. CASE u # t
      <3>1. Owed(pc', call', u) = Owed(pc, call, u)
        BY <2>1, <2>2, <2>5 DEF TotalAdded
      <3>2. usage_pt'[Total][u] = usage_pt[Total][u]
        BY <1>3, <2>3, <2>5
      <3> QED BY <1>1, <2>2, <3>1, <3>2
    <2> QED BY <2>4, <2>5
  <1>5. CASE AddType(t)
    <2>1. TypeAdded(usage_pt, pc, call, usage_pt', pc', call', t)
      BY <1>5, AddSteps
    <2> SUFFICES ASSUME NEW u \in Threads
                 PROVE  SumOn(OfThread(usage_pt', u), Types) = usage_pt'[Total][u] - Owed(pc', call', u)
      BY DEF TypesAddUp
    <2>2. usage_pt'[Total] = usage_pt[Total] /\ call' = call
      BY <2>1 DEF TypeAdded
    <2>3. CASE u = t
      <3>1. Owed(pc, call, t) = call[t].mem /\ Owed(pc', call', t) = 0
        BY <2>1, <2>2 DEF TypeAdded, Adding
      <3>2. SumOn(OfThread(usage_pt', t), Types) = SumOn(OfThread(usage_pt, t), Types) + call[t].mem
        BY <1>2, <2>1, PartAdded
      <3> QED BY <1>1, <1>3, <2>2, <2>3, <3>1, <3>2
    <2>4. CASE u # t
      <3>1. Owed(pc', call', u) = Owed(pc, call, u) /\ OfThread(usage_pt', u) = OfThread(usage_pt, u)
        BY <2>1, <2>2, <2>4 DEF TypeAdded
      <3> QED BY <1>1, <2>2, <3>1
    <2> QED BY <2>3, <2>4
  <1>6. CASE ~AddTotal(t) /\ ~AddType(t)
    <2>1. /\ usage_pt' = usage_pt /\ pc[t] # "addtype" /\ pc'[t] # "addtype"
          /\ \A u \in Threads \ {t} : pc'[u] = pc[u] /\ call'[u] = call[u]
      BY <1>2, <1>6 DEF Step, Begin, Spin, Count, Lock, TestFlag, SetFlag, Combine, TotalSummed,
           PeakSummed, RowSummed, ClearFlag, Unlock, Goto, Summed, shared
    <2>2. \A u \in Threads : Owed(pc', call', u) = Owed(pc, call, u)
      BY <2>1
    <2> QED BY <1>1, <2>1, <2>2 DEF TypesAddUp
  <1> QED BY <1>4, <1>5, <1>6

Sampling == {"total", "peak", "row", "unflag"}

\* A sample goes on while other threads add.
LEMMA SampleElsewhere ==
  ASSUME NEW U, NEW P, NEW C, NEW U2, NEW P2, NEW C2, NEW t \in Threads,
         CountersOK(U), CallsOK(C), Elsewhere(U, P, C, U2, P2, C2, t),
         NEW s \in Threads, s # t, NEW ps, NEW pk, NEW rw, NEW b,
         SampleOK(U, P, C, ps, pk, rw, b, s)
  PROVE  SampleOK(U2, P2, C2, ps, pk, rw, b, s)
  <1>1. P2[s] = P[s]
    BY DEF Elsewhere, Quiet, TotalAdded, TypeAdded
  <1>2. /\ \A d : TotalPass(U[Total], P, C, ps, d, s) => TotalPass(U2[Total], P2, C2, ps, d, s)
        /\ \A r, tot : TypesPass(U, P, C, ps, r, tot, s) => TypesPass(U2, P2, C2, ps, r, tot, s)
    BY PassElsewhere
  <1> QED BY <1>1, <1>2 DEF SampleOK

\* A thread that does not sample has no sample.
LEMMA NoSample ==
  ASSUME NEW U, NEW P, NEW C, NEW ps, NEW pk, NEW rw, NEW b, NEW s, P[s] \notin Sampling
  PROVE  SampleOK(U, P, C, ps, pk, rw, b, s)
  BY DEF SampleOK, Sampling

\* The steps of the sampling thread.
LEMMA SamplerStep ==
  ASSUME TypeOK, SkewInv, NEW t \in Threads, Step(t), pc'[t] \in Sampling
  PROVE  SampleOK(usage_pt', pc', call', pass'[t], peak', row', base', t)
  <1>1. /\ pc \in [Threads -> Pcs] /\ call \in [Threads -> CallType] /\ CountersOK(usage_pt)
        /\ pass \in [Threads -> PassType] /\ row \in [Counters -> Int] /\ peak \in [Counters -> Int]
        /\ pass[t] \in PassType /\ pass[t].sum \in Int
    BY DEF TypeOK, Pcs, CallType, CountersOK, PassType
  <1>2. /\ CallsOK(call) /\ TypesAddUp(usage_pt, pc, call)
        /\ SampleOK(usage_pt, pc, call, pass[t], peak, row, base, t)
    BY DEF SkewInv
  <1>3. Total \in Counters /\ Types \subseteq Counters /\ Total \notin Types /\ 0 \in Types
    BY CountersFacts
  <1>4. \/ SetFlag(t) \/ Combine(t) \/ TotalSummed(t) \/ PeakSummed(t) \/ RowSummed(t)
    BY <1>1 DEF Step, Begin, Spin, AddTotal, AddType, Count, Lock, TestFlag, ClearFlag, Unlock, Goto,
                Sampling
  <1>5. usage_pt' = usage_pt /\ call' = call
    BY <1>4 DEF SetFlag, Combine, TotalSummed, PeakSummed, RowSummed, shared
  <1>6. SamplerOnly(pc, pc', t)
    <2>1. pc'[t] \notin Adding
      BY DEF Adding, Sampling
    <2>2. \A u \in Threads \ {t} : pc'[u] = pc[u]
      BY <1>1, <1>4 DEF SetFlag, Combine, TotalSummed, PeakSummed, RowSummed, Goto
    <2> QED BY <2>1, <2>2 DEF SamplerOnly
  <1>7. CASE SetFlag(t)
    <2>1. pc'[t] = "total" /\ pass'[t] = NewPass(Total) /\ base' = SumOf(Total)
      BY <1>1, <1>7 DEF SetFlag, Goto, StartPass, NewPass
    <2>2. usage_pt[Total] \in [Threads -> Int]
      BY <1>1, <1>3 DEF CountersOK
    <2>3. SumOf(Total) = SumOn(usage_pt[Total], Threads)
      BY <2>2, FoldIsSum DEF SumOf
    <2>4. TotalPass(usage_pt[Total], pc', call, NewPass(Total), base', t)
      BY <1>2, <1>6, <2>1, <2>2, <2>3, PassStarts DEF SamplerOnly
    <2> QED BY <1>5, <2>1, <2>4 DEF SampleOK
  <1>8. CASE Combine(t)
    <2>1. PICK u \in pass[t].left :
            pass' = [pass EXCEPT ![t] = [c |-> pass[t].c, left |-> pass[t].left \ {u},
                                         sum |-> pass[t].sum + usage_pt[pass[t].c][u]]]
      BY <1>8 DEF Combine
    <2> DEFINE v == usage_pt[pass[t].c][u]
    <2>2. pass'[t] = OneMore(pass[t], u, v)
      BY <1>1, <2>1 DEF OneMore
    <2>3. pc' = pc /\ peak' = peak /\ row' = row /\ base' = base /\ pc[t] \in {"total", "peak", "row"}
      BY <1>8 DEF Combine, results
    <2>4. ASSUME NEW r \in [Counters -> Int], pass[t].c \in Types
          PROVE  SumOn(r, 0..(pass[t].c - 1)) \in Int
      <3>1. 0..(pass[t].c - 1) \subseteq Types /\ IsFiniteSet(0..(pass[t].c - 1))
        BY <2>4, TypeIntervals
      <3>2. \A i \in 0..(pass[t].c - 1) : r[i] \in Int
        BY <1>3, <3>1
      <3> QED BY <3>1, <3>2, SumType
    <2>5. CASE pc[t] = "total"
      <3>1. TotalPass(usage_pt[Total], pc, call, pass[t], base, t)
        BY <1>2, <2>5 DEF SampleOK
      <3>2. pass[t].c = Total /\ usage_pt[Total] \in [Threads -> Int]
        BY <1>1, <1>3, <3>1 DEF TotalPass, CountersOK
      <3>3. TotalPass(usage_pt[Total], pc, call, OneMore(pass[t], u, usage_pt[Total][u]), base, t)
        BY <1>1, <3>1, <3>2, TotalRead
      <3> QED BY <1>5, <2>2, <2>3, <2>5, <3>2, <3>3 DEF SampleOK
    <2>6. CASE pc[t] = "peak"
      <3>1. /\ TypesPass(usage_pt, pc, call, pass[t], peak, row[Total], t)
            /\ peak[Total] = row[Total] /\ Close(row[Total], base)
        BY <1>2, <2>6 DEF SampleOK
      <3>2. SumOn(peak, 0..(pass[t].c - 1)) \in Int
        BY <1>1, <2>4, <3>1 DEF TypesPass
      <3>3. TypesPass(usage_pt, pc, call, OneMore(pass[t], u, v), peak, row[Total], t)
        BY <1>1, <3>1, <3>2, TypeRead
      <3> QED BY <1>5, <2>2, <2>3, <2>6, <3>1, <3>3 DEF SampleOK
    <2>7. CASE pc[t] = "row"
      <3>1. TypesPass(usage_pt, pc, call, pass[t], row, row[Total], t) /\ Close(row[Total], base)
        BY <1>2, <2>7 DEF SampleOK
      <3>2. SumOn(row, 0..(pass[t].c - 1)) \in Int
        BY <1>1, <2>4, <3>1 DEF TypesPass
      <3>3. TypesPass(usage_pt, pc, call, OneMore(pass[t], u, v), row, row[Total], t)
        BY <1>1, <3>1, <3>2, TypeRead
      <3> QED BY <1>5, <2>2, <2>3, <2>7, <3>1, <3>3 DEF SampleOK
    <2> QED BY <2>3, <2>5, <2>6, <2>7
  <1>9. CASE TotalSummed(t)
    <2>1. /\ pc[t] = "total" /\ pass[t].left = {} /\ pass'[t] = NewPass(0) /\ base' = base
          /\ row'[Total] = pass[t].sum
          /\ \/ pc'[t] = "peak" /\ peak'[Total] = pass[t].sum
             \/ pc'[t] = "row"
      BY <1>1, <1>3, <1>9 DEF TotalSummed, Summed, StartPass, NewPass
    <2>2. TotalPass(usage_pt[Total], pc, call, pass[t], base, t)
      BY <1>2, <2>1 DEF SampleOK
    <2>3. /\ Close(pass[t].sum, base)
          /\ \A r : TypesPass(usage_pt, pc', call, NewPass(0), r, pass[t].sum, t)
      BY <1>1, <1>6, <2>1, <2>2, TotalClose
    <2> QED BY <1>5, <2>1, <2>3 DEF SampleOK
  <1>10. CASE PeakSummed(t)
    <2> DEFINE c == pass[t].c
    <2>1. /\ pc[t] = "peak" /\ pass[t].left = {} /\ base' = base /\ row' = row
          /\ peak' = [peak EXCEPT ![c] = pass[t].sum]
      BY <1>10 DEF PeakSummed, Summed
    <2>2. /\ TypesPass(usage_pt, pc, call, pass[t], peak, row[Total], t)
          /\ peak[Total] = row[Total] /\ Close(row[Total], base)
      BY <1>2, <2>1 DEF SampleOK
    <2>3. c \in Types
      BY <2>2 DEF TypesPass
    <2>4. Written(peak, pass[t], peak') /\ peak'[Total] = peak[Total]
      BY <1>1, <1>3, <2>1, <2>3 DEF Written
    <2>5. CASE c + 1 \in Types
      <3>1. pc' = pc /\ pass'[t] = NewPass(c + 1)
        BY <1>1, <1>10, <2>5 DEF PeakSummed, StartPass, NewPass
      <3>2. TypesPass(usage_pt, pc, call, NewPass(c + 1), peak', row[Total], t)
        BY <1>1, <2>1, <2>2, <2>4, <2>5, TypeDone
      <3> QED BY <1>5, <2>1, <2>2, <2>4, <3>1, <3>2 DEF SampleOK
    <2>6. CASE c + 1 \notin Types
      <3>1. pc'[t] = "row" /\ pass'[t] = NewPass(0)
        BY <1>1, <1>10, <2>6 DEF PeakSummed, StartPass, NewPass
      <3>2. PICK R, M \in [Threads -> Int] :
              /\ Moves(pc, call, M, t) /\ row[Total] = SumOn(R, Threads)
              /\ \A u \in Threads : Since(usage_pt[Total], pc, M, R, u)
        BY <2>2 DEF TypesPass
      <3>3. Moves(pc', call, M, t) /\ \A u \in Threads : Since(usage_pt[Total], pc', M, R, u)
        BY <1>6, <3>2, SamplerMoves
      <3>4. TypesPass(usage_pt, pc', call, NewPass(0), row, SumOn(R, Threads), t)
        BY <1>1, <3>3, TypesStart
      <3> QED BY <1>5, <2>1, <2>2, <3>1, <3>2, <3>4 DEF SampleOK
    <2> QED BY <2>5, <2>6
  <1>11. CASE RowSummed(t)
    <2> DEFINE c == pass[t].c
    <2>1. /\ pc[t] = "row" /\ pass[t].left = {} /\ base' = base
          /\ row' = [row EXCEPT ![c] = pass[t].sum]
      BY <1>11 DEF RowSummed, Summed
    <2>2. /\ TypesPass(usage_pt, pc, call, pass[t], row, row[Total], t)
          /\ Close(row[Total], base)
      BY <1>2, <2>1 DEF SampleOK
    <2>3. c \in Types
      BY <2>2 DEF TypesPass
    <2>4. Written(row, pass[t], row') /\ row'[Total] = row[Total]
      BY <1>1, <1>3, <2>1, <2>3 DEF Written
    <2>5. CASE c + 1 \in Types
      <3>1. pc' = pc /\ pass'[t] = NewPass(c + 1)
        BY <1>1, <1>11, <2>5 DEF RowSummed, StartPass, NewPass
      <3>2. TypesPass(usage_pt, pc, call, NewPass(c + 1), row', row[Total], t)
        BY <1>1, <2>1, <2>2, <2>4, <2>5, TypeDone
      <3> QED BY <1>5, <2>1, <2>2, <2>4, <3>1, <3>2 DEF SampleOK
    <2>6. CASE c + 1 \notin Types
      <3>1. pc'[t] = "unflag"
        BY <1>1, <1>11, <2>6 DEF RowSummed
      <3>2. Close(row[Total], SumOn(row', Types))
        BY <1>1, <1>2, <2>1, <2>2, <2>4, <2>6, TypesClose
      <3> QED BY <2>1, <2>2, <2>4, <3>1, <3>2 DEF SampleOK
    <2> QED BY <2>5, <2>6
  <1> QED BY <1>4, <1>7, <1>8, <1>9, <1>10, <1>11

\* The peak is consistent again when its last type is written.
LEMMA PeakStep ==
  ASSUME TypeOK, Mutual, SkewInv, NEW t \in Threads, Step(t)
  PROVE  PeakOK(pc', peak')
  <1>1. /\ pc \in [Threads -> Pcs] /\ call \in [Threads -> CallType] /\ CountersOK(usage_pt)
        /\ peak \in [Counters -> Int] /\ pass[t] \in PassType /\ pass[t].sum \in Int
    BY DEF TypeOK, Pcs, CallType, CountersOK, PassType
  <1>2. /\ CallsOK(call) /\ TypesAddUp(usage_pt, pc, call) /\ PeakOK(pc, peak)
        /\ SampleOK(usage_pt, pc, call, pass[t], peak, row, base, t)
    BY DEF SkewInv
  <1>3. Total \in Counters /\ Types \subseteq Counters /\ Total \notin Types
    BY CountersFacts
  <1> SUFFICES ASSUME \A s \in Threads : pc'[s] # "peak"
               PROVE  Close(peak'[Total], SumOn(peak', Types))
    BY DEF PeakOK
  <1>4. CASE PeakSummed(t)
    <2>1. /\ pc[t] = "peak" /\ pass[t].left = {} /\ peak' = [peak EXCEPT ![pass[t].c] = pass[t].sum]
      BY <1>4 DEF PeakSummed, Summed
    <2>2. pass[t].c + 1 \notin Types
      BY <1>4, <2>1 DEF PeakSummed
    <2>3. TypesPass(usage_pt, pc, call, pass[t], peak, row[Total], t) /\ peak[Total] = row[Total]
      BY <1>2, <2>1 DEF SampleOK
    <2>4. pass[t].c \in Types
      BY <2>3 DEF TypesPass
    <2>5. Written(peak, pass[t], peak') /\ peak'[Total] = peak[Total]
      BY <1>1, <1>3, <2>1, <2>4 DEF Written
    <2>6. Close(row[Total], SumOn(peak', Types))
      BY <1>1, <1>2, <2>1, <2>2, <2>3, <2>5, TypesClose
    <2> QED BY <2>3, <2>5, <2>6
  <1>5. CASE ~PeakSummed(t)
    <2>1. /\ \A s \in Threads \ {t} : pc'[s] = pc[s]
          /\ pc[t] # "peak" \/ pc' = pc
      BY <1>1, <1>5 DEF Step, Begin, Spin, AddTotal, AddType, Count, Lock, TestFlag, SetFlag, Combine,
           TotalSummed, RowSummed, ClearFlag, Unlock, Goto, Summed
    <2>2. \A s \in Threads : pc[s] # "peak"
      BY <2>1
    <2>3. peak' = peak
      <3>1. CASE TotalSummed(t)
        <4>1. pc'[t] = "row" => peak' = peak
          BY <1>1, <3>1 DEF TotalSummed
        <4>2. pc'[t] \in {"peak", "row"}
          BY <1>1, <3>1 DEF TotalSummed
        <4> QED BY <4>1, <4>2
      <3>2. CASE ~TotalSummed(t)
        BY <1>5, <3>2 DEF Step, Begin, Spin, AddTotal, AddType, Count, Lock, TestFlag, SetFlag, Combine,
             RowSummed, ClearFlag, Unlock, results
      <3> QED BY <3>1, <3>2
    <2> QED BY <1>2, <2>2, <2>3 DEF PeakOK
  <1> QED BY <1>4, <1>5

\* Every step keeps all of it.
LEMMA SkewStep ==
  ASSUME TypeOK, Mutual, FlagExact, SkewInv, NEW t \in Threads, Step(t)
  PROVE  SkewInv'
  <1>1. CallsOK(call') /\ TypesAddUp(usage_pt', pc', call')
    BY CallBoundStep, AddUpStep DEF SkewInv
  <1>2. PeakOK(pc', peak')
    BY PeakStep
  <1>3. ASSUME NEW s \in Threads
        PROVE  SampleOK(usage_pt', pc', call', pass'[s], peak', row', base', s)
    <2>1. CASE pc'[s] \notin Sampling
      BY <2>1, NoSample
    <2>2. CASE pc'[s] \in Sampling /\ s = t
      BY <2>2, SamplerStep
    <2>3. CASE pc'[s] \in Sampling /\ s # t
      <3>1. pc'[s] = pc[s]
        BY <2>3 DEF Step, Begin, Spin, AddTotal, AddType, Count, Lock, TestFlag, SetFlag, Combine,
             TotalSummed, PeakSummed, RowSummed, ClearFlag, Unlock, Goto, TypeOK
      <3>2. s \in Samplers
        BY <2>3, <3>1 DEF Samplers, Sampling
      <3>3. /\ Elsewhere(usage_pt, pc, call, usage_pt', pc', call', t)
            /\ UNCHANGED <<pass, peak, row, base>>
        BY <2>3, <3>2, OthersOnlyAdd
      <3>4. CountersOK(usage_pt) /\ CallsOK(call)
            /\ SampleOK(usage_pt, pc, call, pass[s], peak, row, base, s)
        BY DEF TypeOK, SkewInv, CountersOK
      <3>5. SampleOK(usage_pt', pc', call', pass[s], peak, row, base, s)
        BY <2>3, <3>3, <3>4, SampleElsewhere
      <3> QED BY <3>3, <3>5
    <2> QED BY <2>1, <2>2, <2>3
  <1> QED BY <1>1, <1>2, <1>3 DEF SkewInv

\* Nothing has been added before the first call.
LEMMA SkewStarts ==
  ASSUME Init
  PROVE  SkewInv
  <1>1. /\ pc = [t \in Threads |-> "idle"] /\ call = [t \in Threads |-> NoCall]
        /\ usage_pt = [c \in Counters |-> [t \in Threads |-> 0]] /\ peak = NoRow
    BY DEF Init
  <1>2. X \in Nat /\ 0 \in -X..X
    BY LargestCall
  <1>3. CallsOK(call)
    BY <1>1, <1>2 DEF CallsOK, NoCall
  <1>4. IsFiniteSet(Types) /\ Types \subseteq Counters /\ Total \in Counters
    BY TypeIntervals, CountersFacts
  <1>5. TypesAddUp(usage_pt, pc, call)
    <2> SUFFICES ASSUME NEW u \in Threads
                 PROVE  SumOn(OfThread(usage_pt, u), Types) = usage_pt[Total][u]
                          - (IF pc[u] = "addtype" THEN call[u].mem ELSE 0)
      BY DEF TypesAddUp
    <2>1. \A c \in Types : OfThread(usage_pt, u)[c] = 0
      BY <1>1, <1>4 DEF OfThread
    <2>2. SumOn(OfThread(usage_pt, u), Types) = 0
      BY <1>4, <2>1, SumZero
    <2>3. usage_pt[Total][u] = 0 /\ pc[u] # "addtype"
      BY <1>1, <1>4
    <2> QED BY <2>2, <2>3
  <1>6. PeakOK(pc, peak)
    <2>1. peak[Total] = 0 /\ \A c \in Types : peak[c] = 0
      BY <1>1, <1>4 DEF NoRow
    <2>2. SumOn(peak, Types) = 0
      BY <1>4, <2>1, SumZero
    <2> SUFFICES ASSUME Threads # {} PROVE Close(0, 0)
      BY <2>1, <2>2 DEF PeakOK
    <2> DEFINE n == Cardinality(Threads) - 1
               k == n * X
    <2>3. n \in Nat
      BY LoggerAssumption, FS_CardinalityType, FS_EmptySet
    <2>4. k \in Nat
      BY <1>2, <2>3
    <2> HIDE DEF k
    <2>5. 0 - 0 \in -k..k
      BY <2>4
    <2> QED BY <2>5 DEF Close, Skew, k, X
  <1>7. \A s \in Threads : SampleOK(usage_pt, pc, call, pass[s], peak, row, base, s)
    BY <1>1, NoSample DEF Sampling
  <1> QED BY <1>3, <1>5, <1>6, <1>7 DEF SkewInv

\* It holds throughout.
LEMMA SkewInvariant == Spec => [](TypeOK /\ Mutual /\ FlagExact /\ SkewInv)
  <1>1. Init => SkewInv
    BY SkewStarts
  <1>2. TypeOK /\ Mutual /\ FlagExact /\ SkewInv /\ [Next]_vars => SkewInv'
    <2> SUFFICES ASSUME TypeOK, Mutual, FlagExact, SkewInv, [Next]_vars PROVE SkewInv'
      OBVIOUS
    <2>1. ASSUME NEW t \in Threads, Step(t) PROVE SkewInv'
      BY <2>1, SkewStep
    <2>2. CASE UNCHANGED vars
      BY <2>2 DEF vars, shared, results, SkewInv
    <2> QED BY <2>1, <2>2 DEF Next
  <1> QED BY <1>1, <1>2, MutualInvariant, PTL DEF Spec

-----------------------------------------------------------------------------
(***************************************************************************)
(* For any number of threads, one thread samples at a time, and the flag   *)
(* that makes the calls of addTmpMem wait is set exactly while it does,    *)
(* although it is tested and set without a lock of its own.                *)
(***************************************************************************)
THEOREM SamplersExclusive == Spec => [](TypeOK /\ OneSampler)
  <1>1. TypeOK /\ Mutual /\ FlagExact => OneSampler
    <2> SUFFICES ASSUME TypeOK, Mutual, FlagExact PROVE OneSampler
      OBVIOUS
    <2>1. \A t, u \in Samplers : t = u
      BY DEF Samplers, Mutual, Locked
    <2>2. CASE Samplers = {}
      BY <2>2, FS_EmptySet DEF OneSampler, FlagExact
    <2>3. CASE Samplers # {}
      <3>1. PICK t \in Samplers : TRUE
        BY <2>3
      <3>2. Samplers = {t}
        BY <2>1, <3>1
      <3>3. Cardinality(Samplers) = 1
        BY <3>2, FS_Singleton
      <3> QED BY <3>3 DEF OneSampler, FlagExact
    <2> QED BY <2>2, <2>3
  <1> QED BY <1>1, MutualInvariant, PTL

(***************************************************************************)
(* For any number of threads, of types and of calls, and with any amounts: *)
(* the total of a sample is off from the usage when update_peak_usage set  *)
(* its flag, and from the sum of the types of its row or of the peak, by   *)
(* at most one call of each other thread.                                  *)
(***************************************************************************)
THEOREM SamplesClose == Spec => []SampleSkew
  <1>1. TypeOK /\ Mutual /\ SkewInv => SampleSkew
    <2> SUFFICES ASSUME TypeOK, Mutual, SkewInv, NEW t \in Threads
                 PROVE  /\ pc[t] \in {"peak", "row", "unflag"} => Close(row[Total], base)
                        /\ pc[t] = "unflag" => Close(row[Total], SumOfTypes(row))
                        /\ pc[t] = "row" => Close(peak[Total], SumOfTypes(peak))
      BY DEF SampleSkew
    <2>1. SampleOK(usage_pt, pc, call, pass[t], peak, row, base, t) /\ PeakOK(pc, peak)
      BY DEF SkewInv
    <2>2. \A f : SumOfTypes(f) = SumOn(f, Types)
      BY FoldIsSum DEF SumOfTypes
    <2>3. pc[t] = "row" => \A s \in Threads : pc[s] # "peak"
      BY DEF Mutual, Locked
    <2> QED BY <2>1, <2>2, <2>3 DEF SampleOK, PeakOK
  <1> QED BY <1>1, SkewInvariant, PTL
=============================================================================
