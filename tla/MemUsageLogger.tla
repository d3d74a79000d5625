--------------------------- MODULE MemUsageLogger ---------------------------
(***************************************************************************)
(* The memory log of -m.  Each thread adds what it allocates and frees to  *)
(* counters of its own (tbb::combinable); now and then a call also takes a *)
(* sample: it sums the counters of all threads, under a mutex, while the   *)
(* flag tmp_combine_semaphore keeps new calls waiting.  The flag is tested *)
(* and set without a lock: calls that have passed it go on.                *)
(*                                                                         *)
(* A sample makes three passes over the counters: over the totals, over    *)
(* the counters of each type if the peak has risen, and over these again   *)
(* for the row of the log.  One action reads the counter of one thread.    *)
(***************************************************************************)
EXTENDS Integers, FiniteSetsExt, Functions

CONSTANTS Threads,
          NUM_OF_TYPES,
          Sizes,       \* amounts of memory
          MaxCalls     \* bound of the model: calls of a thread

ASSUME LoggerAssumption ==
  /\ IsFiniteSet(Threads)
  /\ NUM_OF_TYPES \in Nat \ {0} /\ MaxCalls \in Nat
  /\ IsFiniteSet(Sizes) /\ Sizes \subseteq Nat \ {0} /\ Sizes # {}

Types == 0..(NUM_OF_TYPES - 1)
Total == NUM_OF_TYPES            \* the counter of all types, tmp_usage_pt
Counters == Types \union {Total}
NoCall == [mem |-> 0, type |-> 0]
NoPass == [c |-> 0, left |-> {}, sum |-> 0]
NoRow == [c \in Counters |-> 0]

VARIABLES sampling,              \* is sampling_interval positive?
          tmp_combine_semaphore,
          mutex,                 \* the threads that hold MemUsageMutex
          pc,
          call,                  \* [mem, type] of the running call, mem < 0 frees
          calls,                 \* how many calls each thread has begun
          usage_pt,              \* usage_pt[c][t]: tmp_usage_pt, tmp_type_usage_pt
          allocation_num_pt,
          pass,                  \* of a sample: counter, threads left, sum so far
          peak, row,             \* peak_usage and peak_type_usage; the row being made
          base                   \* history: the usage when the flag was set

shared == <<usage_pt, allocation_num_pt>>
results == <<peak, row, base>>
vars == <<sampling, tmp_combine_semaphore, mutex, pc, call, calls, shared, pass, results>>

SumOf(c) == FoldFunction(+, 0, usage_pt[c])

Init ==
  /\ sampling \in BOOLEAN
  /\ tmp_combine_semaphore = FALSE
  /\ mutex = {}
  /\ pc = [t \in Threads |-> "idle"]
  /\ call = [t \in Threads |-> NoCall]
  /\ calls = [t \in Threads |-> 0]
  /\ usage_pt = [c \in Counters |-> [t \in Threads |-> 0]]
  /\ allocation_num_pt = [t \in Threads |-> 0]
  /\ pass = [t \in Threads |-> NoPass]
  /\ peak = NoRow
  /\ row = NoRow
  /\ base = 0

Goto(t, from, to) == pc[t] = from /\ pc' = [pc EXCEPT ![t] = to]

-----------------------------------------------------------------------------
\* addTmpMem(mem, type), or delTmpMem with -mem, is called.
Begin(t) ==
  /\ Goto(t, "idle", "spin")
  /\ calls[t] < MaxCalls
  /\ calls' = [calls EXCEPT ![t] = @ + 1]
  /\ \E mem \in Sizes \union {-s : s \in Sizes}, type \in Types :
       call' = [call EXCEPT ![t] = [mem |-> mem, type |-> type]]
  /\ UNCHANGED <<sampling, tmp_combine_semaphore, mutex, shared, pass, results>>

\* Mutant of Spin: the flag is not waited for.
NoSpin(t) ==
  /\ Goto(t, "spin", "add")
  /\ UNCHANGED <<sampling, tmp_combine_semaphore, mutex, call, calls, shared, pass, results>>

Spin(t) ==
  /\ Goto(t, "spin", "add")
  /\ ~tmp_combine_semaphore
  /\ UNCHANGED <<sampling, tmp_combine_semaphore, mutex, call, calls, shared, pass, results>>

Added(c, t) == usage_pt' = [usage_pt EXCEPT ![c][t] = @ + call[t].mem]

\* add_memory_usage (or del_memory_usage): first the total, then the type.
AddTotal(t) ==
  /\ Goto(t, "add", "addtype")
  /\ Added(Total, t)
  /\ UNCHANGED <<sampling, tmp_combine_semaphore, mutex, call, calls, allocation_num_pt,
                 pass, results>>

AddType(t) ==
  /\ pc[t] = "addtype"
  /\ \E next \in {"count"} \union (IF sampling THEN {"lock"} ELSE {}) :
       pc' = [pc EXCEPT ![t] = next]
  /\ Added(call[t].type, t)
  /\ UNCHANGED <<sampling, tmp_combine_semaphore, mutex, call, calls, allocation_num_pt,
                 pass, results>>

\* addTmpMem counts the allocation and returns.
Count(t) ==
  /\ Goto(t, "count", "idle")
  /\ allocation_num_pt' = [allocation_num_pt EXCEPT ![t] = @ + IF call[t].mem > 0 THEN 1 ELSE 0]
  /\ call' = [call EXCEPT ![t] = NoCall]
  /\ UNCHANGED <<sampling, tmp_combine_semaphore, mutex, calls, usage_pt, pass, results>>

-----------------------------------------------------------------------------
\* update_peak_usage.  Mutant of Lock: the mutex is not taken.
NoLock(t) ==
  /\ Goto(t, "lock", "flag")
  /\ mutex' = mutex \union {t}
  /\ UNCHANGED <<sampling, tmp_combine_semaphore, call, calls, shared, pass, results>>

Lock(t) ==
  /\ Goto(t, "lock", "flag")
  /\ mutex = {}
  /\ mutex' = {t}
  /\ UNCHANGED <<sampling, tmp_combine_semaphore, call, calls, shared, pass, results>>

StartPass(t, c) == pass' = [pass EXCEPT ![t] = [c |-> c, left |-> Threads, sum |-> 0]]

TestFlag(t) ==
  /\ Goto(t, "flag", "set")
  /\ ~tmp_combine_semaphore
  /\ UNCHANGED <<sampling, tmp_combine_semaphore, mutex, call, calls, shared, pass, results>>

SetFlag(t) ==
  /\ Goto(t, "set", "total")
  /\ tmp_combine_semaphore' = TRUE
  /\ StartPass(t, Total)
  /\ base' = SumOf(Total)
  /\ UNCHANGED <<sampling, mutex, call, calls, shared, peak, row>>

\* combine_each reads the counter of one more thread.
Combine(t) ==
  /\ pc[t] \in {"total", "peak", "row"}
  /\ \E u \in pass[t].left :
       pass' = [pass EXCEPT ![t] = [c |-> @.c, left |-> @.left \ {u},
                                    sum |-> @.sum + usage_pt[@.c][u]]]
  /\ UNCHANGED <<sampling, tmp_combine_semaphore, mutex, pc, call, calls, shared, results>>

Summed(t, where) == pc[t] = where /\ pass[t].left = {}

\* The total is known: is it a new peak?
TotalSummed(t) ==
  /\ Summed(t, "total")
  /\ row' = [row EXCEPT ![Total] = pass[t].sum]
  /\ IF pass[t].sum > peak[Total]
     THEN /\ pc' = [pc EXCEPT ![t] = "peak"]
          /\ peak' = [peak EXCEPT ![Total] = pass[t].sum]
     ELSE /\ pc' = [pc EXCEPT ![t] = "row"]
          /\ UNCHANGED peak
  /\ StartPass(t, 0)
  /\ UNCHANGED <<sampling, tmp_combine_semaphore, mutex, call, calls, shared, base>>

\* One type is known; the next one, the next pass, or the end follows.
PeakSummed(t) ==
  /\ Summed(t, "peak")
  /\ peak' = [peak EXCEPT ![pass[t].c] = pass[t].sum]
  /\ IF pass[t].c + 1 \in Types
     THEN StartPass(t, pass[t].c + 1) /\ UNCHANGED pc
     ELSE StartPass(t, 0) /\ pc' = [pc EXCEPT ![t] = "row"]
  /\ UNCHANGED <<sampling, tmp_combine_semaphore, mutex, call, calls, shared, row, base>>

RowSummed(t) ==
  /\ Summed(t, "row")
  /\ row' = [row EXCEPT ![pass[t].c] = pass[t].sum]
  /\ IF pass[t].c + 1 \in Types
     THEN StartPass(t, pass[t].c + 1) /\ UNCHANGED pc
     ELSE pc' = [pc EXCEPT ![t] = "unflag"] /\ UNCHANGED pass
  /\ UNCHANGED <<sampling, tmp_combine_semaphore, mutex, call, calls, shared, peak, base>>

\* Mutant of ClearFlag: the flag stays set.
ClearNothing(t) ==
  /\ Goto(t, "unflag", "unlock")
  /\ pass' = [pass EXCEPT ![t] = NoPass]
  /\ row' = NoRow /\ base' = 0
  /\ UNCHANGED <<sampling, tmp_combine_semaphore, mutex, call, calls, shared, peak>>

\* The row has been written; the model forgets it.
ClearFlag(t) ==
  /\ Goto(t, "unflag", "unlock")
  /\ tmp_combine_semaphore' = FALSE
  /\ pass' = [pass EXCEPT ![t] = NoPass]
  /\ row' = NoRow /\ base' = 0
  /\ UNCHANGED <<sampling, mutex, call, calls, shared, peak>>

Unlock(t) ==
  /\ Goto(t, "unlock", "count")
  /\ mutex' = mutex \ {t}
  /\ UNCHANGED <<sampling, tmp_combine_semaphore, call, calls, shared, pass, results>>

Step(t) ==
  \/ Begin(t) \/ Spin(t) \/ AddTotal(t) \/ AddType(t) \/ Count(t)
  \/ Lock(t) \/ TestFlag(t) \/ SetFlag(t) \/ Combine(t)
  \/ TotalSummed(t) \/ PeakSummed(t) \/ RowSummed(t) \/ ClearFlag(t) \/ Unlock(t)

Finished == \A t \in Threads : pc[t] = "idle" /\ calls[t] = MaxCalls

Next == (\E t \in Threads : Step(t)) \/ (Finished /\ UNCHANGED vars)

Spec == Init /\ [][Next]_vars

\* Every thread runs on; a thread that spins may be overtaken.
FairSpec == Spec /\ \A t \in Threads : WF_vars(Step(t))

-----------------------------------------------------------------------------
\* Types of the variables.
TypeOK ==
  /\ sampling \in BOOLEAN /\ tmp_combine_semaphore \in BOOLEAN
  /\ mutex \subseteq Threads
  /\ pc \in [Threads -> {"idle", "spin", "add", "addtype", "count", "lock", "flag", "set",
                         "total", "peak", "row", "unflag", "unlock"}]
  /\ call \in [Threads -> [mem : Int, type : Types]]
  /\ calls \in [Threads -> 0..MaxCalls]
  /\ usage_pt \in [Counters -> [Threads -> Int]]
  /\ allocation_num_pt \in [Threads -> Nat]
  /\ pass \in [Threads -> [c : Counters, left : SUBSET Threads, sum : Int]]
  /\ peak \in [Counters -> Int] /\ row \in [Counters -> Int]
  /\ base \in Int

Samplers == {t \in Threads : pc[t] \in {"total", "peak", "row", "unflag"}}

\* One thread samples at a time, and the flag is set exactly while it does:
\* no sampler clears the flag of another one.
OneSampler == Cardinality(Samplers) <= 1 /\ (tmp_combine_semaphore <=> Samplers # {})

(***************************************************************************)
(* A sample mixes states of the threads, but not much: since a thread that *)
(* calls again waits for the flag, each of the other threads adds at most  *)
(* once while a sample is taken.  So the total is off from the usage at    *)
(* the time the flag was set, and from the sum of the types of its row or  *)
(* of the peak, by at most one call of each other thread.                  *)
(***************************************************************************)
Skew == (Cardinality(Threads) - 1) * Max(Sizes)
Close(a, b) == a - b \in -Skew..Skew
SumOfTypes(f) == MapThenSumSet(LAMBDA c : f[c], Types)

SampleSkew ==
  \A t \in Threads :
    /\ pc[t] \in {"peak", "row", "unflag"} => Close(row[Total], base)
    /\ pc[t] = "unflag" => Close(row[Total], SumOfTypes(row))
    /\ pc[t] = "row" => Close(peak[Total], SumOfTypes(peak))

\* No call waits forever, neither for the flag nor for the mutex.
CallsReturn == <>Finished
=============================================================================
