--------------------------- MODULE CliqueProgram ----------------------------
(***************************************************************************)
(* The program from file to output, as main runs it: read the graph, order *)
(* its vertices, enumerate the cliques, print their histogram.  The        *)
(* enumeration is what BronKerbosch has been shown to implement: each      *)
(* maximal clique is reported once, here by any of the threads, which      *)
(* counts it in a histogram of its own.  That holds for graphs without a   *)
(* reserved vertex: with one, the graph is not symmetric, and the program  *)
(* is followed to the end of the ordering only.                            *)
(***************************************************************************)
EXTENDS DegeneracyOrdering, MaximalCliques

CONSTANTS Threads,
          Ords,      \* values of --ord; 0 is the default
          IntRange   \* number of values of an int (2^32 in the code)

ASSUME ProgramAssumption ==
  /\ IsFiniteSet(Threads) /\ Ords \subseteq Int
  /\ IntRange \in Nat \ {0} /\ IntRange % 2 = 0

VARIABLES ord,
          reported,
          pt_hist,    \* pt_hist[t][k]: cliques of size k that thread t reported
          output      \* what writeCliqueHist prints

enumVars == <<reported, pt_hist, output>>
vars == <<graphVars, pc, orderVars, ord, enumVars>>

Nothing == [total |-> -1, rows |-> << >>]

Init ==
  /\ InputInit /\ OrderInit
  /\ ord \in Ords
  /\ reported = {}
  /\ pt_hist = [t \in Threads |-> << >>]
  /\ output = Nothing

degeneracyOrd == ord = 0

Read == InputNext /\ UNCHANGED <<orderVars, ord, enumVars>>

Order == degeneracyOrd /\ OrderNext /\ UNCHANGED <<ord, enumVars>>

\* With another --ord the vertices keep the order of the hash map.
NoOrder ==
  /\ pc = "ready" /\ ~degeneracyOrd
  /\ pc' = "enumerate"
  /\ ordering' = SetToSeq(V)
  /\ UNCHANGED <<graphVars, degArray, nodeDegrees, degen, ord, enumVars>>

-----------------------------------------------------------------------------
Cliques == WantedCliques(V, adj, -1)

Get(h, k) == IF k \in DOMAIN h THEN h[k] ELSE 0

\* pt_hist.local()[R.size()]++ of StartTask.
Counted(h, k) == [j \in DOMAIN h \union {k} |-> Get(h, j) + (IF j = k THEN 1 ELSE 0)]

Report(t, C) ==
  /\ pc = "enumerate" /\ Unreserved /\ C \notin reported
  /\ reported' = reported \union {C}
  /\ pt_hist' = [pt_hist EXCEPT ![t] = Counted(@, Cardinality(C))]
  /\ UNCHANGED <<graphVars, pc, orderVars, ord, output>>

\* The conversion of a long to an int.
ToInt(n) == ((n + IntRange \div 2) % IntRange) - IntRange \div 2

SizesSeen == UNION {DOMAIN pt_hist[t] : t \in Threads}

\* Mutant of SumOver: a later thread's count replaces the earlier ones.
SumOfLast(k) == Max({Get(pt_hist[t], k) : t \in Threads})

SumOver(k) == FoldFunction(+, 0, [t \in Threads |-> Get(pt_hist[t], k)])

\* writeCliqueHist: the total is a long, the rows of the histogram are ints.
writeCliqueHist ==
  /\ pc = "enumerate" /\ Unreserved /\ reported = Cliques
  /\ output' = [total |-> FoldFunction(+, 0, [k \in SizesSeen |-> SumOver(k)]),
                rows |-> [k \in SizesSeen |-> ToInt(SumOver(k))]]
  /\ pc' = "done"
  /\ UNCHANGED <<graphVars, orderVars, ord, reported, pt_hist>>

Terminated ==
  /\ pc \in {"done", "assert"} \/ (pc = "enumerate" /\ ~Unreserved)
  /\ UNCHANGED vars

Next ==
  \/ Read \/ Order \/ NoOrder
  \/ \E t \in Threads, C \in Cliques : Report(t, C)
  \/ writeCliqueHist
  \/ Terminated

Spec == Init /\ [][Next]_vars

\* main goes on, and the enumeration reports all cliques (BronKerbosch).
FairSpec == Spec /\ WF_vars(Next)

-----------------------------------------------------------------------------
DescribedCliques == WantedCliques(DOMAIN DescribedAdj, DescribedAdj, -1)
OfSize(k) == {C \in DescribedCliques : Cardinality(C) = k}

(***************************************************************************)
(* From the file to the output, for a file whose last row is ended by a    *)
(* newline and whose first row counts the vertices that have a row: the    *)
(* printed total is the number of maximal cliques of the graph the file    *)
(* describes, the rows are for their sizes, and each row is the number of  *)
(* those of its size, if that is less than half of the range of an int.    *)
(***************************************************************************)
OutputCorrect ==
  pc = "done" /\ WellFormed /\ LastRowEnds /\ HeaderAgrees =>
    /\ output.total = Cardinality(DescribedCliques)
    /\ DOMAIN output.rows = {Cardinality(C) : C \in DescribedCliques}
    /\ \A k \in DOMAIN output.rows :
         Cardinality(OfSize(k)) < IntRange \div 2 => output.rows[k] = Cardinality(OfSize(k))

(***************************************************************************)
(* Every file is read to its end, and a graph without vertices, or with an *)
(* edge that is no loop, comes to its output.                              *)
(***************************************************************************)
OutputPrinted ==
  /\ <>(pc # "read")
  /\ (pc = "ready" /\ Unreserved /\ (V = {} \/ edgeNo > 0)) ~> (pc = "done")

(***************************************************************************)
(* README.md and the assertion of degeneracyOrdering: a file of the format *)
(* described, with the number of vertices in the first row if it has one,  *)
(* comes to the enumeration of the graph that it describes.                *)
(***************************************************************************)
EnumeratesDescribed ==
  pc \notin {"read", "ready"} /\ Conforming =>
    /\ pc # "assert"
    /\ adj = DescribedAdj
    /\ \A i \in HeaderRows : nodeNo = file.lines[i].nums[1]
=============================================================================
