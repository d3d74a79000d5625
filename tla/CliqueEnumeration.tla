------------------------- MODULE CliqueEnumeration --------------------------
(***************************************************************************)
(* What maximal clique enumeration promises, with no word on how: cliques  *)
(* are reported one at a time, each wanted one exactly once, in any order; *)
(* the histogram counts the reports by size; the enumeration is over only  *)
(* when every wanted clique has been reported.                             *)
(***************************************************************************)
EXTENDS Naturals

CONSTANTS Graphs,        \* input graphs
          Options,       \* command lines
          Sizes,         \* sizes a clique can have
          Size(_),       \* the size of a clique
          WantedOf(_, _) \* the cliques that are to be reported

VARIABLES graph, opt, reported, hist, done

vars == <<graph, opt, reported, hist, done>>

Wanted == WantedOf(graph, opt)

Init ==
  /\ graph \in Graphs
  /\ opt \in Options
  /\ reported = {}
  /\ hist = [k \in Sizes |-> 0]
  /\ done \in BOOLEAN
  /\ done => Wanted = {}

Report(C) ==
  /\ ~done
  /\ C \notin reported
  /\ reported' = reported \union {C}
  /\ hist' = [hist EXCEPT ![Size(C)] = @ + 1]
  /\ done' \in BOOLEAN
  /\ done' => Wanted = reported'
  /\ UNCHANGED <<graph, opt>>

Finish ==
  /\ ~done
  /\ reported = Wanted
  /\ done' = TRUE
  /\ UNCHANGED <<graph, opt, reported, hist>>

Next == Finish \/ \E C \in Wanted : Report(C)

Spec == Init /\ [][Next]_vars
=============================================================================
