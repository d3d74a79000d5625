-------------------------- MODULE MCCliqueProgram ---------------------------
(***************************************************************************)
(* CliqueProgram on every file of up to three lines of all kinds, and on   *)
(* listings of every graph with four vertices, with and without a repeated *)
(* row, which makes maxdeg too large.  There are edges of both reserved    *)
(* keys, and an incomplete row may add one of -1.                          *)
(***************************************************************************)
EXTENDS CliqueProgram

MCLines ==
  {Comment, Row(<< >>), Row(<<1>>), Row(<<1, 1>>), Row(<<1, 2>>), Row(<<2, 1>>),
   Row(<<2, 3>>), Row(<<1, EMPTY_KEY>>), Row(<<INVAL_KEY, 2>>),
   Row(<<3, 3, 1>>), Row(<<3, 3, 2>>), Row(<<3, 1, -1>>)}

MCShort == {[lines |-> l, newline |-> n] : l \in BoundedSeq(MCLines, 3), n \in BOOLEAN}

MCListing(E) == SetToSeq({Row(e) : e \in E})

MCGraphs ==
  {[lines |-> extra \o MCListing(E), newline |-> TRUE] :
     E \in SUBSET {<<u, w>> \in (1..4) \X (1..4) : u < w},
     extra \in {<< >>, <<Row(<<2, 1>>), Row(<<2, 1>>)>>}}

MCFiles == MCShort \union MCGraphs

\* Three vertices, one of them isolated, two loops, no newline at the end.
MCDocumented ==
  {[lines |-> <<Row(<<3, 3, 2>>), Row(<<1, 1>>), Row(<<2, 2>>)>>, newline |-> FALSE]}

MCGarbage == {1, 4, EMPTY_KEY}
=============================================================================
