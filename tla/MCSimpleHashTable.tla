------------------------- MODULE MCSimpleHashTable --------------------------
(***************************************************************************)
(* SimpleHashTable with buckets and vectors of two slots and up to four    *)
(* keys, which then get a table of eight: enough for a key to be moved     *)
(* twice, for a move that fails half way, and for nested rebuilds.         *)
(***************************************************************************)
EXTENDS SimpleHashTable

MCBuilds ==
  {[HS |-> 2, VECTOR |-> 2, avx512 |-> TRUE], [HS |-> 2, VECTOR |-> 1, avx512 |-> FALSE]}

MCLists == {<< >>, <<1>>, <<1, 2, 1>>, <<3, 4>>, <<2, 4, 1>>, <<0, 1, 2, 3>>, <<0, 5, 1, 2>>}
=============================================================================
