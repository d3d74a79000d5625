--------------------------- MODULE MCSimpleHashSet ---------------------------
(***************************************************************************)
(* SimpleHashSet with up to five elements in buckets of three slots: lists *)
(* of up to two buckets, so that buckets are added and deleted again, and  *)
(* a tail bucket has up to two stale slots.                                *)
(***************************************************************************)
EXTENDS SimpleHashSet
=============================================================================
