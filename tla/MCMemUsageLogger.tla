-------------------------- MODULE MCMemUsageLogger --------------------------
(***************************************************************************)
(* MemUsageLogger with a few threads, two types and amounts of one size.   *)
(***************************************************************************)
EXTENDS MemUsageLogger
=============================================================================
