----------------------------- MODULE MCMemChunk -----------------------------
(***************************************************************************)
(* MemChunk with three sets and cache lines of two bytes: requests of part *)
(* of a line, of a whole line, of several, and one larger than a block.    *)
(***************************************************************************)
EXTENDS MemChunk
=============================================================================
