---------------------------- MODULE MCGraphGuard ----------------------------
(***************************************************************************)
(* GraphGuard with a call and three descendants that share its graph.      *)
(***************************************************************************)
EXTENDS GraphGuard

CONSTANTS u1, u2, u3, u4

MCUsers == {u1, u2, u3, u4}
=============================================================================
