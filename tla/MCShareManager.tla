--------------------------- MODULE MCShareManager ---------------------------
(* A small instance of ShareManager for TLC. *)
EXTENDS ShareManager

CONSTANTS u1, p1, i1
=============================================================================
