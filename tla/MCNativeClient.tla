---------------------------- MODULE MCNativeClient ----------------------------
(* A small instance of NativeClient for TLC. *)
EXTENDS NativeClient

CONSTANTS x1, x2, n1, n2, o1, o2, d1, d2, e1, e2
=============================================================================
