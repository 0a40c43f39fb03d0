--------------------------- MODULE MCNetworkBrowsing ---------------------------
EXTENDS NetworkBrowsing, TLC

(* Small instances of NetworkBrowsing for TLC. *)
CONSTANTS a1, a2, p1, p2, s1, s2
=============================================================================
