------------------------ MODULE MCSambaMessageLooper ------------------------
(* Small instances of SambaMessageLooper for TLC. *)
EXTENDS SambaMessageLooper, TLC

Symmetry == Permutations(Clients) \cup Permutations(Values)
=============================================================================
