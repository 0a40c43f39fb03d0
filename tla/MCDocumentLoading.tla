-------------------------- MODULE MCDocumentLoading --------------------------
(* Small instances of DocumentLoading for TLC, which check liveness and so *)
(* use no symmetry.                                                        *)
EXTENDS DocumentLoading
=============================================================================
