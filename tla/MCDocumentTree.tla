---------------------------- MODULE MCDocumentTree ----------------------------
(* Small instances of DocumentTree for TLC: a folder with a document in it. *)
EXTENDS DocumentTree, TLC

CONSTANTS root, folder, inside

Nested       == {folder, inside}
NestedParent == folder :> root @@ inside :> folder

Symmetry == Permutations(Clients)
=============================================================================
