----------------------------- MODULE MCSambaFile -----------------------------
(* Small instances of SambaFile for TLC. *)
EXTENDS SambaFile, TLC

MCContents == {<<>>, <<1, 2, 3>>}

MCWrites == {<<7, 8>>, <<7, 8, 9>>}
=============================================================================
