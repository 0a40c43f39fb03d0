----------------------------- MODULE MCMounting -----------------------------
(* A small instance of Mounting for TLC. *)
EXTENDS Mounting

CONSTANTS u1, p1, i1, t1, t2

(***************************************************************************)
(* Attempts end with the process, and what is on disk matters to the next  *)
(* process only.  So attempts are looked at one after the other with all   *)
(* that can happen to the disk and to encryption, and two at a time, with  *)
(* tasks of the provider, while nothing has reached the disk.              *)
(***************************************************************************)
OneAttempt ==
  /\ Cardinality({t \in Tasks : ~Unused(t)}) <= 1
  /\ \A u \in Uris : registered[u] # Loader

NothingOnDisk == disk = {} /\ ivDisk = Null /\ unsaved = {}

OneAttemptOrNothingOnDisk == OneAttempt \/ NothingOnDisk
=============================================================================
