---------------------------- MODULE SmbOperations ----------------------------
(***************************************************************************)
(* The calls of the Samba facade (SmbClient, SmbFile, SmbDir and           *)
(* CredentialCache) and what carrying one out may produce.                 *)
(***************************************************************************)
EXTENDS Naturals

CONSTANTS
  Clients,    \* the threads that call into the facade
  Null,       \* Java's null, and the plain return of a void method
  Unanswered, \* no outcome yet
  CallNumbers \* how many consecutive calls of one client are told apart

ASSUME SmbOperationsAssumption ==
  /\ CallNumbers \in Nat \ {0}
  /\ Null # Unanswered

(***************************************************************************)
(* The operations, by how they pass values.  A "get" returns an object     *)
(* (stat, openDir, openFile, readDir, fstat); a "transfer" hands over a    *)
(* buffer, a length or an offset in the very object that brings back the   *)
(* result (read, write, seek); a "check" only succeeds or throws           *)
(* (createFile, mkdir, rename, unlink, rmdir, close); an "ignore" has no   *)
(* failure its caller could see (reset, putCredential, removeCredential).  *)
(***************************************************************************)
Operations == {"get", "transfer", "check", "ignore"}

CallNumber == 0..(CallNumbers - 1)
Calls      == [client : Clients, number : CallNumber]

\* What one call leaves behind, tagged with the call it belongs to: an
\* argument it carries, a result or an exception.  IOException and
\* RuntimeException take the same way back and are not told apart.
Argument(t)  == [of |-> t, is |-> "argument"]
Result(t)    == [of |-> t, is |-> "result"]
Exception(t) == [of |-> t, is |-> "exception"]

Objects == [of : Calls, is : {"argument", "result"}]
Thrown  == [of : Calls, is : {"exception"}]

\* What carrying out operation o for call t may produce.
Outcomes(o, t) ==
  CASE o \in {"get", "transfer"} -> {Result(t), Exception(t)}
    [] o = "check"               -> {Null, Exception(t)}
    [] o = "ignore"              -> {Null}
=============================================================================
