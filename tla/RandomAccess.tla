----------------------------- MODULE RandomAccess -----------------------------
(***************************************************************************)
(* What SambaProxyFileCallback promises to the reader or writer of a       *)
(* document: requests for bytes at an offset, one after another.  Each is  *)
(* answered with the bytes that the file has there, with all bytes written *)
(* there, or with an error after some of them; a read is short only at the *)
(* end of the file.  There is no position and no buffer, and other         *)
(* programs may change the file at any time.                               *)
(***************************************************************************)
EXTENDS FileBytes

CONSTANTS
  Offsets, Sizes, \* what is asked for
  Writes,         \* the byte sequences that are written
  Contents        \* what other programs make of the file

VARIABLES content, request

Idle == [kind |-> "none", from |-> 0, size |-> 0, bytes |-> <<>>, done |-> 0]

Init == content \in Contents /\ request = Idle

AskRead == \E from \in Offsets, size \in Sizes :
  /\ request.kind = "none"
  /\ request' = [kind |-> "read", from |-> from, size |-> size, bytes |-> <<>>, done |-> 0]
  /\ UNCHANGED content

AskWrite == \E from \in Offsets, bytes \in Writes :
  /\ request.kind = "none"
  /\ request' = [kind |-> "write", from |-> from, size |-> Len(bytes), bytes |-> bytes, done |-> 0]
  /\ UNCHANGED content

\* n bytes at once
Read(n) ==
  LET pos == request.from + request.done IN
  /\ request.kind = "read"
  /\ request.done + n <= request.size
  /\ pos + n <= Len(content)
  /\ request' = [request EXCEPT !.bytes = @ \o ReadAt(content, pos, n), !.done = @ + n]
  /\ UNCHANGED content

Write(n) ==
  /\ request.kind = "write"
  /\ request.done + n <= request.size
  /\ content' = WriteAt(content, request.from + request.done, ReadAt(request.bytes, request.done, n))
  /\ request' = [request EXCEPT !.done = @ + n]

Answer ==
  /\ request.kind # "none"
  /\ \/ request.done = request.size
     \/ request.kind = "read" /\ request.from + request.done >= Len(content)
  /\ request' = Idle
  /\ UNCHANGED content

\* IOException
Fail ==
  /\ request.kind # "none"
  /\ request' = Idle
  /\ UNCHANGED content

\* Another program, or the opening of the file for writing from the start
Change ==
  /\ content' \in Contents \cup {<<>>}
  /\ UNCHANGED request

Next ==
  \/ AskRead \/ AskWrite \/ Answer \/ Fail \/ Change
  \/ \E n \in 1..request.size : Read(n) \/ Write(n)

Spec == Init /\ [][Next]_<<content, request>>
=============================================================================
