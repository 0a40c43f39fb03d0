----------------------------- MODULE OpenDocuments -----------------------------
(***************************************************************************)
(* What SmbFile and SmbDir objects promise their users: an object works on *)
(* the document it was opened for and on no other, however often the       *)
(* client is reset; a reset loses what is open for good; a directory gives *)
(* each of its entries once, and its end when all have come or it is lost. *)
(***************************************************************************)
EXTENDS Naturals

CONSTANTS Objects, Documents, Entries, Null

VARIABLES
  opened, \* the document of each object, what of it has not been read yet,
          \* and whether it is lost, or Null
  reached \* the object that the last call worked on and the document it has
          \* reached, or Null

vars == <<opened, reached>>

Document(d) == [document |-> d, unread |-> Entries, lost |-> FALSE]

Init ==
  /\ opened = [o \in Objects |-> Null]
  /\ reached = Null

Open(o, d) ==
  /\ opened[o] = Null
  /\ opened' = [opened EXCEPT ![o] = Document(d)]
  /\ reached' = Null

Usable(o) == opened[o] # Null /\ ~opened[o].lost

\* A call that succeeds
Use(o) ==
  /\ Usable(o)
  /\ reached' = [object |-> o, document |-> opened[o].document]
  /\ UNCHANGED opened

Read(o, e) ==
  /\ Usable(o)
  /\ e \in opened[o].unread
  /\ opened' = [opened EXCEPT ![o].unread = @ \ {e}]
  /\ reached' = [object |-> o, document |-> opened[o].document]

\* The end of a directory
End(o) ==
  /\ Usable(o) => opened[o].unread = {}
  /\ reached' = Null
  /\ UNCHANGED opened

\* A call that fails, or one that works on no object
Fail == reached' = Null /\ UNCHANGED opened

Close(o) ==
  /\ opened' = [opened EXCEPT ![o] = Null]
  /\ reached' = Null

Reset ==
  /\ opened' = [o \in Objects |->
       IF opened[o] = Null THEN Null ELSE [opened[o] EXCEPT !.lost = TRUE]]
  /\ reached' = Null

Next ==
  \/ \E o \in Objects :
       \/ \E d \in Documents : Open(o, d)
       \/ \E e \in Entries : Read(o, e)
       \/ Use(o) \/ End(o) \/ Close(o)
  \/ Fail
  \/ Reset

Spec == Init /\ [][Next]_vars
=============================================================================
