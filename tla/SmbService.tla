----------------------------- MODULE SmbService -----------------------------
(***************************************************************************)
(* What a caller of SmbClient, SmbFile, SmbDir or CredentialCache is       *)
(* promised: every call is carried out exactly once, as one indivisible    *)
(* step somewhere between its invocation and its return, and it returns    *)
(* (or throws) what that very step produced.  SambaMessageLooper, which    *)
(* ships every call to one worker thread, is shown to implement this.      *)
(***************************************************************************)
EXTENDS SmbOperations

VARIABLES
  state,  \* state[c]: "idle", "called", "answered" or "returned"
  op,     \* op[c]: the operation c calls, Null between calls
  number, \* number[c]: the number of c's call
  answer, \* answer[c]: the outcome of carrying it out
  result  \* result[c]: what the call returned or threw

vars == <<state, op, number, answer, result>>

Init ==
  /\ state  = [c \in Clients |-> "idle"]
  /\ op     = [c \in Clients |-> Null]
  /\ number = [c \in Clients |-> 0]
  /\ answer = [c \in Clients |-> Unanswered]
  /\ result = [c \in Clients |-> Null]

Invoke(c, o) ==
  /\ state[c] = "idle"
  /\ state'  = [state EXCEPT ![c] = "called"]
  /\ op'     = [op EXCEPT ![c] = o]
  /\ number' = [number EXCEPT ![c] = (@ + 1) % CallNumbers]
  /\ UNCHANGED <<answer, result>>

Serve(c) ==
  /\ state[c] = "called"
  /\ state' = [state EXCEPT ![c] = "answered"]
  /\ \E a \in Outcomes(op[c], [client |-> c, number |-> number[c]]) :
        answer' = [answer EXCEPT ![c] = a]
  /\ UNCHANGED <<op, number, result>>

Return(c) ==
  /\ state[c] = "answered"
  /\ state'  = [state EXCEPT ![c] = "returned"]
  /\ result' = [result EXCEPT ![c] = answer[c]]
  /\ UNCHANGED <<op, number, answer>>

\* The caller goes on; what the call left is forgotten.
Finish(c) ==
  /\ state[c] = "returned"
  /\ state'  = [state EXCEPT ![c] = "idle"]
  /\ op'     = [op EXCEPT ![c] = Null]
  /\ answer' = [answer EXCEPT ![c] = Unanswered]
  /\ result' = [result EXCEPT ![c] = Null]
  /\ UNCHANGED number

Next ==
  \E c \in Clients :
    \/ \E o \in Operations : Invoke(c, o)
    \/ Serve(c)
    \/ Return(c)
    \/ Finish(c)

Fairness == \A c \in Clients :
  WF_vars(Serve(c)) /\ WF_vars(Return(c)) /\ WF_vars(Finish(c))

Spec     == Init /\ [][Next]_vars
FairSpec == Spec /\ Fairness
=============================================================================
