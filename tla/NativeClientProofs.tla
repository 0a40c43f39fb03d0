-------------------------- MODULE NativeClientProofs --------------------------
(***************************************************************************)
(* Proofs about NativeClient, for any number of objects, descriptors and   *)
(* contexts, and any sequence of resets.                                   *)
(*                                                                         *)
(* The client has the only context there is, and it is the current one     *)
(* unless an Init has failed.  Each number belongs to one object, and      *)
(* stands for the document of that object, lost or not.                    *)
(***************************************************************************)
EXTENDS NativeClient, TLAPS

\* The client owns the context.
Owned == live = {handler} \ {Null}

\* Objects are made by a client, whose context is the current one.
CurrentUnlessInitFails ==
  ~initFailed /\ (\E o \in Objects : object[o] # Null) => current \in live

CurrentIsOwn == handler # Null => current = handler

\* Objects do not share numbers.
NumbersExclusive ==
  \A o, p \in Objects :
    Opened(o) /\ Opened(p) /\ object[o].number = object[p].number => o = p

\* A number stands for the document of its object.
NumbersStandForDocuments ==
  \A o \in Objects : Opened(o) =>
    /\ table[object[o].number] # Null
    /\ table[object[o].number].document = object[o].document

NumbersInv == NumbersExclusive /\ NumbersStandForDocuments

ContextInv == Owned /\ CurrentIsOwn /\ CurrentUnlessInitFails /\ SafeUnlessInitFails

ClientInv == TypeOK /\ ContextInv /\ NumbersInv

Answers == [object : Objects \cup {Null}, reached : Documents \cup {Null},
            thrown : Exceptions]

LEMMA AnswersTyped ==
  /\ NoAnswer \in Answers
  /\ \A op, err : Answer(Null, Null, Thrown(op, err)) \in Answers
  /\ \A e \in Exceptions : Answer(Null, Null, e) \in Answers
  /\ \A o \in Objects, d \in Documents : Answer(o, d, "none") \in Answers
BY DEF NoAnswer, Answer, Answers, Thrown, Exceptions

LEMMA LostTyped ==
  ASSUME TypeOK
  PROVE  /\ Lost \in [Numbers -> Descriptors \cup {Null}]
         /\ \A n \in Numbers : table[n] = Null => Lost[n] = Null
         /\ \A n \in Numbers : table[n] # Null =>
              /\ Lost[n] # Null
              /\ ~Lost[n].open
              /\ Lost[n].document = table[n].document
              /\ Lost[n].unread = table[n].unread
<1>1. \A n \in Numbers : table[n] # Null =>
        /\ [table[n] EXCEPT !.open = FALSE] \in Descriptors
        /\ ~[table[n] EXCEPT !.open = FALSE].open
        /\ [table[n] EXCEPT !.open = FALSE].document = table[n].document
        /\ [table[n] EXCEPT !.open = FALSE].unread = table[n].unread
  BY DEF TypeOK, Descriptors
<1>2. Null \notin Descriptors
  BY NativeClientAssumption
<1> QED
  BY <1>1, <1>2 DEF Lost

LEMMA OpenedTyped ==
  ASSUME TypeOK, NEW o \in Objects, Opened(o)
  PROVE  object[o] \in Handles /\ object[o].number \in Numbers
BY DEF TypeOK, Opened, Handles

-----------------------------------------------------------------------------
LEMMA ClientInit == Init => ClientInv
<1> SUFFICES ASSUME Init PROVE ClientInv
  OBVIOUS
<1>1. TypeOK
  BY AnswersTyped DEF Init, TypeOK, Answers
<1>2. ContextInv
  BY DEF Init, ContextInv, Owned, CurrentIsOwn, CurrentUnlessInitFails, SafeUnlessInitFails
<1>3. NumbersInv
  BY DEF Init, NumbersInv, NumbersExclusive, NumbersStandForDocuments, Opened
<1> QED
  BY <1>1, <1>2, <1>3 DEF ClientInv

\* reset
LEMMA ResetKeeps == ASSUME ClientInv, fault = "none", Reset PROVE ClientInv'
<1> USE DEF ClientInv
<1>0. Null \notin Contexts
  BY NativeClientAssumption
<1>1. CASE ExitToAvoidLeak
  <2>1. TypeOK'
    BY <1>1 DEF ExitToAvoidLeak, TypeOK, clientVars
  <2>2. ContextInv'
    BY <1>1 DEF ExitToAvoidLeak, clientVars, ContextInv, Owned, CurrentIsOwn,
                CurrentUnlessInitFails, SafeUnlessInitFails
  <2>3. NumbersInv'
    BY <1>1 DEF ExitToAvoidLeak, NumbersInv, NumbersExclusive, NumbersStandForDocuments, Opened
  <2> QED
    BY <2>1, <2>2, <2>3
<1>2. CASE InitSucceeds \/ NewContextFails \/ InitContextFails
  <2>1. table' = Lost /\ UNCHANGED object /\ answer' = NoAnswer
    BY <1>2 DEF InitSucceeds, NewContextFails, InitContextFails
  <2>2. TypeOK'
    BY <1>2, <2>1, LostTyped, AnswersTyped
    DEF InitSucceeds, NewContextFails, InitContextFails, TypeOK, Answers
  <2>3. ContextInv'
    <3>1. CASE InitSucceeds
      BY <1>0, <3>1 DEF InitSucceeds, TypeOK, ContextInv, Owned, CurrentIsOwn,
                  CurrentUnlessInitFails, SafeUnlessInitFails
    <3>2. CASE NewContextFails \/ InitContextFails
      BY <3>2 DEF NewContextFails, InitContextFails, TypeOK, ContextInv, Owned, CurrentIsOwn,
                  CurrentUnlessInitFails, SafeUnlessInitFails
    <3> QED
      BY <1>2, <3>1, <3>2
  <2>4. NumbersInv'
    <3>1. \A o \in Objects : Opened(o)' <=> Opened(o)
      BY <2>1 DEF Opened
    <3>2. NumbersExclusive'
      BY <2>1, <3>1 DEF NumbersInv, NumbersExclusive
    <3>3. NumbersStandForDocuments'
      <4> SUFFICES ASSUME NEW o \in Objects, Opened(o)
                   PROVE  /\ table'[object'[o].number] # Null
                          /\ table'[object'[o].number].document = object'[o].document
        BY <3>1 DEF NumbersStandForDocuments
      <4> QED
        BY <2>1, LostTyped, OpenedTyped DEF NumbersInv, NumbersStandForDocuments
    <3> QED
      BY <3>2, <3>3 DEF NumbersInv
  <2> QED
    BY <2>2, <2>3, <2>4
<1> QED
  BY <1>1, <1>2 DEF Reset
-----------------------------------------------------------------------------
(* Calls change no context. *)

LEMMA CallsKeepContext ==
  ASSUME ContextInv, UNCHANGED <<clientVars, initFailed>>,
         fault' \in {fault, "bad format"} \/ (fault' = "freed context" /\ initFailed),
         \A o \in Objects : object'[o] # Null => object[o] # Null \/ handler # Null
  PROVE  ContextInv'
<1>1. (\E o \in Objects : object'[o] # Null) /\ ~initFailed => current \in live
  <2>1. CASE handler # Null
    BY <2>1 DEF ContextInv, Owned, CurrentIsOwn
  <2>2. CASE handler = Null
    BY <2>2 DEF ContextInv, CurrentUnlessInitFails
  <2> QED
    BY <2>1, <2>2
<1> QED
  BY <1>1 DEF ContextInv, Owned, CurrentIsOwn, CurrentUnlessInitFails, SafeUnlessInitFails,
              clientVars

\* Calls that leave what is open alone, whether or not they succeed
LEMMA OtherCallsKeep ==
  ASSUME ClientInv, fault = "none", UNCHANGED <<clientVars, table, object, initFailed>>,
         answer' \in Answers,
         fault' \in {"none", "bad format"} \/ (fault' = "freed context" /\ initFailed)
  PROVE  ClientInv'
<1> USE DEF ClientInv
<1>1. TypeOK'
  BY DEF TypeOK, clientVars, Answers
<1>2. ContextInv'
  BY CallsKeepContext
<1>3. NumbersInv'
  BY DEF NumbersInv, NumbersExclusive, NumbersStandForDocuments, Opened
<1> QED
  BY <1>1, <1>2, <1>3

LEMMA PathCallKeeps == ASSUME ClientInv, fault = "none", PathCall PROVE ClientInv'
<1>1. UNCHANGED <<clientVars, table, object, initFailed>> /\ fault' \in {"none", "bad format"}
  BY DEF PathCall, Uninitialised, PathCallSucceeds, PathCallFails, UnlinkFails
<1>2. answer' \in Answers
  <2>1. answer \in Answers /\ "IllegalStateException" \in Exceptions
    BY DEF ClientInv, TypeOK, Answers, Exceptions
  <2> QED
    BY <2>1, AnswersTyped
    DEF PathCall, Uninitialised, PathCallSucceeds, PathCallFails, UnlinkFails, Throw
<1> QED
  BY <1>1, <1>2, OtherCallsKeep

LEMMA OpenKeeps ==
  ASSUME ClientInv, fault = "none", NEW o \in Objects, NEW d \in Documents, Open(o, d)
  PROVE  ClientInv'
<1> USE DEF ClientInv
<1>1. PICK n \in Numbers :
        /\ table[n] = Null
        /\ table' = [table EXCEPT ![n] = Descriptor(d)]
        /\ object' = [object EXCEPT ![o] = [number |-> n, document |-> d]]
  BY DEF Open
<1>2. /\ Descriptor(d) \in Descriptors /\ Descriptor(d).document = d
      /\ [number |-> n, document |-> d] \in Handles
      /\ Null \notin Descriptors /\ Null \notin Numbers /\ Null \notin Handles
  BY NativeClientAssumption DEF Descriptor, Descriptors, Handles
<1>3. TypeOK'
  <2>1. table' \in [Numbers -> Descriptors \cup {Null}] /\ object' \in [Objects -> Handles \cup {Null}]
    BY <1>1, <1>2 DEF TypeOK
  <2> QED
    BY <2>1, AnswersTyped DEF TypeOK, Open, clientVars, Answers
<1>4. ContextInv'
  BY CallsKeepContext DEF Open
<1>5. /\ object'[o].number = n /\ object'[o].document = d /\ Opened(o)'
      /\ table'[n] # Null /\ table'[n].document = d
      /\ \A p \in Objects \ {o} : object'[p] = object[p] /\ (Opened(p)' <=> Opened(p))
      /\ \A m \in Numbers \ {n} : table'[m] = table[m]
  BY <1>1, <1>2 DEF TypeOK, Opened
<1>6. \A p \in Objects \ {o} : Opened(p) => object[p].number # n /\ object[p].number \in Numbers
  BY <1>1, OpenedTyped DEF NumbersInv, NumbersStandForDocuments
<1>7. NumbersExclusive'
  <2> SUFFICES ASSUME NEW p \in Objects, NEW q \in Objects, Opened(p)', Opened(q)',
                      object'[p].number = object'[q].number
               PROVE  p = q
    BY DEF NumbersExclusive
  <2>1. CASE p # o /\ q # o
    BY <2>1, <1>5 DEF NumbersInv, NumbersExclusive
  <2>2. CASE p = o \/ q = o
    BY <2>2, <1>5, <1>6
  <2> QED
    BY <2>1, <2>2
<1>8. NumbersStandForDocuments'
  <2> SUFFICES ASSUME NEW p \in Objects, Opened(p)'
               PROVE  /\ table'[object'[p].number] # Null
                      /\ table'[object'[p].number].document = object'[p].document
    BY DEF NumbersStandForDocuments
  <2>1. CASE p = o
    BY <2>1, <1>5
  <2>2. CASE p # o
    BY <2>2, <1>5, <1>6 DEF NumbersInv, NumbersStandForDocuments
  <2> QED
    BY <2>1, <2>2
<1> QED
  BY <1>3, <1>4, <1>7, <1>8 DEF NumbersInv

LEMMA UseKeeps ==
  ASSUME ClientInv, fault = "none", NEW o \in Objects,
         Use(o) \/ UseFails(o) \/ SeekInPlace(o) \/ ReadDirEnds(o)
  PROVE  ClientInv'
<1>1. UNCHANGED <<clientVars, table, object, initFailed, fault>>
  BY DEF Use, UseFails, SeekInPlace, ReadDirEnds
<1>2. CASE Use(o)
  <2>1. table[object[o].number].document \in Documents
    BY <1>2, OpenedTyped DEF Use, Valid, ClientInv, TypeOK, Descriptors
  <2> QED
    BY <1>1, <1>2, <2>1, AnswersTyped, OtherCallsKeep DEF Use
<1>3. CASE UseFails(o) \/ SeekInPlace(o) \/ ReadDirEnds(o)
  <2>1. "IOException" \in Exceptions
    BY DEF Exceptions
  <2> QED
    BY <1>1, <1>3, <2>1, AnswersTyped, OtherCallsKeep DEF UseFails, SeekInPlace, ReadDirEnds, Throw
<1> QED
  BY <1>2, <1>3

LEMMA ReadDirKeeps ==
  ASSUME ClientInv, fault = "none", NEW o \in Objects, NEW e \in Entries, ReadDir(o, e)
  PROVE  ClientInv'
<1> USE DEF ClientInv
<1> DEFINE n == object[o].number
<1>1. Opened(o) /\ n \in Numbers /\ table[n] # Null /\ table[n] \in Descriptors
  BY OpenedTyped DEF ReadDir, Valid, TypeOK
<1>2. table' = [table EXCEPT ![n].unread = table[n].unread \ {e}] /\ UNCHANGED object
  BY DEF ReadDir
<1>3. /\ table'[n] \in Descriptors /\ table'[n].document = table[n].document
      /\ \A m \in Numbers \ {n} : table'[m] = table[m]
      /\ table' \in [Numbers -> Descriptors \cup {Null}]
  BY <1>1, <1>2 DEF TypeOK, Descriptors
<1>4. Null \notin Descriptors
  BY NativeClientAssumption
<1>5. TypeOK'
  <2>1. answer' \in Answers
    BY <1>1, AnswersTyped DEF ReadDir, Descriptors
  <2> QED
    BY <1>2, <1>3, <2>1 DEF TypeOK, ReadDir, clientVars, Answers
<1>6. ContextInv'
  BY CallsKeepContext DEF ReadDir
<1>7. \A p \in Objects : Opened(p)' <=> Opened(p)
  BY <1>2 DEF Opened
<1>8. NumbersInv'
  <2>1. NumbersExclusive'
    BY <1>2, <1>7 DEF NumbersInv, NumbersExclusive
  <2>2. NumbersStandForDocuments'
    <3> SUFFICES ASSUME NEW p \in Objects, Opened(p)
                 PROVE  /\ table'[object'[p].number] # Null
                        /\ table'[object'[p].number].document = object'[p].document
      BY <1>7 DEF NumbersStandForDocuments
    <3> QED
      BY <1>2, <1>3, <1>4, OpenedTyped DEF NumbersInv, NumbersStandForDocuments
  <2> QED
    BY <2>1, <2>2 DEF NumbersInv
<1> QED
  BY <1>5, <1>6, <1>8

LEMMA CloseKeeps ==
  ASSUME ClientInv, fault = "none", NEW o \in Objects, Close(o) \/ Drop(o)
  PROVE  ClientInv'
<1> USE DEF ClientInv
<1>1. /\ ~Opened(o)'
      /\ object' \in [Objects -> Handles \cup {Null}]
      /\ object'[o] # Null => object[o] # Null
      /\ \A p \in Objects \ {o} : object'[p] = object[p] /\ (Opened(p)' <=> Opened(p))
  <2>1. CASE Close(o)
    <3>1. object[o] \in Handles /\ object' = [object EXCEPT ![o].number = Null]
      BY <2>1 DEF Close, Callable, TypeOK
    <3> QED
      BY <3>1, NativeClientAssumption DEF Opened, TypeOK, Handles
  <2>2. CASE Drop(o)
    BY <2>2 DEF Drop, Opened, TypeOK
  <2> QED
    BY <2>1, <2>2
<1>2. /\ table' \in [Numbers -> Descriptors \cup {Null}]
      /\ \A m \in Numbers : (Opened(o) => m # object[o].number) => table'[m] = table[m]
  <2>1. CASE Close(o)
    BY <2>1, OpenedTyped DEF Close, TypeOK
  <2>2. CASE Drop(o)
    BY <2>2 DEF Drop, TypeOK
  <2> QED
    BY <2>1, <2>2
<1>3. UNCHANGED <<clientVars, fault, initFailed>> /\ answer' \in Answers
  <2>1. {"none", "IOException"} \subseteq Exceptions
    BY DEF Exceptions
  <2> QED
    BY <2>1, AnswersTyped DEF Close, Drop, Throw
<1>4. TypeOK'
  BY <1>1, <1>2, <1>3 DEF TypeOK, clientVars, Answers
<1>5. ContextInv'
  BY <1>1, <1>3, CallsKeepContext
<1>6. NumbersExclusive'
  BY <1>1 DEF NumbersInv, NumbersExclusive
<1>7. NumbersStandForDocuments'
  <2> SUFFICES ASSUME NEW p \in Objects, Opened(p)'
               PROVE  /\ table'[object'[p].number] # Null
                      /\ table'[object'[p].number].document = object'[p].document
    BY DEF NumbersStandForDocuments
  <2>1. p # o /\ Opened(p) /\ object'[p] = object[p] /\ object[p].number \in Numbers
    BY <1>1, OpenedTyped
  <2>2. Opened(o) => object[p].number # object[o].number
    BY <2>1 DEF NumbersInv, NumbersExclusive
  <2> QED
    BY <1>2, <2>1, <2>2 DEF NumbersInv, NumbersStandForDocuments
<1> QED
  BY <1>4, <1>5, <1>6, <1>7 DEF NumbersInv

LEMMA ClientStep == ClientInv /\ [Next]_vars => ClientInv'
<1> SUFFICES ASSUME ClientInv, [Next]_vars PROVE ClientInv'
  OBVIOUS
<1>1. CASE UNCHANGED vars
  BY <1>1 DEF vars, clientVars, ClientInv, TypeOK, ContextInv, Owned, CurrentIsOwn,
              CurrentUnlessInitFails, SafeUnlessInitFails, NumbersInv, NumbersExclusive,
              NumbersStandForDocuments, Opened
<1>2. ASSUME fault = "none", NEW op \in {"openFile", "openDir"}, NEW err \in Errors,
             OpenFails(op, err)
      PROVE  ClientInv'
  BY <1>2, AnswersTyped, OtherCallsKeep DEF OpenFails, Throw
<1>3. ASSUME fault = "none", UseFreedContext PROVE ClientInv'
  <2>1. initFailed
    BY <1>3 DEF UseFreedContext, ClientInv, ContextInv, CurrentUnlessInitFails
  <2>2. answer \in Answers
    BY DEF ClientInv, TypeOK, Answers
  <2> QED
    BY <1>3, <2>1, <2>2, OtherCallsKeep DEF UseFreedContext
<1> QED
  BY <1>1, <1>2, <1>3, ResetKeeps, PathCallKeeps, OpenKeeps, UseKeeps, ReadDirKeeps, CloseKeeps
  DEF Next, ObjectCall

THEOREM ClientInvCorrect == Spec => []ClientInv
BY ClientInit, ClientStep, PTL DEF Spec

\* The variables of the native client have their types.
THEOREM TypeCorrect == Spec => []TypeOK
<1>1. ClientInv => TypeOK
  BY DEF ClientInv
<1> QED
  BY <1>1, ClientInvCorrect, PTL

\* However often the client is reset and whatever fails, the only context
\* that is allocated is that of the client.
THEOREM ContextsAlwaysFreed == Spec => []ContextsFreed
<1>1. ClientInv => ContextsFreed
  BY DEF ClientInv, ContextInv, Owned, ContextsFreed
<1> QED
  BY <1>1, ClientInvCorrect, PTL

\* Memory that was freed is used only after an Init that failed.
THEOREM AlwaysSafeUnlessInitFails == Spec => []SafeUnlessInitFails
<1>1. ClientInv => SafeUnlessInitFails
  BY DEF ClientInv, ContextInv
<1> QED
  BY <1>1, ClientInvCorrect, PTL
-----------------------------------------------------------------------------
(* The refinement: what users see of an object *)

LEMMA ViewTyped ==
  ASSUME ClientInv, NEW o \in Objects
  PROVE  /\ ~Opened(o) => View(o) = Null
         /\ Opened(o) =>
              /\ View(o) \in Views /\ View(o) # Null
              /\ View(o).document = object[o].document
              /\ View(o).document = table[object[o].number].document
              /\ View(o).unread = table[object[o].number].unread
              /\ View(o).lost = ~Valid(o)
              /\ Valid(o) = table[object[o].number].open
              /\ table[object[o].number] # Null
<1>1. ~Opened(o) => View(o) = Null
  BY DEF View
<1>2. ASSUME Opened(o)
      PROVE  /\ View(o) = [document |-> object[o].document,
                           unread |-> table[object[o].number].unread, lost |-> ~Valid(o)]
             /\ table[object[o].number] \in Descriptors
             /\ table[object[o].number] # Null
             /\ table[object[o].number].document = object[o].document
  BY <1>2, OpenedTyped DEF ClientInv, NumbersInv, NumbersStandForDocuments, View, Unread, TypeOK
<1>3. ASSUME Opened(o)
      PROVE  View(o) \in Views /\ Valid(o) = table[object[o].number].open
  <2>1. /\ object[o].document \in Documents /\ table[object[o].number].unread \in SUBSET Entries
        /\ table[object[o].number].open \in BOOLEAN
    BY <1>2, <1>3, OpenedTyped DEF ClientInv, Handles, Descriptors
  <2>2. Valid(o) = table[object[o].number].open
    BY <1>2, <1>3, <2>1 DEF Valid
  <2>3. [document |-> object[o].document, unread |-> table[object[o].number].unread,
         lost |-> ~Valid(o)] \in Views
    BY <2>1, <2>2 DEF Views
  <2> QED
    BY <1>2, <1>3, <2>2, <2>3
<1> QED
  BY <1>1, <1>2, <1>3, NativeClientAssumption

\* Where neither the object nor its descriptor changes, its view does not.
LEMMA ViewKept ==
  ASSUME ClientInv, ClientInv', NEW o \in Objects, object'[o] = object[o],
         Opened(o) => table'[object[o].number] = table[object[o].number]
  PROVE  View(o)' = View(o)
BY DEF View, Opened, Unread, Valid

LEMMA ViewsKept ==
  ASSUME UNCHANGED <<object, table>>
  PROVE  [o \in Objects |-> View(o)]' = [o \in Objects |-> View(o)]
BY DEF View, Opened, Unread, Valid

LEMMA ViewLost ==
  ASSUME NEW v \in Views
  PROVE  [v EXCEPT !.lost = TRUE]
           = [document |-> v.document, unread |-> v.unread, lost |-> TRUE]
<1> DEFINE U == SUBSET Entries
           B == BOOLEAN
           l == TRUE
<1>1. v \in [document : Documents, unread : U, lost : B] /\ l \in B
  BY DEF Views
<1> HIDE DEF U, B, l
<1>2. [v EXCEPT !.lost = l] = [document |-> v.document, unread |-> v.unread, lost |-> l]
  BY <1>1
<1> QED
  BY <1>2 DEF l

LEMMA ViewRead ==
  ASSUME NEW v \in Views, NEW x \in SUBSET Entries
  PROVE  [v EXCEPT !.unread = x]
           = [document |-> v.document, unread |-> x, lost |-> v.lost]
<1> DEFINE U == SUBSET Entries
           B == BOOLEAN
<1>1. v \in [document : Documents, unread : U, lost : B] /\ x \in U
  BY DEF Views
<1> HIDE DEF U, B
<1> QED
  BY <1>1

LEMMA FailureIsFail ==
  ASSUME UNCHANGED <<object, table>>, answer'.object = Null
  PROVE  OD!Fail
<1>1. Reached' = Null
  BY DEF Reached
<1> QED
  BY <1>1, ViewsKept DEF OD!Fail

LEMMA ThrownAnswers ==
  /\ NoAnswer.object = Null
  /\ \A e : Answer(Null, Null, e).object = Null
  /\ \A o, d : Answer(o, d, "none").object = o /\ Answer(o, d, "none").reached = d
BY DEF NoAnswer, Answer

LEMMA StutterIsStutter ==
  ASSUME UNCHANGED <<object, table, answer>>
  PROVE  UNCHANGED OD!vars
BY ViewsKept DEF OD!vars, Reached

LEMMA ResetIsReset ==
  ASSUME ClientInv, ClientInv', Reset
  PROVE  OD!Reset \/ UNCHANGED OD!vars
<1>1. CASE ExitToAvoidLeak
  BY <1>1, StutterIsStutter DEF ExitToAvoidLeak
<1>2. CASE InitSucceeds \/ NewContextFails \/ InitContextFails
  <2>1. table' = Lost /\ UNCHANGED object /\ answer' = NoAnswer
    BY <1>2 DEF InitSucceeds, NewContextFails, InitContextFails
  <2>2. Reached' = Null
    BY <2>1, ThrownAnswers DEF Reached
  <2>3. ASSUME NEW o \in Objects
        PROVE  View(o)' = IF View(o) = Null THEN Null ELSE [View(o) EXCEPT !.lost = TRUE]
    <3>1. CASE ~Opened(o)
      BY <2>1, <3>1, ViewTyped DEF View, Opened
    <3>2. CASE Opened(o)
      <4>1. /\ Opened(o)' /\ object[o].number \in Numbers
            /\ object'[o] = object[o] /\ table'[object[o].number] = Lost[object[o].number]
        BY <2>1, <3>2, OpenedTyped DEF Opened, ClientInv
      <4>2. /\ Lost[object[o].number] # Null /\ ~Lost[object[o].number].open
            /\ Lost[object[o].number].unread = table[object[o].number].unread
        BY <3>2, <4>1, ViewTyped, LostTyped DEF ClientInv
      <4>3. View(o)' = [document |-> object[o].document,
                        unread |-> table[object[o].number].unread, lost |-> TRUE]
        BY <4>1, <4>2 DEF View, Unread, Valid
      <4>4. /\ View(o) # Null
            /\ View(o) = [document |-> object[o].document,
                          unread |-> table[object[o].number].unread, lost |-> ~Valid(o)]
        BY <3>2, ViewTyped DEF View, Unread
      <4>5. [View(o) EXCEPT !.lost = TRUE]
              = [document |-> object[o].document, unread |-> table[object[o].number].unread,
                 lost |-> TRUE]
        BY <3>2, ViewTyped, ViewLost
      <4> QED
        BY <4>3, <4>4, <4>5
    <3> QED
      BY <3>1, <3>2
  <2> QED
    BY <2>2, <2>3 DEF OD!Reset
<1> QED
  BY <1>1, <1>2 DEF Reset

LEMMA PathCallIsFail ==
  ASSUME PathCall PROVE OD!Fail \/ UNCHANGED OD!vars
<1>1. CASE UnlinkFails
  BY <1>1, StutterIsStutter DEF UnlinkFails
<1>2. CASE ~UnlinkFails
  <2>1. UNCHANGED <<object, table>> /\ answer'.object = Null
    BY <1>2, ThrownAnswers DEF PathCall, Uninitialised, PathCallSucceeds, PathCallFails, Throw
  <2> QED
    BY <2>1, FailureIsFail
<1> QED
  BY <1>1, <1>2

LEMMA OpenIsOpen ==
  ASSUME ClientInv, ClientInv', NEW o \in Objects, NEW d \in Documents, Open(o, d)
  PROVE  OD!Open(o, d)
<1>1. PICK n \in Numbers :
        /\ table[n] = Null
        /\ table' = [table EXCEPT ![n] = Descriptor(d)]
        /\ object' = [object EXCEPT ![o] = [number |-> n, document |-> d]]
  BY DEF Open
<1>2. /\ Descriptor(d).open = TRUE /\ Descriptor(d).unread = Entries
      /\ Descriptor(d) \in Descriptors
      /\ Null \notin Descriptors /\ Null \notin Numbers /\ Null \notin Handles
      /\ [number |-> n, document |-> d] \in Handles
  BY NativeClientAssumption DEF Descriptor, Descriptors, Handles
<1>3. View(o) = Null
  BY ViewTyped DEF Open, Opened
<1>4. View(o)' = OD!Document(d)
  <2>1. /\ object'[o] = [number |-> n, document |-> d] /\ table'[n] = Descriptor(d)
    BY <1>1 DEF ClientInv, TypeOK
  <2>2. /\ Opened(o)' /\ Valid(o)' /\ Unread(o)' = Entries /\ object'[o].document = d
    BY <2>1, <1>2 DEF Opened, Unread, Valid
  <2> QED
    BY <2>2 DEF View, OD!Document
<1>5. ASSUME NEW p \in Objects, p # o PROVE View(p)' = View(p)
  <2>1. object'[p] = object[p]
    BY <1>1, <1>5 DEF ClientInv, TypeOK
  <2>2. Opened(p) => table'[object[p].number] = table[object[p].number]
    BY <1>1, ViewTyped, OpenedTyped DEF ClientInv, TypeOK
  <2> QED
    BY <2>1, <2>2, ViewKept
<1>6. Reached' = Null
  BY ThrownAnswers DEF Reached, Open
<1> QED
  BY <1>3, <1>4, <1>5, <1>6 DEF OD!Open

LEMMA UseIsUse ==
  ASSUME ClientInv, NEW o \in Objects, Use(o)
  PROVE  OD!Use(o)
<1>1. Opened(o) /\ Valid(o)
  BY DEF Use, Valid
<1>2. Reached' = [object |-> o, document |-> View(o).document]
  <2>1. answer'.object = o /\ answer'.reached = View(o).document
    BY <1>1, ViewTyped, ThrownAnswers DEF Use
  <2> QED
    BY <2>1, NativeClientAssumption DEF Reached
<1>3. OD!Usable(o)
  BY <1>1, ViewTyped DEF OD!Usable
<1>4. [p \in Objects |-> View(p)]' = [p \in Objects |-> View(p)]
  BY ViewsKept DEF Use
<1> QED
  BY <1>2, <1>3, <1>4 DEF OD!Use

LEMMA ReadDirIsRead ==
  ASSUME ClientInv, ClientInv', NEW o \in Objects, NEW e \in Entries, ReadDir(o, e)
  PROVE  OD!Read(o, e)
<1> DEFINE n == object[o].number
<1>1. /\ Opened(o) /\ Valid(o) /\ n \in Numbers
      /\ table[n] \in Descriptors /\ table[n] # Null /\ table[n].open
      /\ table' = [table EXCEPT ![n].unread = table[n].unread \ {e}] /\ UNCHANGED object
  BY OpenedTyped DEF ReadDir, Valid, ClientInv, TypeOK
<1>2. Reached' = [object |-> o, document |-> View(o).document]
  <2>1. answer'.object = o /\ answer'.reached = View(o).document
    BY <1>1, ViewTyped, ThrownAnswers DEF ReadDir
  <2> QED
    BY <2>1, NativeClientAssumption DEF Reached
<1>3. OD!Usable(o) /\ e \in View(o).unread
  BY <1>1, ViewTyped DEF OD!Usable, ReadDir
<1>4. View(o)' = [View(o) EXCEPT !.unread = View(o).unread \ {e}]
  <2>1. View(o) = [document |-> object[o].document, unread |-> table[n].unread, lost |-> FALSE]
    BY <1>1 DEF View, Unread
  <2>2. /\ table'[n].open /\ table'[n].unread = table[n].unread \ {e} /\ Opened(o)'
        /\ table'[n] # Null /\ object'[o].number = n
    <3>1. Opened(o)' /\ object'[o].number = n
      BY <1>1 DEF Opened
    <3>2. table'[n] = [table[n] EXCEPT !.unread = table[n].unread \ {e}]
      BY <1>1 DEF ClientInv, TypeOK
    <3>3. table'[n] # Null
      BY <3>1 DEF ClientInv, NumbersInv, NumbersStandForDocuments
    <3> QED
      BY <1>1, <3>1, <3>2, <3>3 DEF Descriptors
  <2>3. View(o)' = [document |-> object[o].document, unread |-> table[n].unread \ {e},
                    lost |-> FALSE]
    BY <1>1, <2>2 DEF View, Unread, Valid
  <2>4. [View(o) EXCEPT !.unread = View(o).unread \ {e}]
          = [document |-> View(o).document, unread |-> View(o).unread \ {e}, lost |-> View(o).lost]
    <3>1. View(o) \in Views /\ View(o).unread \ {e} \in SUBSET Entries
      BY <1>1, ViewTyped DEF Views
    <3> QED
      BY <3>1, ViewRead
  <2>5. View(o).document = object[o].document /\ View(o).unread = table[n].unread /\ View(o).lost = FALSE
    BY <1>1, ViewTyped
  <2> QED
    BY <2>3, <2>4, <2>5
<1>5. ASSUME NEW p \in Objects, p # o PROVE View(p)' = View(p)
  <2>1. Opened(p) => object[p].number # n
    BY <1>1, <1>5 DEF ClientInv, NumbersInv, NumbersExclusive
  <2>2. Opened(p) => table'[object[p].number] = table[object[p].number]
    BY <1>1, <2>1, OpenedTyped DEF ClientInv, TypeOK
  <2> QED
    BY <1>1, <2>2, ViewKept
<1> QED
  BY <1>2, <1>3, <1>4, <1>5 DEF OD!Read

LEMMA CloseIsClose ==
  ASSUME ClientInv, ClientInv', NEW o \in Objects, Close(o)
  PROVE  OD!Close(o)
<1>1. object[o] \in Handles /\ object' = [object EXCEPT ![o].number = Null]
  BY DEF Close, Callable, ClientInv, TypeOK
<1>2. View(o)' = Null
  <2>1. ~Opened(o)'
    BY <1>1 DEF Opened, ClientInv, TypeOK, Handles
  <2> QED
    BY <2>1 DEF View
<1>3. ASSUME NEW p \in Objects, p # o PROVE View(p)' = View(p)
  <2>1. object'[p] = object[p]
    BY <1>1, <1>3 DEF ClientInv, TypeOK
  <2>2. Opened(p) /\ Opened(o) => object[p].number # object[o].number
    BY <1>3 DEF ClientInv, NumbersInv, NumbersExclusive
  <2>3. Opened(p) => table'[object[p].number] = table[object[p].number]
    BY <2>2, OpenedTyped DEF Close, ClientInv, TypeOK
  <2> QED
    BY <2>1, <2>3, ViewKept
<1>4. Reached' = Null
  BY ThrownAnswers DEF Reached, Close, Throw
<1> QED
  BY <1>2, <1>3, <1>4 DEF OD!Close

LEMMA ReadDirEndsIsEnd ==
  ASSUME ClientInv, NEW o \in Objects, ReadDirEnds(o)
  PROVE  OD!End(o)
<1>1. OD!Usable(o) => View(o).unread = {}
  BY ViewTyped DEF OD!Usable, ReadDirEnds
<1>2. OD!Fail
  BY FailureIsFail, ThrownAnswers DEF ReadDirEnds
<1> QED
  BY <1>1, <1>2 DEF OD!Fail, OD!End

LEMMA DropIsFail ==
  ASSUME ClientInv, ClientInv', NEW o \in Objects, Drop(o)
  PROVE  OD!Fail
<1>1. View(o) = Null /\ View(o)' = Null
  BY DEF Drop, View, Opened, ClientInv, TypeOK
<1>2. \A p \in Objects \ {o} : View(p)' = View(p)
  <2>1. \A p \in Objects \ {o} : object'[p] = object[p]
    BY DEF Drop, ClientInv, TypeOK
  <2> QED
    BY <2>1, ViewKept DEF Drop
<1>3. Reached' = Null
  BY ThrownAnswers DEF Reached, Drop
<1> QED
  BY <1>1, <1>2, <1>3 DEF OD!Fail

LEMMA ObjectCallImplements ==
  ASSUME ClientInv, ClientInv', NEW o \in Objects, ObjectCall(o)
  PROVE  OD!Next
<1>1. UseFails(o) \/ SeekInPlace(o) => OD!Fail
  BY FailureIsFail, ThrownAnswers DEF UseFails, SeekInPlace, Throw
<1> QED
  BY <1>1, OpenIsOpen, UseIsUse, ReadDirIsRead, CloseIsClose, ReadDirEndsIsEnd, DropIsFail
  DEF ObjectCall, OD!Next

\* SmbFile and SmbDir objects keep what OpenDocuments promises, for any number
\* of them and of resets.
THEOREM OpenDocumentsImplemented == Spec => ImplementsOpenDocuments
<1>1. Init => OD!Init
  <2> SUFFICES ASSUME Init PROVE OD!Init
    OBVIOUS
  <2>1. \A o \in Objects : View(o) = Null
    BY DEF Init, View, Opened
  <2>2. Reached = Null
    BY ThrownAnswers DEF Init, Reached
  <2> QED
    BY <2>1, <2>2 DEF OD!Init
<1>2. ClientInv /\ ClientInv' /\ [Next]_vars => [OD!Next]_(OD!vars)
  <2> SUFFICES ASSUME ClientInv, ClientInv', [Next]_vars
               PROVE  OD!Next \/ UNCHANGED OD!vars
    OBVIOUS
  <2>1. CASE UNCHANGED vars
    BY <2>1, StutterIsStutter DEF vars
  <2>2. CASE Reset \/ PathCall
    BY <2>2, ResetIsReset, PathCallIsFail DEF OD!Next
  <2>3. ASSUME NEW op \in {"openFile", "openDir"}, NEW err \in Errors, OpenFails(op, err)
        PROVE  OD!Next
    BY <2>3, FailureIsFail, ThrownAnswers DEF OpenFails, Throw, OD!Next
  <2>4. CASE UseFreedContext
    BY <2>4, StutterIsStutter DEF UseFreedContext
  <2> QED
    BY <2>1, <2>2, <2>3, <2>4, ObjectCallImplements DEF Next
<1> QED
  BY <1>1, <1>2, ClientInvCorrect, PTL DEF Spec, OD!Spec, ImplementsOpenDocuments
=============================================================================
