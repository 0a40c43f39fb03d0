---------------------- MODULE SambaMessageLooperProofs ----------------------
(***************************************************************************)
(* Proofs about SambaMessageLooper, for any set of threads, any pool size  *)
(* and any number of spurious wakeups unless a theorem says otherwise.     *)
(***************************************************************************)
EXTENDS SambaMessageLooper, TLAPS

USE SmbOperationsAssumption, SambaMessageLooperAssumption

-----------------------------------------------------------------------------
(***************************************************************************)
(* Types.  A thread in a call holds a MessageValues, and the looper        *)
(* handles a message exactly between Dispatch and NotifyAndLeave.          *)
(***************************************************************************)
Holding ==
  /\ \A c \in Clients : pc[c] # "idle" => mv[c] \in Values /\ op[c] \in Operations
  /\ lpc \in {"dispatched", "entered", "processed"} => current \in Messages

TypeInv == TypeOK /\ Holding

LEMMA NextNumber ==
  ASSUME NEW n \in CallNumber
  PROVE  (n + 1) % CallNumbers \in CallNumber
BY DEF CallNumber

LEMMA OutcomeTypes ==
  ASSUME NEW o \in Operations, NEW t \in Calls, NEW a \in Outcomes(o, t)
  PROVE  a \in Objects \cup Thrown \cup {Null}
BY DEF Outcomes, Operations, Result, Exception, Objects, Thrown

LEMMA TypeInvInit == Init => TypeInv
<1> SUFFICES ASSUME Init PROVE TypeInv
    OBVIOUS
<1> USE DEF Init, PCs, LPCs
<1>1. 0 \in CallNumber /\ 0 \in 0..SpuriousWakeups
  BY DEF CallNumber
<1>2. queue \in Seq(Messages)
  OBVIOUS
<1>3. TypeOK
  BY <1>1, <1>2 DEF TypeOK
<1>4. Holding
  BY DEF Holding
<1> QED BY <1>3, <1>4 DEF TypeInv

LEMMA TypeInvNext == TypeInv /\ [Next]_vars => TypeInv'
<1> SUFFICES ASSUME TypeInv, [Next]_vars PROVE TypeInv'
    OBVIOUS
<1> USE DEF TypeInv, TypeOK, Holding, clientVars, valueVars, looperVars,
            startVars, historyVars, PCs, LPCs
<1>1. CASE UNCHANGED vars
  BY <1>1 DEF vars
<1>2. CASE LooperStep
  <2>1. CASE Prepare
    BY <2>1 DEF Prepare
  <2>2. CASE Loop
    BY <2>2 DEF Loop
  <2>3. CASE Dispatch
    <3>1. Head(queue) \in Messages /\ Tail(queue) \in Seq(Messages)
      BY <2>3 DEF Dispatch
    <3> QED BY <2>3, <3>1 DEF Dispatch
  <2>4. CASE LooperEnter
    BY <2>4 DEF LooperEnter, Messages
  <2>5. CASE ProcessMessage
    BY <2>5, OutcomeTypes DEF ProcessMessage, Messages, Calls
  <2>6. CASE NotifyAndLeave
    BY <2>6 DEF NotifyAndLeave, Messages
  <2> QED BY <1>2, <2>1, <2>2, <2>3, <2>4, <2>5, <2>6 DEF LooperStep
<1>3. CASE Connect
  BY <1>3 DEF Connect
<1>4. ASSUME NEW c \in Clients, NEW o \in Operations, Obtain(c, o)
      PROVE  TypeInv'
  BY <1>4, NextNumber DEF Obtain, Unreferenced, Argument, Objects, Calls
<1>5. ASSUME NEW c \in Clients, WakeSpuriously(c)
      PROVE  TypeInv'
  BY <1>5 DEF WakeSpuriously
<1>6. ASSUME NEW c \in Clients, CallStep(c)
      PROVE  TypeInv'
  <2>1. CASE Enter(c)
    BY <2>1 DEF Enter
  <2>2. CASE Send(c)
    BY <2>2 DEF Send, Messages, ThisCall, Calls
  <2>3. CASE Wait(c)
    BY <2>3 DEF Wait
  <2>4. CASE Resume(c)
    BY <2>4 DEF Resume
  <2>5. CASE Return(c)
    BY <2>5 DEF Return, Seen
  <2>6. CASE Clear(c)
    BY <2>6 DEF Clear
  <2>7. CASE Release(c)
    BY <2>7 DEF Release
  <2> QED BY <1>6, <2>1, <2>2, <2>3, <2>4, <2>5, <2>6, <2>7 DEF CallStep
<1> QED BY <1>1, <1>2, <1>3, <1>4, <1>5, <1>6 DEF Next

\* In every reachable state every variable has its type: no thread is ever in
\* a step of BaseClient.enqueue without a MessageValues of its own.
THEOREM TypeInvCorrect == Spec => []TypeInv
<1> QED BY TypeInvInit, TypeInvNext, PTL DEF Spec

\* In particular the outcomes, the queue and the pool hold what they should:
\* an exception never ends up where a result is read from.
THEOREM TypeCorrect == Spec => []TypeOK
<1>1. TypeInv => TypeOK
  BY DEF TypeInv
<1> QED BY TypeInvCorrect, <1>1, PTL

-----------------------------------------------------------------------------
(***************************************************************************)
(* Who may use a MessageValues, and who is in its monitor.                 *)
(***************************************************************************)
\* Only a thread in a call holds one, and nobody else uses it.
Exclusive ==
  /\ \A c \in Clients : pc[c] = "idle" => mv[c] = Null
  /\ ValuesExclusive

\* Threads in wait() are waiting on the object of their own call.
WaitersHold ==
  \A v \in Values : \A c \in waiters[v] : mv[c] = v /\ pc[c] = "waiting"

\* A monitor is taken by its holder between synchronized and wait, or by the
\* looper handling a message that refers to it.
MonitorHeld ==
  /\ \A c \in Clients : pc[c] \in {"entered", "sent"} => monitor[mv[c]] = c
  /\ lpc \in {"entered", "processed"} => monitor[current.obj] = Looper
  /\ lpc \in {"new", "prepared", "looping"} => current = Null

\* A thread that has sent its message, or waits to be notified, can count on
\* the message still being there.
Awaited ==
  \A c \in Clients :
    pc[c] = "sent" \/ (pc[c] = "waiting" /\ c \in waiters[mv[c]]) => Pending(c)

SharingInv == Exclusive /\ WaitersHold /\ MonitorHeld /\ Awaited

LEMMA SharingInit == Init => SharingInv
BY DEF Init, SharingInv, Exclusive, ValuesExclusive, WaitersHold, MonitorHeld, Awaited

LEMMA ExclusiveNext ==
  ASSUME TypeInv, Exclusive, [Next]_vars
  PROVE  Exclusive'
<1> USE DEF Exclusive, ValuesExclusive, TypeInv, TypeOK, Holding, clientVars,
            valueVars
<1>1. CASE UNCHANGED vars
  BY <1>1 DEF vars
<1>2. CASE LooperStep
  BY <1>2 DEF LooperStep, Prepare, Loop, Dispatch, LooperEnter, ProcessMessage,
              NotifyAndLeave
<1>3. CASE Connect
  BY <1>3 DEF Connect
<1>4. ASSUME NEW c \in Clients, NEW o \in Operations, Obtain(c, o)
      PROVE  Exclusive'
  <2> PICK v \in (IF pool = {} THEN Unreferenced ELSE pool) :
        pool' = pool \ {v} /\ mv' = [mv EXCEPT ![c] = v]
    BY <1>4 DEF Obtain
  <2>1. \A d \in Clients : mv[d] # v
    BY DEF Unreferenced
  <2> QED BY <1>4, <2>1 DEF Obtain, Unreferenced
<1>5. ASSUME NEW c \in Clients, WakeSpuriously(c)
      PROVE  Exclusive'
  BY <1>5 DEF WakeSpuriously
<1>6. ASSUME NEW c \in Clients, CallStep(c)
      PROVE  Exclusive'
  <2>1. CASE Release(c)
    BY <2>1 DEF Release
  <2>2. CASE ~Release(c)
    BY <1>6, <2>2 DEF CallStep, Enter, Send, Wait, Resume, Return, Clear
  <2> QED BY <2>1, <2>2
<1> QED BY <1>1, <1>2, <1>3, <1>4, <1>5, <1>6 DEF Next

LEMMA WaitersHoldNext ==
  ASSUME TypeInv, Exclusive, WaitersHold, [Next]_vars
  PROVE  WaitersHold'
<1> USE DEF WaitersHold, Exclusive, ValuesExclusive, TypeInv, TypeOK, Holding,
            clientVars, valueVars, PCs
<1>1. CASE UNCHANGED vars
  BY <1>1 DEF vars
<1>2. CASE LooperStep
  <2>1. CASE NotifyAndLeave
    BY <2>1 DEF NotifyAndLeave, Messages
  <2>2. CASE ~NotifyAndLeave
    BY <1>2, <2>2 DEF LooperStep, Prepare, Loop, Dispatch, LooperEnter, ProcessMessage
  <2> QED BY <2>1, <2>2
<1>3. CASE Connect
  BY <1>3 DEF Connect
<1>4. ASSUME NEW c \in Clients, NEW o \in Operations, Obtain(c, o)
      PROVE  WaitersHold'
  BY <1>4 DEF Obtain
<1>5. ASSUME NEW c \in Clients, WakeSpuriously(c)
      PROVE  WaitersHold'
  BY <1>5 DEF WakeSpuriously
<1>6. ASSUME NEW c \in Clients, CallStep(c)
      PROVE  WaitersHold'
  <2>1. CASE Wait(c)
    BY <2>1 DEF Wait
  <2>2. CASE Release(c)
    BY <2>2 DEF Release
  <2>3. CASE Enter(c) \/ Send(c) \/ Resume(c) \/ Return(c) \/ Clear(c)
    BY <2>3 DEF Enter, Send, Resume, Return, Clear
  <2> QED BY <1>6, <2>1, <2>2, <2>3 DEF CallStep
<1> QED BY <1>1, <1>2, <1>3, <1>4, <1>5, <1>6 DEF Next

LEMMA MonitorHeldNext ==
  ASSUME TypeInv, Exclusive, MonitorHeld, [Next]_vars
  PROVE  MonitorHeld'
<1> USE DEF MonitorHeld, Exclusive, ValuesExclusive, TypeInv, TypeOK, Holding,
            clientVars, valueVars, looperVars, PCs, LPCs, Messages
<1>1. CASE UNCHANGED vars
  BY <1>1 DEF vars
<1>2. CASE LooperStep
  <2>1. CASE Prepare \/ Loop \/ Dispatch
    BY <2>1 DEF Prepare, Loop, Dispatch
  <2>2. CASE LooperEnter
    BY <2>2 DEF LooperEnter
  <2>3. CASE ProcessMessage
    BY <2>3 DEF ProcessMessage
  <2>4. CASE NotifyAndLeave
    BY <2>4 DEF NotifyAndLeave
  <2> QED BY <1>2, <2>1, <2>2, <2>3, <2>4 DEF LooperStep
<1>3. CASE Connect
  BY <1>3 DEF Connect
<1>4. ASSUME NEW c \in Clients, NEW o \in Operations, Obtain(c, o)
      PROVE  MonitorHeld'
  BY <1>4 DEF Obtain
<1>5. ASSUME NEW c \in Clients, WakeSpuriously(c)
      PROVE  MonitorHeld'
  BY <1>5 DEF WakeSpuriously
<1>6. ASSUME NEW c \in Clients, CallStep(c)
      PROVE  MonitorHeld'
  <2>1. CASE Enter(c)
    BY <2>1 DEF Enter
  <2>2. CASE Wait(c)
    BY <2>2 DEF Wait
  <2>3. CASE Send(c) \/ Resume(c) \/ Return(c) \/ Clear(c)
    BY <2>3 DEF Send, Resume, Return, Clear
  <2>4. CASE Release(c)
    BY <2>4 DEF Release
  <2> QED BY <1>6, <2>1, <2>2, <2>3, <2>4 DEF CallStep
<1> QED BY <1>1, <1>2, <1>3, <1>4, <1>5, <1>6 DEF Next

LEMMA AwaitedNext ==
  ASSUME TypeInv, SharingInv, [Next]_vars
  PROVE  Awaited'
<1> USE DEF TypeInv, TypeOK, Holding, SharingInv, Exclusive, ValuesExclusive,
            WaitersHold, MonitorHeld, clientVars, valueVars, looperVars, PCs, LPCs
<1> DEFINE W(c) == pc[c] = "sent" \/ (pc[c] = "waiting" /\ c \in waiters[mv[c]])
<1> SUFFICES ASSUME NEW d \in Clients, W(d)' PROVE Pending(d)'
  BY DEF Awaited
<1>0. W(d) => Pending(d)
  BY DEF Awaited
<1>1. CASE UNCHANGED vars
  BY <1>0, <1>1 DEF vars, Pending, ThisCall
<1>2. CASE LooperStep
  <2>1. CASE Prepare \/ Loop \/ LooperEnter \/ ProcessMessage
    BY <1>0, <2>1 DEF Prepare, Loop, LooperEnter, ProcessMessage, Pending, ThisCall
  <2>2. CASE Dispatch
    <3>1. W(d) /\ mv' = mv /\ number' = number /\ lpc = "looping" /\ queue # <<>>
          /\ current' = Head(queue) /\ queue' = Tail(queue)
      BY <2>2 DEF Dispatch
    <3>2. PICK i \in DOMAIN queue : queue[i].obj = mv[d] /\ queue[i].call = ThisCall(d)
      BY <1>0, <3>1 DEF Pending
    <3>3. CASE i = 1
      <4>1. current' = queue[1]
        BY <3>1
      <4>2. current' \in Messages
        BY <3>1
      <4> QED BY <3>1, <3>2, <3>3, <4>1, <4>2 DEF Pending, ThisCall, Messages
    <3>4. CASE i # 1
      <4>1. i - 1 \in DOMAIN queue' /\ queue'[i - 1] = queue[i]
        BY <3>1, <3>4
      <4> QED BY <3>1, <3>2, <4>1 DEF Pending, ThisCall
    <3> QED BY <3>3, <3>4
  <2>3. CASE NotifyAndLeave
    <3>1. W(d)
      <4>1. pc' = pc /\ mv' = mv /\ current.obj \in Values
        BY <2>3 DEF NotifyAndLeave, Messages
      <4>2. \A v \in Values : waiters'[v] \subseteq waiters[v]
        BY <2>3, <4>1 DEF NotifyAndLeave
      <4>3. pc[d] # "idle" => mv[d] \in Values
        OBVIOUS
      <4> QED BY <4>1, <4>2, <4>3
    <3>2. current \in Messages /\ monitor[current.obj] = Looper
      BY <2>3 DEF NotifyAndLeave
    <3>3. current.obj # mv[d]
      <4> SUFFICES ASSUME current.obj = mv[d] PROVE FALSE
        OBVIOUS
      <4>1. CASE pc[d] = "sent"
        BY <3>2, <4>1
      <4>2. CASE pc[d] = "waiting" /\ d \in waiters[mv[d]]
        <5>1. waiters[current.obj] = {d}
          BY <4>2, <3>2 DEF Messages
        <5> QED BY <2>3, <4>2, <5>1, <3>2 DEF NotifyAndLeave, Messages
      <4> QED BY <3>1, <4>1, <4>2
    <3> QED BY <1>0, <3>1, <3>3, <2>3 DEF NotifyAndLeave, Pending, ThisCall
  <2> QED BY <1>2, <2>1, <2>2, <2>3 DEF LooperStep
<1>3. CASE Connect
  BY <1>0, <1>3 DEF Connect, Pending, ThisCall
<1>4. ASSUME NEW c \in Clients, NEW o \in Operations, Obtain(c, o)
      PROVE  Pending(d)'
  <2>1. d # c
    BY <1>4 DEF Obtain
  <2> QED BY <1>0, <1>4, <2>1 DEF Obtain, Pending, ThisCall
<1>5. ASSUME NEW c \in Clients, WakeSpuriously(c)
      PROVE  Pending(d)'
  BY <1>0, <1>5 DEF WakeSpuriously, Pending, ThisCall
<1>6. ASSUME NEW c \in Clients, CallStep(c)
      PROVE  Pending(d)'
  <2>1. CASE Send(c)
    <3>1. queue' = Append(queue, [obj |-> mv[c], what |-> op[c], call |-> ThisCall(c)])
          /\ mv' = mv /\ number' = number /\ current' = current
      BY <2>1 DEF Send
    <3>2. CASE d = c
      <4>1. Len(queue) + 1 \in DOMAIN queue'
            /\ queue'[Len(queue) + 1].obj = mv[d]
            /\ queue'[Len(queue) + 1].call = ThisCall(d)
        BY <3>1, <3>2
      <4> QED BY <3>1, <4>1 DEF Pending, ThisCall
    <3>3. CASE d # c
      <4>1. Pending(d)
        BY <1>0, <2>1, <3>3 DEF Send
      <4>2. \A i \in DOMAIN queue : i \in DOMAIN queue' /\ queue'[i] = queue[i]
        BY <3>1
      <4> QED BY <3>1, <4>1, <4>2 DEF Pending, ThisCall
    <3> QED BY <3>2, <3>3
  <2>2. CASE Wait(c)
    BY <1>0, <2>2 DEF Wait, Pending, ThisCall
  <2>3. CASE Enter(c) \/ Resume(c) \/ Return(c) \/ Clear(c)
    BY <1>0, <2>3 DEF Enter, Resume, Return, Clear, Pending, ThisCall
  <2>4. CASE Release(c)
    <3>1. d # c
      BY <2>4 DEF Release
    <3> QED BY <1>0, <3>1, <2>4 DEF Release, Pending, ThisCall
  <2> QED BY <1>6, <2>1, <2>2, <2>3, <2>4 DEF CallStep
<1> QED BY <1>1, <1>2, <1>3, <1>4, <1>5, <1>6 DEF Next

LEMMA SharingCorrect == Spec => [](TypeInv /\ SharingInv)
<1>1. TypeInv /\ SharingInv /\ [Next]_vars => (TypeInv /\ SharingInv)'
  BY TypeInvNext, ExclusiveNext, WaitersHoldNext, MonitorHeldNext, AwaitedNext
     DEF SharingInv
<1> QED BY TypeInvInit, SharingInit, <1>1, PTL DEF Spec

\* No MessageValues is ever used by two threads, or by one while the pool
\* could hand it to another, however often wait() returns spuriously.
THEOREM ValuesAlwaysExclusive == Spec => []ValuesExclusive
<1>1. SharingInv => ValuesExclusive
  BY DEF SharingInv, Exclusive
<1> QED BY SharingCorrect, <1>1, PTL

\* A thread in wait() always has its message ahead of it: BaseClient.enqueue
\* and handleMessage lose no wakeup.
THEOREM WakeupsNeverLost == Spec => []NoLostWakeup
<1>1. SharingInv => NoLostWakeup
  BY DEF SharingInv, Awaited, NoLostWakeup
<1> QED BY SharingCorrect, <1>1, PTL

-----------------------------------------------------------------------------
(***************************************************************************)
(* What a call returns, when wait() only returns after a notify().  Every  *)
(* message then belongs to the call its sender still waits for.            *)
(***************************************************************************)
Belongs(m) ==
  LET c == m.call.client IN
  /\ m.call = ThisCall(c)
  /\ m.obj = mv[c]
  /\ m.what = op[c]
  /\ pc[c] = "sent" \/ (pc[c] = "waiting" /\ c \in waiters[mv[c]])

MessagesBelong ==
  /\ \A i \in DOMAIN queue : Belongs(queue[i]) /\ answer[queue[i].call.client] = Unanswered
  /\ current # Null =>
       /\ Belongs(current)
       /\ (lpc = "processed") <=> (answer[current.call.client] # Unanswered)

OneMessageEach ==
  /\ \A i, j \in DOMAIN queue :
       i # j => queue[i].call.client # queue[j].call.client
  /\ current # Null =>
       \A i \in DOMAIN queue : queue[i].call.client # current.call.client

FieldsRight(c) ==
  /\ pc[c] # "idle" /\ answer[c] = Unanswered =>
       /\ exc[mv[c]] = Null
       /\ obj[mv[c]] = IF op[c] = "transfer" THEN Argument(ThisCall(c)) ELSE Null
  /\ pc[c] \in {"idle", "obtained", "entered", "sent"} => answer[c] = Unanswered
  /\ pc[c] = "waiting" /\ c \notin waiters[mv[c]] => answer[c] # Unanswered
  /\ pc[c] \in {"resumed", "returning", "cleared"} => answer[c] # Unanswered
  /\ pc[c] \in {"waiting", "resumed"} /\ answer[c] # Unanswered => Seen(c) = answer[c]
  /\ pc[c] \in {"returning", "cleared"} => result[c] = answer[c]
  /\ pc[c] = "cleared" => obj[mv[c]] = Null /\ exc[mv[c]] = Null

AnswerInv ==
  /\ MessagesBelong
  /\ OneMessageEach
  /\ \A c \in Clients : FieldsRight(c)
  /\ PooledValuesClear

LEMMA AnswerInit == Init => AnswerInv
BY DEF Init, AnswerInv, MessagesBelong, OneMessageEach, FieldsRight, PooledValuesClear

\* The handler of a message serves a thread that is in wait().
LEMMA ServedWaits ==
  ASSUME TypeInv, SharingInv, AnswerInv, lpc \in {"entered", "processed"}
  PROVE  LET c == current.call.client IN
         /\ current \in Messages /\ c \in Clients
         /\ current.obj = mv[c] /\ current.what = op[c] /\ current.call = ThisCall(c)
         /\ mv[c] \in Values /\ pc[c] = "waiting" /\ waiters[mv[c]] = {c}
<1> USE DEF TypeInv, TypeOK, Holding
<1>1. current \in Messages /\ current # Null
  OBVIOUS
<1> DEFINE c == current.call.client
<1>2. c \in Clients
  BY <1>1 DEF Messages, Calls
<1>3. Belongs(current)
  BY <1>1 DEF AnswerInv, MessagesBelong
<1>4. pc[c] # "sent"
  BY <1>2, <1>3 DEF SharingInv, MonitorHeld, Belongs
<1>5. mv[c] \in Values /\ pc[c] = "waiting" /\ c \in waiters[mv[c]]
  BY <1>2, <1>3, <1>4 DEF Belongs
<1>6. waiters[mv[c]] = {c}
  BY <1>2, <1>5 DEF SharingInv, WaitersHold, Exclusive, ValuesExclusive
<1> QED BY <1>1, <1>2, <1>3, <1>5, <1>6 DEF Belongs

LEMMA OneMessageNext ==
  ASSUME TypeInv, SharingInv, AnswerInv, [Next]_vars
  PROVE  OneMessageEach'
<1> USE DEF TypeInv, TypeOK, Holding, looperVars
<1>0. OneMessageEach /\ MessagesBelong
  BY DEF AnswerInv
<1>1. CASE UNCHANGED <<queue, current>>
  BY <1>0, <1>1 DEF OneMessageEach
<1>2. CASE Dispatch
  <2>1. /\ current' = queue[1] /\ queue' \in Seq(Messages)
        /\ \A i \in DOMAIN queue' : i + 1 \in DOMAIN queue /\ queue'[i] = queue[i + 1]
    BY <1>2 DEF Dispatch
  <2>2. DOMAIN queue' \subseteq Nat \ {0} /\ 1 \in DOMAIN queue
    BY <1>2, <2>1 DEF Dispatch
  <2>3. ASSUME NEW i \in DOMAIN queue', NEW j \in DOMAIN queue', i # j
        PROVE  queue'[i].call.client # queue'[j].call.client
    <3>1. /\ i + 1 # j + 1 /\ i + 1 \in DOMAIN queue /\ j + 1 \in DOMAIN queue
          /\ queue'[i] = queue[i + 1] /\ queue'[j] = queue[j + 1]
      BY <2>1, <2>2, <2>3
    <3> QED BY <1>0, <3>1 DEF OneMessageEach
  <2>4. ASSUME NEW i \in DOMAIN queue'
        PROVE  queue'[i].call.client # current'.call.client
    <3>1. i + 1 # 1 /\ i + 1 \in DOMAIN queue /\ queue'[i] = queue[i + 1]
      BY <2>1, <2>2
    <3>2. queue[i + 1].call.client # queue[1].call.client
      BY <1>0, <2>2, <3>1 DEF OneMessageEach
    <3> QED BY <2>1, <3>1, <3>2
  <2> QED BY <2>3, <2>4 DEF OneMessageEach
<1>3. CASE NotifyAndLeave
  BY <1>0, <1>3 DEF NotifyAndLeave, OneMessageEach
<1>4. ASSUME NEW c \in Clients, Send(c)
      PROVE  OneMessageEach'
  <2>1. /\ queue' = Append(queue, [obj |-> mv[c], what |-> op[c], call |-> ThisCall(c)])
        /\ current' = current /\ pc[c] = "entered"
    BY <1>4 DEF Send
  <2>2. \A i \in DOMAIN queue : queue[i].call.client # c
    BY <1>0, <2>1 DEF MessagesBelong, Belongs
  <2>3. current # Null => current.call.client # c
    BY <1>0, <2>1 DEF MessagesBelong, Belongs
  <2>4. queue'[Len(queue) + 1].call.client = c
    BY <2>1 DEF ThisCall
  <2>5. \A i \in DOMAIN queue' :
          (i \in DOMAIN queue /\ queue'[i] = queue[i]) \/ i = Len(queue) + 1
    BY <2>1
  <2> QED BY <1>0, <2>1, <2>2, <2>3, <2>4, <2>5 DEF OneMessageEach
<1>5. CASE vars' = vars \/ LooperStep \/ Connect
  BY <1>1, <1>2, <1>3, <1>5 DEF vars, LooperStep, Prepare, Loop, LooperEnter,
     ProcessMessage, Connect
<1>6. ASSUME NEW c \in Clients,
             (\E o \in Operations : Obtain(c, o)) \/ CallStep(c) \/ WakeSpuriously(c)
      PROVE  OneMessageEach'
  BY <1>1, <1>4, <1>6 DEF Obtain, CallStep, WakeSpuriously, Enter, Wait, Resume,
     Return, Clear, Release
<1> QED BY <1>5, <1>6 DEF Next

LEMMA MessagesBelongNext ==
  ASSUME SpuriousWakeups = 0, TypeInv, SharingInv, AnswerInv, [Next]_vars
  PROVE  MessagesBelong'
<1> USE DEF TypeInv, TypeOK, Holding, clientVars, valueVars, looperVars, startVars,
            historyVars
<1>0. /\ MessagesBelong /\ OneMessageEach /\ \A c \in Clients : FieldsRight(c)
      /\ \A i \in DOMAIN queue : queue[i] \in Messages /\ queue[i].call.client \in Clients
      /\ current # Null => current \in Messages /\ current.call.client \in Clients
  <2>1. \A m \in Messages : m.call.client \in Clients
    BY DEF Messages, Calls
  <2>2. \A i \in DOMAIN queue : queue[i] \in Messages
    OBVIOUS
  <2> QED BY <2>1, <2>2 DEF AnswerInv
<1>1. CASE UNCHANGED vars
  BY <1>0, <1>1 DEF vars, MessagesBelong, Belongs, ThisCall
<1>2. CASE LooperStep
  <2>1. CASE Prepare \/ Loop \/ LooperEnter
    BY <1>0, <2>1 DEF Prepare, Loop, LooperEnter, MessagesBelong, Belongs, ThisCall,
       SharingInv, MonitorHeld
  <2>2. CASE Dispatch
    <3>1. /\ current' = queue[1] /\ queue' = Tail(queue) /\ lpc' = "dispatched"
          /\ UNCHANGED <<clientVars, valueVars, historyVars>> /\ 1 \in DOMAIN queue
      BY <2>2 DEF Dispatch
    <3>2. \A i \in DOMAIN queue' : i + 1 \in DOMAIN queue /\ queue'[i] = queue[i + 1]
      BY <3>1
    <3>3. \A i \in DOMAIN queue : \A m : m = queue[i] =>
            Belongs(m)' /\ answer'[m.call.client] = Unanswered
      BY <1>0, <3>1 DEF MessagesBelong, Belongs, ThisCall
    <3>4. ASSUME NEW i \in DOMAIN queue'
          PROVE  Belongs(queue[i])' /\ answer'[queue'[i].call.client] = Unanswered
      BY <3>2, <3>3 DEF Belongs, ThisCall
    <3>5. Belongs(current)' /\ answer'[current'.call.client] = Unanswered
      BY <3>1, <3>3 DEF Belongs, ThisCall
    <3> QED BY <3>1, <3>4, <3>5 DEF MessagesBelong
  <2>3. CASE ProcessMessage
    <3> DEFINE c == current.call.client
    <3>1. /\ current \in Messages /\ c \in Clients /\ current.call = ThisCall(c)
          /\ pc[c] = "waiting" /\ current.what \in Operations /\ current.call \in Calls
      BY <2>3, ServedWaits DEF ProcessMessage, Messages
    <3>2. PICK a \in Objects \cup Thrown \cup {Null} : answer' = [answer EXCEPT ![c] = a]
      BY <2>3, <3>1, OutcomeTypes DEF ProcessMessage, Messages
    <3>3. \A i \in DOMAIN queue : queue[i].call.client # c
      BY <1>0, <3>1 DEF OneMessageEach
    <3>4. UNCHANGED <<clientVars, waiters, queue, current>> /\ lpc' = "processed"
      BY <2>3 DEF ProcessMessage
    <3> QED BY <1>0, <3>1, <3>2, <3>3, <3>4 DEF MessagesBelong, Belongs, ThisCall
  <2>4. CASE NotifyAndLeave
    <3> DEFINE c == current.call.client
    <3>1. /\ c \in Clients /\ mv[c] \in Values /\ pc[c] = "waiting" /\ current \in Messages
          /\ current.obj = mv[c]
      BY <2>4, ServedWaits DEF NotifyAndLeave
    <3>2. \A i \in DOMAIN queue : queue[i].call.client # c
      BY <1>0, <3>1 DEF OneMessageEach
    <3>3. \A v \in Values : v # mv[c] => waiters'[v] = waiters[v]
      BY <2>4, <3>1 DEF NotifyAndLeave
    <3>4. \A i \in DOMAIN queue : LET d == queue[i].call.client IN
            mv[d] \in Values /\ mv[d] # mv[c]
      BY <1>0, <3>1, <3>2
         DEF MessagesBelong, Belongs, SharingInv, Exclusive, ValuesExclusive
    <3>5. UNCHANGED <<clientVars, queue, answer>> /\ current' = Null
      BY <2>4 DEF NotifyAndLeave
    <3> QED BY <1>0, <3>3, <3>4, <3>5 DEF MessagesBelong, Belongs, ThisCall
  <2> QED BY <1>2, <2>1, <2>2, <2>3, <2>4 DEF LooperStep
<1>3. CASE Connect
  BY <1>0, <1>3 DEF Connect, MessagesBelong, Belongs, ThisCall
<1>4. ASSUME NEW c \in Clients, NEW o \in Operations, Obtain(c, o)
      PROVE  MessagesBelong'
  <2>1. \A d \in Clients : d # c =>
          /\ pc'[d] = pc[d] /\ op'[d] = op[d] /\ number'[d] = number[d] /\ mv'[d] = mv[d]
    BY <1>4 DEF Obtain
  <2>2. pc[c] = "idle" /\ UNCHANGED <<waiters, queue, lpc, current, answer>>
    BY <1>4 DEF Obtain
  <2>3. \A m : m.call.client \in Clients /\ Belongs(m) => Belongs(m)'
    BY <2>1, <2>2 DEF Belongs, ThisCall
  <2>4. \A i \in DOMAIN queue' : \A m : m = queue'[i] =>
          Belongs(m)' /\ answer'[m.call.client] = Unanswered
    BY <1>0, <2>2, <2>3 DEF MessagesBelong
  <2>5. ASSUME NEW i \in DOMAIN queue'
        PROVE  Belongs(queue[i])' /\ answer'[queue'[i].call.client] = Unanswered
    BY <2>4 DEF Belongs, ThisCall
  <2>6. \A m : m = current' /\ m # Null =>
          Belongs(m)' /\ ((lpc' = "processed") <=> (answer'[m.call.client] # Unanswered))
    BY <1>0, <2>2, <2>3 DEF MessagesBelong
  <2>7. current' # Null => Belongs(current)'
          /\ ((lpc' = "processed") <=> (answer'[current'.call.client] # Unanswered))
    BY <2>6 DEF Belongs, ThisCall
  <2> QED BY <2>5, <2>7 DEF MessagesBelong
<1>5. ASSUME NEW c \in Clients, WakeSpuriously(c)
      PROVE  MessagesBelong'
  BY <1>5 DEF WakeSpuriously
<1>6. ASSUME NEW c \in Clients, CallStep(c)
      PROVE  MessagesBelong'
  <2>1. CASE Send(c)
    <3> DEFINE m == [obj |-> mv[c], what |-> op[c], call |-> ThisCall(c)]
    <3>1. /\ queue' = Append(queue, m) /\ pc' = [pc EXCEPT ![c] = "sent"]
          /\ UNCHANGED <<op, number, mv, valueVars, lpc, current, historyVars>>
          /\ pc[c] = "entered"
      BY <2>1 DEF Send
    <3>2. \A i \in DOMAIN queue' :
            (i \in DOMAIN queue /\ queue'[i] = queue[i]) \/ queue'[i] = m
      BY <3>1
    <3>3. \A n : n = m => n.call.client = c /\ Belongs(n)' /\ answer'[c] = Unanswered
      BY <1>0, <3>1 DEF Belongs, ThisCall, FieldsRight
    <3>4. \A i \in DOMAIN queue : \A n : n = queue[i] =>
            Belongs(n)' /\ answer'[n.call.client] = Unanswered
      BY <1>0, <3>1 DEF MessagesBelong, Belongs, ThisCall
    <3>5. current' # Null => Belongs(current)'
            /\ ((lpc' = "processed") <=> (answer'[current'.call.client] # Unanswered))
      BY <1>0, <3>1 DEF MessagesBelong, Belongs, ThisCall
    <3>6. ASSUME NEW i \in DOMAIN queue'
          PROVE  Belongs(queue[i])' /\ answer'[queue'[i].call.client] = Unanswered
      <4>1. CASE i \in DOMAIN queue /\ queue'[i] = queue[i]
        BY <3>4, <4>1 DEF Belongs, ThisCall
      <4>2. CASE queue'[i] = m
        <5>1. \A n : n = queue'[i] => Belongs(n)' /\ answer'[n.call.client] = Unanswered
          BY <3>3, <4>2
        <5> QED BY <5>1 DEF Belongs, ThisCall
      <4> QED BY <3>2, <4>1, <4>2
    <3> QED BY <3>5, <3>6 DEF MessagesBelong
  <2>2. CASE Wait(c)
    BY <1>0, <2>2 DEF Wait, MessagesBelong, Belongs, ThisCall
  <2>3. CASE Enter(c) \/ Resume(c) \/ Return(c) \/ Clear(c)
    BY <1>0, <2>3 DEF Enter, Resume, Return, Clear, MessagesBelong, Belongs, ThisCall
  <2>4. CASE Release(c)
    BY <1>0, <2>4 DEF Release, MessagesBelong, Belongs, ThisCall
  <2> QED BY <1>6, <2>1, <2>2, <2>3, <2>4 DEF CallStep
<1> QED BY <1>1, <1>2, <1>3, <1>4, <1>5, <1>6 DEF Next

LEMMA FieldsRightNext ==
  ASSUME SpuriousWakeups = 0, TypeInv, SharingInv, AnswerInv, [Next]_vars,
         NEW d \in Clients
  PROVE  FieldsRight(d)'
<1> USE DEF TypeInv, TypeOK, Holding, clientVars, valueVars, looperVars, startVars,
            historyVars, PCs
<1>0. /\ FieldsRight(d)
      /\ pc[d] # "idle" => mv[d] \in Values /\ op[d] \in Operations
      /\ \A c \in Clients : c # d /\ mv[c] # Null => mv[c] # mv[d]
      /\ \A c \in Clients : mv[c] \notin pool
  BY DEF AnswerInv, SharingInv, Exclusive, ValuesExclusive
<1>1. CASE UNCHANGED vars
  BY <1>0, <1>1 DEF vars, FieldsRight, Seen, ThisCall
<1>2. CASE LooperStep
  <2>1. CASE Prepare \/ Loop \/ LooperEnter \/ Dispatch
    BY <1>0, <2>1 DEF Prepare, Loop, LooperEnter, Dispatch, FieldsRight, Seen, ThisCall
  <2>2. CASE ProcessMessage
    <3> DEFINE c == current.call.client
    <3>1. /\ current \in Messages /\ c \in Clients /\ current.call = ThisCall(c)
          /\ current.obj = mv[c] /\ mv[c] \in Values /\ current.what = op[c]
          /\ pc[c] = "waiting" /\ op[c] \in Operations
      BY <2>2, ServedWaits DEF ProcessMessage
    <3>2. answer[c] = Unanswered
      BY <2>2, <3>1 DEF ProcessMessage, AnswerInv, MessagesBelong
    <3>3. exc[mv[c]] = Null
      BY <3>1, <3>2 DEF AnswerInv, FieldsRight
    <3>4. PICK a \in Outcomes(op[c], ThisCall(c)) :
            /\ obj' = IF a \in Objects THEN [obj EXCEPT ![mv[c]] = a] ELSE obj
            /\ exc' = IF a \in Thrown  THEN [exc EXCEPT ![mv[c]] = a] ELSE exc
            /\ answer' = [answer EXCEPT ![c] = a]
      BY <2>2, <3>1, <3>3 DEF ProcessMessage
    <3>5. UNCHANGED <<clientVars, waiters>>
      BY <2>2 DEF ProcessMessage
    <3>6. CASE d = c
      <4>1. a # Unanswered /\ Seen(d)' = a
        <5>1. ThisCall(c) \in Calls
          BY <3>1 DEF ThisCall, Calls
        <5>2. CASE op[c] \in {"get", "transfer"}
          <6>1. a \in {Result(ThisCall(c)), Exception(ThisCall(c))}
            BY <5>2 DEF Outcomes
          <6>2. Result(ThisCall(c)) \in Objects /\ Exception(ThisCall(c)) \in Thrown
            BY <5>1 DEF Result, Exception, Objects, Thrown
          <6>3. Result(ThisCall(c)) \notin Thrown /\ Exception(ThisCall(c)) \notin Objects
            BY DEF Result, Exception, Objects, Thrown
          <6> QED BY <3>1, <3>3, <3>4, <3>5, <3>6, <5>2, <6>1, <6>2, <6>3 DEF Seen
        <5>3. CASE op[c] = "check"
          <6>1. a \in {Null, Exception(ThisCall(c))}
            BY <5>3 DEF Outcomes
          <6>2. Exception(ThisCall(c)) \in Thrown
            BY <5>1 DEF Exception, Thrown
          <6> QED BY <3>1, <3>3, <3>4, <3>5, <3>6, <5>3, <6>1, <6>2 DEF Seen
        <5>4. CASE op[c] = "ignore"
          <6>1. a = Null
            BY <5>4 DEF Outcomes
          <6> QED BY <3>5, <3>6, <5>4, <6>1 DEF Seen
        <5> QED BY <3>1, <5>2, <5>3, <5>4 DEF Operations
      <4> QED BY <1>0, <3>1, <3>4, <3>5, <3>6, <4>1 DEF FieldsRight
    <3>7. CASE d # c
      <4>1. pc[d] # "idle" => mv[d] # mv[c]
        BY <1>0, <3>1, <3>7
      <4>2. pc[d] # "idle" => obj'[mv[d]] = obj[mv[d]] /\ exc'[mv[d]] = exc[mv[d]]
        BY <1>0, <3>1, <3>4, <4>1
      <4>3. answer'[d] = answer[d]
        BY <3>1, <3>4, <3>7
      <4> QED BY <1>0, <3>5, <4>2, <4>3 DEF FieldsRight, Seen, ThisCall
    <3> QED BY <3>6, <3>7
  <2>3. CASE NotifyAndLeave
    <3> DEFINE c == current.call.client
    <3>1. /\ current \in Messages /\ c \in Clients /\ current.obj = mv[c]
          /\ mv[c] \in Values /\ pc[c] = "waiting"
      BY <2>3, ServedWaits DEF NotifyAndLeave
    <3>2. answer[c] # Unanswered
      BY <2>3, <3>1 DEF NotifyAndLeave, AnswerInv, MessagesBelong
    <3>3. UNCHANGED <<clientVars, obj, exc, answer>>
      BY <2>3 DEF NotifyAndLeave
    <3>4. d # c /\ pc[d] # "idle" => waiters'[mv[d]] = waiters[mv[d]]
      BY <1>0, <2>3, <3>1 DEF NotifyAndLeave
    <3> QED BY <1>0, <3>2, <3>3, <3>4 DEF FieldsRight, Seen, ThisCall
  <2> QED BY <1>2, <2>1, <2>2, <2>3 DEF LooperStep
<1>3. CASE Connect
  BY <1>0, <1>3 DEF Connect, FieldsRight, Seen, ThisCall
<1>4. ASSUME NEW c \in Clients, NEW o \in Operations, Obtain(c, o)
      PROVE  FieldsRight(d)'
  <2>1. PICK v \in (IF pool = {} THEN Unreferenced ELSE pool) :
          /\ mv' = [mv EXCEPT ![c] = v]
          /\ obj' = [obj EXCEPT ![v] =
                      IF o = "transfer"
                      THEN Argument([client |-> c, number |-> number'[c]])
                      ELSE IF v \in pool THEN @ ELSE Null]
          /\ exc' = [exc EXCEPT ![v] = IF v \in pool THEN @ ELSE Null]
    BY <1>4 DEF Obtain
  <2>2. /\ pc[c] = "idle" /\ pc' = [pc EXCEPT ![c] = "obtained"]
        /\ op' = [op EXCEPT ![c] = o]
        /\ number' = [number EXCEPT ![c] = (@ + 1) % CallNumbers]
        /\ UNCHANGED <<result, waiters, answer>>
    BY <1>4 DEF Obtain
  <2>3. v \in Values /\ mv[d] # v
    BY <1>0, <2>1 DEF Unreferenced
  <2>4. CASE d = c
    <3>1. obj'[v] = (IF o = "transfer" THEN Argument(ThisCall(c)') ELSE Null) /\ exc'[v] = Null
      BY <2>1, <2>3 DEF AnswerInv, PooledValuesClear, ThisCall
    <3> QED BY <1>0, <2>1, <2>2, <2>3, <2>4, <3>1 DEF FieldsRight
  <2>5. CASE d # c
    BY <1>0, <2>1, <2>2, <2>3, <2>5 DEF FieldsRight, Seen, ThisCall
  <2> QED BY <2>4, <2>5
<1>5. ASSUME NEW c \in Clients, WakeSpuriously(c)
      PROVE  FieldsRight(d)'
  BY <1>5 DEF WakeSpuriously
<1>6. ASSUME NEW c \in Clients, CallStep(c)
      PROVE  FieldsRight(d)'
  <2>1. CASE Enter(c) \/ Send(c)
    BY <1>0, <2>1 DEF Enter, Send, FieldsRight, Seen, ThisCall
  <2>2. CASE Wait(c)
    BY <1>0, <2>2 DEF Wait, FieldsRight, Seen, ThisCall
  <2>3. CASE Resume(c)
    BY <1>0, <2>3 DEF Resume, FieldsRight, Seen, ThisCall
  <2>4. CASE Return(c)
    BY <1>0, <2>4 DEF Return, FieldsRight, Seen, ThisCall
  <2>5. CASE Clear(c)
    BY <1>0, <2>5 DEF Clear, FieldsRight, Seen, ThisCall
  <2>6. CASE Release(c)
    BY <1>0, <2>6 DEF Release, FieldsRight, Seen, ThisCall
  <2> QED BY <1>6, <2>1, <2>2, <2>3, <2>4, <2>5, <2>6 DEF CallStep
<1> QED BY <1>1, <1>2, <1>3, <1>4, <1>5, <1>6 DEF Next

LEMMA PooledNext ==
  ASSUME SpuriousWakeups = 0, TypeInv, SharingInv, AnswerInv, [Next]_vars
  PROVE  PooledValuesClear'
<1> USE DEF TypeInv, TypeOK, Holding, clientVars, valueVars, looperVars, PooledValuesClear
<1>0. /\ PooledValuesClear /\ \A c \in Clients : mv[c] \notin pool
      /\ \A c \in Clients : pc[c] = "cleared" => obj[mv[c]] = Null /\ exc[mv[c]] = Null
  BY DEF AnswerInv, FieldsRight, SharingInv, Exclusive, ValuesExclusive
<1>1. CASE UNCHANGED <<pool, obj, exc>>
  BY <1>0, <1>1
<1>2. CASE ProcessMessage
  <2>1. current.obj \in Values \ pool
    BY <1>0, <1>2, ServedWaits DEF ProcessMessage
  <2> QED BY <1>0, <1>2, <2>1 DEF ProcessMessage
<1>3. ASSUME NEW c \in Clients, NEW o \in Operations, Obtain(c, o)
      PROVE  PooledValuesClear'
  BY <1>0, <1>3 DEF Obtain
<1>4. ASSUME NEW c \in Clients, Clear(c)
      PROVE  PooledValuesClear'
  BY <1>0, <1>4 DEF Clear
<1>5. ASSUME NEW c \in Clients, Release(c)
      PROVE  PooledValuesClear'
  BY <1>0, <1>5 DEF Release
<1> QED BY <1>1, <1>2, <1>3, <1>4, <1>5 DEF Next, vars, LooperStep, CallStep, Prepare,
       Loop, Dispatch, LooperEnter, NotifyAndLeave, Connect, Enter, Send, Wait,
       Resume, Return, WakeSpuriously

LEMMA AnswerCorrect ==
  ASSUME SpuriousWakeups = 0
  PROVE  Spec => [](TypeInv /\ SharingInv /\ AnswerInv)
<1> DEFINE I == TypeInv /\ SharingInv /\ AnswerInv
<1>1. Init => I
  BY TypeInvInit, SharingInit, AnswerInit
<1>2. I /\ [Next]_vars => I'
  <2> SUFFICES ASSUME TypeInv, SharingInv, AnswerInv, [Next]_vars PROVE I'
      OBVIOUS
  <2>1. TypeInv' /\ SharingInv'
    BY TypeInvNext, ExclusiveNext, WaitersHoldNext, MonitorHeldNext, AwaitedNext
       DEF SharingInv
  <2>2. MessagesBelong' /\ OneMessageEach' /\ PooledValuesClear'
    BY MessagesBelongNext, OneMessageNext, PooledNext
  <2>3. (\A c \in Clients : FieldsRight(c))'
    BY FieldsRightNext
  <2> QED BY <2>1, <2>2, <2>3 DEF AnswerInv
<1> QED BY <1>1, <1>2, PTL DEF Spec

\* As long as wait() only returns after notify(), every call of the facade
\* returns or throws exactly what the looper produced for it.
THEOREM AnswersAlwaysOwn ==
  ASSUME SpuriousWakeups = 0
  PROVE  Spec => []ReturnsOwnAnswer
<1>1. AnswerInv => ReturnsOwnAnswer
  BY DEF AnswerInv, FieldsRight, ReturnsOwnAnswer
<1> QED BY AnswerCorrect, <1>1, PTL

\* Under the same assumption a pooled MessageValues holds nothing of an
\* earlier call.
THEOREM PooledAlwaysClear ==
  ASSUME SpuriousWakeups = 0
  PROVE  Spec => []PooledValuesClear
<1>1. AnswerInv => PooledValuesClear
  BY DEF AnswerInv
<1> QED BY AnswerCorrect, <1>1, PTL

-----------------------------------------------------------------------------
(***************************************************************************)
(* The looper implements SmbService: each step of it is a step of the      *)
(* service or leaves the state of the service alone.                       *)
(***************************************************************************)
LEMMA ServiceInit == Init => Service!Init
BY DEF Init, Service!Init, ServiceState

LEMMA ServiceStep ==
  ASSUME SpuriousWakeups = 0, TypeInv, SharingInv, AnswerInv, [Next]_vars
  PROVE  [Service!Next]_(Service!vars)
<1> USE DEF TypeInv, TypeOK, Holding, clientVars, valueVars, looperVars, startVars,
            historyVars, PCs
<1>0. \A c \in Clients : FieldsRight(c)
  BY DEF AnswerInv
<1> SUFFICES ASSUME ~ UNCHANGED Service!vars PROVE Service!Next
    OBVIOUS
<1>1. CASE UNCHANGED vars
  BY <1>1 DEF vars, Service!vars, ServiceState
<1>2. CASE LooperStep
  <2>1. CASE Prepare \/ Loop \/ LooperEnter \/ Dispatch \/ NotifyAndLeave
    BY <2>1 DEF Prepare, Loop, LooperEnter, Dispatch, NotifyAndLeave, Service!vars,
       ServiceState
  <2>2. CASE ProcessMessage
    <3> DEFINE c == current.call.client
    <3>1. /\ c \in Clients /\ current.call = ThisCall(c) /\ current.obj = mv[c]
          /\ mv[c] \in Values /\ current.what = op[c] /\ pc[c] = "waiting"
          /\ op[c] \in Operations
      BY <2>2, ServedWaits DEF ProcessMessage
    <3>2. answer[c] = Unanswered
      BY <2>2, <3>1 DEF ProcessMessage, AnswerInv, MessagesBelong, Messages
    <3>3. exc[mv[c]] = Null
      BY <1>0, <3>1, <3>2 DEF FieldsRight
    <3>4. PICK a \in Outcomes(op[c], ThisCall(c)) : answer' = [answer EXCEPT ![c] = a]
      BY <2>2, <3>1, <3>3 DEF ProcessMessage
    <3>5. a # Unanswered
      <4>1. ThisCall(c) \in Calls
        BY <3>1 DEF Calls, ThisCall
      <4> QED BY <3>1, <4>1, OutcomeTypes
    <3>6. UNCHANGED clientVars
      BY <2>2 DEF ProcessMessage
    <3>7. ServiceState' = [ServiceState EXCEPT ![c] = "answered"]
      <4>1. \A d \in Clients : pc'[d] = pc[d] /\ (d # c => answer'[d] = answer[d])
        BY <3>4, <3>6
      <4>2. answer'[c] = a
        BY <3>1, <3>4
      <4> QED BY <3>1, <3>2, <3>5, <4>1, <4>2 DEF ServiceState
    <3>8. ServiceState[c] = "called"
      BY <3>1, <3>2 DEF ServiceState
    <3>9. Service!Serve(c)
      <4>1. Service!Outcomes(op[c], [client |-> c, number |-> number[c]])
              = Outcomes(op[c], ThisCall(c))
        BY DEF Service!Outcomes, Outcomes, Service!Result, Result, Service!Exception,
           Exception, ThisCall
      <4> QED BY <3>4, <3>6, <3>7, <3>8, <4>1 DEF Service!Serve
    <3> QED BY <3>1, <3>9 DEF Service!Next
  <2> QED BY <1>2, <2>1, <2>2 DEF LooperStep
<1>3. CASE Connect
  BY <1>3 DEF Connect, Service!vars, ServiceState
<1>4. ASSUME NEW c \in Clients, NEW o \in Operations, Obtain(c, o)
      PROVE  Service!Next
  <2>1. /\ pc[c] = "idle" /\ pc' = [pc EXCEPT ![c] = "obtained"]
        /\ op' = [op EXCEPT ![c] = o]
        /\ number' = [number EXCEPT ![c] = (@ + 1) % CallNumbers]
        /\ UNCHANGED <<result, answer>>
    BY <1>4 DEF Obtain
  <2>2. answer[c] = Unanswered
    BY <1>0, <2>1 DEF FieldsRight
  <2>3. ServiceState[c] = "idle" /\ ServiceState' = [ServiceState EXCEPT ![c] = "called"]
    BY <2>1, <2>2 DEF ServiceState
  <2>4. Service!Invoke(c, o)
    BY <2>1, <2>3 DEF Service!Invoke
  <2> QED BY <2>4 DEF Service!Next, Service!Operations, Operations
<1>5. ASSUME NEW c \in Clients, WakeSpuriously(c)
      PROVE  Service!Next
  BY <1>5 DEF WakeSpuriously
<1>6. ASSUME NEW c \in Clients, CallStep(c)
      PROVE  Service!Next
  <2>1. CASE Return(c)
    <3>1. /\ pc[c] = "resumed" /\ pc' = [pc EXCEPT ![c] = "returning"]
          /\ result' = [result EXCEPT ![c] = Seen(c)]
          /\ UNCHANGED <<op, number, answer>>
      BY <2>1 DEF Return
    <3>2. Seen(c) = answer[c] /\ answer[c] # Unanswered
      BY <1>0, <3>1 DEF FieldsRight
    <3>3. /\ ServiceState[c] = "answered"
          /\ ServiceState' = [ServiceState EXCEPT ![c] = "returned"]
      BY <3>1, <3>2 DEF ServiceState
    <3>4. Service!Return(c)
      BY <3>1, <3>2, <3>3 DEF Service!Return
    <3> QED BY <3>4 DEF Service!Next
  <2>2. CASE Release(c)
    <3>1. /\ pc[c] = "cleared" /\ pc' = [pc EXCEPT ![c] = "idle"]
          /\ op' = [op EXCEPT ![c] = Null] /\ result' = [result EXCEPT ![c] = Null]
          /\ answer' = [answer EXCEPT ![c] = Unanswered] /\ UNCHANGED number
      BY <2>2 DEF Release
    <3>2. /\ ServiceState[c] = "returned"
          /\ ServiceState' = [ServiceState EXCEPT ![c] = "idle"]
      BY <3>1 DEF ServiceState
    <3>3. Service!Finish(c)
      BY <3>1, <3>2 DEF Service!Finish
    <3> QED BY <3>3 DEF Service!Next
  <2>3. CASE Enter(c) \/ Send(c) \/ Wait(c) \/ Resume(c) \/ Clear(c)
    <3>1. UNCHANGED <<op, number, result, answer>>
      BY <2>3 DEF Enter, Send, Wait, Resume, Clear
    <3>2. ServiceState' = ServiceState
      BY <2>3 DEF Enter, Send, Wait, Resume, Clear, ServiceState
    <3> QED BY <3>1, <3>2 DEF Service!vars
  <2> QED BY <1>6, <2>1, <2>2, <2>3 DEF CallStep
<1> QED BY <1>1, <1>2, <1>3, <1>4, <1>5, <1>6 DEF Next

\* Every call is carried out exactly once, as one step between its start and
\* its end, and returns the outcome of that step.
THEOREM ServiceImplemented ==
  ASSUME SpuriousWakeups = 0
  PROVE  Spec => Service!Spec
<1>1. TypeInv /\ SharingInv /\ AnswerInv /\ [Next]_vars => [Service!Next]_(Service!vars)
  BY ServiceStep
<1> QED BY ServiceInit, AnswerCorrect, <1>1, PTL DEF Spec, Service!Spec
=============================================================================
