------------------------- MODULE SambaMessageLooper -------------------------
(***************************************************************************)
(* The one thread that talks to libsmbclient (SambaMessageLooper) and the  *)
(* way other threads call into it (BaseClient, MessageValues and the       *)
(* clients and handlers built on them).                                    *)
(*                                                                         *)
(* A calling thread takes a MessageValues from a static pool, posts a      *)
(* Message that refers to it while holding its monitor, and waits on it.   *)
(* The looper takes messages in order; under the same monitor it carries   *)
(* the operation out, stores the outcome in the MessageValues and notifies.*)
(* The caller reads the outcome, clears the MessageValues and puts it      *)
(* back.  Object.wait may return without a notify, at most SpuriousWakeups *)
(* times in a behaviour: BaseClient waits without a loop.                  *)
(***************************************************************************)
EXTENDS SmbOperations, Sequences, FiniteSets

CONSTANTS
  Values,         \* identities of MessageValues objects
  Looper,         \* the looper thread
  PoolSize,       \* capacity of MessageValues.POOL
  SpuriousWakeups \* how often Object.wait may return on its own

Messages == [obj : Values, what : Operations, call : Calls]

ASSUME SambaMessageLooperAssumption ==
  /\ Looper \notin Clients
  /\ Null \notin Clients \cup Values \cup {Looper}
  /\ Null \notin Objects \cup Thrown \cup Messages
  /\ Unanswered \notin Objects \cup Thrown
  /\ PoolSize \in Nat
  /\ SpuriousWakeups \in Nat

VARIABLES
  pc,       \* pc[c]: where client thread c is in a call
  op,       \* op[c]: the operation c calls, Null between calls
  number,   \* number[c]: the number of c's call
  mv,       \* mv[c]: the MessageValues c holds, or Null
  result,   \* result[c]: what the call returned or threw
  pool,     \* MessageValues.POOL
  obj,      \* obj[v]: mObj, mInt and mLong of v, of which a call uses one
  exc,      \* exc[v]: mException and mRuntimeException of v
  monitor,  \* monitor[v]: the thread in a synchronized block on v, or Null
  waiters,  \* waiters[v]: the threads in v.wait()
  queue,    \* the MessageQueue of mLooper
  lpc,      \* where the looper thread is
  current,  \* the Message the looper handles, or Null
  latched,  \* mLatch has been counted down
  connected,\* init() has returned: the clients of the looper exist
  answer,   \* answer[c]: what the looper stored for c's call (history)
  spurious  \* spurious wakeups so far

clientVars  == <<pc, op, number, mv, result>>
valueVars   == <<pool, obj, exc, monitor, waiters>>
looperVars  == <<queue, lpc, current>>
startVars   == <<latched, connected>>
historyVars == <<answer, spurious>>
vars == <<clientVars, valueVars, looperVars, startVars, historyVars>>

ThisCall(c) == [client |-> c, number |-> number[c]]

\* Objects that neither a thread, the pool nor a message refers to: what
\* "new MessageValues<>()" may return.
Unreferenced ==
  Values \ (pool \cup {mv[c] : c \in Clients}
                 \cup {queue[i].obj : i \in DOMAIN queue}
                 \cup (IF current = Null THEN {} ELSE {current.obj}))

\* What c reads from its MessageValues: reset, putCredential and
\* removeCredential look at nothing, the others throw a stored exception.
Seen(c) ==
  IF op[c] = "ignore" THEN Null
  ELSE IF exc[mv[c]] # Null THEN exc[mv[c]]
  ELSE IF op[c] = "check" THEN Null
  ELSE obj[mv[c]]

-----------------------------------------------------------------------------
(***************************************************************************)
(* Plausible mistakes in this code, each one an altered form of the action *)
(* named in its comment: what the properties below have to notice.         *)
(***************************************************************************)

\* Enter: sends the message before it synchronizes on the MessageValues
EnterUnlocked(c) ==
  /\ pc[c] = "obtained"
  /\ pc' = [pc EXCEPT ![c] = "entered"]
  /\ UNCHANGED <<op, number, mv, result, valueVars, looperVars, startVars,
                 historyVars>>

\* Resume: waits with a timeout
ResumeOnTimeout(c) ==
  /\ pc[c] = "waiting"
  /\ monitor[mv[c]] = Null
  /\ waiters' = [waiters EXCEPT ![mv[c]] = @ \ {c}]
  /\ pc' = [pc EXCEPT ![c] = "resumed"]
  /\ UNCHANGED <<op, number, mv, result, pool, obj, exc, monitor, looperVars,
                 startVars, historyVars>>

\* Clear: forgets mException
ClearKeepsException(c) ==
  /\ pc[c] = "returning"
  /\ obj' = [obj EXCEPT ![mv[c]] = Null]
  /\ pc' = [pc EXCEPT ![c] = "cleared"]
  /\ UNCHANGED <<op, number, mv, result, pool, exc, monitor, waiters,
                 looperVars, startVars, historyVars>>

\* Clear: releases the object before it clears it
ClearAfterRelease(c) ==
  /\ pc[c] = "returning"
  /\ pool' = pool \cup {mv[c]}
  /\ pc' = [pc EXCEPT ![c] = "cleared"]
  /\ UNCHANGED <<op, number, mv, result, obj, exc, monitor, waiters,
                 looperVars, startVars, historyVars>>

\* NotifyAndLeave: does not notify
LeaveWithoutNotify ==
  /\ lpc = "processed"
  /\ monitor' = [monitor EXCEPT ![current.obj] = Null]
  /\ current' = Null
  /\ lpc' = "looping"
  /\ UNCHANGED <<clientVars, pool, obj, exc, waiters, queue, startVars,
                 historyVars>>

-----------------------------------------------------------------------------
Init ==
  /\ pc        = [c \in Clients |-> "idle"]
  /\ op        = [c \in Clients |-> Null]
  /\ number    = [c \in Clients |-> 0]
  /\ mv        = [c \in Clients |-> Null]
  /\ result    = [c \in Clients |-> Null]
  /\ pool      = {}
  /\ obj       = [v \in Values |-> Null]
  /\ exc       = [v \in Values |-> Null]
  /\ monitor   = [v \in Values |-> Null]
  /\ waiters   = [v \in Values |-> {}]
  /\ queue     = <<>>
  /\ lpc       = "new"
  /\ current   = Null
  /\ latched   = FALSE
  /\ connected = FALSE
  /\ answer    = [c \in Clients |-> Unanswered]
  /\ spurious  = 0

(***************************************************************************)
(* Start-up: prepare() on the looper thread, init() on the main thread.    *)
(***************************************************************************)

Prepare ==
  /\ lpc = "new"
  /\ lpc' = "prepared"
  /\ latched' = TRUE
  /\ UNCHANGED <<clientVars, valueVars, queue, current, connected, historyVars>>

Loop ==
  /\ lpc = "prepared"
  /\ lpc' = "looping"
  /\ UNCHANGED <<clientVars, valueVars, queue, current, startVars, historyVars>>

Connect ==
  /\ latched
  /\ ~connected
  /\ connected' = TRUE
  /\ UNCHANGED <<clientVars, valueVars, looperVars, latched, historyVars>>

(***************************************************************************)
(* A call, on the calling thread.                                          *)
(***************************************************************************)

\* MessageValues.obtain(), and the arguments a transfer stores in it.
Obtain(c, o) ==
  /\ connected
  /\ pc[c] = "idle"
  /\ \E v \in (IF pool = {} THEN Unreferenced ELSE pool) :
       /\ pool' = pool \ {v}
       /\ mv'   = [mv EXCEPT ![c] = v]
       /\ pc'     = [pc EXCEPT ![c] = "obtained"]
       /\ op'     = [op EXCEPT ![c] = o]
       /\ number' = [number EXCEPT ![c] = (@ + 1) % CallNumbers]
       /\ obj' = [obj EXCEPT ![v] =
                    IF o = "transfer"
                    THEN Argument([client |-> c, number |-> number'[c]])
                    ELSE IF v \in pool THEN @ ELSE Null]
       /\ exc' = [exc EXCEPT ![v] = IF v \in pool THEN @ ELSE Null]
  /\ UNCHANGED <<result, monitor, waiters, looperVars, startVars, historyVars>>

\* synchronized (msg.obj)
Enter(c) ==
  /\ pc[c] = "obtained"
  /\ monitor[mv[c]] = Null
  /\ monitor' = [monitor EXCEPT ![mv[c]] = c]
  /\ pc' = [pc EXCEPT ![c] = "entered"]
  /\ UNCHANGED <<op, number, mv, result, pool, obj, exc, waiters,
                 looperVars, startVars, historyVars>>

\* mHandler.sendMessage(msg)
Send(c) ==
  /\ pc[c] = "entered"
  /\ queue' = Append(queue, [obj |-> mv[c], what |-> op[c], call |-> ThisCall(c)])
  /\ pc' = [pc EXCEPT ![c] = "sent"]
  /\ UNCHANGED <<op, number, mv, result, valueVars, lpc, current,
                 startVars, historyVars>>

\* msg.obj.wait(), which releases the monitor
Wait(c) ==
  /\ pc[c] = "sent"
  /\ waiters' = [waiters EXCEPT ![mv[c]] = @ \cup {c}]
  /\ monitor' = [monitor EXCEPT ![mv[c]] = Null]
  /\ pc' = [pc EXCEPT ![c] = "waiting"]
  /\ UNCHANGED <<op, number, mv, result, pool, obj, exc, looperVars,
                 startVars, historyVars>>

\* wait() returns although nobody has called notify()
WakeSpuriously(c) ==
  /\ pc[c] = "waiting"
  /\ c \in waiters[mv[c]]
  /\ spurious < SpuriousWakeups
  /\ spurious' = spurious + 1
  /\ waiters' = [waiters EXCEPT ![mv[c]] = @ \ {c}]
  /\ UNCHANGED <<clientVars, pool, obj, exc, monitor, looperVars,
                 startVars, answer>>

\* wait() has the monitor again; enqueue() leaves its synchronized block
Resume(c) ==
  /\ pc[c] = "waiting"
  /\ c \notin waiters[mv[c]]
  /\ monitor[mv[c]] = Null
  /\ pc' = [pc EXCEPT ![c] = "resumed"]
  /\ UNCHANGED <<op, number, mv, result, valueVars, looperVars, startVars,
                 historyVars>>

\* getObj(), getInt(), getLong() or checkException()
Return(c) ==
  /\ pc[c] = "resumed"
  /\ result' = [result EXCEPT ![c] = Seen(c)]
  /\ pc' = [pc EXCEPT ![c] = "returning"]
  /\ UNCHANGED <<op, number, mv, valueVars, looperVars, startVars, historyVars>>

\* MessageValues.close() clears the fields ...
Clear(c) ==
  /\ pc[c] = "returning"
  /\ obj' = [obj EXCEPT ![mv[c]] = Null]
  /\ exc' = [exc EXCEPT ![mv[c]] = Null]
  /\ pc' = [pc EXCEPT ![c] = "cleared"]
  /\ UNCHANGED <<op, number, mv, result, pool, monitor, waiters, looperVars,
                 startVars, historyVars>>

\* ... and then puts the object back, unless the pool is full
Release(c) ==
  /\ pc[c] = "cleared"
  /\ pool' = IF Cardinality(pool) < PoolSize THEN pool \cup {mv[c]} ELSE pool
  /\ mv' = [mv EXCEPT ![c] = Null]
  /\ pc' = [pc EXCEPT ![c] = "idle"]
  /\ op' = [op EXCEPT ![c] = Null]
  /\ result' = [result EXCEPT ![c] = Null]
  /\ answer' = [answer EXCEPT ![c] = Unanswered]
  /\ UNCHANGED <<number, obj, exc, monitor, waiters, looperVars, startVars,
                 spurious>>

(***************************************************************************)
(* A message, on the looper thread: Looper.loop() and handleMessage().     *)
(***************************************************************************)

Dispatch ==
  /\ lpc = "looping"
  /\ queue # <<>>
  /\ current' = Head(queue)
  /\ queue' = Tail(queue)
  /\ lpc' = "dispatched"
  /\ UNCHANGED <<clientVars, valueVars, startVars, historyVars>>

\* synchronized (msg.obj)
LooperEnter ==
  /\ lpc = "dispatched"
  /\ monitor[current.obj] = Null
  /\ monitor' = [monitor EXCEPT ![current.obj] = Looper]
  /\ lpc' = "entered"
  /\ UNCHANGED <<clientVars, pool, obj, exc, waiters, queue, current,
                 startVars, historyVars>>

\* processMessage(msg): a transfer first reads its arguments with getters
\* that throw an exception left in the MessageValues
ProcessMessage ==
  LET v == current.obj
      t == current.call
  IN
  /\ lpc = "entered"
  /\ \E a \in IF current.what = "transfer" /\ exc[v] # Null
              THEN {exc[v]}
              ELSE Outcomes(current.what, t) :
       /\ obj' = IF a \in Objects THEN [obj EXCEPT ![v] = a] ELSE obj
       /\ exc' = IF a \in Thrown  THEN [exc EXCEPT ![v] = a] ELSE exc
       /\ answer' = IF pc[t.client] # "idle" /\ t = ThisCall(t.client)
                    THEN [answer EXCEPT ![t.client] = a]
                    ELSE answer
  /\ lpc' = "processed"
  /\ UNCHANGED <<clientVars, pool, monitor, waiters, queue, current,
                 startVars, spurious>>

\* msg.obj.notify(), and the end of the synchronized block
NotifyAndLeave ==
  LET v == current.obj IN
  /\ lpc = "processed"
  /\ IF waiters[v] = {}
     THEN UNCHANGED waiters
     ELSE \E c \in waiters[v] : waiters' = [waiters EXCEPT ![v] = @ \ {c}]
  /\ monitor' = [monitor EXCEPT ![v] = Null]
  /\ current' = Null
  /\ lpc' = "looping"
  /\ UNCHANGED <<clientVars, pool, obj, exc, queue, startVars, historyVars>>

-----------------------------------------------------------------------------
CallStep(c) ==
  Enter(c) \/ Send(c) \/ Wait(c) \/ Resume(c) \/ Return(c) \/ Clear(c) \/ Release(c)

LooperStep ==
  Prepare \/ Loop \/ Dispatch \/ LooperEnter \/ ProcessMessage \/ NotifyAndLeave

Next ==
  \/ LooperStep
  \/ Connect
  \/ \E c \in Clients :
       \/ \E o \in Operations : Obtain(c, o)
       \/ CallStep(c)
       \/ WakeSpuriously(c)

(***************************************************************************)
(* Both sides are ordinary Java threads, so each of them is scheduled      *)
(* again and again; nothing obliges a client to make a call.               *)
(***************************************************************************)
Fairness ==
  /\ WF_vars(LooperStep)
  /\ WF_vars(Connect)
  /\ \A c \in Clients : WF_vars(CallStep(c))

Spec     == Init /\ [][Next]_vars
FairSpec == Spec /\ Fairness

-----------------------------------------------------------------------------
PCs == {"idle", "obtained", "entered", "sent", "waiting", "resumed",
        "returning", "cleared"}
LPCs == {"new", "prepared", "looping", "dispatched", "entered", "processed"}

TypeOK ==
  /\ pc \in [Clients -> PCs]
  /\ op \in [Clients -> Operations \cup {Null}]
  /\ number \in [Clients -> CallNumber]
  /\ mv \in [Clients -> Values \cup {Null}]
  /\ result \in [Clients -> Objects \cup Thrown \cup {Null}]
  /\ pool \in SUBSET Values
  /\ obj \in [Values -> Objects \cup {Null}]
  /\ exc \in [Values -> Thrown \cup {Null}]
  /\ monitor \in [Values -> Clients \cup {Looper, Null}]
  /\ waiters \in [Values -> SUBSET Clients]
  /\ queue \in Seq(Messages)
  /\ lpc \in LPCs
  /\ current \in Messages \cup {Null}
  /\ latched \in BOOLEAN
  /\ connected \in BOOLEAN
  /\ answer \in [Clients -> Objects \cup Thrown \cup {Null, Unanswered}]
  /\ spurious \in 0..SpuriousWakeups

(***************************************************************************)
(* No MessageValues has two users: threads in a call hold different ones,  *)
(* and none of them is in the pool at the same time (MessageValues.java,   *)
(* obtain and close; a second release would make SynchronizedPool throw).  *)
(***************************************************************************)
ValuesExclusive ==
  /\ \A c, d \in Clients : c # d /\ mv[c] # Null => mv[c] # mv[d]
  /\ \A c \in Clients : mv[c] \notin pool

(***************************************************************************)
(* A call returns, or throws, exactly what the looper stored for this      *)
(* call: never nothing, never its own arguments, never the outcome of      *)
(* another thread's call or of an earlier one (BaseClient.enqueue).        *)
(***************************************************************************)
ReturnsOwnAnswer ==
  \A c \in Clients : pc[c] \in {"returning", "cleared"} =>
    /\ answer[c] # Unanswered
    /\ result[c] = answer[c]

(***************************************************************************)
(* The next user of a pooled MessageValues finds no field of an earlier    *)
(* call in it (MessageValues.close clears before it releases).             *)
(***************************************************************************)
PooledValuesClear == \A v \in pool : obj[v] = Null /\ exc[v] = Null

(***************************************************************************)
(* No wakeup is lost: as long as a thread is in wait() the message that    *)
(* will notify it is queued or being handled (the send inside the          *)
(* synchronized block of BaseClient.enqueue).                              *)
(***************************************************************************)
Pending(c) ==
  \/ \E i \in DOMAIN queue : queue[i].obj = mv[c] /\ queue[i].call = ThisCall(c)
  \/ current # Null /\ current.obj = mv[c] /\ current.call = ThisCall(c)

NoLostWakeup ==
  \A c \in Clients : pc[c] = "waiting" /\ c \in waiters[mv[c]] => Pending(c)

(***************************************************************************)
(* Every call that is started comes back: no thread waits for ever in      *)
(* BaseClient.enqueue as long as native calls themselves return.           *)
(***************************************************************************)
CallsComeBack == \A c \in Clients : pc[c] = "obtained" ~> pc[c] = "idle"

(***************************************************************************)
(* Every call is carried out exactly once, between its start and its end,  *)
(* and returns that outcome: the looper implements SmbService.             *)
(***************************************************************************)
ServiceState ==
  [c \in Clients |->
     IF pc[c] = "idle" THEN "idle"
     ELSE IF pc[c] \in {"returning", "cleared"} THEN "returned"
     ELSE IF answer[c] = Unanswered THEN "called" ELSE "answered"]

Service == INSTANCE SmbService WITH state <- ServiceState

ImplementsService == Service!FairSpec
=============================================================================
