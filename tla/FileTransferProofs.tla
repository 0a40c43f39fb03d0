------------------------- MODULE FileTransferProofs -------------------------
(***************************************************************************)
(* Proofs about FileTransfer, for any number of copies at the same time,   *)
(* any source, any sizes of pool, buffers and pipes, and with short writes.*)
(*                                                                         *)
(* A buffer is either in the pool, with one task, or with nobody: a task   *)
(* has one from obtainBuffer until onPostExecute.  Which tasks an app has  *)
(* started tells that nobody takes a second buffer, and that a document is *)
(* opened again only after its metadata has been reset.                    *)
(*                                                                         *)
(* Without short writes, the pieces of a copy between its target and what  *)
(* its reader has read next are, one after the other, the source.          *)
(***************************************************************************)
EXTENDS FileTransfer, FiniteSetTheorems, SequenceTheorems, TLAPS

\* A task has a buffer while it is under way.
BuffersHeld ==
  \A t \in Tasks : task[t].pc \notin {"new", "done"} => task[t].buffer # Null

\* The tasks that an app has not started yet
NotStarted ==
  \A c \in Copies :
    /\ app[c].stage \in {"start", "reading"} => task[W(c)].pc = "new"
    /\ app[c].stage = "start" => task[R(c)].pc = "new"

\* What a writer is about to write is in its buffer.
BuffersFilled ==
  \A t \in Tasks : task[t].pc = "write" =>
    Len(task[t].buf) <= Len(bytes[task[t].buffer])

TransferInv ==
  /\ TypeOK
  /\ IsFiniteSet(pool)
  /\ BuffersFilled
  /\ BuffersHeld
  /\ NotStarted
  /\ BuffersExclusive
  /\ WritesAreSeen

Pcs == {"new", "queued", "open", "move", "get", "send", "put", "write", "close",
        "posted", "done"}

Task == [pc : Pcs, buffer : Buffers \cup {Null}, buf : Seq(Nat), failed : BOOLEAN]

LEMMA TasksTyped == TypeOK => task \in [Tasks -> Task]
BY DEF TypeOK, Task, Pcs

LEMMA TasksOf ==
  /\ \A c \in Copies : R(c) \in Tasks /\ W(c) \in Tasks
  /\ \A c, d \in Copies : R(c) # W(d)
  /\ \A c \in Copies : R(c)[1] = c /\ W(c)[1] = c /\ R(c)[2] = "r" /\ W(c)[2] = "w"
  /\ \A c, d \in Copies : c # d => W(c) # W(d)
  /\ \A t \in Tasks : /\ t[1] \in Copies /\ t[2] \in {"r", "w"}
                      /\ t[2] = "r" => t = R(t[1])
                      /\ t[2] = "w" => t = W(t[1])
BY DEF Tasks, R, W

LEMMA GotoMoves ==
  ASSUME task \in [Tasks -> Task], NEW t \in Tasks, NEW pc \in Pcs, Goto(t, pc)
  PROVE  /\ task' \in [Tasks -> Task]
         /\ task'[t].pc = pc
         /\ task'[t].buffer = task[t].buffer /\ task'[t].buf = task[t].buf
         /\ \A u \in Tasks \ {t} : task'[u] = task[u]
BY DEF Goto, Task

LEMMA CatchMoves ==
  ASSUME task \in [Tasks -> Task], NEW t \in Tasks, Catch(t)
  PROVE  /\ task' \in [Tasks -> Task]
         /\ task'[t].pc = "close"
         /\ task'[t].buffer = task[t].buffer /\ task'[t].buf = task[t].buf
         /\ \A u \in Tasks \ {t} : task'[u] = task[u]
BY DEF Catch, Task, Pcs

LEMMA TransferInit == Init => TransferInv
<1> SUFFICES ASSUME Init PROVE TransferInv
  OBVIOUS
<1>1. IsFiniteSet(pool) /\ Cardinality(pool) = 0
  BY FS_EmptySet DEF Init
<1>2. TypeOK
  <2>1. <<>> \in Seq(Nat) /\ 0 \in 0..Len(Source) /\ 0 <= PoolSize
    BY FileTransferAssumption
  <2>2. NewTask \in Task /\ NewPipe \in Pipe
    BY <2>1 DEF NewTask, NewPipe, Task, Pcs, Pipe
  <2>3. task \in [Tasks -> Task] /\ download \in [Copies -> Pipe]
        /\ upload \in [Copies -> Pipe]
    BY <2>2 DEF Init
  <2>4. app \in [Copies -> [stage : {"start", "reading", "copying", "left"},
                            held : Seq(Nat)]]
    BY <2>1 DEF Init
  <2>5. at \in [Copies -> 0..Len(Source)] /\ bytes \in [Buffers -> Seq(Nat)]
        /\ target \in [Copies -> Seq(Nat)]
    BY <2>1 DEF Init
  <2>6. pool \subseteq Buffers /\ unseen \subseteq Copies /\ crashed \in BOOLEAN
    BY DEF Init
  <2> QED BY <1>1, <2>1, <2>3, <2>4, <2>5, <2>6 DEF TypeOK, Task, Pcs
<1> QED BY <1>1, <1>2, TasksOf
        DEF Init, TransferInv, BuffersFilled, BuffersHeld, NotStarted, BuffersExclusive, WritesAreSeen,
            NewTask

-----------------------------------------------------------------------------
(* A step that changes a task, but not the buffer it has *)

\* What such a step keeps, as long as the task stays under way.
LEMMA MovesKeep ==
  ASSUME TransferInv, TypeOK', NEW t \in Tasks,
         task[t].pc \notin {"new", "queued", "done"},
         task'[t].pc \notin {"new", "queued", "done"},
         task'[t].buffer = task[t].buffer,
         \A u \in Tasks \ {t} : task'[u] = task[u],
         UNCHANGED pool,
         \A b \in Buffers \ {task[t].buffer} : bytes'[b] = bytes[b],
         task'[t].pc = "write" =>
           Len(task'[t].buf) <= Len(bytes'[task[t].buffer]),
         \A c \in Copies : app'[c].stage \in {"start", "reading"} =>
           app'[c].stage = app[c].stage,
         \A c \in unseen' : c \in unseen \/ W(c) = t
  PROVE  TransferInv'
<1> USE DEF TransferInv
<1>1. BuffersHeld'
  BY DEF BuffersHeld
<1>2. NotStarted'
  BY TasksOf DEF NotStarted
<1>3. BuffersExclusive'
  BY DEF BuffersExclusive
<1>4. WritesAreSeen'
  BY TasksOf DEF WritesAreSeen, TypeOK
<1>5. BuffersFilled'
  <2>1. ASSUME NEW u \in Tasks \ {t}, task'[u].pc = "write"
        PROVE  Len(task'[u].buf) <= Len(bytes'[task'[u].buffer])
    <3>1. task[u].buffer \in Buffers \ {task[t].buffer}
      BY <2>1 DEF BuffersHeld, BuffersExclusive, TypeOK
    <3> QED BY <2>1, <3>1 DEF BuffersFilled
  <2> QED BY <2>1 DEF BuffersFilled
<1> QED BY <1>1, <1>2, <1>3, <1>4, <1>5

LEMMA RunKeeps ==
  ASSUME TransferInv, NEW t \in Tasks, Run(t)
  PROVE  TransferInv'
<1> USE DEF TransferInv
<1>1. task \in [Tasks -> Task] /\ Goto(t, "open") /\ "open" \in Pcs
  BY TasksTyped DEF Run, Pcs
<1>2. /\ task'[t].pc = "open" /\ task'[t].buffer = task[t].buffer
      /\ task[t].pc = "queued"
      /\ \A u \in Tasks \ {t} : task'[u] = task[u]
      /\ task' \in [Tasks -> Task]
      /\ UNCHANGED <<at, bytes, pool, download, upload, app, target, unseen, crashed>>
  BY <1>1, GotoMoves DEF Run
<1>3. TypeOK'
  BY <1>2 DEF TypeOK, Task, Pcs
<1>4. BuffersHeld' /\ BuffersFilled'
  BY <1>2 DEF BuffersHeld, BuffersFilled
<1>5. NotStarted'
  BY <1>2, TasksOf DEF NotStarted
<1>6. BuffersExclusive'
  BY <1>2 DEF BuffersExclusive
<1>7. WritesAreSeen'
  <2>1. \A u \in Tasks : task'[u].pc = task[u].pc \/ task'[u].pc = "open"
    BY <1>2
  <2>2. \A d \in unseen : W(d) \in Tasks
    BY TasksOf DEF TypeOK
  <2> QED BY <1>2, <2>1, <2>2 DEF WritesAreSeen
<1> QED BY <1>2, <1>3, <1>4, <1>5, <1>6, <1>7

LEMMA PartsTyped ==
  ASSUME NEW s \in Seq(Nat), NEW m \in Nat \ {0}, NEW n \in Nat, n <= Len(s)
  PROVE  SubSeq(s, m, n) \in Seq(Nat)
<1>1. \A i \in m..n : s[i] \in Nat
  BY ElementOfSeq, LenProperties
<1> QED BY <1>1, SubSeqProperties, LenProperties

LEMMA LongerTogether ==
  \A s, t \in Seq(Nat) : Len(t) <= Len(s \o t)
<1> SUFFICES ASSUME NEW s \in Seq(Nat), NEW t \in Seq(Nat) PROVE Len(t) <= Len(s \o t)
  OBVIOUS
<1>1. Len(s) \in Nat /\ Len(t) \in Nat /\ Len(s \o t) = Len(s) + Len(t)
  BY LenProperties, ConcatProperties
<1> QED BY <1>1

LEMMA BufChanges ==
  ASSUME task \in [Tasks -> Task], NEW t \in Tasks, NEW pc \in Pcs, NEW b \in Seq(Nat),
         task' = [task EXCEPT ![t].pc = pc, ![t].buf = b]
  PROVE  /\ task' \in [Tasks -> Task]
         /\ task'[t].pc = pc /\ task'[t].buf = b /\ task'[t].buffer = task[t].buffer
         /\ \A u \in Tasks \ {t} : task'[u] = task[u]
<1>1. task[t] \in Task
  OBVIOUS
<1> DEFINE new == [task[t] EXCEPT !.pc = pc, !.buf = b]
<1>2. new \in Task /\ new.pc = pc /\ new.buf = b /\ new.buffer = task[t].buffer
  BY <1>1 DEF Task
<1>3. task' = [task EXCEPT ![t] = new]
  OBVIOUS
<1> HIDE DEF new
<1> QED BY <1>2, <1>3

LEMMA PipesStay ==
  ASSUME NEW pipes \in [Copies -> Pipe], NEW c \in Copies
  PROVE  /\ \A d \in Seq(Nat) : [pipes EXCEPT ![c].data = d] \in [Copies -> Pipe]
         /\ [pipes EXCEPT ![c].gone = TRUE] \in [Copies -> Pipe]
         /\ [pipes EXCEPT ![c].end = "ok"] \in [Copies -> Pipe]
<1>1. pipes[c] \in Pipe
  OBVIOUS
<1>2. \A d \in Seq(Nat) : [pipes[c] EXCEPT !.data = d] \in Pipe
  BY <1>1 DEF Pipe
<1>3. [pipes[c] EXCEPT !.gone = TRUE] \in Pipe
  BY <1>1 DEF Pipe
<1>4. [pipes[c] EXCEPT !.end = "ok"] \in Pipe
  BY <1>1 DEF Pipe
<1> QED BY <1>2, <1>3, <1>4

LEMMA OpenFileKeeps ==
  ASSUME TransferInv, NEW t \in Tasks, OpenFile(t)
  PROVE  TransferInv'
<1> USE DEF TransferInv
<1>1. task \in [Tasks -> Task] /\ t[1] \in Copies
  BY TasksTyped, TasksOf
<1>2. /\ task'[t].pc = "move" /\ task'[t].buffer = task[t].buffer
      /\ task[t].pc = "open"
      /\ \A u \in Tasks \ {t} : task'[u] = task[u]
      /\ task' \in [Tasks -> Task]
      /\ UNCHANGED <<bytes, pool, download, upload, app, crashed>>
  BY <1>1 DEF OpenFile, Goto, Task, Pcs
<1>3. /\ at' \in [Copies -> 0..Len(Source)]
      /\ target' \in [Copies -> Seq(Nat)]
      /\ unseen' \subseteq Copies
      /\ \A c \in unseen' : c \in unseen \/ W(c) = t
  <2>1. 0 \in 0..Len(Source) /\ <<>> \in Seq(Nat)
    BY FileTransferAssumption, EmptySeq, LenProperties
  <2>2. CASE t[2] = "r"
    <3>1. at' = [at EXCEPT ![t[1]] = 0] /\ UNCHANGED <<target, unseen>>
      BY <2>2 DEF OpenFile
    <3>2. at \in [Copies -> 0..Len(Source)]
      BY DEF TypeOK
    <3>3. at' \in [Copies -> 0..Len(Source)]
      BY <1>1, <2>1, <3>1, <3>2
    <3> QED BY <3>1, <3>3 DEF TypeOK
  <2>3. CASE t[2] # "r"
    <3>1. /\ target' = [target EXCEPT ![t[1]] = <<>>] /\ unseen' = unseen \cup {t[1]}
          /\ UNCHANGED at /\ t = W(t[1])
      BY <2>3, TasksOf DEF OpenFile
    <3> QED BY <1>1, <2>1, <3>1 DEF TypeOK
  <2> QED BY <2>2, <2>3
<1>4. TypeOK'
  BY <1>2, <1>3 DEF TypeOK, Task, Pcs
<1> QED BY <1>2, <1>3, <1>4, MovesKeep

LEMMA RefuseKeeps ==
  ASSUME TransferInv, NEW t \in Tasks, Refuse(t)
  PROVE  TransferInv'
BY DEF Refuse, TransferInv, TypeOK, BuffersFilled, BuffersHeld, NotStarted,
       BuffersExclusive, WritesAreSeen

LEMMA FailKeeps ==
  ASSUME TransferInv, NEW t \in Tasks, Fail(t)
  PROVE  TransferInv'
<1> USE DEF TransferInv
<1>1. task \in [Tasks -> Task]
  BY TasksTyped
<1>2. task[t].pc \in {"open", "move", "write"}
  BY DEF Fail
<1>3. /\ task'[t].pc = "close" /\ task'[t].buffer = task[t].buffer
      /\ \A u \in Tasks \ {t} : task'[u] = task[u]
      /\ task' \in [Tasks -> Task]
      /\ UNCHANGED <<at, bytes, pool, download, upload, app, target, unseen, crashed>>
  BY <1>1 DEF Fail, Catch, Task, Pcs
<1>4. TypeOK'
  BY <1>3 DEF TypeOK, Task, Pcs
<1> QED BY <1>2, <1>3, <1>4, MovesKeep

-----------------------------------------------------------------------------
(* ReadFileTask *)

LEMMA ReadFileKeeps ==
  ASSUME TransferInv, NEW c \in Copies, NEW n \in 1..Capacity, ReadFile(c, n)
  PROVE  TransferInv'
<1> USE DEF TransferInv
<1>1. task \in [Tasks -> Task] /\ R(c) \in Tasks
  BY TasksTyped, TasksOf
<1>2. /\ task'[R(c)].pc = "get" /\ task'[R(c)].buffer = task[R(c)].buffer
      /\ task[R(c)].pc = "move"
      /\ \A u \in Tasks \ {R(c)} : task'[u] = task[u]
      /\ task' \in [Tasks -> Task]
      /\ UNCHANGED <<pool, download, upload, app, target, unseen, crashed>>
  BY <1>1 DEF ReadFile, Goto, Task, Pcs
<1>3. at[c] \in Nat /\ n \in Nat /\ at[c] + n <= Len(Source) /\ Len(Source) \in Nat
  BY FileTransferAssumption, LenProperties DEF ReadFile, TypeOK
<1>4. SubSeq(Source, at[c] + 1, at[c] + n) \in Seq(Nat)
  BY <1>3, PartsTyped, FileTransferAssumption
<1>5. bytes' \in [Buffers -> Seq(Nat)]
      /\ \A b \in Buffers \ {task[R(c)].buffer} : bytes'[b] = bytes[b]
  BY <1>4 DEF ReadFile, TypeOK
<1>6. at' \in [Copies -> 0..Len(Source)]
  BY <1>3 DEF ReadFile, TypeOK
<1>7. TypeOK'
  BY <1>2, <1>5, <1>6 DEF TypeOK, Task, Pcs
<1> QED BY <1>1, <1>2, <1>5, <1>7, MovesKeep

LEMMA ReadEndKeeps ==
  ASSUME TransferInv, NEW c \in Copies, ReadEnd(c)
  PROVE  TransferInv'
<1> USE DEF TransferInv
<1>1. task \in [Tasks -> Task] /\ R(c) \in Tasks
  BY TasksTyped, TasksOf
<1>2. /\ task'[R(c)].pc = "close" /\ task'[R(c)].buffer = task[R(c)].buffer
      /\ task[R(c)].pc = "move"
      /\ \A u \in Tasks \ {R(c)} : task'[u] = task[u]
      /\ task' \in [Tasks -> Task]
      /\ UNCHANGED <<at, bytes, pool, download, upload, app, target, unseen, crashed>>
  BY <1>1 DEF ReadEnd, Goto, Task, Pcs
<1>3. TypeOK'
  BY <1>2 DEF TypeOK, Task, Pcs
<1> QED BY <1>1, <1>2, <1>3, MovesKeep

LEMMA GetBytesKeeps ==
  ASSUME TransferInv, NEW c \in Copies, GetBytes(c)
  PROVE  TransferInv'
<1> USE DEF TransferInv
<1>1. task \in [Tasks -> Task] /\ R(c) \in Tasks
  BY TasksTyped, TasksOf
<1>2. task[R(c)].pc = "get" /\ bytes[task[R(c)].buffer] \in Seq(Nat)
  BY <1>1 DEF GetBytes, BuffersHeld, TypeOK, Task
<1>3. /\ task'[R(c)].pc = "send" /\ task'[R(c)].buffer = task[R(c)].buffer
      /\ \A u \in Tasks \ {R(c)} : task'[u] = task[u]
      /\ task' \in [Tasks -> Task]
      /\ UNCHANGED <<at, pool, download, upload, app, target, unseen, crashed>>
  BY <1>1, <1>2 DEF GetBytes, Task, Pcs
<1>4. bytes' \in [Buffers -> Seq(Nat)]
      /\ \A b \in Buffers \ {task[R(c)].buffer} : bytes'[b] = bytes[b]
  BY EmptySeq DEF GetBytes, TypeOK
<1>5. TypeOK'
  BY <1>3, <1>4 DEF TypeOK, Task, Pcs
<1> QED BY <1>1, <1>2, <1>3, <1>4, <1>5, MovesKeep

LEMMA SendKeeps ==
  ASSUME TransferInv, NEW c \in Copies, Send(c)
  PROVE  TransferInv'
<1> USE DEF TransferInv
<1>1. task \in [Tasks -> Task] /\ R(c) \in Tasks /\ task[R(c)].buf \in Seq(Nat)
  BY TasksTyped, TasksOf DEF Task
<1>2. download[c] \in Pipe /\ download[c].data \in Seq(Nat)
  BY DEF TypeOK, Pipe
<1>3. /\ task'[R(c)].pc \in {"send", "move", "close"}
      /\ task'[R(c)].buffer = task[R(c)].buffer
      /\ task[R(c)].pc = "send"
      /\ \A u \in Tasks \ {R(c)} : task'[u] = task[u]
      /\ task' \in [Tasks -> Task]
      /\ UNCHANGED <<at, bytes, pool, upload, app, target, unseen, crashed>>
      /\ download' \in [Copies -> Pipe]
  <2>1. download \in [Copies -> Pipe]
    BY DEF TypeOK
  <2>2. CASE task[R(c)].buf # <<>> /\ ~download[c].gone
    <3>1. Tail(task[R(c)].buf) \in Seq(Nat)
      BY <1>1, <2>2, HeadTailProperties
    <3>2. Append(download[c].data, Head(task[R(c)].buf)) \in Seq(Nat)
      BY <1>1, <1>2, <2>2, HeadTailProperties, AppendProperties
    <3>3. /\ task' = [task EXCEPT ![R(c)].buf = Tail(task[R(c)].buf)]
          /\ download' = [download EXCEPT
               ![c].data = Append(download[c].data, Head(task[R(c)].buf))]
          /\ task[R(c)].pc = "send"
          /\ UNCHANGED <<at, bytes, pool, upload, app, target, unseen, crashed>>
      BY <2>2 DEF Send
    <3>4. task' \in [Tasks -> Task]
      BY <1>1, <3>1, <3>3 DEF Task
    <3>5. download' \in [Copies -> Pipe]
      BY <2>1, <1>2, <3>2, <3>3 DEF Pipe
    <3> QED BY <1>1, <3>3, <3>4, <3>5 DEF Task
  <2>3. CASE task[R(c)].buf # <<>> /\ download[c].gone
    <3>1. /\ Catch(R(c)) /\ task[R(c)].pc = "send" /\ UNCHANGED download
          /\ UNCHANGED <<at, bytes, pool, upload, app, target, unseen, crashed>>
      BY <2>3 DEF Send
    <3> QED BY <1>1, <2>1, <3>1, CatchMoves
  <2>4. CASE task[R(c)].buf = <<>>
    <3>1. /\ Goto(R(c), "move") /\ task[R(c)].pc = "send" /\ UNCHANGED download
          /\ UNCHANGED <<at, bytes, pool, upload, app, target, unseen, crashed>>
      BY <2>4 DEF Send
    <3> QED BY <1>1, <2>1, <3>1, GotoMoves DEF Pcs
  <2> QED BY <2>2, <2>3, <2>4
<1>5. TypeOK'
  BY <1>3 DEF TypeOK, Task, Pcs
<1> QED BY <1>1, <1>3, <1>5, MovesKeep

-----------------------------------------------------------------------------
(* WriteFileTask *)

LEMMA ReceiveKeeps ==
  ASSUME TransferInv, NEW c \in Copies, Receive(c)
  PROVE  TransferInv'
<1> USE DEF TransferInv
<1>1. task \in [Tasks -> Task] /\ W(c) \in Tasks
  BY TasksTyped, TasksOf
<1>2. upload \in [Copies -> Pipe] /\ upload[c].data \in Seq(Nat)
  BY DEF TypeOK, Pipe
<1>3. /\ task'[W(c)].pc \in {"put", "close"}
      /\ task'[W(c)].buffer = task[W(c)].buffer
      /\ task[W(c)].pc = "move"
      /\ \A u \in Tasks \ {W(c)} : task'[u] = task[u]
      /\ task' \in [Tasks -> Task]
      /\ UNCHANGED <<at, bytes, pool, download, app, target, unseen, crashed>>
      /\ upload' \in [Copies -> Pipe]
  <2>0. task[W(c)].pc = "move"
        /\ UNCHANGED <<at, bytes, pool, download, app, target, unseen, crashed>>
    BY DEF Receive
  <2>1. ASSUME NEW n \in 1..Len(upload[c].data),
               task' = [task EXCEPT ![W(c)].pc = "put",
                                    ![W(c)].buf = SubSeq(upload[c].data, 1, n)],
               upload' = [upload EXCEPT
                 ![c].data = SubSeq(upload[c].data, n + 1, Len(upload[c].data))]
        PROVE  /\ task'[W(c)].pc = "put" /\ task'[W(c)].buffer = task[W(c)].buffer
               /\ \A u \in Tasks \ {W(c)} : task'[u] = task[u]
               /\ task' \in [Tasks -> Task]
               /\ upload' \in [Copies -> Pipe]
    <3>1. /\ SubSeq(upload[c].data, 1, n) \in Seq(Nat)
          /\ SubSeq(upload[c].data, n + 1, Len(upload[c].data)) \in Seq(Nat)
      BY <1>2, PartsTyped, LenProperties
    <3>2. /\ task' \in [Tasks -> Task]
          /\ task'[W(c)].pc = "put" /\ task'[W(c)].buffer = task[W(c)].buffer
          /\ \A u \in Tasks \ {W(c)} : task'[u] = task[u]
      <4>1. "put" \in Pcs
        BY DEF Pcs
      <4> QED BY <1>1, <2>1, <3>1, <4>1, BufChanges
    <3>3. \A d \in Seq(Nat) : [upload EXCEPT ![c].data = d] \in [Copies -> Pipe]
      BY <1>2, PipesStay
    <3>4. upload' \in [Copies -> Pipe]
      BY <2>1, <3>1, <3>3
    <3> QED BY <3>2, <3>4
  <2>2. CASE Goto(W(c), "close") /\ UNCHANGED upload
    <3>1. "close" \in Pcs
      BY DEF Pcs
    <3>2. Goto(W(c), "close") /\ upload' \in [Copies -> Pipe]
      BY <1>2, <2>2
    <3> QED BY <1>1, <2>0, <3>1, <3>2, GotoMoves
  <2>4. \/ Goto(W(c), "close") /\ UNCHANGED upload
        \/ \E n \in 1..Len(upload[c].data) :
             /\ task' = [task EXCEPT ![W(c)].pc = "put",
                                      ![W(c)].buf = SubSeq(upload[c].data, 1, n)]
             /\ upload' = [upload EXCEPT
                  ![c].data = SubSeq(upload[c].data, n + 1, Len(upload[c].data))]
    BY DEF Receive
  <2> QED BY <2>0, <2>1, <2>2, <2>4
<1>4. TypeOK'
  BY <1>3 DEF TypeOK, Task, Pcs
<1> QED BY <1>1, <1>3, <1>4, MovesKeep

LEMMA PutBytesKeeps ==
  ASSUME TransferInv, NEW c \in Copies, PutBytes(c)
  PROVE  TransferInv'
<1> USE DEF TransferInv
<1>1. task \in [Tasks -> Task] /\ W(c) \in Tasks /\ task[W(c)].buf \in Seq(Nat)
  BY TasksTyped, TasksOf DEF Task
<1>2. task[W(c)].pc = "put" /\ bytes[task[W(c)].buffer] \in Seq(Nat)
  BY <1>1 DEF PutBytes, BuffersHeld, TypeOK, Task
<1>3. /\ task'[W(c)].pc = "write" /\ task'[W(c)].buffer = task[W(c)].buffer
      /\ task'[W(c)].buf = task[W(c)].buf
      /\ \A u \in Tasks \ {W(c)} : task'[u] = task[u]
      /\ task' \in [Tasks -> Task]
      /\ UNCHANGED <<at, pool, download, upload, app, target, unseen, crashed>>
  BY <1>1, <1>2 DEF PutBytes, Goto, Task, Pcs
<1>4. /\ bytes' \in [Buffers -> Seq(Nat)]
      /\ \A b \in Buffers \ {task[W(c)].buffer} : bytes'[b] = bytes[b]
  <2>1. bytes[task[W(c)].buffer] \o task[W(c)].buf \in Seq(Nat)
    BY <1>1, <1>2, ConcatProperties
  <2> QED BY <2>1 DEF PutBytes, TypeOK
<1>5. Len(task'[W(c)].buf) <= Len(bytes'[task[W(c)].buffer])
  <2>1. task[W(c)].buffer \in Buffers
    BY <1>1, <1>2 DEF BuffersHeld, Task
  <2>2. bytes'[task[W(c)].buffer] = bytes[task[W(c)].buffer] \o task[W(c)].buf
    BY <2>1 DEF PutBytes, TypeOK
  <2> QED BY <1>1, <1>2, <1>3, <2>2, LongerTogether, Zenon
<1>6. TypeOK'
  BY <1>3, <1>4 DEF TypeOK, Task, Pcs
<1> QED BY <1>1, <1>2, <1>3, <1>4, <1>5, <1>6, MovesKeep

LEMMA WriteFileKeeps ==
  ASSUME TransferInv, NEW c \in Copies, NEW n \in 0..Capacity, WriteFile(c, n)
  PROVE  TransferInv'
<1> USE DEF TransferInv
<1>1. task \in [Tasks -> Task] /\ W(c) \in Tasks
  BY TasksTyped, TasksOf
<1>2. task[W(c)].pc = "write" /\ bytes[task[W(c)].buffer] \in Seq(Nat)
  BY <1>1 DEF WriteFile, BuffersHeld, TypeOK, Task
<1>3. /\ task'[W(c)].pc = "move" /\ task'[W(c)].buffer = task[W(c)].buffer
      /\ \A u \in Tasks \ {W(c)} : task'[u] = task[u]
      /\ task' \in [Tasks -> Task]
      /\ unseen' = unseen \cup {c}
      /\ UNCHANGED <<at, pool, download, upload, app, crashed>>
  BY <1>1, <1>2 DEF WriteFile, Goto, Task, Pcs
<1>4. bytes' \in [Buffers -> Seq(Nat)]
      /\ \A b \in Buffers \ {task[W(c)].buffer} : bytes'[b] = bytes[b]
  BY <1>2, EmptySeq DEF WriteFile, TypeOK
<1>5. target' \in [Copies -> Seq(Nat)]
  <2>1. n \in Nat /\ n <= Len(bytes[task[W(c)].buffer])
    BY <1>1, <1>2, FileTransferAssumption, LenProperties DEF WriteFile, BuffersFilled, Task
  <2>2. SubSeq(bytes[task[W(c)].buffer], 1, n) \in Seq(Nat)
    BY <1>2, <2>1, PartsTyped
  <2> QED BY <2>2, ConcatProperties DEF WriteFile, TypeOK
<1>6. TypeOK'
  BY <1>3, <1>4, <1>5 DEF TypeOK, Task, Pcs
<1> QED BY <1>1, <1>2, <1>3, <1>4, <1>6, MovesKeep

-----------------------------------------------------------------------------
(* Both tasks *)

LEMMA CloseKeeps ==
  ASSUME TransferInv, NEW t \in Tasks, Close(t)
  PROVE  TransferInv'
<1> USE DEF TransferInv
<1>1. task \in [Tasks -> Task] /\ t[1] \in Copies /\ "posted" \in Pcs
  BY TasksTyped, TasksOf DEF Pcs
<1>2. /\ Goto(t, "posted") /\ task[t].pc = "close"
      /\ UNCHANGED <<at, bytes, pool, app, target, unseen, crashed>>
  BY DEF Close
<1>3. /\ task' \in [Tasks -> Task]
      /\ task'[t].pc = "posted" /\ task'[t].buffer = task[t].buffer
      /\ \A u \in Tasks \ {t} : task'[u] = task[u]
  BY <1>1, <1>2, GotoMoves
<1>4. download' \in [Copies -> Pipe] /\ upload' \in [Copies -> Pipe]
  <2>1. download \in [Copies -> Pipe] /\ upload \in [Copies -> Pipe]
    BY DEF TypeOK
  <2>2. CASE t[2] = "r"
    <3>1. PICK end \in {"open", "ok", "error"} :
            download' = [download EXCEPT ![t[1]].end = end] /\ UNCHANGED upload
      BY <1>1, <2>1, <2>2 DEF Close, CloseAs, Pipe
    <3> QED BY <1>1, <2>1, <3>1 DEF Pipe
  <2>3. CASE t[2] # "r"
    <3>1. upload' = [upload EXCEPT ![t[1]].gone = TRUE] /\ UNCHANGED download
      BY <2>3 DEF Close
    <3> QED BY <1>1, <2>1, <3>1 DEF Pipe
  <2> QED BY <2>2, <2>3
<1>5. TypeOK'
  BY <1>2, <1>3, <1>4 DEF TypeOK, Task, Pcs
<1> QED BY <1>2, <1>3, <1>5, MovesKeep

LEMMA PostExecuteKeeps ==
  ASSUME TransferInv, NEW t \in Tasks, PostExecute(t)
  PROVE  TransferInv'
<1> USE DEF TransferInv
<1>1. task \in [Tasks -> Task] /\ t[1] \in Copies
  BY TasksTyped, TasksOf
<1>2. /\ task[t].pc = "posted" /\ task[t].buffer \in Buffers
      /\ UNCHANGED <<at, download, upload, app, target, crashed>>
  BY <1>1 DEF PostExecute, BuffersHeld, Task
<1>3. [NewTask EXCEPT !.pc = "done"] \in Task
  BY EmptySeq DEF NewTask, Task, Pcs
<1>4. /\ task' \in [Tasks -> Task]
      /\ task'[t].pc = "done" /\ task'[t].buffer = Null
      /\ \A u \in Tasks \ {t} : task'[u] = task[u]
  BY <1>1, <1>3 DEF PostExecute, NewTask
<1>5. /\ pool' \subseteq Buffers /\ IsFiniteSet(pool') /\ Cardinality(pool') <= PoolSize
      /\ pool' \subseteq pool \cup {task[t].buffer}
  <2>1. Cardinality(pool) \in Nat /\ PoolSize \in Nat
    BY FS_CardinalityType, FileTransferAssumption
  <2>2. /\ IsFiniteSet(pool \cup {task[t].buffer})
        /\ Cardinality(pool \cup {task[t].buffer}) <= Cardinality(pool) + 1
    <3>1. IsFiniteSet(pool)
      OBVIOUS
    <3>2. /\ IsFiniteSet(pool \cup {task[t].buffer})
          /\ Cardinality(pool \cup {task[t].buffer})
               = IF task[t].buffer \in pool THEN Cardinality(pool)
                 ELSE Cardinality(pool) + 1
      BY <3>1, FS_AddElement
    <3> QED BY <2>1, <3>2
  <2>3. pool' = Recycled(task[t].buffer)
    BY DEF PostExecute
  <2>4. CASE Cardinality(pool) < PoolSize
    BY <1>2, <2>1, <2>2, <2>3, <2>4, FS_CardinalityType DEF Recycled, TypeOK
  <2>5. CASE ~(Cardinality(pool) < PoolSize)
    BY <2>3, <2>5 DEF Recycled, TypeOK
  <2> QED BY <2>4, <2>5
<1>6. /\ bytes' \in [Buffers -> Seq(Nat)]
      /\ \A b \in Buffers \ {task[t].buffer} : bytes'[b] = bytes[b]
  BY EmptySeq DEF PostExecute, TypeOK
<1>7. TypeOK'
  BY <1>2, <1>4, <1>5, <1>6 DEF PostExecute, TypeOK, Task, Pcs
<1>8. BuffersHeld'
  BY <1>4 DEF BuffersHeld
<1>9. NotStarted'
  BY <1>2, <1>4, TasksOf DEF NotStarted
<1>10. BuffersExclusive'
  BY <1>2, <1>4, <1>5 DEF BuffersExclusive
<1>11. WritesAreSeen'
  <2>1. CASE t[2] = "r"
    BY <1>4, <2>1, TasksOf DEF PostExecute, WritesAreSeen, TypeOK
  <2>2. CASE t[2] = "w"
    BY <1>4, <2>2, TasksOf DEF PostExecute, WritesAreSeen, TypeOK
  <2> QED BY <2>1, <2>2, TasksOf
<1>12. BuffersFilled'
  <2>1. ASSUME NEW u \in Tasks \ {t}, task'[u].pc = "write"
        PROVE  Len(task'[u].buf) <= Len(bytes'[task'[u].buffer])
    <3>1. task[u].buffer \in Buffers \ {task[t].buffer}
      BY <1>2, <1>4, <2>1 DEF BuffersHeld, BuffersExclusive, TypeOK
    <3> QED BY <1>4, <1>6, <2>1, <3>1 DEF BuffersFilled
  <2> QED BY <1>4, <2>1 DEF BuffersFilled
<1> QED BY <1>5, <1>7, <1>8, <1>9, <1>10, <1>11, <1>12

-----------------------------------------------------------------------------
(* The apps *)

App == [stage : {"start", "reading", "copying", "left"}, held : Seq(Nat)]

\* Opening a document: the buffer that its task gets is nobody else's.
LEMMA ObtainKeeps ==
  ASSUME TransferInv, NEW t \in Tasks, Obtain(t), task[t].pc = "new",
         app' \in [Copies -> App],
         \A c \in Copies : app'[c].stage \in {"start", "reading"} =>
           app[c].stage \in {"start", "reading"} /\ t # W(c),
         \A c \in Copies : app'[c].stage = "start" => app[c].stage = "start" /\ t # R(c),
         \A c \in Copies : t = W(c) => c \notin unseen,
         UNCHANGED <<at, bytes, download, upload, target, unseen, crashed>>
  PROVE  TransferInv'
<1> USE DEF TransferInv
<1>1. task \in [Tasks -> Task]
  BY TasksTyped
<1>2. PICK b \in Available :
        /\ task' = [task EXCEPT ![t].pc = "queued", ![t].buffer = b]
        /\ pool' = pool \ {b}
  BY DEF Obtain
<1>3. /\ b \in Buffers
      /\ \A u \in Tasks : task[u].buffer # b
      /\ pool \ {b} \subseteq pool
  BY FileTransferAssumption DEF Available, InUse, BuffersExclusive, TypeOK
<1>4. /\ task' \in [Tasks -> Task]
      /\ task'[t].pc = "queued" /\ task'[t].buffer = b
      /\ \A u \in Tasks \ {t} : task'[u] = task[u]
  BY <1>1, <1>2, <1>3 DEF Task, Pcs
<1>5. IsFiniteSet(pool') /\ Cardinality(pool') <= PoolSize
  <2>1. IsFiniteSet(pool') /\ Cardinality(pool') <= Cardinality(pool)
    BY <1>2, FS_Subset
  <2> QED BY <2>1, FS_CardinalityType, FileTransferAssumption DEF TypeOK
<1>6. TypeOK'
  BY <1>2, <1>3, <1>4, <1>5 DEF TypeOK, Task, Pcs, App
<1>7. BuffersHeld'
  BY <1>3, <1>4, FileTransferAssumption DEF BuffersHeld
<1>8. NotStarted'
  BY <1>4, TasksOf DEF NotStarted
<1>9. BuffersExclusive'
  BY <1>2, <1>3, <1>4, FileTransferAssumption DEF BuffersExclusive
<1>10. WritesAreSeen'
  BY <1>4, TasksOf DEF WritesAreSeen, TypeOK
<1>11. BuffersFilled'
  BY <1>4 DEF BuffersFilled
<1> QED BY <1>5, <1>6, <1>7, <1>8, <1>9, <1>10, <1>11

LEMMA OpenDocumentKeeps ==
  ASSUME TransferInv, NEW c \in Copies, OpenDocument(c)
  PROVE  TransferInv'
<1> USE DEF TransferInv
<1>1. app \in [Copies -> App]
  BY DEF TypeOK, App
<1>2. CASE app[c].stage = "start" /\ Obtain(R(c))
  <2>0. task[R(c)].pc = "new"
    BY <1>2 DEF NotStarted
  <2>1. app' = [app EXCEPT ![c].stage = "reading"] /\ app' \in [Copies -> App]
        /\ UNCHANGED <<at, bytes, download, upload, target, unseen, crashed>>
    BY <1>1, <1>2 DEF OpenDocument, App
  <2>2. \A d \in Copies : app'[d].stage \in {"start", "reading"} =>
          app[d].stage \in {"start", "reading"} /\ R(c) # W(d)
    BY <1>1, <1>2, <2>1 DEF R, W, App
  <2>4. \A d \in Copies : app'[d].stage = "start" =>
          app[d].stage = "start" /\ R(c) # R(d)
    BY <1>1, <1>2, <2>1 DEF R, App
  <2>3. \A d \in Copies : R(c) # W(d)
    BY DEF R, W
  <2> QED BY <1>2, <2>0, <2>1, <2>2, <2>3, <2>4, ObtainKeeps, TasksOf
<1>3. CASE app[c].stage = "reading" /\ Obtain(W(c))
  <2>1. app' = [app EXCEPT ![c].stage = "copying"] /\ app' \in [Copies -> App]
        /\ UNCHANGED <<at, bytes, download, upload, target, unseen, crashed>>
    BY <1>1, <1>3 DEF OpenDocument, App
  <2>2. task[W(c)].pc = "new" /\ c \notin unseen
    BY <1>3 DEF NotStarted, WritesAreSeen
  <2>3. \A d \in Copies : app'[d].stage \in {"start", "reading"} =>
          app[d].stage \in {"start", "reading"} /\ W(c) # W(d)
    BY <1>1, <1>3, <2>1 DEF App, W
  <2>4. \A d \in Copies : app'[d].stage = "start" =>
          app[d].stage = "start" /\ W(c) # R(d)
    BY <1>1, <1>3, <2>1 DEF App, R, W
  <2>5. \A d \in Copies : W(c) = W(d) => d \notin unseen
    BY <2>2 DEF W
  <2> QED BY <1>3, <2>1, <2>2, <2>3, <2>4, <2>5, ObtainKeeps, TasksOf
<1> QED BY <1>2, <1>3 DEF OpenDocument

\* A step of an app that leaves tasks, buffers and files alone
LEMMA AppKeeps ==
  ASSUME TransferInv, app' \in [Copies -> App],
         download' \in [Copies -> Pipe], upload' \in [Copies -> Pipe],
         \A c \in Copies : app'[c].stage \in {"start", "reading"} =>
           app'[c].stage = app[c].stage,
         UNCHANGED <<task, at, bytes, pool, target, unseen, crashed>>
  PROVE  TransferInv'
BY DEF TransferInv, TypeOK, App, BuffersFilled, BuffersHeld, NotStarted,
       BuffersExclusive, WritesAreSeen

LEMMA CopyKeeps ==
  ASSUME TransferInv, NEW c \in Copies, Take(c) \/ Give(c) \/ Leave(c)
  PROVE  TransferInv'
<1> USE DEF TransferInv
<1>1. /\ app \in [Copies -> App] /\ app[c].held \in Seq(Nat)
      /\ download \in [Copies -> Pipe] /\ download[c].data \in Seq(Nat)
      /\ upload \in [Copies -> Pipe] /\ upload[c].data \in Seq(Nat)
      /\ app[c].stage = "copying"
      /\ UNCHANGED <<task, at, bytes, pool, target, unseen, crashed>>
  BY DEF TypeOK, App, Pipe, Take, Give, Leave
<1>2. CASE Take(c)
  <2>1. Head(download[c].data) \in Nat /\ Tail(download[c].data) \in Seq(Nat)
    BY <1>1, <1>2, HeadTailProperties DEF Take
  <2>2. <<Head(download[c].data)>> \in Seq(Nat)
    BY <2>1
  <2>3. app' \in [Copies -> App] /\ \A d \in Copies : app'[d].stage = app[d].stage
    BY <1>1, <1>2, <2>2 DEF Take, App
  <2>4. download' \in [Copies -> Pipe] /\ UNCHANGED upload
    BY <1>1, <1>2, <2>1 DEF Take, Pipe
  <2> QED BY <1>1, <2>3, <2>4, AppKeeps
<1>3. CASE Give(c)
  <2>1. upload[c].data \o app[c].held \in Seq(Nat) /\ <<>> \in Seq(Nat)
    BY <1>1, ConcatProperties, EmptySeq
  <2>2. app' \in [Copies -> App] /\ \A d \in Copies : app'[d].stage = app[d].stage
    BY <1>1, <1>3, <2>1 DEF Give, App
  <2>3. upload' \in [Copies -> Pipe] /\ UNCHANGED download
    BY <1>1, <1>3, <2>1 DEF Give, Pipe
  <2> QED BY <1>1, <2>2, <2>3, AppKeeps
<1>4. CASE Leave(c)
  <2>1. app' \in [Copies -> App]
        /\ \A d \in Copies : app'[d].stage = app[d].stage \/ app'[d].stage = "left"
    <3>1. [stage |-> "left", held |-> <<>>] \in App
      BY EmptySeq DEF App
    <3>2. app' = [app EXCEPT ![c] = [stage |-> "left", held |-> <<>>]]
      BY <1>4 DEF Leave
    <3> QED BY <1>1, <3>1, <3>2
  <2>2. download' \in [Copies -> Pipe] /\ upload' \in [Copies -> Pipe]
    <3>1. /\ download' = [download EXCEPT ![c].gone = TRUE]
          /\ upload' = [upload EXCEPT ![c].end = "ok"]
      BY <1>4 DEF Leave
    <3>2. download' \in [Copies -> Pipe]
      BY <1>1, <3>1, PipesStay
    <3>3. upload' \in [Copies -> Pipe]
      BY <1>1, <3>1, PipesStay
    <3> QED BY <3>2, <3>3
  <2> QED BY <1>1, <2>1, <2>2, AppKeeps
<1> QED BY <1>2, <1>3, <1>4

LEMMA AgainKeeps ==
  ASSUME TransferInv, NEW c \in Copies, Again(c)
  PROVE  TransferInv'
<1> USE DEF TransferInv
<1>1. task \in [Tasks -> Task] /\ R(c) \in Tasks /\ W(c) \in Tasks /\ R(c) # W(c)
  BY TasksTyped, TasksOf
<1>2. NewTask \in Task /\ NewPipe \in Pipe
  BY EmptySeq DEF NewTask, Task, Pcs, NewPipe, Pipe
<1>3. /\ task' \in [Tasks -> Task]
      /\ task'[R(c)] = NewTask /\ task'[W(c)] = NewTask
      /\ \A u \in Tasks \ {R(c), W(c)} : task'[u] = task[u]
      /\ task[W(c)].pc = "done"
  BY <1>1, <1>2 DEF Again
<1>4. NewTask.pc = "new" /\ NewTask.buffer = Null
  BY DEF NewTask
<1>5. /\ app' \in [Copies -> App]
      /\ \A d \in Copies \ {c} : app'[d] = app[d]
      /\ UNCHANGED <<at, bytes, pool, target, unseen, crashed>>
  BY DEF Again, TypeOK, App
<1>6. download' \in [Copies -> Pipe] /\ upload' \in [Copies -> Pipe]
  BY <1>2 DEF Again, TypeOK
<1>7. TypeOK'
  BY <1>3, <1>5, <1>6 DEF TypeOK, Task, Pcs, App
<1>8. BuffersHeld' /\ BuffersFilled'
  BY <1>3, <1>4, <1>5 DEF BuffersHeld, BuffersFilled
<1>9. NotStarted'
  BY <1>3, <1>4, <1>5, TasksOf DEF NotStarted
<1>10. BuffersExclusive'
  BY <1>3, <1>4, <1>5 DEF BuffersExclusive
<1>11. WritesAreSeen'
  <2>1. c \notin unseen
    BY <1>3 DEF WritesAreSeen
  <2>2. \A d \in Copies \ {c} : W(d) \in Tasks \ {R(c), W(c)}
    BY TasksOf DEF R, W
  <2> QED BY <1>3, <1>5, <2>1, <2>2 DEF WritesAreSeen, TypeOK
<1> QED BY <1>5, <1>7, <1>8, <1>9, <1>10, <1>11

-----------------------------------------------------------------------------
LEMMA TransferNext == TransferInv /\ [Next]_vars => TransferInv'
<1> SUFFICES ASSUME TransferInv, [Next]_vars PROVE TransferInv'
  OBVIOUS
<1>1. CASE UNCHANGED vars
  BY <1>1 DEF vars, TransferInv, TypeOK, BuffersFilled, BuffersHeld, NotStarted,
     BuffersExclusive, WritesAreSeen
<1>2. ASSUME NEW t \in Tasks, TaskStep(t) \/ Refuse(t) \/ Fail(t)
      PROVE  TransferInv'
  <2>1. t[1] \in Copies
    BY TasksOf
  <2> QED BY <1>2, <2>1, RunKeeps, OpenFileKeeps, CloseKeeps, PostExecuteKeeps,
             ReadFileKeeps, ReadEndKeeps, GetBytesKeeps, SendKeeps, ReceiveKeeps,
             PutBytesKeeps, WriteFileKeeps, RefuseKeeps, FailKeeps
          DEF TaskStep
<1>3. ASSUME NEW c \in Copies, AppStep(c) \/ Leave(c) \/ Again(c)
      PROVE  TransferInv'
  BY <1>3, OpenDocumentKeeps, CopyKeeps, AgainKeeps DEF AppStep, CopyEnds
<1> QED BY <1>1, <1>2, <1>3 DEF Next

THEOREM TransferInvCorrect == Spec => []TransferInv
<1> QED BY TransferInit, TransferNext, PTL DEF Spec

\* The variables have their types, and the pool never holds too many buffers.
THEOREM TypeCorrect == Spec => []TypeOK
<1>1. TransferInv => TypeOK
  BY DEF TransferInv
<1> QED BY TransferInvCorrect, <1>1, PTL

\* No two tasks ever share a buffer, nor is one given out that is in use.
THEOREM BuffersAlwaysExclusive == Spec => []BuffersExclusive
<1>1. TransferInv => BuffersExclusive
  BY DEF TransferInv
<1> QED BY TransferInvCorrect, <1>1, PTL

\* When no task works on a file, no metadata from before its last write is left.
THEOREM WritesSeen == Spec => []WritesAreSeen
<1>1. TransferInv => WritesAreSeen
  BY DEF TransferInv
<1> QED BY TransferInvCorrect, <1>1, PTL

-----------------------------------------------------------------------------
(***************************************************************************)
(* What the targets get.  A copy is a stream in six pieces: what has been  *)
(* written, what the writer has in hand, the pipe to it, the byte the app  *)
(* holds, the pipe from the reader, and what the reader has in hand.  Each *)
(* begins in the source where the one before it ends, as long as somebody  *)
(* passes it on.                                                           *)
(***************************************************************************)

\* s is what the source has after the first k bytes
From(k, s) == k + Len(s) <= Len(Source) /\ \A i \in 1..Len(s) : s[i] = Source[k + i]

Writing(c) == task[W(c)].pc \in {"new", "queued", "open", "move", "put", "write"}
Reading(c) == task[R(c)].pc \in {"new", "queued", "open", "move", "get", "send"}

Arrived(c) == IF task[W(c)].pc \in {"new", "queued", "open"} THEN <<>> ELSE target[c]
ToWrite(c) == IF task[W(c)].pc \in {"put", "write"} THEN task[W(c)].buf ELSE <<>>
ToSend(c) == IF task[R(c)].pc = "get" THEN bytes[task[R(c)].buffer]
             ELSE IF task[R(c)].pc = "send" THEN task[R(c)].buf ELSE <<>>

\* How far the reader is
Progress(c) == IF task[R(c)].pc \in {"new", "queued", "open"} THEN 0 ELSE at[c]

ReachesWriter(c) ==
  /\ From(0, Arrived(c))
  /\ From(Len(Arrived(c)), ToWrite(c))
  /\ From(Len(Arrived(c)) + Len(ToWrite(c)), upload[c].data)

Given(c) == Len(Arrived(c)) + Len(ToWrite(c)) + Len(upload[c].data)

ReachesApp(c) ==
  /\ From(Given(c), app[c].held)
  /\ From(Given(c) + Len(app[c].held), download[c].data)

Sent(c) == Given(c) + Len(app[c].held) + Len(download[c].data)

LeavesReader(c) == From(Sent(c), ToSend(c)) /\ Sent(c) + Len(ToSend(c)) = Progress(c)

InOrder(c) ==
  Writing(c) =>
    /\ ReachesWriter(c)
    /\ app[c].stage # "left" => ReachesApp(c) /\ (Reading(c) => LeavesReader(c))

\* Buffers that nobody uses are empty, and so is that of a writer until put.
UnusedEmpty ==
  \A b \in Buffers : (\A t \in Tasks : task[t].buffer # b) => bytes[b] = <<>>

IdleHaveNone == \A t \in Tasks : task[t].pc \in {"new", "done"} => task[t].buffer = Null

WriterBuffer(c) ==
  /\ task[W(c)].pc \in {"queued", "open", "move", "put"} => bytes[task[W(c)].buffer] = <<>>
  /\ task[W(c)].pc = "write" => bytes[task[W(c)].buffer] = task[W(c)].buf

NothingHeld == \A c \in Copies : app[c].stage # "copying" => app[c].held = <<>>

StreamInv ==
  /\ UnusedEmpty
  /\ IdleHaveNone
  /\ NothingHeld
  /\ \A c \in Copies : WriterBuffer(c) /\ InOrder(c) /\ From(0, target[c])

(* Pieces of the source *)

LEMMA SourceTyped ==
  Source \in Seq(Nat) /\ Len(Source) \in Nat /\ \A i \in 1..Len(Source) : Source[i] \in Nat
BY FileTransferAssumption, LenProperties, ElementOfSeq

LEMMA NothingFrom == \A k \in 0..Len(Source) : From(k, <<>>)
BY SourceTyped DEF From

LEMMA PartFrom ==
  ASSUME NEW k \in Nat, NEW n \in Nat, k + n <= Len(Source)
  PROVE  /\ From(k, SubSeq(Source, k + 1, k + n)) /\ Len(SubSeq(Source, k + 1, k + n)) = n
         /\ SubSeq(Source, k + 1, k + n) \in Seq(Nat)
<1> DEFINE s == SubSeq(Source, k + 1, k + n)
<1>1. k + 1 \in Nat \ {0} /\ k + n \in Nat /\ \A i \in (k + 1)..(k + n) : Source[i] \in Nat
  BY SourceTyped
<1>2. s \in Seq(Nat) /\ Len(s) = n /\ \A i \in 1..n : s[i] = Source[k + i]
  BY <1>1, SourceTyped, SubSeqProperties
<1> QED BY <1>2 DEF From

LEMMA JoinedFrom ==
  ASSUME NEW k \in Nat, NEW s \in Seq(Nat), NEW t \in Seq(Nat),
         From(k, s), From(k + Len(s), t)
  PROVE  From(k, s \o t) /\ Len(s \o t) = Len(s) + Len(t) /\ s \o t \in Seq(Nat)
<1>1. Len(s) \in Nat /\ Len(t) \in Nat /\ Len(Source) \in Nat
  BY LenProperties, SourceTyped
<1>2. /\ s \o t \in Seq(Nat) /\ Len(s \o t) = Len(s) + Len(t)
      /\ \A i \in 1..Len(s \o t) : (s \o t)[i] = IF i <= Len(s) THEN s[i] ELSE t[i - Len(s)]
  BY ConcatProperties
<1>3. ASSUME NEW i \in 1..Len(s \o t) PROVE (s \o t)[i] = Source[k + i]
  <2>1. CASE i <= Len(s)
    BY <1>1, <1>2, <2>1 DEF From
  <2>2. CASE ~(i <= Len(s))
    <3>1. i - Len(s) \in 1..Len(t) /\ (k + Len(s)) + (i - Len(s)) = k + i
      BY <1>1, <1>2, <2>2
    <3>2. (s \o t)[i] = t[i - Len(s)]
      BY <1>2, <2>2
    <3> QED BY <3>1, <3>2 DEF From
  <2> QED BY <2>1, <2>2
<1> QED BY <1>1, <1>2, <1>3 DEF From

LEMMA DividedFrom ==
  ASSUME NEW k \in Nat, NEW s \in Seq(Nat), From(k, s), NEW n \in 0..Len(s)
  PROVE  /\ From(k, SubSeq(s, 1, n)) /\ Len(SubSeq(s, 1, n)) = n
         /\ SubSeq(s, 1, n) \in Seq(Nat)
         /\ From(k + n, SubSeq(s, n + 1, Len(s))) /\ Len(SubSeq(s, n + 1, Len(s))) = Len(s) - n
         /\ SubSeq(s, n + 1, Len(s)) \in Seq(Nat)
<1>1. /\ Len(s) \in Nat /\ n \in Nat /\ n <= Len(s) /\ Len(Source) \in Nat
      /\ \A i \in 1..Len(s) : s[i] \in Nat
  <2>1. Len(s) \in Nat /\ \A i \in 1..Len(s) : s[i] \in Nat
    BY LenProperties, ElementOfSeq
  <2> QED BY <2>1, SourceTyped
<1> DEFINE p == SubSeq(s, 1, n)
           q == SubSeq(s, n + 1, Len(s))
<1>2. p \in Seq(Nat) /\ Len(p) = n /\ \A i \in 1..n : p[i] = s[i]
  <2>1. \A i \in 1..n : s[i] \in Nat
    BY <1>1
  <2> QED BY <1>1, <2>1, SubSeqProperties
<1>3. q \in Seq(Nat) /\ Len(q) = Len(s) - n /\ \A i \in 1..(Len(s) - n) : q[i] = s[n + i]
  <2>1. \A i \in (n + 1)..Len(s) : s[i] \in Nat
    BY <1>1
  <2>2. PICK m \in Int, l \in Int : m = n + 1 /\ l = Len(s)
    BY <1>1
  <2>3. /\ SubSeq(s, m, l) \in Seq(Nat)
        /\ Len(SubSeq(s, m, l)) = IF m <= l THEN l - m + 1 ELSE 0
        /\ \A i \in 1..l - m + 1 : SubSeq(s, m, l)[i] = s[m + i - 1]
    BY <2>1, <2>2, SubSeqProperties
  <2>4. l - m + 1 = Len(s) - n /\ (m <= l \/ Len(s) - n = 0)
        /\ \A i \in 1..(Len(s) - n) : m + i - 1 = n + i
    BY <1>1, <2>2
  <2>5. q = SubSeq(s, m, l)
    BY <2>2
  <2>6. Len(q) = Len(s) - n /\ q \in Seq(Nat)
    BY <2>3, <2>4, <2>5
  <2>7. ASSUME NEW i \in 1..(Len(s) - n) PROVE q[i] = s[n + i]
    <3>1. i \in 1..l - m + 1 /\ m + i - 1 = n + i
      BY <2>4
    <3> HIDE DEF q
    <3> QED BY <2>3, <2>5, <3>1
  <2> HIDE DEF q
  <2> QED BY <2>6, <2>7
<1> HIDE DEF p, q
<1>4. From(k, p)
  <2>1. \A i \in 1..Len(p) : i \in 1..Len(s) /\ p[i] = s[i]
    BY <1>1, <1>2
  <2>2. k + Len(p) <= Len(Source)
    BY <1>1, <1>2 DEF From
  <2> QED BY <2>1, <2>2 DEF From
<1>5. From(k + n, q)
  <2>1. \A i \in 1..Len(q) : n + i \in 1..Len(s) /\ q[i] = s[n + i] /\ k + (n + i) = (k + n) + i
    BY <1>1, <1>3
  <2>2. (k + n) + Len(q) <= Len(Source)
    BY <1>1, <1>3 DEF From
  <2>3. \A i \in 1..Len(q) : q[i] = Source[(k + n) + i]
    BY <2>1 DEF From
  <2> QED BY <2>2, <2>3 DEF From
<1> QED BY <1>2, <1>3, <1>4, <1>5 DEF p, q

LEMMA HeadFrom ==
  ASSUME NEW k \in Nat, NEW s \in Seq(Nat), From(k, s), s # <<>>
  PROVE  /\ From(k, <<Head(s)>>) /\ Len(<<Head(s)>>) = 1 /\ <<Head(s)>> \in Seq(Nat)
         /\ From(k + 1, Tail(s)) /\ Len(Tail(s)) = Len(s) - 1 /\ Tail(s) \in Seq(Nat)
<1>1. /\ Len(s) \in Nat \ {0} /\ Len(Source) \in Nat
      /\ Head(s) \in Nat /\ Head(s) = s[1]
      /\ Tail(s) \in Seq(Nat) /\ Len(Tail(s)) = Len(s) - 1
      /\ \A i \in 1..Len(Tail(s)) : Tail(s)[i] = s[i + 1]
  BY LenProperties, EmptySeq, HeadTailProperties, SourceTyped
<1>2. PICK h : h = Head(s)
  OBVIOUS
<1>3. h \in Nat /\ h = s[1]
  BY <1>1, <1>2
<1>4. <<h>> \in Seq(Nat) /\ Len(<<h>>) = 1 /\ <<h>>[1] = h
  BY <1>3
<1>5. h = Source[k + 1] /\ k + 1 <= Len(Source)
  BY <1>1, <1>3 DEF From
<1>6. From(k, <<h>>)
  BY <1>4, <1>5 DEF From
<1>7. \A i \in 1..Len(Tail(s)) : i + 1 \in 1..Len(s) /\ k + (i + 1) = (k + 1) + i
  BY <1>1
<1>8. From(k + 1, Tail(s))
  <2>1. ASSUME NEW i \in 1..Len(Tail(s))
        PROVE  Tail(s)[i] = Source[(k + 1) + i]
    <3>1. s[i + 1] = Source[k + (i + 1)]
      BY <1>7 DEF From
    <3>2. Tail(s)[i] = s[i + 1] /\ k + (i + 1) = (k + 1) + i
      BY <1>1, <1>7
    <3> QED BY ONLY <3>1, <3>2
  <2>2. (k + 1) + Len(Tail(s)) <= Len(Source)
    <3>1. k + Len(s) <= Len(Source)
      BY DEF From
    <3> QED BY <1>1, <3>1
  <2> QED BY ONLY <2>1, <2>2 DEF From
<1> QED BY <1>1, <1>2, <1>4, <1>6, <1>8

LEMMA FromIsPrefix ==
  ASSUME NEW s \in Seq(Nat), From(0, s)
  PROVE  Len(s) <= Len(Source) /\ s = SubSeq(Source, 1, Len(s))
<1>1. Len(s) \in Nat /\ Len(Source) \in Nat /\ Len(s) <= Len(Source)
  BY LenProperties, SourceTyped DEF From
<1>2. \A i \in 1..Len(s) : Source[i] \in Nat
  BY <1>1, SourceTyped
<1>3. /\ SubSeq(Source, 1, Len(s)) \in Seq(Nat) /\ Len(SubSeq(Source, 1, Len(s))) = Len(s)
      /\ \A i \in 1..Len(s) : SubSeq(Source, 1, Len(s))[i] = Source[i]
  BY <1>1, <1>2, SourceTyped, SubSeqProperties
<1>4. \A i \in 1..Len(s) : s[i] = Source[i]
  BY <1>1, SourceTyped DEF From
<1> QED BY <1>1, <1>3, <1>4, SeqEqual

(* The pieces of a copy *)

LEMMA SumsTyped == \A i, j, k \in Nat : i + j + k \in Nat
OBVIOUS

LEMMA PiecesTyped ==
  ASSUME TransferInv, NEW c \in Copies
  PROVE  /\ Arrived(c) \in Seq(Nat) /\ Len(Arrived(c)) \in Nat
         /\ ToWrite(c) \in Seq(Nat) /\ Len(ToWrite(c)) \in Nat
         /\ upload[c].data \in Seq(Nat) /\ Len(upload[c].data) \in Nat
         /\ app[c].held \in Seq(Nat) /\ Len(app[c].held) \in Nat
         /\ download[c].data \in Seq(Nat) /\ Len(download[c].data) \in Nat
         /\ ToSend(c) \in Seq(Nat) /\ Len(ToSend(c)) \in Nat
         /\ target[c] \in Seq(Nat) /\ Len(target[c]) \in Nat
         /\ at[c] \in Nat /\ Given(c) \in Nat /\ Sent(c) \in Nat /\ Len(<<>>) = 0
<1> USE DEF TransferInv
<1>1. task \in [Tasks -> Task] /\ W(c) \in Tasks /\ R(c) \in Tasks /\ <<>> \in Seq(Nat)
  BY TasksTyped, TasksOf, EmptySeq
<1>2. task[W(c)].buf \in Seq(Nat) /\ task[R(c)].buf \in Seq(Nat)
  BY <1>1 DEF Task
<1>3. task[R(c)].pc = "get" => task[R(c)].buffer \in Buffers
  BY <1>1 DEF BuffersHeld, Task
<1>4. /\ upload[c].data \in Seq(Nat) /\ app[c].held \in Seq(Nat)
      /\ download[c].data \in Seq(Nat) /\ target[c] \in Seq(Nat)
  BY DEF TypeOK, Pipe
<1>5. Arrived(c) \in Seq(Nat) /\ ToWrite(c) \in Seq(Nat)
  BY <1>1, <1>2, <1>4 DEF Arrived, ToWrite
<1>6. ToSend(c) \in Seq(Nat)
  BY <1>1, <1>2, <1>3 DEF ToSend, TypeOK
<1>7. at[c] \in Nat
  BY SourceTyped DEF TypeOK
<1>8. /\ Len(Arrived(c)) \in Nat /\ Len(ToWrite(c)) \in Nat /\ Len(upload[c].data) \in Nat
      /\ Len(app[c].held) \in Nat /\ Len(download[c].data) \in Nat /\ Len(ToSend(c)) \in Nat
      /\ Len(target[c]) \in Nat /\ Len(<<>>) = 0
  BY <1>4, <1>5, <1>6, LenProperties
<1>9. Given(c) \in Nat
  BY <1>8, SumsTyped, Zenon DEF Given
<1>10. Sent(c) \in Nat
  BY <1>8, <1>9, SumsTyped, Zenon DEF Sent
<1> QED BY <1>4, <1>5, <1>6, <1>7, <1>8, <1>9, <1>10

\* A copy is in order as long as its pieces stay, or nobody passes them on.
LEMMA PiecesStay ==
  ASSUME NEW c \in Copies, InOrder(c),
         Writing(c)' => Writing(c),
         Writing(c)' => Arrived(c)' = Arrived(c) /\ ToWrite(c)' = ToWrite(c),
         upload'[c].data = upload[c].data,
         app'[c].stage # "left" => /\ app[c].stage # "left" /\ app'[c].held = app[c].held
                                   /\ download'[c].data = download[c].data,
         Reading(c)' => Reading(c) /\ ToSend(c)' = ToSend(c) /\ Progress(c)' = Progress(c)
  PROVE  InOrder(c)'
<1> SUFFICES ASSUME Writing(c)'
             PROVE  /\ ReachesWriter(c)'
                    /\ app'[c].stage # "left" => ReachesApp(c)' /\ (Reading(c)' => LeavesReader(c)')
  BY DEF InOrder
<1>1. ReachesWriter(c)' /\ Given(c)' = Given(c)
  BY DEF InOrder, ReachesWriter, Given
<1>2. ASSUME app'[c].stage # "left" PROVE ReachesApp(c)' /\ Sent(c)' = Sent(c)
  BY <1>1, <1>2 DEF InOrder, ReachesApp, Sent
<1>3. ASSUME app'[c].stage # "left", Reading(c)' PROVE LeavesReader(c)'
  BY <1>2, <1>3 DEF InOrder, LeavesReader
<1> QED BY <1>1, <1>2, <1>3

LEMMA WriterAside ==
  ASSUME NEW c \in Copies, task'[W(c)] = task[W(c)], target'[c] = target[c]
  PROVE  /\ Arrived(c)' = Arrived(c) /\ ToWrite(c)' = ToWrite(c)
         /\ Writing(c)' <=> Writing(c)
BY DEF Arrived, ToWrite, Writing

LEMMA ReaderAside ==
  ASSUME NEW c \in Copies, task'[R(c)] = task[R(c)], at'[c] = at[c],
         task[R(c)].pc = "get" => bytes'[task[R(c)].buffer] = bytes[task[R(c)].buffer]
  PROVE  /\ ToSend(c)' = ToSend(c) /\ Progress(c)' = Progress(c)
         /\ Reading(c)' <=> Reading(c)
BY DEF ToSend, Progress, Reading

LEMMA OtherBuffers ==
  ASSUME TransferInv, NEW t \in Tasks, NEW u \in Tasks \ {t}, task[u].pc \notin {"new", "done"}
  PROVE  task[u].buffer \in Buffers \ {task[t].buffer}
<1>1. task[u].buffer \in Buffers
  BY TasksTyped DEF TransferInv, BuffersHeld, Task
<1> QED BY <1>1, FileTransferAssumption DEF TransferInv, BuffersExclusive

\* A step of a task that is under way changes its own buffer only.
Moves(t) ==
  /\ task[t].pc \notin {"new", "done"} /\ task'[t].pc \notin {"new", "done"}
  /\ task'[t].buffer = task[t].buffer
  /\ \A u \in Tasks \ {t} : task'[u] = task[u]
  /\ \A b \in Buffers \ {task[t].buffer} : bytes'[b] = bytes[b]
  /\ app' = app
  /\ \A d \in Copies \ {t[1]} :
       /\ upload'[d].data = upload[d].data /\ download'[d].data = download[d].data
       /\ target'[d] = target[d] /\ at'[d] = at[d]

\* What a step of t, of the copy c, has to show
LEMMA MovesInOrder ==
  ASSUME TransferInv, StreamInv, NEW t \in Tasks, NEW c \in Copies, c = t[1], Moves(t),
         t = W(c) => WriterBuffer(c)', InOrder(c)', From(0, target'[c])
  PROVE  StreamInv'
<1> USE DEF StreamInv
<1>1. ASSUME NEW d \in Copies \ {c}
      PROVE  /\ R(d) \in Tasks \ {t} /\ W(d) \in Tasks \ {t}
             /\ task'[R(d)] = task[R(d)] /\ task'[W(d)] = task[W(d)]
  BY <1>1, TasksOf DEF Moves
<1>2. ASSUME NEW d \in Copies, W(d) \in Tasks \ {t} PROVE WriterBuffer(d)'
  <2>1. task'[W(d)] = task[W(d)] /\ WriterBuffer(d)
    BY <1>2 DEF Moves
  <2>2. task[W(d)].pc \notin {"new", "done"} =>
          bytes'[task[W(d)].buffer] = bytes[task[W(d)].buffer]
    BY <1>2, OtherBuffers DEF Moves
  <2> QED BY <2>1, <2>2 DEF WriterBuffer
<1>3. \A d \in Copies : WriterBuffer(d)'
  BY <1>1, <1>2, TasksOf
<1>4. ASSUME NEW d \in Copies \ {c} PROVE InOrder(d)' /\ From(0, target'[d])
  <2>1. task[R(d)].pc = "get" => bytes'[task[R(d)].buffer] = bytes[task[R(d)].buffer]
    BY <1>1, OtherBuffers DEF Moves
  <2>2. /\ target'[d] = target[d] /\ at'[d] = at[d] /\ app' = app
        /\ upload'[d].data = upload[d].data /\ download'[d].data = download[d].data
    BY DEF Moves
  <2>3. InOrder(d)'
    BY <1>1, <2>1, <2>2, WriterAside, ReaderAside, PiecesStay
  <2> QED BY <2>2, <2>3
<1>5. \A u \in Tasks : task'[u].buffer = task[u].buffer
  BY DEF Moves
<1>6. UnusedEmpty'
  BY <1>5 DEF UnusedEmpty, Moves
<1>7. IdleHaveNone'
  BY DEF IdleHaveNone, Moves
<1>8. NothingHeld'
  BY DEF NothingHeld, Moves
<1> QED BY <1>3, <1>4, <1>6, <1>7, <1>8

(* Steps that pass nothing on *)

LEMMA RunInOrder ==
  ASSUME TransferInv, StreamInv, NEW t \in Tasks, Run(t)
  PROVE  StreamInv'
<1> USE DEF TransferInv, StreamInv
<1>1. task \in [Tasks -> Task] /\ Goto(t, "open") /\ "open" \in Pcs
  BY TasksTyped DEF Run, Pcs
<1>2. /\ task'[t].pc = "open" /\ task'[t].buffer = task[t].buffer
      /\ task[t].pc = "queued"
      /\ \A u \in Tasks \ {t} : task'[u] = task[u]
      /\ bytes' = bytes /\ download' = download /\ upload' = upload /\ app' = app
      /\ target' = target /\ at' = at
  BY <1>1, GotoMoves DEF Run
<1>3. PICK c \in Copies : c = t[1] /\ (t = R(c) \/ t = W(c)) /\ R(c) # W(c)
  BY TasksOf
<1>4. R(c) \in Tasks /\ W(c) \in Tasks
  BY TasksOf
<1>5. InOrder(c)'
  <2>1. /\ Arrived(c)' = Arrived(c) /\ ToWrite(c)' = ToWrite(c) /\ Writing(c)' = Writing(c)
    BY <1>2, <1>3, <1>4 DEF Arrived, ToWrite, Writing
  <2>2. /\ ToSend(c)' = ToSend(c) /\ Progress(c)' = Progress(c) /\ Reading(c)' = Reading(c)
    BY <1>2, <1>3, <1>4 DEF ToSend, Progress, Reading
  <2> QED BY <1>2, <2>1, <2>2, PiecesStay
<1>6. t = W(c) => WriterBuffer(c)'
  BY <1>2 DEF WriterBuffer
<1>7. From(0, target'[c])
  BY <1>2
<1>8. Moves(t)
  BY <1>2 DEF Moves
<1> QED BY <1>3, <1>5, <1>6, <1>7, <1>8, MovesInOrder

LEMMA OpenFileInOrder ==
  ASSUME TransferInv, StreamInv, NEW t \in Tasks, OpenFile(t)
  PROVE  StreamInv'
<1> USE DEF TransferInv, StreamInv
<1>1. task \in [Tasks -> Task] /\ Goto(t, "move") /\ "move" \in Pcs
  BY TasksTyped DEF OpenFile, Pcs
<1>2. /\ task'[t].pc = "move" /\ task'[t].buffer = task[t].buffer
      /\ task[t].pc = "open"
      /\ \A u \in Tasks \ {t} : task'[u] = task[u]
      /\ bytes' = bytes /\ download' = download /\ upload' = upload /\ app' = app
  BY <1>1, GotoMoves DEF OpenFile
<1>3. PICK c \in Copies : c = t[1] /\ (t = R(c) \/ t = W(c)) /\ R(c) # W(c)
  BY TasksOf
<1>4. R(c) \in Tasks /\ W(c) \in Tasks
  BY TasksOf
<1>5. at \in [Copies -> 0..Len(Source)] /\ target \in [Copies -> Seq(Nat)]
  BY DEF TypeOK
<1>6. CASE t = R(c)
  <2>1. at' = [at EXCEPT ![c] = 0] /\ target' = target
    BY <1>3, <1>6, TasksOf DEF OpenFile
  <2>2. /\ Arrived(c)' = Arrived(c) /\ ToWrite(c)' = ToWrite(c) /\ (Writing(c)' <=> Writing(c))
    BY <1>2, <1>3, <1>4, <1>6, <2>1, WriterAside
  <2>3. /\ ToSend(c)' = ToSend(c) /\ Progress(c)' = Progress(c) /\ Reading(c)
    BY <1>2, <1>5, <1>6, <2>1 DEF ToSend, Progress, Reading
  <2>4. InOrder(c)'
    BY <1>2, <2>2, <2>3, PiecesStay
  <2>5. Moves(t)
    BY <1>2, <1>3, <1>5, <2>1 DEF Moves
  <2> QED BY <1>3, <1>6, <2>1, <2>4, <2>5, MovesInOrder
<1>7. CASE t = W(c)
  <2>1. target' = [target EXCEPT ![c] = <<>>] /\ at' = at
    BY <1>3, <1>7, TasksOf DEF OpenFile
  <2>2. /\ Arrived(c)' = Arrived(c) /\ ToWrite(c)' = ToWrite(c) /\ Writing(c)
    BY <1>2, <1>5, <1>7, <2>1 DEF Arrived, ToWrite, Writing
  <2>3. /\ ToSend(c)' = ToSend(c) /\ Progress(c)' = Progress(c) /\ (Reading(c)' <=> Reading(c))
    BY <1>2, <1>3, <1>4, <1>7, <2>1, ReaderAside
  <2>4. InOrder(c)'
    BY <1>2, <2>2, <2>3, PiecesStay
  <2>5. Moves(t)
    BY <1>2, <1>3, <1>5, <2>1 DEF Moves
  <2>6. WriterBuffer(c)'
    BY <1>2, <1>7 DEF WriterBuffer
  <2>7. From(0, target'[c])
    BY <1>5, <2>1, NothingFrom, SourceTyped
  <2> QED BY <1>3, <2>4, <2>5, <2>6, <2>7, MovesInOrder
<1> QED BY <1>3, <1>6, <1>7

\* Who ends passes nothing on any more.
LEMMA EndsInOrder ==
  ASSUME TransferInv, StreamInv, NEW t \in Tasks,
         task[t].pc \notin {"new", "done"}, task'[t].pc \in {"close", "posted"},
         task'[t].buffer = task[t].buffer,
         \A u \in Tasks \ {t} : task'[u] = task[u],
         bytes' = bytes, app' = app, target' = target, at' = at,
         \A d \in Copies : upload'[d].data = upload[d].data /\ download'[d].data = download[d].data
  PROVE  StreamInv'
<1> USE DEF StreamInv
<1>1. PICK c \in Copies : c = t[1] /\ (t = R(c) \/ t = W(c)) /\ R(c) # W(c)
  BY TasksOf
<1>2. R(c) \in Tasks /\ W(c) \in Tasks
  BY TasksOf
<1>3. CASE t = R(c)
  <2>1. /\ Arrived(c)' = Arrived(c) /\ ToWrite(c)' = ToWrite(c) /\ (Writing(c)' <=> Writing(c))
    BY <1>1, <1>2, <1>3, WriterAside
  <2>2. ~Reading(c)'
    BY <1>3 DEF Reading
  <2> QED BY <2>1, <2>2, PiecesStay, <1>1, <1>3, MovesInOrder DEF Moves
<1>4. CASE t = W(c)
  <2>1. ~Writing(c)' /\ WriterBuffer(c)'
    BY <1>4 DEF Writing, WriterBuffer
  <2>2. InOrder(c)'
    BY <2>1 DEF InOrder
  <2> QED BY <2>1, <2>2, <1>1, MovesInOrder DEF Moves
<1> QED BY <1>1, <1>3, <1>4

LEMMA FailInOrder ==
  ASSUME TransferInv, StreamInv, NEW t \in Tasks, Fail(t)
  PROVE  StreamInv'
<1>1. task \in [Tasks -> Task] /\ Catch(t) /\ task[t].pc \in {"open", "move", "write"}
  BY TasksTyped DEF Fail, TransferInv
<1>2. UNCHANGED <<at, bytes, download, upload, app, target>>
  BY DEF Fail
<1> QED BY <1>1, <1>2, CatchMoves, EndsInOrder

LEMMA CloseInOrder ==
  ASSUME TransferInv, StreamInv, NEW t \in Tasks, Close(t)
  PROVE  StreamInv'
<1>1. task \in [Tasks -> Task] /\ Goto(t, "posted") /\ task[t].pc = "close" /\ "posted" \in Pcs
  BY TasksTyped DEF Close, TransferInv, Pcs
<1>2. UNCHANGED <<at, bytes, app, target>>
  BY DEF Close
<1>3. download \in [Copies -> Pipe] /\ upload \in [Copies -> Pipe]
  BY DEF TransferInv, TypeOK
<1>4. \A d \in Copies : upload'[d].data = upload[d].data /\ download'[d].data = download[d].data
  <2>1. CASE t[2] = "r"
    <3>1. PICK end : download' = [download EXCEPT ![t[1]].end = end] /\ upload' = upload
      BY <2>1 DEF Close
    <3> QED BY <1>3, <3>1 DEF Pipe
  <2>2. CASE t[2] # "r"
    <3>1. upload' = [upload EXCEPT ![t[1]].gone = TRUE] /\ download' = download
      BY <2>2 DEF Close
    <3> QED BY <1>3, <3>1 DEF Pipe
  <2> QED BY <2>1, <2>2
<1> QED BY <1>1, <1>2, <1>4, GotoMoves, EndsInOrder

LEMMA ReadEndInOrder ==
  ASSUME TransferInv, StreamInv, NEW c \in Copies, ReadEnd(c)
  PROVE  StreamInv'
<1>1. task \in [Tasks -> Task] /\ R(c) \in Tasks /\ Goto(R(c), "close") /\ task[R(c)].pc = "move"
      /\ "close" \in Pcs
  BY TasksTyped, TasksOf DEF ReadEnd, TransferInv, Pcs
<1>2. UNCHANGED <<at, bytes, download, upload, app, target>>
  BY DEF ReadEnd
<1> QED BY <1>1, <1>2, GotoMoves, EndsInOrder

(* Steps that pass bytes on, from the reader to the writer *)

\* What a step of the reader has to show
LEMMA ReaderMoves ==
  ASSUME NEW c \in Copies, InOrder(c), Writing(c)' <=> Writing(c),
         Arrived(c)' = Arrived(c), ToWrite(c)' = ToWrite(c),
         upload'[c].data = upload[c].data, app'[c] = app[c],
         Given(c)' = Given(c) /\ ReachesApp(c) /\ (Reading(c) => LeavesReader(c)) =>
           ReachesApp(c)' /\ (Reading(c)' => LeavesReader(c)')
  PROVE  InOrder(c)'
<1> SUFFICES ASSUME Writing(c)'
             PROVE  /\ ReachesWriter(c)'
                    /\ app'[c].stage # "left" => ReachesApp(c)' /\ (Reading(c)' => LeavesReader(c)')
  BY DEF InOrder
<1>1. ReachesWriter(c)' /\ Given(c)' = Given(c)
  BY DEF InOrder, ReachesWriter, Given
<1> QED BY <1>1 DEF InOrder

LEMMA ReadFileInOrder ==
  ASSUME TransferInv, StreamInv, NEW c \in Copies, NEW n \in 1..Capacity, ReadFile(c, n)
  PROVE  StreamInv'
<1> USE DEF TransferInv, StreamInv
<1>1. task \in [Tasks -> Task] /\ R(c) \in Tasks /\ W(c) \in Tasks /\ R(c) # W(c) /\ R(c)[1] = c
      /\ Goto(R(c), "get") /\ "get" \in Pcs
  BY TasksTyped, TasksOf DEF ReadFile, Pcs
<1>2. /\ task'[R(c)].pc = "get" /\ task'[R(c)].buffer = task[R(c)].buffer
      /\ task[R(c)].pc = "move"
      /\ \A u \in Tasks \ {R(c)} : task'[u] = task[u]
      /\ download' = download /\ upload' = upload /\ app' = app /\ target' = target
  BY <1>1, GotoMoves DEF ReadFile
<1>3. task[R(c)].buffer \in Buffers
  BY <1>1, <1>2 DEF BuffersHeld, Task
<1>4. /\ bytes \in [Buffers -> Seq(Nat)] /\ at \in [Copies -> 0..Len(Source)]
      /\ n \in Nat /\ at[c] \in Nat /\ at[c] + n <= Len(Source)
  BY FileTransferAssumption, SourceTyped DEF ReadFile, TypeOK
<1>5. PICK s : s = SubSeq(Source, at[c] + 1, at[c] + n)
  OBVIOUS
<1>6. bytes' = [bytes EXCEPT ![task[R(c)].buffer] = s] /\ at' = [at EXCEPT ![c] = at[c] + n]
  BY <1>5 DEF ReadFile
<1>7. From(at[c], s) /\ Len(s) = n
  BY <1>4, <1>5, PartFrom
<1>8. Writing(c)' = Writing(c) /\ Arrived(c)' = Arrived(c) /\ ToWrite(c)' = ToWrite(c)
  BY <1>1, <1>2 DEF Writing, Arrived, ToWrite
<1>9. /\ ToSend(c) = <<>> /\ Progress(c) = at[c] /\ Reading(c)
      /\ ToSend(c)' = s /\ Progress(c)' = at[c] + n
  BY <1>2, <1>3, <1>4, <1>6 DEF ToSend, Progress, Reading
<1>10. ASSUME Given(c)' = Given(c), ReachesApp(c), LeavesReader(c)
       PROVE  ReachesApp(c)' /\ LeavesReader(c)'
  <2>1. ReachesApp(c)' /\ Sent(c)' = Sent(c)
    BY <1>2, <1>10 DEF ReachesApp, Sent
  <2>2. Sent(c) = at[c]
    <3>1. Sent(c) \in Nat /\ Len(<<>>) = 0 /\ Sent(c) + Len(<<>>) = at[c]
      BY <1>9, <1>10, PiecesTyped DEF LeavesReader
    <3> QED BY <3>1
  <2> QED BY <1>7, <1>9, <2>1, <2>2 DEF LeavesReader
<1>11. InOrder(c)'
  BY <1>2, <1>8, <1>9, <1>10, ReaderMoves
<1>12. Moves(R(c))
  BY <1>1, <1>2, <1>4, <1>6 DEF Moves
<1> QED BY <1>1, <1>2, <1>11, <1>12, MovesInOrder

LEMMA GetBytesInOrder ==
  ASSUME TransferInv, StreamInv, NEW c \in Copies, GetBytes(c)
  PROVE  StreamInv'
<1> USE DEF TransferInv, StreamInv
<1>1. task \in [Tasks -> Task] /\ R(c) \in Tasks /\ W(c) \in Tasks /\ R(c) # W(c) /\ R(c)[1] = c
      /\ task[R(c)].pc = "get" /\ "send" \in Pcs
  BY TasksTyped, TasksOf DEF GetBytes, Pcs
<1>2. task[R(c)].buffer \in Buffers /\ bytes \in [Buffers -> Seq(Nat)]
  BY <1>1 DEF BuffersHeld, TypeOK, Task
<1>3. PICK s : s = bytes[task[R(c)].buffer]
  OBVIOUS
<1>4. /\ task' = [task EXCEPT ![R(c)].pc = "send", ![R(c)].buf = s] /\ s \in Seq(Nat)
      /\ bytes' = [bytes EXCEPT ![task[R(c)].buffer] = <<>>]
      /\ download' = download /\ upload' = upload /\ app' = app /\ target' = target /\ at' = at
  BY <1>2, <1>3 DEF GetBytes
<1>5. /\ task'[R(c)].pc = "send" /\ task'[R(c)].buf = s /\ task'[R(c)].buffer = task[R(c)].buffer
      /\ \A u \in Tasks \ {R(c)} : task'[u] = task[u]
  BY <1>1, <1>4, BufChanges
<1>6. Writing(c)' = Writing(c) /\ Arrived(c)' = Arrived(c) /\ ToWrite(c)' = ToWrite(c)
  BY <1>1, <1>4, <1>5 DEF Writing, Arrived, ToWrite
<1>7. ToSend(c)' = ToSend(c) /\ Progress(c)' = Progress(c) /\ Reading(c)
  BY <1>1, <1>3, <1>4, <1>5 DEF ToSend, Progress, Reading
<1>8. InOrder(c)'
  BY <1>4, <1>6, <1>7, PiecesStay
<1>9. Moves(R(c))
  BY <1>1, <1>2, <1>4, <1>5 DEF Moves
<1> QED BY <1>1, <1>4, <1>8, <1>9, MovesInOrder

LEMMA SendInOrder ==
  ASSUME TransferInv, StreamInv, NEW c \in Copies, Send(c)
  PROVE  StreamInv'
<1> USE DEF TransferInv, StreamInv
<1>1. task \in [Tasks -> Task] /\ R(c) \in Tasks /\ W(c) \in Tasks /\ R(c) # W(c) /\ R(c)[1] = c
      /\ task[R(c)].pc = "send" /\ task[R(c)].buf \in Seq(Nat)
  BY TasksTyped, TasksOf DEF Send, Task
<1>2. bytes' = bytes /\ upload' = upload /\ app' = app /\ target' = target /\ at' = at
  BY DEF Send
<1>3. CASE task[R(c)].buf # <<>> /\ ~download[c].gone
  <2>1. PICK s, h, r : s = task[R(c)].buf /\ h = Head(s) /\ r = Tail(s)
    OBVIOUS
  <2>2. s \in Seq(Nat) /\ s # <<>> /\ h \in Nat /\ r \in Seq(Nat)
    BY <1>1, <1>3, <2>1, HeadTailProperties
  <2>3. PICK d : d = Append(download[c].data, h)
    OBVIOUS
  <2>4. task' = [task EXCEPT ![R(c)].buf = r] /\ download' = [download EXCEPT ![c].data = d]
    BY <1>3, <2>1, <2>3 DEF Send
  <2>5. /\ task'[R(c)].pc = "send" /\ task'[R(c)].buf = r
        /\ task'[R(c)].buffer = task[R(c)].buffer
        /\ \A u \in Tasks \ {R(c)} : task'[u] = task[u]
    BY <1>1, <2>4 DEF Task
  <2>6. download \in [Copies -> Pipe]
    BY DEF TypeOK
  <2>7. download'[c].data = d /\ \A e \in Copies \ {c} : download'[e] = download[e]
    BY <2>4, <2>6 DEF Pipe
  <2>8. Writing(c)' = Writing(c) /\ Arrived(c)' = Arrived(c) /\ ToWrite(c)' = ToWrite(c)
    BY <1>1, <1>2, <2>5 DEF Writing, Arrived, ToWrite
  <2>9. /\ ToSend(c) = s /\ ToSend(c)' = r /\ Progress(c)' = Progress(c) /\ Reading(c)
    BY <1>1, <1>2, <2>1, <2>5 DEF ToSend, Progress, Reading
  <2>10. ASSUME Given(c)' = Given(c), ReachesApp(c), LeavesReader(c)
         PROVE  ReachesApp(c)' /\ LeavesReader(c)'
    <3>1. PICK k : k = Given(c) + Len(app[c].held)
      OBVIOUS
    <3>2. /\ k \in Nat /\ Len(download[c].data) \in Nat /\ download[c].data \in Seq(Nat)
          /\ Sent(c) = k + Len(download[c].data) /\ Sent(c) \in Nat /\ Len(s) \in Nat
      <4>1. /\ Given(c) \in Nat /\ Len(app[c].held) \in Nat /\ Len(download[c].data) \in Nat
            /\ download[c].data \in Seq(Nat) /\ Sent(c) \in Nat
        BY PiecesTyped
      <4>2. Len(s) \in Nat
        BY <2>2, LenProperties
      <4>3. Sent(c) = k + Len(download[c].data)
        BY <3>1 DEF Sent
      <4> QED BY ONLY <3>1, <4>1, <4>2, <4>3
    <3>3. From(k, download[c].data) /\ From(Given(c), app[c].held)
      BY <2>10, <3>1 DEF ReachesApp
    <3>4. From(Sent(c), s) /\ Sent(c) + Len(s) = Progress(c)
      BY <2>9, <2>10 DEF LeavesReader
    <3>5. /\ From(Sent(c), <<h>>) /\ Len(<<h>>) = 1 /\ <<h>> \in Seq(Nat)
          /\ From(Sent(c) + 1, r) /\ Len(r) = Len(s) - 1
      BY <2>1, <2>2, <3>2, <3>4, HeadFrom
    <3>6. d = download[c].data \o <<h>>
      BY <2>2, <2>3, <3>2, AppendIsConcat
    <3>7. From(k, d) /\ Len(d) = Len(download[c].data) + 1
      BY <3>2, <3>3, <3>5, <3>6, JoinedFrom
    <3>8. ReachesApp(c)'
      BY <1>2, <2>7, <2>10, <3>1, <3>3, <3>7 DEF ReachesApp
    <3>9. Sent(c)' = k + Len(d)
      BY <1>2, <2>7, <2>10, <3>1 DEF Sent
    <3>10. Sent(c)' = Sent(c) + 1 /\ (Sent(c) + 1) + Len(r) = Progress(c)
      BY <3>2, <3>4, <3>5, <3>7, <3>9
    <3>11. LeavesReader(c)'
      BY <2>9, <3>5, <3>10 DEF LeavesReader
    <3> QED BY <3>8, <3>11
  <2>11. InOrder(c)'
    BY <1>2, <2>8, <2>9, <2>10, ReaderMoves
  <2>12. Moves(R(c))
    BY <1>1, <1>2, <2>5, <2>7 DEF Moves
  <2> QED BY <1>1, <1>2, <2>11, <2>12, MovesInOrder
<1>4. CASE task[R(c)].buf # <<>> /\ download[c].gone
  <2>1. Catch(R(c)) /\ download' = download
    BY <1>4 DEF Send
  <2> QED BY <1>1, <1>2, <2>1, CatchMoves, EndsInOrder
<1>5. CASE task[R(c)].buf = <<>>
  <2>1. Goto(R(c), "move") /\ download' = download /\ "move" \in Pcs
    BY <1>5 DEF Send, Pcs
  <2>2. /\ task'[R(c)].pc = "move" /\ task'[R(c)].buffer = task[R(c)].buffer
        /\ \A u \in Tasks \ {R(c)} : task'[u] = task[u]
    BY <1>1, <2>1, GotoMoves
  <2>3. Writing(c)' = Writing(c) /\ Arrived(c)' = Arrived(c) /\ ToWrite(c)' = ToWrite(c)
    BY <1>1, <1>2, <2>2 DEF Writing, Arrived, ToWrite
  <2>4. ToSend(c)' = ToSend(c) /\ Progress(c)' = Progress(c) /\ Reading(c)
    BY <1>1, <1>2, <1>5, <2>2 DEF ToSend, Progress, Reading
  <2>5. InOrder(c)'
    BY <1>2, <2>1, <2>3, <2>4, PiecesStay
  <2>6. Moves(R(c))
    BY <1>1, <1>2, <2>1, <2>2 DEF Moves
  <2> QED BY <1>1, <1>2, <2>5, <2>6, MovesInOrder
<1> QED BY <1>3, <1>4, <1>5 DEF Send

\* What a step of the writer has to show
LEMMA WriterMoves ==
  ASSUME NEW c \in Copies, InOrder(c), Writing(c),
         app'[c] = app[c], download'[c].data = download[c].data,
         ToSend(c)' = ToSend(c), Progress(c)' = Progress(c), Reading(c)' <=> Reading(c),
         ReachesWriter(c) => ReachesWriter(c)' /\ Given(c)' = Given(c)
  PROVE  InOrder(c)'
<1>1. ReachesWriter(c)' /\ Given(c)' = Given(c)
  BY DEF InOrder
<1>2. app[c].stage # "left" => ReachesApp(c)' /\ (Reading(c)' => LeavesReader(c)')
  BY <1>1 DEF InOrder, ReachesApp, LeavesReader, Sent
<1> QED BY <1>1, <1>2 DEF InOrder

LEMMA ReceiveInOrder ==
  ASSUME TransferInv, StreamInv, NEW c \in Copies, Receive(c)
  PROVE  StreamInv'
<1> USE DEF TransferInv, StreamInv
<1>1. task \in [Tasks -> Task] /\ R(c) \in Tasks /\ W(c) \in Tasks /\ R(c) # W(c) /\ W(c)[1] = c
      /\ task[W(c)].pc = "move" /\ "put" \in Pcs /\ "close" \in Pcs
  BY TasksTyped, TasksOf DEF Receive, Pcs
<1>2. bytes' = bytes /\ download' = download /\ app' = app /\ target' = target /\ at' = at
  BY DEF Receive
<1>3. PICK data : data = upload[c].data
  OBVIOUS
<1>4. data \in Seq(Nat) /\ Len(data) \in Nat
  BY <1>3, PiecesTyped
<1>5. ASSUME NEW n \in 1..Len(data),
             task' = [task EXCEPT ![W(c)].pc = "put", ![W(c)].buf = SubSeq(data, 1, n)],
             upload' = [upload EXCEPT ![c].data = SubSeq(data, n + 1, Len(data))]
      PROVE  StreamInv'
  <2>1. PICK p, q : p = SubSeq(data, 1, n) /\ q = SubSeq(data, n + 1, Len(data))
    OBVIOUS
  <2>2. p \in Seq(Nat)
    BY <1>4, <2>1, PartsTyped
  <2>3. /\ task'[W(c)].pc = "put" /\ task'[W(c)].buf = p /\ task'[W(c)].buffer = task[W(c)].buffer
        /\ \A u \in Tasks \ {W(c)} : task'[u] = task[u]
    BY <1>1, <1>5, <2>1, <2>2, BufChanges
  <2>4. upload \in [Copies -> Pipe]
    BY DEF TypeOK
  <2>5. upload'[c].data = q /\ \A e \in Copies \ {c} : upload'[e] = upload[e]
    BY <1>5, <2>1, <2>4 DEF Pipe
  <2>6. /\ Arrived(c)' = Arrived(c) /\ ToWrite(c) = <<>> /\ ToWrite(c)' = p /\ Writing(c)
    BY <1>1, <1>2, <2>3 DEF Writing, Arrived, ToWrite
  <2>7. /\ ToSend(c)' = ToSend(c) /\ Progress(c)' = Progress(c) /\ (Reading(c)' <=> Reading(c))
    BY <1>1, <1>2, <2>3, ReaderAside
  <2>8. ASSUME ReachesWriter(c) PROVE ReachesWriter(c)' /\ Given(c)' = Given(c)
    <3>1. PICK k : k = Len(Arrived(c))
      OBVIOUS
    <3>2. k \in Nat /\ Len(<<>>) = 0
      BY <3>1, PiecesTyped
    <3>3. From(0, Arrived(c)) /\ From(k + Len(<<>>), data)
      BY <1>3, <2>6, <2>8, <3>1 DEF ReachesWriter
    <3>4. From(k, data) /\ n \in 0..Len(data)
      BY <3>2, <3>3
    <3>5. /\ From(k, p) /\ Len(p) = n /\ From(k + n, q) /\ Len(q) = Len(data) - n
      BY <1>4, <2>1, <3>2, <3>4, DividedFrom
    <3>6. ReachesWriter(c)'
      BY <2>5, <2>6, <3>1, <3>3, <3>5 DEF ReachesWriter
    <3>7. Given(c)' = k + n + (Len(data) - n) /\ Given(c) = k + 0 + Len(data)
      BY <1>3, <2>5, <2>6, <3>1, <3>2, <3>5 DEF Given
    <3> QED BY <1>4, <3>2, <3>6, <3>7
  <2>9. InOrder(c)'
    BY <1>2, <2>6, <2>7, <2>8, WriterMoves
  <2>10. WriterBuffer(c)'
    BY <1>1, <1>2, <2>3 DEF WriterBuffer
  <2>11. Moves(W(c))
    BY <1>1, <1>2, <2>3, <2>5 DEF Moves
  <2> QED BY <1>1, <1>2, <2>9, <2>10, <2>11, MovesInOrder
<1>6. CASE Goto(W(c), "close") /\ upload' = upload
  BY <1>1, <1>2, <1>6, GotoMoves, EndsInOrder
<1> QED BY <1>3, <1>5, <1>6 DEF Receive

LEMMA PutBytesInOrder ==
  ASSUME TransferInv, StreamInv, NEW c \in Copies, PutBytes(c)
  PROVE  StreamInv'
<1> USE DEF TransferInv, StreamInv
<1>1. task \in [Tasks -> Task] /\ R(c) \in Tasks /\ W(c) \in Tasks /\ R(c) # W(c) /\ W(c)[1] = c
      /\ task[W(c)].pc = "put" /\ Goto(W(c), "write") /\ "write" \in Pcs
      /\ task[W(c)].buf \in Seq(Nat)
  BY TasksTyped, TasksOf DEF PutBytes, Pcs, Task
<1>2. /\ task'[W(c)].pc = "write" /\ task'[W(c)].buf = task[W(c)].buf
      /\ task'[W(c)].buffer = task[W(c)].buffer
      /\ \A u \in Tasks \ {W(c)} : task'[u] = task[u]
      /\ download' = download /\ upload' = upload /\ app' = app /\ target' = target /\ at' = at
  BY <1>1, GotoMoves DEF PutBytes
<1>3. task[W(c)].buffer \in Buffers /\ bytes \in [Buffers -> Seq(Nat)]
  BY <1>1 DEF BuffersHeld, TypeOK, Task
<1>4. bytes[task[W(c)].buffer] = <<>>
  BY <1>1 DEF WriterBuffer
<1>5. bytes' = [bytes EXCEPT ![task[W(c)].buffer] = task[W(c)].buf]
  BY <1>1, <1>3, <1>4, ConcatEmptySeq DEF PutBytes
<1>6. Arrived(c)' = Arrived(c) /\ ToWrite(c)' = ToWrite(c) /\ Writing(c)
  BY <1>1, <1>2 DEF Writing, Arrived, ToWrite
<1>7. task[R(c)].pc = "get" => bytes'[task[R(c)].buffer] = bytes[task[R(c)].buffer]
  BY <1>1, <1>3, <1>5, OtherBuffers
<1>8. ToSend(c)' = ToSend(c) /\ Progress(c)' = Progress(c) /\ (Reading(c)' <=> Reading(c))
  BY <1>1, <1>2, <1>7, ReaderAside
<1>9. InOrder(c)'
  BY <1>2, <1>6, <1>8, PiecesStay
<1>10. WriterBuffer(c)'
  BY <1>2, <1>3, <1>5 DEF WriterBuffer
<1>11. Moves(W(c))
  BY <1>1, <1>2, <1>3, <1>5 DEF Moves
<1> QED BY <1>1, <1>2, <1>9, <1>10, <1>11, MovesInOrder

\* The whole buffer is written after what is there.
LEMMA WriteFileInOrder ==
  ASSUME TransferInv, StreamInv, ~ShortWrites,
         NEW c \in Copies, NEW n \in 0..Capacity, WriteFile(c, n)
  PROVE  StreamInv'
<1> USE DEF TransferInv, StreamInv
<1>1. task \in [Tasks -> Task] /\ R(c) \in Tasks /\ W(c) \in Tasks /\ R(c) # W(c) /\ W(c)[1] = c
      /\ task[W(c)].pc = "write" /\ Goto(W(c), "move") /\ "move" \in Pcs
      /\ task[W(c)].buf \in Seq(Nat)
  BY TasksTyped, TasksOf DEF WriteFile, Pcs, Task
<1>2. /\ task'[W(c)].pc = "move" /\ task'[W(c)].buffer = task[W(c)].buffer
      /\ \A u \in Tasks \ {W(c)} : task'[u] = task[u]
      /\ download' = download /\ upload' = upload /\ app' = app /\ at' = at
  BY <1>1, GotoMoves DEF WriteFile
<1>3. /\ task[W(c)].buffer \in Buffers /\ bytes \in [Buffers -> Seq(Nat)]
      /\ target \in [Copies -> Seq(Nat)] /\ target[c] \in Seq(Nat)
  BY <1>1 DEF BuffersHeld, TypeOK, Task
<1>4. PICK s : s = task[W(c)].buf
  OBVIOUS
<1>5. s \in Seq(Nat) /\ Len(s) \in Nat /\ bytes[task[W(c)].buffer] = s /\ n = Len(s)
  BY <1>1, <1>4, LenProperties DEF WriterBuffer, WriteFile
<1>6. SubSeq(s, 1, Len(s)) = s
  BY <1>5, SubSeqFull
<1>7. /\ target' = [target EXCEPT ![c] = target[c] \o s]
      /\ bytes' = [bytes EXCEPT ![task[W(c)].buffer] = <<>>]
  BY <1>5, <1>6 DEF WriteFile
<1>8. target'[c] = target[c] \o s /\ \A e \in Copies \ {c} : target'[e] = target[e]
  BY <1>3, <1>7
<1>9. /\ Arrived(c) = target[c] /\ Arrived(c)' = target[c] \o s
      /\ ToWrite(c) = s /\ ToWrite(c)' = <<>> /\ Writing(c)
  BY <1>1, <1>2, <1>4, <1>8 DEF Writing, Arrived, ToWrite
<1>10. task[R(c)].pc = "get" => bytes'[task[R(c)].buffer] = bytes[task[R(c)].buffer]
  BY <1>1, <1>3, <1>7, OtherBuffers
<1>11. ToSend(c)' = ToSend(c) /\ Progress(c)' = Progress(c) /\ (Reading(c)' <=> Reading(c))
  BY <1>1, <1>2, <1>10, ReaderAside
<1>12. ReachesWriter(c)
  BY <1>9 DEF InOrder
<1>13. PICK k, l : k = Len(target[c]) /\ l = Len(s)
  OBVIOUS
<1>14. k \in Nat /\ l \in Nat /\ Len(<<>>) = 0 /\ 0 + k = k
  BY <1>3, <1>5, <1>13, LenProperties
<1>15. From(0, target[c]) /\ From(0 + Len(target[c]), s) /\ From(k + l, upload[c].data)
  BY <1>9, <1>12, <1>13, <1>14 DEF ReachesWriter
<1>16. /\ From(0, target[c] \o s) /\ Len(target[c] \o s) = k + l
  BY <1>3, <1>5, <1>13, <1>15, JoinedFrom
<1>17. k + l \in 0..Len(Source) /\ (k + l) + 0 = k + l
  BY <1>14, <1>16, SourceTyped DEF From
<1>18. ReachesWriter(c)'
  BY <1>2, <1>9, <1>14, <1>15, <1>16, <1>17, NothingFrom DEF ReachesWriter
<1>19. Given(c)' = (k + l) + 0 + Len(upload[c].data) /\ Given(c) = k + l + Len(upload[c].data)
  BY <1>2, <1>9, <1>13, <1>14, <1>16 DEF Given
<1>20. Given(c)' = Given(c)
  BY <1>17, <1>19
<1>21. InOrder(c)'
  BY <1>2, <1>9, <1>11, <1>18, <1>20, WriterMoves
<1>22. WriterBuffer(c)'
  BY <1>2, <1>3, <1>7 DEF WriterBuffer
<1>23. Moves(W(c))
  BY <1>1, <1>2, <1>3, <1>7, <1>8 DEF Moves
<1> QED BY <1>1, <1>8, <1>16, <1>21, <1>22, <1>23, MovesInOrder

(* Steps that begin and end a task *)

LEMMA PostExecuteInOrder ==
  ASSUME TransferInv, StreamInv, NEW t \in Tasks, PostExecute(t)
  PROVE  StreamInv'
<1> USE DEF TransferInv, StreamInv
<1>1. task \in [Tasks -> Task] /\ task[t].pc = "posted" /\ task[t].buffer \in Buffers
      /\ bytes \in [Buffers -> Seq(Nat)]
  BY TasksTyped DEF PostExecute, BuffersHeld, Task, TypeOK
<1>2. /\ task'[t].pc = "done" /\ task'[t].buffer = Null
      /\ \A u \in Tasks \ {t} : task'[u] = task[u]
      /\ bytes' = [bytes EXCEPT ![task[t].buffer] = <<>>]
      /\ download' = download /\ upload' = upload /\ app' = app /\ target' = target /\ at' = at
  BY <1>1 DEF PostExecute, NewTask
<1>3. \A u \in Tasks \ {t} : task[u].pc \notin {"new", "done"} =>
        bytes'[task[u].buffer] = bytes[task[u].buffer]
  BY <1>1, <1>2, OtherBuffers
<1>4. UnusedEmpty'
  BY <1>1, <1>2 DEF UnusedEmpty
<1>5. IdleHaveNone' /\ NothingHeld'
  BY <1>2 DEF IdleHaveNone, NothingHeld
<1>6. ASSUME NEW d \in Copies PROVE WriterBuffer(d)' /\ InOrder(d)' /\ From(0, target'[d])
  <2>1. R(d) \in Tasks /\ W(d) \in Tasks /\ R(d) # W(d)
    BY TasksOf
  <2>2. CASE t = W(d)
    <3>1. ~Writing(d)' /\ WriterBuffer(d)'
      BY <1>2, <2>2 DEF Writing, WriterBuffer
    <3> QED BY <1>2, <3>1 DEF InOrder
  <2>3. CASE t # W(d)
    <3>1. WriterBuffer(d)'
      BY <1>2, <1>3, <2>1, <2>3 DEF WriterBuffer
    <3>2. /\ Arrived(d)' = Arrived(d) /\ ToWrite(d)' = ToWrite(d) /\ (Writing(d)' <=> Writing(d))
      BY <1>2, <2>1, <2>3, WriterAside
    <3>3. Reading(d)' => Reading(d) /\ ToSend(d)' = ToSend(d) /\ Progress(d)' = Progress(d)
      <4>1. CASE t = R(d)
        BY <1>2, <4>1 DEF Reading
      <4>2. CASE t # R(d)
        BY <1>2, <1>3, <2>1, <4>2, ReaderAside
      <4> QED BY <4>1, <4>2
    <3>4. InOrder(d)'
      BY <1>2, <3>2, <3>3, PiecesStay
    <3> QED BY <1>2, <3>1, <3>4
  <2> QED BY <2>2, <2>3
<1> QED BY <1>4, <1>5, <1>6

LEMMA OpenDocumentInOrder ==
  ASSUME TransferInv, StreamInv, NEW c \in Copies, OpenDocument(c)
  PROVE  StreamInv'
<1> USE DEF TransferInv, StreamInv
<1>1. PICK t \in {R(c), W(c)} :
        /\ Obtain(t) /\ task[t].pc = "new" /\ app[c].stage \in {"start", "reading"}
        /\ \E stage \in {"reading", "copying"} : app' = [app EXCEPT ![c].stage = stage]
  BY DEF OpenDocument, NotStarted
<1>2. PICK b \in Available : task' = [task EXCEPT ![t].pc = "queued", ![t].buffer = b]
  BY <1>1 DEF Obtain
<1>3. bytes' = bytes /\ download' = download /\ upload' = upload /\ target' = target /\ at' = at
  BY DEF OpenDocument
<1>4. task \in [Tasks -> Task] /\ t \in Tasks /\ R(c) \in Tasks /\ W(c) \in Tasks
  BY TasksTyped, TasksOf
<1>5. b \in Buffers /\ \A u \in Tasks : task[u].buffer # b
  BY FileTransferAssumption DEF Available, InUse, BuffersExclusive, TypeOK
<1>6. bytes[b] = <<>>
  BY <1>5 DEF UnusedEmpty
<1>7. /\ task'[t].pc = "queued" /\ task'[t].buffer = b
      /\ \A u \in Tasks \ {t} : task'[u] = task[u]
  BY <1>2, <1>4 DEF Task
<1>8. app \in [Copies -> App]
  BY DEF TypeOK, App
<1>9. /\ \A d \in Copies : app'[d].held = app[d].held /\ (app[d].stage = "left" <=> app'[d].stage = "left")
      /\ \A d \in Copies \ {c} : app'[d] = app[d]
      /\ app[c].held = <<>>
  BY <1>1, <1>8 DEF App, NothingHeld
<1>10. NothingHeld'
  BY <1>9 DEF NothingHeld
<1>11. IdleHaveNone'
  BY <1>7 DEF IdleHaveNone
<1>12. UnusedEmpty'
  <2>1. task[t].buffer = Null /\ Null \notin Buffers
    BY <1>1, <1>4, FileTransferAssumption DEF IdleHaveNone
  <2> QED BY <1>3, <1>7, <2>1 DEF UnusedEmpty
<1>13. ASSUME NEW d \in Copies PROVE WriterBuffer(d)' /\ InOrder(d)' /\ From(0, target'[d])
  <2>1. R(d) \in Tasks /\ W(d) \in Tasks
    BY TasksOf
  <2>2. WriterBuffer(d)'
    BY <1>3, <1>6, <1>7, <2>1 DEF WriterBuffer
  <2>3. /\ Arrived(d)' = Arrived(d) /\ ToWrite(d)' = ToWrite(d) /\ Writing(d)' = Writing(d)
    BY <1>1, <1>3, <1>7, <2>1 DEF Arrived, ToWrite, Writing
  <2>4. /\ ToSend(d)' = ToSend(d) /\ Progress(d)' = Progress(d) /\ Reading(d)' = Reading(d)
    BY <1>1, <1>3, <1>7, <2>1 DEF ToSend, Progress, Reading
  <2>5. InOrder(d)'
    BY <1>3, <1>9, <2>3, <2>4, PiecesStay
  <2> QED BY <1>3, <2>2, <2>5
<1> QED BY <1>10, <1>11, <1>12, <1>13

(* Steps of an app *)

LEMMA AppInOrder ==
  ASSUME TransferInv, StreamInv, NEW c \in Copies,
         task' = task, bytes' = bytes, target' = target, at' = at,
         \A d \in Copies \ {c} : /\ app'[d] = app[d] /\ upload'[d].data = upload[d].data
                                 /\ download'[d].data = download[d].data,
         app'[c].stage # "copying" => app'[c].held = <<>>,
         InOrder(c)'
  PROVE  StreamInv'
<1> USE DEF StreamInv
<1>1. ASSUME NEW d \in Copies \ {c} PROVE InOrder(d)'
  BY WriterAside, ReaderAside, PiecesStay
<1>2. \A d \in Copies : WriterBuffer(d)' /\ From(0, target'[d])
  BY DEF WriterBuffer
<1>3. UnusedEmpty' /\ IdleHaveNone'
  BY DEF UnusedEmpty, IdleHaveNone
<1>4. NothingHeld'
  BY DEF NothingHeld
<1> QED BY <1>1, <1>2, <1>3, <1>4

\* What a step of an app that stays has to show
LEMMA AppMoves ==
  ASSUME NEW c \in Copies, InOrder(c), task' = task, bytes' = bytes, target' = target, at' = at,
         app[c].stage # "left",
         ReachesWriter(c) /\ ReachesApp(c) =>
           ReachesWriter(c)' /\ ReachesApp(c)' /\ Sent(c)' = Sent(c)
  PROVE  InOrder(c)'
<1>1. Writing(c)' <=> Writing(c)
  BY WriterAside
<1>2. ToSend(c)' = ToSend(c) /\ Progress(c)' = Progress(c) /\ (Reading(c)' <=> Reading(c))
  BY ReaderAside
<1> QED BY <1>1, <1>2 DEF InOrder, LeavesReader

LEMMA TakeInOrder ==
  ASSUME TransferInv, StreamInv, NEW c \in Copies, Take(c)
  PROVE  StreamInv'
<1> USE DEF TransferInv, StreamInv
<1>1. PICK d, h, r : d = download[c].data /\ h = Head(d) /\ r = Tail(d)
  OBVIOUS
<1>2. /\ app[c].stage = "copying" /\ app[c].held = <<>> /\ d # <<>>
      /\ app' = [app EXCEPT ![c].held = <<h>>] /\ download' = [download EXCEPT ![c].data = r]
      /\ task' = task /\ bytes' = bytes /\ target' = target /\ at' = at /\ upload' = upload
  BY <1>1 DEF Take
<1>3. app \in [Copies -> App] /\ download \in [Copies -> Pipe]
  BY DEF TypeOK, App
<1>4. /\ app'[c].stage = "copying" /\ app'[c].held = <<h>> /\ download'[c].data = r
      /\ \A e \in Copies \ {c} : app'[e] = app[e] /\ download'[e] = download[e]
  BY <1>2, <1>3 DEF App, Pipe
<1>5. ASSUME ReachesWriter(c), ReachesApp(c)
      PROVE  ReachesWriter(c)' /\ ReachesApp(c)' /\ Sent(c)' = Sent(c)
  <2>1. Arrived(c)' = Arrived(c) /\ ToWrite(c)' = ToWrite(c)
    BY <1>2, WriterAside
  <2>2. ReachesWriter(c)' /\ Given(c)' = Given(c)
    BY <1>2, <1>5, <2>1 DEF ReachesWriter, Given
  <2>3. Given(c) \in Nat /\ Len(<<>>) = 0 /\ d \in Seq(Nat) /\ Len(d) \in Nat
    BY <1>1, PiecesTyped
  <2>4. From(Given(c) + Len(<<>>), d)
    BY <1>1, <1>2, <1>5 DEF ReachesApp
  <2>5. From(Given(c), d)
    BY <2>3, <2>4
  <2>6. /\ From(Given(c), <<h>>) /\ Len(<<h>>) = 1
        /\ From(Given(c) + 1, r) /\ Len(r) = Len(d) - 1
    BY <1>1, <1>2, <2>3, <2>5, HeadFrom
  <2>7. ReachesApp(c)'
    BY <1>4, <2>2, <2>6 DEF ReachesApp
  <2>8. Sent(c)' = Given(c) + 1 + Len(r) /\ Sent(c) = Given(c) + 0 + Len(d)
    BY <1>1, <1>2, <1>4, <2>2, <2>3, <2>6 DEF Sent
  <2> QED BY <2>2, <2>3, <2>6, <2>7, <2>8
<1>6. InOrder(c)'
  BY <1>2, <1>5, AppMoves
<1> QED BY <1>2, <1>4, <1>6, AppInOrder

LEMMA GiveInOrder ==
  ASSUME TransferInv, StreamInv, NEW c \in Copies, Give(c)
  PROVE  StreamInv'
<1> USE DEF TransferInv, StreamInv
<1>1. PICK u, h : u = upload[c].data /\ h = app[c].held
  OBVIOUS
<1>2. /\ app[c].stage = "copying"
      /\ app' = [app EXCEPT ![c].held = <<>>] /\ upload' = [upload EXCEPT ![c].data = u \o h]
      /\ task' = task /\ bytes' = bytes /\ target' = target /\ at' = at /\ download' = download
  BY <1>1 DEF Give
<1>3. app \in [Copies -> App] /\ upload \in [Copies -> Pipe]
  BY DEF TypeOK, App
<1>4. /\ app'[c].stage = "copying" /\ app'[c].held = <<>> /\ upload'[c].data = u \o h
      /\ \A e \in Copies \ {c} : app'[e] = app[e] /\ upload'[e] = upload[e]
  BY <1>2, <1>3 DEF App, Pipe
<1>5. ASSUME ReachesWriter(c), ReachesApp(c)
      PROVE  ReachesWriter(c)' /\ ReachesApp(c)' /\ Sent(c)' = Sent(c)
  <2>1. Arrived(c)' = Arrived(c) /\ ToWrite(c)' = ToWrite(c)
    BY <1>2, WriterAside
  <2>2. PICK k : k = Len(Arrived(c)) + Len(ToWrite(c))
    OBVIOUS
  <2>3. /\ k \in Nat /\ u \in Seq(Nat) /\ Len(u) \in Nat /\ h \in Seq(Nat) /\ Len(h) \in Nat
        /\ Len(download[c].data) \in Nat /\ Len(<<>>) = 0
    BY <1>1, <2>2, PiecesTyped
  <2>4. Given(c) = k + Len(u)
    BY <1>1, <2>2 DEF Given
  <2>5. From(k, u) /\ From(k + Len(u), h) /\ From(Given(c) + Len(h), download[c].data)
    BY <1>1, <1>5, <2>2, <2>4 DEF ReachesWriter, ReachesApp
  <2>6. From(k, u \o h) /\ Len(u \o h) = Len(u) + Len(h)
    BY <2>3, <2>5, JoinedFrom
  <2>7. ReachesWriter(c)'
    BY <1>4, <1>5, <2>1, <2>2, <2>6 DEF ReachesWriter
  <2>8. Given(c)' = k + Len(u \o h)
    BY <1>4, <2>1, <2>2 DEF Given
  <2>9. /\ Given(c)' = Given(c) + Len(h) /\ Given(c)' + Len(<<>>) = Given(c) + Len(h)
        /\ Given(c)' \in 0..Len(Source)
    BY <2>3, <2>4, <2>6, <2>8, SourceTyped DEF From
  <2>10. From(Given(c)', <<>>)
    BY <2>9, NothingFrom
  <2>11. ReachesApp(c)'
    BY <1>2, <1>4, <2>5, <2>9, <2>10 DEF ReachesApp
  <2>12. Sent(c)' = Sent(c)
    BY <1>1, <1>2, <1>4, <2>9 DEF Sent
  <2> QED BY <2>7, <2>11, <2>12
<1>6. InOrder(c)'
  BY <1>2, <1>5, AppMoves
<1> QED BY <1>2, <1>4, <1>6, AppInOrder

LEMMA LeaveInOrder ==
  ASSUME TransferInv, StreamInv, NEW c \in Copies, Leave(c)
  PROVE  StreamInv'
<1> USE DEF TransferInv, StreamInv
<1>1. /\ app' = [app EXCEPT ![c] = [stage |-> "left", held |-> <<>>]]
      /\ download' = [download EXCEPT ![c].gone = TRUE]
      /\ upload' = [upload EXCEPT ![c].end = "ok"]
      /\ task' = task /\ bytes' = bytes /\ target' = target /\ at' = at
  BY DEF Leave
<1>2. app \in [Copies -> App] /\ download \in [Copies -> Pipe] /\ upload \in [Copies -> Pipe]
  BY DEF TypeOK, App
<1>3. /\ app'[c].stage = "left" /\ app'[c].held = <<>> /\ upload'[c].data = upload[c].data
      /\ \A e \in Copies \ {c} : /\ app'[e] = app[e] /\ upload'[e].data = upload[e].data
                                 /\ download'[e].data = download[e].data
  BY <1>1, <1>2 DEF Pipe
<1>4. InOrder(c)'
  BY <1>1, <1>3, WriterAside, ReaderAside, PiecesStay
<1> QED BY <1>1, <1>3, <1>4, AppInOrder

\* Copying begins anew with nothing on the way.
LEMMA AgainInOrder ==
  ASSUME TransferInv, StreamInv, NEW c \in Copies, Again(c)
  PROVE  StreamInv'
<1> USE DEF TransferInv, StreamInv
<1>1. /\ R(c) \in Tasks /\ W(c) \in Tasks /\ R(c) # W(c) /\ task \in [Tasks -> Task]
      /\ task[R(c)].pc = "done" /\ task[W(c)].pc = "done" /\ app[c].stage = "left"
  BY TasksOf, TasksTyped DEF Again
<1>2. /\ task'[R(c)] = NewTask /\ task'[W(c)] = NewTask
      /\ \A u \in Tasks \ {R(c), W(c)} : task'[u] = task[u]
      /\ bytes' = bytes /\ target' = target /\ at' = at
  BY <1>1 DEF Again
<1>3. NewTask.pc = "new" /\ NewTask.buffer = Null /\ NewPipe.data = <<>>
  BY DEF NewTask, NewPipe
<1>4. /\ download'[c] = NewPipe /\ upload'[c] = NewPipe
      /\ app'[c].held = <<>> /\ app'[c].stage = "start"
      /\ \A e \in Copies \ {c} : app'[e] = app[e] /\ download'[e] = download[e] /\ upload'[e] = upload[e]
  BY <1>1 DEF Again, TypeOK, NothingHeld
<1>5. UnusedEmpty'
  <2>1. task[R(c)].buffer = Null /\ task[W(c)].buffer = Null /\ Null \notin Buffers
    BY <1>1, FileTransferAssumption DEF IdleHaveNone
  <2> QED BY <1>2, <2>1 DEF UnusedEmpty
<1>6. IdleHaveNone'
  BY <1>2, <1>3 DEF IdleHaveNone
<1>7. NothingHeld'
  BY <1>4 DEF NothingHeld
<1>8. InOrder(c)' /\ WriterBuffer(c)'
  <2>1. /\ Arrived(c)' = <<>> /\ ToWrite(c)' = <<>> /\ ToSend(c)' = <<>> /\ Progress(c)' = 0
        /\ upload'[c].data = <<>> /\ download'[c].data = <<>> /\ app'[c].held = <<>>
    BY <1>2, <1>3, <1>4 DEF Arrived, ToWrite, ToSend, Progress
  <2>2. Len(<<>>) = 0 /\ From(0, <<>>) /\ 0 + 0 = 0
    BY NothingFrom, SourceTyped
  <2>3. ReachesWriter(c)' /\ Given(c)' = 0
    BY <2>1, <2>2 DEF ReachesWriter, Given
  <2>4. ReachesApp(c)' /\ Sent(c)' = 0
    BY <2>1, <2>2, <2>3 DEF ReachesApp, Sent
  <2>5. LeavesReader(c)'
    BY <2>1, <2>2, <2>4 DEF LeavesReader
  <2>6. WriterBuffer(c)'
    BY <1>2, <1>3 DEF WriterBuffer
  <2> QED BY <2>3, <2>4, <2>5, <2>6 DEF InOrder
<1>9. ASSUME NEW d \in Copies \ {c} PROVE InOrder(d)' /\ WriterBuffer(d)'
  <2>1. R(d) \in Tasks \ {R(c), W(c)} /\ W(d) \in Tasks \ {R(c), W(c)}
    BY TasksOf DEF R, W
  <2>2. InOrder(d)'
    BY <1>2, <1>4, <2>1, WriterAside, ReaderAside, PiecesStay
  <2> QED BY <1>2, <2>1, <2>2 DEF WriterBuffer
<1> QED BY <1>2, <1>5, <1>6, <1>7, <1>8, <1>9

-----------------------------------------------------------------------------
LEMMA StreamInit == Init => StreamInv
<1> SUFFICES ASSUME Init PROVE StreamInv
  OBVIOUS
<1>1. \A c \in Copies : R(c) \in Tasks /\ W(c) \in Tasks
  BY TasksOf
<1>2. NewTask.pc = "new" /\ NewTask.buffer = Null /\ NewPipe.data = <<>>
  BY DEF NewTask, NewPipe
<1>3. UnusedEmpty /\ IdleHaveNone /\ NothingHeld
  BY <1>2 DEF Init, UnusedEmpty, IdleHaveNone, NothingHeld
<1>4. ASSUME NEW c \in Copies PROVE WriterBuffer(c) /\ InOrder(c) /\ From(0, target[c])
  <2>1. /\ Arrived(c) = <<>> /\ ToWrite(c) = <<>> /\ ToSend(c) = <<>> /\ Progress(c) = 0
        /\ upload[c].data = <<>> /\ download[c].data = <<>> /\ app[c].held = <<>>
        /\ target[c] = <<>>
    BY <1>1, <1>2 DEF Init, Arrived, ToWrite, ToSend, Progress
  <2>2. Len(<<>>) = 0 /\ From(0, <<>>) /\ 0 + 0 = 0
    BY NothingFrom, SourceTyped
  <2>3. ReachesWriter(c) /\ Given(c) = 0
    BY <2>1, <2>2 DEF ReachesWriter, Given
  <2>4. ReachesApp(c) /\ Sent(c) = 0
    BY <2>1, <2>2, <2>3 DEF ReachesApp, Sent
  <2>5. LeavesReader(c)
    BY <2>1, <2>2, <2>4 DEF LeavesReader
  <2>6. WriterBuffer(c)
    BY <1>1, <1>2 DEF Init, WriterBuffer
  <2> QED BY <2>1, <2>2, <2>3, <2>4, <2>5, <2>6 DEF InOrder
<1> QED BY <1>3, <1>4 DEF StreamInv

\* Nothing changes but whether the process has died.
LEMMA StreamStays ==
  ASSUME TransferInv, StreamInv,
         UNCHANGED <<task, at, bytes, download, upload, app, target>>
  PROVE  StreamInv'
<1> USE DEF StreamInv
<1>1. \A c \in Copies : InOrder(c)'
  BY WriterAside, ReaderAside, PiecesStay
<1> QED BY <1>1 DEF WriterBuffer, UnusedEmpty, IdleHaveNone, NothingHeld

LEMMA StreamNext ==
  ASSUME TransferInv, StreamInv, ~ShortWrites, [Next]_vars
  PROVE  StreamInv'
<1>1. CASE UNCHANGED vars
  BY <1>1, StreamStays DEF vars
<1>2. ASSUME NEW t \in Tasks, TaskStep(t) PROVE StreamInv'
  <2>1. t[1] \in Copies
    BY TasksOf
  <2> QED BY <1>2, <2>1, RunInOrder, OpenFileInOrder, CloseInOrder, PostExecuteInOrder,
             ReadFileInOrder, ReadEndInOrder, GetBytesInOrder, SendInOrder,
             ReceiveInOrder, PutBytesInOrder, WriteFileInOrder
          DEF TaskStep
<1>3. ASSUME NEW t \in Tasks, Refuse(t) \/ Fail(t) PROVE StreamInv'
  BY <1>3, FailInOrder, StreamStays DEF Refuse
<1>4. ASSUME NEW c \in Copies, AppStep(c) \/ Leave(c) \/ Again(c) PROVE StreamInv'
  BY <1>4, OpenDocumentInOrder, TakeInOrder, GiveInOrder, LeaveInOrder, AgainInOrder
     DEF AppStep, CopyEnds
<1> QED BY <1>1, <1>2, <1>3, <1>4 DEF Next

(***************************************************************************)
(* Unless libsmbclient writes less than it is given, which nobody looks    *)
(* at, all targets are at all times what the source begins with, whatever  *)
(* fails and whoever leaves, and also when a document is copied again.     *)
(***************************************************************************)
THEOREM TargetsInOrder ==
  ASSUME ~ShortWrites
  PROVE  Spec => []TargetInOrder
<1>1. Init => TransferInv /\ StreamInv
  BY TransferInit, StreamInit
<1>2. TransferInv /\ StreamInv /\ [Next]_vars => TransferInv' /\ StreamInv'
  BY TransferNext, StreamNext
<1>3. TransferInv /\ StreamInv => TargetInOrder
  BY PiecesTyped, FromIsPrefix DEF StreamInv, TargetInOrder
<1> QED BY <1>1, <1>2, <1>3, PTL DEF Spec
=============================================================================
