----------------------------- MODULE FileTransfer -----------------------------
(***************************************************************************)
(* Documents that are open for other apps before Android O: a pipe to the  *)
(* app (openDocumentPreO) and a task that moves the bytes, ReadFileTask    *)
(* from the server into the pipe or WriteFileTask from the pipe to the     *)
(* server.  The tasks share a pool of buffers.                             *)
(*                                                                         *)
(* The apps are modelled by what uses both at once: copying one document   *)
(* of the provider to another one, byte by byte.  An app may leave at any  *)
(* time, and the server may fail at any call.                              *)
(***************************************************************************)
EXTENDS Naturals, Sequences, FiniteSets

CONSTANTS
  Copies,     \* documents that are copied, each by an app of its own
  Source,     \* the bytes of each
  Buffers,    \* the ByteBuffer objects there may be
  PoolSize,   \* capacity of the pool
  Capacity,   \* of a buffer
  PipeSize,   \* capacity of a pipe
  ShortWrites,\* libsmbclient may write less than it is given
  Null

ASSUME FileTransferAssumption ==
  /\ Source \in Seq(Nat)
  /\ IsFiniteSet(Buffers)
  /\ PoolSize \in Nat
  /\ Capacity \in Nat \ {0}
  /\ PipeSize \in Nat \ {0}
  /\ ShortWrites \in BOOLEAN
  /\ Null \notin Buffers

VARIABLES
  task,     \* the tasks: where they are, mBuffer, the array buf, an IOException
  at,       \* position of the source files
  bytes,    \* what the buffers have before their position
  pool,     \* mBufferPool
  download, \* the pipes from ReadFileTask
  upload,   \* the pipes to WriteFileTask
  app,      \* the apps: where they are, the byte in hand
  target,   \* the files that are written
  unseen,   \* the targets that were written since their metadata was last reset
  crashed   \* the process has died of an uncaught exception

vars == <<task, at, bytes, pool, download, upload, app, target, unseen, crashed>>

R(c) == <<c, "r">>
W(c) == <<c, "w">>
Tasks == Copies \X {"r", "w"}

NewTask == [pc |-> "new", buffer |-> Null, buf |-> <<>>, failed |-> FALSE]
NewPipe == [data |-> <<>>, end |-> "open", gone |-> FALSE]

Goto(t, pc) == task' = [task EXCEPT ![t].pc = pc]
Catch(t)    == task' = [task EXCEPT ![t].pc = "close", ![t].failed = TRUE]

InUse == {task[t].buffer : t \in Tasks}

\* A buffer of the pool, or a new one when it is empty
Available == IF pool # {} THEN pool ELSE Buffers \ InUse

\* An altered FreeThread: a fixed pool of one thread for each app.
FreeThreadOfFew ==
  Cardinality({t \in Tasks : task[t].pc \notin {"new", "queued", "posted", "done"}})
    < Cardinality(Copies)

\* The cached thread pool makes a thread when none is free.
FreeThread == TRUE

-----------------------------------------------------------------------------
Init ==
  /\ task = [t \in Tasks |-> NewTask]
  /\ at = [c \in Copies |-> 0]
  /\ bytes = [b \in Buffers |-> <<>>]
  /\ pool = {}
  /\ download = [c \in Copies |-> NewPipe]
  /\ upload = [c \in Copies |-> NewPipe]
  /\ app = [c \in Copies |-> [stage |-> "start", held |-> <<>>]]
  /\ target = [c \in Copies |-> <<>>]
  /\ unseen = {}
  /\ crashed = FALSE

\* An altered Obtain: does not take the buffer out of the pool.
ObtainShared(t) ==
  \E b \in Available :
    /\ task' = [task EXCEPT ![t].pc = "queued", ![t].buffer = b]
    /\ pool' = pool

\* obtainBuffer, in onPreExecute or the constructor
Obtain(t) ==
  \E b \in Available :
    /\ task' = [task EXCEPT ![t].pc = "queued", ![t].buffer = b]
    /\ pool' = pool \ {b}

\* openDocument, first of the source and then of the target
OpenDocument(c) ==
  /\ \/ /\ app[c].stage = "start"
        /\ Obtain(R(c))
        /\ app' = [app EXCEPT ![c].stage = "reading"]
     \/ /\ app[c].stage = "reading"
        /\ Obtain(W(c))
        /\ app' = [app EXCEPT ![c].stage = "copying"]
  /\ UNCHANGED <<at, bytes, download, upload, target, unseen, crashed>>

\* doInBackground begins
Run(t) ==
  /\ task[t].pc = "queued"
  /\ FreeThread
  /\ Goto(t, "open")
  /\ UNCHANGED <<at, bytes, pool, download, upload, app, target, unseen, crashed>>

\* A file is read from its start; one that is opened to write loses its content.
OpenFile(t) ==
  LET c == t[1] IN
  /\ task[t].pc = "open"
  /\ Goto(t, "move")
  /\ IF t[2] = "r"
     THEN /\ at' = [at EXCEPT ![c] = 0]
          /\ UNCHANGED <<target, unseen>>
     ELSE /\ target' = [target EXCEPT ![c] = <<>>]
          /\ unseen' = unseen \cup {c}
          /\ UNCHANGED at
  /\ UNCHANGED <<bytes, pool, download, upload, app, crashed>>

\* openFile throws AuthFailedException, which nobody catches.
Refuse(t) ==
  /\ task[t].pc = "open"
  /\ crashed' = TRUE
  /\ UNCHANGED <<task, at, bytes, pool, download, upload, app, target, unseen>>

\* openFile, read or write throws IOException.
Fail(t) ==
  /\ <<t[2], task[t].pc>> \in {<<"r", "open">>, <<"r", "move">>, <<"w", "open">>, <<"w", "write">>}
  /\ Catch(t)
  /\ UNCHANGED <<at, bytes, pool, download, upload, app, target, unseen, crashed>>

-----------------------------------------------------------------------------
\* file.read into the buffer
ReadFile(c, n) ==
  LET b == task[R(c)].buffer IN
  /\ task[R(c)].pc = "move"
  /\ at[c] + n <= Len(Source)
  /\ bytes' = [bytes EXCEPT ![b] = SubSeq(Source, at[c] + 1, at[c] + n)]
  /\ at' = [at EXCEPT ![c] = @ + n]
  /\ Goto(R(c), "get")
  /\ UNCHANGED <<pool, download, upload, app, target, unseen, crashed>>

ReadEnd(c) ==
  /\ task[R(c)].pc = "move"
  /\ at[c] = Len(Source)
  /\ Goto(R(c), "close")
  /\ UNCHANGED <<at, bytes, pool, download, upload, app, target, unseen, crashed>>

\* mBuffer.get and clear
GetBytes(c) ==
  /\ task[R(c)].pc = "get"
  /\ task' = [task EXCEPT ![R(c)].pc = "send", ![R(c)].buf = bytes[task[R(c)].buffer]]
  /\ bytes' = [bytes EXCEPT ![task[R(c)].buffer] = <<>>]
  /\ UNCHANGED <<at, pool, download, upload, app, target, unseen, crashed>>

\* os.write, which waits while the pipe is full and fails when the app is gone
Send(c) ==
  /\ task[R(c)].pc = "send"
  /\ LET buf == task[R(c)].buf IN
     \/ /\ buf # <<>>
        /\ ~download[c].gone
        /\ Len(download[c].data) < PipeSize
        /\ download' = [download EXCEPT ![c].data = Append(@, Head(buf))]
        /\ task' = [task EXCEPT ![R(c)].buf = Tail(buf)]
     \/ /\ buf # <<>>
        /\ download[c].gone
        /\ Catch(R(c))
        /\ UNCHANGED download
     \/ /\ buf = <<>>
        /\ Goto(R(c), "move")
        /\ UNCHANGED download
  /\ UNCHANGED <<at, bytes, pool, upload, app, target, unseen, crashed>>

-----------------------------------------------------------------------------
\* is.read gives what there is, or the end when the app has closed the pipe.
Receive(c) ==
  /\ task[W(c)].pc = "move"
  /\ LET data == upload[c].data IN
     \/ \E n \in 1..Len(data) :
          /\ n <= Capacity
          /\ task' = [task EXCEPT ![W(c)].pc = "put", ![W(c)].buf = SubSeq(data, 1, n)]
          /\ upload' = [upload EXCEPT ![c].data = SubSeq(data, n + 1, Len(data))]
     \/ /\ data = <<>>
        /\ upload[c].end # "open"
        /\ Goto(W(c), "close")
        /\ UNCHANGED upload
  /\ UNCHANGED <<at, bytes, pool, download, app, target, unseen, crashed>>

\* mBuffer.put, after what is there
PutBytes(c) ==
  /\ task[W(c)].pc = "put"
  /\ bytes' = [bytes EXCEPT ![task[W(c)].buffer] = @ \o task[W(c)].buf]
  /\ Goto(W(c), "write")
  /\ UNCHANGED <<at, pool, download, upload, app, target, unseen, crashed>>

\* An altered WriteFile: the buffer is not cleared.
WriteFileUncleared(c, n) ==
  LET size == Len(task[W(c)].buf)
      b    == task[W(c)].buffer IN
  /\ task[W(c)].pc = "write"
  /\ n <= size
  /\ ~ShortWrites => n = size
  /\ target' = [target EXCEPT ![c] = @ \o SubSeq(bytes[b], 1, n)]
  /\ unseen' = unseen \cup {c}
  /\ Goto(W(c), "move")
  /\ UNCHANGED <<at, bytes, pool, download, upload, app, crashed>>

\* file.write from the start of the buffer, and clear; how much was written is
\* not looked at.
WriteFile(c, n) ==
  LET size == Len(task[W(c)].buf)
      b    == task[W(c)].buffer IN
  /\ task[W(c)].pc = "write"
  /\ n <= size
  /\ ~ShortWrites => n = size
  /\ target' = [target EXCEPT ![c] = @ \o SubSeq(bytes[b], 1, n)]
  /\ unseen' = unseen \cup {c}
  /\ bytes' = [bytes EXCEPT ![b] = <<>>]
  /\ Goto(W(c), "move")
  /\ UNCHANGED <<at, pool, download, upload, app, crashed>>

-----------------------------------------------------------------------------
\* A ParcelFileDescriptor is closed once; what comes later is ignored.
CloseAs(status, end) == IF end = "open" THEN status ELSE end

\* The streams are closed, and the pipe with them, before the exception is
\* caught; then closeWithError.
Close(t) ==
  LET c   == t[1]
      end == CloseAs("ok", download[c].end) IN
  /\ task[t].pc = "close"
  /\ IF t[2] = "r"
     THEN /\ download' = [download EXCEPT
               ![c].end = IF task[t].failed THEN CloseAs("error", end) ELSE end]
          /\ UNCHANGED upload
     ELSE /\ upload' = [upload EXCEPT ![c].gone = TRUE]
          /\ UNCHANGED download
  /\ Goto(t, "posted")
  /\ UNCHANGED <<at, bytes, pool, app, target, unseen, crashed>>

\* A pool that is full leaves the buffer to the garbage collector.
Recycled(b) == IF Cardinality(pool) < PoolSize THEN pool \cup {b} ELSE pool

\* An altered PostExecute: calls back when all went well.
PostExecuteIfWritten(t) ==
  /\ task[t].pc = "posted"
  /\ pool' = Recycled(task[t].buffer)
  /\ bytes' = [bytes EXCEPT ![task[t].buffer] = <<>>]
  /\ task' = [task EXCEPT ![t] = [NewTask EXCEPT !.pc = "done"]]
  /\ unseen' = IF t[2] = "w" /\ ~task[t].failed THEN unseen \ {t[1]} ELSE unseen
  /\ UNCHANGED <<at, download, upload, app, target, crashed>>

\* onPostExecute on the main thread; for a writer with mWriteFinishedCallback
PostExecute(t) ==
  /\ task[t].pc = "posted"
  /\ pool' = Recycled(task[t].buffer)
  /\ bytes' = [bytes EXCEPT ![task[t].buffer] = <<>>]
  /\ task' = [task EXCEPT ![t] = [NewTask EXCEPT !.pc = "done"]]
  /\ unseen' = IF t[2] = "w" THEN unseen \ {t[1]} ELSE unseen
  /\ UNCHANGED <<at, download, upload, app, target, crashed>>

-----------------------------------------------------------------------------
(* The apps *)

Take(c) ==
  /\ app[c].stage = "copying" /\ app[c].held = <<>>
  /\ download[c].data # <<>>
  /\ app' = [app EXCEPT ![c].held = <<Head(download[c].data)>>]
  /\ download' = [download EXCEPT ![c].data = Tail(@)]
  /\ UNCHANGED <<task, at, bytes, pool, upload, target, unseen, crashed>>

Give(c) ==
  /\ app[c].stage = "copying" /\ app[c].held # <<>>
  /\ ~upload[c].gone
  /\ Len(upload[c].data) < PipeSize
  /\ upload' = [upload EXCEPT ![c].data = @ \o app[c].held]
  /\ app' = [app EXCEPT ![c].held = <<>>]
  /\ UNCHANGED <<task, at, bytes, pool, download, target, unseen, crashed>>

Leave(c) ==
  /\ app[c].stage = "copying"
  /\ app' = [app EXCEPT ![c] = [stage |-> "left", held |-> <<>>]]
  /\ download' = [download EXCEPT ![c].gone = TRUE]
  /\ upload' = [upload EXCEPT ![c].end = "ok"]
  /\ UNCHANGED <<task, at, bytes, pool, target, unseen, crashed>>

\* The end of the source, or nobody takes what is written to the target
CopyEnds(c) ==
  /\ \/ app[c].held = <<>> /\ download[c].data = <<>> /\ download[c].end # "open"
     \/ app[c].held # <<>> /\ upload[c].gone
  /\ Leave(c)

\* The app copies once more, with new tasks and whatever buffers are there.
Again(c) ==
  /\ app[c].stage = "left"
  /\ task[R(c)].pc = "done" /\ task[W(c)].pc = "done"
  /\ task' = [task EXCEPT ![R(c)] = NewTask, ![W(c)] = NewTask]
  /\ download' = [download EXCEPT ![c] = NewPipe]
  /\ upload' = [upload EXCEPT ![c] = NewPipe]
  /\ app' = [app EXCEPT ![c].stage = "start"]
  /\ UNCHANGED <<at, bytes, pool, target, unseen, crashed>>

-----------------------------------------------------------------------------
TaskStep(t) ==
  LET c == t[1] IN
  \/ Run(t) \/ OpenFile(t) \/ Close(t) \/ PostExecute(t)
  \/ /\ t[2] = "r"
     /\ \/ \E n \in 1..Capacity : ReadFile(c, n)
        \/ ReadEnd(c) \/ GetBytes(c) \/ Send(c)
  \/ /\ t[2] = "w"
     /\ \/ Receive(c) \/ PutBytes(c)
        \/ \E n \in 0..Capacity : WriteFile(c, n)

AppStep(c) == OpenDocument(c) \/ Take(c) \/ Give(c) \/ CopyEnds(c)

Next ==
  /\ ~crashed
  /\ \/ \E t \in Tasks : TaskStep(t) \/ Refuse(t) \/ Fail(t)
     \/ \E c \in Copies : AppStep(c) \/ Leave(c) \/ Again(c)

Spec == Init /\ [][Next]_vars

\* Threads run, the server answers, and apps that stay go on copying.
FairSpec ==
  /\ Spec
  /\ \A t \in Tasks : WF_vars(~crashed /\ TaskStep(t))
  /\ \A c \in Copies : WF_vars(~crashed /\ AppStep(c))

-----------------------------------------------------------------------------
Pipe == [data : Seq(Nat), end : {"open", "ok", "error"}, gone : BOOLEAN]

TypeOK ==
  /\ task \in [Tasks -> [pc : {"new", "queued", "open", "move", "get", "send", "put",
                               "write", "close", "posted", "done"},
                         buffer : Buffers \cup {Null}, buf : Seq(Nat), failed : BOOLEAN]]
  /\ at \in [Copies -> 0..Len(Source)]
  /\ bytes \in [Buffers -> Seq(Nat)]
  /\ pool \subseteq Buffers
  /\ Cardinality(pool) <= PoolSize
  /\ download \in [Copies -> Pipe]
  /\ upload \in [Copies -> Pipe]
  /\ app \in [Copies -> [stage : {"start", "reading", "copying", "left"}, held : Seq(Nat)]]
  /\ target \in [Copies -> Seq(Nat)]
  /\ unseen \subseteq Copies
  /\ crashed \in BOOLEAN

(***************************************************************************)
(* No two tasks work on one buffer, nor on one that is in the pool         *)
(* (ByteBufferPool, whose buffers come back in onPostExecute).             *)
(***************************************************************************)
BuffersExclusive ==
  \A t \in Tasks : task[t].buffer # Null =>
    /\ task[t].buffer \notin pool
    /\ \A u \in Tasks \ {t} : task[u].buffer # task[t].buffer

(***************************************************************************)
(* What has arrived of a copy is what the source begins with, through two  *)
(* tasks, two buffers and two pipes, whatever fails on the way             *)
(* (ReadFileTask.doInBackground, WriteFileTask.doInBackground).            *)
(***************************************************************************)
TargetInOrder ==
  \A c \in Copies : /\ Len(target[c]) <= Len(Source)
                    /\ target[c] = SubSeq(Source, 1, Len(target[c]))

(***************************************************************************)
(* When the last task is done with a file, no metadata from before its     *)
(* last write is cached (mWriteFinishedCallback, also after an error).     *)
(***************************************************************************)
WritesAreSeen == \A c \in unseen : task[W(c)].pc \notin {"new", "queued", "done"}

(***************************************************************************)
(* Every document that was opened is done with some time, its thread ended *)
(* and its buffer given back, although each copy needs two tasks that wait *)
(* for one another (TaskManager.runIoTask).                                *)
(***************************************************************************)
TransfersEnd ==
  \A t \in Tasks : task[t].pc = "queued" ~> task[t].pc = "done" \/ crashed

(***************************************************************************)
(* An expectation that the code does not meet; no run checks it.           *)
(***************************************************************************)

(***************************************************************************)
(* An app that reads to the end of the pipe without an error has got the   *)
(* whole document: what createReliablePipe and closeWithError are for      *)
(* (SambaDocumentsProvider.java:628, ReadFileTask.java:70).                *)
(***************************************************************************)
CleanEndIsWhole ==
  \A c \in Copies :
    download[c].end = "ok" /\ ~download[c].gone => at[c] = Len(Source)
=============================================================================
