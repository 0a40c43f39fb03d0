------------------------------ MODULE SambaFile ------------------------------
(***************************************************************************)
(* A document that is open for other apps: openProxyFile, the callbacks of *)
(* SambaProxyFileCallback and the SambaFile they work on.                  *)
(*                                                                         *)
(* The callbacks are made on the looper thread, one after the other.  Each *)
(* is asked for bytes at an offset; libsmbclient reads and writes at the   *)
(* position of the file descriptor, which SambaFile remembers in mOffset   *)
(* so as to save the seek.  The buffer holds Capacity bytes, so that long  *)
(* requests take several calls, and each of them may fail or come short.   *)
(***************************************************************************)
EXTENDS FileBytes

CONSTANTS
  Handles,  \* files that are opened, all of one document
  Modes,    \* the modes they are opened with
  Capacity, \* of the buffer
  Offsets, Sizes, \* what is asked for
  Writes,   \* the byte sequences that are written
  Contents, \* what other programs make of the file
  MaxSize,  \* bound on the end of what is written
  Null

ASSUME SambaFileAssumption ==
  /\ Modes \subseteq {"r", "rw", "rwt", "w", "wa", "wt"}
  /\ Capacity \in Nat \ {0}
  /\ Offsets \subseteq Nat
  /\ Sizes \subseteq Nat
  /\ \A bytes \in Writes : bytes \in Seq(Nat)
  /\ \A bytes \in Contents : bytes \in Seq(Nat)
  /\ MaxSize \in Nat
  /\ Null \notin Handles

VARIABLES
  content, \* the bytes of the file on the server
  handle,  \* the open files: mode, position, mOffset
  call,    \* the callback that the looper thread is in
  user,    \* the file it is for
  unseen   \* bytes were written since the cached metadata was last reset

vars == <<content, handle, call, user, unseen>>

\* The flags that openFile makes of a mode
Reads(mode)     == mode \in {"r", "rw", "rwt"}
WritesTo(mode)  == mode \in {"rw", "rwt", "w", "wa", "wt"}
Truncates(mode) == mode \in {"rwt", "w"}
Appends(mode)   == mode = "wa"

Closed == [mode |-> "closed", position |-> 0, offset |-> 0]

Callback(kind, from, size, bytes) ==
  [kind |-> kind, from |-> from, size |-> size, bytes |-> bytes, done |-> 0]

NoCall == Callback("none", 0, 0, <<>>)

Free(h) == call.kind = "none" /\ handle[h] # Closed

-----------------------------------------------------------------------------
Init ==
  /\ content \in Contents
  /\ handle = [h \in Handles |-> Closed]
  /\ call = NoCall
  /\ user = Null
  /\ unseen = FALSE

\* openProxyFile: a new SambaFile assumes that it is at the start; where a
\* file begins that is opened to append is up to libsmbclient
Open(h, mode) ==
  /\ call.kind = "none"
  /\ handle[h] = Closed
  /\ \E pos \in 0..Len(content) :
       /\ ~Appends(mode) => pos = 0
       /\ handle' = [handle EXCEPT ![h] = [mode |-> mode, position |-> pos, offset |-> 0]]
  /\ content' = IF Truncates(mode) THEN <<>> ELSE content
  /\ unseen' = (unseen \/ Truncates(mode))
  /\ UNCHANGED <<call, user>>

\* An altered Seek: the position is taken for granted.
SeekNot(h, from) == handle[h]

\* SambaFile.seek: nothing is done when mOffset is there already
Seek(h, from) ==
  IF handle[h].offset = from THEN handle[h]
  ELSE [handle[h] EXCEPT !.position = from, !.offset = from]

Begin(h, c) ==
  /\ handle' = [handle EXCEPT ![h] = Seek(h, c.from)]
  /\ call' = c
  /\ user' = h
  /\ UNCHANGED <<content, unseen>>

OnRead(h, from, size) ==
  /\ Free(h)
  /\ Reads(handle[h].mode)
  /\ Begin(h, Callback("read", from, size, <<>>))

OnWrite(h, from, bytes) ==
  /\ Free(h)
  /\ WritesTo(handle[h].mode)
  /\ Seek(h, from).position + Len(bytes) <= MaxSize
  /\ Begin(h, Callback("write", from, Len(bytes), bytes))

\* An altered Advanced: counts on getting all that was asked for.
AdvancedInFull(n) ==
  LET h == handle[user] IN
  [handle EXCEPT ![user] =
     [h EXCEPT !.position = @ + n, !.offset = @ + Smaller(call.size - call.done, Capacity)]]

\* n bytes were read or written: libsmbclient moves on, and so does mOffset
Advanced(n) ==
  LET h == handle[user] IN
  [handle EXCEPT ![user] = [h EXCEPT !.position = @ + n, !.offset = @ + n]]

\* What is asked of libsmbclient: no more than the buffer holds
Chunk == 1..Smaller(call.size - call.done, Capacity)

\* One round of the loop of onRead
ReadPart(n) ==
  LET pos == handle[user].position IN
  /\ call.kind = "read"
  /\ n \in Chunk
  /\ pos + n <= Len(content)
  /\ call' = [call EXCEPT !.bytes = @ \o ReadAt(content, pos, n), !.done = @ + n]
  /\ handle' = Advanced(n)
  /\ UNCHANGED <<content, user, unseen>>

\* An altered WritePart: starts again with the first bytes after a short write.
WritePartAgain(n) ==
  LET pos == handle[user].position IN
  /\ call.kind = "write"
  /\ n \in Chunk
  /\ content' = WriteAt(content, pos, ReadAt(call.bytes, 0, n))
  /\ call' = [call EXCEPT !.done = @ + n]
  /\ handle' = Advanced(n)
  /\ unseen' = TRUE
  /\ UNCHANGED user

\* One round of the loop of onWrite
WritePart(n) ==
  LET pos == handle[user].position IN
  /\ call.kind = "write"
  /\ n \in Chunk
  /\ content' = WriteAt(content, pos, ReadAt(call.bytes, call.done, n))
  /\ call' = [call EXCEPT !.done = @ + n]
  /\ handle' = Advanced(n)
  /\ unseen' = TRUE
  /\ UNCHANGED user

Finish == call' = NoCall /\ user' = Null /\ UNCHANGED <<content, handle, unseen>>

\* An altered ReadEnd: reads on until it has all that was asked for.
ReadEndFull ==
  /\ call.kind = "read"
  /\ call.done = call.size
  /\ Finish

\* All is read, or libsmbclient returns 0 at the end of the file
ReadEnd ==
  /\ call.kind = "read"
  /\ \/ call.done = call.size
     \/ handle[user].position >= Len(content)
  /\ Finish

WriteEnd ==
  /\ call.kind = "write"
  /\ call.done = call.size
  /\ Finish

\* IOException; one from the seek at the start leaves no trace
Fail ==
  /\ call.kind # "none"
  /\ Finish

\* An altered OnRelease: resets the metadata for mode "w" only.
OnReleaseOfW(h) ==
  /\ Free(h)
  /\ handle' = [handle EXCEPT ![h] = Closed]
  /\ unseen' = (unseen /\ handle[h].mode # "w")
  /\ UNCHANGED <<content, call, user>>

\* onRelease: close, whether or not that fails, and mWriteFinishedCallback
OnRelease(h) ==
  /\ Free(h)
  /\ handle' = [handle EXCEPT ![h] = Closed]
  /\ unseen' = (unseen /\ ~WritesTo(handle[h].mode))
  /\ UNCHANGED <<content, call, user>>

\* Another program
Change ==
  /\ content' \in Contents
  /\ UNCHANGED <<handle, call, user, unseen>>

-----------------------------------------------------------------------------
Loop == ReadEnd \/ WriteEnd \/ \E n \in 1..Capacity : ReadPart(n) \/ WritePart(n)

Next ==
  \/ \E h \in Handles :
       \/ \E mode \in Modes : Open(h, mode)
       \/ \E from \in Offsets, size \in Sizes : OnRead(h, from, size)
       \/ \E from \in Offsets, bytes \in Writes : OnWrite(h, from, bytes)
       \/ OnRelease(h)
  \/ Loop
  \/ Fail
  \/ Change

Spec == Init /\ [][Next]_vars

\* The looper runs, the server answers, and what it writes is not nothing.
FairSpec == Spec /\ WF_vars(Loop)

-----------------------------------------------------------------------------
Handle == [mode : Modes \cup {"closed"}, position : Nat, offset : Nat]

TypeOK ==
  /\ content \in Seq(Nat)
  /\ handle \in [Handles -> Handle]
  /\ call \in [kind : {"none", "read", "write"}, from : Nat, size : Nat,
              bytes : Seq(Nat), done : Nat]
  /\ user \in Handles \cup {Null}
  /\ call.kind = "none" <=> user = Null
  /\ call.done <= call.size
  /\ unseen \in BOOLEAN

(***************************************************************************)
(* mOffset is the position of the file descriptor, whatever reads, writes  *)
(* and errors there were: SambaFile.seek relies on it.  A file that was    *)
(* opened to append is left out, whose position is at its end at first.    *)
(***************************************************************************)
OffsetTracksPosition ==
  \A h \in Handles : ~Appends(handle[h].mode) => handle[h].offset = handle[h].position

(***************************************************************************)
(* A callback is at the place it has got to: the bytes that onRead gives   *)
(* and onWrite takes next are those at its offset plus what is done.       *)
(***************************************************************************)
CallInPlace ==
  user # Null /\ ~Appends(handle[user].mode) =>
    handle[user].position = call.from + call.done

(***************************************************************************)
(* When no file is open for writing any more, nobody is left with metadata *)
(* from before the last write (onRelease, mWriteFinishedCallback).         *)
(***************************************************************************)
WritesAreSeen == unseen => \E h \in Handles : WritesTo(handle[h].mode)

(***************************************************************************)
(* The looper thread is never kept by a callback: short reads, short       *)
(* writes and the end of the file all bring it nearer to its end.          *)
(***************************************************************************)
CallbacksEnd == call.kind # "none" ~> call.kind = "none"

(***************************************************************************)
(* Positions, chunks and the saved seek do not show: readers and writers   *)
(* see a file with random access (SambaProxyFileCallback, SambaFile).      *)
(***************************************************************************)
RA == INSTANCE RandomAccess WITH request <- call

ImplementsRandomAccess == RA!Spec
=============================================================================
