--------------------------- MODULE SambaFileProofs ---------------------------
(***************************************************************************)
(* Proofs about SambaFile, for any number of open files, any capacity of   *)
(* the buffer and any bytes: mOffset is the position of the descriptor,    *)
(* and the callbacks implement random access to the file.                  *)
(*                                                                         *)
(* The invariant says of a callback where its file is: at the offset that  *)
(* was asked for plus what is done.  That needs mOffset, on which the      *)
(* saved seek relies.                                                      *)
(***************************************************************************)
EXTENDS SambaFile, TLAPS

\* Only a file that may be written is in onWrite, with all it has to write.
WriterOpen ==
  call.kind = "write" => WritesTo(handle[user].mode) /\ call.size = Len(call.bytes)

FileInv ==
  /\ TypeOK
  /\ OffsetTracksPosition
  /\ CallInPlace
  /\ WriterOpen
  /\ WritesAreSeen

Calls == [kind : {"none", "read", "write"}, from : Nat, size : Nat, bytes : Seq(Nat), done : Nat]

-----------------------------------------------------------------------------
(* What WriteAt and ReadAt make of bytes are bytes. *)

LEMMA WriteAtType ==
  ASSUME NEW file \in Seq(Nat), NEW pos \in Nat, NEW bytes \in Seq(Nat)
  PROVE  WriteAt(file, pos, bytes) \in Seq(Nat)
<1> DEFINE end == pos + Len(bytes)
           size == IF end <= Len(file) THEN Len(file) ELSE end
<1>1. end \in Nat /\ size \in Nat
  OBVIOUS
<1>2. ASSUME NEW i \in 1..size
      PROVE  (IF i \in pos + 1 .. end THEN bytes[i - pos]
              ELSE IF i <= Len(file) THEN file[i] ELSE Hole) \in Nat
  <2>1. CASE i \in pos + 1 .. end
    <3>1. i - pos \in 1..Len(bytes)
      BY <2>1, <1>1
    <3> QED
      BY <2>1, <3>1
  <2>2. CASE i \notin pos + 1 .. end
    BY <2>2, <1>1 DEF Hole
  <2> QED
    BY <2>1, <2>2
<1>3. WriteAt(file, pos, bytes) \in [1..size -> Nat]
  BY <1>2 DEF WriteAt
<1>4. \A k \in Nat : [1..k -> Nat] \subseteq Seq(Nat)
  OBVIOUS
<1> HIDE DEF size
<1> QED
  BY <1>1, <1>3, <1>4

LEMMA ReadAtType ==
  ASSUME NEW file \in Seq(Nat), NEW pos \in Nat, NEW n \in Nat, pos + n <= Len(file)
  PROVE  ReadAt(file, pos, n) \in Seq(Nat)
<1>1. \A i \in pos + 1 .. pos + n : file[i] \in Nat
  OBVIOUS
<1> QED
  BY <1>1 DEF ReadAt

LEMMA ChunkType ==
  ASSUME TypeOK, NEW n \in Chunk
  PROVE  n \in Nat \ {0} /\ n <= call.size - call.done /\ call.done + n <= call.size
         /\ n \in 1..call.size
<1>1. call.size \in Nat /\ call.done \in Nat /\ call.done <= call.size /\ Capacity \in Nat
  BY SambaFileAssumption DEF TypeOK
<1> QED
  BY <1>1 DEF Chunk, Smaller

-----------------------------------------------------------------------------
(* FileInv is inductive. *)

LEMMA InitInv == Init => FileInv
<1> SUFFICES ASSUME Init PROVE FileInv
  OBVIOUS
<1> USE DEF Init, NoCall, Callback, Closed
<1>1. TypeOK
  <2>1. content \in Seq(Nat) /\ unseen \in BOOLEAN
    BY SambaFileAssumption
  <2>2. handle \in [Handles -> Handle]
    BY DEF Handle
  <2>3. call \in Calls /\ call.done <= call.size /\ call.kind = "none" /\ user = Null
    BY DEF Calls
  <2> QED
    BY <2>1, <2>2, <2>3 DEF TypeOK, Calls
<1>2. OffsetTracksPosition /\ CallInPlace /\ WriterOpen /\ WritesAreSeen
  BY DEF OffsetTracksPosition, CallInPlace, WriterOpen, WritesAreSeen
<1> QED
  BY <1>1, <1>2 DEF FileInv

\* A step that leaves the callback and the open files alone.
LEMMA QuietInv ==
  ASSUME FileInv, content' \in Seq(Nat), UNCHANGED <<handle, call, user, unseen>>
  PROVE  FileInv'
<1>1. TypeOK'
  BY DEF FileInv, TypeOK
<1> QED
  BY <1>1 DEF FileInv, OffsetTracksPosition, CallInPlace, WriterOpen, WritesAreSeen

LEMMA OpenInv ==
  ASSUME FileInv, NEW h \in Handles, NEW mode \in Modes, Open(h, mode)
  PROVE  FileInv'
<1>1. TypeOK /\ call.kind = "none" /\ user = Null
  BY DEF FileInv, Open, TypeOK
<1>2. PICK pos \in 0..Len(content) :
        /\ ~Appends(mode) => pos = 0
        /\ handle' = [handle EXCEPT ![h] = [mode |-> mode, position |-> pos, offset |-> 0]]
  BY DEF Open
<1>0. pos \in Nat
  BY <1>1 DEF TypeOK
<1>3. call' = call /\ user' = user
  BY DEF Open
<1>4. TypeOK'
  <2>1. content' \in Seq(Nat) /\ unseen' \in BOOLEAN
    BY <1>1 DEF Open, TypeOK
  <2>2. handle' \in [Handles -> Handle]
    BY <1>0, <1>1, <1>2 DEF TypeOK, Handle
  <2> QED
    BY <1>1, <1>3, <2>1, <2>2 DEF TypeOK
<1>5. OffsetTracksPosition'
  BY <1>1, <1>2 DEF FileInv, OffsetTracksPosition, TypeOK, Handle
<1>6. CallInPlace' /\ WriterOpen'
  BY <1>1, <1>3 DEF CallInPlace, WriterOpen
<1>7. WritesAreSeen'
  <2>1. CASE Truncates(mode)
    <3>1. handle'[h].mode = mode
      BY <1>1, <1>2 DEF TypeOK
    <3> QED
      BY <2>1, <3>1 DEF WritesAreSeen, Truncates, WritesTo
  <2>2. CASE ~Truncates(mode)
    <3>1. unseen' = unseen
      BY <1>1, <2>2 DEF Open, TypeOK
    <3>2. ASSUME NEW g \in Handles, WritesTo(handle[g].mode)
          PROVE  WritesTo(handle'[g].mode)
      BY <1>1, <1>2, <3>2 DEF Open, TypeOK, Closed, WritesTo
    <3> QED
      BY <3>1, <3>2 DEF FileInv, WritesAreSeen
  <2> QED
    BY <2>1, <2>2
<1> QED
  BY <1>4, <1>5, <1>6, <1>7 DEF FileInv

LEMMA BeginInv ==
  ASSUME FileInv, NEW h \in Handles, Free(h), NEW c \in Calls,
         c.kind # "none", c.done = 0,
         c.kind = "write" => WritesTo(handle[h].mode) /\ c.size = Len(c.bytes),
         Begin(h, c)
  PROVE  FileInv'
<1>1. TypeOK /\ OffsetTracksPosition /\ WritesAreSeen
  BY DEF FileInv
<1> DEFINE s == Seek(h, c.from)
<1>2. s \in Handle /\ s.mode = handle[h].mode
      /\ (~Appends(s.mode) => s.offset = c.from /\ s.position = c.from)
  <2>1. handle[h] \in Handle /\ c.from \in Nat
    BY <1>1 DEF TypeOK, Calls
  <2>2. CASE handle[h].offset = c.from
    BY <1>1, <2>1, <2>2 DEF Seek, OffsetTracksPosition
  <2>3. CASE handle[h].offset # c.from
    <3>1. s = [handle[h] EXCEPT !.position = c.from, !.offset = c.from]
      BY <2>3 DEF Seek
    <3> QED BY <2>1, <3>1 DEF Handle
  <2> QED BY <2>2, <2>3
<1>3. handle' = [handle EXCEPT ![h] = s] /\ call' = c /\ user' = h
      /\ content' = content /\ unseen' = unseen
  BY DEF Begin
<1> HIDE DEF s
<1>4. handle'[h] = s /\ \A g \in Handles \ {h} : handle'[g] = handle[g]
  BY <1>1, <1>3 DEF TypeOK
<1>5. TypeOK'
  <2>1. handle' \in [Handles -> Handle]
    BY <1>1, <1>2, <1>3 DEF TypeOK
  <2>2. call' \in Calls /\ user' \in Handles /\ user' # Null /\ call'.kind # "none"
        /\ call'.done <= call'.size
    BY <1>3, SambaFileAssumption DEF Calls
  <2> QED
    BY <1>1, <1>3, <2>1, <2>2 DEF TypeOK, Calls
<1>6. OffsetTracksPosition'
  BY <1>1, <1>2, <1>4 DEF OffsetTracksPosition
<1>7. CallInPlace'
  BY <1>2, <1>3, <1>4 DEF CallInPlace, Calls
<1>8. WriterOpen'
  BY <1>2, <1>3, <1>4 DEF WriterOpen
<1>9. WritesAreSeen'
  BY <1>1, <1>2, <1>3, <1>4 DEF WritesAreSeen
<1> QED
  BY <1>5, <1>6, <1>7, <1>8, <1>9 DEF FileInv

\* A round of one of the loops.
LEMMA PartInv ==
  ASSUME FileInv, NEW n \in Chunk, call.kind # "none", content' \in Seq(Nat),
         NEW b \in Seq(Nat), call.kind = "write" => b = call.bytes,
         call' = [call EXCEPT !.bytes = b, !.done = @ + n],
         handle' = Advanced(n), user' = user,
         unseen' = unseen \/ (unseen' = TRUE /\ call.kind = "write")
  PROVE  FileInv'
<1>1. TypeOK /\ OffsetTracksPosition /\ CallInPlace /\ WriterOpen /\ WritesAreSeen
  BY DEF FileInv
<1>2. n \in Nat /\ call.done + n <= call.size
  BY <1>1, ChunkType
<1>3. user \in Handles /\ user # Null
  BY <1>1 DEF TypeOK
<1>5. handle[user] \in Handle /\ call \in Calls
  BY <1>1, <1>3 DEF TypeOK, Calls
<1> DEFINE s == [handle[user] EXCEPT !.position = @ + n, !.offset = @ + n]
<1>s. s \in Handle
  <2>1. handle[user].position + n \in Nat /\ handle[user].offset + n \in Nat
    BY <1>2, <1>5 DEF Handle
  <2> QED
    BY <1>5, <2>1 DEF Handle
<1>4. /\ handle'[user] = s
      /\ \A g \in Handles \ {user} : handle'[g] = handle[g]
      /\ handle' \in [Handles -> Handle]
  <2>1. handle' = [handle EXCEPT ![user] = s]
    BY DEF Advanced
  <2> HIDE DEF s
  <2> QED
    BY <1>1, <1>3, <1>s, <2>1 DEF TypeOK
<1>6. /\ handle'[user].mode = handle[user].mode
      /\ handle'[user].position = handle[user].position + n
      /\ handle'[user].offset = handle[user].offset + n
  BY <1>4, <1>5 DEF Handle
<1>7. /\ call' \in Calls /\ call'.kind = call.kind /\ call'.from = call.from
      /\ call'.done = call.done + n /\ call'.size = call.size /\ call'.bytes = b
  <2>1. call.done + n \in Nat
    BY <1>2, <1>5 DEF Calls
  <2> QED
    BY <1>5, <2>1 DEF Calls
<1>8. TypeOK'
  <2>1. unseen' \in BOOLEAN
    BY <1>1 DEF TypeOK
  <2> QED
    BY <1>1, <1>2, <1>3, <1>4, <1>7, <2>1 DEF TypeOK, Calls
<1>9. OffsetTracksPosition'
  <2> SUFFICES ASSUME NEW g \in Handles, ~Appends(handle'[g].mode)
               PROVE  handle'[g].offset = handle'[g].position
    BY DEF OffsetTracksPosition
  <2>1. CASE g = user
    <3>1. handle[user].offset = handle[user].position
      BY <1>1, <1>3, <1>6, <2>1 DEF OffsetTracksPosition
    <3> QED BY <1>6, <2>1, <3>1
  <2>2. CASE g # user
    BY <1>1, <1>4, <2>2 DEF OffsetTracksPosition
  <2> QED
    BY <2>1, <2>2
<1>10. CallInPlace'
  BY <1>1, <1>2, <1>3, <1>5, <1>6, <1>7 DEF CallInPlace, Handle, Calls
<1>11. WriterOpen'
  BY <1>1, <1>6, <1>7 DEF WriterOpen
<1>12. WritesAreSeen'
  <2>1. ASSUME NEW g \in Handles, WritesTo(handle[g].mode)
        PROVE  WritesTo(handle'[g].mode)
    BY <1>4, <1>6, <2>1
  <2>2. CASE unseen' = unseen
    BY <1>1, <2>1, <2>2 DEF WritesAreSeen
  <2>3. CASE call.kind = "write"
    BY <1>1, <1>3, <2>1, <2>3 DEF WritesAreSeen, WriterOpen
  <2> QED
    BY <2>2, <2>3
<1> QED
  BY <1>8, <1>9, <1>10, <1>11, <1>12 DEF FileInv

LEMMA ReadPartInv ==
  ASSUME FileInv, NEW n \in 1..Capacity, ReadPart(n)
  PROVE  FileInv'
<1>1. TypeOK /\ call.kind = "read" /\ n \in Chunk
  BY DEF FileInv, ReadPart
<1>2. user \in Handles /\ handle[user].position \in Nat /\ n \in Nat
  BY <1>1, ChunkType DEF TypeOK, Handle
<1>3. ReadAt(content, handle[user].position, n) \in Seq(Nat)
  BY <1>1, <1>2, ReadAtType DEF TypeOK, ReadPart
<1> DEFINE b == call.bytes \o ReadAt(content, handle[user].position, n)
<1>4. b \in Seq(Nat)
  BY <1>1, <1>3 DEF TypeOK
<1>5. call' = [call EXCEPT !.bytes = b, !.done = @ + n]
  BY DEF ReadPart
<1>6. content' \in Seq(Nat) /\ handle' = Advanced(n) /\ user' = user /\ unseen' = unseen
  BY <1>1 DEF ReadPart, TypeOK
<1> HIDE DEF b
<1> QED
  BY <1>1, <1>4, <1>5, <1>6, PartInv

LEMMA WritePartInv ==
  ASSUME FileInv, NEW n \in 1..Capacity, WritePart(n)
  PROVE  FileInv'
<1>1. TypeOK /\ WriterOpen /\ call.kind = "write" /\ n \in Chunk
  BY DEF FileInv, WritePart
<1>2. /\ user \in Handles /\ handle[user].position \in Nat
      /\ call.done \in Nat /\ call.bytes \in Seq(Nat) /\ n \in Nat
      /\ call.done + n <= Len(call.bytes)
  BY <1>1, ChunkType DEF TypeOK, Handle, WriterOpen
<1>3. ReadAt(call.bytes, call.done, n) \in Seq(Nat)
  BY <1>2, ReadAtType
<1>4. content' \in Seq(Nat)
  BY <1>1, <1>2, <1>3, WriteAtType DEF WritePart, TypeOK
<1>5. call' = [call EXCEPT !.bytes = call.bytes, !.done = @ + n]
  BY <1>1 DEF WritePart, TypeOK
<1>6. handle' = Advanced(n) /\ user' = user /\ unseen' = TRUE
  BY DEF WritePart
<1> QED
  BY <1>1, <1>2, <1>4, <1>5, <1>6, PartInv

LEMMA FinishInv ==
  ASSUME FileInv, Finish
  PROVE  FileInv'
<1>1. /\ call' = NoCall /\ user' = Null
      /\ content' = content /\ handle' = handle /\ unseen' = unseen
  BY DEF Finish
<1>2. call' \in Calls /\ call'.kind = "none" /\ call'.done <= call'.size
  BY <1>1 DEF NoCall, Callback, Calls
<1>3. TypeOK'
  BY <1>1, <1>2 DEF FileInv, TypeOK, Calls
<1>4. OffsetTracksPosition' /\ CallInPlace' /\ WriterOpen' /\ WritesAreSeen'
  BY <1>1, <1>2 DEF FileInv, OffsetTracksPosition, CallInPlace, WriterOpen, WritesAreSeen
<1> QED
  BY <1>3, <1>4 DEF FileInv

LEMMA OnReleaseInv ==
  ASSUME FileInv, NEW h \in Handles, OnRelease(h)
  PROVE  FileInv'
<1>1. TypeOK /\ call.kind = "none" /\ user = Null
  BY DEF FileInv, OnRelease, Free, TypeOK
<1>2. /\ handle' = [handle EXCEPT ![h] = Closed]
      /\ content' = content /\ call' = call /\ user' = user
      /\ unseen' = (unseen /\ ~WritesTo(handle[h].mode))
  BY DEF OnRelease
<1>3. Closed \in Handle /\ Closed.offset = Closed.position
  BY DEF Closed, Handle
<1>4. handle' \in [Handles -> Handle] /\ handle'[h] = Closed
      /\ \A g \in Handles \ {h} : handle'[g] = handle[g]
  BY <1>1, <1>2, <1>3 DEF TypeOK
<1>5. TypeOK'
  BY <1>1, <1>2, <1>4 DEF TypeOK
<1>6. OffsetTracksPosition'
  BY <1>3, <1>4 DEF FileInv, OffsetTracksPosition
<1>7. CallInPlace' /\ WriterOpen'
  BY <1>1, <1>2 DEF CallInPlace, WriterOpen
<1>8. WritesAreSeen'
  BY <1>2, <1>4 DEF FileInv, WritesAreSeen
<1> QED
  BY <1>5, <1>6, <1>7, <1>8 DEF FileInv

LEMMA OnReadInv ==
  ASSUME FileInv, NEW h \in Handles, NEW from \in Offsets, NEW size \in Sizes,
         OnRead(h, from, size)
  PROVE  FileInv'
<1> DEFINE c == Callback("read", from, size, <<>>)
<1>1. c \in Calls /\ c.kind = "read" /\ c.done = 0
  BY SambaFileAssumption DEF Callback, Calls
<1>2. Free(h) /\ Begin(h, c)
  BY DEF OnRead
<1> HIDE DEF c
<1> QED
  BY <1>1, <1>2, BeginInv

LEMMA OnWriteInv ==
  ASSUME FileInv, NEW h \in Handles, NEW from \in Offsets, NEW bytes \in Writes,
         OnWrite(h, from, bytes)
  PROVE  FileInv'
<1> DEFINE c == Callback("write", from, Len(bytes), bytes)
<1>1. bytes \in Seq(Nat) /\ from \in Nat
  BY SambaFileAssumption
<1>2. c \in Calls /\ c.kind = "write" /\ c.done = 0 /\ c.size = Len(c.bytes)
  BY <1>1 DEF Callback, Calls
<1>3. Free(h) /\ Begin(h, c) /\ WritesTo(handle[h].mode)
  BY DEF OnWrite
<1> HIDE DEF c
<1> QED
  BY <1>2, <1>3, BeginInv

LEMMA StepInv == FileInv /\ [Next]_vars => FileInv'
<1> SUFFICES ASSUME FileInv, [Next]_vars PROVE FileInv'
  OBVIOUS
<1>1. CASE UNCHANGED vars
  BY <1>1, QuietInv DEF vars, FileInv, TypeOK
<1>2. ASSUME NEW h \in Handles, NEW mode \in Modes, Open(h, mode) PROVE FileInv'
  BY <1>2, OpenInv
<1>3. ASSUME NEW h \in Handles, NEW from \in Offsets, NEW size \in Sizes, OnRead(h, from, size)
      PROVE FileInv'
  BY <1>3, OnReadInv
<1>4. ASSUME NEW h \in Handles, NEW from \in Offsets, NEW bytes \in Writes, OnWrite(h, from, bytes)
      PROVE FileInv'
  BY <1>4, OnWriteInv
<1>5. ASSUME NEW h \in Handles, OnRelease(h) PROVE FileInv'
  BY <1>5, OnReleaseInv
<1>6. CASE Loop
  <2>1. CASE ReadEnd
    BY <2>1, FinishInv DEF ReadEnd
  <2>2. CASE WriteEnd
    BY <2>2, FinishInv DEF WriteEnd
  <2>3. CASE \E n \in 1..Capacity : ReadPart(n) \/ WritePart(n)
    BY <2>3, ReadPartInv, WritePartInv
  <2> QED
    BY <1>6, <2>1, <2>2, <2>3 DEF Loop
<1>7. CASE Fail
  BY <1>7, FinishInv DEF Fail
<1>8. CASE Change
  <2>1. content' \in Seq(Nat)
    BY <1>8, SambaFileAssumption DEF Change
  <2> QED
    BY <1>8, <2>1, QuietInv DEF Change
<1> QED
  BY <1>1, <1>2, <1>3, <1>4, <1>5, <1>6, <1>7, <1>8 DEF Next

(***************************************************************************)
(* The invariant, whatever is opened, read, written, released and changed  *)
(* by others, and whichever calls fail (SambaFile, SambaProxyFileCallback).*)
(***************************************************************************)
THEOREM FileInvCorrect == Spec => []FileInv
<1> QED
  BY InitInv, StepInv, PTL DEF Spec

(***************************************************************************)
(* The variables have their types, and no callback does more than was      *)
(* asked (SambaProxyFileCallback.onRead, onWrite).                         *)
(***************************************************************************)
THEOREM TypeCorrect == Spec => []TypeOK
<1>1. FileInv => TypeOK
  BY DEF FileInv
<1> QED
  BY <1>1, FileInvCorrect, PTL

(***************************************************************************)
(* mOffset is the position of the file descriptor (SambaFile).             *)
(***************************************************************************)
THEOREM OffsetCorrect == Spec => []OffsetTracksPosition
<1>1. FileInv => OffsetTracksPosition
  BY DEF FileInv
<1> QED
  BY <1>1, FileInvCorrect, PTL

(***************************************************************************)
(* A callback is at its offset plus what is done (SambaProxyFileCallback). *)
(***************************************************************************)
THEOREM PlaceCorrect == Spec => []CallInPlace
<1>1. FileInv => CallInPlace
  BY DEF FileInv
<1> QED
  BY <1>1, FileInvCorrect, PTL

(***************************************************************************)
(* When no file is open for writing any more, no metadata from before the  *)
(* last write is left (onRelease, mWriteFinishedCallback).                 *)
(***************************************************************************)
THEOREM WritesSeen == Spec => []WritesAreSeen
<1>1. FileInv => WritesAreSeen
  BY DEF FileInv
<1> QED
  BY <1>1, FileInvCorrect, PTL

-----------------------------------------------------------------------------
(* SambaFile implements RandomAccess, unless files are opened to append. *)

LEMMA InitRA == Init => RA!Init
  BY DEF Init, RA!Init, RA!Idle, NoCall, Callback

LEMMA PartRA ==
  ASSUME FileInv, NEW n \in Chunk, call.kind # "none", ~Appends(handle[user].mode)
  PROVE  /\ n \in 1..call.size
         /\ call.done + n <= call.size
         /\ handle[user].position = call.from + call.done
<1>1. TypeOK /\ CallInPlace /\ user # Null
  BY DEF FileInv, TypeOK
<1> QED
  BY <1>1, ChunkType DEF CallInPlace

LEMMA NoAppends ==
  ASSUME "wa" \notin Modes, TypeOK, call.kind # "none"
  PROVE  ~Appends(handle[user].mode)
<1>1. user \in Handles /\ handle[user].mode \in Modes \cup {"closed"}
  BY DEF TypeOK, Handle
<1> QED
  BY <1>1 DEF Appends

LEMMA StepRA ==
  ASSUME "wa" \notin Modes, FileInv, [Next]_vars
  PROVE  [RA!Next]_<<content, call>>
<1>1. CASE UNCHANGED vars
  BY <1>1 DEF vars
<1>2. ASSUME NEW h \in Handles, NEW mode \in Modes, Open(h, mode)
      PROVE  [RA!Next]_<<content, call>>
  BY <1>2 DEF Open, RA!Next, RA!Change
<1>3. ASSUME NEW h \in Handles, NEW from \in Offsets, NEW size \in Sizes, OnRead(h, from, size)
      PROVE  [RA!Next]_<<content, call>>
  BY <1>3 DEF OnRead, Free, Begin, Callback, RA!Next, RA!AskRead
<1>4. ASSUME NEW h \in Handles, NEW from \in Offsets, NEW bytes \in Writes, OnWrite(h, from, bytes)
      PROVE  [RA!Next]_<<content, call>>
  BY <1>4 DEF OnWrite, Free, Begin, Callback, RA!Next, RA!AskWrite
<1>5. ASSUME NEW h \in Handles, OnRelease(h)
      PROVE  [RA!Next]_<<content, call>>
  BY <1>5 DEF OnRelease
<1>6. ASSUME NEW n \in 1..Capacity, ReadPart(n)
      PROVE  [RA!Next]_<<content, call>>
  <2> DEFINE pos == call.from + call.done
  <2>1. call.kind = "read" /\ n \in Chunk
    BY <1>6 DEF ReadPart
  <2>2. n \in 1..call.size /\ call.done + n <= call.size /\ handle[user].position = pos
    BY <2>1, PartRA, NoAppends DEF FileInv
  <2>3. /\ pos + n <= Len(content)
        /\ call' = [call EXCEPT !.bytes = call.bytes \o SubSeq(content, pos + 1, pos + n),
                                !.done = call.done + n]
        /\ content' = content
    BY <1>6, <2>2 DEF ReadPart, ReadAt
  <2>4. RA!Read(n)
    BY <2>1, <2>2, <2>3 DEF RA!Read, RA!ReadAt
  <2> QED
    BY <2>2, <2>4 DEF RA!Next
<1>7. ASSUME NEW n \in 1..Capacity, WritePart(n)
      PROVE  [RA!Next]_<<content, call>>
  <2> DEFINE pos   == call.from + call.done
             bytes == ReadAt(call.bytes, call.done, n)
  <2>1. call.kind = "write" /\ n \in Chunk
    BY <1>7 DEF WritePart
  <2>2. n \in 1..call.size /\ call.done + n <= call.size /\ handle[user].position = pos
    BY <2>1, PartRA, NoAppends DEF FileInv
  <2>3. /\ content' = WriteAt(content, pos, bytes)
        /\ call' = [call EXCEPT !.done = call.done + n]
    BY <1>7, <2>2 DEF WritePart
  <2>4. bytes = RA!ReadAt(call.bytes, call.done, n)
    BY DEF ReadAt, RA!ReadAt
  <2>5. WriteAt(content, pos, bytes) = RA!WriteAt(content, pos, bytes)
    BY DEF WriteAt, RA!WriteAt, Hole, RA!Hole
  <2> HIDE DEF pos, bytes
  <2>6. content' = RA!WriteAt(content, pos, RA!ReadAt(call.bytes, call.done, n))
    BY <2>3, <2>4, <2>5
  <2>7. RA!Write(n)
    BY <2>1, <2>2, <2>3, <2>6 DEF RA!Write, pos
  <2> QED
    BY <2>2, <2>7 DEF RA!Next
<1>8. CASE ReadEnd \/ WriteEnd
  <2>1. call.kind # "none" /\ content' = content /\ call' = RA!Idle
    BY <1>8 DEF ReadEnd, WriteEnd, Finish, RA!Idle, NoCall, Callback
  <2>2. CallInPlace /\ user # Null
    BY <2>1 DEF FileInv, TypeOK
  <2>3. handle[user].position = call.from + call.done
    BY <2>1, <2>2, NoAppends DEF FileInv, CallInPlace
  <2>4. RA!Answer
    BY <1>8, <2>1, <2>3 DEF ReadEnd, WriteEnd, RA!Answer
  <2> QED
    BY <2>4 DEF RA!Next
<1>9. CASE Fail
  BY <1>9 DEF Fail, Finish, RA!Next, RA!Fail, RA!Idle, NoCall, Callback
<1>10. CASE Change
  BY <1>10 DEF Change, RA!Next, RA!Change
<1> QED
  BY <1>1, <1>2, <1>3, <1>4, <1>5, <1>6, <1>7, <1>8, <1>9, <1>10 DEF Next, Loop

(***************************************************************************)
(* Readers and writers see a file with random access, whatever the chunks  *)
(* and short answers (SambaProxyFileCallback on SambaFile), unless it may  *)
(* be opened to append.                                                    *)
(***************************************************************************)
THEOREM RandomAccessImplemented ==
  ASSUME "wa" \notin Modes
  PROVE  Spec => ImplementsRandomAccess
<1> QED
  BY InitRA, StepRA, FileInvCorrect, PTL DEF Spec, ImplementsRandomAccess, RA!Spec
=============================================================================
