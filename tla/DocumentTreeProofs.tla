-------------------------- MODULE DocumentTreeProofs --------------------------
(***************************************************************************)
(* Proofs about DocumentTree, for any tree of documents and any number of  *)
(* threads.                                                                *)
(*                                                                         *)
(* The outermost frame of a deletion is the only one without a folder, so  *)
(* that popping a folder leaves a frame; and all frames hold documents     *)
(* inside the one that is deleted.                                         *)
(***************************************************************************)
EXTENDS DocumentTree, SequenceTheorems, TLAPS

FramesInside(d) == [dir : Inside(d) \cup {Null}, rest : SUBSET (Inside(d) \X Types)]

\* The calls of recursiveDeleteFolder under way in a deletion of d
Stacks(d) == {s \in Seq(FramesInside(d)) : s # <<>> /\ s[Len(s)].dir = Null}

Called == {"created", "missed", "deleting", "forget", "notFound"}

\* What the place of a thread says of its document, target and stack
Thread(c) ==
  /\ pc[c] \in Called => doc[c] \in Docs
  /\ pc[c] = "forget" => target[c] \in Inside(doc[c])
  /\ pc[c] \in {"deleting", "forget"} => stack[c] \in Stacks(doc[c])

ThreadsInv == \A c \in Clients : Thread(c)

TreeInv == TypeOK /\ ThreadsInv /\ GrantsRevoked /\ CachedExist

\* The two halves of TypeOK
ServerTyped ==
  /\ tree \in [Docs -> Types \cup {"none"}]
  /\ cached \in SUBSET Docs
  /\ listed = Null \/ listed \in SUBSET Docs
  /\ listing = Null \/ listing \in SUBSET Docs
  /\ finishing \in BOOLEAN
  /\ finishing => listed # Null
  /\ granted \in SUBSET Docs
  /\ late \in SUBSET Docs
  /\ gone \in SUBSET Docs
  /\ unrevoked \in SUBSET Docs

ClientsTyped ==
  /\ pc \in [Clients -> PCs]
  /\ doc \in [Clients -> Docs \cup {Null}]
  /\ target \in [Clients -> Docs \cup {Null}]
  /\ stack \in [Clients -> Seq(Frames)]

LEMMA TypesSplit ==
  /\ TypeOK <=> ServerTyped /\ ClientsTyped
  /\ TypeOK' <=> ServerTyped' /\ ClientsTyped'
BY DEF TypeOK, ServerTyped, ClientsTyped

-----------------------------------------------------------------------------
(* What is inside a document *)

LEMMA InsideItself == \A d \in Docs : d \in Inside(d)
BY DEF Inside

LEMMA InsideChildren ==
  ASSUME NEW d, NEW p \in Inside(d), NEW x \in Docs, Parent[x] = p
  PROVE  x \in Inside(d)
BY DEF Inside

LEMMA InsideDocs == \A d : Inside(d) \subseteq Docs
BY DEF Inside

LEMMA FramesAreFrames == \A d : FramesInside(d) \subseteq Frames
BY InsideDocs DEF FramesInside, Frames

LEMMA StacksTyped == \A d : Stacks(d) \subseteq Seq(Frames)
<1> SUFFICES ASSUME NEW d, NEW s \in Stacks(d) PROVE s \in Seq(Frames)
  OBVIOUS
<1>1. s \in Seq(FramesInside(d))
  BY DEF Stacks
<1>2. Len(s) \in Nat /\ s \in [1..Len(s) -> FramesInside(d)]
  BY <1>1, LenProperties
<1>3. s \in [1..Len(s) -> Frames]
  BY <1>2, FramesAreFrames
<1> QED BY <1>2, <1>3, SeqDef

LEMMA TopOf ==
  ASSUME NEW d, NEW s \in Stacks(d)
  PROVE  Head(s) \in FramesInside(d)
<1>1. s \in Seq(FramesInside(d)) /\ s # <<>>
  BY DEF Stacks
<1> QED BY <1>1, HeadTailProperties

LEMMA Begun ==
  ASSUME NEW d, NEW f \in FramesInside(d), f.dir = Null
  PROVE  <<f>> \in Stacks(d)
<1>1. <<f>> \in Seq(FramesInside(d)) /\ <<f>> # <<>> /\ Len(<<f>>) = 1 /\ <<f>>[1] = f
  OBVIOUS
<1> QED BY <1>1 DEF Stacks

\* A frame in the place of the top one, of the same folder
LEMMA Replaced ==
  ASSUME NEW d, NEW s \in Stacks(d), NEW f \in FramesInside(d), f.dir = Head(s).dir
  PROVE  <<f>> \o Tail(s) \in Stacks(d)
<1> DEFINE r == <<f>> \o Tail(s)
<1>1. s \in Seq(FramesInside(d)) /\ s # <<>> /\ s[Len(s)].dir = Null
  BY DEF Stacks
<1>2. /\ Tail(s) \in Seq(FramesInside(d))
      /\ Len(s) \in Nat \ {0} /\ Len(Tail(s)) = Len(s) - 1
      /\ Head(s) = s[1]
      /\ \A i \in 1..Len(Tail(s)) : Tail(s)[i] = s[i + 1]
  BY <1>1, HeadTailProperties, LenProperties
<1>3. <<f>> \in Seq(FramesInside(d)) /\ Len(<<f>>) = 1 /\ <<f>>[1] = f
  OBVIOUS
<1>4. r \in Seq(FramesInside(d)) /\ Len(r) = Len(s)
      /\ \A i \in 1..Len(r) : r[i] = IF i <= 1 THEN <<f>>[i] ELSE Tail(s)[i - 1]
  BY <1>2, <1>3, ConcatProperties
<1>5. r # <<>>
  BY <1>2, <1>4, EmptySeq
<1>6. CASE Len(s) = 1
  <2>1. f.dir = Null
    BY <1>1, <1>2, <1>6
  <2>2. Len(r) = 1 /\ r[1] = <<f>>[1]
    BY <1>4, <1>6
  <2> HIDE DEF r
  <2>3. r \in Stacks(d)
    BY <1>3, <1>4, <1>5, <2>1, <2>2 DEF Stacks
  <2> QED BY <2>3 DEF r
<1>7. CASE Len(s) # 1
  <2>1. Len(s) \in 1..Len(r) /\ ~(Len(s) <= 1) /\ Len(s) - 1 \in 1..Len(Tail(s))
    BY <1>2, <1>4, <1>7
  <2>2. r[Len(r)] = Tail(s)[Len(s) - 1]
    BY <1>4, <2>1
  <2>3. Tail(s)[Len(s) - 1] = s[Len(s)]
    BY <1>2, <2>1
  <2> QED BY <1>1, <1>4, <1>5, <2>2, <2>3 DEF Stacks
<1> QED BY <1>6, <1>7

\* A frame on top of the others
LEMMA Pushed ==
  ASSUME NEW d, NEW s \in Stacks(d), NEW f \in FramesInside(d)
  PROVE  <<f>> \o s \in Stacks(d)
<1> DEFINE r == <<f>> \o s
<1>1. s \in Seq(FramesInside(d)) /\ s # <<>> /\ s[Len(s)].dir = Null
  BY DEF Stacks
<1>2. Len(s) \in Nat \ {0}
  BY <1>1, LenProperties, EmptySeq
<1>3. <<f>> \in Seq(FramesInside(d)) /\ Len(<<f>>) = 1
  OBVIOUS
<1>4. r \in Seq(FramesInside(d)) /\ Len(r) = 1 + Len(s)
      /\ \A i \in 1..Len(r) : r[i] = IF i <= 1 THEN <<f>>[i] ELSE s[i - 1]
  BY <1>1, <1>3, ConcatProperties
<1>5. r # <<>>
  BY <1>2, <1>4, EmptySeq
<1>6. r[Len(r)] = s[Len(s)]
  <2>1. Len(r) \in 1..Len(r) /\ ~(Len(r) <= 1) /\ Len(r) - 1 = Len(s)
    BY <1>2, <1>4
  <2> QED BY <1>4, <2>1
<1> QED BY <1>1, <1>4, <1>5, <1>6 DEF Stacks

\* The outermost frame stays when a folder is done.
LEMMA Popped ==
  ASSUME NEW d, NEW s \in Stacks(d), Head(s).dir # Null
  PROVE  Tail(s) \in Stacks(d)
<1>1. s \in Seq(FramesInside(d)) /\ s # <<>> /\ s[Len(s)].dir = Null
  BY DEF Stacks
<1>2. /\ Tail(s) \in Seq(FramesInside(d))
      /\ Len(s) \in Nat \ {0} /\ Len(Tail(s)) = Len(s) - 1
      /\ Head(s) = s[1]
      /\ \A i \in 1..Len(Tail(s)) : Tail(s)[i] = s[i + 1]
  BY <1>1, HeadTailProperties, LenProperties
<1>3. Len(s) # 1
  BY <1>1, <1>2
<1>4. Len(Tail(s)) \in 1..Len(Tail(s)) /\ Len(Tail(s)) + 1 = Len(s)
  BY <1>2, <1>3
<1>5. Tail(s)[Len(Tail(s))] = s[Len(s)]
  BY <1>2, <1>4
<1>6. Tail(s) # <<>>
  <2>1. Len(Tail(s)) # 0 /\ Len(<<>>) = 0
    BY <1>4
  <2> QED BY <2>1
<1> QED BY <1>1, <1>2, <1>5, <1>6 DEF Stacks

-----------------------------------------------------------------------------
(* Steps of a thread *)

\* What a step of c has to show, for the threads to keep what they say
LEMMA ThreadMoves ==
  ASSUME ClientsTyped, ThreadsInv, NEW c \in Clients,
         NEW l \in PCs, NEW d \in Docs \cup {Null}, NEW t \in Docs \cup {Null},
         NEW s \in Seq(Frames),
         pc' = [pc EXCEPT ![c] = l], doc' = [doc EXCEPT ![c] = d],
         target' = [target EXCEPT ![c] = t], stack' = [stack EXCEPT ![c] = s],
         l \in Called => d \in Docs,
         l = "forget" => t \in Inside(d),
         l \in {"deleting", "forget"} => s \in Stacks(d)
  PROVE  /\ ClientsTyped' /\ ThreadsInv'
         /\ pc'[c] = l /\ doc'[c] = d /\ target'[c] = t /\ stack'[c] = s
         /\ \A b \in Clients \ {c} : pc'[b] = pc[b] /\ target'[b] = target[b]
<1>1. /\ pc'[c] = l /\ doc'[c] = d /\ target'[c] = t /\ stack'[c] = s
      /\ \A b \in Clients \ {c} : /\ pc'[b] = pc[b] /\ target'[b] = target[b]
                                  /\ doc'[b] = doc[b] /\ stack'[b] = stack[b]
  BY DEF ClientsTyped
<1>2. ClientsTyped'
  BY DEF ClientsTyped
<1>3. Thread(c)'
  BY <1>1 DEF Thread
<1>4. ASSUME NEW b \in Clients \ {c} PROVE Thread(b)'
  BY <1>1, <1>4 DEF ThreadsInv, Thread
<1>5. ThreadsInv'
  BY <1>3, <1>4 DEF ThreadsInv
<1> QED BY <1>1, <1>2, <1>5

\* ... and a step in the call for the same document
LEMMA ThreadGoesOn ==
  ASSUME ClientsTyped, ThreadsInv, NEW c \in Clients, doc[c] \in Docs,
         NEW l \in PCs, NEW t \in Docs \cup {Null}, NEW s \in Seq(Frames),
         pc' = [pc EXCEPT ![c] = l], doc' = doc,
         target' = [target EXCEPT ![c] = t], stack' = [stack EXCEPT ![c] = s],
         l = "forget" => t \in Inside(doc[c]),
         l \in {"deleting", "forget"} => s \in Stacks(doc[c])
  PROVE  /\ ClientsTyped' /\ ThreadsInv'
         /\ pc'[c] = l /\ target'[c] = t
         /\ \A b \in Clients \ {c} : pc'[b] = pc[b] /\ target'[b] = target[b]
<1>1. /\ pc'[c] = l /\ doc'[c] = doc[c] /\ target'[c] = t /\ stack'[c] = s
      /\ \A b \in Clients \ {c} : /\ pc'[b] = pc[b] /\ target'[b] = target[b]
                                  /\ doc'[b] = doc[b] /\ stack'[b] = stack[b]
  BY DEF ClientsTyped
<1>2. ClientsTyped'
  BY DEF ClientsTyped
<1>3. Thread(c)'
  BY <1>1 DEF Thread
<1>4. ASSUME NEW b \in Clients \ {c} PROVE Thread(b)'
  BY <1>1, <1>4 DEF ThreadsInv, Thread
<1>5. ThreadsInv'
  BY <1>3, <1>4 DEF ThreadsInv
<1> QED BY <1>1, <1>2, <1>5

LEMMA ThreadReturns ==
  ASSUME ClientsTyped, ThreadsInv, NEW c \in Clients, Return(c)
  PROVE  /\ ClientsTyped' /\ ThreadsInv' /\ pc'[c] = "idle"
         /\ \A b \in Clients \ {c} : pc'[b] = pc[b] /\ target'[b] = target[b]
<1>1. /\ "idle" \in PCs /\ "idle" \notin Called
      /\ "idle" # "forget" /\ "idle" \notin {"deleting", "forget"}
  BY DEF PCs, Called
<1>2. <<>> \in Seq(Frames)
  BY EmptySeq
<1>3. Null \in Docs \cup {Null}
  OBVIOUS
<1>4. /\ pc' = [pc EXCEPT ![c] = "idle"] /\ doc' = [doc EXCEPT ![c] = Null]
      /\ target' = [target EXCEPT ![c] = Null] /\ stack' = [stack EXCEPT ![c] = <<>>]
  BY DEF Return, Goto
<1> QED BY <1>1, <1>2, <1>3, <1>4, ThreadMoves

\* A step that leaves a variable alone gives its thread what it had.
LEMMA ThreadAt ==
  ASSUME ClientsTyped, NEW c \in Clients
  PROVE  /\ doc = [doc EXCEPT ![c] = doc[c]] /\ doc[c] \in Docs \cup {Null}
         /\ target = [target EXCEPT ![c] = target[c]] /\ target[c] \in Docs \cup {Null}
         /\ stack = [stack EXCEPT ![c] = stack[c]] /\ stack[c] \in Seq(Frames)
         /\ pc = [pc EXCEPT ![c] = pc[c]] /\ pc[c] \in PCs
BY DEF ClientsTyped

LEMMA ThreadsIdle ==
  ASSUME ClientsTyped, ThreadsInv, UNCHANGED clientVars
  PROVE  ClientsTyped' /\ ThreadsInv'
BY DEF clientVars, ClientsTyped, ThreadsInv, Thread

\* What is being forgotten stays so until its thread has done it.
LEMMA StillForgotten ==
  ASSUME NEW c \in Clients, pc[c] # "forget",
         \A b \in Clients \ {c} : pc'[b] = pc[b] /\ target'[b] = target[b]
  PROVE  \A d : BeingForgotten(d) => BeingForgotten(d)'
BY DEF BeingForgotten

-----------------------------------------------------------------------------
(* What the documents, the cache and the permissions keep *)

\* Whoever was the subject of a deletion stays it
Remembered == \A d : BeingForgotten(d) => BeingForgotten(d)'

LEMMA NothingNew ==
  ASSUME GrantsRevoked, CachedExist, Remembered, UNCHANGED <<tree, cacheVars, granted, gone, unrevoked>>
  PROVE  GrantsRevoked' /\ CachedExist'
BY DEF GrantsRevoked, CachedExist, Remembered, cacheVars

LEMMA ServerIdle ==
  ASSUME ServerTyped, UNCHANGED <<tree, cacheVars, taskVars, granted, gone, unrevoked>>
  PROVE  ServerTyped'
BY DEF ServerTyped, cacheVars, taskVars

\* A step of a thread that only moves it
LEMMA OnlyMoved ==
  ASSUME TreeInv, NEW c \in Clients, pc[c] # "forget",
         UNCHANGED <<tree, cacheVars, taskVars, granted, gone, unrevoked>>,
         ClientsTyped', ThreadsInv',
         \A b \in Clients \ {c} : pc'[b] = pc[b] /\ target'[b] = target[b]
  PROVE  TreeInv'
<1>1. Remembered
  BY StillForgotten DEF Remembered
<1>2. GrantsRevoked' /\ CachedExist'
  BY <1>1, NothingNew DEF TreeInv
<1>3. ServerTyped'
  BY ServerIdle, TypesSplit DEF TreeInv
<1>4. TypeOK'
  BY <1>3, TypesSplit
<1> QED BY <1>2, <1>4 DEF TreeInv

-----------------------------------------------------------------------------
(* Creating *)

LEMMA CreateKeeps ==
  ASSUME TreeInv, NEW c \in Clients, NEW d \in Docs, NEW type \in Types, Create(c, d, type)
  PROVE  TreeInv'
<1> USE TypesSplit DEF TreeInv
<1>1. /\ pc' = [pc EXCEPT ![c] = "created"] /\ doc' = [doc EXCEPT ![c] = d]
      /\ target' = target /\ stack' = stack /\ pc[c] = "idle"
      /\ tree' = [tree EXCEPT ![d] = type]
      /\ gone' = gone \ {d} /\ unrevoked' = unrevoked \ {d}
      /\ UNCHANGED <<cached, listed, late, listing, finishing, granted>>
  BY DEF Create, Goto, cacheVars, taskVars
<1>2. "created" \in PCs /\ "created" \notin {"deleting", "forget"} /\ "created" # "forget"
  BY DEF PCs
<1>3. /\ ClientsTyped' /\ ThreadsInv'
      /\ \A b \in Clients \ {c} : pc'[b] = pc[b] /\ target'[b] = target[b]
  BY <1>1, <1>2, ThreadAt, ThreadMoves
<1>4. Remembered
  BY <1>1, <1>3, StillForgotten DEF Remembered
<1>5. type # "none"
  BY DEF Types
<1>6. ServerTyped'
  BY <1>1 DEF ServerTyped
<1>7. \A x \in Docs : tree'[x] = "none" => tree[x] = "none" /\ x # d
  BY <1>1, <1>5 DEF ServerTyped
<1>8. granted \subseteq Docs /\ cached \subseteq Docs
  BY DEF ServerTyped
<1>9. GrantsRevoked' /\ CachedExist'
  BY <1>1, <1>4, <1>7, <1>8 DEF GrantsRevoked, CachedExist, Remembered
<1> QED BY <1>3, <1>6, <1>9

LEMMA CreatedKeeps ==
  ASSUME TreeInv, NEW c \in Clients, CreatedHit(c) \/ CreatedMiss(c)
  PROVE  TreeInv'
<1> USE TypesSplit DEF TreeInv
<1>1. pc[c] = "created" /\ pc[c] # "forget" /\ doc[c] \in Docs
  BY DEF CreatedHit, CreatedMiss, ThreadsInv, Thread, Called
<1>2. CASE CreatedHit(c)
  <2>1. Return(c) /\ UNCHANGED <<tree, cacheVars, taskVars, granted, gone, unrevoked>>
    BY <1>2 DEF CreatedHit
  <2> QED BY <1>1, <2>1, ThreadReturns, OnlyMoved
<1>3. CASE CreatedMiss(c)
  <2>1. pc' = [pc EXCEPT ![c] = "missed"] /\ doc' = doc /\ target' = target /\ stack' = stack
    BY <1>3 DEF CreatedMiss, Goto
  <2>2. UNCHANGED <<tree, cacheVars, taskVars, granted, gone, unrevoked>>
    BY <1>3 DEF CreatedMiss
  <2>3. PICK t, s : t = target[c] /\ s = stack[c]
    OBVIOUS
  <2>4. /\ target' = [target EXCEPT ![c] = t] /\ t \in Docs \cup {Null}
        /\ stack' = [stack EXCEPT ![c] = s] /\ s \in Seq(Frames)
    BY <2>1, <2>3 DEF ClientsTyped
  <2>5. "missed" \in PCs /\ "missed" \notin {"deleting", "forget"} /\ "missed" # "forget"
    BY DEF PCs
  <2>6. /\ ClientsTyped' /\ ThreadsInv'
        /\ \A b \in Clients \ {c} : pc'[b] = pc[b] /\ target'[b] = target[b]
    BY <1>1, <2>1, <2>4, <2>5, ThreadGoesOn
  <2> QED BY <1>1, <2>2, <2>6, OnlyMoved
<1> QED BY <1>2, <1>3

\* Whatever is put, the cache knows what the server has or is late.
LEMMA PutKeeps ==
  ASSUME ServerTyped, GrantsRevoked, CachedExist, Remembered,
         NEW ds \in SUBSET Docs, PutMetadata(ds), UNCHANGED <<tree, granted, gone, unrevoked>>
  PROVE  /\ cached' \in SUBSET Docs /\ late' \in SUBSET Docs
         /\ listed' = Null \/ listed' \in SUBSET Docs
         /\ listed # Null => listed' # Null
         /\ GrantsRevoked' /\ CachedExist'
<1>1. /\ cached' = cached \cup ds
      /\ listed' = IF listed = Null THEN Null ELSE listed \cup {d \in ds : Parent[d] = Root}
      /\ late' = (late \ ds) \cup {d \in ds : tree[d] = "none"}
  BY DEF PutMetadata
<1>2. cached \in SUBSET Docs /\ late \in SUBSET Docs /\ (listed = Null \/ listed \in SUBSET Docs)
  BY DEF ServerTyped
<1>3. cached' \in SUBSET Docs /\ late' \in SUBSET Docs
  BY <1>1, <1>2
<1>4. (listed' = Null \/ listed' \in SUBSET Docs) /\ (listed # Null => listed' # Null)
  BY <1>1, <1>2, DocumentTreeAssumption
<1>5. GrantsRevoked'
  BY DEF GrantsRevoked, Remembered
<1>6. CachedExist'
  BY <1>1 DEF CachedExist, Remembered
<1> QED BY <1>3, <1>4, <1>5, <1>6

LEMMA PutCreatedKeeps ==
  ASSUME TreeInv, NEW c \in Clients, PutCreated(c)
  PROVE  TreeInv'
<1> USE TypesSplit DEF TreeInv
<1>1. /\ pc[c] = "missed" /\ pc[c] # "forget" /\ {doc[c]} \in SUBSET Docs
      /\ PutMetadata({doc[c]}) /\ Return(c)
      /\ UNCHANGED <<tree, listing, finishing, granted, gone, unrevoked>>
  BY DEF PutCreated, ThreadsInv, Thread, Called, taskVars
<1>2. /\ ClientsTyped' /\ ThreadsInv'
      /\ \A b \in Clients \ {c} : pc'[b] = pc[b] /\ target'[b] = target[b]
  BY <1>1, ThreadReturns
<1>3. Remembered
  BY <1>1, <1>2, StillForgotten DEF Remembered
<1>4. /\ cached' \in SUBSET Docs /\ late' \in SUBSET Docs
      /\ listed' = Null \/ listed' \in SUBSET Docs
      /\ listed # Null => listed' # Null
      /\ GrantsRevoked' /\ CachedExist'
  BY <1>1, <1>3, PutKeeps
<1>5. ServerTyped'
  BY <1>1, <1>4 DEF ServerTyped
<1> QED BY <1>2, <1>4, <1>5

-----------------------------------------------------------------------------
(* Deleting *)

LEMMA DeletingThread ==
  ASSUME ThreadsInv, NEW c \in Clients, pc[c] = "deleting"
  PROVE  doc[c] \in Docs /\ stack[c] \in Stacks(doc[c]) /\ pc[c] # "forget"
BY DEF ThreadsInv, Thread, Called

LEMMA DeleteKeeps ==
  ASSUME TreeInv, NEW c \in Clients, NEW d \in Docs, Delete(c, d)
  PROVE  TreeInv'
<1> USE TypesSplit DEF TreeInv
<1>1. /\ pc[c] = "idle" /\ pc[c] # "forget" /\ doc' = [doc EXCEPT ![c] = d]
  BY DEF Delete
<1>2. UNCHANGED <<tree, cacheVars, taskVars, granted, gone, unrevoked>>
  BY DEF Delete
<1>3. /\ ClientsTyped' /\ ThreadsInv'
      /\ \A b \in Clients \ {c} : pc'[b] = pc[b] /\ target'[b] = target[b]
  <2>1. CASE tree[d] = "none"
    <3>1. /\ pc' = [pc EXCEPT ![c] = "notFound"] /\ target' = [target EXCEPT ![c] = d]
          /\ stack' = stack
      BY <2>1 DEF Delete, Goto
    <3>2. PICK s : s = stack[c]
      OBVIOUS
    <3>3. stack' = [stack EXCEPT ![c] = s] /\ s \in Seq(Frames)
      BY <3>1, <3>2 DEF ClientsTyped
    <3>4. "notFound" \in PCs /\ "notFound" \notin {"deleting", "forget"} /\ "notFound" # "forget"
      BY DEF PCs
    <3> QED BY <1>1, <3>1, <3>3, <3>4, ThreadMoves
  <2>2. CASE tree[d] # "none"
    <3> DEFINE f == Frame(Null, {<<d, tree[d]>>})
    <3>1. /\ pc' = [pc EXCEPT ![c] = "deleting"] /\ target' = target
          /\ stack' = [stack EXCEPT ![c] = <<f>>]
      BY <2>2 DEF Delete, Goto
    <3>2. tree[d] \in Types
      BY <2>2 DEF ServerTyped
    <3>3. f \in FramesInside(d) /\ f.dir = Null
      BY <3>2, InsideItself DEF Frame, FramesInside
    <3>4. PICK t, s : t = target[c] /\ s = <<f>>
      OBVIOUS
    <3>5. s \in Stacks(d)
      BY <3>3, <3>4, Begun
    <3>6. /\ target' = [target EXCEPT ![c] = t] /\ t \in Docs \cup {Null}
          /\ stack' = [stack EXCEPT ![c] = s] /\ s \in Seq(Frames)
      BY <3>1, <3>4, <3>5, StacksTyped DEF ClientsTyped
    <3>7. "deleting" \in PCs /\ "deleting" # "forget"
      BY DEF PCs
    <3> HIDE DEF f
    <3> QED BY <1>1, <3>1, <3>5, <3>6, <3>7, ThreadMoves
  <2> QED BY <2>1, <2>2
<1> QED BY <1>1, <1>2, <1>3, OnlyMoved

LEMMA WithoutInside ==
  ASSUME NEW c \in Clients, NEW d, stack[c] \in Stacks(d), NEW e
  PROVE  Without(c, e) \in Stacks(d)
<1> DEFINE f == [Top(c) EXCEPT !.rest = @ \ {e}]
<1>1. Top(c) \in FramesInside(d) /\ Top(c) = Head(stack[c])
  BY TopOf DEF Top
<1>2. f \in FramesInside(d) /\ f.dir = Head(stack[c]).dir
  BY <1>1 DEF FramesInside
<1> HIDE DEF f
<1>3. <<f>> \o Tail(stack[c]) \in Stacks(d)
  BY <1>2, Replaced
<1> QED BY <1>3 DEF Without, f

LEMMA EntriesInside ==
  ASSUME ServerTyped, NEW d, NEW p \in Inside(d)
  PROVE  Frame(p, Entries(p)) \in FramesInside(d)
<1>1. \A x \in Children(p) : x \in Inside(d) /\ tree[x] \in Types
  BY InsideChildren DEF Children, ServerTyped
<1> QED BY <1>1 DEF Entries, Frame, FramesInside

\* What c removes it is about to forget.
LEMMA RemovalKeeps ==
  ASSUME TreeInv, NEW c \in Clients, pc[c] = "deleting", NEW d \in Inside(doc[c]),
         NEW s \in Stacks(doc[c]),
         tree' = [tree EXCEPT ![d] = "none"], stack' = [stack EXCEPT ![c] = s],
         target' = [target EXCEPT ![c] = d], pc' = [pc EXCEPT ![c] = "forget"],
         doc' = doc, UNCHANGED <<cacheVars, taskVars, granted, gone, unrevoked>>
  PROVE  TreeInv'
<1> USE TypesSplit DEF TreeInv
<1>1. doc[c] \in Docs /\ pc[c] # "forget" /\ d \in Docs /\ s \in Seq(Frames)
  BY DeletingThread, InsideDocs, StacksTyped
<1>2. "forget" \in PCs
  BY DEF PCs
<1>3. /\ ClientsTyped' /\ ThreadsInv' /\ pc'[c] = "forget" /\ target'[c] = d
      /\ \A b \in Clients \ {c} : pc'[b] = pc[b] /\ target'[b] = target[b]
  BY <1>1, <1>2, ThreadGoesOn
<1>4. Remembered
  BY <1>1, <1>3, StillForgotten DEF Remembered
<1>5. BeingForgotten(d)'
  BY <1>3 DEF BeingForgotten
<1>6. UNCHANGED <<cached, listed, late, listing, finishing, granted, gone, unrevoked>>
  BY DEF cacheVars, taskVars
<1>7. ServerTyped'
  BY <1>1, <1>6 DEF ServerTyped
<1>8. \A x \in Docs : x # d => tree'[x] = tree[x]
  BY <1>1 DEF ServerTyped
<1>9. granted \subseteq Docs /\ cached \subseteq Docs
  BY DEF ServerTyped
<1>10. GrantsRevoked' /\ CachedExist'
  BY <1>4, <1>5, <1>6, <1>8, <1>9 DEF GrantsRevoked, CachedExist, Remembered
<1> QED BY <1>3, <1>7, <1>10

LEMMA UnlinkKeeps ==
  ASSUME TreeInv, NEW c \in Clients, NEW d \in Docs, Unlink(c, d)
  PROVE  TreeInv'
<1>1. pc[c] = "deleting" /\ <<d, "file">> \in Top(c).rest
  BY DEF Unlink
<1>2. doc[c] \in Docs /\ stack[c] \in Stacks(doc[c])
  BY <1>1, DeletingThread DEF TreeInv
<1>3. Top(c) \in FramesInside(doc[c])
  BY <1>2, TopOf DEF Top
<1>4. d \in Inside(doc[c])
  BY <1>1, <1>3 DEF FramesInside
<1>5. PICK s : s = Without(c, <<d, "file">>)
  OBVIOUS
<1>6. s \in Stacks(doc[c])
  BY <1>2, <1>5, WithoutInside
<1>7. /\ tree' = [tree EXCEPT ![d] = "none"] /\ stack' = [stack EXCEPT ![c] = s]
      /\ target' = [target EXCEPT ![c] = d] /\ pc' = [pc EXCEPT ![c] = "forget"]
      /\ doc' = doc /\ UNCHANGED <<cacheVars, taskVars, granted, gone, unrevoked>>
  BY <1>5 DEF Unlink, Goto
<1> QED BY <1>1, <1>4, <1>6, <1>7, RemovalKeeps

LEMMA RemoveFolderKeeps ==
  ASSUME TreeInv, NEW c \in Clients, RemoveFolder(c)
  PROVE  TreeInv'
<1>1. PICK d, s : d = Top(c).dir /\ s = Tail(stack[c])
  OBVIOUS
<1>2. /\ pc[c] = "deleting" /\ d # Null
      /\ tree' = [tree EXCEPT ![d] = "none"] /\ stack' = [stack EXCEPT ![c] = s]
      /\ target' = [target EXCEPT ![c] = d] /\ pc' = [pc EXCEPT ![c] = "forget"]
      /\ doc' = doc /\ UNCHANGED <<cacheVars, taskVars, granted, gone, unrevoked>>
  BY <1>1 DEF RemoveFolder, Goto
<1>3. stack[c] \in Stacks(doc[c])
  BY <1>2, DeletingThread DEF TreeInv
<1>4. Top(c) \in FramesInside(doc[c])
  BY <1>3, TopOf DEF Top
<1>5. d \in Inside(doc[c])
  BY <1>1, <1>2, <1>4 DEF FramesInside
<1>6. s \in Stacks(doc[c])
  BY <1>1, <1>2, <1>3, Popped DEF Top
<1> QED BY <1>2, <1>5, <1>6, RemovalKeeps

\* recursiveDeleteFolder goes down into a folder inside.
LEMMA OpenFolderKeeps ==
  ASSUME TreeInv, NEW c \in Clients, NEW d \in Docs, OpenFolder(c, d)
  PROVE  TreeInv'
<1> USE TypesSplit DEF TreeInv
<1>1. pc[c] = "deleting" /\ <<d, "dir">> \in Top(c).rest
  BY DEF OpenFolder
<1>2. doc[c] \in Docs /\ stack[c] \in Stacks(doc[c]) /\ pc[c] # "forget"
  BY <1>1, DeletingThread
<1>3. Top(c) \in FramesInside(doc[c])
  BY <1>2, TopOf DEF Top
<1>4. d \in Inside(doc[c])
  BY <1>1, <1>3 DEF FramesInside
<1>5. Frame(d, Entries(d)) \in FramesInside(doc[c])
  BY <1>4, EntriesInside
<1>6. PICK t, s : /\ t = target[c]
                  /\ s = <<Frame(d, Entries(d))>> \o Without(c, <<d, "dir">>)
  OBVIOUS
<1>7. Without(c, <<d, "dir">>) \in Stacks(doc[c])
  BY <1>2, WithoutInside
<1>8. s \in Stacks(doc[c])
  BY <1>5, <1>6, <1>7, Pushed
<1>9. s \in Seq(Frames)
  BY <1>8, StacksTyped
<1>10. /\ pc' = [pc EXCEPT ![c] = "deleting"] /\ doc' = doc
       /\ target' = [target EXCEPT ![c] = t] /\ t \in Docs \cup {Null}
       /\ stack' = [stack EXCEPT ![c] = s]
  BY <1>1, <1>6 DEF OpenFolder, ClientsTyped
<1>11. "deleting" \in PCs /\ "deleting" # "forget"
  BY DEF PCs
<1>12. /\ ClientsTyped' /\ ThreadsInv'
       /\ \A b \in Clients \ {c} : pc'[b] = pc[b] /\ target'[b] = target[b]
  BY <1>2, <1>8, <1>9, <1>10, <1>11, ThreadGoesOn
<1>13. UNCHANGED <<tree, cacheVars, taskVars, granted, gone, unrevoked>>
  BY DEF OpenFolder
<1> QED BY <1>2, <1>12, <1>13, OnlyMoved

LEMMA RemoveMetadataTyped ==
  ASSUME ServerTyped, NEW d, RemoveMetadata(d)
  PROVE  /\ cached' \in SUBSET Docs /\ late' \in SUBSET Docs
         /\ listed' = Null \/ listed' \in SUBSET Docs
         /\ listed # Null => listed' # Null
<1>1. /\ cached' = cached \ {d} /\ late' = late \ {d}
      /\ listed' = IF listed = Null THEN Null ELSE listed \ {d}
  BY DEF RemoveMetadata
<1>2. cached \in SUBSET Docs /\ late \in SUBSET Docs /\ (listed = Null \/ listed \in SUBSET Docs)
  BY DEF ServerTyped
<1> QED BY <1>1, <1>2, DocumentTreeAssumption

\* What is not forgotten any more is neither cached nor permitted.
LEMMA ForgetKeeps ==
  ASSUME TreeInv, NEW c \in Clients, Forget(c)
  PROVE  TreeInv'
<1> USE TypesSplit DEF TreeInv
<1>1. PICK t, s : t = target[c] /\ s = stack[c]
  OBVIOUS
<1>2. /\ pc[c] = "forget" /\ pc' = [pc EXCEPT ![c] = "deleting"]
      /\ RemoveMetadata(t) /\ granted' = granted \ {t}
      /\ doc' = doc /\ target' = target /\ stack' = stack
      /\ UNCHANGED <<tree, listing, finishing, gone, unrevoked>>
  BY <1>1 DEF Forget, Goto, taskVars
<1>3. /\ doc[c] \in Docs /\ s \in Stacks(doc[c]) /\ s \in Seq(Frames)
  BY <1>1, <1>2, StacksTyped DEF ThreadsInv, Thread, Called
<1>4. /\ target' = [target EXCEPT ![c] = t] /\ t \in Docs \cup {Null}
      /\ stack' = [stack EXCEPT ![c] = s]
  BY <1>1, <1>2 DEF ClientsTyped
<1>5. "deleting" \in PCs /\ "deleting" # "forget"
  BY DEF PCs
<1>6. /\ ClientsTyped' /\ ThreadsInv'
      /\ \A b \in Clients \ {c} : pc'[b] = pc[b] /\ target'[b] = target[b]
  BY <1>2, <1>3, <1>4, <1>5, ThreadGoesOn
<1>7. ASSUME NEW d, d # t, BeingForgotten(d) PROVE BeingForgotten(d)'
  BY <1>1, <1>6, <1>7 DEF BeingForgotten
<1>8. cached' = cached \ {t} /\ late' = late \ {t}
  BY <1>2 DEF RemoveMetadata
<1>9. GrantsRevoked' /\ CachedExist'
  BY <1>2, <1>7, <1>8 DEF GrantsRevoked, CachedExist
<1>10. ServerTyped'
  BY <1>2, RemoveMetadataTyped DEF ServerTyped
<1> QED BY <1>6, <1>9, <1>10

LEMMA NotFoundKeeps ==
  ASSUME TreeInv, NEW c \in Clients, NotFound(c)
  PROVE  TreeInv'
<1> USE TypesSplit DEF TreeInv
<1>1. PICK d \in Folders(c) : target' = [target EXCEPT ![c] = d]
  BY DEF NotFound
<1>2. /\ pc[c] = "deleting" /\ pc' = [pc EXCEPT ![c] = "notFound"] /\ doc' = doc
      /\ UNCHANGED <<tree, cacheVars, taskVars, granted, gone, unrevoked>>
  BY DEF NotFound, Goto
<1>3. PICK s : s = <<>>
  OBVIOUS
<1>4. stack' = [stack EXCEPT ![c] = s] /\ s \in Seq(Frames)
  BY <1>3, EmptySeq DEF NotFound
<1>5. doc[c] \in Docs /\ stack[c] \in Stacks(doc[c]) /\ pc[c] # "forget"
  BY <1>2, DeletingThread
<1>6. Top(c) \in FramesInside(doc[c])
  BY <1>5, TopOf DEF Top
<1>7. d \in Docs
  BY <1>1, <1>6, InsideDocs DEF Folders, FramesInside
<1>8. "notFound" \in PCs /\ "notFound" \notin {"deleting", "forget"} /\ "notFound" # "forget"
  BY DEF PCs
<1>9. /\ ClientsTyped' /\ ThreadsInv'
      /\ \A b \in Clients \ {c} : pc'[b] = pc[b] /\ target'[b] = target[b]
  BY <1>1, <1>2, <1>4, <1>5, <1>7, <1>8, ThreadGoesOn
<1> QED BY <1>2, <1>5, <1>9, OnlyMoved

LEMMA NoNeedToDeleteKeeps ==
  ASSUME TreeInv, NEW c \in Clients, NoNeedToDelete(c)
  PROVE  TreeInv'
<1> USE TypesSplit DEF TreeInv
<1>1. PICK d : d = doc[c]
  OBVIOUS
<1>2. /\ pc[c] = "notFound" /\ pc[c] # "forget" /\ RemoveMetadata(d) /\ Return(c)
      /\ UNCHANGED <<tree, listing, finishing, granted, gone, unrevoked>>
  BY <1>1 DEF NoNeedToDelete, taskVars
<1>3. /\ ClientsTyped' /\ ThreadsInv'
      /\ \A b \in Clients \ {c} : pc'[b] = pc[b] /\ target'[b] = target[b]
  BY <1>2, ThreadReturns
<1>4. Remembered
  BY <1>2, <1>3, StillForgotten DEF Remembered
<1>5. cached' = cached \ {d} /\ late' = late \ {d}
  BY <1>2 DEF RemoveMetadata
<1>6. GrantsRevoked' /\ CachedExist'
  BY <1>2, <1>4, <1>5 DEF GrantsRevoked, CachedExist, Remembered
<1>7. ServerTyped'
  BY <1>2, RemoveMetadataTyped DEF ServerTyped
<1> QED BY <1>3, <1>6, <1>7

\* What a process that ends has deleted and not forgotten is not revoked.
LEMMA ProcessEndsKeeps ==
  ASSUME TreeInv, ProcessEnds
  PROVE  TreeInv'
<1> USE TypesSplit DEF TreeInv
<1>1. <<>> \in Seq(Frames) /\ "idle" \in PCs
  BY EmptySeq DEF PCs
<1>2. /\ pc' = [c \in Clients |-> "idle"] /\ doc' = [c \in Clients |-> Null]
      /\ target' = [c \in Clients |-> Null] /\ stack' = [c \in Clients |-> <<>>]
  BY DEF ProcessEnds
<1>3. ClientsTyped'
  BY <1>1, <1>2 DEF ClientsTyped
<1>4. ThreadsInv'
  BY <1>2 DEF ThreadsInv, Thread, Called
<1>5. /\ unrevoked' = unrevoked \cup {d \in Docs : tree[d] = "none" /\ BeingForgotten(d)}
      /\ cached' = {} /\ listed' = Null /\ late' = {} /\ listing' = Null /\ finishing' = FALSE
      /\ tree' = tree /\ granted' = granted /\ gone' = gone
  BY DEF ProcessEnds
<1>6. ServerTyped'
  BY <1>5 DEF ServerTyped
<1>7. GrantsRevoked'
  BY <1>5 DEF GrantsRevoked, ServerTyped
<1>8. CachedExist'
  BY <1>5 DEF CachedExist
<1> QED BY <1>3, <1>4, <1>6, <1>7, <1>8

\* The other ends of a call
LEMMA ReturnKeeps ==
  ASSUME TreeInv, NEW c \in Clients, Deleted(c) \/ Fail(c) \/ Refused(c)
  PROVE  TreeInv'
<1> USE TypesSplit DEF TreeInv
<1>1. /\ pc[c] # "forget" /\ Return(c)
      /\ UNCHANGED <<tree, cacheVars, taskVars, granted, gone, unrevoked>>
  BY DEF Deleted, Fail, Refused
<1> QED BY <1>1, ThreadReturns, OnlyMoved

LEMMA RenameKeeps ==
  ASSUME TreeInv, NEW c \in Clients, NEW d \in Docs, NEW new \in Docs, Rename(c, d, new)
  PROVE  TreeInv'
<1> USE TypesSplit DEF TreeInv
<1>1. pc[c] = "idle" /\ pc[c] # "forget" /\ pc' = [pc EXCEPT ![c] = "EINVAL"]
  <2>1. SambaClientRename(d, new) = {"EINVAL"}
    BY DEF SambaClientRename, SmbcRename
  <2> QED BY <2>1 DEF Rename, Goto
<1>2. PICK e, t, s : e = doc[c] /\ t = target[c] /\ s = stack[c]
  OBVIOUS
<1>3. /\ doc' = [doc EXCEPT ![c] = e] /\ e \in Docs \cup {Null}
      /\ target' = [target EXCEPT ![c] = t] /\ t \in Docs \cup {Null}
      /\ stack' = [stack EXCEPT ![c] = s] /\ s \in Seq(Frames)
  BY <1>2 DEF Rename, ClientsTyped
<1>4. "EINVAL" \in PCs /\ "EINVAL" \notin Called /\ "EINVAL" \notin {"deleting", "forget"}
  BY DEF PCs, Called
<1>5. /\ ClientsTyped' /\ ThreadsInv'
      /\ \A b \in Clients \ {c} : pc'[b] = pc[b] /\ target'[b] = target[b]
  BY <1>1, <1>3, <1>4, ThreadMoves
<1>6. UNCHANGED <<tree, cacheVars, taskVars, granted, gone, unrevoked>>
  BY DEF Rename
<1> QED BY <1>1, <1>5, <1>6, OnlyMoved

-----------------------------------------------------------------------------
(* The listing of Root, permissions, and other programs *)

LEMMA ListingKeeps ==
  ASSUME TreeInv, ReadDir \/ SetChildren \/ FinishListing
  PROVE  TreeInv'
<1> USE TypesSplit DEF TreeInv
<1>1. UNCHANGED clientVars
  BY DEF ReadDir, SetChildren, FinishListing
<1>2. ClientsTyped' /\ ThreadsInv'
  BY <1>1, ThreadsIdle
<1>3. Remembered
  BY <1>1 DEF Remembered, BeingForgotten, clientVars
<1>4. CASE ReadDir
  <2>1. /\ listing' = Children(Root)
        /\ UNCHANGED <<tree, cached, listed, late, finishing, granted, gone, unrevoked>>
    BY <1>4 DEF ReadDir, cacheVars
  <2>2. ServerTyped'
    BY <2>1 DEF ServerTyped, Children
  <2>3. GrantsRevoked' /\ CachedExist'
    BY <1>3, <2>1, NothingNew DEF cacheVars
  <2> QED BY <1>2, <2>2, <2>3
<1>5. CASE SetChildren
  <2>1. /\ listing # Null /\ listed' = listing /\ listing' = Null /\ finishing' = TRUE
        /\ UNCHANGED <<tree, cached, late, granted, gone, unrevoked>>
    BY <1>5 DEF SetChildren
  <2>2. ServerTyped'
    BY <2>1 DEF ServerTyped
  <2>3. GrantsRevoked' /\ CachedExist'
    BY <1>3, <2>1 DEF GrantsRevoked, CachedExist, Remembered
  <2> QED BY <1>2, <2>2, <2>3
<1>6. CASE FinishListing
  <2>1. /\ finishing /\ PutMetadata(listed) /\ finishing' = FALSE
        /\ UNCHANGED <<tree, listing, granted, gone, unrevoked>>
    BY <1>6 DEF FinishListing
  <2>2. listed \in SUBSET Docs
    BY <2>1 DEF ServerTyped
  <2>3. /\ cached' \in SUBSET Docs /\ late' \in SUBSET Docs
        /\ listed' = Null \/ listed' \in SUBSET Docs
        /\ GrantsRevoked' /\ CachedExist'
    BY <1>3, <2>1, <2>2, PutKeeps
  <2>4. ServerTyped'
    BY <2>1, <2>3 DEF ServerTyped
  <2> QED BY <1>2, <2>3, <2>4
<1> QED BY <1>4, <1>5, <1>6

LEMMA GrantKeeps ==
  ASSUME TreeInv, NEW d \in Docs, Grant(d)
  PROVE  TreeInv'
<1> USE TypesSplit DEF TreeInv
<1>1. /\ tree[d] # "none" /\ granted' = granted \cup {d} /\ UNCHANGED clientVars
      /\ UNCHANGED <<tree, cached, listed, late, listing, finishing, gone, unrevoked>>
  BY DEF Grant, cacheVars, taskVars
<1>2. ClientsTyped' /\ ThreadsInv'
  BY <1>1, ThreadsIdle
<1>3. Remembered
  BY <1>1 DEF Remembered, BeingForgotten, clientVars
<1>4. ServerTyped'
  BY <1>1 DEF ServerTyped
<1>5. GrantsRevoked' /\ CachedExist'
  BY <1>1, <1>3 DEF GrantsRevoked, CachedExist, Remembered
<1> QED BY <1>2, <1>4, <1>5

\* What another program removes is gone.
LEMMA OtherProgramKeeps ==
  ASSUME TreeInv, NEW d \in Docs, NEW type \in Types \cup {"none"}, OtherProgram(d, type)
  PROVE  TreeInv'
<1> USE TypesSplit DEF TreeInv
<1>1. /\ tree' = [tree EXCEPT ![d] = type] /\ UNCHANGED clientVars
      /\ gone' = IF type = "none" THEN gone \cup {d} ELSE gone \ {d}
      /\ unrevoked' = unrevoked \ {d}
      /\ UNCHANGED <<cached, listed, late, listing, finishing, granted>>
  BY DEF OtherProgram, cacheVars, taskVars
<1>2. ClientsTyped' /\ ThreadsInv'
  BY <1>1, ThreadsIdle
<1>3. Remembered
  BY <1>1 DEF Remembered, BeingForgotten, clientVars
<1>4. ServerTyped'
  BY <1>1 DEF ServerTyped
<1>5. \A x \in Docs : tree'[x] = "none" => x \in gone' \/ (tree[x] = "none" /\ x # d)
  BY <1>1 DEF ServerTyped
<1>6. granted \subseteq Docs /\ cached \subseteq Docs
  BY DEF ServerTyped
<1>7. GrantsRevoked' /\ CachedExist'
  BY <1>1, <1>3, <1>5, <1>6 DEF GrantsRevoked, CachedExist, Remembered
<1> QED BY <1>2, <1>4, <1>7

-----------------------------------------------------------------------------
LEMMA TreeBegins ==
  ASSUME Init
  PROVE  TreeInv
<1>1. ServerTyped
  BY DEF Init, ServerTyped
<1>2. <<>> \in Seq(Frames) /\ "idle" \in PCs
  BY EmptySeq DEF PCs
<1>3. ClientsTyped
  BY <1>2 DEF Init, ClientsTyped
<1>4. ThreadsInv
  BY DEF Init, ThreadsInv, Thread, Called
<1>5. GrantsRevoked /\ CachedExist
  BY DEF Init, GrantsRevoked, CachedExist
<1> QED BY <1>1, <1>3, <1>4, <1>5, TypesSplit DEF TreeInv

LEMMA TreeGoesOn ==
  ASSUME TreeInv, [Next]_vars
  PROVE  TreeInv'
<1>1. CASE UNCHANGED vars
  <2>1. UNCHANGED clientVars /\ UNCHANGED <<tree, cacheVars, taskVars, granted, gone, unrevoked>>
    BY <1>1 DEF vars
  <2>2. ClientsTyped' /\ ThreadsInv'
    BY <2>1, ThreadsIdle, TypesSplit DEF TreeInv
  <2>3. Remembered
    BY <2>1 DEF Remembered, BeingForgotten, clientVars
  <2>4. GrantsRevoked' /\ CachedExist'
    BY <2>1, <2>3, NothingNew DEF TreeInv
  <2>5. ServerTyped'
    BY <2>1, ServerIdle, TypesSplit DEF TreeInv
  <2> QED BY <2>2, <2>4, <2>5, TypesSplit DEF TreeInv
<1>2. ASSUME NEW c \in Clients, NEW d \in Docs,
             \/ \E type \in Types : Create(c, d, type)
             \/ Delete(c, d)
             \/ \E new \in Docs : Rename(c, d, new)
      PROVE  TreeInv'
  BY <1>2, CreateKeeps, DeleteKeeps, RenameKeeps
<1>3. ASSUME NEW c \in Clients, CreateStep(c) PROVE TreeInv'
  BY <1>3, CreatedKeeps, PutCreatedKeeps DEF CreateStep
<1>4. ASSUME NEW c \in Clients, DeleteStep(c) PROVE TreeInv'
  BY <1>4, UnlinkKeeps, OpenFolderKeeps, RemoveFolderKeeps, ForgetKeeps, ReturnKeeps,
     NotFoundKeeps, NoNeedToDeleteKeeps, ProcessEndsKeeps DEF DeleteStep, UnlinkFails
<1>5. ASSUME NEW c \in Clients, ClientStep(c) PROVE TreeInv'
  BY <1>3, <1>4, <1>5, ReturnKeeps DEF ClientStep
<1>6. CASE ReadDir \/ SetChildren \/ FinishListing
  BY <1>6, ListingKeeps
<1>7. ASSUME NEW d \in Docs, Grant(d) \/ \E type \in Types \cup {"none"} : OtherProgram(d, type)
      PROVE  TreeInv'
  BY <1>7, GrantKeeps, OtherProgramKeeps
<1>8. CASE Kill
  BY <1>8, ProcessEndsKeeps DEF Kill
<1> QED BY <1>1, <1>2, <1>5, <1>6, <1>7, <1>8 DEF Next

THEOREM TreeInvariant == Spec => []TreeInv
<1>1. Init => TreeInv
  BY TreeBegins
<1>2. TreeInv /\ [Next]_vars => TreeInv'
  BY TreeGoesOn
<1> QED BY <1>1, <1>2, PTL DEF Spec

(***************************************************************************)
(* Types: in particular the listing that onFinish puts has been set, and   *)
(* what a deletion that finds nothing is about is a document.              *)
(***************************************************************************)
THEOREM TypeCorrect == Spec => []TypeOK
<1>1. TreeInv => TypeOK
  BY DEF TreeInv
<1> QED BY <1>1, TreeInvariant, PTL

(***************************************************************************)
(* deleteDocument, of a folder however deep, deletes nothing but what is   *)
(* inside, whatever others change meanwhile.                               *)
(***************************************************************************)
THEOREM NothingOutside == Spec => []DeletesInside
<1>1. TreeInv => DeletesInside
  BY DEF TreeInv, ThreadsInv, Thread, DeletesInside
<1> QED BY <1>1, TreeInvariant, PTL

(***************************************************************************)
(* Permissions outlive what the provider deletes only where the process    *)
(* ended between the call that deleted it and revokeDocumentPermission,    *)
(* whatever other threads and programs do and however often it ends.       *)
(***************************************************************************)
THEOREM PermissionsRevoked == Spec => []GrantsRevoked
<1>1. TreeInv => GrantsRevoked
  BY DEF TreeInv
<1> QED BY <1>1, TreeInvariant, PTL

(***************************************************************************)
(* The cache knows nothing that does not exist, but for what it was told   *)
(* too late and for what other programs removed.                           *)
(***************************************************************************)
THEOREM CacheCoherent == Spec => []CachedExist
<1>1. TreeInv => CachedExist
  BY DEF TreeInv
<1> QED BY <1>1, TreeInvariant, PTL
=============================================================================
