------------------------------ MODULE NativeClient ------------------------------
(***************************************************************************)
(* The native client: NativeSambaFacade with its SambaFile and SambaDir    *)
(* objects, the functions of JniHelper and SambaClient, and what they      *)
(* expect of libsmbclient.                                                 *)
(*                                                                         *)
(* All calls are made on the looper thread, one at a time, so that each is *)
(* a step.  reset, which the network callback and each change of smb.conf  *)
(* ask for, may come between any two of them: it frees the context of      *)
(* libsmbclient and makes a new one, while objects keep the numbers of     *)
(* what they have open.                                                    *)
(*                                                                         *)
(* libsmbclient is external.  The functions without a context work on the  *)
(* one given to smbc_set_context last.  A number stays in use until it is  *)
(* closed; what it stands for is lost with its context (smbc_free_context: *)
(* "all connections and files will be closed even if they are busy") and   *)
(* gives EBADF from then on.  The address of a context that was freed may  *)
(* be that of the next one.                                                *)
(***************************************************************************)
EXTENDS Naturals

CONSTANTS
  Contexts,  \* addresses of contexts
  Numbers,   \* descriptors of libsmbclient
  Objects,   \* SambaFile and SambaDir objects
  Documents, \* files and directories
  Folders,   \* the directories among them
  Entries,   \* of each directory
  Null

Descriptors == [document : Documents, unread : SUBSET Entries, open : BOOLEAN]
Handles     == [number : Numbers \cup {Null}, document : Documents]
Views       == [document : Documents, unread : SUBSET Entries, lost : BOOLEAN]
Uses        == [object : Objects, document : Documents]

ASSUME NativeClientAssumption ==
  /\ Folders \subseteq Documents
  /\ Null \notin Contexts \cup Numbers \cup Objects
  /\ Null \notin Descriptors \cup Handles \cup Views \cup Uses

VARIABLES
  handler,   \* mNativeHandler: the context of the client, or Null for 0
  live,      \* contexts that are allocated
  current,   \* the context given to smbc_set_context, or Null
  table,     \* what each number stands for, or Null
  object,    \* the objects: number (Null when closed) and document, or Null
  answer,    \* the last call: its object, what it has reached and what it threw
  fault,     \* how the process has ended
  initFailed \* some Init has returned false (history)

clientVars == <<handler, live, current>>
vars == <<clientVars, table, object, answer, fault, initFailed>>

Errors == {"ENOENT", "ENODEV", "EACCES", "EPERM", "EBADF", "EINVAL", "EIO"}
PathCalls == {"stat", "createFile", "mkdir", "rename", "unlink", "rmdir"}

\* An altered Thrown: NativeSambaFacade catches no ErrnoException.
ThrownUncaught(op, err) ==
  IF err \in {"ENOENT", "ENODEV"} THEN "FileNotFoundException"
  ELSE IF \/ err = "EACCES"
          \/ err = "EPERM" /\ op \in {"openDir", "rename", "unlink", "rmdir"}
  THEN "AuthFailedException"
  ELSE "ErrnoException"

\* How the functions of JniHelper and the catch clauses of NativeSambaFacade
\* turn an errno into an exception
Thrown(op, err) ==
  IF err \in {"ENOENT", "ENODEV"} THEN "FileNotFoundException"
  ELSE IF \/ err = "EACCES"
          \/ err = "EPERM" /\ op \in {"openDir", "rename", "unlink", "rmdir"}
  THEN "AuthFailedException"
  ELSE "IOException"

Answer(o, reached, thrown) == [object |-> o, reached |-> reached, thrown |-> thrown]
NoAnswer == Answer(Null, Null, "none")

Throw(e) == answer' = Answer(Null, Null, e)

\* The errno that libsmbclient may give for a call: a rename gets no new name
Fails(op, err) == IF op = "rename" THEN err = "EINVAL" ELSE err \in Errors

Descriptor(d) == [document |-> d, unread |-> Entries, open |-> TRUE]

\* What has become of the numbers when their context was freed
Lost ==
  [n \in Numbers |-> IF table[n] = Null THEN Null ELSE [table[n] EXCEPT !.open = FALSE]]

Opened(o) == object[o] # Null /\ object[o].number # Null

\* The number of o stands for something that libsmbclient has open.
Valid(o) ==
  /\ Opened(o)
  /\ table[object[o].number] # Null
  /\ table[object[o].number].open

-----------------------------------------------------------------------------
Init ==
  /\ handler = Null
  /\ live = {}
  /\ current = Null
  /\ table = [n \in Numbers |-> Null]
  /\ object = [o \in Objects |-> Null]
  /\ answer = NoAnswer
  /\ fault = "none"
  /\ initFailed = FALSE

(* reset: nativeDestroy, unless the handler is 0, and nativeInit *)

\* ~SambaClient: the context cannot be freed.
ExitToAvoidLeak ==
  /\ handler # Null
  /\ fault' = "exit"
  /\ UNCHANGED <<clientVars, table, object, answer, initFailed>>

\* An altered InitSucceeds: does not set the context.
InitSucceedsUnset ==
  /\ \E x \in Contexts \ (live \ {handler}) :
       /\ live' = (live \ {handler}) \cup {x}
       /\ handler' = x
  /\ table' = Lost
  /\ answer' = NoAnswer
  /\ UNCHANGED <<current, object, fault, initFailed>>

\* An altered InitSucceeds: the client that was there is not destroyed.
InitSucceedsUndestroyed ==
  /\ \E x \in Contexts \ live :
       /\ live' = live \cup {x}
       /\ handler' = x
       /\ current' = x
  /\ table' = Lost
  /\ answer' = NoAnswer
  /\ UNCHANGED <<object, fault, initFailed>>

InitSucceeds ==
  /\ \E x \in Contexts \ (live \ {handler}) :
       /\ live' = (live \ {handler}) \cup {x}
       /\ handler' = x
       /\ current' = x
  /\ table' = Lost
  /\ answer' = NoAnswer
  /\ UNCHANGED <<object, fault, initFailed>>

\* smbc_new_context returns NULL.
NewContextFails ==
  /\ live' = live \ {handler}
  /\ handler' = Null
  /\ table' = Lost
  /\ answer' = NoAnswer
  /\ initFailed' = TRUE
  /\ UNCHANGED <<current, object, fault>>

\* smbc_init_context fails, the context is freed, and the pointer to it left
\* for the destructor of the client, which frees it again.
InitContextFails ==
  /\ live' = live \ {handler}
  /\ handler' = Null
  /\ table' = Lost
  /\ answer' = NoAnswer
  /\ initFailed' = TRUE
  /\ fault' = "double free"
  /\ UNCHANGED <<current, object>>

-----------------------------------------------------------------------------
(* Calls of NativeSambaFacade *)

\* checkNativeHandler
Uninitialised ==
  /\ handler = Null
  /\ Throw("IllegalStateException")
  /\ UNCHANGED <<clientVars, table, object, fault, initFailed>>

PathCallSucceeds(op) ==
  /\ handler # Null
  /\ op # "rename"
  /\ answer' = NoAnswer
  /\ UNCHANGED <<clientVars, table, object, fault, initFailed>>

PathCallFails(op, err) ==
  /\ handler # Null
  /\ Fails(op, err)
  /\ op # "unlink"
  /\ Throw(Thrown(op, err))
  /\ UNCHANGED <<clientVars, table, object, fault, initFailed>>

\* SambaClient::Unlink logs the errno, a number, as a string.
UnlinkFails ==
  /\ handler # Null
  /\ fault' = "bad format"
  /\ UNCHANGED <<clientVars, table, object, answer, initFailed>>

\* openFile and openDir, which make an object; a mode that openFile does not
\* know counts as EPERM
Open(o, d) ==
  /\ handler # Null
  /\ object[o] = Null
  /\ \E n \in {m \in Numbers : table[m] = Null} :
       /\ table' = [table EXCEPT ![n] = Descriptor(d)]
       /\ object' = [object EXCEPT ![o] = [number |-> n, document |-> d]]
  /\ answer' = NoAnswer
  /\ UNCHANGED <<clientVars, fault, initFailed>>

OpenFails(op, err) ==
  /\ handler # Null
  /\ Throw(Thrown(op, err))
  /\ UNCHANGED <<clientVars, table, object, fault, initFailed>>

-----------------------------------------------------------------------------
(* Calls of SambaFile and SambaDir, which do not check the handler *)

IsDir(o) == object[o] # Null /\ object[o].document \in Folders
IsFile(o) == object[o] # Null /\ ~IsDir(o)

Callable(o) == object[o] # Null /\ current \in live

\* read, write, seek and fstat
Use(o) ==
  /\ Callable(o)
  /\ IsFile(o)
  /\ Valid(o)
  /\ answer' = Answer(o, table[object[o].number].document, "none")
  /\ UNCHANGED <<clientVars, table, object, fault, initFailed>>

\* seek to where the file is calls nobody.
SeekInPlace(o) ==
  /\ IsFile(o)
  /\ answer' = NoAnswer
  /\ UNCHANGED <<clientVars, table, object, fault, initFailed>>

\* An error of the server, or EBADF
UseFails(o) ==
  /\ Callable(o)
  /\ IsFile(o)
  /\ Throw("IOException")
  /\ UNCHANGED <<clientVars, table, object, fault, initFailed>>

ReadDir(o, e) ==
  /\ Callable(o)
  /\ IsDir(o)
  /\ Valid(o)
  /\ e \in table[object[o].number].unread
  /\ table' = [table EXCEPT ![object[o].number].unread = @ \ {e}]
  /\ answer' = Answer(o, table[object[o].number].document, "none")
  /\ UNCHANGED <<clientVars, object, fault, initFailed>>

\* smbc_readdir returns NULL, at the end and also for EBADF: ReadDir always
\* returns 0.
ReadDirEnds(o) ==
  /\ Callable(o)
  /\ IsDir(o)
  /\ Valid(o) => table[object[o].number].unread = {}
  /\ answer' = NoAnswer
  /\ UNCHANGED <<clientVars, table, object, fault, initFailed>>

\* An altered Close: does not forget the number.
CloseKeepingNumber(o) ==
  /\ Callable(o)
  /\ IF Opened(o)
     THEN /\ table' = [table EXCEPT ![object[o].number] = Null]
          /\ \E thrown \in {"none", "IOException"} : Throw(thrown)
     ELSE Throw("IOException") /\ UNCHANGED table
  /\ UNCHANGED <<clientVars, object, fault, initFailed>>

\* close: the number is forgotten first, so that closing again closes -1.
Close(o) ==
  /\ Callable(o)
  /\ IF Opened(o)
     THEN /\ table' = [table EXCEPT ![object[o].number] = Null]
          /\ \E thrown \in {"none", "IOException"} : Throw(thrown)
     ELSE Throw("IOException") /\ UNCHANGED table
  /\ object' = [object EXCEPT ![o].number = Null]
  /\ UNCHANGED <<clientVars, fault, initFailed>>

\* libsmbclient works with a context that has been freed.
UseFreedContext ==
  /\ \E o \in Objects : object[o] # Null
  /\ current \notin live
  /\ fault' = "freed context"
  /\ UNCHANGED <<clientVars, table, object, answer, initFailed>>

\* The user of an object drops it.
Drop(o) ==
  /\ object[o] # Null
  /\ ~Opened(o)
  /\ object' = [object EXCEPT ![o] = Null]
  /\ answer' = NoAnswer
  /\ UNCHANGED <<clientVars, table, fault, initFailed>>

-----------------------------------------------------------------------------
Reset == ExitToAvoidLeak \/ InitSucceeds \/ NewContextFails \/ InitContextFails

PathCall ==
  \/ Uninitialised
  \/ \E op \in PathCalls :
       PathCallSucceeds(op) \/ \E err \in Errors : PathCallFails(op, err)
  \/ UnlinkFails

ObjectCall(o) ==
  \/ \E d \in Documents : Open(o, d)
  \/ \E e \in Entries : ReadDir(o, e)
  \/ Use(o) \/ UseFails(o) \/ SeekInPlace(o) \/ ReadDirEnds(o) \/ Close(o) \/ Drop(o)

Next ==
  /\ fault = "none"
  /\ \/ Reset
     \/ PathCall
     \/ \E op \in {"openFile", "openDir"}, err \in Errors : OpenFails(op, err)
     \/ \E o \in Objects : ObjectCall(o)
     \/ UseFreedContext

Spec == Init /\ [][Next]_vars

-----------------------------------------------------------------------------
Exceptions == {"none", "FileNotFoundException", "AuthFailedException", "IOException",
               "IllegalStateException"}

TypeOK ==
  /\ handler \in Contexts \cup {Null}
  /\ live \subseteq Contexts
  /\ current \in Contexts \cup {Null}
  /\ table \in [Numbers -> Descriptors \cup {Null}]
  /\ object \in [Objects -> Handles \cup {Null}]
  /\ answer \in [object : Objects \cup {Null}, reached : Documents \cup {Null},
                 thrown : Exceptions]
  /\ fault \in {"none", "exit", "double free", "bad format", "freed context"}
  /\ initFailed \in BOOLEAN

(***************************************************************************)
(* Each reset frees the context before: there is never one that nobody has *)
(* (nativeInit, nativeDestroy).                                            *)
(***************************************************************************)
ContextsFreed == live \subseteq {handler}

(***************************************************************************)
(* However often the client is reset below open files and directories,     *)
(* memory that was freed is used only after an Init that failed            *)
(* (SambaClient::Init, NativeSambaFacade.reset).                           *)
(***************************************************************************)
SafeUnlessInitFails == fault \in {"double free", "freed context"} => initFailed

\* What has not been read yet of what o has open
Unread(o) ==
  IF table[object[o].number] = Null THEN {} ELSE table[object[o].number].unread

View(o) ==
  IF ~Opened(o) THEN Null
  ELSE [document |-> object[o].document, unread |-> Unread(o), lost |-> ~Valid(o)]

Reached ==
  IF answer.object = Null THEN Null
  ELSE [object |-> answer.object, document |-> answer.reached]

OD == INSTANCE OpenDocuments WITH opened <- [o \in Objects |-> View(o)], reached <- Reached

(***************************************************************************)
(* Numbers do not show: an object never reaches another document than its  *)
(* own, neither after a reset, nor when it is closed twice and its number  *)
(* is given to another one (SambaFile.close, SambaDir.close).              *)
(***************************************************************************)
ImplementsOpenDocuments == OD!Spec

(***************************************************************************)
(* Expectations that the code does not meet; no run checks them.           *)
(***************************************************************************)

(***************************************************************************)
(* A NULL of readDir "is a normal case, indicating that we finished        *)
(* reading this directory." (JniHelper.cc:474)                             *)
(***************************************************************************)
NullIsTheEnd ==
  [][\A o \in Objects : ReadDirEnds(o) => Valid(o)]_vars

(***************************************************************************)
(* A client that cannot be initialised leaves a process in which calls     *)
(* throw IllegalStateException ("Something wrong with the initialization." *)
(* JniHelper.cc:37, checkNativeHandler).                                   *)
(***************************************************************************)
FailedInitIsReported == initFailed => fault \notin {"double free", "freed context"}

(***************************************************************************)
(* What cannot be deleted throws (JniHelper.cc:347-362).                   *)
(***************************************************************************)
FailedDeletionThrows == fault # "bad format"
=============================================================================
