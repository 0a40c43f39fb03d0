--------------------------- MODULE DocumentLoading ---------------------------
(***************************************************************************)
(* How the children of one directory get from the server to the cursors    *)
(* that SambaDocumentsProvider.queryChildDocuments returns.                *)
(*                                                                         *)
(* A query answers from DocumentCache at once and, when something is       *)
(* missing, makes an AsyncTask that will load it: TaskManager executes the *)
(* task unless one for the same URI is unfinished.  The cursor says that   *)
(* it is loading, and its user queries again when it is notified.  Tasks   *)
(* work on threads of their own and end on the main thread, one by one.    *)
(* Closing a cursor cancels the task made for it.                          *)
(*                                                                         *)
(* TaskManager keys tasks by URI, so that one directory is enough; of what *)
(* is done to its parent, a listing matters, which puts new metadata of    *)
(* the directory into the cache.  What the directory holds on the server   *)
(* does not change here.                                                   *)
(***************************************************************************)
EXTENDS Naturals, Sequences

CONSTANTS
  Clients,  \* the users of cursors, each with at most one at a time
  MaxTasks, \* how many AsyncTask objects there may be at once
  Files,    \* the files in the directory
  Null

Tasks == 1..MaxTasks

ASSUME DocumentLoadingAssumption ==
  /\ MaxTasks \in Nat
  /\ Null \notin Tasks
  /\ Null \notin [Files -> {"needed", "failed", "loaded"}]
  /\ Null \notin {"exception", "null"}

Kinds  == {"document", "children", "stat"}
Stages == {"made", "submitted", "running", "posted", "delivering", "finished"}
Stats  == {"needed", "failed", "loaded"}

VARIABLES
  cached,         \* the directory's DocumentMetadata is in mCache
  expired,        \* its mTimeStamp is more than a minute old
  children,       \* its mChildren: Null or what is known of each file
  childException, \* its mLastChildUpdateException is set
  loadException,  \* mExceptionCache holds an exception for the directory
  registered,     \* TaskManager.mTasks.get(uri), or Null
  task,           \* the AsyncTask objects
  mainQueue,      \* results posted to the main thread
  pc,             \* where a client is in queryChildDocuments
  loading,        \* EXTRA_LOADING of the client's cursor
  loadingTask,    \* mLoadingTask of the client's cursor, or Null
  notified,       \* the client's cursor has received a change notification
  caught          \* what throwLastExceptionIfAny got and will throw

cacheVars  == <<cached, expired, children, childException, loadException>>
taskVars   == <<registered, task, mainQueue>>
clientVars == <<pc, loading, loadingTask, notified, caught>>
vars == <<cacheVars, taskVars, clientVars>>

\* An AsyncTask: what it loads, how far it is, whether executeOnExecutor was
\* called, whether it was cancelled, whether doInBackground has a result,
\* which files it has yet to stat, and whether the metadata it was made for
\* is still the one in the cache.
NewTask(kind, files) ==
  [kind |-> kind, stage |-> "made", executed |-> FALSE, cancelled |-> FALSE,
   ok |-> FALSE, files |-> files, attached |-> TRUE]

Finished == [NewTask("document", {}) EXCEPT !.stage = "finished", !.attached = FALSE]

\* t once it has posted its end; what it worked on no longer matters.
Ended(t, ok) ==
  [NewTask(task[t].kind, {}) EXCEPT !.stage = "posted", !.ok = ok, !.attached = task[t].attached,
     !.executed = task[t].executed, !.cancelled = task[t].cancelled]

\* The tasks when metadata that those in lost were made for has left the cache.
Detached(u, lost) ==
  IF u \in lost THEN [task[u] EXCEPT !.attached = FALSE] ELSE task[u]

Unreferenced ==
  {t \in Tasks : /\ task[t] = Finished
                 /\ t # registered
                 /\ \A c \in Clients : loadingTask[c] # t}

Unstatted == [f \in Files |-> "needed"]

StatTasks == {t \in Tasks : task[t].kind = "stat"}

NotifyChange == notified' = [c \in Clients |-> pc[c] = "open" \/ notified[c]]

-----------------------------------------------------------------------------
\* A share or server that the cache knows, or a document it does not know.
Init ==
  /\ cached \in BOOLEAN
  /\ expired        = FALSE
  /\ children       = Null
  /\ childException = FALSE
  /\ loadException  = FALSE
  /\ registered     = Null
  /\ task           = [t \in Tasks |-> Finished]
  /\ mainQueue      = <<>>
  /\ pc             = [c \in Clients |-> "idle"]
  /\ loading        = [c \in Clients |-> FALSE]
  /\ loadingTask    = [c \in Clients |-> Null]
  /\ notified       = [c \in Clients |-> FALSE]
  /\ caught         = [c \in Clients |-> Null]

\* An altered PutMetadata: new metadata begins with an empty listing.
PutMetadataListed ==
  /\ cached' = TRUE
  /\ children' = <<>>
  /\ expired' = FALSE
  /\ childException' = FALSE

\* DocumentCache.put of metadata that nobody has worked on yet: what it takes
\* the place of is out of reach for all but the tasks made for it, and so is
\* the exception that a query is about to throw from there.
PutMetadata ==
  /\ cached' = TRUE
  /\ children' = Null
  /\ expired' = FALSE
  /\ childException' = FALSE

WithoutMetadata(l) == IF l = "childFailed" THEN "idle" ELSE l

Expire ==
  /\ cached
  /\ expired' = TRUE
  /\ UNCHANGED <<cached, children, childException, loadException, taskVars, clientVars>>

(***************************************************************************)
(* queryChildDocuments, on a binder thread.  Each query reads the metadata *)
(* in one step; what it does about it comes later.                         *)
(***************************************************************************)

Goto(c, l) == pc' = [pc EXCEPT ![c] = l]

\* new LoadDocumentTask, LoadChildrenTask or LoadStatTask
MakeTask(c, kind, files) ==
  /\ \E t \in Unreferenced :
       /\ \A u \in Unreferenced : t <= u
       /\ task' = [task EXCEPT ![t] = NewTask(kind, files)]
       /\ loadingTask' = [loadingTask EXCEPT ![c] = t]
  /\ loading' = [loading EXCEPT ![c] = TRUE]
  /\ Goto(c, "made")

\* queryDocument of the directory while the cache does not know it ...
QueryDocument(c) ==
  /\ pc[c] = "idle"
  /\ ~cached
  /\ Goto(c, "fetching")
  /\ UNCHANGED <<cacheVars, taskVars, loading, loadingTask, notified, caught>>

\* ... asks the server itself, and puts what it gets into the cache
FetchDocument(c) ==
  /\ pc[c] = "fetching"
  /\ \/ /\ PutMetadata
        /\ pc' = [[d \in Clients |-> WithoutMetadata(pc[d])] EXCEPT ![c] = "idle"]
        /\ task' = [t \in Tasks |-> Detached(t, Tasks)]
     \/ /\ Goto(c, "idle")
        /\ UNCHANGED <<cached, expired, children, childException, task>>
  /\ UNCHANGED <<loadException, registered, mainQueue, loading, loadingTask, notified, caught>>

\* CACHE_MISS, without or with the exception of an earlier load
QueryMiss(c) ==
  /\ pc[c] = "idle"
  /\ ~cached
  /\ ~loadException
  /\ MakeTask(c, "document", {})
  /\ UNCHANGED <<cacheVars, registered, mainQueue, notified, caught>>

QueryMissFailed(c) ==
  /\ pc[c] = "idle"
  /\ ~cached
  /\ loadException
  /\ Goto(c, "failed")
  /\ UNCHANGED <<cacheVars, taskVars, loading, loadingTask, notified, caught>>

\* throwLastExceptionIfAny: get() ...
GetException(c) ==
  /\ pc[c] = "failed"
  /\ caught' = [caught EXCEPT ![c] = IF loadException THEN "exception" ELSE "null"]
  /\ Goto(c, "got")
  /\ UNCHANGED <<cacheVars, taskVars, loading, loadingTask, notified>>

\* ... remove() and throw
ThrowException(c) ==
  /\ pc[c] = "got"
  /\ loadException' = FALSE
  /\ caught' = [caught EXCEPT ![c] = Null]
  /\ Goto(c, "idle")
  /\ UNCHANGED <<cached, expired, children, childException, taskVars, loading,
                 loadingTask, notified>>

\* throwLastChildUpdateExceptionIfAny: get() ...
QueryHitFailed(c) ==
  /\ pc[c] = "idle"
  /\ cached
  /\ childException
  /\ Goto(c, "childFailed")
  /\ UNCHANGED <<cacheVars, taskVars, loading, loadingTask, notified, caught>>

\* ... set(null) and throw
ThrowChildException(c) ==
  /\ pc[c] = "childFailed"
  /\ childException' = FALSE
  /\ Goto(c, "idle")
  /\ UNCHANGED <<cached, expired, children, loadException, taskVars, loading,
                 loadingTask, notified, caught>>

\* CACHE_HIT or CACHE_EXPIRED: hasLoadingStatFailed() forgets the failures
\* of the files it is asked about
QueryHit(c) ==
  /\ pc[c] = "idle"
  /\ cached
  /\ ~childException
  /\ LET needed == {f \in Files : children # Null /\ children[f] = "needed"} IN
       CASE children = Null \/ expired -> MakeTask(c, "children", {})
         [] children # Null /\ ~expired /\ needed # {} -> MakeTask(c, "stat", needed)
         [] OTHER -> /\ loading' = [loading EXCEPT ![c] = FALSE]
                     /\ Goto(c, "answered")
                     /\ UNCHANGED <<task, loadingTask>>
  /\ children' = IF children = Null THEN Null
                 ELSE [f \in Files |-> IF children[f] = "failed" THEN "needed"
                                       ELSE children[f]]
  /\ UNCHANGED <<cached, expired, childException, loadException, registered,
                 mainQueue, notified, caught>>

\* An altered RunTask: a cancelled task does not keep another from running.
RunTaskDespiteCancelled(c) ==
  LET t == loadingTask[c] IN
  /\ pc[c] = "made"
  /\ IF registered = Null \/ task[registered].stage = "finished" \/ task[registered].cancelled
     THEN /\ registered' = t
          /\ task' = [task EXCEPT ![t].stage = "submitted", ![t].executed = TRUE]
     ELSE UNCHANGED <<registered, task>>
  /\ Goto(c, "answered")
  /\ UNCHANGED <<cacheVars, mainQueue, loading, loadingTask, notified, caught>>

\* TaskManager.runTask
RunTask(c) ==
  LET t == loadingTask[c] IN
  /\ pc[c] = "made"
  /\ IF registered = Null \/ task[registered].stage = "finished"
     THEN /\ registered' = t
          /\ task' = [task EXCEPT ![t].stage = "submitted", ![t].executed = TRUE]
     ELSE UNCHANGED <<registered, task>>
  /\ Goto(c, "answered")
  /\ UNCHANGED <<cacheVars, mainQueue, loading, loadingTask, notified, caught>>

\* setNotificationUri; the cursor is returned
Answer(c) ==
  /\ pc[c] = "answered"
  /\ Goto(c, "open")
  /\ notified' = [notified EXCEPT ![c] = FALSE]
  /\ UNCHANGED <<cacheVars, taskVars, loading, loadingTask, caught>>

\* DocumentCursor.close: a task that has not begun is cancelled for good and
\* posts its end, one that has begun learns of it later
Close(c) ==
  LET t == loadingTask[c] IN
  /\ pc[c] = "open"
  /\ IF t = Null \/ task[t].stage = "finished"
     THEN UNCHANGED <<task, mainQueue>>
     ELSE IF task[t].stage \in {"made", "submitted"}
     THEN /\ task' = [task EXCEPT ![t] = [Ended(t, FALSE) EXCEPT !.cancelled = TRUE]]
          /\ mainQueue' = Append(mainQueue, t)
     ELSE /\ task' = [task EXCEPT ![t].cancelled = TRUE]
          /\ UNCHANGED mainQueue
  /\ loadingTask' = [loadingTask EXCEPT ![c] = Null]
  /\ loading' = [loading EXCEPT ![c] = FALSE]
  /\ notified' = [notified EXCEPT ![c] = FALSE]
  /\ Goto(c, "idle")
  /\ UNCHANGED <<cacheVars, registered, caught>>

(***************************************************************************)
(* doInBackground, on a thread of the executor.                            *)
(***************************************************************************)

Start(t) ==
  /\ task[t].stage = "submitted"
  /\ task' = [task EXCEPT ![t].stage = "running"]
  /\ UNCHANGED <<cacheVars, registered, mainQueue, clientVars>>

Working(t, kind) == task[t].stage = "running" /\ task[t].kind = kind

Post(t) == mainQueue' = Append(mainQueue, t)

\* The tasks as t posts its end and those in lost lose their metadata.
Posted(t, ok, lost) ==
  [u \in Tasks |-> IF u = t THEN Ended(t, ok) ELSE Detached(u, lost)]

\* DocumentMetadata.fromUri
LoadDocument(t) ==
  /\ Working(t, "document")
  /\ \E ok \in BOOLEAN : task' = Posted(t, ok, {})
  /\ Post(t)
  /\ UNCHANGED <<cacheVars, registered, clientVars>>

\* DocumentMetadata.loadChildren: a new listing has new metadata for files
LoadChildren(t) ==
  /\ Working(t, "children")
  /\ \E ok \in BOOLEAN :
       IF task[t].attached
       THEN /\ children' = IF ok THEN Unstatted ELSE children
            /\ expired' = (expired /\ ~ok)
            /\ childException' = (childException \/ ~ok)
            /\ task' = Posted(t, ok, IF ok THEN StatTasks ELSE {})
       ELSE /\ task' = Posted(t, ok, {})
            /\ UNCHANGED <<children, expired, childException>>
  /\ Post(t)
  /\ UNCHANGED <<cached, loadException, registered, clientVars>>

\* An altered LoadStat: tries a file again when it fails.
LoadStatAgain(t, f) ==
  /\ Working(t, "stat")
  /\ f \in task[t].files
  /\ \E ok \in BOOLEAN :
       /\ children' = IF task[t].attached
                      THEN [children EXCEPT ![f] =
                              IF ok \/ @ = "loaded" THEN "loaded" ELSE "failed"]
                      ELSE children
       /\ IF ok
          THEN task' = Posted(t, TRUE, {}) /\ Post(t)
          ELSE UNCHANGED <<task, mainQueue>>
  /\ UNCHANGED <<cached, expired, childException, loadException, registered, clientVars>>

\* One round of LoadStatTask.doInBackground; a cancelled task stops after a
\* stat that succeeded
LoadStat(t, f) ==
  /\ Working(t, "stat")
  /\ f \in task[t].files
  /\ \E ok \in BOOLEAN :
       /\ children' = IF task[t].attached
                      THEN [children EXCEPT ![f] =
                              IF ok \/ @ = "loaded" THEN "loaded" ELSE "failed"]
                      ELSE children
       /\ IF task[t].files = {f} \/ (ok /\ task[t].cancelled)
          THEN task' = Posted(t, TRUE, {}) /\ Post(t)
          ELSE /\ task' = [task EXCEPT ![t].files = @ \ {f}]
               /\ UNCHANGED mainQueue
  /\ UNCHANGED <<cached, expired, childException, loadException, registered, clientVars>>

(***************************************************************************)
(* AsyncTask.finish, on the main thread: onPostExecute or onCancelled      *)
(* first, and only then the status FINISHED.                               *)
(***************************************************************************)

MainIdle == \A t \in Tasks : task[t].stage # "delivering"

Delivering(t) ==
  /\ mainQueue # <<>>
  /\ MainIdle
  /\ t = Head(mainQueue)
  /\ mainQueue' = Tail(mainQueue)

\* t is delivered while those in lost lose their metadata.
Delivered(t, lost) ==
  [u \in Tasks |->
     IF u = t THEN [task[t] EXCEPT !.stage = "delivering"] ELSE Detached(u, lost)]

\* LoadChildrenTask.onFinish of the parent: the directory gets new metadata
ParentListed ==
  /\ MainIdle
  /\ PutMetadata
  /\ pc' = [c \in Clients |-> WithoutMetadata(pc[c])]
  /\ task' = [t \in Tasks |-> Detached(t, Tasks)]
  /\ UNCHANGED <<loadException, registered, mainQueue, loading, loadingTask, notified, caught>>

\* LoadDocumentTask.onSucceeded, onFailed and onCancelled
DeliverDocument(t) ==
  /\ Delivering(t)
  /\ task[t].kind = "document"
  /\ IF task[t].ok
     THEN /\ PutMetadata
          /\ pc' = [c \in Clients |-> WithoutMetadata(pc[c])]
          /\ task' = Delivered(t, Tasks)
          /\ NotifyChange
          /\ UNCHANGED loadException
     ELSE /\ task' = Delivered(t, {})
          /\ IF task[t].cancelled
             THEN UNCHANGED <<loadException, notified>>
             ELSE loadException' = TRUE /\ NotifyChange
          /\ UNCHANGED <<cached, children, expired, childException, pc>>
  /\ UNCHANGED <<registered, loading, loadingTask, caught>>

\* An altered DeliverChildren: no notification of a load that failed.
DeliverChildrenSilently(t) ==
  /\ Delivering(t)
  /\ task[t].kind = "children"
  /\ task' = Delivered(t, {})
  /\ IF task[t].ok THEN NotifyChange ELSE UNCHANGED notified
  /\ UNCHANGED <<cacheVars, registered, pc, loading, loadingTask, caught>>

\* LoadChildrenTask.onSucceeded, onFailed and onCancelled: onFinish puts each
\* file it has listed into the cache and so into the listing of the
\* directory, which changes that when it belongs to other metadata.
DeliverChildren(t) ==
  LET relisted == task[t].ok /\ ~task[t].attached /\ children # Null IN
  /\ Delivering(t)
  /\ task[t].kind = "children"
  /\ children' = IF relisted THEN Unstatted ELSE children
  /\ task' = Delivered(t, IF relisted THEN StatTasks ELSE {})
  /\ IF task[t].cancelled /\ ~task[t].ok THEN UNCHANGED notified ELSE NotifyChange
  /\ UNCHANGED <<cached, expired, childException, loadException, registered, pc,
                 loading, loadingTask, caught>>

\* LoadStatTask.onPostExecute and onCancelled
DeliverStat(t) ==
  /\ Delivering(t)
  /\ task[t].kind = "stat"
  /\ task' = Delivered(t, {})
  /\ NotifyChange
  /\ UNCHANGED <<cacheVars, registered, pc, loading, loadingTask, caught>>

\* mStatus = Status.FINISHED
Finish(t) ==
  /\ task[t].stage = "delivering"
  /\ task' = [task EXCEPT ![t] = Finished]
  /\ UNCHANGED <<cacheVars, registered, mainQueue, clientVars>>

-----------------------------------------------------------------------------
QueryStep(c) ==
  \/ FetchDocument(c) \/ GetException(c) \/ ThrowException(c) \/ ThrowChildException(c)
  \/ RunTask(c) \/ Answer(c)

TaskStep(t) ==
  Start(t) \/ LoadDocument(t) \/ LoadChildren(t) \/ \E f \in Files : LoadStat(t, f)

MainStep == \E t \in Tasks :
  DeliverDocument(t) \/ DeliverChildren(t) \/ DeliverStat(t) \/ Finish(t)

Next ==
  \/ \E c \in Clients :
       \/ QueryDocument(c) \/ QueryMiss(c) \/ QueryMissFailed(c)
       \/ QueryHitFailed(c) \/ QueryHit(c)
       \/ QueryStep(c)
       \/ Close(c)
  \/ \E t \in Tasks : TaskStep(t)
  \/ MainStep
  \/ ParentListed
  \/ Expire

\* Threads run on, and calls to the server come back; nobody has to query
\* again or to close a cursor.
Fairness ==
  /\ \A c \in Clients : WF_vars(QueryStep(c))
  /\ \A t \in Tasks : WF_vars(TaskStep(t))
  /\ WF_vars(MainStep)

Spec     == Init /\ [][Next]_vars
FairSpec == Spec /\ Fairness

-----------------------------------------------------------------------------
Task == [kind : Kinds, stage : Stages, executed : BOOLEAN, cancelled : BOOLEAN,
         ok : BOOLEAN, files : SUBSET Files, attached : BOOLEAN]

PCs == {"idle", "fetching", "failed", "got", "childFailed", "made", "answered", "open"}

TypeOK ==
  /\ cached \in BOOLEAN
  /\ expired \in BOOLEAN
  /\ children \in [Files -> Stats] \cup {Null}
  /\ childException \in BOOLEAN
  /\ loadException \in BOOLEAN
  /\ registered \in Tasks \cup {Null}
  /\ task \in [Tasks -> Task]
  /\ mainQueue \in Seq(Tasks)
  /\ pc \in [Clients -> PCs]
  /\ loading \in [Clients -> BOOLEAN]
  /\ loadingTask \in [Clients -> Tasks \cup {Null}]
  /\ notified \in [Clients -> BOOLEAN]
  /\ caught \in [Clients -> {"exception", "null", Null}]

\* Executed, and not FINISHED yet.
Unfinished(t) == task[t].executed /\ task[t].stage # "finished"

(***************************************************************************)
(* Never do two updates of the same document run at the same time, and     *)
(* TaskManager knows the one that does (TaskManager.runTask).              *)
(***************************************************************************)
OneUpdateAtATime == \A t \in Tasks : Unfinished(t) => registered = t

(***************************************************************************)
(* An update that was started ends, however it is cancelled meanwhile: no  *)
(* document is left without updates (TaskManager.runTask ignores new tasks *)
(* until then).                                                            *)
(***************************************************************************)
UpdatesEnd == \A t \in Tasks : Unfinished(t) ~> ~Unfinished(t)

(***************************************************************************)
(* A cursor that was returned while the very task made for it is at work   *)
(* is notified, or closed by its user: what others do to their cursors     *)
(* does not take the notification from it (DocumentCursor.close).          *)
(***************************************************************************)
Awaits(c) ==
  /\ pc[c] = "open"
  /\ loading[c]
  /\ ~notified[c]

OwnUpdateNotifies ==
  \A c \in Clients :
    Awaits(c) /\ task[loadingTask[c]].stage \in {"submitted", "running", "posted"}
               /\ task[loadingTask[c]].executed ~> ~Awaits(c)

(***************************************************************************)
(* Every cursor that says it is loading is notified in the end, or closed: *)
(* "Notify remote side that we get the list even though we don't have the  *)
(* stat yet. If it failed we still should notify the remote side that the  *)
(* loading failed." (SambaDocumentsProvider.java:108-109)                  *)
(***************************************************************************)
LoadingCursorsNotified == \A c \in Clients : Awaits(c) ~> ~Awaits(c)

(***************************************************************************)
(* An expectation that the code does not meet; no run checks it.           *)
(***************************************************************************)

(***************************************************************************)
(* A query that stops because the last load failed throws the exception of *)
(* that load: "Last loading failed... Just feed the bitter fruit."         *)
(* (SambaDocumentsProvider.java:280)                                       *)
(***************************************************************************)
ThrowsLastException == \A c \in Clients : pc[c] = "got" => caught[c] = "exception"
=============================================================================
