------------------------ MODULE DocumentLoadingProofs ------------------------
(***************************************************************************)
(* Proofs about DocumentLoading, for any number of clients, tasks and      *)
(* files: the variables keep their types, and one URI has one update at a  *)
(* time.  The invariant has a part for each group of variables and is      *)
(* proved part by part.                                                    *)
(***************************************************************************)
EXTENDS DocumentLoading, TLAPS

CacheTyped ==
  /\ cached \in BOOLEAN
  /\ expired \in BOOLEAN
  /\ children \in [Files -> Stats] \cup {Null}
  /\ childException \in BOOLEAN
  /\ loadException \in BOOLEAN

TasksTyped ==
  /\ registered \in Tasks \cup {Null}
  /\ task \in [Tasks -> Task]
  /\ mainQueue \in Seq(Tasks)

ClientsTyped ==
  /\ pc \in [Clients -> PCs]
  /\ loading \in [Clients -> BOOLEAN]
  /\ loadingTask \in [Clients -> Tasks \cup {Null}]
  /\ notified \in [Clients -> BOOLEAN]
  /\ caught \in [Clients -> {"exception", "null", Null}]

\* A query that has made a task runs that one.
MadeTasks == \A c \in Clients : pc[c] = "made" => loadingTask[c] \in Tasks

\* A task that has been executed is the registered one, until it is FINISHED.
ExecutedRegistered ==
  \A t \in Tasks : task[t].executed => registered = t /\ task[t].stage # "finished"

\* Metadata of files is only fetched for a listing that is still in the cache.
StatsListed ==
  \A t \in Tasks : task[t].kind = "stat" /\ task[t].attached => children # Null

LoadingInv ==
  CacheTyped /\ TasksTyped /\ ClientsTyped /\ MadeTasks /\ ExecutedRegistered /\ StatsListed

-----------------------------------------------------------------------------
LEMMA NewTaskTyped ==
  ASSUME NEW kind \in Kinds, NEW files \in SUBSET Files
  PROVE  NewTask(kind, files) \in Task /\ ~NewTask(kind, files).executed
BY DEF NewTask, Task, Stages

LEMMA FinishedTyped == Finished \in Task /\ ~Finished.executed /\ Finished.kind = "document"
BY DEF Finished, NewTask, Task, Stages, Kinds

\* What an action changes in a task leaves it a task.
LEMMA TaskUpdates ==
  ASSUME NEW t \in Task
  PROVE  /\ \A s \in Stages : [t EXCEPT !.stage = s] \in Task
         /\ [t EXCEPT !.stage = "submitted", !.executed = TRUE] \in Task
         /\ [t EXCEPT !.cancelled = TRUE] \in Task
         /\ [t EXCEPT !.attached = FALSE] \in Task
         /\ \A f \in Files : [t EXCEPT !.files = @ \ {f}] \in Task
BY DEF Task, Stages

\* What most actions do to the tasks: none is executed, none loads something
\* else, none regains its metadata and none becomes FINISHED.
Tame ==
  /\ task' \in [Tasks -> Task]
  /\ \A u \in Tasks :
       /\ task'[u].kind = task[u].kind
       /\ task'[u].executed = task[u].executed
       /\ task'[u].attached => task[u].attached
       /\ task'[u].stage = "finished" => task[u].stage = "finished"

LEMMA EndedTame ==
  ASSUME TasksTyped, NEW t \in Tasks, NEW ok \in BOOLEAN
  PROVE  /\ Ended(t, ok) \in Task
         /\ Ended(t, ok).kind = task[t].kind
         /\ Ended(t, ok).executed = task[t].executed
         /\ Ended(t, ok).attached = task[t].attached
         /\ Ended(t, ok).stage = "posted"
<1>1. task[t] \in Task
  BY DEF TasksTyped
<1> QED BY <1>1 DEF Ended, NewTask, Task, Stages

LEMMA DetachedTame ==
  ASSUME TasksTyped, NEW u \in Tasks, NEW lost \in SUBSET Tasks
  PROVE  /\ Detached(u, lost) \in Task
         /\ Detached(u, lost).kind = task[u].kind
         /\ Detached(u, lost).executed = task[u].executed
         /\ Detached(u, lost).attached => task[u].attached
         /\ u \in lost => ~Detached(u, lost).attached
         /\ Detached(u, lost).stage = task[u].stage
<1>1. task[u] \in Task
  BY DEF TasksTyped
<1> QED BY <1>1 DEF Detached, Task

\* A change of one task to s.
LEMMA ChangeTame ==
  ASSUME TasksTyped, NEW t \in Tasks, NEW s \in Task,
         s.kind = task[t].kind, s.executed = task[t].executed,
         s.attached => task[t].attached, s.stage = "finished" => task[t].stage = "finished",
         task' = [task EXCEPT ![t] = s]
  PROVE  Tame
BY DEF TasksTyped, Tame

LEMMA PostedTame ==
  ASSUME TasksTyped, NEW t \in Tasks, NEW ok \in BOOLEAN, NEW lost \in SUBSET Tasks,
         task' = Posted(t, ok, lost)
  PROVE  Tame
<1>1. task'[t] = Ended(t, ok) /\ \A u \in Tasks \ {t} : task'[u] = Detached(u, lost)
  BY DEF Posted
<1>2. task' \in [Tasks -> Task]
  BY EndedTame, DetachedTame DEF Posted
<1> QED BY <1>1, <1>2, EndedTame, DetachedTame DEF Tame

\* Those that lose their metadata are no longer attached, t perhaps excepted.
LEMMA DeliveredTame ==
  ASSUME TasksTyped, NEW t \in Tasks, NEW lost \in SUBSET Tasks,
         task' = Delivered(t, lost)
  PROVE  Tame /\ \A u \in lost \ {t} : ~task'[u].attached
<1>1. task[t] \in Task
  BY DEF TasksTyped
<1>2. /\ [task[t] EXCEPT !.stage = "delivering"] \in Task
      /\ [task[t] EXCEPT !.stage = "delivering"].kind = task[t].kind
      /\ [task[t] EXCEPT !.stage = "delivering"].executed = task[t].executed
      /\ [task[t] EXCEPT !.stage = "delivering"].attached = task[t].attached
      /\ [task[t] EXCEPT !.stage = "delivering"].stage # "finished"
  BY <1>1 DEF Task, Stages
<1>3. /\ task'[t] = [task[t] EXCEPT !.stage = "delivering"]
      /\ \A u \in Tasks \ {t} : task'[u] = Detached(u, lost)
  BY DEF Delivered
<1>4. task' \in [Tasks -> Task]
  BY <1>2, DetachedTame DEF Delivered
<1>5. \A u \in Tasks \ {t} :
        /\ task'[u].kind = task[u].kind
        /\ task'[u].executed = task[u].executed
        /\ task'[u].attached => task[u].attached
        /\ u \in lost => ~task'[u].attached
        /\ task'[u].stage = task[u].stage
  BY <1>3, DetachedTame
<1>6. Tame
  BY <1>2, <1>3, <1>4, <1>5 DEF Tame
<1> QED BY <1>5, <1>6

LEMMA AllDetachedTame ==
  ASSUME TasksTyped, task' = [t \in Tasks |-> Detached(t, Tasks)]
  PROVE  Tame /\ \A t \in Tasks : ~task'[t].attached
<1>1. task' \in [Tasks -> Task]
  BY DetachedTame
<1>2. \A t \in Tasks : task'[t] = Detached(t, Tasks)
  OBVIOUS
<1> QED BY <1>1, <1>2, DetachedTame DEF Tame

LEMMA TameKeeps ==
  ASSUME TasksTyped, ExecutedRegistered, Tame, UNCHANGED registered,
         mainQueue' \in Seq(Tasks)
  PROVE  TasksTyped' /\ ExecutedRegistered'
BY DEF TasksTyped, ExecutedRegistered, Tame

\* A listing stays, or the tasks for its files lose it.
LEMMA TameListed ==
  ASSUME StatsListed, Tame,
         \/ children # Null => children' # Null
         \/ \A t \in Tasks : task[t].kind = "stat" => ~task'[t].attached
  PROVE  StatsListed'
BY DEF StatsListed, Tame

LEMMA LoadingInit == Init => LoadingInv
<1> SUFFICES ASSUME Init PROVE LoadingInv
  OBVIOUS
<1>1. CacheTyped
  BY DEF Init, CacheTyped
<1>2. TasksTyped
  BY FinishedTyped DEF Init, TasksTyped
<1>3. ClientsTyped
  BY DEF Init, ClientsTyped, PCs
<1>4. MadeTasks /\ ExecutedRegistered /\ StatsListed
  BY FinishedTyped DEF Init, MadeTasks, ExecutedRegistered, StatsListed
<1> QED BY <1>1, <1>2, <1>3, <1>4 DEF LoadingInv

-----------------------------------------------------------------------------
LEMMA CacheKeeps ==
  ASSUME CacheTyped, StatsListed, [Next]_vars
  PROVE  CacheTyped'
<1> USE DEF CacheTyped, cacheVars, PutMetadata
<1>1. CASE UNCHANGED vars
  BY <1>1 DEF vars
<1>2. CASE Expire
  BY <1>2 DEF Expire
<1>3. CASE ParentListed
  BY <1>3 DEF ParentListed
<1>4. ASSUME NEW c \in Clients,
             \/ QueryDocument(c) \/ QueryMiss(c) \/ QueryMissFailed(c) \/ QueryHitFailed(c)
             \/ Close(c)
      PROVE  CacheTyped'
  BY <1>4 DEF QueryDocument, QueryMiss, QueryMissFailed, QueryHitFailed, Close
<1>5. ASSUME NEW c \in Clients, QueryStep(c) PROVE CacheTyped'
  BY <1>5 DEF QueryStep, FetchDocument, GetException, ThrowException,
     ThrowChildException, RunTask, Answer
<1>6. ASSUME NEW c \in Clients, QueryHit(c) PROVE CacheTyped'
  <2>1. children' \in [Files -> Stats] \cup {Null}
    BY <1>6 DEF QueryHit, Stats
  <2>2. UNCHANGED <<cached, expired, childException, loadException>>
    BY <1>6 DEF QueryHit
  <2> QED BY <2>1, <2>2
<1>7. ASSUME NEW t \in Tasks, TaskStep(t) PROVE CacheTyped'
  <2>1. CASE Start(t) \/ LoadDocument(t)
    BY <2>1 DEF Start, LoadDocument
  <2>2. CASE LoadChildren(t)
    BY <2>2 DEF LoadChildren, Unstatted, Stats
  <2>3. ASSUME NEW f \in Files, LoadStat(t, f) PROVE CacheTyped'
    <3>1. children' \in [Files -> Stats] \cup {Null}
      BY <2>3 DEF LoadStat, Working, StatsListed, Stats
    <3> QED BY <2>3, <3>1 DEF LoadStat
  <2> QED BY <1>7, <2>1, <2>2, <2>3 DEF TaskStep
<1>8. ASSUME NEW t \in Tasks,
             DeliverDocument(t) \/ DeliverStat(t) \/ Finish(t) \/ DeliverChildren(t)
      PROVE  CacheTyped'
  <2>1. Unstatted \in [Files -> Stats]
    BY DEF Unstatted, Stats
  <2> QED BY <1>8, <2>1 DEF DeliverDocument, DeliverStat, Finish, DeliverChildren
<1> QED BY <1>1, <1>2, <1>3, <1>4, <1>5, <1>6, <1>7, <1>8 DEF Next, MainStep

\* A new cursor gets a task that nobody else has.
LEMMA MakeTaskKeeps ==
  ASSUME TasksTyped, ClientsTyped, MadeTasks, ExecutedRegistered, NEW c \in Clients,
         NEW kind \in Kinds, NEW files \in SUBSET Files, MakeTask(c, kind, files),
         UNCHANGED <<registered, mainQueue, notified, caught>>
  PROVE  TasksTyped' /\ ClientsTyped' /\ MadeTasks' /\ ExecutedRegistered'
<1>1. PICK t \in Tasks :
        /\ task[t] = Finished
        /\ task' = [task EXCEPT ![t] = NewTask(kind, files)]
        /\ loadingTask' = [loadingTask EXCEPT ![c] = t]
  BY DEF MakeTask, Unreferenced
<1>2. TasksTyped'
  BY <1>1, NewTaskTyped DEF TasksTyped
<1>3. loading' = [loading EXCEPT ![c] = TRUE] /\ pc' = [pc EXCEPT ![c] = "made"]
  BY DEF MakeTask, Goto
<1>4. ClientsTyped' /\ MadeTasks'
  BY <1>1, <1>3 DEF ClientsTyped, MadeTasks, PCs
<1>5. ExecutedRegistered'
  BY <1>1, NewTaskTyped DEF TasksTyped, ExecutedRegistered
<1> QED BY <1>2, <1>4, <1>5

LEMMA MakeTaskListed ==
  ASSUME TasksTyped, StatsListed, NEW c \in Clients, NEW kind \in Kinds,
         NEW files \in SUBSET Files, MakeTask(c, kind, files),
         children = Null => kind # "stat",
         children # Null => children' # Null
  PROVE  StatsListed'
<1>1. PICK t \in Tasks : task' = [task EXCEPT ![t] = NewTask(kind, files)]
  BY DEF MakeTask, Unreferenced
<1>2. NewTask(kind, files).kind = kind
  BY DEF NewTask
<1> QED BY <1>1, <1>2 DEF TasksTyped, StatsListed

\* The parts of the invariant besides CacheTyped.
Rest == TasksTyped /\ ClientsTyped /\ MadeTasks /\ ExecutedRegistered /\ StatsListed

LEMMA QueryHitKeeps ==
  ASSUME LoadingInv, NEW c \in Clients, QueryHit(c)
  PROVE  Rest'
<1> USE DEF LoadingInv, Rest
<1> DEFINE needed == {f \in Files : children # Null /\ children[f] = "needed"}
<1>1. UNCHANGED <<registered, mainQueue, notified, caught>>
  BY DEF QueryHit
<1>2. children # Null => children' # Null
  BY DocumentLoadingAssumption DEF QueryHit, CacheTyped, Stats
<1>3. CASE children = Null \/ expired
  <2>1. MakeTask(c, "children", {})
    BY <1>3 DEF QueryHit
  <2> QED BY <1>1, <1>2, <2>1, MakeTaskKeeps, MakeTaskListed DEF Kinds
<1>4. CASE children # Null /\ ~expired /\ needed # {}
  <2>1. MakeTask(c, "stat", needed)
    BY <1>4 DEF QueryHit
  <2> QED BY <1>1, <1>2, <1>4, <2>1, MakeTaskKeeps, MakeTaskListed DEF Kinds
<1>5. CASE children # Null /\ ~expired /\ needed = {}
  <2>1. /\ loading' = [loading EXCEPT ![c] = FALSE]
        /\ pc' = [pc EXCEPT ![c] = "answered"]
        /\ UNCHANGED <<task, loadingTask>>
    BY <1>5 DEF QueryHit, Goto
  <2>2. ClientsTyped' /\ MadeTasks'
    BY <1>1, <2>1 DEF ClientsTyped, MadeTasks, PCs
  <2> QED BY <1>1, <1>2, <2>1, <2>2 DEF TasksTyped, ExecutedRegistered, StatsListed
<1> QED BY <1>3, <1>4, <1>5

LEMMA FetchDocumentKeeps ==
  ASSUME LoadingInv, NEW c \in Clients, FetchDocument(c)
  PROVE  Rest'
<1> USE DEF LoadingInv, Rest
<1>1. UNCHANGED <<registered, mainQueue, loading, loadingTask, notified, caught>>
  BY DEF FetchDocument
<1>2. /\ pc' \in [Clients -> PCs]
      /\ \A d \in Clients : pc'[d] = "made" => pc[d] = "made"
  BY DEF FetchDocument, Goto, WithoutMetadata, ClientsTyped, PCs
<1>3. ClientsTyped' /\ MadeTasks'
  BY <1>1, <1>2 DEF ClientsTyped, MadeTasks
<1>4. CASE task' = [t \in Tasks |-> Detached(t, Tasks)]
  <2>1. mainQueue' \in Seq(Tasks)
    BY <1>1 DEF TasksTyped
  <2> QED BY <1>1, <1>3, <1>4, <2>1, AllDetachedTame, TameKeeps, TameListed
<1>5. CASE UNCHANGED <<task, children>>
  BY <1>1, <1>3, <1>5 DEF TasksTyped, ExecutedRegistered, StatsListed
<1> QED BY <1>4, <1>5 DEF FetchDocument

LEMMA RunTaskKeeps ==
  ASSUME LoadingInv, NEW c \in Clients, RunTask(c)
  PROVE  Rest'
<1> USE DEF LoadingInv, Rest
<1>1. PICK t \in Tasks : t = loadingTask[c] /\ task[t] \in Task
  BY DEF RunTask, MadeTasks, TasksTyped
<1>2. /\ pc' = [pc EXCEPT ![c] = "answered"]
      /\ UNCHANGED <<mainQueue, children, loading, loadingTask, notified, caught>>
  BY DEF RunTask, Goto, cacheVars
<1>3. ClientsTyped' /\ MadeTasks'
  BY <1>2 DEF ClientsTyped, MadeTasks, PCs
<1>4. TasksTyped'
  BY <1>1, <1>2, TaskUpdates DEF RunTask, TasksTyped
<1>5. ExecutedRegistered'
  BY <1>1 DEF RunTask, TasksTyped, Task, ExecutedRegistered
<1>6. \A u \in Tasks : /\ task'[u].kind = task[u].kind
                       /\ task'[u].attached = task[u].attached
  <2> DEFINE s == [task[t] EXCEPT !.stage = "submitted", !.executed = TRUE]
  <2>1. s.kind = task[t].kind /\ s.attached = task[t].attached
    BY <1>1 DEF Task
  <2>2. task' = [task EXCEPT ![t] = s] \/ UNCHANGED task
    BY <1>1 DEF RunTask
  <2> HIDE DEF s
  <2> QED BY <2>1, <2>2 DEF TasksTyped
<1> QED BY <1>2, <1>3, <1>4, <1>5, <1>6 DEF StatsListed

LEMMA QueryKeeps ==
  ASSUME LoadingInv, NEW c \in Clients,
         \/ QueryDocument(c) \/ QueryMiss(c) \/ QueryMissFailed(c)
         \/ QueryHitFailed(c) \/ QueryHit(c) \/ QueryStep(c)
  PROVE  Rest'
<1> USE DEF LoadingInv, Rest
<1>1. CASE QueryMiss(c)
  <2>1. MakeTask(c, "document", {}) /\ UNCHANGED <<registered, mainQueue, notified, caught>>
    BY <1>1 DEF QueryMiss
  <2>2. UNCHANGED children
    BY <1>1 DEF QueryMiss, cacheVars
  <2> QED BY <2>1, <2>2, MakeTaskKeeps, MakeTaskListed DEF Kinds
<1>2. CASE \/ QueryDocument(c) \/ QueryMissFailed(c) \/ QueryHitFailed(c) \/ GetException(c)
           \/ ThrowException(c) \/ ThrowChildException(c) \/ Answer(c)
  <2> USE <1>2 DEF QueryDocument, QueryMissFailed, QueryHitFailed, GetException,
            ThrowException, ThrowChildException, Answer, Goto, taskVars, cacheVars
  <2>1. TasksTyped' /\ ExecutedRegistered' /\ StatsListed'
    BY DEF TasksTyped, ExecutedRegistered, StatsListed
  <2>2. ClientsTyped' /\ MadeTasks'
    BY DEF ClientsTyped, MadeTasks, PCs
  <2> QED BY <2>1, <2>2
<1> QED BY <1>1, <1>2, QueryHitKeeps, FetchDocumentKeeps, RunTaskKeeps DEF QueryStep

LEMMA CloseKeeps ==
  ASSUME LoadingInv, NEW c \in Clients, Close(c)
  PROVE  Rest'
<1> USE DEF LoadingInv, Rest
<1>1. UNCHANGED <<children, registered, caught>>
  BY DEF Close, cacheVars
<1>2. ClientsTyped' /\ MadeTasks'
  <2>1. /\ pc' = [pc EXCEPT ![c] = "idle"]
        /\ loadingTask' = [loadingTask EXCEPT ![c] = Null]
        /\ loading' = [loading EXCEPT ![c] = FALSE]
        /\ notified' = [notified EXCEPT ![c] = FALSE]
    BY DEF Close, Goto
  <2> QED BY <1>1, <2>1 DEF ClientsTyped, MadeTasks, PCs
<1>3. CASE UNCHANGED <<task, mainQueue>>
  BY <1>1, <1>2, <1>3 DEF TasksTyped, ExecutedRegistered, StatsListed
<1>4. CASE loadingTask[c] # Null /\ task[loadingTask[c]].stage # "finished"
  <2>1. PICK t \in Tasks : t = loadingTask[c] /\ task[t] \in Task
    BY <1>4 DEF ClientsTyped, TasksTyped
  <2>2. CASE task[t].stage \in {"made", "submitted"}
    <3> DEFINE s == [Ended(t, FALSE) EXCEPT !.cancelled = TRUE]
    <3>1. task' = [task EXCEPT ![t] = s] /\ mainQueue' = Append(mainQueue, t)
      BY <1>4, <2>1, <2>2 DEF Close
    <3>2. /\ s \in Task
          /\ s.kind = task[t].kind /\ s.executed = task[t].executed
          /\ s.attached = task[t].attached /\ s.stage # "finished"
      BY EndedTame DEF Task
    <3>3. mainQueue' \in Seq(Tasks)
      BY <3>1 DEF TasksTyped
    <3>4. Tame
      <4> HIDE DEF s
      <4> QED BY <3>1, <3>2, ChangeTame
    <3> QED BY <1>1, <1>2, <3>3, <3>4, TameKeeps, TameListed
  <2>3. CASE task[t].stage \notin {"made", "submitted"}
    <3> DEFINE s == [task[t] EXCEPT !.cancelled = TRUE]
    <3>1. task' = [task EXCEPT ![t] = s] /\ UNCHANGED mainQueue
      BY <1>4, <2>1, <2>3 DEF Close
    <3>2. /\ s \in Task
          /\ s.kind = task[t].kind /\ s.executed = task[t].executed
          /\ s.attached = task[t].attached /\ s.stage = task[t].stage
      BY <2>1 DEF Task
    <3>3. mainQueue' \in Seq(Tasks)
      BY <3>1 DEF TasksTyped
    <3>4. Tame
      <4> HIDE DEF s
      <4> QED BY <3>1, <3>2, ChangeTame
    <3> QED BY <1>1, <1>2, <3>3, <3>4, TameKeeps, TameListed
  <2> QED BY <2>2, <2>3
<1> QED BY <1>3, <1>4 DEF Close

LEMMA WorkKeeps ==
  ASSUME LoadingInv, NEW t \in Tasks, TaskStep(t)
  PROVE  Rest'
<1> USE DEF LoadingInv, Rest
<1>1. UNCHANGED clientVars /\ UNCHANGED registered
  BY DEF TaskStep, Start, LoadDocument, LoadChildren, LoadStat
<1>2. ClientsTyped' /\ MadeTasks'
  BY <1>1 DEF clientVars, ClientsTyped, MadeTasks
<1>3. task[t] \in Task
  BY DEF TasksTyped
<1>4. children # Null => children' # Null
  <2>1. CASE Start(t) \/ LoadDocument(t)
    BY <2>1 DEF Start, LoadDocument, cacheVars
  <2>2. CASE LoadChildren(t)
    <3>1. Unstatted \in [Files -> Stats]
      BY DEF Unstatted, Stats
    <3>2. Unstatted # Null
      BY <3>1, DocumentLoadingAssumption DEF Stats
    <3>3. children' \in {Unstatted, children}
      BY <2>2 DEF LoadChildren
    <3> QED BY <3>2, <3>3
  <2>3. ASSUME NEW f \in Files, LoadStat(t, f)
        PROVE  children # Null => children' # Null
    <3>1. \/ children' = children
          \/ \E s \in Stats : children' = [children EXCEPT ![f] = s]
      BY <2>3 DEF LoadStat, Stats
    <3>2. children # Null => children \in [Files -> Stats]
      BY DEF CacheTyped
    <3>3. children # Null => children' \in [Files -> Stats]
      BY <3>1, <3>2
    <3> QED BY <3>3, DocumentLoadingAssumption DEF Stats
  <2> QED BY <2>1, <2>2, <2>3 DEF TaskStep
<1>5. ASSUME NEW ok \in BOOLEAN, NEW lost \in SUBSET Tasks,
             task' = Posted(t, ok, lost), Post(t)
      PROVE  Rest'
  <2>1. Tame
    BY <1>5, PostedTame
  <2>2. mainQueue' \in Seq(Tasks)
    BY <1>5 DEF Post, TasksTyped
  <2> QED BY <1>1, <1>2, <1>4, <2>1, <2>2, TameKeeps, TameListed
<1>6. ASSUME NEW s \in Task, task' = [task EXCEPT ![t] = s], UNCHANGED mainQueue,
             s.kind = task[t].kind, s.executed = task[t].executed,
             s.attached = task[t].attached, s.stage # "finished"
      PROVE  Rest'
  <2>1. Tame
    BY <1>6, ChangeTame
  <2>2. mainQueue' \in Seq(Tasks)
    BY <1>6 DEF TasksTyped
  <2> QED BY <1>1, <1>2, <1>4, <2>1, <2>2, TameKeeps, TameListed
<1>7. CASE Start(t)
  <2>1. task' = [task EXCEPT ![t] = [task[t] EXCEPT !.stage = "running"]]
        /\ UNCHANGED mainQueue
    BY <1>7 DEF Start
  <2>2. /\ [task[t] EXCEPT !.stage = "running"] \in Task
        /\ [task[t] EXCEPT !.stage = "running"].kind = task[t].kind
        /\ [task[t] EXCEPT !.stage = "running"].executed = task[t].executed
        /\ [task[t] EXCEPT !.stage = "running"].attached = task[t].attached
        /\ [task[t] EXCEPT !.stage = "running"].stage # "finished"
    BY <1>3 DEF Task, Stages
  <2> QED BY ONLY <1>6, <2>1, <2>2
<1>8. CASE LoadDocument(t)
  <2>1. {} \in SUBSET Tasks
    OBVIOUS
  <2>2. PICK ok \in BOOLEAN : task' = Posted(t, ok, {}) /\ Post(t)
    BY <1>8 DEF LoadDocument
  <2> QED BY ONLY <1>5, <2>1, <2>2
<1>9. CASE LoadChildren(t)
  <2>1. {} \in SUBSET Tasks /\ StatTasks \in SUBSET Tasks
    BY DEF StatTasks
  <2>2. PICK ok \in BOOLEAN, lost \in {{}, StatTasks} : task' = Posted(t, ok, lost) /\ Post(t)
    BY <1>9 DEF LoadChildren
  <2> QED BY ONLY <1>5, <2>1, <2>2
<1>10. ASSUME NEW f \in Files, LoadStat(t, f)
       PROVE  Rest'
  <2>1. CASE task' = Posted(t, TRUE, {}) /\ Post(t)
    <3>1. TRUE \in BOOLEAN /\ {} \in SUBSET Tasks
      OBVIOUS
    <3> QED BY ONLY <1>5, <2>1, <3>1
  <2>2. CASE /\ task' = [task EXCEPT ![t] = [task[t] EXCEPT !.files = @ \ {f}]]
             /\ UNCHANGED mainQueue
    <3>1. task[t].stage = "running"
      BY <1>10 DEF LoadStat, Working
    <3>2. /\ [task[t] EXCEPT !.files = @ \ {f}] \in Task
          /\ [task[t] EXCEPT !.files = @ \ {f}].kind = task[t].kind
          /\ [task[t] EXCEPT !.files = @ \ {f}].executed = task[t].executed
          /\ [task[t] EXCEPT !.files = @ \ {f}].attached = task[t].attached
          /\ [task[t] EXCEPT !.files = @ \ {f}].stage # "finished"
      BY <1>3, <3>1 DEF Task
    <3> QED BY ONLY <1>6, <2>2, <3>2
  <2> QED BY <1>10, <2>1, <2>2 DEF LoadStat
<1> QED BY <1>7, <1>8, <1>9, <1>10 DEF TaskStep

LEMMA DeliverKeeps ==
  ASSUME LoadingInv, NEW t \in Tasks,
         DeliverDocument(t) \/ DeliverChildren(t) \/ DeliverStat(t)
  PROVE  Rest'
<1> USE DEF LoadingInv, Rest
<1>1. /\ UNCHANGED <<registered, loading, loadingTask, caught>>
      /\ NotifyChange \/ UNCHANGED notified
      /\ pc' = [c \in Clients |-> WithoutMetadata(pc[c])] \/ UNCHANGED pc
  BY DEF DeliverDocument, DeliverChildren, DeliverStat
<1>2. ClientsTyped' /\ MadeTasks'
  BY <1>1 DEF ClientsTyped, MadeTasks, NotifyChange, WithoutMetadata, PCs
<1>3. mainQueue' \in Seq(Tasks)
  BY DEF DeliverDocument, DeliverChildren, DeliverStat, Delivering, TasksTyped
<1>4. ASSUME NEW lost \in SUBSET Tasks, task' = Delivered(t, lost)
      PROVE  Tame /\ TasksTyped' /\ ExecutedRegistered'
  BY <1>1, <1>3, <1>4, DeliveredTame, TameKeeps
<1>5. CASE task' = Delivered(t, Tasks) /\ task[t].kind = "document"
  <2>1. Tame /\ TasksTyped' /\ ExecutedRegistered'
    BY <1>4, <1>5
  <2>2. \A u \in Tasks : task[u].kind = "stat" => ~task'[u].attached
    BY <1>5, DeliveredTame
  <2> QED BY <1>2, <2>1, <2>2, TameListed
<1>6. ASSUME NEW lost \in SUBSET Tasks, task' = Delivered(t, lost),
             children # Null => children' # Null
      PROVE  Rest'
  BY <1>2, <1>4, <1>6, TameListed
<1>7. {} \in SUBSET Tasks /\ StatTasks \in SUBSET Tasks
  BY DEF StatTasks
<1>8. CASE DeliverDocument(t)
  <2>1. CASE task[t].ok
    BY <1>5, <1>8, <2>1 DEF DeliverDocument
  <2>2. CASE ~task[t].ok
    <3>1. task' = Delivered(t, {}) /\ UNCHANGED children
      BY <1>8, <2>2 DEF DeliverDocument
    <3> QED BY <1>6, <1>7, <3>1
  <2> QED BY <2>1, <2>2
<1>9. CASE DeliverChildren(t)
  <2>1. PICK lost \in {{}, StatTasks} : task' = Delivered(t, lost)
    BY <1>9 DEF DeliverChildren
  <2>2. children # Null => children' # Null
    BY <1>9, DocumentLoadingAssumption DEF DeliverChildren, Unstatted
  <2> QED BY <1>6, <1>7, <2>1, <2>2
<1>10. CASE DeliverStat(t)
  <2>1. task' = Delivered(t, {}) /\ UNCHANGED children
    BY <1>10 DEF DeliverStat, cacheVars
  <2> QED BY <1>6, <1>7, <2>1
<1> QED BY <1>8, <1>9, <1>10

LEMMA FinishKeeps ==
  ASSUME LoadingInv, NEW t \in Tasks, Finish(t)
  PROVE  Rest'
<1> USE DEF LoadingInv, Rest
<1>1. /\ task' = [task EXCEPT ![t] = Finished]
      /\ UNCHANGED <<children, registered, mainQueue, pc, loading, loadingTask, notified, caught>>
  BY DEF Finish, cacheVars, clientVars
<1>2. ClientsTyped' /\ MadeTasks'
  BY <1>1 DEF ClientsTyped, MadeTasks
<1>3. TasksTyped' /\ ExecutedRegistered' /\ StatsListed'
  BY <1>1, FinishedTyped DEF TasksTyped, ExecutedRegistered, StatsListed
<1> QED BY <1>2, <1>3

LEMMA ParentListedKeeps ==
  ASSUME LoadingInv, ParentListed
  PROVE  Rest'
<1> USE DEF LoadingInv, Rest
<1>1. UNCHANGED <<registered, mainQueue, loading, loadingTask, notified, caught>>
  BY DEF ParentListed
<1>2. pc' = [c \in Clients |-> WithoutMetadata(pc[c])]
  BY DEF ParentListed
<1>3. ClientsTyped' /\ MadeTasks'
  BY <1>1, <1>2 DEF ClientsTyped, MadeTasks, WithoutMetadata, PCs
<1>4. Tame /\ \A t \in Tasks : ~task'[t].attached
  BY AllDetachedTame DEF ParentListed
<1>5. mainQueue' \in Seq(Tasks)
  BY <1>1 DEF TasksTyped
<1> QED BY <1>1, <1>3, <1>4, <1>5, TameKeeps, TameListed

LEMMA LoadingNext == LoadingInv /\ [Next]_vars => LoadingInv'
<1> SUFFICES ASSUME LoadingInv, [Next]_vars PROVE LoadingInv'
  OBVIOUS
<1>1. CacheTyped'
  BY CacheKeeps DEF LoadingInv
<1>2. CASE UNCHANGED vars \/ Expire
  <2>1. UNCHANGED <<taskVars, clientVars, children>>
    BY <1>2 DEF vars, cacheVars, Expire
  <2> QED BY <1>1, <2>1 DEF taskVars, clientVars, LoadingInv, TasksTyped,
             ClientsTyped, MadeTasks, ExecutedRegistered, StatsListed
<1>3. Rest' => LoadingInv'
  BY <1>1 DEF LoadingInv, Rest
<1>4. CASE MainStep
  BY <1>3, <1>4, DeliverKeeps, FinishKeeps DEF MainStep
<1> QED BY <1>2, <1>3, <1>4, QueryKeeps, CloseKeeps, WorkKeeps, ParentListedKeeps DEF Next

THEOREM LoadingInvCorrect == Spec => []LoadingInv
<1> QED BY LoadingInit, LoadingNext, PTL DEF Spec

\* The variables have their types; in particular only tasks are posted.
THEOREM TypeCorrect == Spec => []TypeOK
<1>1. LoadingInv => TypeOK
  BY DEF LoadingInv, CacheTyped, TasksTyped, ClientsTyped, TypeOK
<1> QED BY LoadingInvCorrect, <1>1, PTL

\* TaskManager never lets two updates of one document run at a time.
THEOREM UpdatesExclusive == Spec => []OneUpdateAtATime
<1>1. LoadingInv => OneUpdateAtATime
  BY DEF LoadingInv, ExecutedRegistered, OneUpdateAtATime, Unfinished
<1> QED BY LoadingInvCorrect, <1>1, PTL
=============================================================================
