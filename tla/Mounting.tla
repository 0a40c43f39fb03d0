------------------------------ MODULE Mounting ------------------------------
(***************************************************************************)
(* How the user mounts shares: MountServerActivity.tryMount with its       *)
(* MountServerTask, and AuthActivity.tryAuth with its AuthorizationTask,   *)
(* composed with the ShareManager they call and the TaskManager and the    *)
(* DocumentCache they share with the provider.                             *)
(*                                                                         *)
(* A task of MountServerActivity is given to the TaskManager, which        *)
(* ignores it while another task of the share has not finished; one of     *)
(* AuthActivity waits in the serial executor of AsyncTask.  Either calls   *)
(* the ShareManager on a thread of its own and has its result delivered on *)
(* the main thread, which dismisses the dialog.  The main thread itself    *)
(* waits for the monitor of the ShareManager in isShareMounted.            *)
(*                                                                         *)
(* MountServerTask.onCancelled is left out: nothing cancels the task.      *)
(***************************************************************************)
EXTENDS ShareManager, Sequences

CONSTANTS
  Tasks,     \* attempts to mount a share, with their tasks and dialogs
  Loader,    \* a task of the provider that loads a share
  AuthStarts \* AuthActivity can be started: the manifest does not declare it

Stages == {"asking", "queued", "saving", "succeeded", "failed"}

\* pin: mShouldPin
Attempts == [kind : {"mount", "auth"}, uri : Uris, cred : Credentials \cup {Anonymous},
             pin : BOOLEAN, stage : Stages]

ASSUME MountingAssumption ==
  /\ Null \notin Tasks \cup Attempts
  /\ Loader \notin Tasks \cup {Null}
  /\ AuthStarts \in BOOLEAN

VARIABLES
  attempt,    \* attempt[t]: what t is doing, or Null
  dialogs,    \* the attempts whose ProgressDialog is shown
  registered, \* TaskManager.mTasks: the task of each share that has not
              \* finished, or Null
  serial,     \* AsyncTask.SERIAL_EXECUTOR
  cached,     \* the shares whose metadata is in the DocumentCache
  overtaken   \* the queued attempts whose share an AuthorizationTask has
              \* saved since isShareMounted was asked (history)

mountingVars == <<attempt, dialogs, registered, serial, cached, overtaken>>
allVars == <<vars, mountingVars>>

In(t, stage) == attempt[t] # Null /\ attempt[t].stage = stage

MainThreadFree == running /\ \A t \in Tasks : ~In(t, "asking")

\* No attempt uses the identity t.
Unused(t) == attempt[t] = Null /\ t \notin dialogs

To(t, stage) == attempt' = [attempt EXCEPT ![t].stage = stage]

\* doInBackground has ended: the serial executor goes on.
LeaveSerial(t) == serial' = IF attempt[t].kind = "auth" THEN Tail(serial) ELSE serial

-----------------------------------------------------------------------------
MountingInit ==
  /\ Init
  /\ attempt = [t \in Tasks |-> Null]
  /\ dialogs = {}
  /\ registered = [u \in Uris |-> Null]
  /\ serial = <<>>
  /\ cached = {}
  /\ overtaken = {}

StartProcess == Start /\ UNCHANGED mountingVars

\* tryMount, up to isShareMounted
TryMount(t, u, cred) ==
  /\ MainThreadFree
  /\ Unused(t)
  /\ attempt' = [attempt EXCEPT ![t] =
       [kind |-> "mount", uri |-> u, cred |-> cred, pin |-> TRUE, stage |-> "asking"]]
  /\ UNCHANGED <<vars, dialogs, registered, serial, cached, overtaken>>

\* isShareMounted has the monitor: the user is told that it is
AlreadyMounted(t) ==
  /\ In(t, "asking") /\ Idle
  /\ attempt[t].uri \in mounted
  /\ attempt' = [attempt EXCEPT ![t] = Null]
  /\ UNCHANGED <<vars, dialogs, registered, serial, cached, overtaken>>

\* An altered RunTask: runs the task although another one of the share does.
RunTaskAnyway(t) ==
  LET u == attempt[t].uri IN
  /\ In(t, "asking") /\ Idle
  /\ u \notin mounted
  /\ cached' = cached \cup {u}
  /\ dialogs' = dialogs \cup {t}
  /\ registered' = [registered EXCEPT ![u] = t]
  /\ To(t, "queued")
  /\ UNCHANGED <<vars, serial, overtaken>>

\* or the rest of tryMount, with TaskManager.runTask
RunTask(t) ==
  LET u == attempt[t].uri IN
  /\ In(t, "asking") /\ Idle
  /\ u \notin mounted
  /\ cached' = cached \cup {u}
  /\ dialogs' = dialogs \cup {t}
  /\ IF registered[u] = Null
     THEN /\ registered' = [registered EXCEPT ![u] = t]
          /\ To(t, "queued")
     ELSE /\ attempt' = [attempt EXCEPT ![t] = Null]
          /\ UNCHANGED registered
  /\ UNCHANGED <<vars, serial, overtaken>>

\* tryAuth, which shows the dialog before it looks at the credentials
TryAuth(t, u, cred, pin) ==
  /\ AuthStarts
  /\ MainThreadFree
  /\ Unused(t)
  /\ dialogs' = dialogs \cup {t}
  /\ IF cred = Anonymous
     THEN UNCHANGED <<attempt, serial>>
     ELSE /\ attempt' = [attempt EXCEPT ![t] =
               [kind |-> "auth", uri |-> u, cred |-> cred, pin |-> pin,
                stage |-> "queued"]]
          /\ serial' = Append(serial, t)
  /\ UNCHANGED <<vars, registered, cached, overtaken>>

\* The task calls addServer or addOrUpdateServer
Begin(t) ==
  LET a == attempt[t] IN
  /\ In(t, "queued")
  /\ a.kind = "auth" => t = Head(serial)
  /\ Save(IF a.kind = "mount" THEN "add" ELSE "update", a.uri, a.cred, a.pin)
  /\ To(t, "saving")
  /\ UNCHANGED <<dialogs, registered, serial, cached, overtaken>>

\* addServer throws IllegalStateException
Refuse(t) ==
  /\ In(t, "queued") /\ Idle
  /\ attempt[t].kind = "mount" /\ attempt[t].uri \in mounted
  /\ To(t, "failed")
  /\ UNCHANGED <<vars, dialogs, registered, serial, cached, overtaken>>

SaveFails(t) ==
  /\ In(t, "saving")
  /\ CheckFails \/ EncryptionFails
  /\ To(t, "failed")
  /\ LeaveSerial(t)
  /\ UNCHANGED <<dialogs, registered, cached, overtaken>>

SaveSucceeds(t) ==
  /\ In(t, "saving")
  /\ CheckSucceeds
  /\ To(t, "succeeded")
  /\ overtaken' = IF attempt[t].kind = "auth"
                  THEN overtaken \cup {s \in Tasks : In(s, "queued") /\ attempt[s].uri = attempt[t].uri}
                  ELSE overtaken
  /\ LeaveSerial(t)
  /\ UNCHANGED <<dialogs, registered, cached>>

\* An altered Deliver: onFailed does not call back.
DeliverSilently(t) ==
  /\ MainThreadFree
  /\ In(t, "succeeded") \/ In(t, "failed")
  /\ attempt' = [attempt EXCEPT ![t] = Null]
  /\ dialogs' = IF In(t, "failed") THEN dialogs ELSE dialogs \ {t}
  /\ overtaken' = overtaken \ {t}
  /\ IF attempt[t].kind = "mount"
     THEN registered' = [registered EXCEPT ![attempt[t].uri] = Null]
     ELSE UNCHANGED registered
  /\ UNCHANGED <<vars, serial, cached>>

\* onPostExecute with the callbacks of the activities, on the main thread
Deliver(t) ==
  /\ MainThreadFree
  /\ In(t, "succeeded") \/ In(t, "failed")
  /\ attempt' = [attempt EXCEPT ![t] = Null]
  /\ dialogs' = dialogs \ {t}
  /\ overtaken' = overtaken \ {t}
  /\ IF attempt[t].kind = "mount"
     THEN /\ registered' = [registered EXCEPT ![attempt[t].uri] = Null]
          /\ cached' = IF In(t, "failed") THEN cached \ {attempt[t].uri} ELSE cached
     ELSE UNCHANGED <<registered, cached>>
  /\ UNCHANGED <<vars, serial>>

\* The activity is recreated or left: its dialog goes, its task goes on.
Destroy(t) ==
  /\ MainThreadFree
  /\ t \in dialogs
  /\ dialogs' = dialogs \ {t}
  /\ UNCHANGED <<vars, attempt, registered, serial, cached, overtaken>>

(***************************************************************************)
(* The provider                                                            *)
(***************************************************************************)
EjectRoot(u) == Unmount(u) /\ UNCHANGED mountingVars

\* queryRoots and queryDocument put a share that is known into the cache
Query(u) ==
  /\ Idle
  /\ map[u] # Null
  /\ cached' = cached \cup {u}
  /\ UNCHANGED <<vars, attempt, dialogs, registered, serial, overtaken>>

\* queryChildDocuments: runTask with a LoadDocumentTask or a LoadChildrenTask
Load(u) ==
  /\ running
  /\ registered[u] = Null
  /\ registered' = [registered EXCEPT ![u] = Loader]
  /\ UNCHANGED <<vars, attempt, dialogs, serial, cached, overtaken>>

LoadEnds(u) ==
  /\ MainThreadFree
  /\ registered[u] = Loader
  /\ registered' = [registered EXCEPT ![u] = Null]
  /\ cached' \in {cached, cached \cup {u}}
  /\ UNCHANGED <<vars, attempt, dialogs, serial, overtaken>>

WriteBehind == (WriteIvToDisk \/ WriteToDisk) /\ UNCHANGED mountingVars

KillProcess ==
  /\ Kill
  /\ attempt' = [t \in Tasks |-> Null]
  /\ dialogs' = {}
  /\ registered' = [u \in Uris |-> Null]
  /\ serial' = <<>>
  /\ cached' = {}
  /\ overtaken' = {}

-----------------------------------------------------------------------------
\* A thread that waits for the monitor of the ShareManager gets it.
EnterMonitor(t) == AlreadyMounted(t) \/ RunTask(t) \/ Begin(t) \/ Refuse(t)

SaveEnds(t) == SaveFails(t) \/ SaveSucceeds(t)

MountingNext ==
  \/ StartProcess
  \/ WriteBehind
  \/ KillProcess
  \/ \E u \in Uris : EjectRoot(u) \/ Query(u) \/ Load(u) \/ LoadEnds(u)
  \/ \E t \in Tasks :
       \/ \E u \in Uris, cred \in Credentials \cup {Anonymous} :
            \/ TryMount(t, u, cred)
            \/ \E pin \in BOOLEAN : TryAuth(t, u, cred, pin)
       \/ EnterMonitor(t)
       \/ SaveEnds(t)
       \/ Deliver(t)
       \/ Destroy(t)

MountingSpec == MountingInit /\ [][MountingNext]_allVars

(***************************************************************************)
(* A check ends, since libsmbclient gives up on a server that is silent.   *)
(* A thread that finds the monitor free again and again enters it, and the *)
(* main thread handles its messages in their order, however often the user *)
(* tries to mount something else.  Nothing obliges the user, the provider, *)
(* the disk or the system to do anything.                                  *)
(***************************************************************************)
Fairness ==
  \A t \in Tasks :
    WF_allVars(SaveEnds(t)) /\ SF_allVars(EnterMonitor(t)) /\ SF_allVars(Deliver(t))

FairMountingSpec == MountingSpec /\ Fairness

-----------------------------------------------------------------------------
MountingTypeOK ==
  /\ TypeOK
  /\ attempt \in [Tasks -> Attempts \cup {Null}]
  /\ dialogs \in SUBSET Tasks
  /\ registered \in [Uris -> Tasks \cup {Loader, Null}]
  /\ serial \in Seq(Tasks)
  /\ cached \in SUBSET Uris
  /\ overtaken \in SUBSET Tasks

(***************************************************************************)
(* addServer throws "is already stored" in a MountServerTask only if an    *)
(* AuthorizationTask of the same share has succeeded since tryMount found  *)
(* it unmounted: two MountServerTasks never race for one share, although   *)
(* isShareMounted and addServer enter the monitor one after the other      *)
(* (tryMount, TaskManager.runTask, addServer).                             *)
(***************************************************************************)
RefusedOnlyIfOvertaken ==
  \A t \in Tasks : In(t, "queued") /\ attempt[t].kind = "mount" /\ attempt[t].uri \in mounted
    => t \in overtaken

(***************************************************************************)
(* Until its result is delivered, a MountServerTask finds the metadata     *)
(* that tryMount put into the cache: no other attempt, refused, failed or  *)
(* ignored, removes it (tryMount's callback, DocumentCache.remove).        *)
(***************************************************************************)
MountsCached ==
  \A t \in Tasks : attempt[t] # Null /\ attempt[t].kind = "mount" /\ ~In(t, "asking")
    => attempt[t].uri \in cached

(***************************************************************************)
(* The dialog of an attempt whose task runs is dismissed, although the     *)
(* main thread waits for the monitor that a check holds, tasks wait for    *)
(* one another in the serial executor, and any of them may fail            *)
(* (BiResultTask.onPostExecute, the callbacks of both activities).         *)
(***************************************************************************)
DialogsEnd ==
  \A t \in Tasks : (t \in dialogs /\ attempt[t] # Null) ~> t \notin dialogs

(***************************************************************************)
(* Expectations that the code does not meet; no run checks them.           *)
(***************************************************************************)

(***************************************************************************)
(* Every dialog is dismissed: also that of a task that TaskManager ignores *)
(* (TaskManager.java:44), and that of tryAuth without user or password     *)
(* (AuthActivity.java:136).                                                *)
(***************************************************************************)
EveryDialogEnds == \A t \in Tasks : t \in dialogs ~> t \notin dialogs

(***************************************************************************)
(* Credentials that are recorded are the ones in use: a failing            *)
(* AuthorizationTask removes those of a share that is mounted              *)
(* (ShareManager.java:193), and a share that is mounted without any is     *)
(* accessed with those an encryption that failed has left behind (161).    *)
(***************************************************************************)
RecordedAreInUse ==
  \A u \in Uris : Idle /\ map[u] # Null => credentials[u] = map[u].tuple.cred

(***************************************************************************)
(* A share leaves the roots only through ejectRoot: an AuthorizationTask   *)
(* that does not pin it unmounts it (ShareManager.java:167).               *)
(***************************************************************************)
OnlyEjectedLeave == [][running' /\ saving # Null => mounted \subseteq mounted']_allVars
=============================================================================
