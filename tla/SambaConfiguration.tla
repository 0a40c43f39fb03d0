------------------------- MODULE SambaConfiguration -------------------------
(***************************************************************************)
(* smb.conf and who reads it: SambaConfiguration.java and the part of      *)
(* SambaProviderApplication.java that starts it.  Each start of the process *)
(* either copies a newer smb.conf of the user's external folder to the      *)
(* private folder, or writes the default settings if there is no file yet. *)
(* An AsyncTask does the copying and writing; when it ends, the native      *)
(* client is reset so that it reads the file again.  The network callback   *)
(* resets it too, at any time.  A reset may fail, which nobody is told.    *)
(*                                                                         *)
(* Which file is newer is a comparison of two dates.  The user's file has  *)
(* the date that it was put with, be it of the past or of the future, and  *)
(* the clock may be set: a write makes the private file newer or not.      *)
(*                                                                         *)
(* A file is the set of its lines; read() keeps the lines that are          *)
(* "key = value", and HashMap's iterator writes them in any order.         *)
(***************************************************************************)
EXTENDS Integers, FiniteSets

CONSTANTS
  Lines,        \* the lines that a user may write
  Settings,     \* those of the form "key = value"
  Default,      \* the settings of flushDefault
  MinProtocol,  \* "client min protocol = SMB2", one of them
  MaxStarts,    \* bound on starts of the process
  MaxPuts       \* bound on files that the user puts

ASSUME SettingsAssumption ==
  /\ Settings \subseteq Lines
  /\ Default \subseteq Settings
  /\ MinProtocol \in Default
  /\ MaxStarts \in Nat
  /\ MaxPuts \in Nat

VARIABLES
  exists,       \* smb.conf is in the private folder
  file,         \* its lines
  hasExternal,  \* smb.conf is in the external folder
  external,     \* its lines
  newer,        \* its date is later than that of the private one
  config,       \* mConfigurations
  task,         \* where the AsyncTask is
  unwritten,    \* entries that write() has still to print
  up,           \* the process runs
  initialised,  \* the native client has a context
  client,       \* the lines it read when it was last reset
  fromExternal, \* history: the task has read the external file as it is now
  copied,       \* history: a task has copied it, all of it
  passedOver,   \* history: its date was too old, a start could not see it, a
                \* task was writing when it was put, or its copy was cut short
  initFailed,   \* history: the last reset did not give a context
  starts, puts

folders == <<exists, file, hasExternal, external, newer>>
copyVars == <<fromExternal, copied, passedOver>>
clientVars == <<initialised, client, initFailed>>
vars == <<folders, config, task, unwritten, up, clientVars, copyVars, starts, puts>>

TypeOK ==
  /\ exists \in BOOLEAN /\ hasExternal \in BOOLEAN /\ newer \in BOOLEAN
  /\ file \subseteq Settings /\ external \subseteq Lines
  /\ config \subseteq Settings /\ unwritten \subseteq Settings
  /\ task \in {"none", "read", "open", "write", "posted"}
  /\ up \in BOOLEAN /\ initialised \in BOOLEAN /\ client \subseteq Settings
  /\ fromExternal \in BOOLEAN /\ copied \in BOOLEAN /\ passedOver \in BOOLEAN
  /\ initFailed \in BOOLEAN
  /\ starts \in 0..MaxStarts /\ puts \in 0..MaxPuts

Init ==
  /\ exists = FALSE /\ file = {}
  /\ hasExternal = FALSE /\ external = {} /\ newer = FALSE
  /\ config = {} /\ task = "none" /\ unwritten = {}
  /\ up = FALSE /\ initialised = FALSE /\ client = {} /\ initFailed = FALSE
  /\ fromExternal = FALSE /\ copied = FALSE /\ passedOver = FALSE
  /\ starts = 0 /\ puts = 0

(* What syncFromExternal finds: getExternalFilesDir has given a folder, in  *)
(* which there is a newer smb.conf.                                        *)
FindsNewer(ready) == ready /\ hasExternal /\ newer

(* syncFromExternal comes first and, when it starts a task, alone.          *)
SyncFromExternal(ready) ==
  /\ FindsNewer(ready)
  /\ config' = {}
  /\ task' = "read"

(* A mutant of FlushDefault: not after the early return.                    *)
FlushDefaultAnyway(ready) ==
  /\ config' = Default
  /\ task' = IF exists THEN "none" ELSE "open"

(* addConfiguration three times; the file is written only if there is none. *)
FlushDefault(ready) ==
  /\ ~FindsNewer(ready)
  /\ config' = Default
  /\ task' = IF exists THEN "none" ELSE "open"

(* External storage may not be ready: the home folder is then in its place. *)
Start ==
  /\ ~up /\ starts < MaxStarts
  /\ \E ready \in BOOLEAN :
       /\ SyncFromExternal(ready) \/ FlushDefault(ready)
       /\ passedOver' = (passedOver \/ (hasExternal /\ ~ready /\ ~exists))
  /\ fromExternal' = FALSE
  /\ up' = TRUE /\ starts' = starts + 1
  /\ UNCHANGED <<folders, unwritten, clientVars, copied, puts>>

(* A mutant of Read: a line counts whatever split returns.                  *)
ReadAllLines ==
  /\ task = "read" /\ hasExternal
  /\ fromExternal' = TRUE
  /\ config' = external
  /\ task' = "open"
  /\ UNCHANGED <<folders, unwritten, up, clientVars, copied, passedOver, starts, puts>>

Read ==
  /\ task = "read" /\ hasExternal
  /\ fromExternal' = TRUE
  /\ config' = external \cap Settings
  /\ task' = "open"
  /\ UNCHANGED <<folders, unwritten, up, clientVars, copied, passedOver, starts, puts>>

(* The IOException of read() skips write(), and onFailed does nothing.      *)
ReadFails ==
  /\ task = "read"
  /\ \E part \in SUBSET (external \cap Settings) : config' = part
  /\ task' = "none"
  /\ UNCHANGED <<folders, unwritten, up, clientVars, copyVars, starts, puts>>

(* A write gives the private file the date of now.                          *)
Dated == newer' \in BOOLEAN /\ (newer' => hasExternal)

(* new PrintStream(file) creates or truncates the file.                     *)
OpenForWriting ==
  /\ task = "open"
  /\ exists' = TRUE /\ file' = {} /\ Dated
  /\ unwritten' = config
  /\ task' = "write"
  /\ UNCHANGED <<hasExternal, external, config, up, clientVars, copyVars, starts, puts>>

OpenFails ==
  /\ task = "open"
  /\ task' = "none"
  /\ UNCHANGED <<folders, config, unwritten, up, clientVars, copyVars, starts, puts>>

PrintEntry ==
  /\ task = "write"
  /\ \E entry \in unwritten :
       /\ file' = file \cup {entry}
       /\ unwritten' = unwritten \ {entry}
  /\ Dated
  /\ UNCHANGED <<exists, hasExternal, external, config, task, up, clientVars,
                 copyVars, starts, puts>>

(* What has been written is a copy of the external file, or a part of one.  *)
Copied(whole) ==
  /\ copied' = IF fromExternal THEN whole ELSE copied
  /\ passedOver' = IF fromExternal THEN ~whole ELSE passedOver
  /\ UNCHANGED fromExternal

(* A mutant of WriteEnds: a write that failed is not announced.             *)
WriteEndsIfWhole ==
  /\ task = "write"
  /\ unwritten' = {}
  /\ Copied(unwritten = {})
  /\ task' = IF unwritten = {} THEN "posted" ELSE "none"
  /\ UNCHANGED <<folders, config, up, clientVars, starts, puts>>

(* PrintStream throws nothing: on a full disk it drops what is left.        *)
WriteEnds ==
  /\ task = "write"
  /\ unwritten' = {}
  /\ Copied(unwritten = {})
  /\ task' = "posted"
  /\ UNCHANGED <<folders, config, up, clientVars, starts, puts>>

(* reset: a new context reads what smb.conf holds at that time, or Init     *)
(* fails and the handler is 0.                                             *)
Reset ==
  /\ initialised' \in BOOLEAN
  /\ client' = IF initialised' THEN file ELSE {}
  /\ initFailed' = ~initialised'

(* A mutant of OnConfigurationChanged: only a client that was initialised   *)
(* is reset.                                                                *)
OnConfigurationChangedLazily ==
  /\ task = "posted"
  /\ task' = "none"
  /\ IF initialised THEN Reset ELSE UNCHANGED clientVars
  /\ UNCHANGED <<folders, config, unwritten, up, copyVars, starts, puts>>

(* onSucceeded, on the main thread, which has by then left initialize.      *)
OnConfigurationChanged ==
  /\ task = "posted"
  /\ task' = "none"
  /\ Reset
  /\ UNCHANGED <<folders, config, unwritten, up, copyVars, starts, puts>>

OnAvailable ==
  /\ up
  /\ Reset
  /\ UNCHANGED <<folders, config, task, unwritten, up, copyVars, starts, puts>>

(* Any date is later than that of a file that does not exist, which is 0.   *)
PutExternal ==
  /\ puts < MaxPuts
  /\ hasExternal' = TRUE
  /\ newer' \in BOOLEAN /\ (~exists => newer')
  /\ external' \in SUBSET Lines
  /\ puts' = puts + 1
  /\ fromExternal' = FALSE /\ copied' = FALSE
  /\ passedOver' = (~newer' \/ task \in {"open", "write"})
  /\ UNCHANGED <<exists, file, config, task, unwritten, up, clientVars, starts>>

RemoveExternal ==
  /\ hasExternal
  /\ hasExternal' = FALSE /\ external' = {} /\ newer' = FALSE
  /\ fromExternal' = FALSE /\ copied' = FALSE /\ passedOver' = FALSE
  /\ UNCHANGED <<exists, file, config, task, unwritten, up, clientVars, starts, puts>>

(* The system ends the process: what it held in memory is gone.             *)
Kill ==
  /\ up
  /\ up' = FALSE
  /\ config' = {} /\ task' = "none" /\ unwritten' = {}
  /\ initialised' = FALSE /\ client' = {} /\ initFailed' = FALSE
  /\ IF task = "write" THEN Copied(FALSE) ELSE UNCHANGED copyVars
  /\ UNCHANGED <<folders, starts, puts>>

Next ==
  \/ Start
  \/ Read \/ ReadFails
  \/ OpenForWriting \/ OpenFails \/ PrintEntry \/ WriteEnds
  \/ OnConfigurationChanged \/ OnAvailable
  \/ PutExternal \/ RemoveExternal
  \/ Kill

Spec == Init /\ [][Next]_vars

(* The AsyncTask's thread runs until the process is killed, and the main    *)
(* thread takes what it posts.                                              *)
TaskStep ==
  \/ Read \/ ReadFails \/ OpenForWriting \/ OpenFails \/ PrintEntry
  \/ WriteEnds \/ OnConfigurationChanged

FairSpec == Spec /\ WF_vars(TaskStep)

(***************************************************************************)
(* A native client never keeps settings that smb.conf no longer has: when   *)
(* no task is under way, what it read is what the file holds.  The network  *)
(* callback may reset it while write() is half way; the listener of the     *)
(* task must then reset it again (SambaConfiguration.java:184, 203).        *)
(***************************************************************************)
ClientFollowsFile ==
  task = "none" /\ initialised => client = file

(***************************************************************************)
(* An external smb.conf that has been copied stays what the private file   *)
(* holds, all of it and nothing else, and one that no start will copy any  *)
(* more, as it is not newer, has been copied, unless the task or the dates *)
(* passed it over: neither a failed read nor the default settings take the *)
(* place of what the user put.  Passed over are a file with too old a date *)
(* (SambaConfiguration.java:99) or one put while a task writes, one that   *)
(* a start could not see when it wrote the default                         *)
(* (SambaProviderApplication.java:91), and one whose copy a kill or a full *)
(* disk cut short.                                                         *)
(***************************************************************************)
ExternalIsFollowed ==
  task # "write" =>
    /\ copied => exists /\ file = external \cap Settings
    /\ hasExternal /\ ~newer => copied \/ passedOver

(***************************************************************************)
(* Every write is followed by a reset, also where the client has not been  *)
(* initialised before: unless the process is killed, a task that writes    *)
(* ends with a client whose context was made after that, so that           *)
(* ClientFollowsFile speaks of it, or could not be made                    *)
(* (SambaConfiguration.java:177, 197, SambaProviderApplication.java:82).   *)
(***************************************************************************)
WrittenIsRead ==
  task = "write" ~> ~up \/ (task = "none" /\ (initialised \/ initFailed))

(***************************************************************************)
(* Expectations that the code does not meet; no run checks them.           *)
(***************************************************************************)

(***************************************************************************)
(* What a task writes reaches the client of a process that goes on.  (It   *)
(* fails: nativeInit may return 0, and neither NativeSambaFacade.java:57   *)
(* nor the listener, SambaProviderApplication.java:83, looks at that.)     *)
(***************************************************************************)
WrittenReachesClient ==
  task = "write" ~> ~up \/ (task = "none" /\ initialised)

(***************************************************************************)
(* "Sync from external folder" (SambaProviderApplication.java:88): a file  *)
(* that is not newer than the private one has been copied.  (It fails:     *)
(* dates are compared, not contents, and external storage may not be       *)
(* ready when the default settings are written.)                           *)
(***************************************************************************)
ExternalIsCopied ==
  up /\ task = "none" /\ hasExternal /\ ~newer => copied

(***************************************************************************)
(* SambaConfiguration.java:75: "Urge from users to disable SMB1 by          *)
(* default."  When a user put no file of their own, the smb.conf of a       *)
(* process whose task has ended sets the minimum protocol.  (It fails: a    *)
(* write that was cut short leaves a file, which is not written again.)     *)
(***************************************************************************)
SMB1Disabled ==
  puts = 0 /\ up /\ task = "none" /\ exists => MinProtocol \in file
=============================================================================
