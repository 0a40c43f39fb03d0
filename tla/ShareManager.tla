---------------------------- MODULE ShareManager ----------------------------
(***************************************************************************)
(* ShareManager keeps the shares the user has mounted: in memory, in the   *)
(* cache of credentials libsmbclient asks, and as encrypted strings in     *)
(* SharedPreferences, which reach the disk some time after apply().  The   *)
(* process may be killed at any time and load what is on disk again.       *)
(*                                                                         *)
(* EncryptionManager encrypts with a key of the Android key store, which   *)
(* outlives the process, and an IV of its own preferences: what has been   *)
(* encrypted is lost when its IV is.  Queued preferences are written one   *)
(* after the other in the order of their apply(), and the constructor      *)
(* queues the IV before any string.                                        *)
(*                                                                         *)
(* Every operation runs in the monitor of the ShareManager; saving a       *)
(* server asks the server in the midst of it, so that it takes two steps.  *)
(***************************************************************************)
EXTENDS Naturals, FiniteSets

CONSTANTS
  Uris,              \* the shares
  Credentials,       \* non-empty user names with their passwords
  Anonymous,         \* no user name or no password
  Ivs,               \* initialization vectors
  Null

Tuples  == [cred : Credentials \cup {Anonymous}, mounted : BOOLEAN]
\* A string, with the IV it was encrypted with, or Null for one in the clear
Strings == [uri : Uris, tuple : Tuples, iv : Ivs \cup {Null}]
Saves   == [kind : {"add", "update"}, uri : Uris,
            cred : Credentials \cup {Anonymous}, mount : BOOLEAN]

ASSUME ShareManagerAssumption ==
  /\ Anonymous \notin Credentials
  /\ Null \notin Strings \cup Tuples \cup Saves \cup Ivs
  /\ Ivs # {}

VARIABLES
  running,     \* the process is up and the ShareManager constructed
  strings,     \* mServerStringSet
  map,         \* mServerStringMap: the string of each share, or Null
  mounted,     \* mMountedServerSet
  credentials, \* the credential cache: what is used for each share
  saving,      \* the server being saved, which holds the monitor, or Null
  pref,        \* the set of strings last given to apply()
  disk,        \* the set of strings on disk
  iv,          \* the IV of mKey, last given to apply(), or Null
  ivDisk,      \* the IV on disk, or Null
  saved,       \* while the process is down, the tuples of the shares when it was
               \* killed, Null if they were not on disk (history)
  unsaved,     \* shares that could not be encrypted after their check, which
               \* leaves their credentials behind (history)
  ejected      \* what the last unmountServer returned (history)

memoryVars == <<strings, map, mounted, credentials, saving, pref, iv>>
historyVars == <<saved, unsaved, ejected>>
vars == <<running, memoryVars, disk, ivDisk, historyVars>>

EmptyTuple == [cred |-> Anonymous, mounted |-> TRUE]

InClear(s) == s.iv = Null

\* encrypt, with the IV i
Encrypted(s, i) == IF InClear(s) THEN [s EXCEPT !.iv = i] ELSE s

\* What can be read with the IV i: decrypt fails for what is in the clear, which
\* decode then understands, and for what was encrypted with another IV.
Readable(set, i) == {s \in set : InClear(s) \/ s.iv = i}

\* loadIv: the IV on disk, or else a new one
LoadedIvs == IF ivDisk = Null THEN Ivs ELSE {ivDisk}

\* What is recorded of each share, given the strings of the shares.
TuplesOf(m) == [u \in Uris |-> IF m[u] = Null THEN Null ELSE m[u].tuple]

MountedIn(m) == {u \in Uris : m[u] # Null /\ m[u].tuple.mounted}

\* An altered CredentialsIn: no empty credentials for a share without any.
CredentialsOrNull(m) ==
  [u \in Uris |-> IF m[u] = Null THEN Null ELSE m[u].tuple.cred]

CredentialsIn(m) ==
  [u \in Uris |-> IF m[u] = Null THEN Anonymous ELSE m[u].tuple.cred]

\* An altered MapsFrom: skips what cannot be decrypted.
MapsFromEncrypted(set) ==
  {m \in [Uris -> {s \in set : ~InClear(s)} \cup {Null}] : \A u \in Uris :
     IF \E s \in set : s.uri = u /\ ~InClear(s)
     THEN m[u] # Null /\ m[u].uri = u
     ELSE m[u] = Null}

\* The maps the constructor may build: of several strings of one share the
\* one that the HashSet iterates last.
MapsFrom(set) ==
  {m \in [Uris -> set \cup {Null}] : \A u \in Uris :
     IF \E s \in set : s.uri = u THEN m[u] # Null /\ m[u].uri = u ELSE m[u] = Null}

Idle == running /\ saving = Null

\* The credential cache of libsmbclient
PutCredential(u, cred) == credentials' = [credentials EXCEPT ![u] = cred]
RemoveCredential(u) == credentials' = [credentials EXCEPT ![u] = Anonymous]

-----------------------------------------------------------------------------
\* On disk may be strings of a version of the program without encryption,
\* which had one for each share.
Init ==
  /\ running = FALSE
  /\ strings = {}
  /\ map = [u \in Uris |-> Null]
  /\ mounted = {}
  /\ credentials = [u \in Uris |-> Anonymous]
  /\ saving = Null
  /\ pref = {}
  /\ iv = Null
  /\ ivDisk = Null
  /\ unsaved = {}
  /\ \E m \in [Uris -> [cred : Credentials, mounted : {TRUE}] \cup {Null}] :
       /\ saved = m
       /\ disk = {[uri |-> u, tuple |-> m[u], iv |-> Null] :
                    u \in {v \in Uris : m[v] # Null}}
  /\ ejected = TRUE

\* The constructor, with that of EncryptionManager: loadKey, and encryptServers,
\* which adds the encrypted form of a string it found in the clear.
Start ==
  /\ ~running
  /\ running' = TRUE
  /\ \E i \in LoadedIvs :
       /\ iv' = i
       /\ \E m \in MapsFrom(Readable(disk, i)) :
            /\ map' = m
            /\ mounted' = MountedIn(m)
            /\ credentials' = CredentialsIn(m)
       /\ \E failed \in SUBSET {s \in disk : InClear(s)} :
            strings' = disk \cup {Encrypted(s, i) : s \in disk \ failed}
  /\ pref' = strings'
  /\ saved' = Null
  /\ UNCHANGED <<saving, disk, ivDisk, unsaved, ejected>>

\* addServer and addOrUpdateServer, up to the checker; addServer throws for
\* a share that is mounted
Save(kind, u, cred, mount) ==
  /\ Idle
  /\ kind = "add" => u \notin mounted
  /\ saving' = [kind |-> kind, uri |-> u, cred |-> cred, mount |-> mount]
  /\ IF cred = Anonymous THEN UNCHANGED credentials ELSE PutCredential(u, cred)
  /\ UNCHANGED <<running, strings, map, mounted, pref, iv, disk, ivDisk, historyVars>>

\* An altered CheckFails: keeps the refused credentials.
CheckFailsKeepingCredentials ==
  /\ running /\ saving # Null
  /\ saving' = Null
  /\ UNCHANGED <<running, strings, map, mounted, credentials, pref, iv, disk, ivDisk,
                 historyVars>>

\* runMountChecker: the server cannot be reached, or refuses the credentials
CheckFails ==
  /\ running /\ saving # Null
  /\ RemoveCredential(saving.uri)
  /\ saving' = Null
  /\ unsaved' = unsaved \ {saving.uri}
  /\ UNCHANGED <<running, strings, map, mounted, pref, iv, disk, ivDisk, saved, ejected>>

\* encrypt() throws after the checker has succeeded
EncryptionFails ==
  /\ running /\ saving # Null
  /\ unsaved' = unsaved \cup {saving.uri}
  /\ saving' = Null
  /\ UNCHANGED <<running, strings, map, mounted, credentials, pref, iv, disk, ivDisk,
                 saved, ejected>>

\* saveServerInfo goes on, and updateServersData
CheckSucceeds ==
  /\ running /\ saving # Null
  /\ LET u == saving.uri
         tuple == IF saving.cred = Anonymous THEN EmptyTuple
                  ELSE [cred |-> saving.cred, mounted |-> saving.mount]
         s == [uri |-> u, tuple |-> tuple, iv |-> iv]
     IN /\ strings' = strings \cup {s}
        /\ mounted' = IF tuple.mounted THEN mounted \cup {u} ELSE mounted \ {u}
        /\ map' = [map EXCEPT ![u] = s]
  /\ pref' = strings'
  /\ saving' = Null
  /\ UNCHANGED <<running, credentials, iv, disk, ivDisk, historyVars>>

\* An altered Unmount: does not remove the share from mServerStringMap.
UnmountKeepingMapping(u) ==
  /\ Idle
  /\ IF map[u] \in strings
     THEN /\ strings' = strings \ {map[u]}
          /\ mounted' = mounted \ {u}
          /\ pref' = strings'
          /\ RemoveCredential(u)
     ELSE UNCHANGED <<strings, mounted, pref, credentials>>
  /\ ejected' = (map[u] = Null \/ map[u] \in strings)
  /\ UNCHANGED <<running, map, saving, iv, disk, ivDisk, saved, unsaved>>

\* unmountServer: TRUE for a share it does not know, FALSE for one whose
\* string is not in the set
Unmount(u) ==
  /\ Idle
  /\ IF map[u] \in strings
     THEN /\ strings' = strings \ {map[u]}
          /\ map' = [map EXCEPT ![u] = Null]
          /\ mounted' = mounted \ {u}
          /\ pref' = strings'
          /\ RemoveCredential(u)
     ELSE UNCHANGED <<strings, map, mounted, pref, credentials>>
  /\ ejected' = (map[u] = Null \/ map[u] \in strings)
  /\ UNCHANGED <<running, saving, iv, disk, ivDisk, saved, unsaved>>

\* What apply() has queued is written: saveIv,
WriteIvToDisk ==
  /\ running
  /\ ivDisk # iv
  /\ ivDisk' = iv
  /\ UNCHANGED <<running, memoryVars, disk, historyVars>>

\* An altered WriteToDisk: strings are committed at once.
WriteToDiskAtOnce ==
  /\ running
  /\ disk # pref
  /\ disk' = pref
  /\ UNCHANGED <<running, memoryVars, ivDisk, historyVars>>

\* and the strings, which were queued after it
WriteToDisk ==
  /\ running
  /\ ivDisk = iv
  /\ disk # pref
  /\ disk' = pref
  /\ UNCHANGED <<running, memoryVars, ivDisk, historyVars>>

\* The process is killed.
Kill ==
  /\ running
  /\ running' = FALSE
  /\ strings' = {}
  /\ map' = [u \in Uris |-> Null]
  /\ mounted' = {}
  /\ credentials' = [u \in Uris |-> Anonymous]
  /\ saving' = Null
  /\ pref' = {}
  /\ iv' = Null
  /\ unsaved' = {}
  /\ saved' = IF disk = pref THEN TuplesOf(map) ELSE Null
  /\ UNCHANGED <<disk, ivDisk, ejected>>

-----------------------------------------------------------------------------
Next ==
  \/ Start
  \/ \E kind \in {"add", "update"}, u \in Uris,
        cred \in Credentials \cup {Anonymous}, mount \in BOOLEAN :
          Save(kind, u, cred, mount)
  \/ CheckFails
  \/ EncryptionFails
  \/ CheckSucceeds
  \/ \E u \in Uris : Unmount(u)
  \/ WriteIvToDisk
  \/ WriteToDisk
  \/ Kill

Spec == Init /\ [][Next]_vars

-----------------------------------------------------------------------------
TypeOK ==
  /\ running \in BOOLEAN
  /\ strings \in SUBSET Strings
  /\ map \in [Uris -> Strings \cup {Null}]
  /\ mounted \in SUBSET Uris
  /\ credentials \in [Uris -> Credentials \cup {Anonymous}]
  /\ saving \in Saves \cup {Null}
  /\ pref \in SUBSET Strings
  /\ disk \in SUBSET Strings
  /\ iv \in Ivs \cup {Null}
  /\ ivDisk \in Ivs \cup {Null}
  /\ saved \in [Uris -> Tuples \cup {Null}] \cup {Null}
  /\ unsaved \in SUBSET Uris
  /\ ejected \in BOOLEAN

(***************************************************************************)
(* The roots shown to the user are the shares recorded as mounted: through *)
(* updates, unmounting and restarts mMountedServerSet and                  *)
(* mServerStringMap agree (updateServersData, unmountServer, constructor). *)
(***************************************************************************)
MountedAsRecorded == mounted = MountedIn(map)

(***************************************************************************)
(* unmountServer never returns false, so that ejectRoot never throws       *)
(* "Failed to eject root": the string mapped to a share is in the set.     *)
(***************************************************************************)
UnmountNeverFails == ejected

(***************************************************************************)
(* What libsmbclient is given for a share that is not known dates from a   *)
(* check that is still going on, or from a save whose encryption failed:   *)
(* credentials of refused or unmounted shares are gone (runMountChecker,   *)
(* unmountServer).                                                         *)
(***************************************************************************)
NoOrphanCredentials ==
  \A u \in Uris : credentials[u] # Anonymous =>
    \/ map[u] # Null
    \/ saving # Null /\ saving.uri = u
    \/ u \in unsaved

(***************************************************************************)
(* Whenever the process may be killed, what is on disk can be decrypted    *)
(* with the IV that is there: no string gets there before its IV, and no   *)
(* start makes a new IV beside strings of an old one (loadKey, loadIv,     *)
(* saveIv, encryptServers).                                                *)
(***************************************************************************)
DiskReadable == \A s \in disk : InClear(s) \/ s.iv = ivDisk

Restarts == ~running /\ running'

(***************************************************************************)
(* No share is lost: one that was known and on disk when the process was   *)
(* killed is known after the restart (apply, constructor, encryptServers). *)
(***************************************************************************)
SharesSurvive ==
  [][Restarts /\ saved # Null =>
       \A u \in Uris : saved[u] # Null => map'[u] # Null]_vars

(***************************************************************************)
(* A restart finds the shares as they were saved, when all of it was on    *)
(* disk: "Save the server and credentials to permanent storage."           *)
(* (ShareManager.java:112), "Update the server info." (line 127)           *)
(***************************************************************************)
LoadsWhatWasSaved ==
  [][Restarts /\ saved # Null => TuplesOf(map') = saved]_vars

(***************************************************************************)
(* An expectation that the code does not meet; no run checks it.           *)
(***************************************************************************)

(***************************************************************************)
(* addServer adds only servers that are not there: "Throw an exception if  *)
(* a server with such a uri is already present." (ShareManager.java:113)   *)
(***************************************************************************)
AddsOnlyNewServers ==
  [][saving # Null /\ saving'= Null /\ saving.kind = "add" /\ map' # map
       => map[saving.uri] = Null]_vars
=============================================================================
