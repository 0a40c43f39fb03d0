---------------------- MODULE MountServerActivityProofs ----------------------
(***************************************************************************)
(* Proofs about what the MountServerActivity does: it mounts shares in the *)
(* ShareManager, and it finds servers on the network.                      *)
(*                                                                         *)
(* There are three parts, each with its inductive invariant: ShareManager, *)
(* for any shares, credentials and IVs; Mounting, every step of which is   *)
(* one of the ShareManager or leaves it alone, for any number of attempts; *)
(* and NetworkBrowsing, for any activities, interfaces, ports and servers. *)
(***************************************************************************)
EXTENDS Mounting, NetworkBrowsing, TLAPS

-----------------------------------------------------------------------------
(***************************************************************************)
(* ShareManager                                                            *)
(*                                                                         *)
(* The inductive invariant relates the four copies of a share: its string  *)
(* is in the set (and in the preferences), the set of mounted shares and   *)
(* the credentials agree with the map, and what was on disk when the       *)
(* process was killed is still there.  There is one IV at a time: that of  *)
(* the process is the one on disk as soon as there is one.                 *)
(***************************************************************************)
\* The string of a share is its own, and in the set that apply() was given.
StringsStored ==
  /\ pref = strings
  /\ \A u \in Uris : map[u] # Null => map[u] \in strings /\ map[u].uri = u

\* As long as the process is down, what it had saved is on disk.
SavedOnDisk ==
  ~running /\ saved # Null =>
    \A u \in Uris : saved[u] # Null => \E s \in disk : s.uri = u

\* The process encrypts with the IV on disk, or with one that is queued while
\* nothing encrypted is on disk.
OneIv ==
  /\ running => iv \in Ivs /\ ivDisk \in {Null, iv}
  /\ ~running => strings = {}
  /\ \A s \in strings : InClear(s) \/ s.iv = iv

SharesInv ==
  /\ TypeOK
  /\ OneIv
  /\ DiskReadable
  /\ StringsStored
  /\ MountedAsRecorded
  /\ UnmountNeverFails
  /\ NoOrphanCredentials
  /\ SavedOnDisk

LEMMA RecordsTyped ==
  /\ EmptyTuple \in Tuples
  /\ \A s \in Strings : /\ s.uri \in Uris /\ s.tuple \in Tuples
                        /\ s.tuple.cred \in Credentials \cup {Anonymous}
                        /\ \A i \in Ivs : /\ Encrypted(s, i) \in Strings
                                          /\ InClear(s) => Encrypted(s, i).iv = i
                                          /\ ~InClear(s) => Encrypted(s, i) = s
  /\ Null \notin Strings /\ Null \notin Tuples /\ Null \notin Saves /\ Null \notin Ivs
BY ShareManagerAssumption DEF EmptyTuple, Tuples, Strings, Encrypted, InClear

LEMMA SharesInit == Init => SharesInv
<1> SUFFICES ASSUME Init PROVE SharesInv
  OBVIOUS
<1>1. PICK m \in [Uris -> [cred : Credentials, mounted : {TRUE}] \cup {Null}] :
        /\ saved = m
        /\ disk = {[uri |-> u, tuple |-> m[u], iv |-> Null] :
                     u \in {v \in Uris : m[v] # Null}}
  BY DEF Init
<1>2. m \in [Uris -> Tuples \cup {Null}]
  BY DEF Tuples
<1>3. disk \in SUBSET Strings
  <2>1. \A u \in Uris : m[u] # Null => m[u] \in Tuples
    BY <1>2
  <2>2. \A u \in Uris : m[u] # Null =>
          [uri |-> u, tuple |-> m[u], iv |-> Null] \in Strings
    BY <2>1 DEF Strings
  <2> QED BY <1>1, <2>2
<1>4. TypeOK
  BY <1>1, <1>2, <1>3 DEF Init, TypeOK
<1>5. StringsStored /\ MountedAsRecorded /\ UnmountNeverFails /\ NoOrphanCredentials
  BY DEF Init, StringsStored, MountedAsRecorded, MountedIn, UnmountNeverFails,
         NoOrphanCredentials
<1>6. SavedOnDisk
  <2>1. \A u \in Uris : m[u] # Null =>
          [uri |-> u, tuple |-> m[u], iv |-> Null] \in disk
    BY <1>1
  <2>2. \A u \in Uris : [uri |-> u, tuple |-> m[u], iv |-> Null].uri = u
    OBVIOUS
  <2> QED BY <1>1, <2>1, <2>2 DEF SavedOnDisk
<1>7. OneIv /\ DiskReadable
  BY <1>1 DEF Init, OneIv, DiskReadable, InClear
<1> QED BY <1>4, <1>5, <1>6, <1>7 DEF SharesInv

\* What a constructed map has: a string of every share on disk, its own.
LEMMA MapsTyped ==
  ASSUME NEW set \in SUBSET Strings, NEW m \in MapsFrom(set)
  PROVE  /\ m \in [Uris -> Strings \cup {Null}]
         /\ \A u \in Uris : m[u] # Null => m[u] \in set /\ m[u].uri = u
         /\ \A u \in Uris : (\E s \in set : s.uri = u) => m[u] # Null
         /\ MountedIn(m) \in SUBSET Uris
         /\ CredentialsIn(m) \in [Uris -> Credentials \cup {Anonymous}]
         /\ \A u \in Uris : m[u] = Null => CredentialsIn(m)[u] = Anonymous
<1>1. m \in [Uris -> set \cup {Null}]
  BY DEF MapsFrom
<1>2. \A u \in Uris : m[u] # Null => m[u] \in set /\ m[u] \in Strings /\ m[u].uri = u
  BY <1>1 DEF MapsFrom
<1>3. \A u \in Uris : (\E s \in set : s.uri = u) => m[u] # Null
  BY DEF MapsFrom
<1>4. /\ CredentialsIn(m) \in [Uris -> Credentials \cup {Anonymous}]
      /\ \A u \in Uris : m[u] = Null => CredentialsIn(m)[u] = Anonymous
  BY <1>2, RecordsTyped DEF CredentialsIn
<1> QED BY <1>1, <1>2, <1>3, <1>4 DEF MountedIn

\* Whatever IV is loaded, all that is on disk can be read with it.
LEMMA AllReadable ==
  ASSUME TypeOK, DiskReadable, NEW i \in LoadedIvs
  PROVE  /\ i \in Ivs
         /\ ivDisk \in {Null, i}
         /\ Readable(disk, i) = disk
BY RecordsTyped DEF TypeOK, DiskReadable, LoadedIvs, Readable, InClear

LEMMA StartKeeps ==
  ASSUME SharesInv, Start
  PROVE  SharesInv'
<1> USE DEF SharesInv
<1>1. PICK i \in LoadedIvs :
        /\ iv' = i
        /\ \E m \in MapsFrom(Readable(disk, i)) :
             map' = m /\ mounted' = MountedIn(m) /\ credentials' = CredentialsIn(m)
        /\ \E failed \in SUBSET {s \in disk : InClear(s)} :
             strings' = disk \cup {Encrypted(s, i) : s \in disk \ failed}
  BY DEF Start
<1>2. i \in Ivs /\ ivDisk \in {Null, i} /\ Readable(disk, i) = disk
  BY AllReadable
<1>3. PICK m \in MapsFrom(disk) :
        map' = m /\ mounted' = MountedIn(m) /\ credentials' = CredentialsIn(m)
  BY <1>1, <1>2
<1>4. PICK failed \in SUBSET {s \in disk : InClear(s)} :
        strings' = disk \cup {Encrypted(s, i) : s \in disk \ failed}
  BY <1>1
<1>5. disk \in SUBSET Strings
  BY DEF TypeOK
<1>6. strings' \in SUBSET Strings /\ disk \subseteq strings'
  BY <1>2, <1>4, <1>5, RecordsTyped
<1>7. TypeOK'
  <2>1. /\ map' \in [Uris -> Strings \cup {Null}]
        /\ mounted' \in SUBSET Uris
        /\ credentials' \in [Uris -> Credentials \cup {Anonymous}]
    BY <1>3, <1>5, MapsTyped
  <2> QED BY <1>1, <1>2, <1>5, <1>6, <2>1 DEF Start, TypeOK, historyVars
<1>8. StringsStored'
  BY <1>3, <1>5, <1>6, MapsTyped DEF Start, StringsStored
<1>9. MountedAsRecorded'
  BY <1>3 DEF MountedAsRecorded, MountedIn
<1>10. UnmountNeverFails' /\ SavedOnDisk' /\ DiskReadable'
  BY DEF Start, historyVars, UnmountNeverFails, SavedOnDisk, DiskReadable, InClear
<1>11. NoOrphanCredentials'
  BY <1>3, <1>5, MapsTyped DEF NoOrphanCredentials
<1>12. OneIv'
  <2>1. \A s \in disk : InClear(s) \/ s.iv = i
    BY <1>2, RecordsTyped DEF DiskReadable, InClear
  <2>2. \A s \in strings' : s.iv = Null \/ s.iv = i
    BY <1>2, <1>4, <1>5, <2>1, RecordsTyped DEF InClear
  <2> QED BY <1>1, <1>2, <2>2 DEF Start, OneIv, InClear
<1> QED BY <1>7, <1>8, <1>9, <1>10, <1>11, <1>12

LEMMA SaveKeeps ==
  ASSUME SharesInv, NEW kind \in {"add", "update"}, NEW u \in Uris,
         NEW cred \in Credentials \cup {Anonymous}, NEW mount \in BOOLEAN,
         Save(kind, u, cred, mount)
  PROVE  SharesInv'
<1> USE DEF SharesInv, Save, Idle, PutCredential, historyVars
<1>1. saving' \in Saves /\ saving'.uri = u
  BY DEF Saves
<1>2. TypeOK'
  BY <1>1 DEF TypeOK
<1>3. StringsStored' /\ MountedAsRecorded' /\ UnmountNeverFails' /\ SavedOnDisk'
  BY DEF StringsStored, MountedAsRecorded, MountedIn, UnmountNeverFails, SavedOnDisk
<1>4. NoOrphanCredentials'
  BY <1>1, RecordsTyped DEF NoOrphanCredentials, TypeOK
<1>5. OneIv' /\ DiskReadable'
  BY DEF OneIv, DiskReadable, InClear
<1> QED BY <1>2, <1>3, <1>4, <1>5

LEMMA CheckKeeps ==
  ASSUME SharesInv, CheckFails \/ EncryptionFails \/ CheckSucceeds
  PROVE  SharesInv'
<1> USE DEF SharesInv, RemoveCredential, historyVars
<1>1. saving \in Saves /\ saving.uri \in Uris /\ saving.mount \in BOOLEAN
      /\ saving.cred \in Credentials \cup {Anonymous} /\ running
  BY DEF TypeOK, Saves, CheckFails, EncryptionFails, CheckSucceeds
<1>2. CASE CheckFails
  <2>1. TypeOK'
    BY <1>1, <1>2 DEF CheckFails, TypeOK
  <2>2. StringsStored' /\ MountedAsRecorded' /\ UnmountNeverFails' /\ SavedOnDisk'
    BY <1>2 DEF CheckFails, StringsStored, MountedAsRecorded, MountedIn,
                UnmountNeverFails, SavedOnDisk
  <2>3. NoOrphanCredentials'
    BY <1>1, <1>2 DEF CheckFails, NoOrphanCredentials, TypeOK
  <2>4. OneIv' /\ DiskReadable'
    BY <1>2 DEF CheckFails, OneIv, DiskReadable, InClear
  <2> QED BY <2>1, <2>2, <2>3, <2>4
<1>3. CASE EncryptionFails
  BY <1>3, <1>1 DEF EncryptionFails, TypeOK, StringsStored, MountedAsRecorded,
     MountedIn, UnmountNeverFails, SavedOnDisk, NoOrphanCredentials, OneIv,
     DiskReadable, InClear
<1>4. CASE CheckSucceeds
  <2>1. \E t \in Tuples :
          CheckSucceeds /\ t = IF saving.cred = Anonymous THEN EmptyTuple
                               ELSE [cred |-> saving.cred, mounted |-> saving.mount]
    BY <1>1, <1>4, RecordsTyped DEF Tuples
  <2>2. PICK t \in Tuples, s \in Strings :
          /\ s.uri = saving.uri /\ s.tuple = t /\ s.iv = iv
          /\ strings' = strings \cup {s}
          /\ map' = [map EXCEPT ![saving.uri] = s]
          /\ mounted' = IF t.mounted THEN mounted \cup {saving.uri}
                        ELSE mounted \ {saving.uri}
          /\ pref' = strings' /\ saving' = Null
          /\ UNCHANGED <<running, credentials, iv, disk, ivDisk, saved, unsaved, ejected>>
    <3>1. PICK t \in Tuples :
            CheckSucceeds /\ t = IF saving.cred = Anonymous THEN EmptyTuple
                                 ELSE [cred |-> saving.cred, mounted |-> saving.mount]
      BY <2>1
    <3>2. [uri |-> saving.uri, tuple |-> t, iv |-> iv] \in Strings
      BY <1>1 DEF Strings, TypeOK
    <3> QED BY <3>1, <3>2 DEF CheckSucceeds
  <2>3. TypeOK'
    BY <1>1, <2>2, RecordsTyped DEF TypeOK
  <2>4. StringsStored'
    BY <1>1, <2>2, RecordsTyped DEF TypeOK, StringsStored
  <2>5. MountedAsRecorded'
    BY <1>1, <2>2, RecordsTyped DEF TypeOK, MountedAsRecorded, MountedIn
  <2>6. UnmountNeverFails' /\ SavedOnDisk'
    BY <1>1, <2>2 DEF UnmountNeverFails, SavedOnDisk
  <2>7. NoOrphanCredentials'
    BY <1>1, <2>2, RecordsTyped DEF TypeOK, NoOrphanCredentials
  <2>8. OneIv' /\ DiskReadable'
    BY <1>1, <2>2 DEF OneIv, DiskReadable, InClear
  <2> QED BY <2>3, <2>4, <2>5, <2>6, <2>7, <2>8
<1> QED BY <1>2, <1>3, <1>4

LEMMA UnmountKeeps ==
  ASSUME SharesInv, NEW u \in Uris, Unmount(u)
  PROVE  SharesInv'
<1> USE DEF SharesInv, Unmount, Idle, RemoveCredential
<1>1. TypeOK'
  BY DEF TypeOK
<1>2. StringsStored'
  <2>1. ASSUME NEW v \in Uris, map[u] \in strings, map'[v] # Null
        PROVE  map'[v] \in strings' /\ map'[v].uri = v
    BY <2>1, RecordsTyped DEF StringsStored, TypeOK
  <2> QED BY <2>1 DEF StringsStored
<1>3. MountedAsRecorded'
  BY RecordsTyped DEF TypeOK, MountedAsRecorded, MountedIn
<1>4. UnmountNeverFails'
  BY DEF UnmountNeverFails, StringsStored
<1>5. SavedOnDisk' /\ NoOrphanCredentials'
  BY RecordsTyped DEF SavedOnDisk, NoOrphanCredentials, TypeOK
<1>6. OneIv' /\ DiskReadable'
  BY DEF OneIv, DiskReadable, InClear
<1> QED BY <1>1, <1>2, <1>3, <1>4, <1>5, <1>6

LEMMA DiskKeeps ==
  ASSUME SharesInv, WriteIvToDisk \/ WriteToDisk \/ Kill
  PROVE  SharesInv'
<1> USE DEF SharesInv
<1>1. CASE WriteIvToDisk \/ WriteToDisk
  <2> USE DEF WriteIvToDisk, WriteToDisk, memoryVars, historyVars
  <2>1. running /\ UNCHANGED <<running, memoryVars, historyVars>>
    BY <1>1
  <2>2. TypeOK'
    BY <1>1 DEF TypeOK
  <2>3. StringsStored' /\ MountedAsRecorded' /\ UnmountNeverFails' /\ SavedOnDisk'
        /\ NoOrphanCredentials'
    BY <2>1 DEF StringsStored, MountedAsRecorded, MountedIn, UnmountNeverFails,
                SavedOnDisk, NoOrphanCredentials
  <2>4. OneIv'
    BY <1>1 DEF OneIv, InClear
  <2>5. DiskReadable'
    BY <1>1, RecordsTyped DEF TypeOK, OneIv, DiskReadable, StringsStored, InClear
  <2> QED BY <2>2, <2>3, <2>4, <2>5
<1>2. CASE Kill
  <2>1. saved' = Null \/ (disk = pref /\ saved' = TuplesOf(map))
    BY <1>2 DEF Kill
  <2>2. TuplesOf(map) \in [Uris -> Tuples \cup {Null}]
    BY RecordsTyped DEF TuplesOf, TypeOK
  <2>3. TypeOK'
    BY <1>2, <2>1, <2>2 DEF Kill, TypeOK
  <2>4. SavedOnDisk'
    BY <1>2, <2>1 DEF Kill, SavedOnDisk, TuplesOf, StringsStored
  <2>5. StringsStored' /\ MountedAsRecorded' /\ UnmountNeverFails' /\ NoOrphanCredentials'
    BY <1>2 DEF Kill, StringsStored, MountedAsRecorded, MountedIn,
                UnmountNeverFails, NoOrphanCredentials
  <2>6. OneIv' /\ DiskReadable'
    BY <1>2 DEF Kill, OneIv, DiskReadable, InClear
  <2> QED BY <2>3, <2>4, <2>5, <2>6
<1> QED BY <1>1, <1>2

LEMMA SharesNext == SharesInv /\ [Next]_vars => SharesInv'
<1> SUFFICES ASSUME SharesInv, [Next]_vars PROVE SharesInv'
  OBVIOUS
<1>1. CASE UNCHANGED vars
  BY <1>1 DEF vars, memoryVars, historyVars, SharesInv, TypeOK, StringsStored,
     MountedAsRecorded, MountedIn, UnmountNeverFails, SavedOnDisk,
     NoOrphanCredentials, OneIv, DiskReadable, InClear
<1> QED BY <1>1, StartKeeps, SaveKeeps, CheckKeeps, UnmountKeeps, DiskKeeps DEF Next

THEOREM SharesInvCorrect == Spec => []SharesInv
<1> QED BY SharesInit, SharesNext, PTL DEF Spec

\* The variables have their types.
THEOREM TypeCorrect == Spec => []TypeOK
<1>1. SharesInv => TypeOK
  BY DEF SharesInv
<1> QED BY SharesInvCorrect, <1>1, PTL

\* The roots that are shown are the shares recorded as mounted.
THEOREM RootsCorrect == Spec => []MountedAsRecorded
<1>1. SharesInv => MountedAsRecorded
  BY DEF SharesInv
<1> QED BY SharesInvCorrect, <1>1, PTL

\* ejectRoot never throws: unmountServer never returns false.
THEOREM EjectSucceeds == Spec => []UnmountNeverFails
<1>1. SharesInv => UnmountNeverFails
  BY DEF SharesInv
<1> QED BY SharesInvCorrect, <1>1, PTL

\* Credentials that were refused, or belonged to a share that has been
\* unmounted, are not used any more.
THEOREM CredentialsForgotten == Spec => []NoOrphanCredentials
<1>1. SharesInv => NoOrphanCredentials
  BY DEF SharesInv
<1> QED BY SharesInvCorrect, <1>1, PTL

\* What is on disk can be decrypted with the IV that is there.
THEOREM DiskAlwaysReadable == Spec => []DiskReadable
<1>1. SharesInv => DiskReadable
  BY DEF SharesInv
<1> QED BY SharesInvCorrect, <1>1, PTL

\* A share that was on disk when the process was killed is there after it has
\* been started again.
THEOREM NoShareLost == Spec => SharesSurvive
<1>1. ASSUME SharesInv, [Next]_vars, Restarts, saved # Null, NEW u \in Uris,
             saved[u] # Null
      PROVE  map'[u] # Null
  <2>1. Start
    BY <1>1 DEF Next, vars, Restarts, Save, Idle, CheckFails, EncryptionFails,
                CheckSucceeds, Unmount, WriteIvToDisk, WriteToDisk, Kill
  <2>2. PICK m \in MapsFrom(disk) : map' = m
    BY <1>1, <2>1, AllReadable DEF Start, SharesInv
  <2>3. disk \in SUBSET Strings /\ \E s \in disk : s.uri = u
    BY <1>1 DEF SharesInv, TypeOK, SavedOnDisk, Restarts
  <2> QED BY <2>2, <2>3, MapsTyped
<1>2. SharesInv /\ [Next]_vars =>
        [Restarts /\ saved # Null =>
           \A u \in Uris : saved[u] # Null => map'[u] # Null]_vars
  BY <1>1
<1> QED BY SharesInvCorrect, <1>2, PTL DEF Spec, SharesSurvive

-----------------------------------------------------------------------------
(***************************************************************************)
(* Mounting                                                                *)
(*                                                                         *)
(* What keeps the tasks of one share apart is that a MountServerTask is    *)
(* registered with the TaskManager from tryMount to its callback.          *)
(***************************************************************************)
Mount(t) == attempt[t] # Null /\ attempt[t].kind = "mount" /\ ~In(t, "asking")

AttemptTypes ==
  /\ attempt \in [Tasks -> Attempts \cup {Null}]
  /\ dialogs \in SUBSET Tasks
  /\ registered \in [Uris -> Tasks \cup {Loader, Null}]
  /\ cached \in SUBSET Uris
  /\ overtaken \in SUBSET Tasks

\* TaskManager.mTasks has the tasks of tryMount until they are FINISHED.
MountsRegistered ==
  \A t \in Tasks : Mount(t) => registered[attempt[t].uri] = t

\* The monitor of the ShareManager is held by at most one attempt.
OneSaves ==
  /\ \A t \in Tasks : In(t, "saving") => saving # Null /\ saving.uri = attempt[t].uri
  /\ \A s, t \in Tasks : In(s, "saving") /\ In(t, "saving") => s = t

EndWithProcess == ~running => \A t \in Tasks : attempt[t] = Null

AttemptsInv ==
  /\ AttemptTypes
  /\ MountsRegistered
  /\ OneSaves
  /\ EndWithProcess
  /\ MountsCached
  /\ RefusedOnlyIfOvertaken

LEMMA AttemptTyped ==
  ASSUME NEW a \in Attempts
  PROVE  /\ a.kind \in {"mount", "auth"} /\ a.uri \in Uris /\ a.pin \in BOOLEAN
         /\ a.cred \in Credentials \cup {Anonymous}
         /\ a # Null
BY MountingAssumption DEF Attempts

\* A step to another stage changes the stage of one attempt.
LEMMA StageChange ==
  ASSUME AttemptTypes, NEW t \in Tasks, attempt[t] # Null, NEW stage \in Stages,
         To(t, stage)
  PROVE  /\ attempt' \in [Tasks -> Attempts \cup {Null}]
         /\ attempt'[t].stage = stage /\ attempt'[t].kind = attempt[t].kind
         /\ attempt'[t].uri = attempt[t].uri
         /\ attempt'[t] # Null
         /\ \A s \in Tasks \ {t} : attempt'[s] = attempt[s]
<1> DEFINE a == attempt[t]
           B == BOOLEAN
           C == Credentials \cup {Anonymous}
<1>1. a \in [kind : {"mount", "auth"}, uri : Uris, cred : C, pin : B, stage : Stages]
  BY DEF AttemptTypes, Attempts
<1>2. DEFINE b == [a EXCEPT !.stage = stage]
<1> HIDE DEF B, C, a
<1>3. /\ b \in [kind : {"mount", "auth"}, uri : Uris, cred : C, pin : B, stage : Stages]
      /\ b.stage = stage /\ b.kind = a.kind /\ b.uri = a.uri
  BY <1>1
<1>4. b \in Attempts
  BY <1>3 DEF B, C, Attempts
<1>5. attempt' = [attempt EXCEPT ![t] = b]
  BY DEF To, a
<1> HIDE DEF b
<1>6. /\ attempt' \in [Tasks -> Attempts \cup {Null}]
      /\ attempt'[t] = b
      /\ \A s \in Tasks \ {t} : attempt'[s] = attempt[s]
  BY <1>4, <1>5 DEF AttemptTypes
<1>7. b # Null
  BY <1>4, AttemptTyped
<1> QED BY <1>3, <1>6, <1>7 DEF a

(***************************************************************************)
(* Mounting drives the ShareManager.                                       *)
(***************************************************************************)
LEMMA StepOfShareManager == AttemptTypes /\ [MountingNext]_allVars => [Next]_vars
<1> SUFFICES ASSUME AttemptTypes, MountingNext PROVE Next \/ UNCHANGED vars
  BY DEF allVars
<1>1. CASE StartProcess \/ WriteBehind \/ KillProcess
  BY <1>1 DEF StartProcess, WriteBehind, KillProcess, Next
<1>2. ASSUME NEW u \in Uris, EjectRoot(u) \/ Query(u) \/ Load(u) \/ LoadEnds(u)
      PROVE  Next \/ UNCHANGED vars
  BY <1>2 DEF EjectRoot, Query, Load, LoadEnds, Next
<1>3. ASSUME NEW t \in Tasks, NEW u \in Uris, NEW cred \in Credentials \cup {Anonymous},
             TryMount(t, u, cred) \/ \E pin \in BOOLEAN : TryAuth(t, u, cred, pin)
      PROVE  UNCHANGED vars
  BY <1>3 DEF TryMount, TryAuth
<1>4. ASSUME NEW t \in Tasks, AlreadyMounted(t) \/ RunTask(t) \/ Refuse(t)
      PROVE  UNCHANGED vars
  BY <1>4 DEF AlreadyMounted, RunTask, Refuse
<1>5. ASSUME NEW t \in Tasks, Begin(t)
      PROVE  Next
  <2>1. attempt[t] \in Attempts
    BY <1>5 DEF Begin, In, AttemptTypes
  <2>2. PICK kind \in {"add", "update"} :
          Save(kind, attempt[t].uri, attempt[t].cred, attempt[t].pin)
    BY <1>5 DEF Begin
  <2> QED BY <2>1, <2>2, AttemptTyped DEF Next
<1>6. ASSUME NEW t \in Tasks, SaveEnds(t) \/ Deliver(t) \/ Destroy(t)
      PROVE  Next \/ UNCHANGED vars
  BY <1>6 DEF SaveEnds, SaveFails, SaveSucceeds, Deliver, Destroy, Next
<1> QED BY <1>1, <1>2, <1>3, <1>4, <1>5, <1>6 DEF MountingNext, EnterMonitor

LEMMA MonitorTaken ==
  ASSUME NEW kind \in {"add", "update"}, NEW u \in Uris,
         NEW cred \in Credentials \cup {Anonymous}, NEW mount \in BOOLEAN,
         Save(kind, u, cred, mount)
  PROVE  /\ saving' # Null /\ saving'.uri = u
         /\ running /\ saving = Null /\ UNCHANGED <<running, mounted>>
<1>1. saving' \in Saves
  BY DEF Save, Saves
<1> QED BY <1>1, RecordsTyped DEF Save, Idle

LEMMA AttemptsInit == MountingInit => AttemptsInv
<1> SUFFICES ASSUME MountingInit PROVE AttemptsInv
  OBVIOUS
<1> USE DEF MountingInit, In, Mount
<1> QED BY DEF AttemptsInv, AttemptTypes, MountsRegistered, OneSaves, EndWithProcess,
               MountsCached, RefusedOnlyIfOvertaken

\* Steps that change neither attempts nor what is registered, saved or mounted
\* more, and take nothing out of the cache.
LEMMA AttemptsUntouched ==
  ASSUME AttemptsInv, UNCHANGED <<attempt, saving, overtaken>>,
         running' = running \/ running',
         mounted' \subseteq mounted, cached \subseteq cached',
         cached' \in SUBSET Uris, dialogs' \in SUBSET Tasks,
         registered' \in [Uris -> Tasks \cup {Loader, Null}],
         \A u \in Uris : registered[u] \in Tasks => registered'[u] = registered[u]
  PROVE  AttemptsInv'
<1> USE DEF AttemptsInv, In, Mount
<1>1. AttemptTypes'
  BY DEF AttemptTypes
<1>2. MountsRegistered'
  <2> SUFFICES ASSUME NEW t \in Tasks, Mount(t) PROVE registered'[attempt[t].uri] = t
    BY DEF MountsRegistered
  <2>1. attempt[t].uri \in Uris
    BY AttemptTyped DEF AttemptTypes
  <2> QED BY <2>1 DEF MountsRegistered
<1>3. OneSaves' /\ EndWithProcess'
  BY DEF OneSaves, EndWithProcess
<1>4. MountsCached' /\ RefusedOnlyIfOvertaken'
  BY DEF MountsCached, RefusedOnlyIfOvertaken
<1> QED BY <1>1, <1>2, <1>3, <1>4

LEMMA ProcessKeeps ==
  ASSUME AttemptsInv, StartProcess \/ WriteBehind \/ KillProcess
  PROVE  AttemptsInv'
<1>1. CASE StartProcess
  BY <1>1 DEF StartProcess, Start, mountingVars, In, Mount, AttemptsInv, AttemptTypes,
     MountsRegistered, OneSaves, EndWithProcess, MountsCached, RefusedOnlyIfOvertaken
<1>2. CASE WriteBehind
  BY <1>2, AttemptsUntouched DEF WriteBehind, WriteIvToDisk, WriteToDisk, memoryVars,
     mountingVars, AttemptsInv, AttemptTypes
<1>3. CASE KillProcess
  BY <1>3 DEF KillProcess, Kill, In, Mount, AttemptsInv, AttemptTypes,
     MountsRegistered, OneSaves, EndWithProcess, MountsCached, RefusedOnlyIfOvertaken
<1> QED BY <1>1, <1>2, <1>3

LEMMA ProviderKeeps ==
  ASSUME AttemptsInv, NEW u \in Uris, EjectRoot(u) \/ Query(u) \/ Load(u) \/ LoadEnds(u)
  PROVE  AttemptsInv'
<1> USE DEF AttemptsInv, AttemptTypes
<1>1. CASE EjectRoot(u)
  BY <1>1, AttemptsUntouched DEF EjectRoot, Unmount, mountingVars
<1>2. CASE Query(u)
  BY <1>2, AttemptsUntouched DEF Query, vars, memoryVars
<1>3. CASE Load(u)
  BY <1>3, AttemptsUntouched, MountingAssumption DEF Load, vars, memoryVars
<1>4. CASE LoadEnds(u)
  BY <1>4, AttemptsUntouched, MountingAssumption DEF LoadEnds, vars, memoryVars
<1> QED BY <1>1, <1>2, <1>3, <1>4

LEMMA TryKeeps ==
  ASSUME AttemptsInv, NEW t \in Tasks, NEW u \in Uris,
         NEW cred \in Credentials \cup {Anonymous}, NEW pin \in BOOLEAN,
         TryMount(t, u, cred) \/ TryAuth(t, u, cred, pin)
  PROVE  AttemptsInv'
<1> USE DEF AttemptsInv, vars, memoryVars, historyVars
<1>1. CASE UNCHANGED attempt
  BY <1>1, AttemptsUntouched DEF TryMount, TryAuth, AttemptTypes
<1>2. CASE \E a \in Attempts :
             /\ attempt' = [attempt EXCEPT ![t] = a] /\ attempt[t] = Null
             /\ a.stage = "asking" \/ (a.kind = "auth" /\ a.stage = "queued")
  <2>1. PICK a \in Attempts :
          /\ attempt' = [attempt EXCEPT ![t] = a] /\ attempt[t] = Null
          /\ a.stage = "asking" \/ (a.kind = "auth" /\ a.stage = "queued")
    BY <1>2
  <2>2. /\ running /\ UNCHANGED <<vars, registered, cached, overtaken>>
        /\ dialogs' \in SUBSET Tasks
    BY DEF TryMount, TryAuth, AttemptTypes, MainThreadFree
  <2>3. /\ attempt' \in [Tasks -> Attempts \cup {Null}] /\ attempt'[t] = a
        /\ \A s \in Tasks \ {t} : attempt'[s] = attempt[s]
    BY <2>1 DEF AttemptTypes
  <2>4. AttemptTypes'
    BY <2>2, <2>3 DEF AttemptTypes
  <2>5. \A s \in Tasks : Mount(s)' => s # t /\ Mount(s)
    BY <2>1, <2>3 DEF Mount, In
  <2>6. \A s \in Tasks : In(s, "saving")' => s # t /\ In(s, "saving")
    BY <2>1, <2>3 DEF In
  <2>7. MountsRegistered' /\ MountsCached'
    BY <2>2, <2>3, <2>5 DEF MountsRegistered, MountsCached, Mount
  <2>8. OneSaves' /\ EndWithProcess'
    BY <2>2, <2>3, <2>6 DEF OneSaves, EndWithProcess
  <2>9. RefusedOnlyIfOvertaken'
    BY <2>1, <2>2, <2>3 DEF RefusedOnlyIfOvertaken, In
  <2> QED BY <2>4, <2>7, <2>8, <2>9
<1>3. CASE TryMount(t, u, cred)
  <2> DEFINE a == [kind |-> "mount", uri |-> u, cred |-> cred, pin |-> TRUE, stage |-> "asking"]
  <2>1. a \in Attempts
    BY DEF Attempts, Stages
  <2> QED BY <1>2, <1>3, <2>1 DEF TryMount, Unused
<1>4. CASE TryAuth(t, u, cred, pin) /\ cred # Anonymous
  <2> DEFINE a == [kind |-> "auth", uri |-> u, cred |-> cred, pin |-> pin, stage |-> "queued"]
  <2>1. a \in Attempts
    BY DEF Attempts, Stages
  <2> QED BY <1>2, <1>4, <2>1 DEF TryAuth, Unused
<1> QED BY <1>1, <1>3, <1>4 DEF TryAuth

\* What a step of one attempt to another stage leaves as it was.
LEMMA OthersKeep ==
  ASSUME AttemptsInv, NEW t \in Tasks, attempt[t] # Null, NEW stage \in Stages,
         To(t, stage), running, running'
  PROVE  /\ \A s \in Tasks \ {t} : Mount(s)' <=> Mount(s)
         /\ \A s \in Tasks \ {t}, st \in Stages : In(s, st)' <=> In(s, st)
         /\ \A s \in Tasks : attempt[s] # Null => attempt'[s].uri = attempt[s].uri
         /\ EndWithProcess'
BY StageChange DEF AttemptsInv, Mount, In, EndWithProcess, Stages

LEMMA MonitorKeeps ==
  ASSUME AttemptsInv, NEW t \in Tasks, EnterMonitor(t)
  PROVE  AttemptsInv'
<1> USE DEF AttemptsInv, vars, memoryVars, historyVars, Idle
<1>1. CASE AlreadyMounted(t) \/ (RunTask(t) /\ registered[attempt[t].uri] # Null)
  <2>1. /\ attempt' = [attempt EXCEPT ![t] = Null] /\ UNCHANGED <<vars, registered, overtaken>>
        /\ cached \subseteq cached' /\ cached' \in SUBSET Uris /\ dialogs' \in SUBSET Tasks
    BY <1>1, AttemptTyped DEF AlreadyMounted, RunTask, AttemptTypes, In
  <2> QED BY <2>1 DEF AttemptTypes, MountsRegistered, Mount, In, OneSaves,
                      EndWithProcess, MountsCached, RefusedOnlyIfOvertaken
<1>2. CASE RunTask(t) /\ registered[attempt[t].uri] = Null
  <2> DEFINE u == attempt[t].uri
  <2>1. /\ attempt[t] # Null /\ attempt[t].stage = "asking" /\ u \in Uris /\ u \notin mounted
        /\ To(t, "queued") /\ registered' = [registered EXCEPT ![u] = t]
        /\ cached' = cached \cup {u} /\ dialogs' = dialogs \cup {t}
        /\ UNCHANGED <<vars, overtaken>> /\ running
    BY <1>2, AttemptTyped DEF RunTask, In, AttemptTypes
  <2>2. /\ attempt' \in [Tasks -> Attempts \cup {Null}]
        /\ attempt'[t].stage = "queued" /\ attempt'[t].uri = u /\ attempt'[t] # Null
        /\ \A s \in Tasks \ {t} : attempt'[s] = attempt[s]
    BY <2>1, StageChange DEF Stages
  <2>3. AttemptTypes'
    BY <2>1, <2>2 DEF AttemptTypes
  <2>4. MountsRegistered'
    <3>1. \A s \in Tasks \ {t} : Mount(s) => attempt[s].uri # u /\ attempt[s].uri \in Uris
      BY <1>2, AttemptTyped, MountingAssumption DEF MountsRegistered, Mount, AttemptTypes
    <3>2. registered \in [Uris -> Tasks \cup {Loader, Null}]
      BY DEF AttemptTypes
    <3> QED BY <2>1, <2>2, <3>1, <3>2 DEF MountsRegistered, Mount, In
  <2>5. OneSaves' /\ EndWithProcess'
    BY <2>1, <2>2 DEF OneSaves, EndWithProcess, In
  <2>6. MountsCached' /\ RefusedOnlyIfOvertaken'
    BY <2>1, <2>2 DEF MountsCached, RefusedOnlyIfOvertaken, In
  <2> QED BY <2>3, <2>4, <2>5, <2>6
<1>3. CASE Begin(t) \/ Refuse(t)
  <2>1. PICK stage \in {"saving", "failed"} :
          /\ In(t, "queued") /\ To(t, stage) /\ running /\ saving = Null
          /\ stage = "saving" => saving' # Null /\ saving'.uri = attempt[t].uri
          /\ stage = "failed" => saving' = Null
          /\ UNCHANGED <<running, mounted, dialogs, registered, cached, overtaken>>
    <3>1. attempt[t] \in Attempts
      BY <1>3 DEF Begin, Refuse, In, AttemptTypes
    <3>2. CASE Begin(t)
      <4>1. PICK kind \in {"add", "update"} :
              Save(kind, attempt[t].uri, attempt[t].cred, attempt[t].pin)
        BY <3>2 DEF Begin
      <4>2. /\ saving' # Null /\ saving'.uri = attempt[t].uri
            /\ running /\ saving = Null /\ UNCHANGED <<running, mounted>>
        BY <3>1, <4>1, AttemptTyped, MonitorTaken
      <4> QED BY <3>2, <4>2 DEF Begin
    <3>3. CASE Refuse(t)
      BY <3>3 DEF Refuse
    <3> QED BY <1>3, <3>2, <3>3
  <2>2. /\ attempt' \in [Tasks -> Attempts \cup {Null}]
        /\ attempt'[t].stage = stage /\ attempt'[t].kind = attempt[t].kind
        /\ attempt'[t].uri = attempt[t].uri /\ attempt'[t] # Null
        /\ \A s \in Tasks \ {t} : attempt'[s] = attempt[s]
    BY <2>1, StageChange DEF Stages, In
  <2>3. AttemptTypes'
    BY <2>1, <2>2 DEF AttemptTypes
  <2>4. MountsRegistered' /\ MountsCached'
    BY <2>1, <2>2 DEF MountsRegistered, MountsCached, Mount, In
  <2>5. OneSaves'
    BY <2>1, <2>2 DEF OneSaves, In
  <2>6. EndWithProcess' /\ RefusedOnlyIfOvertaken'
    BY <2>1, <2>2 DEF EndWithProcess, RefusedOnlyIfOvertaken, In
  <2> QED BY <2>3, <2>4, <2>5, <2>6
<1> QED BY <1>1, <1>2, <1>3 DEF EnterMonitor

LEMMA SaveEndKeeps ==
  ASSUME AttemptsInv, NEW t \in Tasks, SaveEnds(t)
  PROVE  AttemptsInv'
<1> USE DEF AttemptsInv
<1>1. PICK stage \in {"succeeded", "failed"} :
        /\ In(t, "saving") /\ To(t, stage) /\ running /\ saving' = Null
        /\ \A u \in mounted' \ mounted : u = saving.uri
        /\ IF stage = "failed"
           THEN mounted' = mounted /\ overtaken' = overtaken
           ELSE overtaken' = IF attempt[t].kind = "auth"
                             THEN overtaken \cup {s \in Tasks : In(s, "queued")
                                                     /\ attempt[s].uri = attempt[t].uri}
                             ELSE overtaken
        /\ UNCHANGED <<running, dialogs, registered, cached>>
  BY DEF SaveEnds, SaveFails, SaveSucceeds, CheckFails, EncryptionFails, CheckSucceeds,
         historyVars
<1>2. /\ attempt' \in [Tasks -> Attempts \cup {Null}]
      /\ attempt'[t].stage = stage /\ attempt'[t].kind = attempt[t].kind
      /\ attempt'[t].uri = attempt[t].uri /\ attempt'[t] # Null
      /\ \A s \in Tasks \ {t} : attempt'[s] = attempt[s]
  BY <1>1, StageChange DEF Stages, In
<1>3. AttemptTypes'
  BY <1>1, <1>2 DEF AttemptTypes
<1>4. MountsRegistered' /\ MountsCached'
  BY <1>1, <1>2 DEF MountsRegistered, MountsCached, Mount, In
<1>5. OneSaves' /\ EndWithProcess'
  BY <1>1, <1>2 DEF OneSaves, EndWithProcess, In
<1>6. RefusedOnlyIfOvertaken'
  <2> SUFFICES ASSUME NEW s \in Tasks, In(s, "queued")', attempt'[s].kind = "mount",
                      attempt'[s].uri \in mounted'
               PROVE  s \in overtaken'
    BY DEF RefusedOnlyIfOvertaken
  <2>1. s # t /\ attempt'[s] = attempt[s] /\ In(s, "queued")
    BY <1>1, <1>2 DEF In
  <2>2. CASE attempt[s].uri \in mounted
    BY <1>1, <2>1, <2>2 DEF RefusedOnlyIfOvertaken
  <2>3. CASE attempt[s].uri \notin mounted
    <3>1. attempt[s].uri = attempt[t].uri
      BY <1>1, <2>1, <2>3 DEF OneSaves
    <3>2. Mount(s) /\ registered[attempt[t].uri] = s
      BY <2>1, <3>1 DEF Mount, In, MountsRegistered
    <3>3. attempt[t].kind # "mount"
      BY <1>1, <2>1, <3>2 DEF Mount, In, MountsRegistered
    <3>4. attempt[t].kind = "auth" /\ stage # "failed"
      BY <1>1, <2>1, <2>3, <3>3, AttemptTyped DEF In, AttemptTypes
    <3> QED BY <1>1, <2>1, <3>1, <3>4
  <2> QED BY <2>2, <2>3
<1> QED BY <1>3, <1>4, <1>5, <1>6

LEMMA DeliverKeeps ==
  ASSUME AttemptsInv, NEW t \in Tasks, Deliver(t)
  PROVE  AttemptsInv'
<1> USE DEF AttemptsInv, vars, memoryVars, historyVars
<1> DEFINE u == attempt[t].uri
<1>1. /\ running /\ attempt' = [attempt EXCEPT ![t] = Null]
      /\ overtaken' = overtaken \ {t} /\ dialogs' = dialogs \ {t}
      /\ UNCHANGED vars
      /\ In(t, "succeeded") \/ In(t, "failed")
  BY DEF Deliver, MainThreadFree
<1>2. /\ attempt' \in [Tasks -> Attempts \cup {Null}] /\ attempt'[t] = Null
      /\ \A s \in Tasks \ {t} : attempt'[s] = attempt[s]
  BY <1>1 DEF AttemptTypes
<1>3. /\ registered' \in [Uris -> Tasks \cup {Loader, Null}]
      /\ cached' \in SUBSET Uris
      /\ \A v \in Uris \ {u} : registered'[v] = registered[v] /\ (v \in cached => v \in cached')
      /\ attempt[t].kind # "mount" => UNCHANGED <<registered, cached>>
  BY DEF Deliver, AttemptTypes
<1>4. AttemptTypes'
  BY <1>1, <1>2, <1>3 DEF AttemptTypes
<1>5. ASSUME NEW s \in Tasks, Mount(s)'
      PROVE  /\ s # t /\ attempt'[s] = attempt[s] /\ Mount(s) /\ attempt[s].uri \in Uris
             /\ attempt[t].kind # "mount" \/ attempt[s].uri # u
  <2>1. s # t /\ attempt'[s] = attempt[s] /\ Mount(s)
    BY <1>2, <1>5 DEF Mount, In
  <2>2. attempt[t].kind = "mount" => Mount(t)
    BY <1>1 DEF Mount, In
  <2> QED BY <2>1, <2>2, AttemptTyped DEF MountsRegistered, Mount, AttemptTypes
<1>6. MountsRegistered' /\ MountsCached'
  BY <1>3, <1>5 DEF MountsRegistered, MountsCached, Mount
<1>7. OneSaves' /\ EndWithProcess' /\ RefusedOnlyIfOvertaken'
  BY <1>1, <1>2 DEF OneSaves, EndWithProcess, RefusedOnlyIfOvertaken, In
<1> QED BY <1>4, <1>6, <1>7

LEMMA DestroyKeeps ==
  ASSUME AttemptsInv, NEW t \in Tasks, Destroy(t)
  PROVE  AttemptsInv'
BY AttemptsUntouched DEF Destroy, vars, memoryVars, AttemptsInv, AttemptTypes

LEMMA AttemptsNext == AttemptsInv /\ [MountingNext]_allVars => AttemptsInv'
<1> SUFFICES ASSUME AttemptsInv, [MountingNext]_allVars PROVE AttemptsInv'
  OBVIOUS
<1>1. CASE UNCHANGED allVars
  BY <1>1, AttemptsUntouched DEF allVars, vars, memoryVars, mountingVars, AttemptsInv,
     AttemptTypes
<1>2. CASE MountingNext
  <2>1. CASE \E t \in Tasks, u \in Uris, cred \in Credentials \cup {Anonymous} :
               TryMount(t, u, cred) \/ \E pin \in BOOLEAN : TryAuth(t, u, cred, pin)
    BY <2>1, TryKeeps
  <2> QED BY <1>2, <2>1, ProcessKeeps, ProviderKeeps, MonitorKeeps, SaveEndKeeps,
             DeliverKeeps, DestroyKeeps DEF MountingNext
<1> QED BY <1>1, <1>2

(***************************************************************************)
(* The theorems.                                                           *)
(***************************************************************************)
THEOREM AttemptsInvCorrect == MountingSpec => []AttemptsInv
<1> QED BY AttemptsInit, AttemptsNext, PTL DEF MountingSpec

\* The activities and the provider drive the ShareManager as it may be driven,
\* so that every theorem above about the ShareManager holds of Mounting.
THEOREM DrivesShareManager == MountingSpec => Spec
<1>1. MountingInit => Init
  BY DEF MountingInit
<1>2. AttemptsInv => AttemptTypes
  BY DEF AttemptsInv
<1> QED BY <1>1, <1>2, AttemptsInvCorrect, StepOfShareManager, PTL DEF MountingSpec, Spec

\* The variables of Mounting but the serial executor have their types.
THEOREM MountingTypes == MountingSpec => [](TypeOK /\ AttemptTypes)
<1>1. AttemptsInv => AttemptTypes
  BY DEF AttemptsInv
<1> QED BY <1>1, AttemptsInvCorrect, DrivesShareManager, TypeCorrect, PTL

\* Tasks of tryMount never race for a share: addServer refuses one only if an
\* AuthorizationTask was faster.
THEOREM MountsNeverRace == MountingSpec => []RefusedOnlyIfOvertaken
<1>1. AttemptsInv => RefusedOnlyIfOvertaken
  BY DEF AttemptsInv
<1> QED BY <1>1, AttemptsInvCorrect, PTL

\* The metadata of a share stays in the cache while its task is under way.
THEOREM MountsStayCached == MountingSpec => []MountsCached
<1>1. AttemptsInv => MountsCached
  BY DEF AttemptsInv
<1> QED BY <1>1, AttemptsInvCorrect, PTL

-----------------------------------------------------------------------------
(***************************************************************************)
(* NetworkBrowsing                                                         *)
(*                                                                         *)
(* An answer has the number of the query that it answers, so that a query  *)
(* can only take those to a query of its number: its own, or, when there   *)
(* are more activities, the one of another activity to the same interface. *)
(***************************************************************************)

\* Each answer that is under way was given, to a query with its number.
AnswersGiven ==
  \A m \in answers : m.server \in answered[m.query] /\ m.id = TransId(m.query)

\* What a query has taken for an answer to it was an answer to a query with
\* the same number.
NumbersAgree ==
  \A q \in Queries : \A s \in heard[q] :
    \E p \in Queries : TransId(p) = TransId(q) /\ s \in answered[p]

\* An answer to the query that has reached its socket was taken for one.
ArrivedHeard == \A q \in Queries : arrived[q] \subseteq heard[q]

BrowsingInv ==
  /\ BrowsingTypeOK
  /\ AnswersGiven
  /\ NumbersAgree
  /\ ArrivedHeard

LEMMA BrowsingInitKeeps == BrowsingInit => BrowsingInv
<1> SUFFICES ASSUME BrowsingInit PROVE BrowsingInv
  OBVIOUS
<1>1. BrowsingTypeOK
  BY DEF BrowsingInit, BrowsingTypeOK
<1> QED BY <1>1 DEF BrowsingInit, BrowsingInv, AnswersGiven, NumbersAgree, ArrivedHeard

\* What says something about answers stays true as long as none comes.
LEMMA QuietKeeps ==
  ASSUME AnswersGiven, NumbersAgree, ArrivedHeard,
         UNCHANGED <<heard, answers, answered, arrived>>
  PROVE  AnswersGiven' /\ NumbersAgree' /\ ArrivedHeard'
BY DEF AnswersGiven, NumbersAgree, ArrivedHeard

LEMMA ActivityKeeps ==
  ASSUME BrowsingInv, NEW a \in Activities,
         Create(a) \/ Leave(a) \/ TaskStep(a) \/ DenyAccess(a)
  PROVE  BrowsingInv'
<1> USE DEF BrowsingInv, BrowsingTypeOK, Goto, network
<1>1. CASE Create(a) \/ Leave(a) \/ DenyAccess(a)
  BY <1>1, QuietKeeps DEF Create, Leave, DenyAccess
<1>2. CASE AskMaster(a)
  BY <1>2, QuietKeeps DEF AskMaster
<1>3. CASE Submit(a)
  <2>1. socket' \in [Queries -> [state : {"none", "submitted", "listening", "closed", "failed"},
                                port : Ports \cup {None}]]
    BY <1>3 DEF Submit
  <2> QED BY <1>3, <2>1, QuietKeeps DEF Submit
<1>4. CASE Collect(a)
  <2>1. UNION {heard[<<a, i>>] : i \in Interfaces} \in SUBSET Servers
    <3>1. \A i \in Interfaces : heard[<<a, i>>] \in SUBSET Servers
      BY DEF Queries
    <3> QED BY ONLY <3>1
  <2> QED BY <1>4, <2>1, QuietKeeps DEF Collect
<1>5. CASE BroadcastFails(a) \/ SharesEnd(a) \/ Succeeded(a) \/ Failed(a)
  BY <1>5, QuietKeeps DEF BroadcastFails, SharesEnd, Succeeded, Failed
<1>6. CASE ListShares(a)
  BY <1>6, QuietKeeps DEF ListShares
<1> QED BY <1>1, <1>2, <1>3, <1>4, <1>5, <1>6 DEF TaskStep

LEMMA QueryKeeps ==
  ASSUME BrowsingInv, NEW q \in Queries, QueryStep(q) \/ SocketFails(q)
  PROVE  BrowsingInv'
<1>1. socket' \in [Queries -> [state : {"none", "submitted", "listening", "closed", "failed"},
                              port : Ports \cup {None}]]
  BY DEF QueryStep, Send, Timeout, SocketFails, BrowsingInv, BrowsingTypeOK
<1>2. UNCHANGED <<browser, heard, answers, answered, arrived, crash>>
  BY DEF QueryStep, Send, Timeout, SocketFails
<1> QED BY <1>1, <1>2, QuietKeeps DEF BrowsingInv, BrowsingTypeOK, browser

LEMMA AnswerKeeps ==
  ASSUME BrowsingInv, NEW q \in Queries, NEW s \in Servers, Answer(q, s)
  PROVE  BrowsingInv'
<1> USE DEF BrowsingInv
<1>1. PICK sound \in BOOLEAN :
        answers' = answers \cup
          {[port |-> socket[q].port, id |-> TransId(q), query |-> q, server |-> s,
            sound |-> sound]}
  BY DEF Answer
<1>2. [port |-> socket[q].port, id |-> TransId(q), query |-> q, server |-> s,
       sound |-> sound] \in Message
  BY DEF Answer, Message, TransId, Queries, BrowsingTypeOK
<1>3. /\ answered' \in [Queries -> SUBSET Servers] /\ s \in answered'[q]
      /\ \A p \in Queries : answered[p] \subseteq answered'[p]
  BY DEF Answer, BrowsingTypeOK
<1>4. BrowsingTypeOK'
  BY <1>1, <1>2, <1>3 DEF Answer, browser, BrowsingTypeOK
<1>5. AnswersGiven'
  BY <1>1, <1>3 DEF AnswersGiven, BrowsingTypeOK, Message, TransId
<1>6. NumbersAgree' /\ ArrivedHeard'
  BY <1>3 DEF Answer, NumbersAgree, ArrivedHeard, TransId
<1> QED BY <1>4, <1>5, <1>6

LEMMA LoseKeeps == ASSUME BrowsingInv, Lose PROVE BrowsingInv'
BY DEF Lose, BrowsingInv, BrowsingTypeOK, browser, AnswersGiven, NumbersAgree, ArrivedHeard

LEMMA ReceiveKeeps ==
  ASSUME BrowsingInv, NEW q \in Queries, NEW m \in answers, Receive(q, m)
  PROVE  BrowsingInv'
<1> USE DEF BrowsingInv
<1>1. m \in Message /\ m.server \in Servers /\ m.query \in Queries
  BY DEF BrowsingTypeOK, Message
<1>2. /\ heard' \in [Queries -> SUBSET Servers] /\ arrived' \in [Queries -> SUBSET Servers]
      /\ \A p \in Queries \ {q} : heard'[p] = heard[p] /\ arrived'[p] = arrived[p]
      /\ \A s \in heard'[q] : s \in heard[q] \/ (s = m.server /\ Ours(q, m))
      /\ \A s \in arrived'[q] : s \in arrived[q] \/ (s = m.server /\ m.sound /\ m.query = q)
      /\ heard[q] \subseteq heard'[q]
      /\ m.sound /\ Ours(q, m) => m.server \in heard'[q]
  BY <1>1 DEF Receive, BrowsingTypeOK
<1>3. answers' \subseteq answers
  BY DEF Receive
<1>4. BrowsingTypeOK' /\ AnswersGiven'
  BY <1>2, <1>3 DEF Receive, browser, BrowsingTypeOK, AnswersGiven, TransId
<1>5. NumbersAgree'
  <2> SUFFICES ASSUME NEW p \in Queries, NEW s \in heard'[p]
               PROVE  \E r \in Queries : TransId(r) = TransId(p) /\ s \in answered'[r]
    BY DEF NumbersAgree, TransId
  <2>1. answered' = answered
    BY DEF Receive
  <2>2. CASE s \in heard[p]
    BY <2>1, <2>2 DEF NumbersAgree
  <2>3. CASE s \notin heard[p]
    BY <1>1, <1>2, <2>1, <2>3 DEF AnswersGiven, Ours
  <2> QED BY <2>2, <2>3
<1>6. ArrivedHeard'
  <2>1. m.query = q => Ours(q, m)
    BY DEF AnswersGiven, Ours
  <2> QED BY <1>2, <2>1 DEF ArrivedHeard
<1> QED BY <1>4, <1>5, <1>6

LEMMA BrowsingNextKeeps == BrowsingInv /\ [BrowsingNext]_browsingVars => BrowsingInv'
<1> SUFFICES ASSUME BrowsingInv, [BrowsingNext]_browsingVars PROVE BrowsingInv'
  OBVIOUS
<1>1. CASE UNCHANGED browsingVars
  BY <1>1, QuietKeeps DEF browsingVars, BrowsingInv, BrowsingTypeOK
<1> QED BY <1>1, ActivityKeeps, QueryKeeps, AnswerKeeps, LoseKeeps, ReceiveKeeps
        DEF BrowsingNext

THEOREM BrowsingInvCorrect == BrowsingSpec => []BrowsingInv
<1> QED BY BrowsingInitKeeps, BrowsingNextKeeps, PTL DEF BrowsingSpec

\* The variables of NetworkBrowsing have their types; what is still to be listed
\* is among what was found.
THEOREM BrowsingTypes == BrowsingSpec => []BrowsingTypeOK
<1>1. BrowsingInv => BrowsingTypeOK
  BY DEF BrowsingInv
<1> QED BY <1>1, BrowsingInvCorrect, PTL

\* Whatever is lost, doubled or late, and whatever port it comes to: a server
\* that extractServers takes has answered a query of that number.
THEOREM AnswersHaveNumbers == BrowsingSpec => []NumbersAgree
<1>1. BrowsingInv => NumbersAgree
  BY DEF BrowsingInv
<1> QED BY <1>1, BrowsingInvCorrect, PTL

\* With one MountServerActivity, each NetworkBrowser's numbers are those of its
\* own queries: no late answer to one interface is taken for one of another.
THEOREM AnswersAreOurs ==
  ASSUME \A a, b \in Activities : a = b
  PROVE  BrowsingSpec => []OnlyOurAnswers
<1>1. BrowsingInv => OnlyOurAnswers
  <2>1. \A p, q \in Queries : TransId(p) = TransId(q) => p = q
    BY DEF Queries, TransId
  <2> QED BY <2>1 DEF BrowsingInv, NumbersAgree, OnlyOurAnswers
<1> QED BY <1>1, BrowsingInvCorrect, PTL

\* What getServers returns has every server whose answer came in time to the
\* socket of its query, for any number of interfaces and activities.
THEOREM NoAnswerForgotten == BrowsingSpec => AnswersCollected
<1>1. ASSUME BrowsingInv, [BrowsingNext]_browsingVars, NEW a \in Activities,
             task[a] = "collect", task'[a] = "shares", NEW i \in Interfaces
      PROVE  arrived[<<a, i>>] \subseteq found'[a]
  <2> USE DEF BrowsingInv, BrowsingTypeOK, Goto
  <2>1. task' # task
    BY <1>1
  <2>2. PICK b \in Activities : Create(b) \/ TaskStep(b)
    BY <1>1, <2>1 DEF BrowsingNext, browsingVars, browser, Leave, DenyAccess, QueryStep,
       Send, Timeout, SocketFails, Answer, Receive, Lose
  <2>3. b = a
    BY <1>1, <2>2 DEF Create, TaskStep, AskMaster, Submit, Collect, BroadcastFails,
       ListShares, SharesEnd, Succeeded, Failed
  <2>4. Collect(a)
    BY <1>1, <2>2, <2>3 DEF Create, TaskStep, AskMaster, Submit, BroadcastFails,
       ListShares, SharesEnd, Succeeded, Failed
  <2>5. <<a, i>> \in Queries /\ found'[a] = UNION {heard[<<a, j>>] : j \in Interfaces}
    BY <1>1, <2>4 DEF Collect, Queries
  <2> QED BY <1>1, <2>5 DEF ArrivedHeard
<1>2. BrowsingInv /\ [BrowsingNext]_browsingVars =>
        [\A a \in Activities : task[a] = "collect" /\ task'[a] = "shares" =>
           \A i \in Interfaces : arrived[<<a, i>>] \subseteq found'[a]]_browsingVars
  BY <1>1
<1> QED BY BrowsingInvCorrect, <1>2, PTL DEF BrowsingSpec, AnswersCollected
=============================================================================
