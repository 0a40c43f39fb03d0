# TLA+ models of the Samba documents provider

This directory holds TLA+ specifications of the Samba documents provider in
`smb/`, the TLC configurations that model-check them on small instances, and
proofs, checked by TLAPS, of what they promise for every instance. It is kept
beside the code: `PROJECT.json` names, for every definition, the lines of the
source that it stands for.

    tlc -workers 2 -config MCSambaFile.cfg MCSambaFile     # one run
    tlapm SambaFileProofs.tla                              # one module of proofs

## 1. The system

The repository has two Gradle modules. `app/` is an audio player made from a
template; it does not use `smb/`. `smb/` is an Android *documents provider*: it
shows the shares of SMB servers in the file chooser of Android and serves their
documents to other apps. Java paths below are relative to
`src/smb/src/main/java/com/example/smb/`, C++ paths to `src/smb/src/main/cpp/`.

| component | state | operations | interacts with |
|---|---|---|---|
| message looper (`nativefacade/`) | pool of `MessageValues`, monitors, the message queue | every call of `SmbClient`, `SmbFile`, `SmbDir`, `CredentialCache` | all of the provider calls it; it alone calls the native client |
| document loading (`provider/SambaDocumentsProvider`, `TaskManager`, `document/`, `base/DocumentCursor`) | `DocumentCache`, `DocumentMetadata`, tasks by URI, cursors | `queryDocument`, `queryChildDocuments`, three AsyncTasks, closing a cursor | binder threads, task threads, main thread, other apps by notification |
| share manager (`ShareManager`, `credential_cache/`) | map, sets of strings and of mounted shares, `SharedPreferences`, native credentials | construct, `addServer`, `addOrUpdateServer`, `unmountServer` | checker that asks the server; encryption; libsmbclient asks for credentials |
| mounting and authentication (`mount/MountServerActivity`, `MountServerTask`, `auth/`) | progress dialogs, tasks of the task manager and of the serial executor | `tryMount`, `tryAuth`, `MountServerTask`, `AuthorizationTask` | share manager, whose monitor the main thread waits for; `TaskManager` and `DocumentCache` of the provider |
| encryption (`encryption/`) | key and IV | encrypt, decrypt, create the key, save the IV | key store; preferences, written behind like those of the share manager |
| document tree (`SambaDocumentsProvider`, `DocumentCache`) | the cache, permissions of other apps, the server | create, delete (recursively), rename, move, list | other programs on the server |
| open files, Android O (`SambaFile`, `SambaProxyFileCallback`) | `mOffset`, buffer, position of the descriptor | open in six modes, `onRead`, `onWrite`, `onRelease` | run on the looper thread; reset metadata when done |
| transfers through pipes, before O (`ReadFileTask`, `WriteFileTask`, `ByteBufferPool`) | two tasks per copy, pipes, pool of buffers | open, move bytes, close with or without an error | the app at the other end; the executor of `TaskManager` |
| network browsing (`browsing/`, `mount/MountServerActivity`) | tasks, sockets, transaction numbers | master browser, broadcast, listing shares | UDP, the main thread, `TaskManager` |
| configuration (`SambaConfiguration`, `SambaProviderApplication`) | smb.conf, the user's file, `mConfigurations`, what the client has read | start, copy, write defaults, network callback | the native client, which is reset |
| native client (`nativefacade/NativeSambaFacade`, `SambaFile`, `SambaDir`, `samba_client/`, `jni_helper/`) | the context, what descriptors stand for, the numbers that objects keep | `reset`, open, use, list, close, calls by path, errno to exceptions | all of the above; runs on the looper thread |
| small parts: `CacheResult` pool, user interface, helpers, demo app, vendored Samba library | | | |

What is hard about it: the provider is called on several binder threads at a
time, tasks work on threads of their own and end on the main thread, and one
looper thread talks to a library that is not thread-safe. Objects are pooled
and shared between these threads. Servers fail at any call, other programs
change what has been cached, apps leave at any time, Android kills the process,
and datagrams are lost, doubled and late. What each component has to keep in
spite of that:

* looper: one user per pooled object, no lost wakeup, each call gets its own
  outcome, all calls come back;
* loading: one update of a document at a time, which ends; cursors that wait
  are notified;
* shares: the sets agree with the map, credentials of unknown shares are
  forgotten, ejecting works, nothing is lost in a restart, and what is on disk can be
  decrypted by the process that reads it;
* mounting: attempts do not disturb one another, although asking and adding are two
  steps; dialogs end, although the main thread waits for a check;
* tree: permissions and metadata end with their documents, as far as the process lives
  to revoke and remove them;
* native client: an object reaches its own document or fails, across resets and
  closing twice; contexts are freed, and none is used after that;
* open files: random access with correct offsets; metadata is reset;
* transfers: buffers are not mixed up, bytes arrive in order, copies end;
* browsing: only answers to the query count, none is forgotten, scans end;
* configuration: the client follows the file, the file follows the user.

## 2. The modules

| module | models | abstract / detailed |
|---|---|---|
| `SmbOperations` | kinds of calls by how they pass values, and their outcomes | vocabulary |
| `SmbService` | each call is carried out once, in one step between call and return | abstract |
| `SambaMessageLooper` | `BaseClient.enqueue`, `MessageValues`, the handlers, the looper, start-up | implements `SmbService` |
| `DocumentLoading` | queries of one directory, `TaskManager`, AsyncTasks, cursors | |
| `ShareManager` | shares, credentials, encryption with its IV, preferences, kills, restarts | |
| `Mounting` | attempts to mount and to authenticate, dialogs, task manager, cache | composes `ShareManager`, whose `Spec` it implements |
| `DocumentTree` | create, delete, rename, list and the cache | calls are steps, as `SmbService` promises |
| `FileBytes` | bytes of a file: reading and writing at a position | vocabulary |
| `RandomAccess` | requests at offsets, answered with what the file has there | abstract |
| `SambaFile` | open modes, offset and seek, the loops of the callbacks | implements `RandomAccess` |
| `FileTransfer` | tasks, pipes, buffers and the apps that copy | |
| `NetworkBrowsing` | activities, the scan, queries, datagrams | |
| `SambaConfiguration` | smb.conf, the task that writes it, the client | |
| `OpenDocuments` | an object reaches its own document until that is lost or closed | abstract |
| `NativeClient` | contexts, descriptors, objects, `reset` and its failures | implements `OpenDocuments` |

Each detailed module has an `MC…` module and `.cfg` files with its instances, and a
`…Proofs` module; `MountServerActivityProofs` is that of `ShareManager`, `Mounting` and
`NetworkBrowsing`, which meet in the activity. As it extends them all, the last two have
an `Init`, `Next` and `Spec` of their own names (`BrowsingSpec`). `MCShareManager` holds
only the restart of finding 2; the share manager is checked as a part of `Mounting`. Variables carry the names of the fields where there is one, and a comment
otherwise; actions are named after methods. A variable marked *history* is not in
the code: properties need it to speak of the past, and no action reads it.

How state and actions were chosen:

* **SambaMessageLooper.** `enqueue` is cut where other threads may act: taking the
  monitor, `sendMessage`, `wait`, waking up with the monitor, reading, clearing
  and releasing. `synchronized` is the variable `monitor`; `wait` gives it up and
  `waiters` says who waits. `WakeSpuriously` is the return of `Object.wait` without
  a notify, which Java allows. Values are tagged with the call that they belong
  to, so that the outcome of one call in the hands of another one can be seen.
* **DocumentLoading.** One directory is enough because `TaskManager` keys its tasks
  by URI. `PostExecute`, `onCancelled` and the status FINISHED are separate,
  because `runTask` looks at the status. New metadata detaches running tasks,
  which go on with the old object. The listing of the parent is an action, since
  it replaces metadata.
* **ShareManager.** Methods hold the monitor, so that each is one step; only the
  checker, in the middle, makes it two (`Save`, then `CheckFails`,
  `EncryptionFails` or `CheckSucceeds`). `apply()` sets `pref`, `WriteToDisk` is
  later, `Kill` comes at any time. The order in which a HashSet is iterated is a
  choice, and so is whether a string can be encrypted. A string is in the clear or
  `Encrypted` with an IV; it is read back with the IV that the process has loaded. The
  IV and the set of strings are in two preference files, each written behind.
* **Mounting.** It EXTENDS `ShareManager` and calls its actions: `Begin` is `Save`,
  `SaveFails` and `SaveSucceeds` are its ends, which may come much later, while the
  main thread waits in `isShareMounted` (stage "asking"). `tryMount` is cut there, as
  `addServer` asks again. `TaskManager` ignores a task whose share has one under way,
  also one of the provider (`Loader`); authentication waits in `AsyncTask`'s serial
  executor instead. The manifest does not declare `AuthActivity`; `AuthStarts` says
  whether it can be started, and the theorems hold for both. When the result of a task
  comes to an activity that was recreated, dismissing its dialog may end the process:
  that is `KillProcess`. Nothing calls `MountServerTask.cancel`, so `onCancelled` is absent.
* **DocumentTree.** Every call to the server is a step, between which other threads
  and other programs act. The recursion is a stack of frames. Listings of
  libsmbclient have "." and "..", which `buildChildUri` drops: `Entries` is what is left. A rename runs into
  the error that `SambaClient::Rename` always gets, because it drops the new name
  (`samba_client/SambaClient.cc:202`), so what follows a successful one is absent.
  The process may end at any time (`Kill`), and it does when an `unlink` fails
  (`UnlinkFails`): its message formats the int errno with `%s`
  (`samba_client/SambaClient.cc:217`), so that no exception comes of it. A folder that has gone,
  by contrast, is a FileNotFoundException of `openDir` or `rmdir` (`NotFound`). Permissions
  belong to the system and outlive the process; `unrevoked` (history) holds the documents that
  were deleted by a call which the end of the process kept from revoking them.
* **SambaFile.** Callbacks run one after the other, on the looper thread; each part
  of a request is a step, with other programs in between. Contents are sequences
  of bytes. Files opened with "wa" start at an unknown position.
* **NativeClient.** Each call of the looper is a step. `reset` destroys one context and
  makes the next, perhaps at the same address; what open descriptors stood for is lost
  with the old one, while `SambaFile` and `SambaDir` keep their numbers. `libsmbclient`
  does not give a number again before it is closed, as the descriptor table is its own
  and not the context's. `Init` fails in its two ways, and each error of a call has the
  exception that `JniHelper` and `NativeSambaFacade` make of it.
* **FileTransfer.** The app copies from the provider to the provider, which is the
  use that needs two tasks at once.
* **NetworkBrowsing.** Datagrams are a set, which loses, keeps (duplicates) and
  reorders them. A port is given out again when its socket is closed.
* **SambaConfiguration.** A file is a set of lines. Writing is entry by entry, since
  the process may be killed, or the client reset, in between. `syncFromExternal` compares
  two dates (`newer`): the user's file comes with any date, the clock may be set, so that a
  write makes the private file newer or not; a file that is not there has date 0. External
  storage may not be ready at a start (`ready`), which then looks for the user's file in
  the home folder. A reset may fail and leave handler 0, as in `NativeClient`; neither
  `NativeSambaFacade.reset` nor the listener of the task looks at it.

## 3. The runs

All runs check deadlock unless the system may really stop (all transfers are
done, the process has died, no start is left).

| run | shows |
|---|---|
| `looper` | with a spurious wakeup: `MessageValues` have one user each; a thread that waits has its message queued or handled |
| `looper_service` | without: calls return their own outcome, pooled objects are clear, `SmbService` is implemented, all calls come back |
| `loading` | one update at a time, it ends, and the cursor whose own task runs is notified or closed |
| `loading_notified` | *violated*: see finding 1 |
| `mounting` | attempts never race for a share, keep its metadata until they end, and their dialogs end; below them, the sets of the share manager agree with its map, `unmountServer` never fails, no orphan credentials, restarts keep shares and find strings that they can decrypt |
| `shares_restart` | *violated*: see finding 2 |
| `tree` | a deletion stays inside its folder, permissions are revoked with their documents, however deletions overlap, unless the process ends between the two; the cache keeps what is gone only if it was put late |
| `file` | `mOffset` is the position of the descriptor, callbacks work in their place, `RandomAccess` is implemented, metadata is reset, callbacks end |
| `transfer` | buffers have one user, metadata is reset after writes that fail, the copy arrives in order, and two tasks and an app that wait for one another still end |
| `browsing` | only answers to a query are taken for it, none that came in time is lost, the scan and its sockets end |
| `configuration` | a client has read what the file holds; a file of the user that was copied stays, and one that is left uncopied was passed over by its date, by a start that could not see it, or by a copy that was cut short; each write is followed by a reset |
| `native` | across resets, errors and double closes objects reach only their own documents (`OpenDocuments`); contexts are freed, and used afterwards only when an `Init` has failed |

### Bounds

* looper: two threads and three objects with a pool of one, so that objects are
  made, pooled, reused and dropped; two call numbers tell a call from the one
  before. One spurious wakeup is enough to return early and meet a second call.
* loading: two users, two AsyncTask objects (reused once finished) and two files, so
  that one task is ignored for the other and stats are partly loaded.
* mounting: one share, one pair of user name and password beside the anonymous one,
  two attempts and the provider's task. Three actors meet only in the one registration
  of their share, in its monitor and in the serial executor. The constraint
  `OneAttemptOrNothingOnDisk` looks at attempts one by one with all that disk, kills and
  encryption can do, and at two attempts with the provider while nothing has reached
  the disk: an attempt ends with its process, and what is on disk is read by the next
  process only. One IV is enough for `DiskReadable`, which fails as soon as a string
  is on disk while no IV is. Two shares and several attempts are left to the theorems.
* shares_restart: one share, one pair and one IV suffice for the violation.
* tree: a folder with a document in it below the root, two threads. Overlap of
  deletions needs a parent and a child. Other programs act, and the process ends, at any time: with two threads one may
  end it while the other has deleted a document and not yet revoked its permissions.
* file: two open files of one document in the modes r, rw, rwt, w, wt; buffer of 2,
  requests of 2 and 3 bytes at offsets 0 and 1, contents of 0 and 3 bytes, so that
  requests are longer than the buffer and end behind the file. `MaxSize` = 4 bounds
  where writes end.
* transfer: copies, one after the other, of four bytes through buffers of 2, pipes of 1
  and a pool of one: the source is larger than everything between it and the target,
  and the pool is empty, full, or taken by one task while the other one needs a buffer.
  More copies at a time are left to the theorems.
* native: two objects, a file and a directory of two entries, two numbers, two contexts:
  a number and an address can be given again while somebody still has the old one.
* browsing: one activity, two interfaces, two ports, two servers: a late answer to
  one query meets the socket of the other.
* configuration: `MaxStarts` = 3 and `MaxPuts` = 2, over three lines of which two are
  settings: a start that copies, one after a failed copy, one that finds all done.

### Fairness

Fairness is of steps that a thread makes on its own, and weak but for `mounting`:

* looper (`Fairness`): the looper thread, `init` and threads within a call are
  scheduled; nobody has to make a call. A monitor that is free is taken at last:
  at most the looper contends for it.
* loading: task threads and the main thread run. Users need not act.
* file: `WF(Loop)`: a callback goes on, and a write takes at least one byte.
* mounting: weak for the end of a check, since libsmbclient gives up on a silent server.
  Strong for entering the monitor and for delivery: others may take the monitor again
  and again, and the main thread may have other messages, but a monitor that is free
  infinitely often is entered at last, and the main looper is a FIFO, which a user who
  taps cannot overtake for ever. No fairness of users, provider, disk or system.
* transfer: tasks run on a cached thread pool (`TaskManager.java:35`), the
  server answers or fails, an app that stays goes on copying; it may also leave.
* browsing: the task and the query threads run. `receive` times out; that the
  network gets quiet at last is the fairness of `Timeout`.
* configuration: the task goes on. Starts, kills and the user are free.

`tree` and `native` have no liveness properties: every call there may fail at once, and
nothing waits.

## 4. What is proved

TLAPS checks these for all values of the constants, under the assumptions named in
the modules (that `Null` and the like are distinct, that bounds are naturals).

* **SambaMessageLooperProofs.** `TypeInv` adds to the types that a thread has an
  object exactly while it is in a call. `SharingInv` is inductive over it: pool,
  threads and messages use objects exclusively (`Exclusive`), waiting threads hold
  theirs (`WaitersHold`), the monitor belongs to who is inside (`MonitorHeld`), and
  who waits has a message under way (`Awaited`), which is why no wakeup is lost.
  Both hold with any number of spurious wakeups. `AnswerInv` needs there to be none:
  each message belongs to the call that its thread is in, there is one of each, and
  the fields of an object are what the stage of its call demands. From it follow
  `ReturnsOwnAnswer`, `PooledValuesClear` and, step by step, the implementation of
  the safety part of `SmbService` (`ServiceImplemented`).
* **DocumentTreeProofs.** `TreeInv` relates the frames of a recursive deletion to the
  document that it was called for: all of them hold documents inside it, and the
  outermost one has no folder (`Stacks`), so that a frame is left when a folder has been
  deleted. `DeletesInside`, for any tree of any depth, and with it, for any number of
  threads, `GrantsRevoked` and `CachedExist`. `GrantsRevoked` leaves out `unrevoked`, the
  documents deleted by a call that the end of the process cut short; what it would say
  without that exception does not hold (section 5).
* **DocumentLoadingProofs.** `LoadingInv`: a task that was executed and is not
  finished is the registered one (`ExecutedRegistered`), a query
  that has made a task holds it (`MadeTasks`), and a task of stats that is
  attached has a listing to work on (`StatsListed`, needed for the types).
* **MountServerActivityProofs**, of the share manager. `SharesInv`: the string mapped to a
  share is in the set (`StringsStored`, which gives `UnmountNeverFails` and, with what is on disk,
  `SharesSurvive`), with `MountedAsRecorded` and `NoOrphanCredentials`. `DiskReadable`
  needs `OneIv`: all that was ever encrypted, in memory or on disk, was so with the
  one IV there is, which is on disk before any string of it is.
* The same, of mounting. `DrivesShareManager`: every step of `Mounting` is one of
  `ShareManager` or a stutter, so that all of the above holds of the composition, for
  any number of attempts. `AttemptsInv` adds that an attempt to mount that has been
  queued is the registered one (`MountsRegistered`), that the one attempt in "saving" is
  the one the monitor's holder works for (`OneSaves`), and that attempts end with the
  process (`EndWithProcess`). From these follow `RefusedOnlyIfOvertaken` and
  `MountsCached`.
* The same, of browsing. `BrowsingInv`: an answer under way has the number of the query
  that it answers (`AnswersGiven`), so that, whatever port it comes to, what a query takes
  has answered a query of its number (`NumbersAgree`), and an answer to the query itself is
  taken (`ArrivedHeard`). The last one gives `AnswersCollected`; the one before it gives
  `OnlyOurAnswers` for one activity. With two the numbers are no longer the query's own,
  and the invariant does not hold (section 5): the hypothesis of `AnswersAreOurs` cannot go.
* **FileTransferProofs.** `TransferInv`: a task has a buffer from `obtainBuffer` to
  `onPostExecute` (`BuffersHeld`), and the app's stage says which tasks are not started
  (`NotStarted`), so that no task takes a second buffer and no document is opened
  again before its metadata is reset. `BuffersExclusive` and `WritesAreSeen`, also with
  short writes and for any number of copies. `StreamInv`: what is in the target, with the
  writer, in its pipe, in the app's hands, in the other pipe and with the reader are pieces of
  the source, each beginning where the one before ends (`From(k, s)`: s is what the source has
  from k on), as far back as the parties are still at work (`InOrder`); buffers that nobody
  uses are empty (`UnusedEmpty`), which is where one that was not cleared would bring in
  bytes of another copy. It gives `TargetInOrder`, for any source and capacities, and
  assumes `~ShortWrites`, as with them the property does not hold (section 5).
* **NativeClientProofs.** `ContextInv`: the client's context is the only one, and the one
  that was set (`CurrentIsOwn`), unless an `Init` has failed; this gives `ContextsFreed` and
  `SafeUnlessInitFails`. `NumbersInv`: objects that are open have numbers of their own,
  which stand for their documents, so that no call gives away a number that is still
  kept; this gives, step by step, `OpenDocumentsImplemented`.
* **SambaFileProofs.** `FileInv` is the conjunction of the invariants, inductive
  together: the callback works in its place only because the offset is right, and
  the reset of metadata needs to know who has the file open. `RandomAccessImplemented`
  then maps every step to one of `RandomAccess` or a stutter, when no file is
  opened with "wa".
* **SambaConfigurationProofs.** `UnwrittenIsRead` (until a task opens smb.conf for
  writing, the client has read what is in it) gives `ClientFollowsFile`; `CopyInv`
  (what has been printed and what has not are together `mConfigurations`, which a task that
  copies has from the user's file as it is; one that writes the default found no smb.conf, and
  the user's file, if there is one, could not be seen or came later) gives `ExternalIsFollowed`.
  It assumes nothing of dates; what was passed over because of them is in its statement.

Type correctness is a theorem of every module with proofs; the runs of `looper`, `mounting`,
`tree`, `file` and `transfer` do not check it again. So are `ReturnsOwnAnswer` and `CallInPlace`,
on which the implementations of `SmbService` and `RandomAccess` rest.

The proofs assume what the modules name in their ASSUMEs, and what the models take
from outside the code: libsmbclient keeps a number in use until it is closed and
answers EBADF for one whose context has gone; `apply()` writes the edits of one
preference file in their order; the cipher inverts, what this process encrypted it can
decrypt, and the key in the key store outlives the process.

Every invariant and every action property that a passing run checks is a theorem, some under
a hypothesis that is true in the run: no spurious wakeups, no "wa", no short writes, one
activity that browses. Model-checked only are the liveness properties, which are
beyond the prover: `CallsComeBack`, `UpdatesEnd`, `OwnUpdateNotifies`, `DialogsEnd`,
`CallbacksEnd`, `TransfersEnd`, `ScansEnd`, `WrittenIsRead`, and the liveness of `SmbService`.

## 5. Where code and text disagree

Two runs show it and are listed as findings:

1. `LoadingCursorsNotified`: `TaskManager.runTask` ignores a task while an earlier one
   is unfinished, although that one has been cancelled (and will not call back) or
   has notified already. A cursor with EXTRA_LOADING may then never be notified.
2. `LoadsWhatWasSaved`: `updateServersData` leaves the old string of a share in the
   persisted set, and `unmountServer` removes only the mapped one. After a restart old
   credentials, or an unmounted share, may be back.

TLC violates these definitions too; they stand in their modules, and no
run of the list checks them as named here. To see it, put them in place of the properties
of the configuration that is named:

| definition | configuration | what happens |
|---|---|---|
| `ReturnsOwnAnswer` | `MCSambaMessageLooper` | one spurious wakeup ends a call before it was carried out (`nativefacade/BaseClient.java:32`) |
| `ThrowsLastException` | `MCDocumentLoading` | two queries find the exception of the last load; the second one throws null (`cache/DocumentCache.java:47`) |
| `AddsOnlyNewServers` | `MCShareManagerRestart` | `addServer` replaces a server that is stored but not mounted (`ShareManager.java:119`) |
| `NotFoundIsItself` | `MCDocumentTree` | a folder inside that somebody else deleted makes the whole folder count as not found (`provider/SambaDocumentsProvider.java:503`) |
| `PermissionsEndWithDocuments` | `MCDocumentTree` | two threads delete a document: the unlink of one succeeds, that of the other fails and ends the process before the first revokes the permissions (`samba_client/SambaClient.cc:217`, `provider/SambaDocumentsProvider.java:535`) |
| `CreatedIsListed` | `MCDocumentTree` | stale metadata keeps a new document out of the cached listing (line 427) |
| `RenamePassesName` | `MCDocumentTree` | the new name is not given to libsmbclient |
| `CleanEndIsWhole` | `MCFileTransfer` | a failed read looks like the end of the file (`provider/ReadFileTask.java:70`) |
| `TargetInOrder` | `MCFileTransfer` with `ShortWrites = TRUE` | a short write leaves a hole (`provider/WriteFileTask.java:65`) |
| `RefusalsAreSkipped` | `MCNetworkBrowsing` | a server that denies access ends the process (`browsing/NetworkBrowser.java:78`) |
| `FailuresAreHandled` | `MCNetworkBrowsing` | a failed scan gives the activity null (`mount/MountServerActivity.java:112`) |
| `LoadingEnds`, `OnlyOurAnswers` | `MCNetworkBrowsing` with `Activities = {a1, a2}` | a second activity waits for ever; it takes late answers to the first for its own, as both number from 0 |
| `EveryDialogEnds` | `MCMounting` | the dialog of a task that `TaskManager` ignored, or of `tryAuth` without user or password, is never dismissed (`TaskManager.java:44`, `auth/AuthActivity.java:136`) |
| `RecordedAreInUse` | `MCMounting` | a failed check removes the credentials of a share that stays mounted; those of a failed encryption stay (`ShareManager.java:193`, 161) |
| `OnlyEjectedLeave` | `MCMounting` | authentication that does not pin the share unmounts it (`ShareManager.java:167`) |
| `NullIsTheEnd` | `MCNativeClient` | a listing that a reset or an error interrupts counts as the whole folder (`jni_helper/JniHelper.cc:474`) |
| `FailedInitIsReported` | `MCNativeClient` | a client that could not be initialised frees its context twice, or leaves a freed one in use (`samba_client/SambaClient.cc:49`) |
| `FailedDeletionThrows` | `MCNativeClient` | an unlink that fails formats the errno with `%s` and ends the process (`samba_client/SambaClient.cc:217`) |
| `ExternalIsCopied` | `MCSambaConfiguration` | a file of the user with an old date is never copied, nor one that was on storage that was not ready when the default was written (`SambaConfiguration.java:99`, `SambaProviderApplication.java:88`) |
| `WrittenReachesClient` | `MCSambaConfiguration`, as a PROPERTY | a reset that fails after a write leaves no client, and nobody notices (`jni_helper/JniHelper.cc:40`, `nativefacade/NativeSambaFacade.java:57`, `SambaProviderApplication.java:83`) |
| `SMB1Disabled` | `MCSambaConfiguration` | a default smb.conf that was cut short is never written again |

`TransfersEnd` and `ScansEnd` hold up to the death of the process: an
`AuthFailedException` is a SecurityException, which neither the two tasks nor the
scan catch, and the models have that (`crashed`, `crash`).

With `AuthStarts = FALSE`, as the manifest has it, `OnlyEjectedLeave` holds, while
`EveryDialogEnds` and `RecordedAreInUse` are violated still.

## 6. Not modelled

* **Presentation and encoding**: layout of dialogs and rows, the adapter's filter, JSON, URIs,
  packets of NetBIOS, logging; helper classes that hold values. `getSize`, `fstat` and
  `onFsync` change no state. The audio player in `app/` does not use `smb/`.
* **The Samba library.** Most lines of the repository are vendored headers of Samba
  under `cpp/includes`, with binaries in `jniLibs`. The headers declare what nobody here
  calls (RPC structures, error codes), so that there is no behaviour to model; what
  `smb/` uses of libsmbclient is marked external in the map. Of the repository's own
  code under `smb/`, the map names somewhat less than half.
* **What follows a successful rename.** `SambaClient::Rename` passes no new name, and
  libsmbclient refuses (`RenamePassesName`); there is no state after it to model.
* **A stat that is put after a write** (`provider/SambaDocumentsProvider.java:122`). It was loaded
  before the write, and `mWriteFinishedCallback` has reset the metadata in between. To
  show it takes `DocumentLoading` and `SambaFile` in one module; nothing in the code
  orders the two, so that a property could only be violated.
* **Iteration of the children in `LoadChildrenTask.onFinish`** (line 51) while another thread
  changes the map. It is one step of `DocumentLoading` and of `DocumentTree`; whether
  HashMap notices is best effort of the library.
* **The pool of `CacheResult`s**: ten objects, each used within one call of one thread. Its
  limit needs ten threads in the same few lines, and its objects hold no more than
  `DocumentCache.get` returns, which the models have as a value.

Open, if the project grows: `SambaMessageLooper` composed with `NativeClient`, which now meet in the promise of
`SmbService` that calls are carried out one at a time.
