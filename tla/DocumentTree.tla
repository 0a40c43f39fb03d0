----------------------------- MODULE DocumentTree -----------------------------
(***************************************************************************)
(* How documents are made, deleted, renamed and moved: createDocument,     *)
(* deleteDocument, renameDocument and moveDocument of                      *)
(* SambaDocumentsProvider, which binder threads run at the same time, with *)
(* what they leave in DocumentCache and of the permissions given to other  *)
(* apps.  Each call to the server is one step: SmbService shows what the   *)
(* looper makes of it.  The process may end between any two steps: by the  *)
(* system, or since a failed unlink kills it.  What is on the server and   *)
(* the permissions, which Android keeps, outlive it.                       *)
(*                                                                         *)
(* Root is a directory that the app has open, so that its metadata stays   *)
(* in the cache and LoadChildrenTask lists it; the other documents are     *)
(* below it.  The listings of directories further down are left out.       *)
(***************************************************************************)
EXTENDS Naturals, FiniteSets, Sequences

CONSTANTS
  Docs,    \* the documents there may be below Root
  Root,
  Parent,  \* the directory each of them is in
  Clients, \* the binder threads
  Null

ASSUME DocumentTreeAssumption ==
  /\ Root \notin Docs
  /\ Parent \in [Docs -> Docs \cup {Root}]
  /\ Null \notin Docs \cup {Root}
  /\ \A ds \in SUBSET Docs : ds # Null

Types == {"file", "dir"}

VARIABLES
  tree,     \* what the server has
  cached,   \* the documents with metadata in DocumentCache.mCache
  listed,   \* mChildren of the metadata of Root
  listing,  \* what LoadChildrenTask of Root has read
  finishing,\* LoadChildrenTask of Root has set mChildren and posted its end
  granted,  \* the documents for which another app has a permission
  late,     \* history: cached when the server did not have them any more
  gone,     \* history: removed by another program and not made again
  unrevoked,\* history: deleted by a process that ended before it had revoked
            \* the permissions, and not made again
  pc,       \* where a binder thread is
  doc,      \* the document it was called for
  target,   \* the document that its last call to the server was about
  stack     \* its calls of recursiveDeleteFolder, the innermost first

cacheVars  == <<cached, listed, late>>
taskVars   == <<listing, finishing>>
clientVars == <<pc, doc, target, stack>>
vars == <<tree, cacheVars, taskVars, granted, gone, unrevoked, clientVars>>

IsFolder(p) == IF p = Root THEN TRUE ELSE tree[p] = "dir"

Children(p) == {d \in Docs : Parent[d] = p /\ tree[d] # "none"}

\* An altered Entries: the name ".." counts as a folder inside.
EntriesWithParent(p) ==
  {<<d, tree[d]>> : d \in Children(p)} \cup {<<q, "dir">> : q \in {Parent[p]} \ {Root}}

\* What readDir gives of a folder; buildChildUri drops the names "." and "..".
Entries(p) == {<<d, tree[d]>> : d \in Children(p)}

-----------------------------------------------------------------------------
\* DocumentCache.put, for each document of ds
PutMetadata(ds) ==
  /\ cached' = cached \cup ds
  /\ listed' = IF listed = Null THEN Null
               ELSE listed \cup {d \in ds : Parent[d] = Root}
  /\ late' = (late \ ds) \cup {d \in ds : tree[d] = "none"}

\* An altered RemoveMetadata: does not look at the listing it is in.
RemoveMetadataOnly(d) ==
  /\ cached' = cached
  /\ listed' = IF listed = Null THEN Null ELSE listed \ {d}
  /\ late' = late \ {d}

\* DocumentCache.remove
RemoveMetadata(d) ==
  /\ cached' = cached \ {d}
  /\ listed' = IF listed = Null THEN Null ELSE listed \ {d}
  /\ late' = late \ {d}

-----------------------------------------------------------------------------
Init ==
  /\ tree \in [Docs -> Types \cup {"none"}]
  /\ \A d \in Docs : tree[d] # "none" => IsFolder(Parent[d])
  /\ cached    = {}
  /\ listed    = Null
  /\ listing   = Null
  /\ finishing = FALSE
  /\ granted   = {}
  /\ late      = {}
  /\ gone      = {}
  /\ unrevoked = {}
  /\ pc        = [c \in Clients |-> "idle"]
  /\ doc       = [c \in Clients |-> Null]
  /\ target    = [c \in Clients |-> Null]
  /\ stack     = [c \in Clients |-> <<>>]

Goto(c, l) == pc' = [pc EXCEPT ![c] = l]

Return(c) ==
  /\ Goto(c, "idle")
  /\ doc' = [doc EXCEPT ![c] = Null]
  /\ target' = [target EXCEPT ![c] = Null]
  /\ stack' = [stack EXCEPT ![c] = <<>>]

(***************************************************************************)
(* createDocument                                                          *)
(***************************************************************************)

\* mkdir or createFile, which truncates a file that exists; the parent's
\* folder must be there
Create(c, d, type) ==
  /\ pc[c] = "idle"
  /\ IsFolder(Parent[d])
  /\ tree[d] \in IF type = "dir" THEN {"none"} ELSE {"none", "file"}
  /\ tree' = [tree EXCEPT ![d] = type]
  /\ gone' = gone \ {d}
  /\ unrevoked' = unrevoked \ {d}
  /\ doc' = [doc EXCEPT ![c] = d]
  /\ Goto(c, "created")
  /\ UNCHANGED <<cacheVars, taskVars, granted, target, stack>>

\* It is in the cache: reset() of what is known of it, and nothing more
CreatedHit(c) ==
  /\ pc[c] = "created"
  /\ doc[c] \in cached
  /\ Return(c)
  /\ UNCHANGED <<tree, cacheVars, taskVars, granted, gone, unrevoked>>

CreatedMiss(c) ==
  /\ pc[c] = "created"
  /\ doc[c] \notin cached
  /\ Goto(c, "missed")
  /\ UNCHANGED <<tree, cacheVars, taskVars, granted, doc, target, stack, gone, unrevoked>>

PutCreated(c) ==
  /\ pc[c] = "missed"
  /\ PutMetadata({doc[c]})
  /\ Return(c)
  /\ UNCHANGED <<tree, taskVars, granted, gone, unrevoked>>

(***************************************************************************)
(* deleteDocument.  A frame of the stack has the folder of one call of     *)
(* recursiveDeleteFolder and the children it has yet to delete, as they    *)
(* were when it listed them; the outermost stands for deleteDocument.      *)
(***************************************************************************)

Frame(dir, rest) == [dir |-> dir, rest |-> rest]

\* DocumentMetadata.fromUri
Delete(c, d) ==
  /\ pc[c] = "idle"
  /\ doc' = [doc EXCEPT ![c] = d]
  /\ IF tree[d] = "none"
     THEN /\ Goto(c, "notFound")
          /\ target' = [target EXCEPT ![c] = d]
          /\ UNCHANGED stack
     ELSE /\ Goto(c, "deleting")
          /\ stack' = [stack EXCEPT ![c] = <<Frame(Null, {<<d, tree[d]>>})>>]
          /\ UNCHANGED target
  /\ UNCHANGED <<tree, cacheVars, taskVars, granted, gone, unrevoked>>

Top(c)    == Head(stack[c])
Without(c, e) == <<[Top(c) EXCEPT !.rest = @ \ {e}]>> \o Tail(stack[c])

\* unlink, in deleteFile
Unlink(c, d) ==
  /\ pc[c] = "deleting"
  /\ <<d, "file">> \in Top(c).rest
  /\ tree[d] = "file"
  /\ tree' = [tree EXCEPT ![d] = "none"]
  /\ stack' = [stack EXCEPT ![c] = Without(c, <<d, "file">>)]
  /\ target' = [target EXCEPT ![c] = d]
  /\ Goto(c, "forget")
  /\ UNCHANGED <<cacheVars, taskVars, granted, doc, gone, unrevoked>>

\* loadChildren, in a call of recursiveDeleteFolder
OpenFolder(c, d) ==
  /\ pc[c] = "deleting"
  /\ <<d, "dir">> \in Top(c).rest
  /\ tree[d] = "dir"
  /\ stack' = [stack EXCEPT ![c] = <<Frame(d, Entries(d))>> \o Without(c, <<d, "dir">>)]
  /\ UNCHANGED <<tree, cacheVars, taskVars, granted, pc, doc, target, gone, unrevoked>>

\* rmdir, once the children of the folder are deleted
RemoveFolder(c) ==
  LET d == Top(c).dir IN
  /\ pc[c] = "deleting"
  /\ d # Null
  /\ Top(c).rest = {}
  /\ tree[d] = "dir"
  /\ Children(d) = {}
  /\ tree' = [tree EXCEPT ![d] = "none"]
  /\ stack' = [stack EXCEPT ![c] = Tail(@)]
  /\ target' = [target EXCEPT ![c] = d]
  /\ Goto(c, "forget")
  /\ UNCHANGED <<cacheVars, taskVars, granted, doc, gone, unrevoked>>

\* An altered Forget: keeps the permission.
ForgetUnrevoked(c) ==
  /\ pc[c] = "forget"
  /\ RemoveMetadata(target[c])
  /\ Goto(c, "deleting")
  /\ UNCHANGED <<tree, taskVars, granted, doc, target, stack, gone, unrevoked>>

\* mCache.remove and revokeDocumentPermission
Forget(c) ==
  /\ pc[c] = "forget"
  /\ RemoveMetadata(target[c])
  /\ granted' = granted \ {target[c]}
  /\ Goto(c, "deleting")
  /\ UNCHANGED <<tree, taskVars, doc, target, stack, gone, unrevoked>>

Deleted(c) ==
  /\ pc[c] = "deleting"
  /\ stack[c] = <<Frame(Null, {})>>
  /\ Return(c)
  /\ UNCHANGED <<tree, cacheVars, taskVars, granted, gone, unrevoked>>

\* The documents that the next call to the server may be about: openDir or
\* rmdir, or unlink
Folders(c) ==
  IF Top(c).rest = {} THEN {Top(c).dir} \ {Null} ELSE {d \in Docs : <<d, "dir">> \in Top(c).rest}

Files(c) == {d \in Docs : <<d, "file">> \in Top(c).rest}

\* openDir or rmdir: FileNotFoundException, whatever folder it was about
NotFound(c) ==
  /\ pc[c] = "deleting"
  /\ \E d \in Folders(c) :
       /\ tree[d] = "none"
       /\ target' = [target EXCEPT ![c] = d]
  /\ stack' = [stack EXCEPT ![c] = <<>>]
  /\ Goto(c, "notFound")
  /\ UNCHANGED <<tree, cacheVars, taskVars, granted, doc, gone, unrevoked>>

\* ... which deleteDocument catches
NoNeedToDelete(c) ==
  /\ pc[c] = "notFound"
  /\ RemoveMetadata(doc[c])
  /\ Return(c)
  /\ UNCHANGED <<tree, taskVars, granted, gone, unrevoked>>

\* Any other exception.  Of a folder: no access, not empty, of another type by
\* now, no answer.  Of a file: only that the native client is not initialised,
\* which checkNativeHandler finds before it calls unlink
Fail(c) ==
  /\ pc[c] = "deleting"
  /\ Folders(c) \cup Files(c) # {}
  /\ Return(c)
  /\ UNCHANGED <<tree, cacheVars, taskVars, granted, gone, unrevoked>>

\* A thread has deleted d and is about to forget it.
BeingForgotten(d) == \E c \in Clients : pc[c] = "forget" /\ target[c] = d

\* What is in memory is lost, and the calls of all threads with it.
ProcessEnds ==
  /\ unrevoked' = unrevoked \cup {d \in Docs : tree[d] = "none" /\ BeingForgotten(d)}
  /\ cached' = {} /\ listed' = Null /\ late' = {}
  /\ listing' = Null /\ finishing' = FALSE
  /\ pc' = [c \in Clients |-> "idle"]
  /\ doc' = [c \in Clients |-> Null]
  /\ target' = [c \in Clients |-> Null]
  /\ stack' = [c \in Clients |-> <<>>]
  /\ UNCHANGED <<tree, granted, gone>>

\* SambaClient::Unlink formats the errno, whatever it is, with %s: a document
\* that has gone, no access, of another type by now, no answer
UnlinkFails(c) ==
  /\ pc[c] = "deleting"
  /\ Files(c) # {}
  /\ ProcessEnds

(***************************************************************************)
(* renameDocument, in the same folder, and moveDocument.  SambaClient does *)
(* not pass the new name on, and smbc_rename refuses without one.          *)
(***************************************************************************)

SmbcRename(url, nurl) ==
  IF nurl = Null THEN {"EINVAL"}
  ELSE IF tree[url] = "none" \/ ~IsFolder(Parent[nurl]) THEN {"ENOENT"}
  ELSE {"success", "EEXIST", "EACCES"}

SambaClientRename(url, nurl) == SmbcRename(url, Null)

Rename(c, d, new) ==
  /\ pc[c] = "idle"
  /\ new # d
  /\ \E err \in SambaClientRename(d, new) \ {"success"} : Goto(c, err)
  /\ UNCHANGED <<tree, cacheVars, taskVars, granted, doc, target, stack, gone, unrevoked>>

\* The exception leaves the provider
Refused(c) ==
  /\ pc[c] \in {"EINVAL", "ENOENT", "EEXIST", "EACCES"}
  /\ Return(c)
  /\ UNCHANGED <<tree, cacheVars, taskVars, granted, gone, unrevoked>>

(***************************************************************************)
(* LoadChildrenTask of Root; TaskManager runs one at a time.               *)
(***************************************************************************)

\* openDir and readDir ...
ReadDir ==
  /\ listing = Null
  /\ ~finishing
  /\ listing' = Children(Root)
  /\ UNCHANGED <<tree, cacheVars, finishing, granted, clientVars, gone, unrevoked>>

\* ... mChildren.set ...
SetChildren ==
  /\ listing # Null
  /\ listed' = listing
  /\ listing' = Null
  /\ finishing' = TRUE
  /\ UNCHANGED <<tree, cached, late, granted, clientVars, gone, unrevoked>>

\* ... and onFinish, on the main thread: it puts what mChildren has by now
FinishListing ==
  /\ finishing
  /\ PutMetadata(listed)
  /\ finishing' = FALSE
  /\ UNCHANGED <<tree, listing, granted, clientVars, gone, unrevoked>>

(***************************************************************************)
(* Around the provider: an app gets a permission for a document, and other *)
(* programs create and delete on the server.                               *)
(***************************************************************************)

Grant(d) ==
  /\ tree[d] # "none"
  /\ granted' = granted \cup {d}
  /\ UNCHANGED <<tree, cacheVars, taskVars, clientVars, gone, unrevoked>>

\* The system ends the process.
Kill == ProcessEnds

OtherProgram(d, type) ==
  /\ IF type = "none" THEN tree[d] # "none" /\ Children(d) = {} ELSE tree[d] = "none" /\ IsFolder(Parent[d])
  /\ tree' = [tree EXCEPT ![d] = type]
  /\ gone' = IF type = "none" THEN gone \cup {d} ELSE gone \ {d}
  /\ unrevoked' = unrevoked \ {d}
  /\ UNCHANGED <<cacheVars, taskVars, granted, clientVars>>

-----------------------------------------------------------------------------
CreateStep(c) == CreatedHit(c) \/ CreatedMiss(c) \/ PutCreated(c)

DeleteStep(c) ==
  \/ \E d \in Docs : Unlink(c, d) \/ OpenFolder(c, d)
  \/ RemoveFolder(c) \/ Forget(c) \/ Deleted(c)
  \/ NotFound(c) \/ NoNeedToDelete(c) \/ Fail(c) \/ UnlinkFails(c)

ClientStep(c) == CreateStep(c) \/ DeleteStep(c) \/ Refused(c)

Next ==
  \/ \E c \in Clients :
       \/ \E d \in Docs : \/ \E type \in Types : Create(c, d, type)
                          \/ Delete(c, d)
                          \/ \E new \in Docs : Rename(c, d, new)
       \/ ClientStep(c)
  \/ ReadDir \/ SetChildren \/ FinishListing
  \/ \E d \in Docs : \/ Grant(d)
                     \/ \E type \in Types \cup {"none"} : OtherProgram(d, type)
  \/ Kill

Spec == Init /\ [][Next]_vars

-----------------------------------------------------------------------------
PCs == {"idle", "created", "missed", "deleting", "forget", "notFound",
        "EINVAL", "ENOENT", "EEXIST", "EACCES"}

Frames == [dir : Docs \cup {Null}, rest : SUBSET (Docs \X Types)]

TypeOK ==
  /\ tree \in [Docs -> Types \cup {"none"}]
  /\ cached \in SUBSET Docs
  /\ listed = Null \/ listed \in SUBSET Docs
  /\ listing = Null \/ listing \in SUBSET Docs
  /\ finishing \in BOOLEAN
  /\ finishing => listed # Null
  /\ granted \in SUBSET Docs
  /\ late \in SUBSET Docs
  /\ gone \in SUBSET Docs
  /\ unrevoked \in SUBSET Docs
  /\ pc \in [Clients -> PCs]
  /\ doc \in [Clients -> Docs \cup {Null}]
  /\ target \in [Clients -> Docs \cup {Null}]
  /\ stack \in [Clients -> Seq(Frames)]

(***************************************************************************)
(* No permission outlives a document that the provider deletes, neither    *)
(* that of what is inside a folder nor when the deletion fails half way    *)
(* (recursiveDeleteFolder, deleteFile), whatever other threads do.  There  *)
(* are two exceptions: what other programs remove, and what was deleted by *)
(* a thread whose process ended before it came to                          *)
(* revokeDocumentPermission, by the system or by the failed unlink of      *)
(* another thread.                                                         *)
(***************************************************************************)
GrantsRevoked ==
  \A d \in granted :
    tree[d] = "none" => BeingForgotten(d) \/ d \in gone \/ d \in unrevoked

(***************************************************************************)
(* What the cache knows exists, unless it has just been deleted, or was    *)
(* put when that had happened already: by a listing that was read before   *)
(* the deletion, or by the createDocument that had made it; or unless      *)
(* another program removed it.                                             *)
(***************************************************************************)
CachedExist ==
  \A d \in cached :
    tree[d] = "none" => d \in late \/ BeingForgotten(d) \/ d \in gone

\* d and all that is below it: what every set has that has d and, of each of
\* its folders, what is in it
Inside(d) ==
  {x \in Docs : \A ds \in SUBSET Docs :
     d \in ds /\ (\A y \in Docs : Parent[y] \in ds => y \in ds) => x \in ds}

(***************************************************************************)
(* However deep the recursion of recursiveDeleteFolder, whatever others    *)
(* make, remove and put in the place of what it has listed, and although   *)
(* folders list themselves and the folder they are in (buildChildUri),     *)
(* deleteDocument deletes nothing but the document and what is inside.     *)
(***************************************************************************)
DeletesInside == \A c \in Clients : pc[c] = "forget" => target[c] \in Inside(doc[c])

(***************************************************************************)
(* Expectations that the code does not meet; no run checks them.           *)
(***************************************************************************)

(***************************************************************************)
(* What the provider deletes loses its permissions, since deleteFile and   *)
(* recursiveDeleteFolder revoke them (SambaDocumentsProvider.java:528,     *)
(* 535): it is other programs only that leave some behind.  (It fails: the *)
(* unlink of another thread may end the process, SambaClient.cc:217.)      *)
(***************************************************************************)
PermissionsEndWithDocuments ==
  \A d \in granted : tree[d] = "none" => BeingForgotten(d) \/ d \in gone

(***************************************************************************)
(* When deleteDocument says "is not found. No need to delete it."          *)
(* (SambaDocumentsProvider.java:504), it is the document itself that was   *)
(* not found.                                                              *)
(***************************************************************************)
NotFoundIsItself == \A c \in Clients : pc[c] = "notFound" => target[c] = doc[c]

(***************************************************************************)
(* When createDocument has returned, the listing of the folder has the new *)
(* document: "No need to update the cache anymore."                        *)
(* (SambaDocumentsProvider.java:431)                                       *)
(***************************************************************************)
CreatedIsListed ==
  [][\A c \in Clients :
       LET d == doc[c] IN
       pc[c] \in {"created", "missed"} /\ pc'[c] = "idle" /\ Parent[d] = Root =>
         listed' = Null \/ d \in listed']_vars

(***************************************************************************)
(* The server is given the new name, "The new smb url (destination url) of *)
(* the file or directory after the move" (libsmbclient.h:1439): a rename   *)
(* is never refused for want of one.                                       *)
(***************************************************************************)
RenamePassesName == \A c \in Clients : pc[c] # "EINVAL"
=============================================================================
