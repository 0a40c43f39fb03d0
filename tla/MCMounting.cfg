\* One share, two attempts to mount it
SPECIFICATION FairMountingSpec
CONSTANTS
  Null = Null
  Anonymous = Anonymous
  Loader = Loader
  u1 = u1
  p1 = p1
  i1 = i1
  t1 = t1
  t2 = t2
  Uris = {u1}
  Credentials = {p1}
  Ivs = {i1}
  Tasks = {t1, t2}
  AuthStarts = TRUE
CONSTRAINT OneAttemptOrNothingOnDisk
INVARIANTS
  MountedAsRecorded
  UnmountNeverFails
  NoOrphanCredentials
  DiskReadable
  RefusedOnlyIfOvertaken
  MountsCached
PROPERTIES
  SharesSurvive
  DialogsEnd
