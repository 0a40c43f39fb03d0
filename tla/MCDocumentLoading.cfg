\* Two users and two tasks for a directory of two files
SPECIFICATION FairSpec
CONSTANTS
  Null = Null
  Clients = {c1, c2}
  MaxTasks = 2
  Files = {f1, f2}
INVARIANTS
  TypeOK
  OneUpdateAtATime
PROPERTIES
  UpdatesEnd
  OwnUpdateNotifies
