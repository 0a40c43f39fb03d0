SPECIFICATION FairSpec
CONSTANTS
  Null = Null
  Clients = {c1, c2}
  MaxTasks = 3
  Files = {f1}
PROPERTY LoadingCursorsNotified
