\* Two threads without spurious wakeups
SPECIFICATION FairSpec
CONSTANTS
  Looper = Looper
  Null = Null
  Unanswered = Unanswered
  Clients = {c1, c2}
  Values = {v1, v2, v3}
  CallNumbers = 2
  PoolSize = 1
  SpuriousWakeups = 0
INVARIANTS
  PooledValuesClear
PROPERTIES
  ImplementsService
  CallsComeBack
