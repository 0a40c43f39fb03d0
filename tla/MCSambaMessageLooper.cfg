\* Two threads, and a wakeup that nobody asked for
SPECIFICATION Spec
CONSTANTS
  Looper = Looper
  Null = Null
  Unanswered = Unanswered
  Clients = {c1, c2}
  Values = {v1, v2, v3}
  CallNumbers = 2
  PoolSize = 1
  SpuriousWakeups = 1
SYMMETRY Symmetry
INVARIANTS
  ValuesExclusive
  NoLostWakeup
