\* Two objects of a file and a directory, two numbers, and contexts that come and go
SPECIFICATION Spec
CONSTANTS
  Null = Null
  x1 = x1
  x2 = x2
  n1 = n1
  n2 = n2
  o1 = o1
  o2 = o2
  d1 = d1
  d2 = d2
  e1 = e1
  e2 = e2
  Contexts = {x1, x2}
  Numbers = {n1, n2}
  Objects = {o1, o2}
  Documents = {d1, d2}
  Folders = {d1}
  Entries = {e1, e2}
INVARIANTS
  TypeOK
  ContextsFreed
  SafeUnlessInitFails
PROPERTIES
  ImplementsOpenDocuments
CHECK_DEADLOCK FALSE
