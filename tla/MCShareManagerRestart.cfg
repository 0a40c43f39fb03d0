\* A share that was updated or unmounted, and a restart
SPECIFICATION Spec
CONSTANTS
  Null = Null
  Anonymous = Anonymous
  u1 = u1
  p1 = p1
  i1 = i1
  Uris = {u1}
  Ivs = {i1}
  Credentials = {p1}
PROPERTY LoadsWhatWasSaved
