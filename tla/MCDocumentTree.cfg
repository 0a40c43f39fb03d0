\* Two threads, other programs, and a folder with a document in it
SPECIFICATION Spec
CONSTANTS
  root = root
  folder = folder
  inside = inside
  Root = root
  Docs <- Nested
  Parent <- NestedParent
  Clients = {c1, c2}
  Null = Null
SYMMETRY Symmetry
INVARIANTS
  DeletesInside
  GrantsRevoked
  CachedExist
