\* Two open files in all modes but append
SPECIFICATION FairSpec
CONSTANTS
  Handles = {h1, h2}
  Modes = {"r", "rw", "rwt", "w", "wt"}
  Capacity = 2
  Offsets = {0, 1}
  Sizes = {2, 3}
  Writes <- MCWrites
  Contents <- MCContents
  MaxSize = 4
  Null = Null
INVARIANTS
  OffsetTracksPosition
  WritesAreSeen
PROPERTIES
  ImplementsRandomAccess
  CallbacksEnd
