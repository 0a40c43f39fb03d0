\* Starts of the process with files, kills and full disks at any time
SPECIFICATION FairSpec
CONSTANTS
  order = order
  minimum = minimum
  comment = comment
  Lines <- MCLines
  Settings <- MCSettings
  Default <- MCSettings
  MinProtocol = minimum
  MaxStarts = 3
  MaxPuts = 2
INVARIANTS
  TypeOK
  ClientFollowsFile
  ExternalIsFollowed
PROPERTIES
  WrittenIsRead
CHECK_DEADLOCK FALSE
