\* One scan of two interfaces with two servers
SPECIFICATION BrowsingFairSpec
CONSTANTS
  a1 = a1
  a2 = a2
  p1 = p1
  p2 = p2
  s1 = s1
  s2 = s2
  None = None
  Activities = {a1}
  InterfaceCount = 2
  Ports = {p1, p2}
  Servers = {s1, s2}
INVARIANTS
  BrowsingTypeOK
  OnlyOurAnswers
PROPERTIES
  AnswersCollected
  ScansEnd
CHECK_DEADLOCK FALSE
