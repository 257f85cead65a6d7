SPECIFICATION FairSpec
CONSTANTS
  Scripts <- OneScript
  WriteCap = 2
  IoSem = 2
  Ending = {}
CHECK_DEADLOCK FALSE
PROPERTIES KeepsReceiving
