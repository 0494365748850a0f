\* zadb shell CMD and zadb logcat: three WRITEs of output, some of them empty.
SPECIFICATION Spec
CONSTANTS
  Mode = "command"
  DevIds = {1, 2}
  MaxData = 3
  MaxWrites = 0
INVARIANTS
  TypeOK
  MessagesWhole
  AckedDataKept
PROPERTIES
  
  CloseEndsSession
CHECK_DEADLOCK FALSE
