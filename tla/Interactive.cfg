\* zadb shell: the user types while output arrives.
SPECIFICATION Spec
CONSTANTS
  Mode = "interactive"
  DevIds = {1, 2}
  MaxData = 2
  MaxWrites = 2
INVARIANTS
  StreamOK
  PrintedInOrder
  OneReadyPerWrite
CHECK_DEADLOCK FALSE
