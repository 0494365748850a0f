\* Safety, refinement and liveness of the key queue: plain text, '%', '"',
\* a key event and a read that is dropped.
SPECIFICATION Spec
CONSTANTS
  Reads <- QuotedReads
  MaxReads = 4
  TextSize = 2
INVARIANTS
  QueueOK
PROPERTIES
  UnlinkedFrozen
  ImplementsKeyStream
  KeysMoveOn
CHECK_DEADLOCK FALSE
