\* An adb device, then an odd one, come and go and one transfer fails; two open
\* devices are the limit.
SPECIFICATION Spec
CONSTANTS
  MaxPlugs = 2
  Ports = 2
  Adb = {1}
  MaxOpen = 2
  MaxFaults = 1
INVARIANTS
  HandlesOK
PROPERTIES
  
  LossReported
CHECK_DEADLOCK FALSE
