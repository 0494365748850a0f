\* Two adb devices, nothing fails: two handles in handle_list.
SPECIFICATION Spec
CONSTANTS
  MaxPlugs = 2
  Ports = 2
  Adb = {1, 2}
  MaxOpen = 2
  MaxFaults = 0
INVARIANTS
  TransportLive
  HandlesOK
CHECK_DEADLOCK FALSE
