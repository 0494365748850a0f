SPECIFICATION DevicesSpec
CONSTANTS
    Threads = {t1, t2}
    Scanners = {t1}
    Kernels = {"none", "old", "busnum", "descriptors"}
    Addrs = {1, 2, 3}
    Odd = {3}
    Step = 1
    MaxDevs = 4
    MaxHandles = 1
    MaxScans = 2
    MaxErrors = 1
INVARIANTS
  DevicesOK
  ListsOK
  
CHECK_DEADLOCK FALSE
