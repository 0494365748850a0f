SPECIFICATION Spec
CONSTANTS
    Threads = {"t1", "t2"}
    Handles = {"h1", "h2"}
    Users <- MCUsers
    Claimers = {"t1", "t2"}
    Configurers = {"t1", "t2"}
    Readers = {"t2"}
    Kernels = {"none", "active", "all"}
    Interfaces = {0}
    Configs <- MCConfigs
    MaxFaults = 1
    MaxLost = 1
INVARIANTS
  ClaimsOK
  
  
CHECK_DEADLOCK FALSE
