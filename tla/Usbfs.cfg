SPECIFICATION Spec
CONSTANTS
    Users = {u1}
    Requests <- MCRequests
    MaxBulk = 2
    MaxIso = 2
    MaxSubmits = 2
INVARIANTS
  TransferOK
  DataInPlace
  CancelTruly
PROPERTIES
  CancelEnds
CHECK_DEADLOCK FALSE
