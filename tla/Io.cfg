SPECIFICATION Spec
CONSTANTS
    Threads = {t1, t2}
    Watched = t1
    Builds = {"used", "absent"}
    Timeouts = {0, 1}
    Reuse = FALSE
    SlowSubmit = FALSE
    MaxTime = 2
    MaxCalls = 2
    MaxErrors = 1
INVARIANTS
  
  TimesOutTruly
  

  
CHECK_DEADLOCK FALSE
