\* One host and one job beside others.  Time and inputs are bounded: a deadlock is no error.
CONSTANTS
  Hosts = {desktop}
  Server = server
  Jobs = {j}
  OtherJob = other
  RunsKept = 1
  Period = 2
  MaxTime = 3
  MaxInputs = 3
  MaxFailures = 1
SPECIFICATION FairSpec
CHECK_DEADLOCK FALSE
INVARIANTS
  OneTurnPerJob
  BusyHasATurn
PROPERTIES
  SlotsFireOnce
  
