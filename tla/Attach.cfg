\* The users may stop: a deadlock is no error.
CONSTANTS
  MaxOps = 2
  MaxConns = 3
  Paths = 2
  MaxDials = 2
  MaxInputs = 2
  MaxFaults = 1
SPECIFICATION FairSpec
CHECK_DEADLOCK FALSE
INVARIANTS
  ListedIsKept
  NoLeaks

  
  
