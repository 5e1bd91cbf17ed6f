\* The user may stop sending: a deadlock is no error.
CONSTANTS
  MaxTurns = 2
  RetryLimit = 1
  MaxInputs = 1
  MaxCards = 1
  MaxFailures = 2
SPECIFICATION FairSpec
CHECK_DEADLOCK FALSE
INVARIANTS
  TypeOK
  
  NoOrphans
PROPERTIES
  TurnsEndOnce
  StoppedTurnsEnd
