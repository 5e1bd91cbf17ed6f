\* One conversation under fairness, with a quit.  The user may stop sending: a deadlock is no error.
CONSTANTS
  NoTurn = NoTurn
  Conversations = {c1}
  MaxTurns = 2
  MaxCalls = 1
  RetryLimit = 0
  QueueMax = 1
  MaxNotices = 0
  Branching = FALSE
  Quits = TRUE
SPECIFICATION FairSpec
CHECK_DEADLOCK FALSE

  
PROPERTIES
  StoppedTurnsEnd
  QueuedSendsStart
