\* Two conversations, with retries.  The user may stop sending: a deadlock is no error.
CONSTANTS
  NoTurn = NoTurn
  Conversations = {c1, c2}
  MaxTurns = 2
  MaxCalls = 1
  RetryLimit = 1
  QueueMax = 1
  MaxNotices = 0
  Branching = FALSE
  Quits = FALSE
SPECIFICATION Spec
SYMMETRY Symmetry
CHECK_DEADLOCK FALSE
INVARIANTS
  
  ParkedHasAWaiter
PROPERTIES
  
  AnswerHitsItsCard
