\* One conversation, branching and notices.  The user may stop sending: a deadlock is no error.
CONSTANTS
  NoTurn = NoTurn
  Conversations = {c1}
  MaxTurns = 2
  MaxCalls = 0
  RetryLimit = 0
  QueueMax = 1
  MaxNotices = 1
  Branching = TRUE
  Quits = FALSE
SPECIFICATION Spec
CHECK_DEADLOCK FALSE
INVARIANTS
  RegisteredIsDriven
  OneReplyPerTurn
PROPERTIES
  SealedOnce
