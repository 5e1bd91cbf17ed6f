\* One conversation.  Users may stop changing: a deadlock is no error.
CONSTANTS
  Ids = {a}
  Index = Index
  Callers = {k}
  MaxChanges = 2
  MaxFailures = 0
SPECIFICATION Spec
CHECK_DEADLOCK FALSE
PROPERTIES
  NewerShardsStay
