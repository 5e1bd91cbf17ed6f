\* Two conversations, one failing write.  Users may stop changing: a deadlock is no error.
CONSTANTS
  Ids = {a, b}
  Index = Index
  Callers = {k}
  MaxChanges = 3
  MaxFailures = 1
SPECIFICATION FairHSpec
CHECK_DEADLOCK FALSE
INVARIANTS
  CleanIsDurable
PROPERTIES
  OnlyRemovalsLeaveTheIndex
  OwnerReturnsDurable
  ImplementsDurableStore
  ChangesAreWritten
