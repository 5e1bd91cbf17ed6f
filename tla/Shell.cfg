\* Three commands.  An agent may stop handing in commands: a deadlock is no error.
CONSTANTS
  MaxCommands = 3
  Dirs = {"d1", "d2"}
  MaxInputs = 2
SPECIFICATION FairSpec
CHECK_DEADLOCK FALSE
INVARIANTS
  NothingIsLeaked
  OneCommandPerShell
  CommandsSeeTheSession
PROPERTIES
  StopIsReported
  CommandsEnd
