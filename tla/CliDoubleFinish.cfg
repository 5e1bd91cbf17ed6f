\* The user may stop sending: a deadlock is no error.
CONSTANTS
  MaxTurns = 2
  RetryLimit = 0
  MaxInputs = 1
  MaxCards = 0
  MaxFailures = 2
SPECIFICATION Spec
CHECK_DEADLOCK FALSE
PROPERTIES
  PreventDoubleFinish
