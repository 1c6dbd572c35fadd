CONSTANTS
  MaxMsgs = 4
  MaxCommands = 0
  ForceStop = TRUE
SPECIFICATION SessionSpec
PROPERTY LateReturnDiscarded
CHECK_DEADLOCK FALSE
