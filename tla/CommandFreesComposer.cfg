CONSTANTS
  MaxMsgs = 4
  MaxCommands = 1
  ForceStop = FALSE
SPECIFICATION SessionSpec
INVARIANT NoSecondTurn
CHECK_DEADLOCK FALSE
