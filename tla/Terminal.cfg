SPECIFICATION Spec
CONSTANTS
  MaxMsgs = 4
  MaxCommands = 1
  ForceStop = TRUE
  Runs = {r1, r2}
  OldRuns = {r2}
  Claims = TRUE
  Switching = TRUE
  Silence = TRUE
INVARIANTS
  TypeOK
  CalmTurnsAgree
  CalmOnlyLateDropped
  EachInOnePlace
  QueueInOrder
  WakesOnce
  UndisturbedHeeded
PROPERTIES
  BusyNeedsATurn
  ClaimedStaysSilent
  UndisturbedWakes
CHECK_DEADLOCK FALSE
