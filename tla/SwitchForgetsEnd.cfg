CONSTANTS
  Runs = {r1}
  OldRuns = {}
  Claims = FALSE
  Switching = TRUE
  Silence = FALSE
SPECIFICATION WakeSpec
INVARIANT NoEndForgotten
CHECK_DEADLOCK FALSE
