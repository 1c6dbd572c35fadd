SPECIFICATION Spec
CONSTANTS
    tui = tui
    None = None
    Proc = {spawner, child, w1, p1, c1}
    Spawner = spawner
    Child = child
    Waiters = {w1}
    Pollers = {p1}
    CliStops = {c1}
    ToolStops = {}
    Host <- OwnHosts
    Mortal = {w1, spawner}
    Suspend = FALSE
    SlowSpawn = TRUE
    Misjudges = TRUE
    MaxBeats = 0
CHECK_DEADLOCK FALSE
INVARIANTS TypeOK FinalAckWasRead KilledAreGone
PROPERTIES LivelyRunsSpared
