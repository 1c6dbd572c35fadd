SPECIFICATION Spec
CONSTANTS
    tui = tui
    None = None
    Proc = {spawner, child, w1, p1}
    Spawner = spawner
    Child = child
    Waiters = {w1}
    Pollers = {p1}
    CliStops = {}
    ToolStops = {}
    Host <- OwnHosts
    Mortal = {child}
    Suspend = FALSE
    SlowSpawn = TRUE
    Misjudges = FALSE
    MaxBeats = 1
CHECK_DEADLOCK FALSE
INVARIANTS ToldAfterTheEnd
PROPERTIES DeadRunSettles
