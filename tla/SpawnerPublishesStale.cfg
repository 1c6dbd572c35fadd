SPECIFICATION Spec
CONSTANTS
    tui = tui
    None = None
    Proc = {spawner, child, p1}
    Spawner = spawner
    Child = child
    Waiters = {}
    Pollers = {p1}
    CliStops = {}
    ToolStops = {}
    Host <- OwnHosts
    Mortal = {}
    Suspend = FALSE
    SlowSpawn = TRUE
    Misjudges = FALSE
    MaxBeats = 0
CHECK_DEADLOCK FALSE
PROPERTIES SelfReportStands
