SPECIFICATION Spec
CONSTANTS
    tui = tui
    None = None
    Proc = {spawner, child, p1, p2, p3}
    Spawner = spawner
    Child = child
    Waiters = {}
    Pollers = {p1, p2, p3}
    CliStops = {}
    ToolStops = {}
    Host <- OwnHosts
    Mortal = {child, spawner}
    Suspend = FALSE
    SlowSpawn = FALSE
    Misjudges = FALSE
    MaxBeats = 2
CHECK_DEADLOCK FALSE
PROPERTIES ImplementsLifecycle
