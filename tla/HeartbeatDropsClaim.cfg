SPECIFICATION Spec
CONSTANTS
    tui = tui
    None = None
    Proc = {spawner, child, w1, w2}
    Spawner = spawner
    Child = child
    Waiters = {w1, w2}
    Pollers = {}
    CliStops = {}
    ToolStops = {}
    Host <- OneTui
    Mortal = {}
    Suspend = FALSE
    SlowSpawn = FALSE
    Misjudges = FALSE
    MaxBeats = 1
CHECK_DEADLOCK FALSE
INVARIANTS OneClaimant
