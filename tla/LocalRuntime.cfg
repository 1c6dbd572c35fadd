SPECIFICATION Spec
CONSTANTS
    ToolA = a
    ToolB = b
    Tools = {a, b}
    Agents <- AgentSets
    MaxTurns = 3
    MaxRounds = 2
    MaxCalls = 2
    Burst = 2
    MinCompress = 2
    LastFull = 2
    MaxAttempts = 2
    DrainAttempts = 4
    Procs = {p, q}
    Nobody = Nobody
    None = None
    Attach = 1
    AttachAgain = 1
    Rounds = 1
    MaxOps = 1
    MaxFaults = 2
    Keys = {1, 2, 3, 4, 5}
    PageSize = 2
    MaxWrites = 2
    Proc = {p1, p2, p3}
    Mortal = {p1, p2}
    Suspend = FALSE
    NoRecord = NoRecord
    Server = {s1, s2}
    First = s1
    Tasks = {t1, t2}
    MaxTime = 2
    MaxActions = 2
    MaxForeign = 1
    Requests = {x}
    MaxSessions = 2
    MaxRuns = 3
    MaxFrames = 4
INVARIANTS
    TypeOK
    RequestsArePaired
    ResultsReachTheModel
    WireCallsAnswered
    BoundaryKeepsPairs
    UsageRecorded
    PlatformSentOnce
    ToolsRunOnce
    ExecRepliesInOrder
    ReplyIsWhole
    EachRowOnce
    NoRowSkipped
    ExclusiveWhileAllLive
    CalmDeletionHolds
    ResultsArrive
    LatestIsCancellable
PROPERTIES
    NoStartAfterAbort
    TurnsAppend
    DrainWaitedOut
    EffectsPrecedeAnswers
    AbortEndsTurn
    OperationsEnd
    DeadHolderNeverWedges
CHECK_DEADLOCK FALSE
