CONSTANTS
    app = app
    heartbeat = heartbeat
    Senders = {app, heartbeat}
    Sizes <- SomeSizes
    MaxFrameSize <- Megabyte
    MaxSends = 4
    WindowSize = 1
    MsgTypes = {"intent"}
    Priorities = {0, 1, 2, 3}
    HandlerFuncs = {"h", "g"}
    MaxBatch = 4
    Interval = 2
    Timeout = 6
    ShutdownTime = 1
    MaxDelay = 2
    MaxLost = 1
    MaxFlight = 2
SPECIFICATION CoreSpec
CHECK_DEADLOCK FALSE
INVARIANTS
    StreamInStep
    ReceivedInOrder
    ReplayNeedsLag
    UrgentFirst
    AnswersInPlace
    NoFalseAlarm
PROPERTIES
    SentIsReceived
    StoppedIsNoticed
    ShutdownEnds
