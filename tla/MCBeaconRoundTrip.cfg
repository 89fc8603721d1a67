CONSTANTS
    Programs = {"beacon"}
    Widgets = {a, b, c}
    CollectTime = 3
    MinCollect = 1
    Delay = 1
    Threads = {t}
    Timeout = 1
    MaxDepth = 2
    MaxStarts = 2
    MaxQueued = 2
    Words <- WordsToInsert
    MemoryLimits = {4, 6, 20}
    Packets <- PacketsToSend
    Text <- TextToSend
    Parts = 3
    Beacons <- BeaconsToSend
    Stop = Stop
    Step = Step
    RunModes = {RealTime, Fast}
    MaxPicks = 5
    MaxAsks = 3
SPECIFICATION Spec
INVARIANT RoundTrip
CHECK_DEADLOCK FALSE
