CONSTANTS
    f = f
    g = g
    Hooks = {f, g}
    Plain = {f, g}
    Stopping = {g}
    Nesting = {}
    Registering = {}
    NestedKinds = {}
    Requests <- SingleShotRequests
    MaxRegistrations = 2
    MaxDepth = 1
SPECIFICATION Spec
INVARIANTS StopIsHonoured
CHECK_DEADLOCK FALSE
