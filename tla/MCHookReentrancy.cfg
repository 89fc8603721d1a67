CONSTANTS
    f = f
    g = g
    Hooks = {f, g}
    Plain = {f, g}
    Stopping = {}
    Nesting = {f}
    Registering = {}
    NestedKinds = {"other", "app", "loop"}
    Requests <- SingleShotRequests
    MaxRegistrations = 2
    MaxDepth = 2
SPECIFICATION Spec
INVARIANTS IteratorsUsable
CHECK_DEADLOCK FALSE
