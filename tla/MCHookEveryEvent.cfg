CONSTANTS
    f = f
    g = g
    Hooks = {f, g}
    Plain = {f, g}
    Stopping = {}
    Nesting = {}
    Registering = {}
    NestedKinds = {}
    Requests <- AllRequests
    MaxRegistrations = 2
    MaxDepth = 1
SPECIFICATION FairSpec
PROPERTIES FurtherHooksProcessed
CHECK_DEADLOCK FALSE
