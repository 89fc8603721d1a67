CONSTANTS
    f = f
    g = g
    lambda = lambda
    Hooks = {f, g, lambda}
    Plain = {f, g}
    Stopping = {g}
    Nesting = {f}
    Registering = {}
    NestedKinds = {"other", "app"}
    Requests <- SingleShotRequests
    MaxRegistrations = 3
    MaxDepth = 2
SPECIFICATION FairSpec
INVARIANTS TypeOK CalledOnce
PROPERTIES DeliveryEnds
CHECK_DEADLOCK FALSE
