CONSTANTS
    N = 6
    Lockers = {l1, l2, l3, l4, l5}
    Jobs = {j1, j2}
SPECIFICATION FairSpec
INVARIANTS TypeOK NoJobOutlivesObject Counted
PROPERTIES DestructorReturns PinsKeepAlive
