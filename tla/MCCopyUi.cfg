CONSTANTS
    c1 = c1
    c2 = c2
    c3 = c3
    Copiers = {c1, c2, c3}
    Callers = {}
SPECIFICATION FairSpec
INVARIANTS TypeOK OneCopyGoesOn CopyingMeansNewsToCome DeletedAfterUse
PROPERTIES StoppedCopiersGo
CHECK_DEADLOCK FALSE
