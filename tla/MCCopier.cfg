CONSTANTS
    c1 = c1
    main = main
    Copiers = {c1}
    Callers = {main}
SPECIFICATION FairSpec
PROPERTIES StopTakesEffect
CHECK_DEADLOCK FALSE
