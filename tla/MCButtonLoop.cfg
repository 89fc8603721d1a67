CONSTANTS
    Valid = {"move 200"}
    TooFar = {"move 20000"}
    Unknown = {"stop"}
SPECIFICATION FairSpec
INVARIANTS TypeOK WindowIsExact NoReplyLeftUnread
PROPERTIES HeldButtonMoves
