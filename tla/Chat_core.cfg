SPECIFICATION FairSpec
CONSTANTS
    helpr = helpr
    helpee = helpee
    Users = {helpr, helpee}
    Bidder = helpr
    Bids = 1
    Skews = {0, 2}
    Refusing = TRUE
    MaxMessages = 3
INVARIANTS
    TypeOK
    SenderOrder
    RepliesFollow
    ShownOnce
PROPERTIES
    MessageArrives
CHECK_DEADLOCK FALSE
