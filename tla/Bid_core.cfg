SPECIFICATION Spec
CONSTANTS
    poster = poster
    bidder = bidder
    other = other
    job = job
    job2 = job2
    Users = {poster, bidder, other}
    Jobs = {job}
    PosterOf <- OnePoster
    JobNum <- OwnNumber
    NoUser = NoUser
    NoJob = NoJob
    Refusable = {}
    MaxId = 4
    MaxCrashes = 0
    MaxQueue = 3
SYMMETRY Bidders
INVARIANTS
    TypeOK
    ConversationIsBacked
    OneConversationPerChat
    AcceptanceIsComplete
    BidIsListed
    ChatHasTwoParties
PROPERTIES
    ImplementsNegotiation
CHECK_DEADLOCK FALSE
