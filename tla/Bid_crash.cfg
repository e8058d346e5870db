SPECIFICATION Spec
CONSTANTS
    poster = poster
    bidder = bidder
    other = other
    job = job
    job2 = job2
    Users = {poster, bidder}
    Jobs = {job}
    PosterOf <- OnePoster
    JobNum <- OwnNumber
    NoUser = NoUser
    NoJob = NoJob
    Refusable = {"conv"}
    MaxId = 4
    MaxCrashes = 1
    MaxQueue = 0
INVARIANTS
    HelprHasBid
    RowHasBid
    OneConversationPerChat
CHECK_DEADLOCK FALSE
