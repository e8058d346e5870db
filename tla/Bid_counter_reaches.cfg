SPECIFICATION FairSpec
CONSTANTS
    poster = poster
    bidder = bidder
    other = other
    job = job
    job2 = job2
    Users = {poster, bidder}
    Jobs = {job}
    PosterOf <- OnePoster
    JobNum <- OwnNumber
    NoUser = NoUser
    NoJob = NoJob
    Refusable = {}
    MaxId = 4
    MaxCrashes = 0
    MaxQueue = 0
PROPERTIES
    CounterReachesBidder
CHECK_DEADLOCK FALSE
