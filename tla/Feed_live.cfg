SPECIFICATION FairFeedSpec
CONSTANTS
    phone = phone
    user = user
    user2 = user2
    NoUser = NoUser
    NoPhone = NoPhone
    front = front
    back = back
    lawn = lawn
    sofa = sofa
    search1 = search1
    search2 = search2
    Pictures = {front}
    Phones = {phone}
    Users = {user, user2}
    Posts = {lawn, sofa}
    Failing = {}
    MaxSwitches = 0
    MaxCrashes = 0
    me = user
    Searches = {search1}
    LoadFails = {"explore"}
INVARIANTS
    FeedTypeOK
    LoadsFindJobs
    RowPerListener
PROPERTIES
    PostArrives
    PostReachesList
CHECK_DEADLOCK FALSE
