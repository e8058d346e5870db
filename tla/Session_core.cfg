SPECIFICATION FairSpec
CONSTANTS
    ann = ann
    bob = bob
    Accounts = {ann, bob}
    NoUser = NoUser
    MaxPending = 1
    MaxBelow = 2
INVARIANTS
    TypeOK
    DocumentIsOwn
    TabsAreOwn
    ProfileIsOwn
    AccountIsComplete
PROPERTIES
    ProfileArrives
CHECK_DEADLOCK FALSE
