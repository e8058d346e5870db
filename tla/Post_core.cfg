SPECIFICATION Spec
CONSTANTS
    phone = phone
    phone2 = phone2
    user = user
    user2 = user2
    NoUser = NoUser
    NoPhone = NoPhone
    front = front
    back = back
    lawn = lawn
    sofa = sofa
    Pictures = {front, back}
    Phones = {phone, phone2}
    Users = {user, user2}
    Posts = {lawn, sofa}
    Failing = {"query", "upload", "post"}
    MaxSwitches = 1
    MaxCrashes = 1
INVARIANTS
    TypeOK
    LaterJobHasLargerNumber
PROPERTIES
    ImplementsBoard
CHECK_DEADLOCK FALSE
