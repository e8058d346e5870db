SPECIFICATION FairSpec
CONSTANTS
    chat1 = chat1
    chat2 = chat2
    Chats = {chat1}
    MaxMessages = 2
    MaxChanges = 4
    Failing = TRUE
PROPERTIES
    ListSettles
CHECK_DEADLOCK FALSE
