SPECIFICATION Spec
CONSTANTS
    chat1 = chat1
    chat2 = chat2
    Chats = {chat1, chat2}
    MaxMessages = 2
    MaxChanges = 2
    Failing = FALSE
INVARIANTS
    TypeOK
    RowsAreConversations
    IndexesHoldUntilLeft
    StillDocumentsAreShown
SYMMETRY AnyOrder
CHECK_DEADLOCK FALSE
