SPECIFICATION Spec
CONSTANTS
    chat1 = chat1
    chat2 = chat2
    Chats = {chat1, chat2}
    MaxMessages = 1
    MaxChanges = 1
    Failing = FALSE
INVARIANTS
    RowShowsOwnChat
CHECK_DEADLOCK FALSE
