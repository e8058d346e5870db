---------------------------- MODULE MCMessageList ----------------------------
(* Small instances of MessageList: two chats.                              *)
EXTENDS MessageList, TLC

CONSTANTS chat1, chat2

AnyOrder == Permutations(Chats)
=============================================================================
