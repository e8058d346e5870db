----------------------------- MODULE MessageList -----------------------------
(***************************************************************************)
(* The message list (MessageTableViewController) of one signed-in user: a  *)
(* row for every active conversation, kept up to date by three kinds of    *)
(* listener and by queries whose completion blocks write into the rows.    *)
(*                                                                         *)
(* The documents are those of BidNegotiation as this phone can read them,  *)
(* one conversation document per chat (OneConversationPerChat there).  A   *)
(* listener hears of a change later than it happens, several changes       *)
(* perhaps at once; a query is answered with the documents of that moment. *)
(* Gets of one document, and equal queries, share a target in the Firestore*)
(* client and are answered in the order they were asked; nothing orders    *)
(* the others.  What runs on the main queue in one go is one action.       *)
(*                                                                         *)
(* Where the code unwraps a missing index or document, or indexes past the *)
(* end of the rows, the app dies and the list is loaded anew.              *)
(***************************************************************************)
EXTENDS Integers, Sequences

CONSTANTS
    Chats,       \* the chats this user may have a conversation in
    MaxMessages, \* bound: messages in a chat
    MaxChanges,  \* bound: writes to the documents after the list is opened,
                 \* and times the cache cannot stand in for the server
    Failing      \* whether queries may be answered with an error or in vain

ASSUME ConstantsAssumption ==
    /\ MaxMessages \in Nat /\ MaxMessages > 0
    /\ MaxChanges \in Nat
    /\ Failing \in BOOLEAN

VARIABLES
    \* The documents.
    conv,      \* users/{user}/conversations: "none", "active" or "inactive"
    accepted,  \* the chats whose "accepted" is true
    messages,  \* the number of messages in a chat, the last one the newest
    bids,      \* the number of bids in its negotiation, likewise
    toWrite,   \* what a createBid under way has yet to write in a chat
    changes,
    \* The list.
    listed,    \* each conversation as its listener last heard of it
    watched,   \* the chats whose document and messages are listened to
    heardChat, \* what the listener of a chat document last heard
    heardMsgs, \* the messages a chat's listener has heard of
    rows,      \* mPreviews
    calls,     \* the queries that have not been answered
    left       \* history: a row was removed since the list was loaded

documents == <<conv, accepted, messages, bids, toWrite, changes>>
list == <<listed, watched, heardChat, heardMsgs, rows, calls, left>>
vars == <<documents, list>>

-----------------------------------------------------------------------------
(* A row shows the bid and the message of a chat, number 0 if none yet.    *)
Shown == [of: Chats, nr: 0..MaxMessages]
Row == [chat: Chats, accepted: BOOLEAN, bid: Shown, msg: Shown]

NewRow(c) == [chat |-> c, accepted |-> FALSE,
              bid |-> [of |-> c, nr |-> 0], msg |-> [of |-> c, nr |-> 0]]

(* Queries in flight for a chat, n their order: the job of a row to append *)
(* ("job"); the two halves of getBidAmt, for a row (msg = 0) or for message*)
(* msg heard of when the row was at "index"; getMsgPreview for a row.      *)
Call ==
    [asks: {"job"}, chat: Chats, n: Nat]
    \cup [asks: {"chat"}, chat: Chats, n: Nat, msg: 0..MaxMessages, index: Nat]
    \cup [asks: {"bids"}, chat: Chats, n: Nat, msg: 0..MaxMessages, index: Nat,
          accepted: BOOLEAN]
    \cup [asks: {"preview"}, chat: Chats, n: Nat, index: Nat]

TypeOK ==
    /\ conv \in [Chats -> {"none", "active", "inactive"}]
    /\ accepted \subseteq Chats
    /\ messages \in [Chats -> 0..MaxMessages]
    /\ bids \in [Chats -> 0..MaxMessages]
    /\ toWrite \in [Chats -> {"nothing", "message", "bid"}]
    /\ changes \in 0..MaxChanges
    /\ listed \in [Chats -> {"none", "active", "inactive"}]
    /\ watched \subseteq Chats
    /\ heardChat \in [Chats -> {"nothing", "open", "accepted"}]
    /\ heardMsgs \in [Chats -> 0..MaxMessages]
    /\ rows \in Seq(Row)
    /\ calls \subseteq Call
    /\ left \in BOOLEAN

(* viewDidLoad: nothing heard, nothing asked.  The documents are what any  *)
(* number of bids, chats and rejections left behind.                       *)
Empty ==
    /\ listed = [c \in Chats |-> "none"]
    /\ watched = {}
    /\ heardChat = [c \in Chats |-> "nothing"]
    /\ heardMsgs = [c \in Chats |-> 0]
    /\ rows = << >>
    /\ calls = {}
    /\ left = FALSE

Init ==
    /\ conv \in [Chats -> {"none", "active", "inactive"}]
    /\ bids = [c \in Chats |-> IF conv[c] = "none" THEN 0 ELSE 1]
    /\ messages = bids
    /\ accepted \in SUBSET {c \in Chats : conv[c] # "none"}
    /\ toWrite = [c \in Chats |-> "nothing"]
    /\ changes = 0
    /\ Empty

-----------------------------------------------------------------------------
(* The documents change: this user or the partner bids, accepts, rejects   *)
(* or sends a message, on this phone or on the other.                      *)

Change ==
    /\ changes < MaxChanges
    /\ changes' = changes + 1
    /\ UNCHANGED list

(* createBid writes the chat, then the message, then the bid.              *)
WriteChat(c) ==
    /\ Change
    /\ toWrite[c] = "nothing"
    /\ messages[c] < MaxMessages
    /\ toWrite' = [toWrite EXCEPT ![c] = "message"]
    /\ accepted' = accepted \ {c}
    /\ UNCHANGED <<conv, messages, bids>>

WriteMessage(c) ==
    /\ Change
    /\ toWrite[c] = "message"
    /\ messages[c] < MaxMessages
    /\ toWrite' = [toWrite EXCEPT ![c] = "bid"]
    /\ messages' = [messages EXCEPT ![c] = @ + 1]
    /\ UNCHANGED <<conv, accepted, bids>>

WriteBid(c) ==
    /\ Change
    /\ toWrite[c] = "bid"
    /\ bids[c] < MaxMessages
    /\ toWrite' = [toWrite EXCEPT ![c] = "nothing"]
    /\ bids' = [bids EXCEPT ![c] = @ + 1]
    /\ UNCHANGED <<conv, accepted, messages>>

(* Its look-up, long after, makes the conversation or makes it active.     *)
EnterConversation(c) ==
    /\ Change
    /\ bids[c] > 0
    /\ conv[c] # "active"
    /\ conv' = [conv EXCEPT ![c] = "active"]
    /\ UNCHANGED <<accepted, messages, bids, toWrite>>

(* rejectBid.                                                              *)
LeaveConversation(c) ==
    /\ Change
    /\ conv[c] = "active"
    /\ conv' = [conv EXCEPT ![c] = "inactive"]
    /\ UNCHANGED <<accepted, messages, bids, toWrite>>

(* acceptedJob.                                                            *)
AcceptBid(c) ==
    /\ Change
    /\ bids[c] > 0
    /\ accepted' = accepted \cup {c}
    /\ UNCHANGED <<conv, messages, bids, toWrite>>

(* storeMessage, in the chat log of an accepted chat.                      *)
StoreMessage(c) ==
    /\ Change
    /\ c \in accepted
    /\ messages[c] < MaxMessages
    /\ messages' = [messages EXCEPT ![c] = @ + 1]
    /\ UNCHANGED <<conv, accepted, bids, toWrite>>

-----------------------------------------------------------------------------
RowsOf(c) == {i \in DOMAIN rows : rows[i].chat = c}

(* Mutant: -1 for nil, where the callers expect 0.                         *)
FirstIndexUnchecked(c) ==
    IF RowsOf(c) = {} THEN -1
    ELSE CHOOSE i \in RowsOf(c) : \A k \in RowsOf(c) : i <= k

(* firstIndex(where: chatID == c), 0 for nil.                              *)
FirstIndex(c) ==
    IF RowsOf(c) = {} THEN 0
    ELSE CHOOSE i \in RowsOf(c) : \A k \in RowsOf(c) : i <= k

(* Mutants: the last row goes; nothing goes.                               *)
WithoutLast(i) == SubSeq(rows, 1, Len(rows) - 1)
WithoutNone(i) == rows

(* remove(at: i).                                                          *)
Without(i) ==
    [k \in 1..Len(rows) - 1 |-> IF k < i THEN rows[k] ELSE rows[k + 1]]

(* The place in line of the next query for chat c.                         *)
NextInLine(c) ==
    LET used == {q.n : q \in {p \in calls : p.chat = c}}
    IN  IF used = {} THEN 1 ELSE 1 + CHOOSE n \in used : \A k \in used : k <= n

(* q is the next of its kind to be answered.  The bids of a row are asked  *)
(* for after getBidAmt read the job, so the row's own get of it is through.*)
IsNext(q) ==
    /\ q \in calls
    /\ \A p \in calls : p.chat = q.chat =>
         /\ p.asks = q.asks => p.n >= q.n
         /\ q.asks = "bids" /\ p.asks = "job" => p.n > q.n

LoadAnew ==
    /\ listed' = [c \in Chats |-> "none"]
    /\ watched' = {}
    /\ heardChat' = [c \in Chats |-> "nothing"]
    /\ heardMsgs' = [c \in Chats |-> 0]
    /\ rows' = << >>
    /\ calls' = {}
    /\ left' = FALSE

Die == LoadAnew /\ UNCHANGED documents

-----------------------------------------------------------------------------
(* The conversations listener.                                             *)

(* loopThroughConvos: the job is asked for, and the bid.                   *)
RowCalls(c) ==
    {[asks |-> "job", chat |-> c, n |-> NextInLine(c)],
     [asks |-> "chat", chat |-> c, n |-> NextInLine(c), msg |-> 0, index |-> 0]}

Hears(c) == listed' = [listed EXCEPT ![c] = conv[c]]

(* An added conversation gets a row and its chat two listeners, if active. *)
HearAdded(c) ==
    /\ listed[c] = "none"
    /\ conv[c] # "none"
    /\ Hears(c)
    /\ calls' = IF conv[c] = "active" THEN calls \cup RowCalls(c) ELSE calls
    /\ watched' = IF conv[c] = "active" THEN watched \cup {c} ELSE watched
    /\ UNCHANGED <<documents, heardChat, heardMsgs, rows, left>>

(* A conversation modified to be active gets a row and no listener.        *)
HearResumed(c) ==
    /\ listed[c] = "inactive"
    /\ conv[c] = "active"
    /\ Hears(c)
    /\ calls' = calls \cup RowCalls(c)
    /\ UNCHANGED <<documents, watched, heardChat, heardMsgs, rows, left>>

(* One modified to be inactive loses its row; there must be one (index!).  *)
HearLeft(c) ==
    /\ listed[c] = "active"
    /\ conv[c] = "inactive"
    /\ IF RowsOf(c) = {} THEN Die
       ELSE /\ Hears(c)
            /\ rows' = Without(FirstIndex(c))
            /\ left' = TRUE
            /\ UNCHANGED <<documents, watched, heardChat, heardMsgs, calls>>

-----------------------------------------------------------------------------
(* The two listeners of a chat.                                            *)

ChatStatus(c) == IF c \in accepted THEN "accepted" ELSE "open"

(* The chat document: a row there is takes over "accepted".                *)
HearChat(c) ==
    /\ c \in watched
    /\ heardChat[c] # ChatStatus(c)
    /\ heardChat' = [heardChat EXCEPT ![c] = ChatStatus(c)]
    /\ rows' = IF RowsOf(c) = {} THEN rows
               ELSE [rows EXCEPT ![FirstIndex(c)].accepted = (c \in accepted)]
    /\ UNCHANGED <<documents, listed, watched, heardMsgs, calls, left>>

(* getBidAmt for every message that was added, the newest first, with the  *)
(* index the row has now.                                                  *)
MessageCalls(c) ==
    {[asks |-> "chat", chat |-> c, n |-> NextInLine(c) + messages[c] - m,
      msg |-> m, index |-> FirstIndex(c)] : m \in heardMsgs[c] + 1..messages[c]}

HearMessages(c) ==
    /\ c \in watched
    /\ heardMsgs[c] < messages[c]
    /\ heardMsgs' = [heardMsgs EXCEPT ![c] = messages[c]]
    /\ calls' = IF RowsOf(c) = {} THEN calls ELSE calls \cup MessageCalls(c)
    /\ UNCHANGED <<documents, listed, watched, heardChat, rows, left>>

-----------------------------------------------------------------------------
(* Answers.                                                                *)

Answered(q) == calls' = calls \ {q}
AnsweredThen(q, next) == calls' = (calls \ {q}) \cup {next}

(* Mutant: new rows at the top.                                            *)
RowsAndFirst(c) == <<NewRow(c)>> \o rows

RowsAnd(c) == Append(rows, NewRow(c))

(* The job, or the error, of a row: the row is appended either way.        *)
AnswerJob(q) ==
    /\ q.asks = "job"
    /\ Answered(q)
    /\ rows' = RowsAnd(q.chat)
    /\ UNCHANGED <<documents, listed, watched, heardChat, heardMsgs, left>>

(* getBidAmt notes "accepted" and goes on to the job and its bids.         *)
AnswerChat(q) ==
    /\ q.asks = "chat"
    /\ AnsweredThen(q, [asks |-> "bids", chat |-> q.chat, n |-> q.n, msg |-> q.msg,
                        index |-> q.index, accepted |-> q.chat \in accepted])
    /\ UNCHANGED <<documents, listed, watched, heardChat, heardMsgs, rows, left>>

(* Mutant: "accepted" is left out of the row.                              *)
RowWithBid(i, q) ==
    [rows[i] EXCEPT !.bid = [of |-> q.chat, nr |-> bids[q.chat]]]

(* What getBidAmt's completion blocks set in row i.                        *)
RowWithBidAmt(i, q) ==
    [rows[i] EXCEPT !.accepted = q.accepted,
                    !.bid = [of |-> q.chat, nr |-> bids[q.chat]]]

(* The bid of a new row, which is looked up (index!); its message is asked *)
(* for next.                                                               *)
AnswerBid(q) ==
    /\ q.asks = "bids"
    /\ q.msg = 0
    /\ LET i == FirstIndex(q.chat) IN
         IF i = 0 THEN Die
         ELSE /\ rows' = [rows EXCEPT ![i] = RowWithBidAmt(i, q)]
              /\ AnsweredThen(q, [asks |-> "preview", chat |-> q.chat,
                                  n |-> q.n, index |-> i])
              /\ UNCHANGED <<documents, listed, watched, heardChat, heardMsgs, left>>

(* The bid that came with a message goes where the row was, and the message*)
(* too.                                                                    *)
AnswerMessageBid(q) ==
    /\ q.asks = "bids"
    /\ q.msg > 0
    /\ IF q.index > Len(rows) THEN Die
       ELSE /\ rows' = [rows EXCEPT ![q.index] =
                 [RowWithBidAmt(q.index, q) EXCEPT
                    !.msg = [of |-> q.chat, nr |-> q.msg]]]
            /\ Answered(q)
            /\ UNCHANGED <<documents, listed, watched, heardChat, heardMsgs, left>>

(* getMsgPreview's answer goes where the row was when its bid came.        *)
AnswerPreview(q) ==
    /\ q.asks = "preview"
    /\ IF q.index > Len(rows) THEN Die
       ELSE /\ rows' = [rows EXCEPT ![q.index].msg =
                 [of |-> q.chat, nr |-> messages[q.chat]]]
            /\ Answered(q)
            /\ UNCHANGED <<documents, listed, watched, heardChat, heardMsgs, left>>

(* Any other query's error ends the chain it belongs to.                   *)
AnswerError(q) ==
    /\ Failing
    /\ q.asks # "job"
    /\ Answered(q)
    /\ UNCHANGED <<documents, listed, watched, heardChat, heardMsgs, rows, left>>

(* Out of reach of the server the cache answers, with what it has.  A chat *)
(* document (data()!) or the bids of a chat (bidObj!) that it does not have*)
(* are the end of the app; what else is missing is an AnswerError.         *)
MissDocument ==
    /\ Failing
    /\ changes < MaxChanges
    /\ changes' = changes + 1
    /\ \/ \E c \in watched : heardChat[c] = "nothing"
       \/ \E q \in calls : q.asks = "bids"
    /\ LoadAnew
    /\ UNCHANGED <<conv, accepted, messages, bids, toWrite>>

-----------------------------------------------------------------------------
Write(c) ==
    \/ WriteChat(c)
    \/ WriteMessage(c)
    \/ WriteBid(c)
    \/ EnterConversation(c)
    \/ LeaveConversation(c)
    \/ AcceptBid(c)
    \/ StoreMessage(c)

Listener(c) ==
    \/ HearAdded(c)
    \/ HearResumed(c)
    \/ HearLeft(c)
    \/ HearChat(c)
    \/ HearMessages(c)

Answer(q) ==
    /\ IsNext(q)
    /\ \/ AnswerJob(q)
       \/ AnswerChat(q)
       \/ AnswerBid(q)
       \/ AnswerMessageBid(q)
       \/ AnswerPreview(q)
       \/ AnswerError(q)

Load ==
    \/ \E c \in Chats : Listener(c)
    \/ \E q \in calls : Answer(q)

Next ==
    \/ \E c \in Chats : Write(c)
    \/ MissDocument
    \/ Load

Spec == Init /\ [][Next]_vars

(* Listeners hear and queries are answered, sooner or later.               *)
FairSpec == Spec /\ WF_vars(Load)

-----------------------------------------------------------------------------
(* What holds.                                                             *)

IsActive(c) == listed[c] = "active"
JobCalls(c) == {q \in calls : q.chat = c /\ q.asks = "job"}

(* The list is the active conversations: whatever order queries are        *)
(* answered in, however often a conversation is left and resumed, it has   *)
(* one row or the query that will append one (loopThroughConvos), never    *)
(* both and never two, and none when it is not active.                     *)
RowsAreConversations ==
    /\ \A i, k \in DOMAIN rows : rows[i].chat = rows[k].chat => i = k
    /\ \A p, q \in calls :
         p.asks = "job" /\ q.asks = "job" /\ p.chat = q.chat => p = q
    /\ \A c \in Chats : IsActive(c) <=> RowsOf(c) # {} \/ JobCalls(c) # {}
    /\ \A c \in Chats : RowsOf(c) = {} \/ JobCalls(c) = {}

ShowsOwnChat(i) ==
    rows[i].bid.of = rows[i].chat /\ rows[i].msg.of = rows[i].chat

(* Rows are only appended, so the indexes that completion blocks keep      *)
(* (index!, MessageTableViewController:78, 190) stay right until a         *)
(* conversation is left: up to then every row shows its own chat, and no   *)
(* block has an index past the end.                                        *)
IndexesHoldUntilLeft ==
    ~left => /\ \A i \in DOMAIN rows : ShowsOwnChat(i)
             /\ \A q \in calls :
                  (q.asks \in {"chat", "bids"} /\ q.msg > 0) \/ q.asks = "preview"
                      => q.index \in DOMAIN rows /\ rows[q.index].chat = q.chat

(* A list opened on documents that do not change comes to show them: when  *)
(* everything has been heard and answered, every row has the "accepted" and*)
(* the bid of its chat, whichever of the listener and the queries was last.*)
Loaded ==
    /\ calls = {}
    /\ listed = conv
    /\ \A c \in watched : heardChat[c] = ChatStatus(c) /\ heardMsgs[c] = messages[c]

StillDocumentsAreShown ==
    changes = 0 /\ Loaded /\ ~Failing => \A i \in DOMAIN rows :
        /\ rows[i].accepted <=> rows[i].chat \in accepted
        /\ rows[i].bid = [of |-> rows[i].chat, nr |-> bids[rows[i].chat]]

(* Once the documents stop changing the rows become the active             *)
(* conversations and stay so, whatever happened before, deaths included.   *)
ListSettles ==
    <>[](\A c \in Chats : RowsOf(c) # {} <=> conv[c] = "active")

-----------------------------------------------------------------------------
(* What the repository says and the code does not do.                      *)

(* "loop through conversations and create message preview cells for        *)
(* appropriate document" (MessageTableViewController:140): what a row shows*)
(* is of its own chat.                                                     *)
RowShowsOwnChat == \A i \in DOMAIN rows : ShowsOwnChat(i)

(* "listen on chat changes to see if a bid was accepted"                   *)
(* (MessageTableViewController:42): with everything heard and answered, the*)
(* row of a watched chat knows whether its bid was accepted.               *)
AcceptanceIsShown ==
    Loaded => \A i \in DOMAIN rows :
        rows[i].chat \in watched => (rows[i].accepted <=> rows[i].chat \in accepted)

(* "get latest message info" (DatabaseHelper:413): then the row shows the  *)
(* newest message.                                                         *)
NewestIsShown ==
    Loaded => \A i \in DOMAIN rows :
        rows[i].msg = [of |-> rows[i].chat, nr |-> messages[rows[i].chat]]
=============================================================================
