-------------------------- MODULE MessageList_proofs --------------------------
(***************************************************************************)
(* For any chats and bounds: the types; that the rows are the active       *)
(* conversations; that the indexes kept by completion blocks are right     *)
(* until a row is removed; and that documents that rest come to be shown.  *)
(* Bounded is what the type of a query's place in line rests on: the       *)
(* places taken so far have a maximum.                                     *)
(***************************************************************************)
EXTENDS MessageList, SequenceTheorems, WellFoundedInduction, TLAPS

-----------------------------------------------------------------------------
(* Numbers, rows and indexes.                                              *)

LEMMA Least ==
    ASSUME NEW T \in SUBSET Nat, T # {}
    PROVE  \E x \in T : \A y \in T : x <= y
  <1> DEFINE R == OpToRel(<, Nat)
  <1>1. IsWellFoundedOn(R, Nat)
    BY NatLessThanWellFounded
  <1>2. \A x, y \in Nat : <<x, y>> \in R <=> x < y
    BY DEF OpToRel
  <1> HIDE DEF R
  <1>3. \E x \in T : \A y \in T : ~ (<<y, x>> \in R)
    BY <1>1, WFMin
  <1>4. PICK x \in T : \A y \in T : ~ (<<y, x>> \in R)
    BY <1>3
  <1>5. \A y \in T : ~ (y < x)
    <2> TAKE y \in T
    <2>1. <<y, x>> \in R <=> y < x
      BY <1>2
    <2> QED
      BY <2>1, <1>4
  <1>6. \A y \in T : x <= y
    BY <1>5
  <1> QED
    BY <1>6

LEMMA Greatest ==
    ASSUME NEW T \in SUBSET Nat, T # {}, NEW b \in Nat, \A x \in T : x <= b
    PROVE  \E x \in T : \A y \in T : y <= x
  <1> DEFINE U == {u \in Nat : \A x \in T : x <= u}
  <1>1. PICK u \in U : \A v \in U : u <= v
    <2>1. b \in U
      OBVIOUS
    <2> QED
      BY <2>1, Least
  <1>2. u \in T
    <2> SUFFICES ASSUME u \notin T PROVE FALSE
      OBVIOUS
    <2>1. \A x \in T : x \in Nat /\ x < u
      BY <1>1
    <2>2. PICK x \in T : TRUE
      OBVIOUS
    <2>3. u - 1 \in Nat /\ \A y \in T : y <= u - 1
      BY <1>1, <2>1, <2>2
    <2>4. u - 1 \in U
      BY <2>3
    <2> QED
      BY <1>1, <2>4
  <1> QED
    BY <1>1, <1>2

LEMMA FirstIndexType ==
    ASSUME rows \in Seq(Row), NEW c \in Chats
    PROVE  /\ FirstIndex(c) \in Nat
           /\ RowsOf(c) = {} <=> FirstIndex(c) = 0
           /\ RowsOf(c) # {} => /\ FirstIndex(c) \in RowsOf(c)
                                /\ FirstIndex(c) \in DOMAIN rows
                                /\ rows[FirstIndex(c)].chat = c
  <1>1. RowsOf(c) \in SUBSET Nat /\ \A i \in RowsOf(c) : i > 0 /\ i \in DOMAIN rows
    BY DEF RowsOf
  <1>2. CASE RowsOf(c) = {}
    BY <1>2 DEF FirstIndex
  <1>3. CASE RowsOf(c) # {}
    <2>1. \E i \in RowsOf(c) : \A k \in RowsOf(c) : i <= k
      BY <1>1, <1>3, Least
    <2>2. FirstIndex(c) \in RowsOf(c)
      BY <1>3, <2>1 DEF FirstIndex
    <2> QED
      BY <1>1, <1>3, <2>2 DEF RowsOf
  <1> QED
    BY <1>2, <1>3

(* A row written into.                                                     *)
LEMMA RowsExcept ==
    ASSUME rows \in Seq(Row), NEW i \in Nat, NEW r, i \in DOMAIN rows => r \in Row
    PROVE  /\ [rows EXCEPT ![i] = r] \in Seq(Row)
           /\ DOMAIN [rows EXCEPT ![i] = r] = DOMAIN rows
           /\ \A k \in DOMAIN rows :
                [rows EXCEPT ![i] = r][k] = IF k = i THEN r ELSE rows[k]
  <1>1. rows \in [1..Len(rows) -> Row] /\ Len(rows) \in Nat
    OBVIOUS
  <1>2. [rows EXCEPT ![i] = r] \in [1..Len(rows) -> Row]
    BY <1>1
  <1> QED
    BY <1>1, <1>2

(* A row removed.                                                          *)
LEMMA RowRemoved ==
    ASSUME rows \in Seq(Row), NEW i \in DOMAIN rows
    PROVE  /\ Without(i) \in Seq(Row)
           /\ Len(Without(i)) = Len(rows) - 1
           /\ \A k \in 1..Len(rows) - 1 :
                Without(i)[k] = IF k < i THEN rows[k] ELSE rows[k + 1]
  <1>1. rows \in [1..Len(rows) -> Row] /\ Len(rows) \in Nat /\ Len(rows) > 0
    OBVIOUS
  <1>2. \A k \in 1..Len(rows) - 1 : rows[k] \in Row /\ rows[k + 1] \in Row
    BY <1>1
  <1>3. Without(i) \in [1..Len(rows) - 1 -> Row]
    BY <1>1, <1>2 DEF Without
  <1> QED
    BY <1>1, <1>3 DEF Without

-----------------------------------------------------------------------------
(* Types.                                                                  *)

Bounded == \E b \in Nat : \A q \in calls : q.n <= b

TypeInv == TypeOK /\ Bounded

LEMMA CallType ==
    ASSUME NEW q \in Call
    PROVE  /\ q.asks \in {"job", "chat", "bids", "preview"}
           /\ q.chat \in Chats
           /\ q.n \in Nat
           /\ q.asks \in {"chat", "bids"} => q.msg \in 0..MaxMessages
           /\ q.asks # "job" => q.index \in Nat
           /\ q.asks = "bids" => q.accepted \in BOOLEAN
  BY DEF Call

LEMMA NextInLineType ==
    ASSUME TypeInv, NEW c \in Chats
    PROVE  NextInLine(c) \in Nat
  <1> DEFINE used == {q.n : q \in {p \in calls : p.chat = c}}
  <1>1. PICK b \in Nat : \A q \in calls : q.n <= b
    BY DEF TypeInv, Bounded
  <1>2. used \in SUBSET Nat /\ \A n \in used : n <= b
    BY <1>1, CallType DEF TypeInv, TypeOK
  <1>3. CASE used = {}
    BY <1>3 DEF NextInLine
  <1>4. CASE used # {}
    <2> DEFINE top == CHOOSE n \in used : \A k \in used : k <= n
    <2>1. NextInLine(c) = 1 + top
      BY <1>4 DEF NextInLine
    <2> HIDE DEF used
    <2>2. \E n \in used : \A k \in used : k <= n
      BY <1>2, <1>4, Greatest
    <2>3. top \in used
      BY <2>2
    <2> HIDE DEF top
    <2>4. top \in Nat
      BY <1>2, <2>3
    <2> QED
      BY <2>1, <2>4
  <1> QED
    BY <1>3, <1>4

(* Bounded survives when the new queries have places up to some number.    *)
LEMMA StillBounded ==
    ASSUME Bounded, calls \subseteq Call, NEW more, NEW b \in Nat,
           calls' \subseteq calls \cup more,
           \A q \in more : q.n \in Nat /\ q.n <= b
    PROVE  Bounded'
  <1>1. PICK a \in Nat : \A q \in calls : q.n <= a
    BY DEF Bounded
  <1>2. a + b \in Nat
    OBVIOUS
  <1>3. ASSUME NEW q \in calls' PROVE q.n <= a + b
    <2>1. CASE q \in calls
      <3>1. q.n \in Nat /\ q.n <= a
        BY <1>1, <2>1, CallType
      <3> QED
        BY <3>1
    <2>2. CASE q \in more
      <3>1. q.n \in Nat /\ q.n <= b
        BY <2>2
      <3> QED
        BY <3>1
    <2> QED
      BY <1>3, <2>1, <2>2
  <1> QED
    BY <1>2, <1>3 DEF Bounded

LEMMA InitType == ConstantsAssumption /\ Init => TypeInv
  <1> SUFFICES ASSUME ConstantsAssumption, Init PROVE TypeInv
    OBVIOUS
  <1>1. TypeOK
    <2>1. << >> \in Seq(Row)
      OBVIOUS
    <2>2. bids \in [Chats -> 0..MaxMessages]
      BY DEF Init, ConstantsAssumption
    <2>3. /\ conv \in [Chats -> {"none", "active", "inactive"}]
          /\ accepted \subseteq Chats
          /\ messages \in [Chats -> 0..MaxMessages]
          /\ toWrite \in [Chats -> {"nothing", "message", "bid"}]
          /\ changes \in 0..MaxChanges
      BY <2>2 DEF Init, ConstantsAssumption
    <2>4. heardMsgs \in [Chats -> 0..MaxMessages]
      BY DEF Init, Empty, ConstantsAssumption
    <2> QED
      BY <2>1, <2>2, <2>3, <2>4 DEF Init, Empty, TypeOK
  <1>2. Bounded
    BY DEF Init, Empty, Bounded
  <1> QED
    BY <1>1, <1>2 DEF TypeInv

LEMMA WriteTypes ==
    ASSUME ConstantsAssumption, TypeInv, NEW c \in Chats, Write(c)
    PROVE  TypeInv'
  <1>1. changes' \in 0..MaxChanges /\ UNCHANGED list
    BY DEF Write, WriteChat, WriteMessage, WriteBid, EnterConversation, LeaveConversation,
           AcceptBid, StoreMessage, Change, TypeInv, TypeOK, ConstantsAssumption
  <1>2. /\ conv' \in [Chats -> {"none", "active", "inactive"}]
        /\ accepted' \subseteq Chats
        /\ toWrite' \in [Chats -> {"nothing", "message", "bid"}]
    BY DEF Write, WriteChat, WriteMessage, WriteBid, EnterConversation, LeaveConversation,
           AcceptBid, StoreMessage, TypeInv, TypeOK
  <1>3. messages' \in [Chats -> 0..MaxMessages] /\ bids' \in [Chats -> 0..MaxMessages]
    <2>1. \A n \in 0..MaxMessages : n < MaxMessages => n + 1 \in 0..MaxMessages
      BY DEF ConstantsAssumption
    <2>2. messages[c] \in 0..MaxMessages /\ bids[c] \in 0..MaxMessages
      BY DEF TypeInv, TypeOK
    <2>3. CASE WriteMessage(c) \/ StoreMessage(c)
      BY <2>1, <2>2, <2>3 DEF WriteMessage, StoreMessage, TypeInv, TypeOK
    <2>4. CASE WriteBid(c)
      BY <2>1, <2>2, <2>4 DEF WriteBid, TypeInv, TypeOK
    <2>5. CASE WriteChat(c) \/ EnterConversation(c) \/ LeaveConversation(c) \/ AcceptBid(c)
      BY <2>5 DEF WriteChat, EnterConversation, LeaveConversation, AcceptBid,
                  TypeInv, TypeOK
    <2> QED
      BY <2>3, <2>4, <2>5 DEF Write
  <1> QED
    BY <1>1, <1>2, <1>3 DEF TypeInv, TypeOK, Bounded, list

LEMMA DieType ==
    ASSUME ConstantsAssumption, TypeInv, Die \/ MissDocument
    PROVE  TypeInv'
  <1>1. << >> \in Seq(Row)
    OBVIOUS
  <1>2. LoadAnew
    BY DEF Die, MissDocument
  <1>3. heardMsgs' \in [Chats -> 0..MaxMessages]
    BY <1>2 DEF LoadAnew, ConstantsAssumption
  <1>4. changes' \in 0..MaxChanges
    BY DEF Die, MissDocument, documents, TypeInv, TypeOK, ConstantsAssumption
  <1>5. UNCHANGED <<conv, accepted, messages, bids, toWrite>>
    BY DEF Die, MissDocument, documents
  <1>6. TypeOK'
    BY <1>1, <1>2, <1>3, <1>4, <1>5 DEF LoadAnew, TypeInv, TypeOK
  <1>7. Bounded'
    BY <1>2 DEF LoadAnew, Bounded
  <1> QED
    BY <1>6, <1>7 DEF TypeInv

LEMMA RowCallsType ==
    ASSUME ConstantsAssumption, TypeInv, NEW c \in Chats
    PROVE  /\ RowCalls(c) \subseteq Call
           /\ \A q \in RowCalls(c) : q.n = NextInLine(c)
  <1>1. NextInLine(c) \in Nat
    BY NextInLineType
  <1>2. 0 \in 0..MaxMessages
    BY DEF ConstantsAssumption
  <1> QED
    BY <1>1, <1>2 DEF RowCalls, Call

LEMMA MessageCallsType ==
    ASSUME ConstantsAssumption, TypeInv, NEW c \in Chats
    PROVE  /\ MessageCalls(c) \subseteq Call
           /\ \A q \in MessageCalls(c) :
                /\ q.n <= NextInLine(c) + messages[c]
                /\ q.asks = "chat"
                /\ q.chat = c
                /\ q.index = FirstIndex(c)
  <1>1. NextInLine(c) \in Nat /\ FirstIndex(c) \in Nat
    BY NextInLineType, FirstIndexType DEF TypeInv, TypeOK
  <1>2. messages[c] \in 0..MaxMessages /\ heardMsgs[c] \in 0..MaxMessages
    BY DEF TypeInv, TypeOK
  <1>3. \A m \in heardMsgs[c] + 1..messages[c] :
          /\ m \in 0..MaxMessages
          /\ NextInLine(c) + messages[c] - m \in Nat
          /\ NextInLine(c) + messages[c] - m <= NextInLine(c) + messages[c]
    BY <1>1, <1>2 DEF ConstantsAssumption
  <1> QED
    BY <1>1, <1>3 DEF MessageCalls, Call

LEMMA HearConversationType ==
    ASSUME ConstantsAssumption, TypeInv, NEW c \in Chats,
           HearAdded(c) \/ HearResumed(c) \/ HearLeft(c)
    PROVE  TypeInv'
  <1>1. CASE HearAdded(c) \/ HearResumed(c)
    <2>1. NextInLine(c) \in Nat
      BY NextInLineType
    <2>2. calls' \subseteq calls \cup RowCalls(c) /\ calls' \subseteq Call
      BY <1>1, RowCallsType DEF HearAdded, HearResumed, TypeInv, TypeOK
    <2>3. \A q \in RowCalls(c) : q.n \in Nat /\ q.n <= NextInLine(c)
      BY <2>1, RowCallsType
    <2>5. Bounded'
      BY <2>1, <2>2, <2>3, StillBounded DEF TypeInv, TypeOK
    <2>4. listed' \in [Chats -> {"none", "active", "inactive"}]
      BY <1>1 DEF HearAdded, HearResumed, Hears, TypeInv, TypeOK
    <2> QED
      BY <1>1, <2>2, <2>4, <2>5 DEF HearAdded, HearResumed, TypeInv, TypeOK, documents
  <1>2. CASE HearLeft(c)
    <2>1. CASE RowsOf(c) = {}
      BY <1>2, <2>1, DieType DEF HearLeft
    <2>2. CASE RowsOf(c) # {}
      <3>1. FirstIndex(c) \in DOMAIN rows
        BY <2>2, FirstIndexType DEF TypeInv, TypeOK
      <3>2. rows' \in Seq(Row)
        BY <1>2, <2>2, <3>1, RowRemoved DEF HearLeft, TypeInv, TypeOK
      <3>3. listed' \in [Chats -> {"none", "active", "inactive"}]
        BY <1>2, <2>2 DEF HearLeft, Hears, TypeInv, TypeOK
      <3> QED
        BY <1>2, <2>2, <3>2, <3>3 DEF HearLeft, TypeInv, TypeOK, documents, Bounded
    <2> QED
      BY <2>1, <2>2
  <1> QED
    BY <1>1, <1>2

LEMMA AcceptedRow ==
    ASSUME NEW r \in Row, NEW a \in BOOLEAN
    PROVE  /\ [r EXCEPT !.accepted = a] \in Row
           /\ [r EXCEPT !.accepted = a].accepted = a
  BY DEF Row

LEMMA HearChatRows ==
    ASSUME rows \in Seq(Row), NEW c \in Chats, HearChat(c)
    PROVE  /\ rows' \in Seq(Row)
           /\ DOMAIN rows' = DOMAIN rows
           /\ \A i \in DOMAIN rows :
                /\ rows'[i].chat = rows[i].chat
                /\ rows'[i].bid = rows[i].bid
                /\ rows'[i].msg = rows[i].msg
  <1>1. CASE RowsOf(c) = {}
    BY <1>1 DEF HearChat
  <1>2. CASE RowsOf(c) # {}
    <2> DEFINE i == FirstIndex(c)
               a == c \in accepted
               r == [rows[i] EXCEPT !.accepted = a]
    <2>1. i \in Nat /\ i \in DOMAIN rows
      BY <1>2, FirstIndexType
    <2>2. \A k \in DOMAIN rows : rows[k] \in Row
      OBVIOUS
    <2>3. r \in Row
      <3>1. a \in BOOLEAN
        OBVIOUS
      <3>2. rows[i] \in Row
        BY <2>1, <2>2
      <3> HIDE DEF a, i
      <3> QED
        BY <3>1, <3>2, AcceptedRow
    <2>4. rows' = [rows EXCEPT ![i] = r]
      BY <1>2 DEF HearChat
    <2>5. r.chat = rows[i].chat /\ r.bid = rows[i].bid /\ r.msg = rows[i].msg
      BY <2>1, <2>2 DEF Row
    <2> HIDE DEF i, r
    <2> QED
      BY <2>1, <2>3, <2>4, <2>5, RowsExcept
  <1> QED
    BY <1>1, <1>2

LEMMA HearInChatType ==
    ASSUME ConstantsAssumption, TypeInv, NEW c \in Chats,
           HearChat(c) \/ HearMessages(c)
    PROVE  TypeInv'
  <1>1. CASE HearChat(c)
    <2>1. rows' \in Seq(Row)
      BY <1>1, HearChatRows DEF TypeInv, TypeOK
    <2>2. heardChat' \in [Chats -> {"nothing", "open", "accepted"}]
      BY <1>1 DEF HearChat, ChatStatus, TypeInv, TypeOK
    <2> QED
      BY <1>1, <2>1, <2>2 DEF HearChat, TypeInv, TypeOK, documents, Bounded
  <1>2. CASE HearMessages(c)
    <2>1. NextInLine(c) + messages[c] \in Nat
      BY NextInLineType DEF TypeInv, TypeOK
    <2>2. calls' \subseteq calls \cup MessageCalls(c) /\ calls' \subseteq Call
      BY <1>2, MessageCallsType DEF HearMessages, TypeInv, TypeOK
    <2>3. \A q \in MessageCalls(c) : q.n \in Nat /\ q.n <= NextInLine(c) + messages[c]
      BY MessageCallsType, CallType
    <2>4. Bounded'
      BY <2>1, <2>2, <2>3, StillBounded DEF TypeInv, TypeOK
    <2>5. heardMsgs' \in [Chats -> 0..MaxMessages]
      BY <1>2 DEF HearMessages, TypeInv, TypeOK
    <2> QED
      BY <1>2, <2>2, <2>4, <2>5 DEF HearMessages, TypeInv, TypeOK, documents
  <1> QED
    BY <1>1, <1>2

(* A row as an answer leaves it.                                           *)
LEMMA RowWithBidAmtType ==
    ASSUME TypeInv, NEW i \in DOMAIN rows, NEW q \in Call, q.asks = "bids"
    PROVE  /\ RowWithBidAmt(i, q) \in Row
           /\ RowWithBidAmt(i, q).chat = rows[i].chat
           /\ RowWithBidAmt(i, q).bid.of = q.chat
           /\ RowWithBidAmt(i, q).msg = rows[i].msg
  <1>1. rows[i] \in Row
    BY DEF TypeInv, TypeOK
  <1>2. q.accepted \in BOOLEAN /\ q.chat \in Chats
    BY CallType
  <1>3. [of |-> q.chat, nr |-> bids[q.chat]] \in Shown
    BY <1>2 DEF TypeInv, TypeOK, Shown
  <1>4. [rows[i] EXCEPT !.accepted = q.accepted] \in Row
    BY <1>1, <1>2, AcceptedRow
  <1> DEFINE r == [rows[i] EXCEPT !.accepted = q.accepted]
             s == [of |-> q.chat, nr |-> bids[q.chat]]
  <1>5. RowWithBidAmt(i, q) = [r EXCEPT !.bid = s]
    BY <1>1 DEF RowWithBidAmt, Row
  <1>6. r.chat = rows[i].chat /\ r.msg = rows[i].msg
    BY <1>1 DEF Row
  <1>7. s.of = q.chat
    OBVIOUS
  <1>8. r \in Row /\ s \in Shown
    BY <1>3, <1>4
  <1> HIDE DEF r, s
  <1>9. /\ [r EXCEPT !.bid = s] \in Row
        /\ [r EXCEPT !.bid = s].chat = r.chat
        /\ [r EXCEPT !.bid = s].bid = s
        /\ [r EXCEPT !.bid = s].msg = r.msg
    BY <1>8 DEF Row
  <1> QED
    BY <1>5, <1>6, <1>7, <1>9

LEMMA RowWithMsg ==
    ASSUME NEW r \in Row, NEW s \in Shown
    PROVE  /\ [r EXCEPT !.msg = s] \in Row
           /\ [r EXCEPT !.msg = s].chat = r.chat
           /\ [r EXCEPT !.msg = s].bid = r.bid
           /\ [r EXCEPT !.msg = s].msg = s
  BY DEF Row

(* What an answered query may leave in its place.                          *)
LEMMA CallsType ==
    ASSUME TypeInv, NEW q \in calls, NEW more \in SUBSET Call,
           \A p \in more : p.n = q.n, calls' = (calls \ {q}) \cup more
    PROVE  calls' \subseteq Call /\ Bounded'
  <1>1. q.n \in Nat
    BY CallType DEF TypeInv, TypeOK
  <1>2. \A p \in more : p.n \in Nat /\ p.n <= q.n
    BY <1>1
  <1>3. Bounded'
    BY <1>1, <1>2, StillBounded DEF TypeInv, TypeOK
  <1> QED
    BY <1>3 DEF TypeInv, TypeOK

LEMMA NewRowType ==
    ASSUME ConstantsAssumption, NEW c \in Chats
    PROVE  /\ NewRow(c) \in Row
           /\ NewRow(c).chat = c
           /\ NewRow(c).bid.of = c
           /\ NewRow(c).msg.of = c
  <1>1. 0 \in 0..MaxMessages
    BY DEF ConstantsAssumption
  <1> QED
    BY <1>1 DEF NewRow, Row, Shown

(* The rows after each kind of answer.                                     *)
LEMMA AnswerBidRows ==
    ASSUME TypeInv, NEW q \in calls, AnswerBid(q), FirstIndex(q.chat) # 0
    PROVE  /\ FirstIndex(q.chat) \in DOMAIN rows
           /\ rows[FirstIndex(q.chat)].chat = q.chat
           /\ rows' \in Seq(Row)
           /\ DOMAIN rows' = DOMAIN rows
           /\ \A k \in DOMAIN rows : rows'[k] =
                IF k = FirstIndex(q.chat) THEN RowWithBidAmt(k, q) ELSE rows[k]
  <1>1. q \in Call /\ q.chat \in Chats /\ q.asks = "bids"
    BY CallType DEF TypeInv, TypeOK, AnswerBid
  <1>2. /\ FirstIndex(q.chat) \in Nat
        /\ FirstIndex(q.chat) \in DOMAIN rows
        /\ rows[FirstIndex(q.chat)].chat = q.chat
    BY <1>1, FirstIndexType DEF TypeInv, TypeOK
  <1>3. RowWithBidAmt(FirstIndex(q.chat), q) \in Row
    BY <1>1, <1>2, RowWithBidAmtType
  <1>4. rows' = [rows EXCEPT ![FirstIndex(q.chat)] = RowWithBidAmt(FirstIndex(q.chat), q)]
    BY DEF AnswerBid
  <1> QED
    BY <1>2, <1>3, <1>4, RowsExcept DEF TypeInv, TypeOK

LEMMA AnswerMessageBidRows ==
    ASSUME TypeInv, NEW q \in calls, AnswerMessageBid(q), q.index <= Len(rows)
    PROVE  /\ rows' \in Seq(Row)
           /\ DOMAIN rows' = DOMAIN rows
           /\ \A k \in DOMAIN rows : rows'[k] =
                IF k = q.index THEN [RowWithBidAmt(k, q) EXCEPT
                                       !.msg = [of |-> q.chat, nr |-> q.msg]]
                ELSE rows[k]
  <1>1. /\ q \in Call /\ q.chat \in Chats /\ q.asks = "bids"
        /\ q.index \in Nat /\ q.msg \in 0..MaxMessages
    BY CallType DEF TypeInv, TypeOK, AnswerMessageBid
  <1> DEFINE s == [of |-> q.chat, nr |-> q.msg]
             r == [RowWithBidAmt(q.index, q) EXCEPT !.msg = s]
  <1>2. s \in Shown
    BY <1>1 DEF Shown
  <1>3. q.index \in DOMAIN rows => r \in Row
    <2> SUFFICES ASSUME q.index \in DOMAIN rows PROVE r \in Row
      OBVIOUS
    <2>1. RowWithBidAmt(q.index, q) \in Row
      BY <1>1, RowWithBidAmtType
    <2> HIDE DEF s
    <2> QED
      BY <1>2, <2>1, RowWithMsg
  <1>4. rows' = [rows EXCEPT ![q.index] = r]
    <2>1. ~ (q.index > Len(rows))
      BY <1>1 DEF TypeInv, TypeOK
    <2> QED
      BY <2>1 DEF AnswerMessageBid
  <1> HIDE DEF r
  <1>5. /\ rows' \in Seq(Row)
        /\ DOMAIN rows' = DOMAIN rows
        /\ \A k \in DOMAIN rows : rows'[k] = IF k = q.index THEN r ELSE rows[k]
    BY <1>1, <1>3, <1>4, RowsExcept DEF TypeInv, TypeOK
  <1> QED
    BY <1>5 DEF r

LEMMA AnswerPreviewRows ==
    ASSUME TypeInv, NEW q \in calls, AnswerPreview(q), q.index <= Len(rows)
    PROVE  /\ rows' \in Seq(Row)
           /\ DOMAIN rows' = DOMAIN rows
           /\ \A k \in DOMAIN rows : rows'[k] =
                IF k = q.index
                THEN [rows[k] EXCEPT !.msg = [of |-> q.chat, nr |-> messages[q.chat]]]
                ELSE rows[k]
  <1>1. q \in Call /\ q.chat \in Chats /\ q.index \in Nat
    BY CallType DEF TypeInv, TypeOK, AnswerPreview
  <1> DEFINE s == [of |-> q.chat, nr |-> messages[q.chat]]
             r == [rows[q.index] EXCEPT !.msg = s]
  <1>2. s \in Shown
    BY <1>1 DEF Shown, TypeInv, TypeOK
  <1>3. q.index \in DOMAIN rows => r \in Row
    <2> SUFFICES ASSUME q.index \in DOMAIN rows PROVE r \in Row
      OBVIOUS
    <2>1. rows[q.index] \in Row
      BY DEF TypeInv, TypeOK
    <2> HIDE DEF s
    <2> QED
      BY <1>2, <2>1, RowWithMsg
  <1>4. rows' = [rows EXCEPT ![q.index] = r]
    <2>1. ~ (q.index > Len(rows))
      BY <1>1 DEF TypeInv, TypeOK
    <2> QED
      BY <2>1 DEF AnswerPreview
  <1> HIDE DEF r
  <1>5. /\ rows' \in Seq(Row)
        /\ DOMAIN rows' = DOMAIN rows
        /\ \A k \in DOMAIN rows : rows'[k] = IF k = q.index THEN r ELSE rows[k]
    BY <1>1, <1>3, <1>4, RowsExcept DEF TypeInv, TypeOK
  <1> QED
    BY <1>5 DEF r

(* The queries an answer leaves, and what it does not touch.               *)
LEMMA AnswerCalls ==
    ASSUME TypeInv, NEW q \in calls, ~ Die,
           AnswerJob(q) \/ AnswerChat(q) \/ AnswerBid(q) \/ AnswerMessageBid(q)
           \/ AnswerPreview(q) \/ AnswerError(q)
    PROVE  /\ calls' \subseteq Call
           /\ Bounded'
           /\ UNCHANGED <<documents, listed, watched, heardChat, heardMsgs, left>>
  <1>1. q \in Call /\ q.chat \in Chats /\ q.n \in Nat
    BY CallType DEF TypeInv, TypeOK
  <1>2. CASE AnswerChat(q)
    <2> DEFINE p == [asks |-> "bids", chat |-> q.chat, n |-> q.n, msg |-> q.msg,
                     index |-> q.index, accepted |-> q.chat \in accepted]
    <2>1. (q.chat \in accepted) \in BOOLEAN
      OBVIOUS
    <2>2. q.msg \in 0..MaxMessages /\ q.index \in Nat
      BY <1>1, <1>2, CallType DEF AnswerChat
    <2>3. p \in Call /\ p.n = q.n
      BY <1>1, <2>1, <2>2 DEF Call
    <2>4. calls' = (calls \ {q}) \cup {p}
      BY <1>2 DEF AnswerChat, AnsweredThen
    <2> HIDE DEF p
    <2>5. calls' \subseteq Call /\ Bounded'
      <3>1. {p} \in SUBSET Call /\ \A x \in {p} : x.n = q.n
        BY <2>3
      <3> QED
        BY <2>4, <3>1, CallsType
    <2> QED
      BY <1>2, <2>5 DEF AnswerChat
  <1>3. CASE AnswerBid(q)
    <2>1. FirstIndex(q.chat) \in Nat /\ FirstIndex(q.chat) # 0
      BY <1>1, <1>3, FirstIndexType DEF AnswerBid, TypeInv, TypeOK
    <2> DEFINE p == [asks |-> "preview", chat |-> q.chat, n |-> q.n,
                     index |-> FirstIndex(q.chat)]
    <2>2. p \in Call /\ p.n = q.n
      BY <1>1, <2>1 DEF Call
    <2>3. calls' = (calls \ {q}) \cup {p}
      BY <1>3, <2>1 DEF AnswerBid, AnsweredThen
    <2> HIDE DEF p
    <2>4. calls' \subseteq Call /\ Bounded'
      <3>1. {p} \in SUBSET Call /\ \A x \in {p} : x.n = q.n
        BY <2>2
      <3> QED
        BY <2>3, <3>1, CallsType
    <2> QED
      BY <1>3, <2>1, <2>4 DEF AnswerBid
  <1>4. CASE AnswerJob(q) \/ AnswerMessageBid(q) \/ AnswerPreview(q) \/ AnswerError(q)
    <2>1. calls' = (calls \ {q}) \cup {}
      BY <1>4 DEF AnswerJob, AnswerMessageBid, AnswerPreview, AnswerError, Answered
    <2>2. calls' \subseteq Call /\ Bounded'
      <3>1. {} \in SUBSET Call /\ \A x \in {} : x.n = q.n
        OBVIOUS
      <3> QED
        BY <2>1, <3>1, CallsType
    <2>3. UNCHANGED <<documents, listed, watched, heardChat, heardMsgs, left>>
      BY <1>4 DEF AnswerJob, AnswerMessageBid, AnswerPreview, AnswerError
    <2> QED
      BY <2>2, <2>3
  <1> QED
    BY <1>2, <1>3, <1>4

LEMMA AnswerRows ==
    ASSUME ConstantsAssumption, TypeInv, NEW q \in calls, ~ Die,
           AnswerJob(q) \/ AnswerChat(q) \/ AnswerBid(q) \/ AnswerMessageBid(q)
           \/ AnswerPreview(q) \/ AnswerError(q)
    PROVE  rows' \in Seq(Row)
  <1>1. CASE AnswerJob(q)
    <2>1. NewRow(q.chat) \in Row
      BY CallType, NewRowType DEF TypeInv, TypeOK
    <2> QED
      BY <1>1, <2>1 DEF AnswerJob, RowsAnd, TypeInv, TypeOK
  <1>2. CASE AnswerBid(q)
    <2>1. FirstIndex(q.chat) # 0
      BY <1>2 DEF AnswerBid
    <2> QED
      BY <1>2, <2>1, AnswerBidRows
  <1>3. CASE AnswerMessageBid(q)
    <2>1. ~ (q.index > Len(rows))
      BY <1>3 DEF AnswerMessageBid
    <2>2. q.index \in Nat /\ Len(rows) \in Nat
      BY <1>3, CallType DEF AnswerMessageBid, TypeInv, TypeOK
    <2>3. q.index <= Len(rows)
      BY <2>1, <2>2
    <2> QED
      BY <1>3, <2>3, AnswerMessageBidRows
  <1>4. CASE AnswerPreview(q)
    <2>1. ~ (q.index > Len(rows))
      BY <1>4 DEF AnswerPreview
    <2>2. q.index \in Nat /\ Len(rows) \in Nat
      BY <1>4, CallType DEF AnswerPreview, TypeInv, TypeOK
    <2>3. q.index <= Len(rows)
      BY <2>1, <2>2
    <2> QED
      BY <1>4, <2>3, AnswerPreviewRows
  <1>5. CASE AnswerChat(q) \/ AnswerError(q)
    BY <1>5 DEF AnswerChat, AnswerError, TypeInv, TypeOK
  <1> QED
    BY <1>1, <1>2, <1>3, <1>4, <1>5

LEMMA AnswerType ==
    ASSUME ConstantsAssumption, TypeInv, NEW q \in calls, Answer(q)
    PROVE  TypeInv'
  <1>1. CASE Die
    BY <1>1, DieType
  <1>2. CASE ~ Die
    <2>1. rows' \in Seq(Row)
      BY <1>2, AnswerRows DEF Answer
    <2>2. /\ calls' \subseteq Call
          /\ Bounded'
          /\ UNCHANGED <<documents, listed, watched, heardChat, heardMsgs, left>>
      BY <1>2, AnswerCalls DEF Answer
    <2> QED
      BY <2>1, <2>2 DEF TypeInv, TypeOK, documents
  <1> QED
    BY <1>1, <1>2

LEMMA NextType == ConstantsAssumption /\ TypeInv /\ [Next]_vars => TypeInv'
  <1> SUFFICES ASSUME ConstantsAssumption, TypeInv, [Next]_vars PROVE TypeInv'
    OBVIOUS
  <1>1. ASSUME NEW c \in Chats, Write(c) PROVE TypeInv'
    BY <1>1, WriteTypes
  <1>2. ASSUME NEW c \in Chats, Listener(c) PROVE TypeInv'
    BY <1>2, HearConversationType, HearInChatType DEF Listener
  <1>3. ASSUME NEW q \in calls, Answer(q) PROVE TypeInv'
    BY <1>3, AnswerType
  <1>4. CASE UNCHANGED vars
    BY <1>4 DEF vars, documents, list, TypeInv, TypeOK, Bounded
  <1>5. CASE MissDocument
    BY <1>5, DieType
  <1> QED
    BY <1>1, <1>2, <1>3, <1>4, <1>5 DEF Next, Load

LEMMA AlwaysTyped == Spec => []TypeInv
  <1>1. Init => TypeInv
    BY InitType, ConstantsAssumption
  <1>2. TypeInv /\ [Next]_vars => TypeInv'
    BY NextType, ConstantsAssumption
  <1> QED
    BY <1>1, <1>2, PTL DEF Spec

(* Every reachable state of the list and the documents has its type: no    *)
(* completion block of MessageTableViewController leaves a row, an index or*)
(* a query that is not one.                                                *)
THEOREM TypeCorrect == Spec => []TypeOK
  <1>1. TypeInv => TypeOK
    BY DEF TypeInv
  <1> QED
    BY AlwaysTyped, <1>1, PTL

-----------------------------------------------------------------------------
(* The rows are the active conversations.                                  *)

(* Steps that move no row and no query for a job.                          *)
SameRows == DOMAIN rows' = DOMAIN rows /\ \A i \in DOMAIN rows : rows'[i].chat = rows[i].chat

LEMMA NothingMoves ==
    ASSUME RowsAreConversations, SameRows, listed' = listed,
           \A q : q.asks = "job" => (q \in calls' <=> q \in calls)
    PROVE  RowsAreConversations'
  <1>1. \A c \in Chats : RowsOf(c)' = RowsOf(c)
    BY DEF SameRows, RowsOf
  <1>2. \A c \in Chats : JobCalls(c)' = JobCalls(c)
    BY DEF JobCalls
  <1>3. \A i, k \in DOMAIN rows' : rows'[i].chat = rows'[k].chat => i = k
    BY DEF SameRows, RowsAreConversations
  <1>4. \A p, q \in calls' : p.asks = "job" /\ q.asks = "job" /\ p.chat = q.chat => p = q
    BY DEF RowsAreConversations
  <1> QED
    BY <1>1, <1>2, <1>3, <1>4 DEF RowsAreConversations, IsActive

LEMMA DieRows ==
    ASSUME Die \/ MissDocument
    PROVE  RowsAreConversations' /\ IndexesHoldUntilLeft'
  <1>1. LoadAnew
    BY DEF Die, MissDocument
  <1>2. \A c \in Chats : RowsOf(c)' = {} /\ JobCalls(c)' = {} /\ ~ IsActive(c)'
    BY <1>1 DEF LoadAnew, RowsOf, JobCalls, IsActive
  <1>3. DOMAIN rows' = {} /\ calls' = {}
    BY <1>1 DEF LoadAnew
  <1> QED
    BY <1>2, <1>3 DEF RowsAreConversations, IndexesHoldUntilLeft

LEMMA RowCallsJobs ==
    ASSUME NEW c \in Chats
    PROVE  /\ \E q \in RowCalls(c) : q.asks = "job" /\ q.chat = c
           /\ \A q \in RowCalls(c) : q.chat = c /\ q.asks \in {"job", "chat"}
           /\ \A p, q \in RowCalls(c) : p.asks = "job" /\ q.asks = "job" => p = q
           /\ \A q \in RowCalls(c) : q.asks = "chat" => q.msg = 0
  BY DEF RowCalls

LEMMA HearNewRows ==
    ASSUME TypeInv, RowsAreConversations, NEW c \in Chats,
           HearAdded(c) \/ HearResumed(c)
    PROVE  RowsAreConversations'
  <1>0. /\ rows' = rows
        /\ listed[c] # "active"
        /\ listed'[c] = conv[c]
        /\ \A d \in Chats : d # c => listed'[d] = listed[d]
    BY DEF HearAdded, HearResumed, Hears, TypeInv, TypeOK
  <1>1. CASE conv[c] # "active"
    <2>1. calls' = calls
      BY <1>1 DEF HearAdded, HearResumed
    <2> QED
      BY <1>0, <1>1, <2>1 DEF RowsAreConversations, RowsOf, JobCalls, IsActive
  <1>2. CASE conv[c] = "active"
    <2>1. calls' = calls \cup RowCalls(c)
      BY <1>2 DEF HearAdded, HearResumed
    <2>2. RowsOf(c) = {} /\ JobCalls(c) = {}
      BY <1>0 DEF RowsAreConversations, IsActive
    <2>3. \A d \in Chats : RowsOf(d)' = RowsOf(d)
      BY <1>0 DEF RowsOf
    <2>4. JobCalls(c)' # {}
      BY <2>1, RowCallsJobs DEF JobCalls
    <2>5. \A d \in Chats : d # c => JobCalls(d)' = JobCalls(d)
      BY <2>1, RowCallsJobs DEF JobCalls
    <2>6. ASSUME NEW p \in calls', NEW q \in calls',
                 p.asks = "job", q.asks = "job", p.chat = q.chat
          PROVE  p = q
      <3>1. \A x \in calls : ~ (x.asks = "job" /\ x.chat = c)
        BY <2>2 DEF JobCalls
      <3>2. CASE p.chat = c
        <4>1. p \in RowCalls(c) /\ q \in RowCalls(c)
          BY <2>1, <2>6, <3>1, <3>2
        <4> QED
          BY <2>6, <4>1, RowCallsJobs
      <3>3. CASE p.chat # c
        BY <2>1, <2>6, <3>3, RowCallsJobs DEF RowsAreConversations
      <3> QED
        BY <3>2, <3>3
    <2>7. \A d \in Chats : IsActive(d)' <=> RowsOf(d)' # {} \/ JobCalls(d)' # {}
      <3> TAKE d \in Chats
      <3>1. CASE d = c
        BY <1>0, <1>2, <2>4, <3>1 DEF IsActive
      <3>2. CASE d # c
        BY <1>0, <2>3, <2>5, <3>2 DEF IsActive, RowsAreConversations
      <3> QED
        BY <3>1, <3>2
    <2>8. \A d \in Chats : RowsOf(d)' = {} \/ JobCalls(d)' = {}
      BY <2>2, <2>3, <2>5 DEF RowsAreConversations
    <2> QED
      BY <1>0, <2>6, <2>7, <2>8 DEF RowsAreConversations
  <1> QED
    BY <1>1, <1>2

LEMMA HearLeftRows ==
    ASSUME TypeInv, RowsAreConversations, NEW c \in Chats, HearLeft(c)
    PROVE  RowsAreConversations'
  <1>1. CASE RowsOf(c) = {}
    BY <1>1, DieRows DEF HearLeft
  <1>2. CASE RowsOf(c) # {}
    <2> DEFINE i == FirstIndex(c)
               n == Len(rows)
    <2>1. /\ i \in DOMAIN rows
          /\ rows[i].chat = c
          /\ DOMAIN rows = 1..n
          /\ n \in Nat
      BY <1>2, FirstIndexType DEF TypeInv, TypeOK
    <2>2. /\ rows' \in Seq(Row)
          /\ Len(rows') = n - 1
          /\ \A k \in 1..n - 1 : rows'[k] = IF k < i THEN rows[k] ELSE rows[k + 1]
      BY <1>2, <2>1, RowRemoved DEF HearLeft, TypeInv, TypeOK
    <2>3. DOMAIN rows' = 1..n - 1
      BY <2>2
    <2>4. calls' = calls /\ listed' = [listed EXCEPT ![c] = conv[c]] /\ conv[c] = "inactive"
      BY <1>2 DEF HearLeft, Hears
    <2> HIDE DEF i, n
    <2>5. \A j, k \in DOMAIN rows : rows[j].chat = rows[k].chat => j = k
      BY DEF RowsAreConversations
    <2>6. i \in Int /\ 1 <= i /\ i <= n
      BY <2>1
    <2>7. ASSUME NEW k \in DOMAIN rows'
          PROVE  /\ k \in Nat
                 /\ k < i => k \in DOMAIN rows /\ rows'[k] = rows[k]
                 /\ k >= i => k + 1 \in DOMAIN rows /\ rows'[k] = rows[k + 1]
      BY <2>1, <2>2, <2>3, <2>6, <2>7
    <2>8. ASSUME NEW j \in DOMAIN rows', NEW k \in DOMAIN rows',
                 rows'[j].chat = rows'[k].chat
          PROVE  j = k
      <3>1. CASE j < i /\ k < i
        BY <2>5, <2>7, <2>8, <3>1
      <3>2. CASE j >= i /\ k >= i
        BY <2>5, <2>6, <2>7, <2>8, <3>2
      <3>3. CASE j < i /\ k >= i
        <4>1. j = k + 1
          BY <2>5, <2>7, <2>8, <3>3
        <4> QED
          BY <2>6, <2>7, <3>3, <4>1
      <3>4. CASE j >= i /\ k < i
        <4>1. k = j + 1
          BY <2>5, <2>7, <2>8, <3>4
        <4> QED
          BY <2>6, <2>7, <3>4, <4>1
      <3> QED
        BY <2>6, <2>7, <3>1, <3>2, <3>3, <3>4
    <2>9. RowsOf(c)' = {}
      <3> SUFFICES ASSUME NEW k \in DOMAIN rows', rows'[k].chat = c PROVE FALSE
        BY DEF RowsOf
      <3>1. CASE k < i
        BY <2>1, <2>5, <2>6, <2>7, <3>1
      <3>2. CASE k >= i
        <4>1. k + 1 = i
          BY <2>1, <2>5, <2>7, <3>2
        <4> QED
          BY <2>6, <2>7, <3>2, <4>1
      <3> QED
        BY <2>6, <2>7, <3>1, <3>2
    <2>10. ASSUME NEW d \in Chats, d # c PROVE RowsOf(d)' = {} <=> RowsOf(d) = {}
      <3>1. ASSUME NEW k \in DOMAIN rows', rows'[k].chat = d PROVE RowsOf(d) # {}
        <4>1. CASE k < i
          BY <2>7, <3>1, <4>1 DEF RowsOf
        <4>2. CASE k >= i
          BY <2>7, <3>1, <4>2 DEF RowsOf
        <4> QED
          BY <2>6, <2>7, <4>1, <4>2
      <3>2. ASSUME NEW k \in DOMAIN rows, rows[k].chat = d PROVE RowsOf(d)' # {}
        <4>0. k # i /\ k \in Int /\ 1 <= k /\ k <= n
          BY <2>1, <2>10, <3>2
        <4>1. CASE k < i
          <5>1. k \in 1..n - 1
            BY <2>1, <2>6, <4>0, <4>1
          <5>2. rows'[k] = rows[k]
            BY <2>2, <4>1, <5>1
          <5> QED
            BY <2>3, <3>2, <5>1, <5>2 DEF RowsOf
        <4>2. CASE k > i
          <5>1. k - 1 \in 1..n - 1 /\ ~ (k - 1 < i) /\ (k - 1) + 1 = k
            BY <2>1, <2>6, <4>0, <4>2
          <5>2. rows'[k - 1] = rows[k]
            BY <2>2, <5>1
          <5> QED
            BY <2>3, <3>2, <5>1, <5>2 DEF RowsOf
        <4> QED
          BY <2>6, <4>0, <4>1, <4>2
      <3> QED
        BY <3>1, <3>2 DEF RowsOf
    <2>11. \A d \in Chats : JobCalls(d)' = JobCalls(d)
      BY <2>4 DEF JobCalls
    <2>12. JobCalls(c) = {}
      BY <1>2 DEF RowsAreConversations
    <2>13. \A d \in Chats : IsActive(d)' <=> RowsOf(d)' # {} \/ JobCalls(d)' # {}
      <3> TAKE d \in Chats
      <3>1. CASE d = c
        BY <2>4, <2>9, <2>11, <2>12, <3>1 DEF IsActive, TypeInv, TypeOK
      <3>2. CASE d # c
        <4>1. listed'[d] = listed[d]
          BY <2>4, <3>2 DEF TypeInv, TypeOK
        <4> QED
          BY <2>10, <2>11, <3>2, <4>1 DEF IsActive, RowsAreConversations
      <3> QED
        BY <3>1, <3>2
    <2>14. \A d \in Chats : RowsOf(d)' = {} \/ JobCalls(d)' = {}
      BY <2>9, <2>10, <2>11 DEF RowsAreConversations
    <2> QED
      BY <2>4, <2>8, <2>13, <2>14 DEF RowsAreConversations
  <1> QED
    BY <1>1, <1>2

LEMMA AppendedRow ==
    ASSUME ConstantsAssumption, TypeInv, NEW c \in Chats, rows' = RowsAnd(c)
    PROVE  /\ DOMAIN rows' = 1..Len(rows) + 1
           /\ DOMAIN rows = 1..Len(rows)
           /\ Len(rows) \in Nat
           /\ \A i \in DOMAIN rows : rows'[i] = rows[i]
           /\ rows'[Len(rows) + 1] = NewRow(c)
  <1>1. rows \in Seq(Row) /\ NewRow(c) \in Row
    BY NewRowType DEF TypeInv, TypeOK
  <1> QED
    BY <1>1 DEF RowsAnd

LEMMA AnswerJobRows ==
    ASSUME ConstantsAssumption, TypeInv, RowsAreConversations, NEW q \in calls,
           AnswerJob(q)
    PROVE  RowsAreConversations'
  <1> DEFINE c == q.chat
             n == Len(rows)
  <1>1. c \in Chats /\ q.asks = "job" /\ calls' = calls \ {q} /\ listed' = listed
    BY CallType DEF AnswerJob, Answered, TypeInv, TypeOK
  <1>2. JobCalls(c) = {q} /\ RowsOf(c) = {} /\ IsActive(c)
    BY <1>1 DEF RowsAreConversations, JobCalls
  <1>3. /\ DOMAIN rows' = 1..n + 1
        /\ DOMAIN rows = 1..n
        /\ n \in Nat
        /\ \A i \in DOMAIN rows : rows'[i] = rows[i]
        /\ rows'[n + 1].chat = c
    BY <1>1, AppendedRow, NewRowType DEF AnswerJob
  <1> HIDE DEF c, n
  <1>4. \A i \in DOMAIN rows' : i \in DOMAIN rows \/ i = n + 1
    BY <1>3
  <1>5. n + 1 \in DOMAIN rows' /\ \A i \in DOMAIN rows : i \in DOMAIN rows'
    BY <1>3
  <1>6. \A i \in DOMAIN rows : rows[i].chat # c
    BY <1>2 DEF RowsOf
  <1>7. \A i, k \in DOMAIN rows' : rows'[i].chat = rows'[k].chat => i = k
    BY <1>3, <1>4, <1>6 DEF RowsAreConversations
  <1>8. \A p, r \in calls' : p.asks = "job" /\ r.asks = "job" /\ p.chat = r.chat => p = r
    BY <1>1 DEF RowsAreConversations
  <1>9. RowsOf(c)' # {} /\ JobCalls(c)' = {}
    BY <1>1, <1>2, <1>3, <1>5 DEF RowsOf, JobCalls
  <1>10. \A d \in Chats : d # c => RowsOf(d)' = RowsOf(d)
    BY <1>3, <1>4, <1>5 DEF RowsOf
  <1>11. \A d \in Chats : d # c => JobCalls(d)' = JobCalls(d)
    BY <1>1 DEF JobCalls, c
  <1>12. \A d \in Chats : IsActive(d)' <=> IsActive(d)
    BY <1>1 DEF IsActive
  <1> QED
    BY <1>2, <1>7, <1>8, <1>9, <1>10, <1>11, <1>12 DEF RowsAreConversations

(* What row q.index shows after its bid with a message, or its message.    *)
LEMMA MessageBidShown ==
    ASSUME TypeInv, NEW q \in calls, AnswerMessageBid(q), q.index <= Len(rows),
           NEW k \in DOMAIN rows
    PROVE  /\ rows'[k].chat = rows[k].chat
           /\ k # q.index => rows'[k] = rows[k]
           /\ k = q.index => rows'[k].bid.of = q.chat /\ rows'[k].msg.of = q.chat
  <1>1. q \in Call /\ q.asks = "bids" /\ q.chat \in Chats /\ q.msg \in 0..MaxMessages
    BY CallType DEF TypeInv, TypeOK, AnswerMessageBid
  <1> DEFINE s == [of |-> q.chat, nr |-> q.msg]
  <1>2. s \in Shown /\ s.of = q.chat
    BY <1>1 DEF Shown
  <1>3. rows'[k] = IF k = q.index THEN [RowWithBidAmt(k, q) EXCEPT !.msg = s] ELSE rows[k]
    BY AnswerMessageBidRows
  <1>4. /\ RowWithBidAmt(k, q) \in Row
        /\ RowWithBidAmt(k, q).chat = rows[k].chat
        /\ RowWithBidAmt(k, q).bid.of = q.chat
    BY <1>1, RowWithBidAmtType
  <1> HIDE DEF s
  <1>5. /\ [RowWithBidAmt(k, q) EXCEPT !.msg = s].chat = rows[k].chat
        /\ [RowWithBidAmt(k, q) EXCEPT !.msg = s].bid.of = q.chat
        /\ [RowWithBidAmt(k, q) EXCEPT !.msg = s].msg = s
    BY <1>2, <1>4, RowWithMsg
  <1> QED
    BY <1>2, <1>3, <1>5

LEMMA PreviewShown ==
    ASSUME TypeInv, NEW q \in calls, AnswerPreview(q), q.index <= Len(rows),
           NEW k \in DOMAIN rows
    PROVE  /\ rows'[k].chat = rows[k].chat
           /\ rows'[k].bid = rows[k].bid
           /\ k # q.index => rows'[k] = rows[k]
           /\ k = q.index => rows'[k].msg.of = q.chat
  <1>1. q.chat \in Chats /\ rows[k] \in Row
    BY CallType DEF TypeInv, TypeOK
  <1> DEFINE s == [of |-> q.chat, nr |-> messages[q.chat]]
  <1>2. s \in Shown /\ s.of = q.chat
    BY <1>1 DEF Shown, TypeInv, TypeOK
  <1>3. rows'[k] = IF k = q.index THEN [rows[k] EXCEPT !.msg = s] ELSE rows[k]
    BY AnswerPreviewRows
  <1> HIDE DEF s
  <1>4. /\ [rows[k] EXCEPT !.msg = s].chat = rows[k].chat
        /\ [rows[k] EXCEPT !.msg = s].bid = rows[k].bid
        /\ [rows[k] EXCEPT !.msg = s].msg = s
    BY <1>1, <1>2, RowWithMsg
  <1> QED
    BY <1>2, <1>3, <1>4

(* The rows' chats after an answer that appends no row.                    *)
LEMMA AnswerKeepsRows ==
    ASSUME TypeInv, NEW q \in calls, ~ Die,
           AnswerChat(q) \/ AnswerBid(q) \/ AnswerMessageBid(q)
           \/ AnswerPreview(q) \/ AnswerError(q)
    PROVE  /\ SameRows
           /\ listed' = listed
           /\ \A p : p.asks = "job" => (p \in calls' <=> p \in calls)
  <1>1. q \in Call
    BY DEF TypeInv, TypeOK
  <1>2. CASE AnswerChat(q) \/ AnswerError(q)
    <2>1. rows' = rows /\ listed' = listed /\ q.asks # "job"
      BY <1>2 DEF AnswerChat, AnswerError
    <2>2. \A p : p.asks = "job" => (p \in calls' <=> p \in calls)
      BY <1>2, <2>1 DEF AnswerChat, AnswerError, Answered, AnsweredThen
    <2> QED
      BY <2>1, <2>2 DEF SameRows
  <1>3. CASE AnswerBid(q)
    <2>1. FirstIndex(q.chat) # 0
      BY <1>3 DEF AnswerBid
    <2>2. SameRows
      BY <1>1, <1>3, <2>1, AnswerBidRows, RowWithBidAmtType DEF SameRows, AnswerBid
    <2>3. \A p : p.asks = "job" => (p \in calls' <=> p \in calls)
      BY <1>3, <2>1 DEF AnswerBid, AnsweredThen
    <2> QED
      BY <1>3, <2>1, <2>2, <2>3 DEF AnswerBid
  <1>4. CASE AnswerMessageBid(q)
    <2>1. ~ (q.index > Len(rows)) /\ q.asks = "bids" /\ q.msg > 0
      BY <1>4 DEF AnswerMessageBid
    <2>2. q.index <= Len(rows)
      <3>1. q.index \in Nat /\ Len(rows) \in Nat
        BY <1>1, <2>1, CallType DEF TypeInv, TypeOK
      <3> QED
        BY <2>1, <3>1
    <2>3. SameRows
      BY <1>4, <2>2, MessageBidShown, AnswerMessageBidRows DEF SameRows
    <2>4. \A p : p.asks = "job" => (p \in calls' <=> p \in calls)
      BY <1>4, <2>1 DEF AnswerMessageBid, Answered
    <2> QED
      BY <1>4, <2>1, <2>3, <2>4 DEF AnswerMessageBid
  <1>5. CASE AnswerPreview(q)
    <2>1. ~ (q.index > Len(rows)) /\ q.asks = "preview"
      BY <1>5 DEF AnswerPreview
    <2>2. q.index <= Len(rows)
      <3>1. q.index \in Nat /\ Len(rows) \in Nat
        BY <1>1, <2>1, CallType DEF TypeInv, TypeOK
      <3> QED
        BY <2>1, <3>1
    <2>4. SameRows
      BY <1>5, <2>2, PreviewShown, AnswerPreviewRows DEF SameRows
    <2>5. \A p : p.asks = "job" => (p \in calls' <=> p \in calls)
      BY <1>5, <2>1 DEF AnswerPreview, Answered
    <2> QED
      BY <1>5, <2>1, <2>4, <2>5 DEF AnswerPreview
  <1> QED
    BY <1>2, <1>3, <1>4, <1>5

LEMMA HearInChatRows ==
    ASSUME TypeInv, RowsAreConversations, NEW c \in Chats,
           HearChat(c) \/ HearMessages(c)
    PROVE  RowsAreConversations'
  <1>1. CASE HearChat(c)
    <2>1. SameRows
      BY <1>1, HearChatRows DEF SameRows, TypeInv, TypeOK
    <2> QED
      BY <1>1, <2>1, NothingMoves DEF HearChat
  <1>2. CASE HearMessages(c)
    <2>1. \A q : q.asks = "job" => (q \in calls' <=> q \in calls)
      BY <1>2 DEF HearMessages, MessageCalls
    <2> QED
      BY <1>2, <2>1, NothingMoves DEF HearMessages, SameRows
  <1> QED
    BY <1>1, <1>2

LEMMA NextRows ==
    ConstantsAssumption /\ TypeInv /\ RowsAreConversations /\ [Next]_vars
        => RowsAreConversations'
  <1> SUFFICES ASSUME ConstantsAssumption, TypeInv, RowsAreConversations, [Next]_vars
               PROVE  RowsAreConversations'
    OBVIOUS
  <1>1. ASSUME NEW c \in Chats, Write(c) PROVE RowsAreConversations'
    <2>1. UNCHANGED list
      BY <1>1 DEF Write, WriteChat, WriteMessage, WriteBid, EnterConversation,
                  LeaveConversation, AcceptBid, StoreMessage, Change
    <2> QED
      BY <2>1, NothingMoves DEF list, SameRows
  <1>2. ASSUME NEW c \in Chats, Listener(c) PROVE RowsAreConversations'
    BY <1>2, HearNewRows, HearLeftRows, HearInChatRows DEF Listener
  <1>3. ASSUME NEW q \in calls, Answer(q) PROVE RowsAreConversations'
    <2>1. CASE Die
      BY <2>1, DieRows
    <2>2. CASE AnswerJob(q)
      BY <2>2, AnswerJobRows
    <2>3. CASE ~ Die /\ ~ AnswerJob(q)
      BY <1>3, <2>3, AnswerKeepsRows, NothingMoves DEF Answer
    <2> QED
      BY <2>1, <2>2, <2>3
  <1>4. CASE UNCHANGED vars
    BY <1>4, NothingMoves DEF vars, list, SameRows
  <1>5. CASE MissDocument
    BY <1>5, DieRows
  <1> QED
    BY <1>1, <1>2, <1>3, <1>4, <1>5 DEF Next, Load

(* Whatever order queries and listeners are answered in, the rows of the   *)
(* message list (MessageTableViewController:14) are the active             *)
(* conversations, one row each, but for those whose job is still asked for.*)
THEOREM RowsMatch == Spec => []RowsAreConversations
  <1>1. Init => RowsAreConversations
    BY DEF Init, Empty, RowsAreConversations, RowsOf, JobCalls, IsActive
  <1>2. TypeInv /\ RowsAreConversations /\ [Next]_vars => RowsAreConversations'
    BY NextRows, ConstantsAssumption
  <1> QED
    BY AlwaysTyped, <1>1, <1>2, PTL DEF Spec

-----------------------------------------------------------------------------
(* Indexes, up to the first row removed.                                   *)

Keeps(q) == (q.asks \in {"chat", "bids"} /\ q.msg > 0) \/ q.asks = "preview"

IndexRight(q) == q.index \in DOMAIN rows /\ rows[q.index].chat = q.chat

IndexesRight ==
    /\ \A i \in DOMAIN rows : ShowsOwnChat(i)
    /\ \A q \in calls : Keeps(q) => IndexRight(q)

LEMMA IndexesMeaning == IndexesHoldUntilLeft <=> (left \/ IndexesRight)
  BY DEF IndexesHoldUntilLeft, IndexesRight, Keeps, IndexRight

LEMMA IndexKept ==
    ASSUME SameRows, NEW q, IndexRight(q)
    PROVE  IndexRight(q)'
  BY DEF SameRows, IndexRight

LEMMA ListenersKeepIndexes ==
    ASSUME ConstantsAssumption, TypeInv, IndexesHoldUntilLeft, NEW c \in Chats, Listener(c)
    PROVE  IndexesHoldUntilLeft'
  <1>1. CASE HearLeft(c)
    <2>1. CASE RowsOf(c) = {}
      BY <1>1, <2>1, DieRows DEF HearLeft
    <2>2. CASE RowsOf(c) # {}
      BY <1>1, <2>2, IndexesMeaning DEF HearLeft, IndexesHoldUntilLeft
    <2> QED
      BY <2>1, <2>2
  <1>2. CASE HearAdded(c) \/ HearResumed(c)
    <2>1. rows' = rows /\ left' = left /\ calls' \subseteq calls \cup RowCalls(c)
      BY <1>2 DEF HearAdded, HearResumed
    <2>2. \A q \in RowCalls(c) : ~ Keeps(q)
      BY RowCallsJobs DEF Keeps
    <2> QED
      BY <2>1, <2>2 DEF IndexesHoldUntilLeft, Keeps, ShowsOwnChat
  <1>3. CASE HearChat(c)
    <2>1. /\ SameRows /\ left' = left /\ calls' = calls
          /\ \A i \in DOMAIN rows : rows'[i].bid = rows[i].bid /\ rows'[i].msg = rows[i].msg
      BY <1>3, HearChatRows DEF SameRows, HearChat, TypeInv, TypeOK
    <2>2. IndexesRight => IndexesRight'
      BY <2>1, IndexKept DEF IndexesRight, ShowsOwnChat, SameRows, Keeps
    <2> QED
      BY <2>1, <2>2, IndexesMeaning DEF IndexesHoldUntilLeft, IndexesRight, Keeps, IndexRight
  <1>4. CASE HearMessages(c)
    <2>1. rows' = rows /\ left' = left
      BY <1>4 DEF HearMessages
    <2>2. \A q \in calls' : q \in calls \/ IndexRight(q)
      <3>1. CASE RowsOf(c) = {}
        BY <1>4, <3>1 DEF HearMessages
      <3>2. CASE RowsOf(c) # {}
        <4>1. \A q \in MessageCalls(c) : q.index = FirstIndex(c) /\ q.chat = c
          BY MessageCallsType
        <4>2. FirstIndex(c) \in DOMAIN rows /\ rows[FirstIndex(c)].chat = c
          BY <3>2, FirstIndexType DEF TypeInv, TypeOK
        <4> QED
          BY <1>4, <3>2, <4>1, <4>2 DEF HearMessages, IndexRight
      <3> QED
        BY <3>1, <3>2
    <2> QED
      BY <2>1, <2>2 DEF IndexesHoldUntilLeft, Keeps, IndexRight, ShowsOwnChat
  <1> QED
    BY <1>1, <1>2, <1>3, <1>4 DEF Listener

LEMMA AnswersKeepIndexes ==
    ASSUME ConstantsAssumption, TypeInv, IndexesRight, NEW q \in calls, ~ Die, Answer(q)
    PROVE  IndexesRight'
  <1>1. q \in Call /\ q.chat \in Chats
    BY CallType DEF TypeInv, TypeOK
  <1>2. CASE AnswerJob(q)
    <2>1. /\ DOMAIN rows' = 1..Len(rows) + 1 /\ DOMAIN rows = 1..Len(rows)
          /\ Len(rows) \in Nat
          /\ \A i \in DOMAIN rows : rows'[i] = rows[i]
          /\ rows'[Len(rows) + 1] = NewRow(q.chat)
          /\ calls' \subseteq calls
      BY <1>1, <1>2, AppendedRow DEF AnswerJob, Answered
    <2>2. \A i \in DOMAIN rows : i \in DOMAIN rows'
      BY <2>1
    <2>3. ASSUME NEW p \in calls', Keeps(p) PROVE IndexRight(p)'
      BY <2>1, <2>2, <2>3 DEF IndexesRight, IndexRight
    <2>4. ASSUME NEW i \in DOMAIN rows' PROVE ShowsOwnChat(i)'
      <3>1. CASE i \in DOMAIN rows
        BY <2>1, <3>1 DEF IndexesRight, ShowsOwnChat
      <3>2. CASE i = Len(rows) + 1
        BY <1>1, <2>1, <3>2, NewRowType DEF ShowsOwnChat
      <3> QED
        BY <2>1, <3>1, <3>2
    <2> QED
      BY <2>3, <2>4 DEF IndexesRight, Keeps
  <1>3. CASE AnswerChat(q)
    <2>1. rows' = rows /\ q.asks = "chat"
      BY <1>3 DEF AnswerChat
    <2>2. ASSUME NEW p \in calls', Keeps(p) PROVE IndexRight(p)
      <3>1. CASE p \in calls
        BY <2>2, <3>1 DEF IndexesRight
      <3>2. CASE p \notin calls
        <4>1. p.asks = "bids" /\ p.chat = q.chat /\ p.msg = q.msg /\ p.index = q.index
          BY <1>3, <3>2 DEF AnswerChat, AnsweredThen
        <4>2. Keeps(q)
          BY <2>1, <2>2, <4>1 DEF Keeps
        <4> QED
          BY <4>1, <4>2 DEF IndexesRight, IndexRight
      <3> QED
        BY <3>1, <3>2
    <2> QED
      BY <2>1, <2>2 DEF IndexesRight, IndexRight, ShowsOwnChat, Keeps
  <1>4. CASE AnswerBid(q)
    <2> DEFINE f == FirstIndex(q.chat)
    <2>1. f # 0
      BY <1>4 DEF AnswerBid
    <2>2. /\ f \in DOMAIN rows /\ rows[f].chat = q.chat
          /\ DOMAIN rows' = DOMAIN rows
          /\ \A k \in DOMAIN rows :
               rows'[k] = IF k = f THEN RowWithBidAmt(k, q) ELSE rows[k]
      BY <1>4, <2>1, AnswerBidRows
    <2>3. calls' = (calls \ {q}) \cup {[asks |-> "preview", chat |-> q.chat,
                                        n |-> q.n, index |-> f]}
      BY <1>4, <2>1 DEF AnswerBid, AnsweredThen
    <2>4. SameRows
      BY <1>4, AnswerKeepsRows
    <2>5. \A k \in DOMAIN rows : /\ RowWithBidAmt(k, q).bid.of = q.chat
                                 /\ RowWithBidAmt(k, q).msg = rows[k].msg
      BY <1>1, <1>4, RowWithBidAmtType DEF AnswerBid
    <2> HIDE DEF f
    <2>6. ASSUME NEW i \in DOMAIN rows' PROVE ShowsOwnChat(i)'
      <3>1. i \in DOMAIN rows /\ rows'[i].chat = rows[i].chat /\ ShowsOwnChat(i)
        BY <2>2, <2>4 DEF IndexesRight, SameRows
      <3>2. CASE i = f
        BY <2>2, <2>5, <3>1, <3>2 DEF ShowsOwnChat
      <3>3. CASE i # f
        BY <2>2, <3>1, <3>3 DEF ShowsOwnChat
      <3> QED
        BY <3>2, <3>3
    <2>7. ASSUME NEW p \in calls', Keeps(p) PROVE IndexRight(p)'
      <3>1. CASE p \in calls
        BY <2>4, <2>7, <3>1, IndexKept DEF IndexesRight
      <3>2. CASE p \notin calls
        <4>1. p.index = f /\ p.chat = q.chat
          BY <2>3, <3>2
        <4>2. IndexRight(p)
          BY <2>2, <4>1 DEF IndexRight
        <4> QED
          BY <2>4, <4>2, IndexKept
      <3> QED
        BY <3>1, <3>2
    <2> QED
      BY <2>6, <2>7 DEF IndexesRight, Keeps
  <1>5. CASE AnswerMessageBid(q) \/ AnswerPreview(q) \/ AnswerError(q)
    <2>1. SameRows
      BY <1>5, AnswerKeepsRows
    <2>2. calls' \subseteq calls
      BY <1>5 DEF AnswerMessageBid, AnswerPreview, AnswerError, Answered
    <2>3. ASSUME NEW p \in calls', Keeps(p) PROVE IndexRight(p)'
      BY <2>1, <2>2, <2>3, IndexKept DEF IndexesRight
    <2>4. ASSUME NEW i \in DOMAIN rows' PROVE ShowsOwnChat(i)'
      <3>1. /\ i \in DOMAIN rows /\ rows'[i].chat = rows[i].chat
            /\ rows[i].bid.of = rows[i].chat /\ rows[i].msg.of = rows[i].chat
        BY <2>1 DEF IndexesRight, SameRows, ShowsOwnChat
      <3>2. CASE AnswerError(q)
        BY <3>1, <3>2 DEF AnswerError, ShowsOwnChat
      <3>3. CASE AnswerMessageBid(q)
        <4>1. rows[q.index].chat = q.chat /\ q.index \in DOMAIN rows
          BY <3>3 DEF AnswerMessageBid, IndexesRight, Keeps, IndexRight
        <4>2. q.index <= Len(rows)
          BY <4>1 DEF TypeInv, TypeOK
        <4> QED
          BY <3>1, <3>3, <4>1, <4>2, MessageBidShown DEF ShowsOwnChat
      <3>4. CASE AnswerPreview(q)
        <4>1. rows[q.index].chat = q.chat /\ q.index \in DOMAIN rows
          BY <3>4 DEF AnswerPreview, IndexesRight, Keeps, IndexRight
        <4>2. q.index <= Len(rows)
          BY <4>1 DEF TypeInv, TypeOK
        <4> QED
          BY <3>1, <3>4, <4>1, <4>2, PreviewShown DEF ShowsOwnChat
      <3> QED
        BY <1>5, <3>2, <3>3, <3>4
    <2> QED
      BY <2>3, <2>4 DEF IndexesRight, Keeps
  <1> QED
    BY <1>2, <1>3, <1>4, <1>5 DEF Answer

LEMMA NextIndexes ==
    ConstantsAssumption /\ TypeInv /\ IndexesHoldUntilLeft /\ [Next]_vars
        => IndexesHoldUntilLeft'
  <1> SUFFICES ASSUME ConstantsAssumption, TypeInv, IndexesHoldUntilLeft, [Next]_vars
               PROVE  IndexesHoldUntilLeft'
    OBVIOUS
  <1>1. CASE UNCHANGED list
    BY <1>1 DEF list, IndexesHoldUntilLeft, ShowsOwnChat
  <1>2. ASSUME NEW c \in Chats, Listener(c) PROVE IndexesHoldUntilLeft'
    BY <1>2, ListenersKeepIndexes
  <1>3. ASSUME NEW q \in calls, Answer(q) PROVE IndexesHoldUntilLeft'
    <2>1. CASE Die
      BY <2>1, DieRows
    <2>2. CASE ~ Die
      <3>1. left' = left
        BY <1>3, <2>2, AnswerCalls DEF Answer
      <3>2. IndexesRight => IndexesRight'
        BY <1>3, <2>2, AnswersKeepIndexes
      <3> QED
        BY <3>1, <3>2 DEF IndexesHoldUntilLeft, IndexesRight, Keeps, IndexRight
    <2> QED
      BY <2>1, <2>2
  <1>4. ASSUME NEW c \in Chats, Write(c) PROVE UNCHANGED list
    BY <1>4 DEF Write, WriteChat, WriteMessage, WriteBid, EnterConversation,
                LeaveConversation, AcceptBid, StoreMessage, Change
  <1>5. CASE MissDocument
    BY <1>5, DieRows
  <1> QED
    BY <1>1, <1>2, <1>3, <1>4, <1>5 DEF Next, Load, vars

(* The index a completion block keeps (MessageTableViewController:78, 190) *)
(* is that of its chat, and every row shows its own chat, until a          *)
(* conversation is left.                                                   *)
THEOREM IndexesHold == Spec => []IndexesHoldUntilLeft
  <1>1. Init => IndexesHoldUntilLeft
    BY DEF Init, Empty, IndexesHoldUntilLeft
  <1>2. TypeInv /\ IndexesHoldUntilLeft /\ [Next]_vars => IndexesHoldUntilLeft'
    BY NextIndexes, ConstantsAssumption
  <1> QED
    BY AlwaysTyped, <1>1, <1>2, PTL DEF Spec

-----------------------------------------------------------------------------
(* A list on documents that rest.  A row whose own query for its bid is    *)
(* still under way may show anything; every other row is right, and so is  *)
(* what the queries under way have noted.                                  *)

OwnBidCalls(c) == {q \in calls : q.chat = c /\ q.asks \in {"chat", "bids"} /\ q.msg = 0}

RowIsRight(i) ==
    /\ rows[i].accepted <=> rows[i].chat \in accepted
    /\ rows[i].bid = [of |-> rows[i].chat, nr |-> bids[rows[i].chat]]

StillInv ==
    /\ ~ left
    /\ \A c \in Chats : listed[c] \in {"none", conv[c]}
    /\ \A q \in calls : q.asks = "bids" => (q.accepted <=> q.chat \in accepted)
    /\ \A c \in Chats : JobCalls(c) # {} => OwnBidCalls(c) # {}
    /\ \A i \in DOMAIN rows : OwnBidCalls(rows[i].chat) # {} \/ RowIsRight(i)

Still == changes = 0 /\ ~ Failing => StillInv

LEMMA DieStill ==
    ASSUME Die
    PROVE  StillInv'
  BY DEF Die, LoadAnew, StillInv, JobCalls

LEMMA HearConversationStill ==
    ASSUME TypeInv, RowsAreConversations, StillInv, NEW c \in Chats,
           HearAdded(c) \/ HearResumed(c) \/ HearLeft(c)
    PROVE  StillInv'
  <1>1. HearAdded(c)
    BY DEF StillInv, HearAdded, HearResumed, HearLeft
  <1>2. /\ UNCHANGED <<documents, rows, left>>
        /\ listed' = [listed EXCEPT ![c] = conv[c]]
        /\ calls' \in {calls, calls \cup RowCalls(c)}
    BY <1>1 DEF HearAdded, Hears
  <1>3. \A d \in Chats : listed'[d] \in {"none", conv'[d]}
    BY <1>2 DEF StillInv, documents, TypeInv, TypeOK
  <1>4. \A d : OwnBidCalls(d) \subseteq OwnBidCalls(d)'
    BY <1>2 DEF OwnBidCalls
  <1>5. calls' = calls \cup RowCalls(c) => OwnBidCalls(c)' # {}
    <2>1. PICK q \in RowCalls(c) : q.asks = "chat" /\ q.chat = c /\ q.msg = 0
      BY DEF RowCalls
    <2> QED
      BY <2>1 DEF OwnBidCalls
  <1>6. \A d \in Chats : d # c => JobCalls(d)' = JobCalls(d)
    BY <1>2, RowCallsJobs DEF JobCalls
  <1>7. \A d \in Chats : JobCalls(d)' # {} => OwnBidCalls(d)' # {}
    BY <1>2, <1>4, <1>5, <1>6 DEF StillInv, JobCalls
  <1>8. \A q \in calls' : q.asks = "bids" => (q.accepted <=> q.chat \in accepted')
    BY <1>2, RowCallsJobs DEF StillInv, documents
  <1>9. \A i \in DOMAIN rows' : OwnBidCalls(rows[i].chat)' # {} \/ RowIsRight(i)'
    BY <1>2, <1>4 DEF StillInv, RowIsRight, documents
  <1> QED
    BY <1>2, <1>3, <1>7, <1>8, <1>9 DEF StillInv

(* What "accepted" a row shows after its chat's listener spoke.            *)
LEMMA HearChatAccepted ==
    ASSUME TypeInv, NEW c \in Chats, HearChat(c), NEW k \in DOMAIN rows
    PROVE  \/ rows'[k].accepted = rows[k].accepted
           \/ rows[k].chat = c /\ (rows'[k].accepted <=> c \in accepted)
  <1>1. CASE RowsOf(c) = {}
    BY <1>1 DEF HearChat
  <1>2. CASE RowsOf(c) # {}
    <2> DEFINE i == FirstIndex(c)
               a == c \in accepted
               r == [rows[i] EXCEPT !.accepted = a]
    <2>1. i \in Nat /\ i \in DOMAIN rows /\ rows[i].chat = c /\ rows[i] \in Row
      BY <1>2, FirstIndexType DEF TypeInv, TypeOK
    <2>2. a \in BOOLEAN
      OBVIOUS
    <2>3. rows' = [rows EXCEPT ![i] = r]
      BY <1>2 DEF HearChat
    <2> HIDE DEF i, a
    <2>4. r \in Row /\ r.accepted = a
      BY <2>1, <2>2, AcceptedRow
    <2> HIDE DEF r
    <2>5. rows'[k] = IF k = i THEN r ELSE rows[k]
      BY <2>1, <2>3, <2>4, RowsExcept DEF TypeInv, TypeOK
    <2>6. a <=> c \in accepted
      BY DEF a
    <2> QED
      BY <2>1, <2>4, <2>5, <2>6
  <1> QED
    BY <1>1, <1>2

LEMMA HearInChatStill ==
    ASSUME ConstantsAssumption, TypeInv, StillInv, NEW c \in Chats,
           HearChat(c) \/ HearMessages(c)
    PROVE  StillInv'
  <1>1. CASE HearChat(c)
    <2>1. UNCHANGED <<documents, listed, calls, left>>
      BY <1>1 DEF HearChat
    <2>2. /\ DOMAIN rows' = DOMAIN rows
          /\ \A i \in DOMAIN rows : rows'[i].chat = rows[i].chat /\ rows'[i].bid = rows[i].bid
      BY <1>1, HearChatRows DEF TypeInv, TypeOK
    <2>3. \A i \in DOMAIN rows : RowIsRight(i) => RowIsRight(i)'
      <3> SUFFICES ASSUME NEW i \in DOMAIN rows, RowIsRight(i) PROVE RowIsRight(i)'
        OBVIOUS
      <3>1. \/ rows'[i].accepted = rows[i].accepted
            \/ rows[i].chat = c /\ (rows'[i].accepted <=> c \in accepted)
        BY <1>1, HearChatAccepted
      <3> QED
        BY <2>1, <2>2, <3>1 DEF RowIsRight, documents
    <2>4. \A d : OwnBidCalls(d)' = OwnBidCalls(d) /\ JobCalls(d)' = JobCalls(d)
      BY <2>1 DEF OwnBidCalls, JobCalls
    <2> QED
      BY <2>1, <2>2, <2>3, <2>4 DEF StillInv, documents
  <1>2. CASE HearMessages(c)
    <2>1. /\ UNCHANGED <<documents, listed, rows, left>>
          /\ calls' \in {calls, calls \cup MessageCalls(c)}
      BY <1>2 DEF HearMessages
    <2>2. \A q \in MessageCalls(c) : q.asks = "chat"
      BY MessageCallsType
    <2>3. \A d : JobCalls(d)' = JobCalls(d) /\ OwnBidCalls(d) \subseteq OwnBidCalls(d)'
      BY <2>1, <2>2 DEF OwnBidCalls, JobCalls
    <2>4. \A q \in calls' : q.asks = "bids" => (q.accepted <=> q.chat \in accepted')
      BY <2>1, <2>2 DEF StillInv, documents
    <2>5. \A i \in DOMAIN rows' : OwnBidCalls(rows[i].chat)' # {} \/ RowIsRight(i)'
      BY <2>1, <2>3 DEF StillInv, RowIsRight, documents
    <2> QED
      BY <2>1, <2>3, <2>4, <2>5 DEF StillInv, documents
  <1> QED
    BY <1>1, <1>2

(* A row that getBidAmt's blocks set shows what the query noted.           *)
LEMMA RowWithBidAmtShows ==
    ASSUME TypeInv, NEW i \in DOMAIN rows, NEW q \in Call, q.asks = "bids"
    PROVE  /\ RowWithBidAmt(i, q).accepted = q.accepted
           /\ RowWithBidAmt(i, q).bid = [of |-> q.chat, nr |-> bids[q.chat]]
  <1>1. rows[i] \in Row
    BY DEF TypeInv, TypeOK
  <1> QED
    BY <1>1 DEF RowWithBidAmt, Row

LEMMA RowWithMsgShows ==
    ASSUME NEW r \in Row, NEW s
    PROVE  /\ [r EXCEPT !.msg = s].accepted = r.accepted
           /\ [r EXCEPT !.msg = s].bid = r.bid
           /\ [r EXCEPT !.msg = s].chat = r.chat
  BY DEF Row

(* The answer that ends a row's own query sets the row, which is there:    *)
(* otherwise the app dies.                                                 *)
LEMMA AnswerBidStill ==
    ASSUME TypeInv, RowsAreConversations, StillInv, NEW q \in calls,
           AnswerBid(q), ~ Die
    PROVE  StillInv'
  <1> PICK f : f = FirstIndex(q.chat)
    OBVIOUS
  <1> DEFINE next == [asks |-> "preview", chat |-> q.chat, n |-> q.n, index |-> f]
  <1>1. f # 0 /\ q.asks = "bids" /\ q.msg = 0 /\ q \in Call /\ q.chat \in Chats
    BY CallType DEF AnswerBid, TypeInv, TypeOK
  <1>2. /\ UNCHANGED <<documents, listed, left>>
        /\ calls' = (calls \ {q}) \cup {next}
    BY <1>1 DEF AnswerBid, AnsweredThen
  <1>3. /\ f \in DOMAIN rows /\ rows[f].chat = q.chat
        /\ DOMAIN rows' = DOMAIN rows
        /\ \A k \in DOMAIN rows :
             rows'[k] = IF k = f THEN RowWithBidAmt(k, q) ELSE rows[k]
    BY <1>1, AnswerBidRows
  <1>4. next.asks = "preview"
    OBVIOUS
  <1> HIDE DEF next
  <1>5. \A d : JobCalls(d)' = JobCalls(d)
    BY <1>1, <1>2, <1>4 DEF JobCalls
  <1>6. \A d : d # q.chat => OwnBidCalls(d)' = OwnBidCalls(d)
    BY <1>1, <1>2, <1>4 DEF OwnBidCalls
  <1>7. JobCalls(q.chat) = {} /\ \A k \in DOMAIN rows : rows[k].chat = q.chat => k = f
    BY <1>1, <1>3 DEF RowsAreConversations, RowsOf
  <1>8. ASSUME NEW k \in DOMAIN rows, k # f
        PROVE  OwnBidCalls(rows[k].chat)' # {} \/ RowIsRight(k)'
    BY <1>2, <1>3, <1>6, <1>7, <1>8 DEF StillInv, RowIsRight, documents
  <1>9. RowIsRight(f)'
    <2>1. /\ rows'[f] = RowWithBidAmt(f, q)
          /\ rows'[f].chat = q.chat
          /\ rows'[f].accepted = q.accepted
          /\ rows'[f].bid = [of |-> q.chat, nr |-> bids[q.chat]]
      BY <1>1, <1>3, RowWithBidAmtType, RowWithBidAmtShows
    <2>2. q.accepted <=> q.chat \in accepted
      BY <1>1 DEF StillInv
    <2> QED
      BY <1>2, <2>1, <2>2 DEF RowIsRight, documents
  <1>10. \A p \in calls' : p.asks = "bids" => (p.accepted <=> p.chat \in accepted')
    BY <1>2, <1>4 DEF StillInv, documents
  <1>11. \A d \in Chats : JobCalls(d)' # {} => OwnBidCalls(d)' # {}
    BY <1>5, <1>6, <1>7 DEF StillInv
  <1>12. \A d \in Chats : listed'[d] \in {"none", conv'[d]}
    BY <1>2 DEF StillInv, documents
  <1> QED
    BY <1>2, <1>3, <1>8, <1>9, <1>10, <1>11, <1>12 DEF StillInv

(* A bid that came with a message is written where its row still is.       *)
LEMMA AnswerMessageStill ==
    ASSUME TypeInv, IndexesHoldUntilLeft, StillInv, NEW q \in calls, ~ Die,
           AnswerMessageBid(q) \/ AnswerPreview(q)
    PROVE  StillInv'
  <1>1. /\ q \in Call /\ q.chat \in Chats
        /\ (q.asks = "bids" /\ q.msg > 0) \/ q.asks = "preview"
        /\ q.index \in DOMAIN rows /\ rows[q.index].chat = q.chat
    BY CallType DEF AnswerMessageBid, AnswerPreview, TypeInv, TypeOK,
                    StillInv, IndexesHoldUntilLeft
  <1>2. q.index <= Len(rows) /\ ~ (q.index > Len(rows))
    BY <1>1 DEF TypeInv, TypeOK
  <1>3. UNCHANGED <<documents, listed, left>> /\ calls' = calls \ {q}
    BY <1>2 DEF AnswerMessageBid, AnswerPreview, Answered
  <1>4. \A d : JobCalls(d)' = JobCalls(d) /\ OwnBidCalls(d)' = OwnBidCalls(d)
    <2>1. ~ (q.msg = 0 /\ q.asks \in {"chat", "bids"}) /\ q.asks # "job"
      <3>1. q.asks = "bids" => q.msg \in Int
        BY <1>1, CallType
      <3> QED
        BY <1>1, <3>1
    <2> QED
      BY <1>3, <2>1 DEF JobCalls, OwnBidCalls
  <1>5. DOMAIN rows' = DOMAIN rows /\ \A k \in DOMAIN rows : rows'[k].chat = rows[k].chat
    BY AnswerKeepsRows DEF SameRows
  <1>6. ASSUME NEW k \in DOMAIN rows, RowIsRight(k) PROVE RowIsRight(k)'
    <2>1. rows[k] \in Row
      BY DEF TypeInv, TypeOK
    <2>2. CASE AnswerPreview(q)
      <3> DEFINE s == [of |-> q.chat, nr |-> messages[q.chat]]
      <3>1. rows'[k] = rows[k] \/ rows'[k] = [rows[k] EXCEPT !.msg = s]
        BY <1>2, <2>2, AnswerPreviewRows
      <3> HIDE DEF s
      <3>2. /\ [rows[k] EXCEPT !.msg = s].accepted = rows[k].accepted
            /\ [rows[k] EXCEPT !.msg = s].bid = rows[k].bid
        BY <2>1 DEF Row
      <3>3. rows'[k].accepted = rows[k].accepted /\ rows'[k].bid = rows[k].bid
        BY <3>1, <3>2
      <3> QED
        BY <1>3, <1>5, <1>6, <3>3 DEF RowIsRight, documents
    <2>3. CASE AnswerMessageBid(q)
      <3> DEFINE s == [of |-> q.chat, nr |-> q.msg]
      <3>1. rows'[k] = IF k = q.index THEN [RowWithBidAmt(k, q) EXCEPT !.msg = s]
                       ELSE rows[k]
        BY <1>2, <2>3, AnswerMessageBidRows
      <3> HIDE DEF s
      <3>2. CASE k # q.index
        BY <1>3, <1>6, <3>1, <3>2 DEF RowIsRight, documents
      <3>3. CASE k = q.index
        <4>1. q.asks = "bids" /\ (q.accepted <=> q.chat \in accepted)
          BY <2>3 DEF AnswerMessageBid, StillInv
        <4>2. RowWithBidAmt(k, q) \in Row
          BY <1>1, <4>1, RowWithBidAmtType
        <4>3. /\ rows'[k].accepted = q.accepted
              /\ rows'[k].bid = [of |-> q.chat, nr |-> bids[q.chat]]
          BY <1>1, <3>1, <3>3, <4>1, <4>2, RowWithMsgShows, RowWithBidAmtShows
        <4> QED
          BY <1>1, <1>3, <1>5, <3>3, <4>1, <4>3 DEF RowIsRight, documents
      <3> QED
        BY <3>2, <3>3
    <2> QED
      BY <2>2, <2>3
  <1> QED
    BY <1>3, <1>4, <1>5, <1>6 DEF StillInv, documents

(* The answers that set no row's bid.                                      *)
LEMMA AnswerChatStill ==
    ASSUME ConstantsAssumption, TypeInv, StillInv, NEW q \in calls,
           AnswerChat(q) \/ AnswerJob(q)
    PROVE  StillInv'
  <1>1. q \in Call /\ q.chat \in Chats
    BY CallType DEF TypeInv, TypeOK
  <1>2. CASE AnswerChat(q)
    <2> DEFINE p == [asks |-> "bids", chat |-> q.chat, n |-> q.n, msg |-> q.msg,
                     index |-> q.index, accepted |-> q.chat \in accepted]
    <2>1. /\ UNCHANGED <<documents, listed, rows, left>>
          /\ q.asks = "chat"
          /\ calls' = (calls \ {q}) \cup {p}
      BY <1>2 DEF AnswerChat, AnsweredThen
    <2>2. p.asks = "bids" /\ p.chat = q.chat /\ p.msg = q.msg
      OBVIOUS
    <2>3. p.accepted <=> q.chat \in accepted
      OBVIOUS
    <2> HIDE DEF p
    <2>4. \A d : JobCalls(d)' = JobCalls(d)
      BY <2>1, <2>2 DEF JobCalls
    <2>5. ASSUME NEW d, OwnBidCalls(d) # {} PROVE OwnBidCalls(d)' # {}
      <3>1. PICK r \in calls : r.chat = d /\ r.asks \in {"chat", "bids"} /\ r.msg = 0
        BY <2>5 DEF OwnBidCalls
      <3>2. CASE r = q
        BY <2>1, <2>2, <3>1, <3>2 DEF OwnBidCalls
      <3>3. CASE r # q
        BY <2>1, <3>1, <3>3 DEF OwnBidCalls
      <3> QED
        BY <3>2, <3>3
    <2>6. \A r \in calls' : r.asks = "bids" => (r.accepted <=> r.chat \in accepted')
      BY <2>1, <2>2, <2>3 DEF StillInv, documents
    <2>7. \A i \in DOMAIN rows' : OwnBidCalls(rows[i].chat)' # {} \/ RowIsRight(i)'
      BY <2>1, <2>5 DEF StillInv, RowIsRight, documents
    <2>8. \A d \in Chats : JobCalls(d)' # {} => OwnBidCalls(d)' # {}
      BY <2>4, <2>5 DEF StillInv
    <2> QED
      BY <2>1, <2>6, <2>7, <2>8 DEF StillInv, documents
  <1>3. CASE AnswerJob(q)
    <2>1. /\ UNCHANGED <<documents, listed, left>>
          /\ q.asks = "job"
          /\ calls' = calls \ {q}
      BY <1>3 DEF AnswerJob, Answered
    <2>2. /\ DOMAIN rows' = 1..Len(rows) + 1 /\ DOMAIN rows = 1..Len(rows)
          /\ Len(rows) \in Nat
          /\ \A i \in DOMAIN rows : rows'[i] = rows[i]
          /\ rows'[Len(rows) + 1].chat = q.chat
      BY <1>1, <1>3, AppendedRow, NewRowType DEF AnswerJob
    <2>3. \A d : OwnBidCalls(d)' = OwnBidCalls(d) /\ JobCalls(d)' \subseteq JobCalls(d)
      BY <2>1 DEF OwnBidCalls, JobCalls
    <2>4. OwnBidCalls(q.chat) # {}
      BY <1>1, <2>1 DEF StillInv, JobCalls
    <2>5. ASSUME NEW i \in DOMAIN rows'
          PROVE  OwnBidCalls(rows[i].chat)' # {} \/ RowIsRight(i)'
      <3>1. CASE i \in DOMAIN rows
        BY <2>1, <2>2, <2>3, <3>1 DEF StillInv, RowIsRight, documents
      <3>2. CASE i = Len(rows) + 1
        BY <2>2, <2>3, <2>4, <3>2
      <3> QED
        BY <2>2, <3>1, <3>2
    <2>6. \A d \in Chats : JobCalls(d)' # {} => OwnBidCalls(d)' # {}
      BY <2>3 DEF StillInv
    <2>7. \A r \in calls' : r.asks = "bids" => (r.accepted <=> r.chat \in accepted')
      BY <2>1 DEF StillInv, documents
    <2> QED
      BY <2>1, <2>5, <2>6, <2>7 DEF StillInv, documents
  <1> QED
    BY <1>2, <1>3

LEMMA NextStill ==
    ConstantsAssumption /\ TypeInv /\ RowsAreConversations /\ IndexesHoldUntilLeft
      /\ Still /\ [Next]_vars => Still'
  <1> SUFFICES ASSUME ConstantsAssumption, TypeInv, RowsAreConversations,
                      IndexesHoldUntilLeft, Still, [Next]_vars, changes' = 0, ~ Failing
               PROVE  StillInv'
    BY DEF Still
  <1>1. ASSUME MissDocument \/ \E c \in Chats : Write(c) PROVE FALSE
    <2>1. changes' = changes + 1 /\ changes \in Nat
      BY <1>1 DEF MissDocument, Write, WriteChat, WriteMessage, WriteBid, EnterConversation,
                  LeaveConversation, AcceptBid, StoreMessage, Change, TypeInv, TypeOK,
                  ConstantsAssumption
    <2> QED
      BY <2>1
  <1>2. Load \/ UNCHANGED vars
    BY <1>1 DEF Next
  <1>3. StillInv
    <2>1. UNCHANGED documents
      BY <1>2, AnswerCalls DEF Load, Listener, Answer, HearAdded, HearResumed, HearLeft,
         HearChat, HearMessages, Die, vars
    <2> QED
      BY <2>1 DEF Still, documents
  <1>4. ASSUME NEW c \in Chats, Listener(c) PROVE StillInv'
    BY <1>3, <1>4, HearConversationStill, HearInChatStill DEF Listener
  <1>5. ASSUME NEW q \in calls, Answer(q) PROVE StillInv'
    <2>1. CASE Die
      BY <2>1, DieStill
    <2>2. CASE ~ Die
      BY <1>3, <1>5, <2>2, AnswerBidStill, AnswerMessageStill, AnswerChatStill
      DEF Answer, AnswerError
    <2> QED
      BY <2>1, <2>2
  <1>6. CASE UNCHANGED vars
    BY <1>3, <1>6 DEF vars, list, documents, StillInv, JobCalls, OwnBidCalls, RowIsRight
  <1> QED
    BY <1>2, <1>4, <1>5, <1>6 DEF Load

(* The rows of a list opened on documents that rest come to show them,     *)
(* whatever order the listener of a chat (MessageTableViewController:42),  *)
(* getBidAmt and the job of the row are answered in.                       *)
THEOREM StillDocumentsShown == Spec => []StillDocumentsAreShown
  <1>1. Init => Still
    BY DEF Init, Empty, Still, StillInv, JobCalls
  <1>2. TypeInv /\ RowsAreConversations /\ IndexesHoldUntilLeft /\ Still /\ [Next]_vars
          => Still'
    BY NextStill, ConstantsAssumption
  <1>3. Still => StillDocumentsAreShown
    BY DEF Still, StillInv, StillDocumentsAreShown, Loaded, OwnBidCalls, RowIsRight
  <1> QED
    BY AlwaysTyped, RowsMatch, IndexesHold, <1>1, <1>2, <1>3, PTL DEF Spec
=============================================================================
