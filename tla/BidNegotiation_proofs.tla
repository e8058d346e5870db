------------------------ MODULE BidNegotiation_proofs ------------------------
(***************************************************************************)
(* Theorems about BidNegotiation for any set of users and jobs and any     *)
(* bound on the queues: the types; what a conversation and a helpr depend  *)
(* on (Backed), hence that a row finds its bid; who is party to a chat     *)
(* (Paired); that acceptances are recorded whole (Signed); that bids end   *)
(* in both lists (Entering); and that all of it implements Negotiation     *)
(* (DealInv).  Whatever a theorem needs of refusals and crashes is a       *)
(* hypothesis of its own, named above it.                                  *)
(***************************************************************************)
EXTENDS BidNegotiation, WellFoundedInduction, TLAPS

USE DEF history

-----------------------------------------------------------------------------
(* What the kind of a write says about its fields.                         *)
LEMMA WriteFields ==
    ASSUME NEW w \in Write
    PROVE  /\ w.op \in {"chat", "accept"} => w.chat \in Ids
           /\ w.op = "chat" => w.job \in Jobs
           /\ w.op = "message" => w.message \in MessageDoc
           /\ w.op = "bid" => w.bid \in BidDoc
           /\ w.op = "conv" => w.conv \in ConvDoc
           /\ w.op = "active" => w.docs \in SUBSET DocIds /\ w.value \in BOOLEAN
           /\ w.op \in {"helpr", "acceptedJob"} => w.helpr \in JobHelpr
  BY DEF Write

(* What a phone sees has the types of the documents.                       *)
LEMMA SeenTypes ==
    ASSUME TypeOK, NEW u \in Users
    PROVE  /\ SeenBids(u) \subseteq BidDoc
           /\ SeenConvs(u) \subseteq ConvDoc
  <1>1. \A i \in DOMAIN pending[u] : pending[u][i] \in Write
    BY DEF TypeOK
  <1>2. \A i \in Queued(u, "bid") : pending[u][i].bid \in BidDoc
    BY <1>1, WriteFields DEF Queued
  <1>3. \A i \in Queued(u, "conv") : pending[u][i].conv \in ConvDoc
    BY <1>1, WriteFields DEF Queued
  <1> QED
    BY <1>2, <1>3 DEF TypeOK, SeenBids, SeenConvs

(* Either answer to a look-up names conversation documents.                *)
LEMMA AnswerTypes ==
    ASSUME TypeOK, NEW u \in Users, NEW o, NEW c, NEW docs \in Answers(u, o, c)
    PROVE  docs \subseteq DocIds
  BY SeenTypes DEF Answers, ConvDocs, HeldConvs, ConvDoc

LEMMA BidWritesType ==
    ASSUME ConstantsAssumption, NEW u \in Users, NEW j \in Jobs, NEW p,
           NEW c \in Ids, NEW n \in Ids,
           u = PosterOf[j] => p \in Users
    PROVE  BidWrites(u, j, p, c, n) \in Seq(Write)
  <1> DEFINE w1 == [op |-> "chat", chat |-> c, job |-> j]
             w2 == [op |-> "message", message |-> [id |-> n, chat |-> c, by |-> u]]
             w3 == [op |-> "bid", bid |-> [id |-> n, job |-> j, by |-> u,
                      bidder |-> IF u # PosterOf[j] THEN u ELSE p]]
  <1>1. w1 \in Write
    BY DEF Write
  <1>2. w2 \in Write
    BY DEF Write, MessageDoc
  <1>3. w3 \in Write
    BY DEF Write, BidDoc
  <1> HIDE DEF w1, w2, w3
  <1>4. <<w1, w2, w3>> \in Seq(Write)
    BY <1>1, <1>2, <1>3
  <1> QED
    BY <1>4 DEF BidWrites, w1, w2, w3

(* The answer to a look-up or to rejectBid queues one write at most.       *)
LEMMA LookUpStep ==
    ASSUME TypeOK, ConstantsAssumption, NEW u \in Users, NEW q \in calls[u],
           EnterConversation(u, q) \/ MissPoster(u, q) \/ LeaveConversation(u, q)
    PROVE  /\ UNCHANGED <<server, opened, screen, now>>
           /\ calls' = [calls EXCEPT ![u] = @ \ {q}]
           /\ \/ pending' = pending
              \/ \E w \in Write : /\ w.op \in {"conv", "active"}
                                  /\ pending' = [pending EXCEPT ![u] = Append(@, w)]
  <1>1. /\ UNCHANGED <<server, opened, screen, now>>
        /\ calls' = [calls EXCEPT ![u] = @ \ {q}]
    BY DEF EnterConversation, MissPoster, LeaveConversation
  <1>2. q \in Call
    BY DEF TypeOK
  <1>3. CASE EnterConversation(u, q)
    <2>1. PICK docs \in Answers(u, q.owner, q.chat) :
            pending' = [pending EXCEPT ![u] = Append(@,
              IF docs = {}
              THEN [op |-> "conv", conv |-> NewConv(u, q)]
              ELSE [op |-> "active", docs |-> docs, value |-> TRUE])]
      BY <1>3 DEF EnterConversation
    <2>2. [op |-> "active", docs |-> docs, value |-> TRUE] \in Write
      BY <2>1, AnswerTypes DEF Write
    <2>3. NewConv(u, q) \in ConvDoc
      BY <1>2, <1>3 DEF EnterConversation, NewConv, ConvDoc, DocIds, Call,
                        ConstantsAssumption
    <2>4. [op |-> "conv", conv |-> NewConv(u, q)] \in Write
      BY <2>3 DEF Write
    <2> QED
      BY <1>1, <2>1, <2>2, <2>4
  <1>4. CASE MissPoster(u, q)
    BY <1>1, <1>4 DEF MissPoster
  <1>5. CASE LeaveConversation(u, q)
    <2>1. PICK docs \in Answers(u, q.owner, q.chat) :
            pending' = [pending EXCEPT ![u] =
              IF docs = {} THEN @ ELSE Append(@, Deactivation(docs))]
      BY <1>5 DEF LeaveConversation
    <2>2. PICK w \in Write : w = Deactivation(docs) /\ w.op = "active"
      <3>1. Deactivation(docs) \in Write /\ Deactivation(docs).op = "active"
        BY <2>1, AnswerTypes DEF Write, Deactivation
      <3> QED
        BY <3>1
    <2> QED
      BY <1>1, <2>1, <2>2 DEF TypeOK
  <1> QED
    BY <1>3, <1>4, <1>5

LEMMA BidCallsType ==
    ASSUME ConstantsAssumption, NEW u \in Users, NEW j \in Jobs,
           NEW c \in Ids, NEW n \in Ids
    PROVE  BidCalls(u, j, c, n) \subseteq Call
  BY DEF ConstantsAssumption, BidCalls, Call

(* Appending typed writes, dropping the head and keeping a prefix.         *)
LEMMA QueueTypes ==
    ASSUME NEW s \in Seq(Write)
    PROVE  /\ \A t \in Seq(Write) : s \o t \in Seq(Write)
           /\ \A w \in Write : Append(s, w) \in Seq(Write)
           /\ s # << >> => Head(s) \in Write /\ Tail(s) \in Seq(Write)
           /\ \A k \in 0..Len(s) : SubSeq(s, 1, k) \in Seq(Write)
  <1>1. \A k \in 0..Len(s) : SubSeq(s, 1, k) \in Seq(Write)
    <2> TAKE k \in 0..Len(s)
    <2>1. \A i \in 1..k : s[i] \in Write
      OBVIOUS
    <2> QED
      BY <2>1
  <1> QED
    BY <1>1

LEMMA TypeInit ==
    ASSUME ConstantsAssumption, Init
    PROVE  TypeOK
  BY DEF ConstantsAssumption, Init, TypeOK, Ids, NoScreen

LEMMA TypeNext ==
    ASSUME ConstantsAssumption, TypeOK, [Next]_vars
    PROVE  TypeOK'
  <1> USE DEF server
  <1>0. \A u \in Users : pending[u] \in Seq(Write) /\ calls[u] \subseteq Call
    BY DEF TypeOK
  <1>s. \A u \in Users : screen[u] # NoScreen => screen[u] \in Screen
    BY DEF TypeOK
  <1>n. now < MaxId => now + 1 \in Ids /\ now + 1 \in 0..MaxId
    BY DEF TypeOK, ConstantsAssumption, Ids
  <1>q. \A u \in Users : \A q \in calls[u] :
          /\ q.kind \in {"chatOf", "own", "poster", "reject"} /\ q.n \in Ids
          /\ q.kind # "chatOf" => q.chat \in Ids
          /\ q.job \in Jobs /\ q.owner \in Users
    BY <1>0 DEF Call
  <1>a. ASSUME NEW u \in Users, NEW v \in SeenConvs(u), OpenConversation(u, v)
        PROVE  TypeOK'
    <2>1. PICK b \in SeenBids(u) :
            screen' = [screen EXCEPT ![u] =
              [job |-> v.job, chat |-> v.chat, partner |-> v.partner, bid |-> b.id]]
      BY <1>a DEF OpenConversation
    <2>2. b \in BidDoc /\ v \in ConvDoc
      BY <2>1, SeenTypes
    <2>3. [job |-> v.job, chat |-> v.chat, partner |-> v.partner, bid |-> b.id]
            \in Screen
      BY <2>2 DEF BidDoc, ConvDoc, Screen
    <2> QED
      BY <2>1, <2>3, <1>a DEF OpenConversation, TypeOK
  <1>b. ASSUME NEW u \in Users, Cancel(u)
        PROVE  TypeOK'
    BY <1>b DEF Cancel, CloseScreen, TypeOK
  <1>c. ASSUME NEW u \in Users, NEW j \in Jobs, PlaceBid(u, j)
        PROVE  TypeOK'
    <2>1. [kind |-> "chatOf", n |-> now + 1, chat |-> 0, job |-> j, owner |-> u] \in Call
      BY <1>c, <1>n DEF PlaceBid, Call
    <2> QED
      BY <2>1, <1>c, <1>0, <1>n DEF PlaceBid, TypeOK
  <1>d. ASSUME NEW u \in Users, Counter(u)
        PROVE  TypeOK'
    <2>1. screen[u] \in Screen /\ now + 1 \in Ids /\ now + 1 \in 0..MaxId
      BY <1>d, <1>s, <1>n DEF Counter
    <2> DEFINE s == screen[u]
    <2>2. s.job \in Jobs /\ s.chat \in Ids /\ s.partner \in Users
      BY <2>1 DEF Screen
    <2> HIDE DEF s
    <2>3. BidWrites(u, s.job, s.partner, s.chat, now + 1) \in Seq(Write)
      BY <2>1, <2>2, BidWritesType
    <2>4. BidCalls(u, s.job, s.chat, now + 1) \subseteq Call
      BY <2>1, <2>2, BidCallsType
    <2>5. pending[u] \o BidWrites(u, s.job, s.partner, s.chat, now + 1) \in Seq(Write)
      BY <1>0, <2>3, QueueTypes
    <2> QED
      BY <1>d, <1>0, <2>1, <2>4, <2>5 DEF Counter, CloseScreen, TypeOK, s
  <1>e. ASSUME NEW u \in Users, Accept(u)
        PROVE  TypeOK'
    <2>1. screen[u] \in Screen /\ now + 1 \in 0..MaxId
      BY <1>e, <1>s, <1>n DEF Accept
    <2> DEFINE s == screen[u]
    <2>2. s.job \in Jobs /\ s.chat \in Ids /\ s.partner \in Users /\ s.bid \in Ids
      BY <2>1 DEF Screen
    <2> HIDE DEF s
    <2>3. HelprOf(u, s) \in JobHelpr
      BY <2>2 DEF HelprOf, JobHelpr
    <2>4. \A h \in JobHelpr : AcceptWrites(s.chat, h) \in Seq(Write)
      BY <2>2 DEF AcceptWrites, Write
    <2>5. pending[u] \o AcceptWrites(s.chat, HelprOf(u, s)) \in Seq(Write)
      BY <1>0, <2>3, <2>4, QueueTypes
    <2>6. [chat |-> s.chat, bid |-> s.bid, by |-> u] \in Agreement
      BY <2>2 DEF Agreement
    <2> QED
      BY <1>e, <2>1, <2>5, <2>6 DEF Accept, CloseScreen, TypeOK, s
  <1>f. ASSUME NEW u \in Users, Reject(u)
        PROVE  TypeOK'
    <2>1. screen[u] \in Screen /\ now + 1 \in Ids /\ now + 1 \in 0..MaxId
      BY <1>f, <1>s, <1>n DEF Reject
    <2>2. \A o \in {u, screen[u].partner} :
            [kind |-> "reject", n |-> now + 1, chat |-> screen[u].chat,
             job |-> screen[u].job, owner |-> o] \in Call
      BY <2>1 DEF Screen, Call
    <2> QED
      BY <1>f, <1>0, <2>1, <2>2 DEF Reject, CloseScreen, TypeOK
  <1>g. ASSUME NEW u \in Users, NEW q \in calls[u], CreateFirstBid(u, q)
        PROVE  TypeOK'
    <2>1. now + 1 \in Ids /\ now + 1 \in 0..MaxId
      BY <1>g, <1>n DEF CreateFirstBid
    <2>2. PICK c \in ChatsFor(u, q.job) :
            /\ pending' = [pending EXCEPT ![u] =
                 @ \o BidWrites(u, q.job, NoUser, c, now + 1)]
            /\ calls' = [calls EXCEPT ![u] =
                 (@ \ {q}) \cup BidCalls(u, q.job, c, now + 1)]
            /\ opened' = IF c = now + 1 THEN [opened EXCEPT ![c] = q.job] ELSE opened
      BY <1>g DEF CreateFirstBid
    <2>3. c \in Ids
      BY <2>1, <2>2, SeenTypes DEF ChatsFor, ConvDoc
    <2>4. BidWrites(u, q.job, NoUser, c, now + 1) \in Seq(Write)
      BY <1>g, <1>q, <2>1, <2>3, BidWritesType DEF CreateFirstBid
    <2>5. BidCalls(u, q.job, c, now + 1) \subseteq Call
      BY <1>q, <2>1, <2>3, BidCallsType
    <2>6. pending[u] \o BidWrites(u, q.job, NoUser, c, now + 1) \in Seq(Write)
      BY <1>0, <2>4, QueueTypes
    <2> QED
      BY <1>g, <1>q, <1>0, <2>1, <2>2, <2>3, <2>5, <2>6 DEF CreateFirstBid, TypeOK
  <1>h. ASSUME NEW u \in Users, NEW q \in calls[u], DieOnOwnJob(u, q)
        PROVE  TypeOK'
    <2>1. now + 1 \in Ids /\ now + 1 \in 0..MaxId
      BY <1>h, <1>n DEF DieOnOwnJob
    <2>2. PICK c \in ChatsFor(u, q.job), k \in 0..2 :
            /\ pending' = [pending EXCEPT ![u] =
                 @ \o SubSeq(BidWrites(u, q.job, u, c, now + 1), 1, k)]
            /\ opened' = IF c = now + 1 THEN [opened EXCEPT ![c] = q.job] ELSE opened
      BY <1>h DEF DieOnOwnJob
    <2>3. c \in Ids
      BY <2>1, <2>2, SeenTypes DEF ChatsFor, ConvDoc
    <2>4. BidWrites(u, q.job, u, c, now + 1) \in Seq(Write)
      BY <1>q, <2>1, <2>3, BidWritesType
    <2>5. Len(BidWrites(u, q.job, u, c, now + 1)) = 3
      BY DEF BidWrites
    <2>6. SubSeq(BidWrites(u, q.job, u, c, now + 1), 1, k) \in Seq(Write)
      BY <2>2, <2>4, <2>5, QueueTypes
    <2>7. pending[u] \o SubSeq(BidWrites(u, q.job, u, c, now + 1), 1, k) \in Seq(Write)
      BY <1>0, <2>6, QueueTypes
    <2> QED
      BY <1>h, <1>q, <1>0, <2>1, <2>2, <2>3, <2>7
      DEF DieOnOwnJob, CloseScreen, TypeOK
  <1>i. ASSUME NEW u \in Users, NEW q \in calls[u], EnterConversation(u, q)
        PROVE  TypeOK'
    <2>1. PICK docs \in Answers(u, q.owner, q.chat) :
            pending' = [pending EXCEPT ![u] = Append(@,
              IF docs = {}
              THEN [op |-> "conv", conv |-> NewConv(u, q)]
              ELSE [op |-> "active", docs |-> docs, value |-> TRUE])]
      BY <1>i DEF EnterConversation
    <2>2. [op |-> "active", docs |-> docs, value |-> TRUE] \in Write
      BY <2>1, AnswerTypes DEF Write
    <2>3. NewConv(u, q) \in ConvDoc
      BY <1>i, <1>q DEF EnterConversation, NewConv, ConvDoc, DocIds,
           ConstantsAssumption
    <2>4. [op |-> "conv", conv |-> NewConv(u, q)] \in Write
      BY <2>3 DEF Write
    <2> DEFINE write == IF docs = {}
                        THEN [op |-> "conv", conv |-> NewConv(u, q)]
                        ELSE [op |-> "active", docs |-> docs, value |-> TRUE]
    <2>5. write \in Write
      BY <2>2, <2>4
    <2>6. pending' = [pending EXCEPT ![u] = Append(@, write)]
      BY <2>1
    <2> HIDE DEF write
    <2>7. Append(pending[u], write) \in Seq(Write)
      BY <1>0, <2>5, QueueTypes
    <2>8. pending' \in [Users -> Seq(Write)] /\ calls' \in [Users -> SUBSET Call]
      BY <1>i, <1>0, <2>6, <2>7 DEF EnterConversation, TypeOK
    <2> QED
      BY <1>i, <2>8 DEF EnterConversation, TypeOK
  <1>p. ASSUME NEW u \in Users, NEW q \in calls[u], MissPoster(u, q)
        PROVE  TypeOK'
    BY <1>p, <1>q, <1>0 DEF MissPoster, TypeOK
  <1>j. ASSUME NEW u \in Users, NEW q \in calls[u], LeaveConversation(u, q)
        PROVE  TypeOK'
    <2>1. PICK docs \in Answers(u, q.owner, q.chat) :
            pending' = [pending EXCEPT ![u] =
              IF docs = {} THEN @ ELSE Append(@, Deactivation(docs))]
      BY <1>j DEF LeaveConversation
    <2>2. Deactivation(docs) \in Write
      BY <2>1, AnswerTypes DEF Write, Deactivation
    <2>3. Append(pending[u], Deactivation(docs)) \in Seq(Write)
      BY <1>0, <2>2, QueueTypes
    <2>4. pending[u] \in Seq(Write)
      BY <1>0
    <2>5. pending' \in [Users -> Seq(Write)] /\ calls' \in [Users -> SUBSET Call]
      BY <1>j, <1>0, <2>1, <2>3, <2>4 DEF LeaveConversation, TypeOK
    <2> QED
      BY <1>j, <2>5 DEF LeaveConversation, TypeOK
  <1>k. ASSUME NEW u \in Users, Acknowledge(u)
        PROVE  TypeOK'
    <2> DEFINE w == Head(pending[u])
    <2>1. w \in Write /\ Tail(pending[u]) \in Seq(Write)
      BY <1>k, <1>0, QueueTypes DEF Acknowledge
    <2>2. pending' \in [Users -> Seq(Write)]
      BY <1>k, <1>0, <2>1 DEF Acknowledge, TypeOK
    <2> HIDE DEF w
    <2>3. chatJob' \in [Ids -> Jobs \cup {NoJob}] /\ accepted' \subseteq Ids
      BY <1>k, <2>1, WriteFields DEF Acknowledge, TypeOK, w
    <2>4. messages' \subseteq MessageDoc /\ bids' \subseteq BidDoc
      BY <1>k, <2>1, WriteFields DEF Acknowledge, TypeOK, w
    <2>5. convs' \subseteq ConvDoc /\ helprs' \subseteq JobHelpr
          /\ acceptedJobs' \subseteq JobHelpr
      BY <1>k, <2>1, WriteFields DEF Acknowledge, TypeOK, w
    <2>6. active' \subseteq DocIds
      <3>1. w.op = "conv" => w.conv.doc \in DocIds
        BY <2>1, WriteFields DEF ConvDoc
      <3>2. w.op = "active" => w.docs \subseteq DocIds
        BY <2>1, WriteFields
      <3> QED
        BY <1>k, <3>1, <3>2 DEF Acknowledge, TypeOK, w
    <2> QED
      BY <1>k, <2>2, <2>3, <2>4, <2>5, <2>6 DEF Acknowledge, TypeOK
  <1>l. ASSUME NEW u \in Users, Refuse(u)
        PROVE  TypeOK'
    <2>1. Tail(pending[u]) \in Seq(Write)
      BY <1>l, <1>0, QueueTypes DEF Refuse
    <2> QED
      BY <1>l, <2>1 DEF Refuse, TypeOK
  <1>m. ASSUME NEW u \in Users, Crash(u)
        PROVE  TypeOK'
    <2>1. PICK k \in 0..Len(pending[u]) :
            pending' = [pending EXCEPT ![u] = SubSeq(@, 1, k)]
      BY <1>m DEF Crash
    <2>2. SubSeq(pending[u], 1, k) \in Seq(Write)
      BY <1>0, <2>1, QueueTypes
    <2> QED
      BY <1>m, <2>1, <2>2 DEF Crash, CloseScreen, TypeOK, ConstantsAssumption
  <1>o. CASE UNCHANGED vars
    BY <1>o DEF vars, TypeOK
  <1> QED
    BY <1>a, <1>b, <1>c, <1>d, <1>e, <1>f, <1>g, <1>h, <1>i, <1>j, <1>k, <1>l,
       <1>m, <1>o, <1>p DEF Next, UserStep, Answer

(* Every document, queued write, query and screen has the shape the source *)
(* gives it, in every reachable state.                                     *)
THEOREM TypeCorrect == Spec => []TypeOK
  <1>1. Init => TypeOK
    BY ConstantsAssumption, TypeInit
  <1>2. TypeOK /\ [Next]_vars => TypeOK'
    BY ConstantsAssumption, TypeNext
  <1> QED
    BY <1>1, <1>2, PTL DEF Spec

-----------------------------------------------------------------------------
(* Why a conversation always has a chat and a bid behind it, and a helpr a *)
(* bid: Backed is inductive when job numbers are unique and the server     *)
(* refuses neither chats nor bids.                                         *)

(* JobNum tells jobs apart; the writes others depend on are not refused.   *)
Sound ==
    /\ \A i, j \in Jobs : JobNum[i] = JobNum[j] => i = j
    /\ "chat" \notin Refusable /\ "bid" \notin Refusable

-----------------------------------------------------------------------------
(* Sequences: what is where after an append, a Tail and a SubSeq.          *)
LEMMA LenIsNat ==
    ASSUME NEW s \in Seq(Write)
    PROVE  Len(s) \in Nat
  OBVIOUS

LEMMA Extended ==
    ASSUME NEW s \in Seq(Write), NEW t \in Seq(Write)
    PROVE  /\ Len(s \o t) = Len(s) + Len(t)
           /\ DOMAIN s \subseteq DOMAIN (s \o t)
           /\ \A i \in DOMAIN s : (s \o t)[i] = s[i]
           /\ \A i \in DOMAIN t : Len(s) + i \in DOMAIN (s \o t)
                                  /\ (s \o t)[Len(s) + i] = t[i]
           /\ \A i \in DOMAIN (s \o t) : i \in DOMAIN s
                \/ (i - Len(s) \in DOMAIN t /\ (s \o t)[i] = t[i - Len(s)])
  OBVIOUS

LEMMA Popped ==
    ASSUME NEW s \in Seq(Write), s # << >>
    PROVE  /\ Len(s) \in Nat /\ Len(s) >= 1 /\ Len(Tail(s)) = Len(s) - 1
           /\ \A i \in DOMAIN Tail(s) : i + 1 \in DOMAIN s /\ Tail(s)[i] = s[i + 1]
           /\ \A i \in DOMAIN s : i = 1 \/ (i - 1 \in DOMAIN Tail(s)
                                            /\ Tail(s)[i - 1] = s[i])
           /\ Head(s) = s[1] /\ 1 \in DOMAIN s
  OBVIOUS

LEMMA Cut ==
    ASSUME NEW s \in Seq(Write), NEW k \in 0..Len(s)
    PROVE  /\ DOMAIN SubSeq(s, 1, k) = 1..k
           /\ \A i \in 1..k : i \in DOMAIN s /\ SubSeq(s, 1, k)[i] = s[i]
  OBVIOUS

(* A fact about the first n writes is a fact about the first m >= n.       *)
LEMMA AheadMonotone ==
    ASSUME NEW u \in Users, NEW n \in Int, NEW m \in Int, n <= m,
           TypeOK, NEW j, NEW b, NEW c
    PROVE  /\ BidAhead(u, n, j, b) => BidAhead(u, m, j, b)
           /\ ChatAhead(u, n, c, j) => ChatAhead(u, m, c, j)
  <1>1. \A i \in DOMAIN pending[u] : i \in Int
    BY DEF TypeOK
  <1> QED
    BY <1>1 DEF BidAhead, ChatAhead, Queued

-----------------------------------------------------------------------------
(* Steps that only append to one queue.                                    *)

LEMMA ExtendAhead ==
    ASSUME TypeOK, UNCHANGED server, NEW u \in Users, NEW t \in Seq(Write),
           pending' = [pending EXCEPT ![u] = @ \o t]
    PROVE  /\ \A x \in Users, n \in Int, m \in Int : \A j, b, c : n <= m =>
                 /\ BidAhead(x, n, j, b) => BidAhead(x, m, j, b)'
                 /\ ChatAhead(x, n, c, j) => ChatAhead(x, m, c, j)'
           /\ \A x \in Users, n \in Int : \A j, b, c :
                 /\ BidAhead(x, n, j, b) => BidAhead(x, n, j, b)'
                 /\ ChatAhead(x, n, c, j) => ChatAhead(x, n, c, j)'
  <1>1. \A x \in Users : pending[x] \in Seq(Write)
    BY DEF TypeOK
  <1>2. \A x \in Users : \A i \in DOMAIN pending[x] :
          i \in DOMAIN pending'[x] /\ pending'[x][i] = pending[x][i]
    <2> TAKE x \in Users
    <2>1. CASE x = u
      BY <2>1, <1>1, Extended DEF TypeOK
    <2>2. CASE x # u
      BY <2>2 DEF TypeOK
    <2> QED
      BY <2>1, <2>2
  <1>3. \A x \in Users : \A op : \A i \in Queued(x, op) :
          i \in Int /\ i \in Queued(x, op)' /\ pending'[x][i] = pending[x][i]
    BY <1>1, <1>2 DEF Queued
  <1>4. bids' = bids /\ chatJob' = chatJob
    BY DEF server
  <1>5. ASSUME NEW x \in Users, NEW n \in Int, NEW m \in Int, n <= m,
               NEW j, NEW b, BidAhead(x, n, j, b)
        PROVE  BidAhead(x, m, j, b)'
    <2>1. CASE BidOnServer(j, b)
      BY <2>1, <1>4 DEF BidAhead, BidOnServer
    <2>2. CASE \E i \in Queued(x, "bid") :
            i <= n /\ OwnBid(pending[x][i].bid, j, b)
      <3>1. PICK i \in Queued(x, "bid") :
              i <= n /\ OwnBid(pending[x][i].bid, j, b)
        BY <2>2
      <3>2. i \in Int /\ i \in Queued(x, "bid")' /\ pending'[x][i] = pending[x][i]
        BY <3>1, <1>3
      <3>3. i <= m
        BY <3>1, <3>2, <1>5
      <3> QED
        BY <3>1, <3>2, <3>3 DEF BidAhead
    <2> QED
      BY <1>5, <2>1, <2>2 DEF BidAhead
  <1>6. ASSUME NEW x \in Users, NEW n \in Int, NEW m \in Int, n <= m,
               NEW j, NEW c, ChatAhead(x, n, c, j)
        PROVE  ChatAhead(x, m, c, j)'
    <2>1. CASE chatJob[c] = j
      BY <2>1, <1>4 DEF ChatAhead
    <2>2. CASE \E i \in Queued(x, "chat") :
            i <= n /\ pending[x][i].chat = c /\ pending[x][i].job = j
      <3>1. PICK i \in Queued(x, "chat") :
              i <= n /\ pending[x][i].chat = c /\ pending[x][i].job = j
        BY <2>2
      <3>2. i \in Int /\ i \in Queued(x, "chat")' /\ pending'[x][i] = pending[x][i]
        BY <3>1, <1>3
      <3>3. i <= m
        BY <3>1, <3>2, <1>6
      <3> QED
        BY <3>1, <3>2, <3>3 DEF ChatAhead
    <2> QED
      BY <1>6, <2>1, <2>2 DEF ChatAhead
  <1>7. \A n \in Int : n <= n
    OBVIOUS
  <1> QED
    BY <1>5, <1>6, <1>7

(* Appending disturbs nothing that was backed.                             *)
LEMMA ExtendBacked ==
    ASSUME TypeOK, Backed, UNCHANGED server, NEW u \in Users, NEW t \in Seq(Write),
           pending' = [pending EXCEPT ![u] = @ \o t],
           \A c \in Ids : opened[c] # NoJob => opened'[c] = opened[c],
           ConstantsAssumption
    PROVE  /\ \A x \in Users : \A i \in DOMAIN pending[x] : WriteBacked(x, i)'
           /\ \A x \in Users : \A q \in calls[x] : CallBacked(x, q)'
           /\ \A x \in Users : screen'[x] = screen[x] => ScreenBacked(x)'
           /\ \A v \in convs : ConvBacked(v)'
           /\ HelprHasBid'
  <1>0. \A x \in Users : pending[x] \in Seq(Write)
    BY DEF TypeOK
  <1>1. \A x \in Users : \A i \in DOMAIN pending[x] :
          i \in Int /\ pending'[x][i] = pending[x][i] /\ pending[x][i] \in Write
    <2> TAKE x \in Users
    <2>1. CASE x = u
      BY <2>1, <1>0, Extended DEF TypeOK
    <2>2. CASE x # u
      BY <2>2, <1>0 DEF TypeOK
    <2> QED
      BY <2>1, <2>2
  <1>2. \A x \in Users : Len(pending[x]) \in Int /\ Len(pending'[x]) \in Int
                         /\ Len(pending[x]) <= Len(pending'[x])
    <2> TAKE x \in Users
    <2>1. CASE x = u
      BY <2>1, <1>0, Extended DEF TypeOK
    <2>2. CASE x # u
      BY <2>2, <1>0 DEF TypeOK
    <2> QED
      BY <2>1, <2>2
  <1>3. \A c \in Ids, j \in Jobs : opened[c] = j => opened'[c] = j
    BY DEF ConstantsAssumption
  <1>4. ASSUME NEW x \in Users, NEW i \in DOMAIN pending[x]
        PROVE  WriteBacked(x, i)'
    <2>1. WriteBacked(x, i) /\ i - 1 \in Int /\ pending[x][i] \in Write
          /\ pending'[x][i] = pending[x][i]
      BY <1>1 DEF Backed
    <2> PICK w \in Write : w = pending[x][i]
      BY <2>1
    <2>2. w.op = "chat" => opened'[w.chat] = w.job
      BY <2>1, <1>3, WriteFields DEF WriteBacked
    <2>3. w.op = "conv" => opened'[w.conv.chat] = w.conv.job
      BY <2>1, <1>3, WriteFields DEF WriteBacked, ConvDoc
    <2>4. w.op = "conv" => /\ ChatAhead(x, i - 1, w.conv.chat, w.conv.job)'
                           /\ BidAhead(x, i - 1, w.conv.job, x)'
                           /\ Parties(w.conv, x)
      BY <2>1, ExtendAhead DEF WriteBacked
    <2>5. w.op \in {"helpr", "acceptedJob"} =>
            BidAhead(x, i - 1, w.helpr.job, w.helpr.user)'
      BY <2>1, ExtendAhead DEF WriteBacked
    <2>6. pending'[x][i] = w
      BY <2>1
    <2> QED
      BY <2>2, <2>3, <2>4, <2>5, <2>6 DEF WriteBacked, Parties
  <1>5. bids' = bids /\ chatJob' = chatJob /\ convs' = convs
        /\ helprs' = helprs /\ acceptedJobs' = acceptedJobs
    BY DEF server
  <1>6. ASSUME NEW x \in Users, NEW q \in calls[x]
        PROVE  CallBacked(x, q)'
    <2>1. CallBacked(x, q)
      BY DEF Backed
    <2>2. SUFFICES ASSUME q.kind \in {"own", "poster"}
                   PROVE  CallBacked(x, q)'
      BY DEF CallBacked
    <2>3. q.chat \in Ids /\ q.job \in Jobs
      BY <2>2 DEF TypeOK, Call
    <2>4. opened'[q.chat] = q.job
      BY <2>1, <2>2, <2>3, <1>3 DEF CallBacked
    <2>5. Listed(q.chat, x) => Listed(q.chat, x)'
      BY <1>5 DEF Listed
    <2>6. PICK n \in Int, m \in Int :
            n = Len(pending[x]) /\ m = Len(pending'[x]) /\ n <= m
      BY <1>2
    <2>7. BidAhead(x, n, q.job, x) => BidAhead(x, m, q.job, x)'
      BY <2>6, ExtendAhead
    <2>8. ChatAhead(x, n, q.chat, q.job) => ChatAhead(x, m, q.chat, q.job)'
      BY <2>6, ExtendAhead
    <2>9. CASE x = PosterOf[q.job]
      BY <2>1, <2>2, <2>4, <2>5, <2>9 DEF CallBacked
    <2>10. CASE x # PosterOf[q.job]
      <3>1. ChatAhead(x, m, q.chat, q.job)' /\ BidAhead(x, m, q.job, x)'
        BY <2>1, <2>2, <2>6, <2>7, <2>8, <2>10 DEF CallBacked
      <3> QED
        BY <2>1, <2>2, <2>4, <2>6, <2>10, <3>1 DEF CallBacked, ChatAhead, BidAhead
    <2> QED
      BY <2>9, <2>10
  <1>7. ASSUME NEW x \in Users, screen'[x] = screen[x]
        PROVE  ScreenBacked(x)'
    <2>1. ScreenBacked(x)
      BY DEF Backed
    <2>2. SUFFICES ASSUME screen[x] # NoScreen
                   PROVE  ScreenBacked(x)'
      BY <1>7 DEF ScreenBacked
    <2>3. PICK s \in Screen : s = screen[x]
      BY <2>2 DEF TypeOK
    <2>4. s.chat \in Ids /\ s.job \in Jobs
      BY <2>3 DEF Screen
    <2>5. opened'[s.chat] = s.job
      BY <2>1, <2>2, <2>3, <2>4, <1>3 DEF ScreenBacked
    <2>6. Listed(s.chat, x) => Listed(s.chat, x)'
      BY <1>5 DEF Listed
    <2>7. PICK n \in Int, m \in Int :
            n = Len(pending[x]) /\ m = Len(pending'[x]) /\ n <= m
      BY <1>2
    <2>8. BidAhead(x, n, s.job, HelprOf(x, s).user)
      BY <2>1, <2>2, <2>3, <2>7 DEF ScreenBacked
    <2>9. BidAhead(x, m, s.job, HelprOf(x, s).user)'
      BY <2>7, <2>8, ExtendAhead
    <2> QED
      BY <1>7, <2>1, <2>2, <2>3, <2>5, <2>6, <2>7, <2>9
      DEF ScreenBacked, BidAhead, HelprOf
  <1>8. ASSUME NEW v \in convs
        PROVE  ConvBacked(v)'
    <2>1. ConvBacked(v) /\ v.chat \in Ids /\ v.job \in Jobs
      BY DEF Backed, TypeOK, ConvDoc
    <2> QED
      BY <2>1, <1>3, <1>5 DEF ConvBacked, Parties, BidOnServer
  <1>9. HelprHasBid'
    BY <1>5 DEF Backed, HelprHasBid, BidOnServer
  <1> QED
    BY <1>4, <1>6, <1>7, <1>8, <1>9

(* Appending writes that depend on nothing ahead of them.                  *)
LEMMA PlainWrites ==
    ASSUME TypeOK, NEW u \in Users, NEW t \in Seq(Write),
           pending' = [pending EXCEPT ![u] = @ \o t],
           \A i \in DOMAIN t :
              /\ t[i].op \in {"chat", "message", "bid", "accept", "active"}
              /\ t[i].op = "chat" => opened'[t[i].chat] = t[i].job,
           \A x \in Users : \A i \in DOMAIN pending[x] : WriteBacked(x, i)'
    PROVE  \A x \in Users : \A i \in DOMAIN pending'[x] : WriteBacked(x, i)'
  <1>1. ASSUME NEW i \in DOMAIN pending'[u], i \notin DOMAIN pending[u]
        PROVE  WriteBacked(u, i)'
    <2>1. pending'[u] = pending[u] \o t /\ pending[u] \in Seq(Write)
      BY DEF TypeOK
    <2>2. \E k \in DOMAIN t : pending'[u][i] = t[k]
      BY <1>1, <2>1, Extended
    <2> QED
      BY <2>2 DEF WriteBacked
  <1>2. \A x \in Users : x # u => DOMAIN pending'[x] = DOMAIN pending[x]
    BY DEF TypeOK
  <1> QED
    BY <1>1, <1>2

(* A step that changes neither the documents nor the queues.               *)
LEMMA StillBacked ==
    ASSUME TypeOK, Backed, ConstantsAssumption, NEW u \in Users,
           UNCHANGED <<server, pending, opened>>
    PROVE  /\ \A x \in Users : \A i \in DOMAIN pending'[x] : WriteBacked(x, i)'
           /\ \A x \in Users : \A q \in calls[x] : CallBacked(x, q)'
           /\ \A x \in Users : screen'[x] = screen[x] => ScreenBacked(x)'
           /\ \A v \in convs' : ConvBacked(v)'
           /\ HelprHasBid'
  <1>1. pending[u] \in Seq(Write) /\ << >> \in Seq(Write)
    BY DEF TypeOK
  <1>2. pending[u] \o << >> = pending[u]
    BY <1>1
  <1>3. pending' = [pending EXCEPT ![u] = @ \o << >>]
    BY <1>2 DEF TypeOK
  <1>4. DOMAIN pending' = Users /\ convs' = convs
    BY DEF TypeOK, server
  <1> QED
    BY <1>1, <1>3, <1>4, ExtendBacked

(* The writes of a createBid call, appended, back its look-ups.            *)
LEMMA BidBacked ==
    ASSUME TypeOK, ConstantsAssumption, NEW u \in Users, NEW j \in Jobs, NEW p,
           NEW c \in Ids, NEW n \in Ids, u = PosterOf[j] => p \in Users,
           pending' = [pending EXCEPT ![u] = @ \o BidWrites(u, j, p, c, n)],
           opened'[c] = j,
           u = PosterOf[j] => Listed(c, u)'
    PROVE  \A q \in BidCalls(u, j, c, n) : CallBacked(u, q)'
  <1> DEFINE t == BidWrites(u, j, p, c, n)
  <1>1. t \in Seq(Write) /\ pending[u] \in Seq(Write)
    BY BidWritesType DEF TypeOK
  <1>2. /\ DOMAIN t = 1..3 /\ Len(t) = 3
        /\ t[1] = [op |-> "chat", chat |-> c, job |-> j]
        /\ t[3] = [op |-> "bid", bid |-> [id |-> n, job |-> j, by |-> u,
                     bidder |-> IF u # PosterOf[j] THEN u ELSE p]]
    BY DEF BidWrites
  <1> HIDE DEF t
  <1>3. pending'[u] = pending[u] \o t
    BY DEF TypeOK, t
  <1>a. Len(pending'[u]) = Len(pending[u]) + 3 /\ Len(pending[u]) \in Nat
    <2>1. Len(pending[u] \o t) = Len(pending[u]) + Len(t)
      BY <1>1, Extended
    <2>2. Len(t) = 3
      BY <1>2
    <2>3. Len(pending[u]) \in Nat
      BY <1>1
    <2> QED
      BY <1>3, <2>1, <2>2, <2>3
  <1>4. PICK l \in Nat : l = Len(pending[u]) /\ Len(pending'[u]) = l + 3
    BY <1>a
  <1>5. /\ l + 1 \in DOMAIN pending'[u] /\ pending'[u][l + 1] = t[1]
        /\ l + 3 \in DOMAIN pending'[u] /\ pending'[u][l + 3] = t[3]
    BY <1>1, <1>2, <1>3, <1>4, Extended
  <1>6. ChatAhead(u, l + 3, c, j)'
    <2>1. l + 1 \in Queued(u, "chat")' /\ l + 1 <= l + 3
      BY <1>2, <1>5 DEF Queued
    <2> QED
      BY <1>2, <1>5, <2>1 DEF ChatAhead
  <1>7. ASSUME u # PosterOf[j]
        PROVE  BidAhead(u, l + 3, j, u)'
    <2>1. l + 3 \in Queued(u, "bid")' /\ l + 3 <= l + 3
      BY <1>2, <1>5 DEF Queued
    <2>2. OwnBid(pending'[u][l + 3].bid, j, u)
      BY <1>2, <1>5, <1>7 DEF OwnBid
    <2> QED
      BY <2>1, <2>2 DEF BidAhead
  <1>8. ASSUME NEW q \in BidCalls(u, j, c, n)
        PROVE  CallBacked(u, q)'
    <2>1. /\ q.chat = c /\ q.job = j
          /\ q.owner = IF q.kind = "own" THEN u ELSE PosterOf[j]
      BY DEF BidCalls
    <2> QED
      BY <1>4, <1>6, <1>7, <2>1 DEF CallBacked, ChatAhead, BidAhead
  <1> QED
    BY <1>8

-----------------------------------------------------------------------------
(* The steps that append or change no queue, one lemma each.               *)

(* A new chat's UUID is the only thing that changes opened.                *)
LEMMA OpenedExtends ==
    ASSUME TypeOK, Backed, ConstantsAssumption, NEW c \in Ids, NEW j \in Jobs,
           now < MaxId, now' = now + 1, c = now + 1 \/ opened[c] = j,
           opened' = IF c = now + 1 THEN [opened EXCEPT ![c] = j] ELSE opened,
           chatJob' = chatJob
    PROVE  /\ \A d \in Ids : opened[d] # NoJob => opened'[d] = opened[d]
           /\ opened'[c] = j
           /\ \A d \in Ids : /\ opened'[d] # NoJob => d <= now'
                             /\ chatJob'[d] \in {NoJob, opened'[d]}
  <1>1. \A d \in Ids : opened[d] # NoJob => d <= now /\ d # now + 1
    BY DEF Backed, Ids, TypeOK, ConstantsAssumption
  <1>2. \A d \in Ids : chatJob[d] \in {NoJob, opened[d]}
    BY DEF Backed
  <1>3. \A d \in Ids : d <= now => d <= now + 1
    BY DEF Ids, TypeOK, ConstantsAssumption
  <1>4. opened \in [Ids -> Jobs \cup {NoJob}]
    BY DEF TypeOK
  <1>5. c <= now'
    <2>1. CASE c = now + 1
      BY <2>1 DEF Ids, ConstantsAssumption
    <2>2. CASE opened[c] = j
      BY <2>2, <1>1, <1>3 DEF ConstantsAssumption
    <2> QED
      BY <2>1, <2>2
  <1> QED
    BY <1>1, <1>2, <1>3, <1>4, <1>5

(* A chat a first bid settles on was made for its job or is made now.      *)
LEMMA ChatsForJob ==
    ASSUME TypeOK, Backed, Sound, NEW u \in Users, NEW j \in Jobs,
           NEW c \in ChatsFor(u, j), now + 1 \in Ids
    PROVE  c \in Ids /\ (c = now + 1 \/ opened[c] = j)
  <1>1. ASSUME NEW v \in SeenConvs(u)
        PROVE  opened[v.chat] = v.job /\ v.job \in Jobs /\ v.chat \in Ids
    <2>1. v \in ConvDoc
      BY SeenTypes
    <2>2. CASE v \in convs
      BY <2>1, <2>2 DEF Backed, ConvBacked, ConvDoc
    <2>3. CASE \E i \in Queued(u, "conv") : v = pending[u][i].conv
      BY <2>1, <2>3 DEF Backed, WriteBacked, Queued, ConvDoc
    <2> QED
      BY <2>1, <2>2, <2>3 DEF SeenConvs
  <1> QED
    BY <1>1 DEF ChatsFor, Sound

LEMMA OpenConversationBacked ==
    ASSUME TypeOK, Backed, ConstantsAssumption,
           NEW u \in Users, NEW v \in SeenConvs(u), OpenConversation(u, v)
    PROVE  Backed'
  <1>1. PICK b \in SeenBids(u) :
          screen' = [screen EXCEPT ![u] =
            [job |-> v.job, chat |-> v.chat, partner |-> v.partner, bid |-> b.id]]
    BY DEF OpenConversation
  <1>2. UNCHANGED <<server, pending, opened>> /\ calls' = calls /\ now' = now
    BY DEF OpenConversation
  <1>3. v \in ConvDoc /\ v.owner = u
    BY SeenTypes DEF OpenConversation
  <1>4. /\ opened[v.chat] = v.job
        /\ u = PosterOf[v.job] => Listed(v.chat, u)
        /\ \E x \in Users : Parties(v, x)
             /\ BidAhead(u, Len(pending[u]), v.job, x)
    <2>1. CASE v \in convs
      BY <1>3, <2>1 DEF Backed, ConvBacked, Listed, BidAhead
    <2>2. CASE \E i \in Queued(u, "conv") : v = pending[u][i].conv
      <3>1. PICK i \in Queued(u, "conv") : v = pending[u][i].conv
        BY <2>2
      <3>2. i \in DOMAIN pending[u] /\ WriteBacked(u, i) /\ pending[u][i].op = "conv"
        BY <3>1 DEF Backed, Queued
      <3>3. opened[v.chat] = v.job /\ Parties(v, u) /\ BidAhead(u, i - 1, v.job, u)
        BY <3>1, <3>2 DEF WriteBacked
      <3>4. i - 1 \in Int /\ Len(pending[u]) \in Int /\ i - 1 <= Len(pending[u])
        BY <3>2 DEF TypeOK
      <3>5. BidAhead(u, Len(pending[u]), v.job, u)
        BY <3>3, <3>4, AheadMonotone
      <3> QED
        BY <3>3, <3>5 DEF Parties
    <2> QED
      BY <2>1, <2>2 DEF SeenConvs
  <1>5. ScreenBacked(u)'
    <2> DEFINE s == [job |-> v.job, chat |-> v.chat, partner |-> v.partner,
                     bid |-> b.id]
    <2>1. screen'[u] = s
      BY <1>1 DEF TypeOK
    <2>2. PICK x \in Users : Parties(v, x) /\ BidAhead(u, Len(pending[u]), v.job, x)
      BY <1>4
    <2>3. HelprOf(u, s).user = x
      BY <1>3, <2>2 DEF HelprOf, Parties
    <2>4. BidAhead(u, Len(pending[u]), v.job, x)'
      BY <1>2, <2>2 DEF BidAhead, BidOnServer, Queued, server
    <2>5. u = PosterOf[v.job] => Listed(v.chat, u)'
      BY <1>2, <1>4 DEF Listed, server
    <2>6. HelprOf(u, screen[u])'.user = x
      BY <2>1, <2>3 DEF HelprOf
    <2>7. /\ screen'[u].job = v.job /\ screen'[u].chat = v.chat
          /\ opened'[v.chat] = v.job
      BY <1>2, <1>4, <2>1
    <2> QED
      BY <2>4, <2>5, <2>6, <2>7 DEF ScreenBacked
  <1>6. \A x \in Users : x # u => screen'[x] = screen[x]
    BY <1>1 DEF TypeOK
  <1>7. \A c \in Ids : /\ opened'[c] # NoJob => c <= now'
                       /\ chatJob'[c] \in {NoJob, opened'[c]}
    BY <1>2 DEF Backed, server
  <1> QED
    BY <1>2, <1>5, <1>6, <1>7, StillBacked DEF Backed

(* Cancel, the tap on Place Bid and the tap on Reject.                     *)
LEMMA TapBacked ==
    ASSUME TypeOK, Backed, ConstantsAssumption, NEW u \in Users,
           Cancel(u) \/ (\E j \in Jobs : PlaceBid(u, j)) \/ Reject(u)
    PROVE  Backed'
  <1>1. UNCHANGED <<server, pending, opened>>
    BY DEF Cancel, PlaceBid, Reject
  <1>2. now' \in {now, now + 1}
    BY DEF Cancel, PlaceBid, Reject
  <1>3. \A c \in Ids : /\ opened'[c] # NoJob => c <= now'
                       /\ chatJob'[c] \in {NoJob, opened'[c]}
    BY <1>1, <1>2 DEF Backed, server, Ids, TypeOK, ConstantsAssumption
  <1>4. ASSUME NEW x \in Users, NEW q \in calls'[x], q \notin calls[x]
        PROVE  CallBacked(x, q)'
    <2>1. CASE Cancel(u)
      BY <1>4, <2>1 DEF Cancel
    <2>2. CASE \E j \in Jobs : PlaceBid(u, j)
      <3>1. q.kind = "chatOf"
        BY <1>4, <2>2 DEF PlaceBid, TypeOK
      <3> QED
        BY <3>1 DEF CallBacked
    <2>3. CASE Reject(u)
      <3>1. q.kind = "reject"
        BY <1>4, <2>3 DEF Reject, TypeOK
      <3> QED
        BY <3>1 DEF CallBacked
    <2> QED
      BY <2>1, <2>2, <2>3
  <1>5. \A x \in Users : screen'[x] = screen[x] \/ screen'[x] = NoScreen
    BY DEF Cancel, PlaceBid, Reject, CloseScreen, TypeOK
  <1>6. \A x \in Users : screen'[x] = NoScreen => ScreenBacked(x)'
    BY DEF ScreenBacked
  <1> QED
    BY <1>1, <1>3, <1>4, <1>5, <1>6, StillBacked DEF Backed

LEMMA CounterBacked ==
    ASSUME TypeOK, Backed, ConstantsAssumption, NEW u \in Users, Counter(u)
    PROVE  Backed'
  <1>1. PICK s \in Screen : s = screen[u] /\ s # NoScreen
    BY DEF Counter, TypeOK
  <1>2. s.job \in Jobs /\ s.chat \in Ids /\ s.partner \in Users
    BY <1>1 DEF Screen
  <1>3. now + 1 \in Ids /\ now' = now + 1
    BY DEF Counter, TypeOK, Ids, ConstantsAssumption
  <1> DEFINE t == BidWrites(u, s.job, s.partner, s.chat, now + 1)
  <1>4. /\ pending' = [pending EXCEPT ![u] = @ \o t]
        /\ calls' = [calls EXCEPT ![u] = @ \cup BidCalls(u, s.job, s.chat, now + 1)]
        /\ UNCHANGED server /\ opened' = opened
    BY <1>1 DEF Counter
  <1>5. t \in Seq(Write)
    BY <1>2, <1>3, BidWritesType
  <1>6. opened[s.chat] = s.job /\ (u = PosterOf[s.job] => Listed(s.chat, u))
    BY <1>1 DEF Backed, ScreenBacked
  <1>7. \A i \in DOMAIN t :
          /\ t[i].op \in {"chat", "message", "bid", "accept", "active"}
          /\ t[i].op = "chat" => opened'[t[i].chat] = t[i].job
    <2>1. /\ DOMAIN t = 1..3 /\ t[2].op = "message" /\ t[3].op = "bid"
          /\ t[1] = [op |-> "chat", chat |-> s.chat, job |-> s.job]
      BY DEF BidWrites
    <2>2. \A i \in DOMAIN t : i = 1 \/ i = 2 \/ i = 3
      BY <2>1
    <2> QED
      BY <1>4, <1>6, <2>1, <2>2
  <1> HIDE DEF t
  <1>8. /\ \A x \in Users : \A i \in DOMAIN pending[x] : WriteBacked(x, i)'
        /\ \A x \in Users : \A q \in calls[x] : CallBacked(x, q)'
        /\ \A x \in Users : screen'[x] = screen[x] => ScreenBacked(x)'
        /\ \A v \in convs : ConvBacked(v)'
        /\ HelprHasBid'
    BY <1>4, <1>5, ExtendBacked
  <1>9. \A x \in Users : \A i \in DOMAIN pending'[x] : WriteBacked(x, i)'
    BY <1>4, <1>5, <1>7, <1>8, PlainWrites
  <1>10. u = PosterOf[s.job] => Listed(s.chat, u)'
    BY <1>4, <1>6 DEF Listed, server
  <1>11. \A q \in BidCalls(u, s.job, s.chat, now + 1) : CallBacked(u, q)'
    BY <1>2, <1>3, <1>4, <1>6, <1>10, BidBacked DEF t
  <1>12. \A x \in Users : \A q \in calls'[x] : CallBacked(x, q)'
    BY <1>4, <1>8, <1>11 DEF TypeOK
  <1>13. \A x \in Users : ScreenBacked(x)'
    <2>1. \A x \in Users : screen'[x] = screen[x] \/ screen'[x] = NoScreen
      BY DEF Counter, CloseScreen, TypeOK
    <2> QED
      BY <1>8, <2>1 DEF ScreenBacked
  <1>14. \A c \in Ids : /\ opened'[c] # NoJob => c <= now'
                        /\ chatJob'[c] \in {NoJob, opened'[c]}
    BY <1>3, <1>4 DEF Backed, server, Ids, TypeOK, ConstantsAssumption
  <1>15. convs' = convs
    BY <1>4 DEF server
  <1> QED
    BY <1>8, <1>9, <1>12, <1>13, <1>14, <1>15 DEF Backed

LEMMA CreateFirstBidBacked ==
    ASSUME TypeOK, Backed, ConstantsAssumption, Sound,
           NEW u \in Users, NEW q \in calls[u], CreateFirstBid(u, q)
    PROVE  Backed'
  <1>1. q.job \in Jobs /\ u # PosterOf[q.job]
    BY DEF CreateFirstBid, TypeOK, Call
  <1>2. now + 1 \in Ids /\ now' = now + 1 /\ now < MaxId
    BY DEF CreateFirstBid, TypeOK, Ids, ConstantsAssumption
  <1>3. PICK c \in ChatsFor(u, q.job) :
          /\ pending' = [pending EXCEPT ![u] =
               @ \o BidWrites(u, q.job, NoUser, c, now + 1)]
          /\ calls' = [calls EXCEPT ![u] =
               (@ \ {q}) \cup BidCalls(u, q.job, c, now + 1)]
          /\ opened' = IF c = now + 1 THEN [opened EXCEPT ![c] = q.job] ELSE opened
    BY DEF CreateFirstBid
  <1>4. UNCHANGED server /\ screen' = screen /\ convs' = convs /\ chatJob' = chatJob
    BY DEF CreateFirstBid, server
  <1>5. c \in Ids /\ (c = now + 1 \/ opened[c] = q.job)
    BY <1>1, <1>2, <1>3, ChatsForJob
  <1>6. /\ \A d \in Ids : opened[d] # NoJob => opened'[d] = opened[d]
        /\ opened'[c] = q.job
        /\ \A d \in Ids : /\ opened'[d] # NoJob => d <= now'
                          /\ chatJob'[d] \in {NoJob, opened'[d]}
    BY <1>1, <1>2, <1>3, <1>4, <1>5, OpenedExtends
  <1> DEFINE t == BidWrites(u, q.job, NoUser, c, now + 1)
  <1>7. t \in Seq(Write)
    BY <1>1, <1>2, <1>5, BidWritesType
  <1>8. \A i \in DOMAIN t :
          /\ t[i].op \in {"chat", "message", "bid", "accept", "active"}
          /\ t[i].op = "chat" => opened'[t[i].chat] = t[i].job
    BY <1>6 DEF BidWrites
  <1>9. pending' = [pending EXCEPT ![u] = @ \o t]
    BY <1>3
  <1> HIDE DEF t
  <1>10. /\ \A x \in Users : \A i \in DOMAIN pending[x] : WriteBacked(x, i)'
         /\ \A x \in Users : \A r \in calls[x] : CallBacked(x, r)'
         /\ \A x \in Users : screen'[x] = screen[x] => ScreenBacked(x)'
         /\ \A v \in convs : ConvBacked(v)'
         /\ HelprHasBid'
    BY <1>4, <1>6, <1>7, <1>9, ExtendBacked
  <1>11. \A x \in Users : \A i \in DOMAIN pending'[x] : WriteBacked(x, i)'
    BY <1>7, <1>8, <1>9, <1>10, PlainWrites
  <1>12. \A r \in BidCalls(u, q.job, c, now + 1) : CallBacked(u, r)'
    BY <1>1, <1>2, <1>3, <1>5, <1>6, BidBacked
  <1>13. \A x \in Users : \A r \in calls'[x] : CallBacked(x, r)'
    BY <1>3, <1>10, <1>12 DEF TypeOK
  <1> QED
    BY <1>4, <1>6, <1>10, <1>11, <1>13 DEF Backed

LEMMA DieOnOwnJobBacked ==
    ASSUME TypeOK, Backed, ConstantsAssumption, Sound,
           NEW u \in Users, NEW q \in calls[u], DieOnOwnJob(u, q)
    PROVE  Backed'
  <1>1. q.job \in Jobs /\ u = PosterOf[q.job]
    BY DEF DieOnOwnJob, TypeOK, Call
  <1>2. now + 1 \in Ids /\ now' = now + 1 /\ now < MaxId
    BY DEF DieOnOwnJob, TypeOK, Ids, ConstantsAssumption
  <1>3. PICK c \in ChatsFor(u, q.job), k \in 0..2 :
          /\ pending' = [pending EXCEPT ![u] =
               @ \o SubSeq(BidWrites(u, q.job, u, c, now + 1), 1, k)]
          /\ opened' = IF c = now + 1 THEN [opened EXCEPT ![c] = q.job] ELSE opened
    BY DEF DieOnOwnJob
  <1>4. UNCHANGED server /\ convs' = convs /\ chatJob' = chatJob
        /\ calls' = [calls EXCEPT ![u] = {}]
    BY DEF DieOnOwnJob, server
  <1>5. c \in Ids /\ (c = now + 1 \/ opened[c] = q.job)
    BY <1>1, <1>2, <1>3, ChatsForJob
  <1>6. /\ \A d \in Ids : opened[d] # NoJob => opened'[d] = opened[d]
        /\ opened'[c] = q.job
        /\ \A d \in Ids : /\ opened'[d] # NoJob => d <= now'
                          /\ chatJob'[d] \in {NoJob, opened'[d]}
    BY <1>1, <1>2, <1>3, <1>4, <1>5, OpenedExtends
  <1> DEFINE b == BidWrites(u, q.job, u, c, now + 1)
             t == SubSeq(b, 1, k)
  <1>7. b \in Seq(Write)
    BY <1>1, <1>2, <1>5, BidWritesType
  <1>8. \A i \in DOMAIN b :
          /\ b[i].op \in {"chat", "message", "bid", "accept", "active"}
          /\ b[i].op = "chat" => opened'[b[i].chat] = b[i].job
    BY <1>6 DEF BidWrites
  <1>9. pending' = [pending EXCEPT ![u] = @ \o t]
    BY <1>3
  <1>a. Len(b) = 3
    BY DEF BidWrites
  <1> HIDE DEF b
  <1>10. k \in 0..Len(b)
    BY <1>3, <1>a
  <1>11. t \in Seq(Write)
    BY <1>7, <1>10, QueueTypes
  <1>12. \A i \in DOMAIN t : i \in DOMAIN b /\ t[i] = b[i]
    BY <1>7, <1>10, Cut
  <1> HIDE DEF t
  <1>13. /\ \A x \in Users : \A i \in DOMAIN pending[x] : WriteBacked(x, i)'
         /\ \A x \in Users : \A r \in calls[x] : CallBacked(x, r)'
         /\ \A x \in Users : screen'[x] = screen[x] => ScreenBacked(x)'
         /\ \A v \in convs : ConvBacked(v)'
         /\ HelprHasBid'
    BY <1>4, <1>6, <1>9, <1>11, ExtendBacked
  <1>14. \A i \in DOMAIN t :
           /\ t[i].op \in {"chat", "message", "bid", "accept", "active"}
           /\ t[i].op = "chat" => opened'[t[i].chat] = t[i].job
    BY <1>8, <1>12
  <1>15. \A x \in Users : \A i \in DOMAIN pending'[x] : WriteBacked(x, i)'
    BY <1>9, <1>11, <1>13, <1>14, PlainWrites
  <1>16. \A x \in Users : calls'[x] \subseteq calls[x]
    BY <1>4 DEF TypeOK
  <1>17. \A x \in Users : ScreenBacked(x)'
    <2>1. \A x \in Users : screen'[x] = screen[x] \/ screen'[x] = NoScreen
      BY DEF DieOnOwnJob, CloseScreen, TypeOK
    <2> QED
      BY <1>13, <2>1 DEF ScreenBacked
  <1> QED
    BY <1>4, <1>6, <1>13, <1>15, <1>16, <1>17 DEF Backed

LEMMA AcceptBacked ==
    ASSUME TypeOK, Backed, ConstantsAssumption, NEW u \in Users, Accept(u)
    PROVE  Backed'
  <1>1. PICK s \in Screen : s = screen[u] /\ s # NoScreen
    BY DEF Accept, TypeOK
  <1>2. PICK h \in JobHelpr : h = HelprOf(u, s)
    <2>1. HelprOf(u, s) \in JobHelpr
      BY <1>1 DEF HelprOf, JobHelpr, Screen
    <2> QED
      BY <2>1
  <1> DEFINE t == AcceptWrites(s.chat, h)
  <1>3. /\ pending' = [pending EXCEPT ![u] = @ \o t]
        /\ UNCHANGED server /\ opened' = opened /\ calls' = calls
        /\ now' = now + 1
    BY <1>1, <1>2 DEF Accept
  <1>4. /\ DOMAIN t = 1..3
        /\ t[1] = [op |-> "accept", chat |-> s.chat]
        /\ t[2] = [op |-> "helpr", helpr |-> h]
        /\ t[3] = [op |-> "acceptedJob", helpr |-> h]
    BY DEF AcceptWrites
  <1>5. t \in Seq(Write)
    <2>1. \A i \in 1..3 : t[i] \in Write
      BY <1>1, <1>4 DEF Write, Screen
    <2> QED
      BY <2>1 DEF AcceptWrites
  <1> HIDE DEF t
  <1>6. /\ \A x \in Users : \A i \in DOMAIN pending[x] : WriteBacked(x, i)'
        /\ \A x \in Users : \A r \in calls[x] : CallBacked(x, r)'
        /\ \A x \in Users : screen'[x] = screen[x] => ScreenBacked(x)'
        /\ \A v \in convs : ConvBacked(v)'
        /\ HelprHasBid'
    BY <1>3, <1>5, ExtendBacked
  <1>7. PICK n \in Nat : n = Len(pending[u])
    <2>1. pending[u] \in Seq(Write)
      BY DEF TypeOK
    <2>2. Len(pending[u]) \in Nat
      BY <2>1, LenIsNat
    <2> QED
      BY <2>2, Zenon
  <1>8. BidAhead(u, n, h.job, h.user)
    BY <1>1, <1>2, <1>7 DEF Backed, ScreenBacked, HelprOf
  <1>9. ASSUME NEW i \in DOMAIN pending'[u], i \notin DOMAIN pending[u]
        PROVE  WriteBacked(u, i)'
    <2>1. pending'[u] = pending[u] \o t /\ pending[u] \in Seq(Write)
      BY <1>3 DEF TypeOK
    <2>2. i - n \in 1..3 /\ pending'[u][i] = t[i - n] /\ i \in Int
      BY <1>4, <1>5, <1>7, <1>9, <2>1, Extended
    <2>3. n \in Int /\ i - 1 \in Int /\ n <= i - 1
      BY <1>7, <2>2
    <2>4. BidAhead(u, i - 1, h.job, h.user)'
      <3>1. UNCHANGED server /\ pending' = [pending EXCEPT ![u] = @ \o t]
        BY <1>3
      <3> QED
        BY <1>5, <1>8, <2>3, <3>1, ExtendAhead
    <2>5. \/ pending'[u][i] = [op |-> "accept", chat |-> s.chat]
          \/ pending'[u][i] = [op |-> "helpr", helpr |-> h]
          \/ pending'[u][i] = [op |-> "acceptedJob", helpr |-> h]
      BY <1>4, <2>2
    <2> QED
      BY <2>4, <2>5 DEF WriteBacked
  <1>10. \A x \in Users : \A i \in DOMAIN pending'[x] : WriteBacked(x, i)'
    <2>1. \A x \in Users : x # u => pending'[x] = pending[x]
      BY <1>3 DEF TypeOK
    <2> QED
      BY <1>6, <1>9, <2>1
  <1>11. \A x \in Users : ScreenBacked(x)'
    <2>1. \A x \in Users : screen'[x] = screen[x] \/ screen'[x] = NoScreen
      BY DEF Accept, CloseScreen, TypeOK
    <2> QED
      BY <1>6, <2>1 DEF ScreenBacked
  <1>12. convs' = convs /\ chatJob' = chatJob
    BY <1>3 DEF server
  <1>13. \A c \in Ids : /\ opened'[c] # NoJob => c <= now'
                        /\ chatJob'[c] \in {NoJob, opened'[c]}
    BY <1>3, <1>12 DEF Backed, Ids, TypeOK, ConstantsAssumption
  <1> QED
    BY <1>3, <1>6, <1>10, <1>11, <1>12, <1>13 DEF Backed

(* One write w appended, one answered call gone.                           *)
LEMMA AppendBacked ==
    ASSUME TypeOK, Backed, ConstantsAssumption, NEW u \in Users, NEW q,
           NEW w \in Write, pending' = [pending EXCEPT ![u] = Append(@, w)],
           calls' = [calls EXCEPT ![u] = @ \ {q}],
           UNCHANGED <<server, screen, now, opened>>,
           \/ w.op = "active"
           \/ /\ w.op = "conv"
              /\ opened[w.conv.chat] = w.conv.job
              /\ Parties(w.conv, u)
              /\ ChatAhead(u, Len(pending[u]), w.conv.chat, w.conv.job)
              /\ BidAhead(u, Len(pending[u]), w.conv.job, u)
    PROVE  Backed'
  <1>1. PICK t \in Seq(Write) : t = << w >>
    <2>1. << w >> \in Seq(Write)
      OBVIOUS
    <2> QED
      BY <2>1
  <1>2. DOMAIN t = 1..1 /\ t[1] = w
    BY <1>1
  <1>3. pending[u] \in Seq(Write) /\ Append(pending[u], w) = pending[u] \o t
    <2>1. pending[u] \in Seq(Write)
      BY DEF TypeOK
    <2>2. PICK s \in Seq(Write) : s = pending[u]
      BY <2>1
    <2>3. Append(s, w) = s \o << w >>
      OBVIOUS
    <2> QED
      BY <1>1, <2>1, <2>2, <2>3
  <1>4. pending' = [pending EXCEPT ![u] = @ \o t]
    BY <1>3 DEF TypeOK
  <1>5. UNCHANGED server /\ convs' = convs /\ chatJob' = chatJob
    BY DEF server
  <1>6. /\ \A x \in Users : \A i \in DOMAIN pending[x] : WriteBacked(x, i)'
        /\ \A x \in Users : \A r \in calls[x] : CallBacked(x, r)'
        /\ \A x \in Users : screen'[x] = screen[x] => ScreenBacked(x)'
        /\ \A v \in convs : ConvBacked(v)'
        /\ HelprHasBid'
    BY <1>4, <1>5, ExtendBacked
  <1>7. PICK n \in Nat : n = Len(pending[u])
    <2>1. pending[u] \in Seq(Write)
      BY <1>3
    <2>2. Len(pending[u]) \in Nat
      BY <2>1, LenIsNat
    <2> QED
      BY <2>2, Zenon
  <1>8. ASSUME NEW i \in DOMAIN pending'[u], i \notin DOMAIN pending[u]
        PROVE  WriteBacked(u, i)'
    <2>1. pending'[u] = pending[u] \o t
      BY <1>4 DEF TypeOK
    <2>2. i - n \in 1..1 /\ pending'[u][i] = t[i - n] /\ i \in Int
      BY <1>2, <1>3, <1>7, <1>8, <2>1, Extended
    <2>3. i = n + 1 /\ i - n = 1
      BY <2>2
    <2>4. pending'[u][i] = w /\ i - 1 \in Int /\ n <= i - 1 /\ n \in Int
      BY <1>2, <2>2, <2>3
    <2>5. CASE w.op = "active"
      BY <2>4, <2>5 DEF WriteBacked
    <2>6. CASE w.op = "conv"
      <3>1. /\ ChatAhead(u, n, w.conv.chat, w.conv.job)
            /\ BidAhead(u, n, w.conv.job, u)
        BY <1>7, <2>6
      <3>2. /\ ChatAhead(u, i - 1, w.conv.chat, w.conv.job)'
            /\ BidAhead(u, i - 1, w.conv.job, u)'
        BY <1>4, <1>5, <2>4, <3>1, ExtendAhead
      <3>3. opened'[w.conv.chat] = w.conv.job /\ Parties(w.conv, u)
        BY <2>6
      <3> QED
        BY <2>4, <2>6, <3>2, <3>3 DEF WriteBacked, Parties
    <2> QED
      BY <2>5, <2>6
  <1>9. \A x \in Users : \A i \in DOMAIN pending'[x] : WriteBacked(x, i)'
    <2>1. \A x \in Users : x # u => pending'[x] = pending[x]
      BY <1>4 DEF TypeOK
    <2> QED
      BY <1>6, <1>8, <2>1
  <1>10. \A x \in Users : calls'[x] \subseteq calls[x]
    BY DEF TypeOK
  <1>11. \A c \in Ids : /\ opened'[c] # NoJob => c <= now'
                        /\ chatJob'[c] \in {NoJob, opened'[c]}
    BY <1>5 DEF Backed
  <1> QED
    BY <1>5, <1>6, <1>9, <1>10, <1>11 DEF Backed

(* An answer that writes nothing.                                          *)
LEMMA AnsweredBacked ==
    ASSUME TypeOK, Backed, ConstantsAssumption, NEW u \in Users, NEW q,
           calls' = [calls EXCEPT ![u] = @ \ {q}],
           UNCHANGED <<server, pending, screen, now, opened>>
    PROVE  Backed'
  <1>1. \A x \in Users : calls'[x] \subseteq calls[x]
    BY DEF TypeOK
  <1>2. \A c \in Ids : /\ opened'[c] # NoJob => c <= now'
                       /\ chatJob'[c] \in {NoJob, opened'[c]}
    BY DEF Backed, server
  <1> QED
    BY <1>1, <1>2, StillBacked DEF Backed

LEMMA EnterConversationBacked ==
    ASSUME TypeOK, Backed, ConstantsAssumption,
           NEW u \in Users, NEW q \in calls[u], EnterConversation(u, q)
    PROVE  Backed'
  <1>1. /\ q.kind \in {"own", "poster"}
        /\ calls' = [calls EXCEPT ![u] = @ \ {q}]
        /\ UNCHANGED <<server, screen, now, opened>>
    BY DEF EnterConversation
  <1>2. q \in Call
    BY DEF TypeOK
  <1>3. /\ q.n \in Ids /\ q.chat \in Ids /\ q.job \in Jobs /\ q.owner \in Users
        /\ PosterOf[q.job] \in Users
    BY <1>1, <1>2 DEF Call, ConstantsAssumption
  <1>4. PICK docs \in Answers(u, q.owner, q.chat) :
          pending' = [pending EXCEPT ![u] = Append(@,
            IF docs = {}
            THEN [op |-> "conv", conv |-> NewConv(u, q)]
            ELSE [op |-> "active", docs |-> docs, value |-> TRUE])]
    BY DEF EnterConversation
  <1>5. CASE /\ docs # {}
             /\ pending' = [pending EXCEPT ![u] =
                  Append(@, [op |-> "active", docs |-> docs, value |-> TRUE])]
    <2>1. docs \subseteq DocIds
      BY AnswerTypes
    <2>2. [op |-> "active", docs |-> docs, value |-> TRUE] \in Write
      BY <2>1 DEF Write
    <2> QED
      BY <1>1, <1>5, <2>2, AppendBacked
  <1>6. CASE /\ docs = {}
             /\ pending' = [pending EXCEPT ![u] =
                  Append(@, [op |-> "conv", conv |-> NewConv(u, q)])]
    <2>1. PICK v \in ConvDoc : v = NewConv(u, q)
      <3>1. NewConv(u, q) \in ConvDoc
        BY <1>1, <1>3 DEF NewConv, ConvDoc, DocIds
      <3> QED
        BY <3>1
    <2>2. [op |-> "conv", conv |-> v] \in Write
      BY DEF Write
    <2>3. CallBacked(u, q)
      BY DEF Backed
    <2>4. u # PosterOf[q.job]
      <3>1. SUFFICES ASSUME u = PosterOf[q.job] PROVE FALSE
        OBVIOUS
      <3>2. Listed(q.chat, u) /\ q.owner = u
        BY <1>1, <2>3, <3>1 DEF CallBacked
      <3>3. PICK x \in HeldConvs(u) : x.owner = q.owner /\ x.chat = q.chat
        BY <3>2 DEF Listed, SeenConvs, HeldConvs
      <3>4. x.doc \in docs
        BY <3>3 DEF Answers, ConvDocs, HeldConvs
      <3> QED
        BY <1>6, <3>4
    <2>5. /\ opened[q.chat] = q.job
          /\ ChatAhead(u, Len(pending[u]), q.chat, q.job)
          /\ BidAhead(u, Len(pending[u]), q.job, u)
          /\ q.owner = IF q.kind = "own" THEN u ELSE PosterOf[q.job]
      BY <1>1, <2>3, <2>4 DEF CallBacked
    <2>6. v.chat = q.chat /\ v.job = q.job /\ Parties(v, u)
      BY <1>1, <2>1, <2>4, <2>5 DEF NewConv, Parties
    <2>7. pending' = [pending EXCEPT ![u] = Append(@, [op |-> "conv", conv |-> v])]
      BY <1>6, <2>1
    <2>8. PICK w \in Write : w = [op |-> "conv", conv |-> v]
      BY <2>2
    <2>9. /\ w.op = "conv" /\ w.conv = v
          /\ pending' = [pending EXCEPT ![u] = Append(@, w)]
      BY <2>7, <2>8
    <2> QED
      BY <1>1, <2>5, <2>6, <2>9, AppendBacked
  <1> QED
    BY <1>4, <1>5, <1>6

(* A look-up that does not get the poster's document.                      *)
LEMMA MissPosterBacked ==
    ASSUME TypeOK, Backed, ConstantsAssumption,
           NEW u \in Users, NEW q \in calls[u], MissPoster(u, q)
    PROVE  Backed'
  BY AnsweredBacked DEF MissPoster

LEMMA LeaveConversationBacked ==
    ASSUME TypeOK, Backed, ConstantsAssumption,
           NEW u \in Users, NEW q \in calls[u], LeaveConversation(u, q)
    PROVE  Backed'
  <1>1. /\ calls' = [calls EXCEPT ![u] = @ \ {q}]
        /\ UNCHANGED <<server, screen, now, opened>>
    BY DEF LeaveConversation
  <1>a. PICK docs \in Answers(u, q.owner, q.chat) :
          pending' = [pending EXCEPT ![u] =
            IF docs = {} THEN @ ELSE Append(@, Deactivation(docs))]
    BY DEF LeaveConversation
  <1>2. CASE pending' = pending
    BY <1>1, <1>2, AnsweredBacked
  <1>3. CASE pending' = [pending EXCEPT ![u] = Append(@, Deactivation(docs))]
    <2>1. docs \subseteq DocIds
      BY AnswerTypes
    <2>2. Deactivation(docs) \in Write /\ Deactivation(docs).op = "active"
      BY <2>1 DEF Write, Deactivation
    <2> QED
      BY <1>1, <1>3, <2>2, AppendBacked
  <1>4. \/ pending' = [pending EXCEPT ![u] = pending[u]]
        \/ pending' = [pending EXCEPT ![u] = Append(@, Deactivation(docs))]
    BY <1>a
  <1>5. [pending EXCEPT ![u] = pending[u]] = pending
    BY DEF TypeOK
  <1> QED
    BY <1>2, <1>3, <1>4, <1>5

-----------------------------------------------------------------------------
(* Steps that take the head off a queue.                                   *)

(* What was ahead by n writes is ahead by n - 1, or on the server.         *)
LEMMA PopAhead ==
    ASSUME TypeOK, Backed, NEW u \in Users, pending[u] # << >>, opened' = opened,
           pending' = [pending EXCEPT ![u] = Tail(@)],
           bids \subseteq bids',
           Head(pending[u]).op = "bid" => Head(pending[u]).bid \in bids',
           Head(pending[u]).op = "chat" =>
             chatJob'[Head(pending[u]).chat] = Head(pending[u]).job,
           \A c \in Ids : chatJob[c] = opened[c] => chatJob'[c] = opened[c]
    PROVE  /\ \A n \in Int : \A j, b : BidAhead(u, n, j, b) => BidAhead(u, n - 1, j, b)'
           /\ \A x \in Users, n \in Int : \A j, b : x # u =>
                (BidAhead(x, n, j, b) => BidAhead(x, n, j, b)')
           /\ \A n \in Int, c \in Ids : \A j : opened[c] = j =>
                (ChatAhead(u, n, c, j) => ChatAhead(u, n - 1, c, j)')
           /\ \A x \in Users, n \in Int, c \in Ids : \A j : x # u /\ opened[c] = j =>
                (ChatAhead(x, n, c, j) => ChatAhead(x, n, c, j)')
  <1>1. pending[u] \in Seq(Write) /\ pending'[u] = Tail(pending[u])
    BY DEF TypeOK
  <1>2. \A i \in DOMAIN pending[u] :
          /\ i \in Int
          /\ \/ i = 1 /\ pending[u][i] = Head(pending[u])
             \/ i - 1 \in DOMAIN pending'[u] /\ pending'[u][i - 1] = pending[u][i]
    <2>1. \A i \in DOMAIN pending[u] : i \in Int
      BY <1>1
    <2>2. \A i \in DOMAIN pending[u] :
            i = 1 \/ (i - 1 \in DOMAIN Tail(pending[u])
                     /\ Tail(pending[u])[i - 1] = pending[u][i])
      BY <1>1, Popped
    <2>3. Head(pending[u]) = pending[u][1]
      BY <1>1, Popped
    <2> QED
      BY <1>1, <2>1, <2>2, <2>3
  <1>3. \A x \in Users : x # u => pending'[x] = pending[x]
    BY DEF TypeOK
  <1>4. ASSUME NEW n \in Int, NEW j, NEW b, BidAhead(u, n, j, b)
        PROVE  BidAhead(u, n - 1, j, b)'
    <2>1. CASE BidOnServer(j, b)
      BY <2>1 DEF BidAhead, BidOnServer
    <2>2. CASE \E i \in Queued(u, "bid") :
            i <= n /\ OwnBid(pending[u][i].bid, j, b)
      <3>1. PICK i \in Queued(u, "bid") :
              i <= n /\ OwnBid(pending[u][i].bid, j, b)
        BY <2>2
      <3>2. i \in DOMAIN pending[u] /\ pending[u][i].op = "bid"
        BY <3>1 DEF Queued
      <3>3. CASE i = 1 /\ pending[u][i] = Head(pending[u])
        BY <3>1, <3>2, <3>3 DEF BidAhead, BidOnServer
      <3>4. CASE i - 1 \in DOMAIN pending'[u] /\ pending'[u][i - 1] = pending[u][i]
        <4>1. i - 1 \in Queued(u, "bid")'
          BY <3>2, <3>4 DEF Queued
        <4>2. i - 1 <= n - 1
          BY <1>2, <3>1, <3>2
        <4> QED
          BY <3>1, <3>4, <4>1, <4>2 DEF BidAhead
      <3> QED
        BY <1>2, <3>2, <3>3, <3>4
    <2> QED
      BY <1>4, <2>1, <2>2 DEF BidAhead
  <1>5. ASSUME NEW n \in Int, NEW c \in Ids, NEW j, opened[c] = j,
               ChatAhead(u, n, c, j)
        PROVE  ChatAhead(u, n - 1, c, j)'
    <2>1. CASE chatJob[c] = j
      BY <1>5, <2>1 DEF ChatAhead
    <2>2. CASE \E i \in Queued(u, "chat") :
            i <= n /\ pending[u][i].chat = c /\ pending[u][i].job = j
      <3>1. PICK i \in Queued(u, "chat") :
              i <= n /\ pending[u][i].chat = c /\ pending[u][i].job = j
        BY <2>2
      <3>2. i \in DOMAIN pending[u] /\ pending[u][i].op = "chat"
        BY <3>1 DEF Queued
      <3>3. CASE i = 1 /\ pending[u][i] = Head(pending[u])
        BY <3>1, <3>2, <3>3 DEF ChatAhead
      <3>4. CASE i - 1 \in DOMAIN pending'[u] /\ pending'[u][i - 1] = pending[u][i]
        <4>1. i - 1 \in Queued(u, "chat")'
          BY <3>2, <3>4 DEF Queued
        <4>2. i - 1 <= n - 1
          BY <1>2, <3>1, <3>2
        <4> QED
          BY <3>1, <3>4, <4>1, <4>2 DEF ChatAhead
      <3> QED
        BY <1>2, <3>2, <3>3, <3>4
    <2> QED
      BY <1>5, <2>1, <2>2 DEF ChatAhead
  <1>6. ASSUME NEW x \in Users, x # u
        PROVE  /\ \A n \in Int : \A j, b : BidAhead(x, n, j, b) => BidAhead(x, n, j, b)'
               /\ \A n \in Int, c \in Ids : \A j : opened[c] = j =>
                    (ChatAhead(x, n, c, j) => ChatAhead(x, n, c, j)')
    <2>1. pending'[x] = pending[x]
      BY <1>3, <1>6
    <2> QED
      BY <2>1 DEF BidAhead, BidOnServer, ChatAhead, Queued
  <1> QED
    BY <1>4, <1>5, <1>6

(* Popping a write disturbs nothing that was backed.                       *)
LEMMA PopBacked ==
    ASSUME TypeOK, Backed, ConstantsAssumption,
           NEW u \in Users, pending[u] # << >>,
           UNCHANGED <<calls, screen, opened>>,
           pending' = [pending EXCEPT ![u] = Tail(@)],
           bids \subseteq bids', convs \subseteq convs',
           Head(pending[u]).op = "bid" => Head(pending[u]).bid \in bids',
           Head(pending[u]).op = "chat" =>
             chatJob'[Head(pending[u]).chat] = Head(pending[u]).job,
           \A c \in Ids : chatJob[c] = opened[c] => chatJob'[c] = opened[c]
    PROVE  /\ \A x \in Users : \A i \in DOMAIN pending'[x] : WriteBacked(x, i)'
           /\ \A x \in Users : \A q \in calls'[x] : CallBacked(x, q)'
           /\ \A x \in Users : ScreenBacked(x)'
           /\ \A v \in convs : ConvBacked(v)'
  <1>1. /\ \A n \in Int : \A j, b : BidAhead(u, n, j, b) => BidAhead(u, n - 1, j, b)'
        /\ \A x \in Users, n \in Int : \A j, b : x # u =>
             (BidAhead(x, n, j, b) => BidAhead(x, n, j, b)')
        /\ \A n \in Int, c \in Ids : \A j : opened[c] = j =>
             (ChatAhead(u, n, c, j) => ChatAhead(u, n - 1, c, j)')
        /\ \A x \in Users, n \in Int, c \in Ids : \A j : x # u /\ opened[c] = j =>
             (ChatAhead(x, n, c, j) => ChatAhead(x, n, c, j)')
    BY PopAhead
  <1>2. \A x \in Users : pending[x] \in Seq(Write) /\ Len(pending[x]) \in Int
    BY DEF TypeOK
  <1>3. /\ pending'[u] = Tail(pending[u]) /\ Len(pending'[u]) = Len(pending[u]) - 1
        /\ \A x \in Users : x # u => pending'[x] = pending[x]
    BY <1>2, Popped DEF TypeOK
  <1>4. ASSUME NEW x \in Users, NEW i \in DOMAIN pending'[x]
        PROVE  WriteBacked(x, i)'
    <2>1. PICK k \in Int : /\ k \in DOMAIN pending[x] /\ pending'[x][i] = pending[x][k]
                           /\ k = IF x = u THEN i + 1 ELSE i
      <3>1. CASE x = u
        <4>1. i + 1 \in DOMAIN pending[u] /\ pending'[u][i] = pending[u][i + 1]
          BY <1>2, <1>3, <1>4, <3>1, Popped
        <4>2. i + 1 \in Int
          BY <1>2, <4>1
        <4> QED
          BY <3>1, <4>1, <4>2
      <3>2. CASE x # u
        <4>1. i \in Int /\ i \in DOMAIN pending[x] /\ pending'[x][i] = pending[x][i]
          BY <1>2, <1>3, <3>2
        <4> QED
          BY <3>2, <4>1
      <3> QED
        BY <3>1, <3>2
    <2>2. PICK w \in Write : w = pending[x][k]
      BY <1>2, <2>1
    <2>3. WriteBacked(x, k)
      BY <2>1 DEF Backed
    <2>4. /\ k - 1 \in Int
          /\ i - 1 = IF x = u THEN (k - 1) - 1 ELSE k - 1
      <3>1. i \in Int
        BY <1>2, <1>3, Popped
      <3> QED
        BY <2>1, <3>1
    <2>5. w.op = "conv" => w.conv.chat \in Ids
      BY <2>2, WriteFields DEF ConvDoc
    <2>6. w.op = "chat" => opened'[w.chat] = w.job
      BY <2>2, <2>3 DEF WriteBacked
    <2>7. w.op = "conv" => /\ opened'[w.conv.chat] = w.conv.job
                           /\ Parties(w.conv, x)
                           /\ ChatAhead(x, i - 1, w.conv.chat, w.conv.job)'
                           /\ BidAhead(x, i - 1, w.conv.job, x)'
      <3>1. SUFFICES ASSUME w.op = "conv"
                     PROVE  /\ opened[w.conv.chat] = w.conv.job
                            /\ Parties(w.conv, x)
                            /\ ChatAhead(x, i - 1, w.conv.chat, w.conv.job)'
                            /\ BidAhead(x, i - 1, w.conv.job, x)'
        OBVIOUS
      <3>2. /\ opened[w.conv.chat] = w.conv.job
            /\ Parties(w.conv, x)
            /\ ChatAhead(x, k - 1, w.conv.chat, w.conv.job)
            /\ BidAhead(x, k - 1, w.conv.job, x)
        BY <2>2, <2>3, <3>1 DEF WriteBacked
      <3>3. CASE x = u
        <4>1. i - 1 = (k - 1) - 1
          BY <2>4, <3>3
        <4> QED
          BY <1>1, <2>4, <2>5, <3>1, <3>2, <3>3, <4>1
      <3>4. CASE x # u
        <4>1. i - 1 = k - 1
          BY <2>4, <3>4
        <4> QED
          BY <1>1, <2>4, <2>5, <3>1, <3>2, <3>4, <4>1
      <3> QED
        BY <3>3, <3>4
    <2>8. w.op \in {"helpr", "acceptedJob"} =>
            BidAhead(x, i - 1, w.helpr.job, w.helpr.user)'
      <3>1. SUFFICES ASSUME w.op \in {"helpr", "acceptedJob"}
                     PROVE  BidAhead(x, i - 1, w.helpr.job, w.helpr.user)'
        OBVIOUS
      <3>2. BidAhead(x, k - 1, w.helpr.job, w.helpr.user)
        BY <2>2, <2>3, <3>1 DEF WriteBacked
      <3>3. CASE x = u
        <4>1. i - 1 = (k - 1) - 1
          BY <2>4, <3>3
        <4> QED
          BY <1>1, <2>4, <3>2, <3>3, <4>1
      <3>4. CASE x # u
        <4>1. i - 1 = k - 1
          BY <2>4, <3>4
        <4> QED
          BY <1>1, <2>4, <3>2, <3>4, <4>1
      <3> QED
        BY <3>3, <3>4
    <2>9. pending'[x][i] = w
      BY <2>1, <2>2
    <2> QED
      BY <2>6, <2>7, <2>8, <2>9 DEF WriteBacked, Parties
  <1>5. \A c, x : Listed(c, x) => Listed(c, x)'
    BY DEF Listed
  <1>6. \A x \in Users : \A j, b :
          BidAhead(x, Len(pending[x]), j, b) => BidAhead(x, Len(pending[x]), j, b)'
    <2> TAKE x \in Users
    <2> TAKE j, b
    <2>1. PICK n \in Int : n = Len(pending[x])
      BY <1>2
    <2>2. PICK m \in Int : m = Len(pending'[x]) /\ m = IF x = u THEN n - 1 ELSE n
      <3>1. Len(pending'[x]) = IF x = u THEN n - 1 ELSE n
        BY <1>3, <2>1
      <3>2. (IF x = u THEN n - 1 ELSE n) \in Int
        BY <2>1
      <3> QED
        BY <3>1, <3>2
    <2>3. BidAhead(x, n, j, b) => BidAhead(x, m, j, b)'
      BY <1>1, <2>1, <2>2
    <2> QED
      BY <2>1, <2>2, <2>3 DEF BidAhead
  <1>7. \A x \in Users, c \in Ids : \A j : opened[c] = j =>
          (ChatAhead(x, Len(pending[x]), c, j) => ChatAhead(x, Len(pending[x]), c, j)')
    <2> TAKE x \in Users, c \in Ids
    <2> TAKE j
    <2>1. PICK n \in Int : n = Len(pending[x])
      BY <1>2
    <2>2. PICK m \in Int : m = Len(pending'[x]) /\ m = IF x = u THEN n - 1 ELSE n
      <3>1. Len(pending'[x]) = IF x = u THEN n - 1 ELSE n
        BY <1>3, <2>1
      <3>2. (IF x = u THEN n - 1 ELSE n) \in Int
        BY <2>1
      <3> QED
        BY <3>1, <3>2
    <2>3. opened[c] = j => (ChatAhead(x, n, c, j) => ChatAhead(x, m, c, j)')
      BY <1>1, <2>1, <2>2
    <2> QED
      BY <2>1, <2>2, <2>3 DEF ChatAhead
  <1>8. ASSUME NEW x \in Users, NEW q \in calls'[x]
        PROVE  CallBacked(x, q)'
    <2>1. CallBacked(x, q) /\ q \in Call
      BY DEF Backed, TypeOK
    <2>2. q.kind \in {"own", "poster"} => q.chat \in Ids
      BY <2>1 DEF Call
    <2> QED
      BY <1>5, <1>6, <1>7, <2>1, <2>2 DEF CallBacked
  <1>9. ASSUME NEW x \in Users
        PROVE  ScreenBacked(x)'
    <2>1. ScreenBacked(x)
      BY DEF Backed
    <2> QED
      BY <1>5, <1>6, <2>1 DEF ScreenBacked, HelprOf
  <1>10. ASSUME NEW v \in convs
         PROVE  ConvBacked(v)'
    <2>1. ConvBacked(v) /\ v.chat \in Ids
      BY DEF Backed, TypeOK, ConvDoc
    <2> QED
      BY <2>1 DEF ConvBacked, Parties, BidOnServer
  <1> QED
    BY <1>4, <1>8, <1>9, <1>10

LEMMA AcknowledgeBacked ==
    ASSUME TypeOK, Backed, ConstantsAssumption, NEW u \in Users, Acknowledge(u)
    PROVE  Backed'
  <1>1. pending[u] \in Seq(Write) /\ pending[u] # << >>
    BY DEF Acknowledge, TypeOK
  <1>2. PICK w \in Write : w = Head(pending[u])
    <2>1. Head(pending[u]) \in Write
      BY <1>1
    <2> QED
      BY <2>1
  <1>3. w = pending[u][1] /\ 1 \in DOMAIN pending[u]
    BY <1>1, <1>2, Popped
  <1>4. WriteBacked(u, 1)
    BY <1>3 DEF Backed
  <1>5. /\ pending' = [pending EXCEPT ![u] = Tail(@)]
        /\ UNCHANGED <<calls, screen, now, opened>>
        /\ chatJob' = IF w.op = "chat" THEN [chatJob EXCEPT ![w.chat] = w.job]
                      ELSE chatJob
        /\ bids' = IF w.op = "bid" THEN bids \cup {w.bid} ELSE bids
        /\ convs' = IF w.op = "conv" THEN convs \cup {w.conv} ELSE convs
        /\ helprs' = IF w.op = "helpr" THEN helprs \cup {w.helpr} ELSE helprs
        /\ acceptedJobs' = IF w.op = "acceptedJob" THEN acceptedJobs \cup {w.helpr}
                           ELSE acceptedJobs
    BY <1>2 DEF Acknowledge
  <1>6. w.op = "chat" => w.chat \in Ids /\ w.job = opened[w.chat]
    BY <1>3, <1>4, WriteFields DEF WriteBacked
  <1>7. /\ \A c \in Ids : chatJob[c] = opened[c] => chatJob'[c] = opened[c]
        /\ w.op = "chat" => chatJob'[w.chat] = w.job
        /\ \A c \in Ids : chatJob'[c] \in {NoJob, opened'[c]}
    <2>1. chatJob \in [Ids -> Jobs \cup {NoJob}]
      BY DEF TypeOK
    <2>2. \A c \in Ids : chatJob[c] \in {NoJob, opened[c]}
      BY DEF Backed
    <2> QED
      BY <1>5, <1>6, <2>1, <2>2
  <1>8. bids \subseteq bids' /\ convs \subseteq convs' /\ (w.op = "bid" => w.bid \in bids')
    BY <1>5
  <1>9. /\ \A x \in Users : \A i \in DOMAIN pending'[x] : WriteBacked(x, i)'
        /\ \A x \in Users : \A q \in calls'[x] : CallBacked(x, q)'
        /\ \A x \in Users : ScreenBacked(x)'
        /\ \A v \in convs : ConvBacked(v)'
    BY <1>1, <1>2, <1>5, <1>7, <1>8, PopBacked
  <1>10. \A j, b, c : /\ BidAhead(u, 0, j, b) => BidOnServer(j, b)
                      /\ ChatAhead(u, 0, c, j) => chatJob[c] = j
    <2>1. \A i \in DOMAIN pending[u] : i \in Int /\ ~ (i <= 0)
      BY <1>1
    <2> QED
      BY <2>1 DEF BidAhead, ChatAhead, Queued
  <1>11. \A v \in convs' : ConvBacked(v)'
    <2>1. SUFFICES ASSUME w.op = "conv" PROVE ConvBacked(w.conv)'
      BY <1>5, <1>9
    <2>2. /\ opened[w.conv.chat] = w.conv.job
          /\ Parties(w.conv, u)
          /\ ChatAhead(u, 0, w.conv.chat, w.conv.job)
          /\ BidAhead(u, 0, w.conv.job, u)
      <3>1. 1 - 1 = 0
        OBVIOUS
      <3> QED
        BY <1>3, <1>4, <2>1, <3>1 DEF WriteBacked
    <2>3. chatJob[w.conv.chat] = w.conv.job /\ BidOnServer(w.conv.job, u)
      BY <1>10, <2>2
    <2>4. chatJob' = chatJob /\ bids' = bids /\ opened' = opened
      BY <1>5, <2>1
    <2> QED
      BY <2>2, <2>3, <2>4 DEF ConvBacked, Parties, BidOnServer
  <1>12. HelprHasBid'
    <2>1. \A h \in helprs \cup acceptedJobs : BidOnServer(h.job, h.user)'
      BY <1>8 DEF Backed, HelprHasBid, BidOnServer
    <2>2. ASSUME w.op \in {"helpr", "acceptedJob"}
          PROVE  BidOnServer(w.helpr.job, w.helpr.user)'
      <3>1. 1 - 1 = 0
        OBVIOUS
      <3>2. BidAhead(u, 0, w.helpr.job, w.helpr.user)
        BY <1>3, <1>4, <2>2, <3>1 DEF WriteBacked
      <3> QED
        BY <1>8, <1>10, <3>2 DEF BidOnServer
    <2> QED
      BY <1>5, <2>1, <2>2 DEF HelprHasBid
  <1>13. \A c \in Ids : opened'[c] # NoJob => c <= now'
    BY <1>5 DEF Backed
  <1> QED
    BY <1>7, <1>9, <1>11, <1>12, <1>13 DEF Backed

LEMMA RefuseBacked ==
    ASSUME TypeOK, Backed, ConstantsAssumption, Sound, NEW u \in Users, Refuse(u)
    PROVE  Backed'
  <1>1. pending[u] # << >> /\ Head(pending[u]).op \notin {"chat", "bid"}
    BY DEF Refuse, Sound
  <1>2. /\ pending' = [pending EXCEPT ![u] = Tail(@)]
        /\ UNCHANGED <<calls, screen, now, opened>>
        /\ bids' = bids /\ convs' = convs /\ chatJob' = chatJob
        /\ helprs' = helprs /\ acceptedJobs' = acceptedJobs
    BY DEF Refuse, server
  <1>3. /\ \A x \in Users : \A i \in DOMAIN pending'[x] : WriteBacked(x, i)'
        /\ \A x \in Users : \A q \in calls'[x] : CallBacked(x, q)'
        /\ \A x \in Users : ScreenBacked(x)'
        /\ \A v \in convs : ConvBacked(v)'
    BY <1>1, <1>2, PopBacked
  <1>4. HelprHasBid'
    BY <1>2 DEF Backed, HelprHasBid, BidOnServer
  <1>5. \A c \in Ids : /\ opened'[c] # NoJob => c <= now'
                       /\ chatJob'[c] \in {NoJob, opened'[c]}
    BY <1>2 DEF Backed
  <1> QED
    BY <1>2, <1>3, <1>4, <1>5 DEF Backed

LEMMA CrashBacked ==
    ASSUME TypeOK, Backed, ConstantsAssumption, NEW u \in Users, Crash(u)
    PROVE  Backed'
  <1>1. pending[u] \in Seq(Write)
    BY DEF TypeOK
  <1>2. PICK k \in 0..Len(pending[u]) :
          pending' = [pending EXCEPT ![u] = SubSeq(@, 1, k)]
    BY DEF Crash
  <1>3. /\ bids' = bids /\ convs' = convs /\ chatJob' = chatJob /\ now' = now
        /\ helprs' = helprs /\ acceptedJobs' = acceptedJobs /\ opened' = opened
        /\ calls' = [calls EXCEPT ![u] = {}]
        /\ screen' = [screen EXCEPT ![u] = NoScreen]
    BY DEF Crash, server, CloseScreen
  <1>4. /\ k \in Int
        /\ DOMAIN pending'[u] = 1..k
        /\ \A i \in 1..k : i \in DOMAIN pending[u] /\ pending'[u][i] = pending[u][i]
    BY <1>1, <1>2, Cut DEF TypeOK
  <1>5. \A x \in Users : x # u => pending'[x] = pending[x]
    BY <1>2 DEF TypeOK
  <1>6. ASSUME NEW n \in Int, n <= k
        PROVE  /\ \A j, b : BidAhead(u, n, j, b) => BidAhead(u, n, j, b)'
               /\ \A c, j : ChatAhead(u, n, c, j) => ChatAhead(u, n, c, j)'
    <2>1. \A op : \A i \in Queued(u, op) :
            i <= n => i \in Queued(u, op)' /\ pending'[u][i] = pending[u][i]
      <3>1. \A i \in DOMAIN pending[u] : i <= n => i \in 1..k
        BY <1>1, <1>4, <1>6
      <3> QED
        BY <1>4, <3>1 DEF Queued
    <2> QED
      BY <1>3, <2>1 DEF BidAhead, ChatAhead, BidOnServer
  <1>7. ASSUME NEW i \in DOMAIN pending'[u]
        PROVE  WriteBacked(u, i)'
    <2>1. i \in DOMAIN pending[u] /\ i - 1 \in Int /\ i - 1 <= k
      BY <1>4
    <2>2. PICK w \in Write : w = pending[u][i] /\ w = pending'[u][i]
      BY <1>1, <1>4, <2>1
    <2>3. WriteBacked(u, i)
      BY <2>1 DEF Backed
    <2>4. /\ w.op = "chat" => opened'[w.chat] = w.job
          /\ w.op = "conv" => opened'[w.conv.chat] = w.conv.job /\ Parties(w.conv, u)
      BY <1>3, <2>2, <2>3 DEF WriteBacked
    <2>5. w.op = "conv" => /\ ChatAhead(u, i - 1, w.conv.chat, w.conv.job)'
                           /\ BidAhead(u, i - 1, w.conv.job, u)'
      BY <1>6, <2>1, <2>2, <2>3 DEF WriteBacked
    <2>6. w.op \in {"helpr", "acceptedJob"} =>
            BidAhead(u, i - 1, w.helpr.job, w.helpr.user)'
      BY <1>6, <2>1, <2>2, <2>3 DEF WriteBacked
    <2> QED
      BY <2>2, <2>4, <2>5, <2>6 DEF WriteBacked, Parties
  <1>8. ASSUME NEW x \in Users, x # u
        PROVE  /\ \A i \in DOMAIN pending'[x] : WriteBacked(x, i)'
               /\ \A q \in calls'[x] : CallBacked(x, q)'
               /\ ScreenBacked(x)'
    <2>1. pending'[x] = pending[x] /\ calls'[x] = calls[x] /\ screen'[x] = screen[x]
      BY <1>3, <1>5, <1>8 DEF TypeOK
    <2>2. /\ \A i \in DOMAIN pending[x] : WriteBacked(x, i)
          /\ \A q \in calls[x] : CallBacked(x, q)
          /\ ScreenBacked(x)
      BY DEF Backed
    <2>3. /\ \A n, j, b : BidAhead(x, n, j, b) => BidAhead(x, n, j, b)'
          /\ \A n, c, j : ChatAhead(x, n, c, j) => ChatAhead(x, n, c, j)'
      BY <1>3, <2>1 DEF BidAhead, ChatAhead, BidOnServer, Queued
    <2>4. \A c : Listed(c, x) => Listed(c, x)'
      BY <1>3 DEF Listed
    <2>5. \A i \in DOMAIN pending'[x] : WriteBacked(x, i)'
      BY <1>3, <2>1, <2>2, <2>3 DEF WriteBacked, Parties
    <2>6. \A q \in calls'[x] : CallBacked(x, q)'
      BY <1>3, <2>1, <2>2, <2>3, <2>4 DEF CallBacked
    <2>7. ScreenBacked(x)'
      BY <1>3, <2>1, <2>2, <2>3, <2>4 DEF ScreenBacked, HelprOf
    <2> QED
      BY <2>5, <2>6, <2>7
  <1>9. calls'[u] = {} /\ screen'[u] = NoScreen
    BY <1>3 DEF TypeOK
  <1>10. \A v \in convs' : ConvBacked(v)'
    BY <1>3 DEF Backed, ConvBacked, Parties, BidOnServer
  <1>11. HelprHasBid'
    BY <1>3 DEF Backed, HelprHasBid, BidOnServer
  <1>12. \A c \in Ids : /\ opened'[c] # NoJob => c <= now'
                        /\ chatJob'[c] \in {NoJob, opened'[c]}
    BY <1>3 DEF Backed
  <1>13. ScreenBacked(u)'
    BY <1>9 DEF ScreenBacked
  <1> QED
    BY <1>7, <1>8, <1>9, <1>10, <1>11, <1>12, <1>13 DEF Backed

-----------------------------------------------------------------------------
LEMMA InitBacked ==
    ASSUME ConstantsAssumption, Init
    PROVE  Backed
  <1>1. pending = [u \in Users |-> << >>] /\ calls = [u \in Users |-> {}]
        /\ screen = [u \in Users |-> NoScreen] /\ convs = {}
        /\ opened = [c \in Ids |-> NoJob] /\ chatJob = [c \in Ids |-> NoJob]
        /\ helprs = {} /\ acceptedJobs = {}
    BY DEF Init
  <1>2. \A u \in Users : /\ \A i \in DOMAIN pending[u] : WriteBacked(u, i)
                         /\ \A q \in calls[u] : CallBacked(u, q)
    BY <1>1
  <1>3. \A u \in Users : ScreenBacked(u)
    BY <1>1 DEF ScreenBacked
  <1> QED
    BY <1>1, <1>2, <1>3 DEF Backed, HelprHasBid

LEMMA BackedNext ==
    ASSUME TypeOK, Backed, ConstantsAssumption, Sound, [Next]_vars
    PROVE  Backed'
  <1>1. CASE UNCHANGED vars
    <2>1. UNCHANGED <<server, pending, calls, screen, now, opened>>
      BY <1>1 DEF vars
    <2>2. /\ bids' = bids /\ convs' = convs /\ chatJob' = chatJob
          /\ helprs' = helprs /\ acceptedJobs' = acceptedJobs
      BY <2>1 DEF server
    <2> QED
      BY <2>1, <2>2 DEF Backed, ConvBacked, Parties, HelprHasBid, BidOnServer,
         WriteBacked, CallBacked, ScreenBacked, HelprOf, Listed, ChatAhead,
         BidAhead, Queued
  <1>2. CASE Next
    <2>1. PICK u \in Users : \/ UserStep(u) \/ Answer(u) \/ Acknowledge(u)
                             \/ Refuse(u) \/ Crash(u)
      BY <1>2 DEF Next
    <2>2. CASE UserStep(u)
      BY <2>2, OpenConversationBacked, TapBacked, CounterBacked, AcceptBacked
      DEF UserStep
    <2>3. CASE Answer(u)
      BY <2>3, CreateFirstBidBacked, DieOnOwnJobBacked, EnterConversationBacked,
         MissPosterBacked, LeaveConversationBacked DEF Answer
    <2>4. CASE Acknowledge(u)
      BY <2>4, AcknowledgeBacked
    <2>5. CASE Refuse(u)
      BY <2>5, RefuseBacked
    <2>6. CASE Crash(u)
      BY <2>6, CrashBacked
    <2> QED
      BY <2>1, <2>2, <2>3, <2>4, <2>5, <2>6
  <1> QED
    BY <1>1, <1>2

(* Backed is an invariant when jobs have distinct numbers and the server   *)
(* refuses no chat and no bid, whatever else it refuses, however often     *)
(* phones crash and however many users, jobs and bids there are.           *)
THEOREM AlwaysBacked == Sound /\ Spec => []Backed
  <1>1. Sound /\ Init => Sound /\ TypeOK /\ Backed
    BY ConstantsAssumption, TypeInit, InitBacked
  <1>2. (Sound /\ TypeOK /\ Backed) /\ [Next]_vars => (Sound /\ TypeOK /\ Backed)'
    <2> SUFFICES ASSUME Sound, TypeOK, Backed, [Next]_vars
                 PROVE  Sound' /\ TypeOK' /\ Backed'
      OBVIOUS
    <2>1. TypeOK'
      BY ConstantsAssumption, TypeNext
    <2>2. Backed'
      BY ConstantsAssumption, BackedNext
    <2>3. Sound'
      BY DEF Sound
    <2> QED
      BY <2>1, <2>2, <2>3
  <1> QED
    BY <1>1, <1>2, PTL DEF Spec

(* Every conversation in a message list has the chat document and the bid  *)
(* that the list and the Bid screen read for it (DatabaseHelper:366, 399). *)
THEOREM ConversationsAreBacked == Sound /\ Spec => []ConversationIsBacked
  <1>1. Backed => ConversationIsBacked
    <2> SUFFICES ASSUME Backed, NEW v \in convs
                 PROVE  /\ chatJob[v.chat] = v.job
                        /\ BidOnServer(v.job, BidderFor(v.owner, v.job, v.partner))
      BY DEF ConversationIsBacked
    <2>1. PICK b \in Users : /\ chatJob[v.chat] = v.job
                             /\ Parties(v, b) /\ BidOnServer(v.job, b)
      BY DEF Backed, ConvBacked
    <2>2. BidderFor(v.owner, v.job, v.partner) = b
      BY <2>1 DEF BidderFor, Parties
    <2> QED
      BY <2>1, <2>2
  <1> QED
    BY <1>1, AlwaysBacked, PTL

(* Every helpr acceptedJob records has a bid on the job.                   *)
THEOREM HelprsHaveBids == Sound /\ Spec => []HelprHasBid
  <1>1. Backed => HelprHasBid
    BY DEF Backed
  <1> QED
    BY <1>1, AlwaysBacked, PTL

-----------------------------------------------------------------------------
(* Why a chat has two parties and a list one row for it: the bidder whose  *)
(* phone generated the chat's UUID is the only one whose phone creates     *)
(* conversations for it.  The poster's phone gets hold of a chat through a *)
(* conversation that is on the server, so its look-ups find that one.      *)
(* Refused writes and crashes are harmless; only job numbers must differ.  *)

DistinctNumbers == \A i, j \in Jobs : JobNum[i] = JobNum[j] => i = j

QueuedConvs(u) == {pending[u][i].conv : i \in Queued(u, "conv")}

(* f tells who opened each chat.                                           *)
OfChat(f, v) == opened[v.chat] = v.job /\ Parties(v, f[v.chat])

Joined(f, u, c, j) ==
    /\ opened[c] = j
    /\ IF u = PosterOf[j] THEN Listed(c, u) ELSE f[c] = u

CallPaired(f, u, q) ==
    q.kind \in {"own", "poster"} =>
        /\ Joined(f, u, q.chat, q.job)
        /\ q.owner = IF q.kind = "own" THEN u ELSE PosterOf[q.job]

ScreenPaired(f, u) ==
    LET s == screen[u] IN
    s # NoScreen =>
        /\ Joined(f, u, s.chat, s.job)
        /\ Parties([owner |-> u, partner |-> s.partner, job |-> s.job], f[s.chat])

SameRow(v, w) == v.owner = w.owner /\ v.chat = w.chat

Paired(f) ==
    /\ f \in [Ids -> Users \cup {NoUser}]
    /\ \A c \in Ids : opened[c] # NoJob => c <= now
    /\ \A v \in convs : OfChat(f, v)
    /\ \A u \in Users : \A v \in QueuedConvs(u) : OfChat(f, v) /\ f[v.chat] = u
    /\ \A u \in Users : \A v, w \in SeenConvs(u) : SameRow(v, w) => v = w
    /\ \A u \in Users : \A q \in calls[u] : CallPaired(f, u, q)
    /\ \A u \in Users : ScreenPaired(f, u)

(* The chats f knows keep their opener under g.                            *)
Keeps(f, g) == \A c \in Ids : opened[c] # NoJob => g[c] = f[c]

LEMMA InitPaired ==
    ASSUME ConstantsAssumption, Init
    PROVE  \E f : Paired(f)
  <1> DEFINE f == [c \in Ids |-> NoUser]
  <1>1. \A u \in Users : QueuedConvs(u) = {} /\ SeenConvs(u) = {}
    BY DEF Init, QueuedConvs, SeenConvs, Queued
  <1>2. Paired(f)
    BY <1>1 DEF Init, Paired, ScreenPaired
  <1> QED
    BY <1>2

LEMMA SeenQueued ==
    ASSUME TypeOK, NEW u \in Users
    PROVE  /\ SeenConvs(u) = convs \cup QueuedConvs(u)
           /\ QueuedConvs(u) \subseteq ConvDoc
  BY SeenTypes DEF SeenConvs, QueuedConvs

(* What the steps of the queues do to the conversations in them.           *)
LEMMA AppendedConvs ==
    ASSUME TypeOK, NEW u \in Users, NEW t \in Seq(Write),
           pending' = [pending EXCEPT ![u] = @ \o t],
           \A i \in DOMAIN t : t[i].op # "conv"
    PROVE  \A x \in Users : QueuedConvs(x)' \subseteq QueuedConvs(x)
  <1>1. pending[u] \in Seq(Write) /\ pending'[u] = pending[u] \o t
        /\ \A x \in Users \ {u} : pending'[x] = pending[x]
    BY DEF TypeOK
  <1>2. ASSUME NEW i \in DOMAIN pending'[u], pending'[u][i].op = "conv"
        PROVE  i \in DOMAIN pending[u] /\ pending'[u][i] = pending[u][i]
    BY <1>1, <1>2, Extended
  <1>3. QueuedConvs(u)' \subseteq QueuedConvs(u)
    BY <1>2 DEF QueuedConvs, Queued
  <1>4. \A x \in Users \ {u} : QueuedConvs(x)' \subseteq QueuedConvs(x)
    BY <1>1 DEF QueuedConvs, Queued
  <1> QED
    BY <1>3, <1>4

LEMMA AppendedOne ==
    ASSUME TypeOK, NEW u \in Users, NEW w \in Write,
           pending' = [pending EXCEPT ![u] = Append(@, w)]
    PROVE  /\ \A x \in Users \ {u} : QueuedConvs(x)' = QueuedConvs(x)
           /\ QueuedConvs(u)' \subseteq QueuedConvs(u)
                \cup (IF w.op = "conv" THEN {w.conv} ELSE {})
  <1>1. pending[u] \in Seq(Write) /\ pending'[u] = Append(pending[u], w)
        /\ \A x \in Users \ {u} : pending'[x] = pending[x]
    BY DEF TypeOK
  <1>2. ASSUME NEW i \in DOMAIN pending'[u]
        PROVE  \/ i \in DOMAIN pending[u] /\ pending'[u][i] = pending[u][i]
               \/ pending'[u][i] = w
    BY <1>1
  <1>3. QueuedConvs(u)' \subseteq QueuedConvs(u)
          \cup (IF w.op = "conv" THEN {w.conv} ELSE {})
    BY <1>2 DEF QueuedConvs, Queued
  <1>4. \A x \in Users \ {u} : QueuedConvs(x)' = QueuedConvs(x)
    BY <1>1 DEF QueuedConvs, Queued
  <1> QED
    BY <1>3, <1>4

LEMMA PoppedConvs ==
    ASSUME TypeOK, NEW u \in Users, pending[u] # << >>,
           pending' = [pending EXCEPT ![u] = Tail(@)]
    PROVE  /\ \A x \in Users : QueuedConvs(x)' \subseteq QueuedConvs(x)
           /\ Head(pending[u]).op = "conv" => Head(pending[u]).conv \in QueuedConvs(u)
  <1>1. pending[u] \in Seq(Write) /\ pending'[u] = Tail(pending[u])
        /\ \A x \in Users \ {u} : pending'[x] = pending[x]
    BY DEF TypeOK
  <1>2. /\ \A i \in DOMAIN pending'[u] :
             i + 1 \in DOMAIN pending[u] /\ pending'[u][i] = pending[u][i + 1]
        /\ Head(pending[u]) = pending[u][1] /\ 1 \in DOMAIN pending[u]
    <2>1. /\ \A i \in DOMAIN Tail(pending[u]) :
               i + 1 \in DOMAIN pending[u]
               /\ Tail(pending[u])[i] = pending[u][i + 1]
          /\ Head(pending[u]) = pending[u][1] /\ 1 \in DOMAIN pending[u]
      BY <1>1, Popped
    <2> QED
      BY <1>1, <2>1
  <1>3. QueuedConvs(u)' \subseteq QueuedConvs(u)
    BY <1>2 DEF QueuedConvs, Queued
  <1>4. \A x \in Users \ {u} : QueuedConvs(x)' = QueuedConvs(x)
    BY <1>1 DEF QueuedConvs, Queued
  <1> QED
    BY <1>2, <1>3, <1>4 DEF QueuedConvs, Queued

LEMMA CutConvs ==
    ASSUME TypeOK, NEW u \in Users, NEW k \in 0..Len(pending[u]),
           pending' = [pending EXCEPT ![u] = SubSeq(@, 1, k)]
    PROVE  \A x \in Users : QueuedConvs(x)' \subseteq QueuedConvs(x)
  <1>1. pending[u] \in Seq(Write) /\ pending'[u] = SubSeq(pending[u], 1, k)
        /\ \A x \in Users \ {u} : pending'[x] = pending[x]
    BY DEF TypeOK
  <1>2. \A i \in DOMAIN pending'[u] :
          i \in DOMAIN pending[u] /\ pending'[u][i] = pending[u][i]
    BY <1>1, Cut
  <1>3. QueuedConvs(u)' \subseteq QueuedConvs(u)
    BY <1>2 DEF QueuedConvs, Queued
  <1>4. \A x \in Users \ {u} : QueuedConvs(x)' = QueuedConvs(x)
    BY <1>1 DEF QueuedConvs, Queued
  <1> QED
    BY <1>3, <1>4

(* Steps that add no conversation keep the pairing, with the chat they may *)
(* open given to its opener.                                               *)
LEMMA StillPaired ==
    ASSUME TypeOK, ConstantsAssumption, NEW f, Paired(f),
           NEW g \in [Ids -> Users \cup {NoUser}],
           \A d \in Ids : opened[d] # NoJob => opened'[d] = opened[d] /\ g[d] = f[d],
           \A d \in Ids : opened'[d] # NoJob => d <= now',
           convs' = convs,
           \A x \in Users : QueuedConvs(x)' \subseteq QueuedConvs(x),
           TypeOK',
           \A x \in Users : \A q \in calls'[x] : q \in calls[x] \/ CallPaired(g, x, q)',
           \A x \in Users : screen'[x] \in {screen[x], NoScreen} \/ ScreenPaired(g, x)'
    PROVE  Paired(g)'
  <1>1. ASSUME NEW v \in ConvDoc, OfChat(f, v)
        PROVE  OfChat(g, v)' /\ g[v.chat] = f[v.chat]
    <2>1. v.chat \in Ids /\ opened[v.chat] # NoJob
      BY <1>1 DEF OfChat, ConvDoc, ConstantsAssumption
    <2> QED
      BY <1>1, <2>1 DEF OfChat, Parties
  <1>2. ASSUME NEW x \in Users, NEW c \in Ids, NEW j \in Jobs, Joined(f, x, c, j)
        PROVE  Joined(g, x, c, j)'
    <2>1. opened[c] # NoJob
      BY <1>2 DEF Joined, ConstantsAssumption
    <2> QED
      BY <1>2, <2>1 DEF Joined, Listed
  <1>3. \A v \in convs' : OfChat(g, v)'
    BY <1>1 DEF Paired, TypeOK
  <1>4. \A x \in Users : \A v \in QueuedConvs(x)' : OfChat(g, v)' /\ g[v.chat] = x
    BY <1>1, SeenQueued DEF Paired
  <1>5. \A x \in Users : SeenConvs(x)' \subseteq SeenConvs(x)
    <2> SUFFICES ASSUME NEW x \in Users PROVE SeenConvs(x)' \subseteq SeenConvs(x)
      OBVIOUS
    <2>1. SeenConvs(x)' = convs' \cup QueuedConvs(x)'
      BY DEF SeenConvs, QueuedConvs
    <2>2. SeenConvs(x) = convs \cup QueuedConvs(x)
      BY SeenQueued
    <2> QED
      BY <2>1, <2>2
  <1>6. \A x \in Users : \A v, w \in SeenConvs(x)' : SameRow(v, w) => v = w
    BY <1>5 DEF Paired
  <1>7. ASSUME NEW x \in Users, NEW q \in calls'[x] PROVE CallPaired(g, x, q)'
    <2>1. CASE q \in calls[x] /\ q.kind \in {"own", "poster"}
      <3>1. q.chat \in Ids /\ q.job \in Jobs
        BY <2>1 DEF TypeOK, Call
      <3>2. CallPaired(f, x, q)
        BY <2>1 DEF Paired
      <3> QED
        BY <1>2, <2>1, <3>1, <3>2 DEF CallPaired
    <2>2. CASE q.kind \notin {"own", "poster"}
      BY <2>2 DEF CallPaired
    <2> QED
      BY <2>1, <2>2
  <1>8. ASSUME NEW x \in Users PROVE ScreenPaired(g, x)'
    <2>1. CASE screen'[x] = screen[x] /\ screen[x] # NoScreen
      <3>1. screen[x].chat \in Ids /\ screen[x].job \in Jobs
        BY <2>1 DEF TypeOK, Screen
      <3>2. ScreenPaired(f, x)
        BY DEF Paired
      <3>3. Joined(f, x, screen[x].chat, screen[x].job)
        BY <2>1, <3>2 DEF ScreenPaired
      <3>4. Joined(g, x, screen[x].chat, screen[x].job)'
        BY <1>2, <2>1, <3>1, <3>3
      <3>5. opened[screen[x].chat] # NoJob
        BY <3>1, <3>3 DEF Joined, ConstantsAssumption
      <3>6. g[screen[x].chat] = f[screen[x].chat]
        BY <3>1, <3>5
      <3> QED
        BY <2>1, <3>2, <3>4, <3>6 DEF ScreenPaired, Parties
    <2>2. CASE screen'[x] = NoScreen
      BY <2>2 DEF ScreenPaired
    <2> QED
      BY <2>1, <2>2
  <1> QED
    BY <1>3, <1>4, <1>6, <1>7, <1>8 DEF Paired

(* Everything a phone does but its look-ups, and the server's refusals.    *)
LEMMA QuietPaired ==
    ASSUME TypeOK, TypeOK', ConstantsAssumption, NEW f, Paired(f), NEW u \in Users,
           \/ Cancel(u)
           \/ \E j \in Jobs : PlaceBid(u, j)
           \/ Accept(u)
           \/ Reject(u)
           \/ Refuse(u)
           \/ Crash(u)
    PROVE  Paired(f)'
  <1>1. opened' = opened /\ convs' = convs
    BY DEF Cancel, PlaceBid, Accept, Reject, Refuse, Crash, server
  <1>2. now' >= now /\ now \in Int /\ now' \in Int
    BY DEF Cancel, PlaceBid, Accept, Reject, Refuse, Crash, TypeOK, Ids, ConstantsAssumption
  <1>3. \A d \in Ids : opened'[d] # NoJob => d <= now'
    BY <1>1, <1>2 DEF Paired, Ids
  <1>4. \A x \in Users : screen'[x] \in {screen[x], NoScreen}
    BY DEF Cancel, PlaceBid, Accept, Reject, Refuse, Crash, CloseScreen, TypeOK
  <1>5. ASSUME NEW x \in Users, NEW q \in calls'[x]
        PROVE  q \in calls[x] \/ CallPaired(f, x, q)'
    <2>0. ASSUME NEW asked, calls' = [calls EXCEPT ![u] = @ \cup asked],
                 \A a \in asked : a.kind \in {"chatOf", "reject"}
          PROVE  q \in calls[x] \/ CallPaired(f, x, q)'
      <3>1. q \in calls[x] \/ q \in asked
        BY <1>5, <2>0 DEF TypeOK
      <3> QED
        BY <2>0, <3>1 DEF CallPaired
    <2>1. CASE (\E j \in Jobs : PlaceBid(u, j)) \/ Reject(u)
      <3>1. ASSUME NEW j \in Jobs, PlaceBid(u, j)
            PROVE  q \in calls[x] \/ CallPaired(f, x, q)'
        <4> DEFINE asked ==
              {[kind |-> "chatOf", n |-> now + 1, chat |-> 0, job |-> j, owner |-> u]}
        <4>1. calls' = [calls EXCEPT ![u] = @ \cup asked]
          BY <3>1 DEF PlaceBid
        <4>2. \A a \in asked : a.kind \in {"chatOf", "reject"}
          OBVIOUS
        <4> HIDE DEF asked
        <4> QED
          BY <2>0, <4>1, <4>2
      <3>2. CASE Reject(u)
        <4> DEFINE s == screen[u]
                   asked ==
              {[kind |-> "reject", n |-> now + 1, chat |-> s.chat, job |-> s.job,
                owner |-> o] : o \in {u, s.partner}}
        <4>1. calls' = [calls EXCEPT ![u] = @ \cup asked]
          BY <3>2 DEF Reject
        <4>2. \A a \in asked : a.kind \in {"chatOf", "reject"}
          OBVIOUS
        <4> HIDE DEF asked
        <4> QED
          BY <2>0, <4>1, <4>2
      <3> QED
        BY <2>1, <3>1, <3>2
    <2>2. CASE Cancel(u) \/ Accept(u) \/ Refuse(u)
      BY <1>5, <2>2 DEF Cancel, Accept, Refuse
    <2>3. CASE Crash(u)
      BY <1>5, <2>3 DEF Crash, TypeOK
    <2> QED
      BY <2>1, <2>2, <2>3
  <1>6. \A x \in Users : QueuedConvs(x)' \subseteq QueuedConvs(x)
    <2>1. CASE pending' = pending
      BY <2>1 DEF QueuedConvs, Queued
    <2>2. CASE Accept(u)
      <3> DEFINE s == screen[u]
                 t == AcceptWrites(s.chat, HelprOf(u, s))
      <3>1. s \in Screen /\ pending' = [pending EXCEPT ![u] = @ \o t]
        BY <2>2 DEF Accept, TypeOK
      <3>2. HelprOf(u, s) \in JobHelpr
        BY <3>1 DEF HelprOf, JobHelpr, Screen
      <3>3. t \in Seq(Write) /\ \A i \in DOMAIN t : t[i].op # "conv"
        <4>1. /\ [op |-> "accept", chat |-> s.chat] \in Write
              /\ [op |-> "helpr", helpr |-> HelprOf(u, s)] \in Write
              /\ [op |-> "acceptedJob", helpr |-> HelprOf(u, s)] \in Write
          BY <3>1, <3>2 DEF Write, Screen
        <4> HIDE DEF s
        <4> QED
          BY <4>1 DEF AcceptWrites
      <3> HIDE DEF t
      <3> QED
        BY <3>1, <3>3, AppendedConvs
    <2>3. CASE Refuse(u)
      BY <2>3, PoppedConvs DEF Refuse
    <2>4. CASE Crash(u)
      BY <2>4, CutConvs DEF Crash
    <2> QED
      BY <2>1, <2>2, <2>3, <2>4 DEF Cancel, PlaceBid, Reject
  <1>7. f \in [Ids -> Users \cup {NoUser}]
    BY DEF Paired
  <1> QED
    BY <1>1, <1>3, <1>4, <1>5, <1>6, <1>7, StillPaired

(* The poster's phone opens only a conversation the server has: none for   *)
(* its own jobs is ever in its own queue.                                  *)
LEMMA OpenConversationPaired ==
    ASSUME TypeOK, TypeOK', ConstantsAssumption, NEW f, Paired(f), NEW u \in Users,
           NEW v \in SeenConvs(u), OpenConversation(u, v)
    PROVE  Paired(f)'
  <1>1. /\ v.owner = u /\ v \in ConvDoc
        /\ screen'[u].job = v.job /\ screen'[u].chat = v.chat
        /\ screen'[u].partner = v.partner
        /\ \A x \in Users \ {u} : screen'[x] = screen[x]
        /\ UNCHANGED <<server, pending, calls, now, opened>>
    BY SeenTypes DEF OpenConversation, TypeOK
  <1>2. OfChat(f, v) /\ Joined(f, u, v.chat, v.job)
    <2>1. /\ OfChat(f, v)
          /\ v \in convs \/ f[v.chat] = u
      BY SeenQueued DEF Paired
    <2> QED
      BY <1>1, <2>1 DEF OfChat, Parties, Joined, Listed
  <1>3. ScreenPaired(f, u)'
    BY <1>1, <1>2 DEF ScreenPaired, Joined, Listed, server, OfChat, Parties
  <1>4. \A x \in Users : QueuedConvs(x)' \subseteq QueuedConvs(x)
    BY <1>1 DEF QueuedConvs, Queued
  <1>5. f \in [Ids -> Users \cup {NoUser}] /\ \A d \in Ids : opened'[d] # NoJob => d <= now'
    BY <1>1 DEF Paired
  <1> QED
    BY <1>1, <1>3, <1>4, <1>5, StillPaired DEF server

LEMMA BidWritesConvs ==
    ASSUME TypeOK, ConstantsAssumption, NEW u \in Users, NEW j \in Jobs, NEW p,
           NEW c \in Ids, NEW n \in Ids, u = PosterOf[j] => p \in Users,
           NEW k \in 0..3, NEW t,
           \/ t = BidWrites(u, j, p, c, n)
           \/ t = SubSeq(BidWrites(u, j, p, c, n), 1, k),
           pending' = [pending EXCEPT ![u] = @ \o t]
    PROVE  \A x \in Users : QueuedConvs(x)' \subseteq QueuedConvs(x)
  <1> DEFINE b == BidWrites(u, j, p, c, n)
  <1>1. b \in Seq(Write)
    BY BidWritesType
  <1>2. Len(b) = 3 /\ \A i \in DOMAIN b : b[i].op # "conv"
    BY DEF BidWrites
  <1> HIDE DEF b
  <1>3. t = b \/ t = SubSeq(b, 1, k)
    BY DEF b
  <1>4. t \in Seq(Write)
    BY <1>1, <1>2, <1>3, QueueTypes
  <1>5. \A i \in DOMAIN t : t[i].op # "conv"
    BY <1>1, <1>2, <1>3, Cut
  <1> QED
    BY <1>4, <1>5, AppendedConvs

LEMMA CounterPaired ==
    ASSUME TypeOK, TypeOK', ConstantsAssumption, NEW f, Paired(f), NEW u \in Users,
           Counter(u)
    PROVE  Paired(f)'
  <1>1. PICK s \in Screen :
        /\ s = screen[u]
        /\ pending' = [pending EXCEPT ![u] = @ \o BidWrites(u, s.job, s.partner, s.chat, now + 1)]
        /\ calls' = [calls EXCEPT ![u] = @ \cup BidCalls(u, s.job, s.chat, now + 1)]
    BY DEF Counter, TypeOK
  <1>2. /\ s.job \in Jobs /\ s.partner \in Users /\ s.chat \in Ids
        /\ screen' = [screen EXCEPT ![u] = NoScreen]
        /\ UNCHANGED <<server, opened>>
        /\ now' = now + 1 /\ now \in Int /\ now + 1 \in Ids
    BY <1>1 DEF Counter, CloseScreen, TypeOK, Ids, ConstantsAssumption, Screen
  <1>3. Joined(f, u, s.chat, s.job)
    <2>1. ScreenPaired(f, u)
      BY DEF Paired
    <2> QED
      BY <1>1, <2>1 DEF ScreenPaired, Counter
  <1>4. Joined(f, u, s.chat, s.job)'
    BY <1>2, <1>3 DEF Joined, Listed, server
  <1>5. \A x \in Users : QueuedConvs(x)' \subseteq QueuedConvs(x)
    <2>1. PICK t : /\ t = BidWrites(u, s.job, s.partner, s.chat, now + 1)
                   /\ pending' = [pending EXCEPT ![u] = @ \o t]
      BY <1>1
    <2> QED
      BY <1>2, <2>1, 3 \in 0..3, BidWritesConvs
  <1>6. \A x \in Users : \A q \in calls'[x] : q \in calls[x] \/ CallPaired(f, x, q)'
    <2>1. \A q \in BidCalls(u, s.job, s.chat, now + 1) : CallPaired(f, u, q)'
      BY <1>4 DEF BidCalls, CallPaired, Joined, Listed
    <2> QED
      BY <1>1, <2>1 DEF TypeOK
  <1>7. \A x \in Users : screen'[x] \in {screen[x], NoScreen}
    BY <1>2 DEF TypeOK
  <1>8. f \in [Ids -> Users \cup {NoUser}] /\ \A d \in Ids : opened'[d] # NoJob => d <= now'
    BY <1>2 DEF Paired, Ids, TypeOK
  <1> QED
    BY <1>2, <1>5, <1>6, <1>7, <1>8, StillPaired DEF server

(* The chat a first bid settles on is new, or one the bidder opened.       *)
LEMMA ChatsForOpener ==
    ASSUME TypeOK, ConstantsAssumption, DistinctNumbers, NEW f, Paired(f),
           NEW u \in Users, NEW j \in Jobs, NEW c \in ChatsFor(u, j), now + 1 \in Ids
    PROVE  /\ c \in Ids
           /\ \/ c = now + 1 /\ opened[c] = NoJob
              \/ c # now + 1 /\ opened[c] = j /\ (u # PosterOf[j] => f[c] = u)
  <1>0. opened[now + 1] = NoJob
    BY DEF Paired, Ids, TypeOK, ConstantsAssumption
  <1>1. ASSUME NEW v \in SeenConvs(u), v.owner = u, JobNum[v.job] = JobNum[j]
        PROVE  /\ v.chat \in Ids /\ opened[v.chat] = j
               /\ u # PosterOf[j] => f[v.chat] = u
    <2>1. v \in ConvDoc /\ OfChat(f, v)
      BY SeenTypes, SeenQueued DEF Paired
    <2>2. v.job = j /\ v.chat \in Ids
      BY <1>1, <2>1 DEF ConvDoc, DistinctNumbers
    <2> QED
      BY <1>1, <2>1, <2>2 DEF OfChat, Parties
  <1>2. \/ c = now + 1
        \/ \E v \in SeenConvs(u) : v.owner = u /\ JobNum[v.job] = JobNum[j] /\ c = v.chat
    BY DEF ChatsFor
  <1>3. j # NoJob
    BY DEF ConstantsAssumption
  <1> QED
    BY <1>0, <1>1, <1>2, <1>3

LEMMA CreateFirstBidPaired ==
    ASSUME TypeOK, TypeOK', ConstantsAssumption, DistinctNumbers, NEW f, Paired(f),
           NEW u \in Users, NEW q \in calls[u], CreateFirstBid(u, q)
    PROVE  \E g : Paired(g)' /\ Keeps(f, g)
  <1>1. /\ q.job \in Jobs /\ u # PosterOf[q.job]
        /\ UNCHANGED <<server, screen>>
        /\ now' = now + 1 /\ now \in Int /\ now + 1 \in Ids
    BY DEF CreateFirstBid, TypeOK, Call, Ids, ConstantsAssumption
  <1>2. PICK c \in ChatsFor(u, q.job) :
          /\ pending' = [pending EXCEPT ![u] =
               @ \o BidWrites(u, q.job, NoUser, c, now + 1)]
          /\ calls' = [calls EXCEPT ![u] =
               (@ \ {q}) \cup BidCalls(u, q.job, c, now + 1)]
          /\ opened' = IF c = now + 1 THEN [opened EXCEPT ![c] = q.job] ELSE opened
    BY DEF CreateFirstBid
  <1> DEFINE g == [f EXCEPT ![c] = u]
  <1>3. /\ c \in Ids
        /\ \/ c = now + 1 /\ opened[c] = NoJob
           \/ c # now + 1 /\ opened[c] = q.job /\ f[c] = u
    BY <1>1, ChatsForOpener
  <1>4. f \in [Ids -> Users \cup {NoUser}] /\ \A d \in Ids : opened[d] # NoJob => d <= now
    BY DEF Paired
  <1>5. g \in [Ids -> Users \cup {NoUser}] /\ g[c] = u
    BY <1>3, <1>4
  <1>6. opened'[c] = q.job
    BY <1>2, <1>3 DEF TypeOK
  <1>7. \A d \in Ids : opened[d] # NoJob => opened'[d] = opened[d] /\ g[d] = f[d]
    BY <1>2, <1>3, <1>4 DEF TypeOK
  <1>8. \A d \in Ids : opened'[d] # NoJob => d <= now'
    BY <1>1, <1>2, <1>4 DEF TypeOK, Ids
  <1> HIDE DEF g
  <1>9. \A p \in BidCalls(u, q.job, c, now + 1) : CallPaired(g, u, p)'
    <2>1. Joined(g, u, c, q.job)'
      BY <1>1, <1>5, <1>6 DEF Joined
    <2> QED
      BY <2>1 DEF BidCalls, CallPaired, Joined, Listed
  <1>10. \A x \in Users : \A p \in calls'[x] : p \in calls[x] \/ CallPaired(g, x, p)'
    BY <1>2, <1>9 DEF TypeOK
  <1>11. \A x \in Users : QueuedConvs(x)' \subseteq QueuedConvs(x)
    <2>1. PICK t : /\ t = BidWrites(u, q.job, NoUser, c, now + 1)
                   /\ pending' = [pending EXCEPT ![u] = @ \o t]
      BY <1>2
    <2> QED
      BY <1>1, <1>3, <2>1, 3 \in 0..3, BidWritesConvs
  <1>12. convs' = convs /\ \A x \in Users : screen'[x] \in {screen[x], NoScreen}
    BY <1>1 DEF server
  <1>13. Paired(g)'
    BY <1>5, <1>7, <1>8, <1>10, <1>11, <1>12, StillPaired
  <1> QED
    BY <1>7, <1>13 DEF Keeps

LEMMA DieOnOwnJobPaired ==
    ASSUME TypeOK, TypeOK', ConstantsAssumption, DistinctNumbers, NEW f, Paired(f),
           NEW u \in Users, NEW q \in calls[u], DieOnOwnJob(u, q)
    PROVE  Paired(f)'
  <1>1. /\ q.job \in Jobs /\ u = PosterOf[q.job]
        /\ UNCHANGED server
        /\ screen' = [screen EXCEPT ![u] = NoScreen]
        /\ calls' = [calls EXCEPT ![u] = {}]
        /\ now' = now + 1 /\ now \in Int /\ now + 1 \in Ids
    BY DEF DieOnOwnJob, CloseScreen, TypeOK, Call, Ids, ConstantsAssumption
  <1>2. PICK c \in ChatsFor(u, q.job), k \in 0..2 :
          /\ pending' = [pending EXCEPT ![u] =
               @ \o SubSeq(BidWrites(u, q.job, u, c, now + 1), 1, k)]
          /\ opened' = IF c = now + 1 THEN [opened EXCEPT ![c] = q.job] ELSE opened
    BY DEF DieOnOwnJob
  <1>3. c \in Ids /\ (c = now + 1 => opened[c] = NoJob)
    BY <1>1, ChatsForOpener
  <1>4. f \in [Ids -> Users \cup {NoUser}] /\ \A d \in Ids : opened[d] # NoJob => d <= now
    BY DEF Paired
  <1>5. \A d \in Ids : opened[d] # NoJob => opened'[d] = opened[d]
    BY <1>2, <1>3 DEF TypeOK
  <1>6. \A d \in Ids : opened'[d] # NoJob => d <= now'
    BY <1>1, <1>2, <1>4 DEF TypeOK, Ids
  <1>7. \A x \in Users : \A p \in calls'[x] : p \in calls[x]
    BY <1>1 DEF TypeOK
  <1>8. \A x \in Users : QueuedConvs(x)' \subseteq QueuedConvs(x)
    <2>1. k \in 0..3
      OBVIOUS
    <2> QED
      BY <1>1, <1>2, <1>3, <2>1, BidWritesConvs
  <1>9. convs' = convs /\ \A x \in Users : screen'[x] \in {screen[x], NoScreen}
    BY <1>1 DEF server, TypeOK
  <1> QED
    BY <1>4, <1>5, <1>6, <1>7, <1>8, <1>9, StillPaired

(* A phone holds what its createBid look-ups ask for whenever it is there, *)
(* so the cache answers them as the server does.                           *)
LEMMA AnswersPaired ==
    ASSUME TypeOK, NEW f, Paired(f), NEW u \in Users, NEW q \in calls[u],
           q.kind \in {"own", "poster"}, NEW docs \in Answers(u, q.owner, q.chat)
    PROVE  docs = ConvDocs(u, q.owner, q.chat)
  <1>1. opened[q.chat] = q.job /\ q.owner \in {u, PosterOf[q.job]}
    BY DEF Paired, CallPaired, Joined
  <1>2. \A v \in SeenConvs(u) : opened[v.chat] = v.job
    BY SeenQueued DEF Paired, OfChat
  <1>3. \A v \in SeenConvs(u) :
          v.owner = q.owner /\ v.chat = q.chat => v \in HeldConvs(u)
    BY <1>1, <1>2 DEF HeldConvs
  <1>4. HeldConvs(u) \subseteq SeenConvs(u)
    BY DEF HeldConvs
  <1>5. {v \in HeldConvs(u) : v.owner = q.owner /\ v.chat = q.chat}
          = {v \in SeenConvs(u) : v.owner = q.owner /\ v.chat = q.chat}
    BY <1>3, <1>4
  <1> QED
    BY <1>5 DEF Answers, ConvDocs

LEMMA EnterAnswers ==
    ASSUME TypeOK, NEW f, Paired(f), NEW u \in Users, NEW q \in calls[u],
           EnterConversation(u, q)
    PROVE  pending' = [pending EXCEPT ![u] = Append(@,
             IF ConvDocs(u, q.owner, q.chat) = {}
             THEN [op |-> "conv", conv |-> NewConv(u, q)]
             ELSE [op |-> "active", docs |-> ConvDocs(u, q.owner, q.chat),
                   value |-> TRUE])]
  BY AnswersPaired DEF EnterConversation

(* A look-up that finds nothing runs on the opener's phone, which sees the *)
(* conversations of both parties it created, on the server or in its queue.*)
LEMMA EnterConversationPaired ==
    ASSUME TypeOK, TypeOK', ConstantsAssumption, NEW f, Paired(f),
           NEW u \in Users, NEW q \in calls[u], EnterConversation(u, q)
    PROVE  Paired(f)'
  <1>1. /\ q \in Call /\ q.kind \in {"own", "poster"}
        /\ calls' = [calls EXCEPT ![u] = @ \ {q}]
        /\ UNCHANGED <<server, screen, now, opened>>
    BY DEF EnterConversation, TypeOK
  <1>2. /\ q.chat \in Ids /\ q.job \in Jobs /\ q.owner \in Users
        /\ PosterOf[q.job] \in Users
    BY <1>1 DEF Call, ConstantsAssumption
  <1>3. f \in [Ids -> Users \cup {NoUser}] /\ \A d \in Ids : opened'[d] # NoJob => d <= now'
    BY <1>1 DEF Paired
  <1>4. \A x \in Users : \A p \in calls'[x] : p \in calls[x]
    BY <1>1 DEF TypeOK
  <1>5. ASSUME \A x \in Users : QueuedConvs(x)' \subseteq QueuedConvs(x)
        PROVE  Paired(f)'
    BY <1>1, <1>3, <1>4, <1>5, StillPaired DEF server
  <1> DEFINE docs == ConvDocs(u, q.owner, q.chat)
  <1>6. pending' = [pending EXCEPT ![u] = Append(@,
          IF docs = {}
          THEN [op |-> "conv", conv |-> NewConv(u, q)]
          ELSE [op |-> "active", docs |-> docs, value |-> TRUE])]
    BY EnterAnswers
  <1>7. CASE docs # {}
    <2> DEFINE w == [op |-> "active", docs |-> docs, value |-> TRUE]
    <2>1. docs \subseteq DocIds
      BY SeenTypes DEF ConvDocs, ConvDoc
    <2>2. w \in Write /\ w.op # "conv"
      BY <2>1 DEF Write
    <2>3. pending' = [pending EXCEPT ![u] = Append(@, w)]
      BY <1>6, <1>7
    <2> HIDE DEF w
    <2> QED
      BY <1>5, <2>2, <2>3, AppendedOne
  <1>8. CASE docs = {}
    <2> DEFINE v == NewConv(u, q)
               w == [op |-> "conv", conv |-> v]
    <2>1. pending' = [pending EXCEPT ![u] = Append(@, w)]
      BY <1>6, <1>8
    <2>2. /\ Joined(f, u, q.chat, q.job)
          /\ q.owner = IF q.kind = "own" THEN u ELSE PosterOf[q.job]
      BY <1>1 DEF Paired, CallPaired
    <2>3. \A x \in SeenConvs(u) : ~ SameRow(x, v)
      <3>1. ASSUME NEW x \in SeenConvs(u), SameRow(x, v)
            PROVE  x.doc \in docs
        BY <3>1 DEF SameRow, NewConv, ConvDocs
      <3> QED
        BY <1>8, <3>1
    <2>4. u # PosterOf[q.job] /\ f[q.chat] = u
      <3>1. ASSUME u = PosterOf[q.job] PROVE FALSE
        <4>1. PICK x \in convs : x.chat = q.chat /\ x.owner = u
          BY <2>2, <3>1 DEF Joined, Listed
        <4>2. x \in SeenConvs(u) /\ SameRow(x, v)
          BY <2>2, <3>1, <4>1 DEF SeenConvs, SameRow, NewConv
        <4> QED
          BY <2>3, <4>2
      <3> QED
        BY <2>2, <3>1 DEF Joined
    <2>5. v \in ConvDoc
      BY <1>1, <1>2 DEF NewConv, ConvDoc, DocIds, Call
    <2>6. OfChat(f, v) /\ f[v.chat] = u
      BY <1>1, <2>2, <2>4 DEF OfChat, Parties, NewConv, Joined
    <2>7. /\ \A x \in Users \ {u} : QueuedConvs(x)' = QueuedConvs(x)
          /\ QueuedConvs(u)' \subseteq QueuedConvs(u) \cup {v}
      <3>1. w \in Write /\ w.op = "conv" /\ w.conv = v
        BY <2>5 DEF Write
      <3> HIDE DEF w, v
      <3> QED
        BY <2>1, <3>1, AppendedOne
    <2> HIDE DEF v, w
    <2>8. convs' = convs /\ opened' = opened /\ screen' = screen
      BY <1>1 DEF server
    <2>9. \A x \in Users : \A y, z \in SeenConvs(x)' : SameRow(y, z) => y = z
      <3> SUFFICES ASSUME NEW x \in Users, NEW y \in SeenConvs(x)',
                          NEW z \in SeenConvs(x)', SameRow(y, z)
                   PROVE  y = z
        OBVIOUS
      <3>1. SeenConvs(x) = convs \cup QueuedConvs(x)
        BY SeenQueued
      <3>2. SeenConvs(x)' = convs' \cup QueuedConvs(x)'
        BY DEF SeenConvs, QueuedConvs
      <3>3. CASE x # u
        BY <2>7, <2>8, <3>1, <3>2, <3>3 DEF Paired
      <3>4. CASE x = u
        <4>1. y \in SeenConvs(u) \cup {v} /\ z \in SeenConvs(u) \cup {v}
          BY <2>7, <2>8, <3>1, <3>2, <3>4
        <4>2. \A a \in SeenConvs(u) : ~ SameRow(a, v) /\ ~ SameRow(v, a)
          BY <2>3 DEF SameRow
        <4> QED
          BY <4>1, <4>2 DEF Paired
      <3> QED
        BY <3>3, <3>4
    <2>10. \A x \in Users : \A y \in QueuedConvs(x)' : OfChat(f, y)' /\ f[y.chat] = x
      BY <2>6, <2>7, <2>8 DEF Paired, OfChat, Parties
    <2>11. \A y \in convs' : OfChat(f, y)'
      BY <2>8 DEF Paired, OfChat, Parties
    <2>12. \A x \in Users : \A p \in calls'[x] : CallPaired(f, x, p)'
      BY <1>4, <2>8 DEF Paired, CallPaired, Joined, Listed
    <2>13. \A x \in Users : ScreenPaired(f, x)'
      BY <2>8 DEF Paired, ScreenPaired, Joined, Listed
    <2> QED
      BY <1>3, <2>9, <2>10, <2>11, <2>12, <2>13 DEF Paired
  <1> QED
    BY <1>7, <1>8

LEMMA MissPosterPaired ==
    ASSUME TypeOK, TypeOK', ConstantsAssumption, NEW f, Paired(f),
           NEW u \in Users, NEW q \in calls[u], MissPoster(u, q)
    PROVE  Paired(f)'
  <1>1. /\ calls' = [calls EXCEPT ![u] = @ \ {q}]
        /\ UNCHANGED <<server, pending, screen, now, opened>>
    BY DEF MissPoster
  <1>2. f \in [Ids -> Users \cup {NoUser}] /\ \A d \in Ids : opened'[d] # NoJob => d <= now'
    BY <1>1 DEF Paired
  <1>3. \A x \in Users : \A p \in calls'[x] : p \in calls[x]
    BY <1>1 DEF TypeOK
  <1>4. \A x \in Users : QueuedConvs(x)' \subseteq QueuedConvs(x)
    BY <1>1 DEF QueuedConvs, Queued
  <1> QED
    BY <1>1, <1>2, <1>3, <1>4, StillPaired DEF server

LEMMA LeaveConversationPaired ==
    ASSUME TypeOK, TypeOK', ConstantsAssumption, NEW f, Paired(f),
           NEW u \in Users, NEW q \in calls[u], LeaveConversation(u, q)
    PROVE  Paired(f)'
  <1>1. /\ calls' = [calls EXCEPT ![u] = @ \ {q}]
        /\ UNCHANGED <<server, screen, now, opened>>
    BY DEF LeaveConversation
  <1>2. f \in [Ids -> Users \cup {NoUser}] /\ \A d \in Ids : opened'[d] # NoJob => d <= now'
    BY <1>1 DEF Paired
  <1>3. \A x \in Users : \A p \in calls'[x] : p \in calls[x]
    BY <1>1 DEF TypeOK
  <1>4. \A x \in Users : QueuedConvs(x)' \subseteq QueuedConvs(x)
    <2>0. PICK docs \in Answers(u, q.owner, q.chat) :
            pending' = [pending EXCEPT ![u] =
              IF docs = {} THEN @ ELSE Append(@, Deactivation(docs))]
      BY DEF LeaveConversation
    <2> DEFINE w == Deactivation(docs)
    <2>1. pending' = pending \/ pending' = [pending EXCEPT ![u] = Append(@, w)]
      BY <2>0 DEF TypeOK
    <2>2. docs \subseteq DocIds
      BY AnswerTypes
    <2>3. w \in Write /\ w.op # "conv"
      BY <2>2 DEF Write, Deactivation
    <2> HIDE DEF w
    <2>4. CASE pending' = pending
      BY <2>4 DEF QueuedConvs, Queued
    <2> QED
      BY <2>1, <2>3, <2>4, AppendedOne
  <1> QED
    BY <1>1, <1>2, <1>3, <1>4, StillPaired DEF server

(* A conversation reaches the server: nobody else has one of its chat in a *)
(* queue.                                                                  *)
LEMMA AcknowledgePaired ==
    ASSUME TypeOK, TypeOK', ConstantsAssumption, NEW f, Paired(f), NEW u \in Users,
           Acknowledge(u)
    PROVE  Paired(f)'
  <1> DEFINE w == Head(pending[u])
  <1>1. /\ UNCHANGED <<calls, screen, now, opened>>
        /\ convs' = IF w.op = "conv" THEN convs \cup {w.conv} ELSE convs
        /\ pending[u] # << >>
        /\ pending' = [pending EXCEPT ![u] = Tail(@)]
    BY DEF Acknowledge
  <1>2. /\ \A x \in Users : QueuedConvs(x)' \subseteq QueuedConvs(x)
        /\ w.op = "conv" => w.conv \in QueuedConvs(u)
    BY <1>1, PoppedConvs
  <1>3. /\ convs \subseteq convs'
        /\ \A v \in convs' : v \in convs \/ v \in QueuedConvs(u)
    BY <1>1, <1>2
  <1> HIDE DEF w
  <1>4. \A x \in Users :
          /\ SeenConvs(x) = convs \cup QueuedConvs(x)
          /\ SeenConvs(x)' = convs' \cup QueuedConvs(x)'
    BY SeenQueued DEF SeenConvs, QueuedConvs
  <1>5. \A x \in Users : \A v \in QueuedConvs(x) : f[v.chat] = x
    BY DEF Paired
  <1>6. \A x \in Users : \A y, z \in SeenConvs(x)' : SameRow(y, z) => y = z
    <2> SUFFICES ASSUME NEW x \in Users, NEW y \in SeenConvs(x)',
                        NEW z \in SeenConvs(x)', SameRow(y, z)
                 PROVE  y = z
      OBVIOUS
    <2>1. /\ y \in SeenConvs(u) \/ y \in QueuedConvs(x)
          /\ z \in SeenConvs(u) \/ z \in QueuedConvs(x)
      BY <1>2, <1>3, <1>4
    <2>2. CASE y \in SeenConvs(u) /\ z \in SeenConvs(u)
      BY <2>2 DEF Paired
    <2>3. CASE y \in SeenConvs(x) /\ z \in SeenConvs(x)
      BY <2>3 DEF Paired
    <2>4. CASE x # u
      <3>1. /\ y \in convs \/ y \in QueuedConvs(u) \/ y \in QueuedConvs(x)
            /\ z \in convs \/ z \in QueuedConvs(u) \/ z \in QueuedConvs(x)
        BY <1>2, <1>3, <1>4
      <3>2. y.chat = z.chat
        BY DEF SameRow
      <3>3. ~ (y \in QueuedConvs(u) /\ z \in QueuedConvs(x))
            /\ ~ (z \in QueuedConvs(u) /\ y \in QueuedConvs(x))
        BY <1>5, <2>4, <3>2
      <3> QED
        BY <1>4, <2>2, <2>3, <3>1, <3>3
    <2>5. CASE x = u
      BY <1>4, <2>1, <2>2, <2>5
    <2> QED
      BY <2>4, <2>5
  <1>7. \A v \in convs' : OfChat(f, v)'
    BY <1>1, <1>3 DEF Paired, OfChat, Parties
  <1>8. \A x \in Users : \A v \in QueuedConvs(x)' : OfChat(f, v)' /\ f[v.chat] = x
    BY <1>1, <1>2 DEF Paired, OfChat, Parties
  <1>9. \A x \in Users : /\ \A q \in calls'[x] : CallPaired(f, x, q)'
                         /\ ScreenPaired(f, x)'
    BY <1>1, <1>3 DEF Paired, CallPaired, ScreenPaired, Joined, Listed
  <1> QED
    BY <1>1, <1>6, <1>7, <1>8, <1>9 DEF Paired

LEMMA NextPaired ==
    ASSUME TypeOK, TypeOK', ConstantsAssumption, DistinctNumbers,
           NEW f, Paired(f), [Next]_vars
    PROVE  \E g : Paired(g)' /\ Keeps(f, g)
  <1>0. Keeps(f, f)
    BY DEF Keeps
  <1>1. CASE UNCHANGED vars
    <2>1. UNCHANGED <<convs, pending, calls, screen, now, opened>>
      BY <1>1 DEF vars, server
    <2>2. Paired(f)'
      BY <2>1 DEF Paired, OfChat, Parties, QueuedConvs, SeenConvs, Queued, CallPaired,
                  ScreenPaired, Joined, Listed
    <2> QED
      BY <1>0, <2>2
  <1>2. ASSUME NEW u \in Users, UserStep(u) PROVE Paired(f)'
    BY <1>2, OpenConversationPaired, CounterPaired, QuietPaired DEF UserStep
  <1>3. ASSUME NEW u \in Users, Answer(u) PROVE \E g : Paired(g)' /\ Keeps(f, g)
    BY <1>0, <1>3, CreateFirstBidPaired, DieOnOwnJobPaired, EnterConversationPaired,
       MissPosterPaired, LeaveConversationPaired DEF Answer
  <1>4. ASSUME NEW u \in Users, Acknowledge(u) \/ Refuse(u) \/ Crash(u)
        PROVE  Paired(f)'
    BY <1>4, AcknowledgePaired, QuietPaired
  <1> QED
    BY <1>0, <1>1, <1>2, <1>3, <1>4 DEF Next

LEMMA AlwaysPaired == DistinctNumbers /\ Spec => [](\E f : Paired(f))
  <1> DEFINE Pairing == DistinctNumbers /\ \E f : Paired(f)
  <1>1. DistinctNumbers /\ Init => Pairing
    BY ConstantsAssumption, InitPaired
  <1>2. TypeOK /\ TypeOK' /\ Pairing /\ [Next]_vars => Pairing'
    <2> SUFFICES ASSUME TypeOK, TypeOK', DistinctNumbers, \E f : Paired(f), [Next]_vars
                 PROVE  DistinctNumbers' /\ \E f : Paired(f)'
      OBVIOUS
    <2>1. DistinctNumbers'
      BY DEF DistinctNumbers
    <2> QED
      BY <2>1, ConstantsAssumption, NextPaired
  <1>3. Pairing => \E f : Paired(f)
    OBVIOUS
  <1> HIDE DEF Pairing
  <1> QED
    BY <1>1, <1>2, <1>3, TypeCorrect, PTL DEF Spec

(* A chat has one poster and one bidder, whatever writes are refused and   *)
(* phones crash, as long as job numbers differ (BidViewController:252-262, *)
(* DatabaseHelper:97-163).                                                 *)
THEOREM ChatsHaveTwoParties == DistinctNumbers /\ Spec => []ChatHasTwoParties
  <1>1. (\E f : Paired(f)) => ChatHasTwoParties
    BY DEF Paired, OfChat, Parties, ChatHasTwoParties
  <1> QED
    BY <1>1, AlwaysPaired, PTL

(* No list has two rows for one chat, though both phones look it up before *)
(* they create it (DatabaseHelper:97-163).                                 *)
THEOREM OneRowPerChat == DistinctNumbers /\ Spec => []OneConversationPerChat
  <1>1. TypeOK /\ (\E f : Paired(f)) => OneConversationPerChat
    <2> SUFFICES ASSUME TypeOK, NEW f, Paired(f), NEW v \in convs, NEW w \in convs,
                        v.owner = w.owner, v.chat = w.chat
                 PROVE  v = w
      BY DEF OneConversationPerChat
    <2>1. v.owner \in Users
      BY DEF TypeOK, ConvDoc
    <2>2. v \in SeenConvs(v.owner) /\ w \in SeenConvs(v.owner)
      BY DEF SeenConvs
    <2> QED
      BY <2>1, <2>2 DEF Paired, SameRow
  <1> QED
    BY <1>1, AlwaysPaired, TypeCorrect, PTL

-----------------------------------------------------------------------------
(* Why a row of a message list finds its bid: of a chat's queued writes    *)
(* the last one counts, and each names the job the chat was opened for; of *)
(* the bids seen on that job the newest is shown, and there is one.        *)

(* A set of naturals has a least element, a bounded one a greatest.        *)
LEMMA Least ==
    ASSUME NEW T \in SUBSET Nat, NEW n \in T
    PROVE  \E m \in T : \A k \in T : m <= k
  <1> DEFINE R == OpToRel(<, Nat)
  <1>1. IsWellFoundedOn(R, Nat)
    BY NatLessThanWellFounded
  <1>2. \A x, y \in Nat : <<x, y>> \in R <=> x < y
    BY DEF OpToRel
  <1> HIDE DEF R
  <1>3. PICK m \in T : \A k \in T : ~ (<<k, m>> \in R)
    BY <1>1, WFMin
  <1>4. \A k \in T : ~ (k < m)
    BY <1>2, <1>3
  <1> QED
    BY <1>4

LEMMA Greatest ==
    ASSUME NEW T \in SUBSET Nat, NEW n \in T, NEW b \in Nat, \A k \in T : k <= b
    PROVE  \E m \in T : \A k \in T : k <= m
  <1> DEFINE above == {x \in Nat : \A k \in T : k <= x}
  <1>1. PICK m \in above : \A x \in above : m <= x
    <2>1. above \in SUBSET Nat /\ b \in above
      OBVIOUS
    <2> HIDE DEF above
    <2> QED
      BY <2>1, Least
  <1>2. CASE m \in T
    BY <1>1, <1>2
  <1>3. CASE m \notin T
    <2>1. \A k \in T : k \in Nat /\ k < m
      BY <1>1, <1>3
    <2>2. m - 1 \in above
      BY <1>1, <2>1
    <2> QED
      BY <1>1, <2>2
  <1> QED
    BY <1>2, <1>3

(* What is queued is seen.                                                 *)
LEMMA QueuedBidSeen ==
    ASSUME NEW u \in Users, NEW n, NEW j, NEW b, BidAhead(u, n, j, b)
    PROVE  \E x \in SeenBids(u) : OwnBid(x, j, b)
  BY DEF BidAhead, BidOnServer, SeenBids

LEMMA QueuedChatSeen ==
    ASSUME TypeOK, Backed, NEW u \in Users, NEW n, NEW c \in Ids, NEW j,
           opened[c] = j, ChatAhead(u, n, c, j)
    PROVE  SeenChatJob(u, c) = j
  <1> DEFINE writes == {i \in Queued(u, "chat") : pending[u][i].chat = c}
             last == CHOOSE i \in writes : \A k \in writes : k <= i
  <1>1. CASE writes = {}
    BY <1>1 DEF ChatAhead, SeenChatJob
  <1>2. CASE writes # {}
    <2>1. pending[u] \in Seq(Write)
      BY DEF TypeOK
    <2>2. writes \in SUBSET Nat /\ Len(pending[u]) \in Nat
          /\ \A k \in writes : k <= Len(pending[u])
      BY <2>1 DEF Queued
    <2>3. \E i \in writes : \A k \in writes : k <= i
      <3> PICK i \in writes : TRUE
        BY <1>2
      <3> HIDE DEF writes
      <3> QED
        BY <2>2, Greatest
    <2>4. last \in writes
      BY <2>3
    <2>5. pending[u][last].job = j
      BY <2>4 DEF Backed, WriteBacked, Queued
    <2> QED
      BY <1>2, <2>5 DEF SeenChatJob
  <1> QED
    BY <1>1, <1>2

(* A conversation a phone sees has its bidder's bid ahead of it.           *)
LEMMA SeenConvBacked ==
    ASSUME TypeOK, Backed, NEW u \in Users, NEW v \in SeenConvs(u)
    PROVE  /\ v \in ConvDoc /\ opened[v.chat] = v.job
           /\ \E b \in Users, n \in Int :
                /\ Parties(v, b)
                /\ ChatAhead(u, n, v.chat, v.job)
                /\ BidAhead(u, n, v.job, b)
  <1>1. v \in ConvDoc
    BY SeenTypes
  <1>2. CASE v \in convs
    BY <1>1, <1>2, 0 \in Int DEF Backed, ConvBacked, ChatAhead, BidAhead
  <1>3. CASE \E i \in Queued(u, "conv") : v = pending[u][i].conv
    <2>1. PICK i \in Queued(u, "conv") : v = pending[u][i].conv
      BY <1>3
    <2>2. i - 1 \in Int /\ WriteBacked(u, i) /\ pending[u][i].op = "conv"
      BY <2>1 DEF Queued, Backed, TypeOK
    <2> QED
      BY <1>1, <2>1, <2>2 DEF WriteBacked
  <1> QED
    BY <1>2, <1>3 DEF SeenConvs

(* An answer with a bid of the row's bidder in it has a newest one.        *)
LEMMA AnswerHasLatest ==
    ASSUME ConstantsAssumption, TypeOK, NEW u \in Users, NEW c, NEW p,
           NEW j \in Jobs, SeenChatJob(u, c) = j,
           NEW answer \in SUBSET SeenBids(u), NEW x \in answer,
           x.job = j, x.bidder = BidderFor(u, j, p)
    PROVE  LatestBid(u, c, p, answer) # {}
  <1> DEFINE mine == {b \in answer : b.job = j /\ b.bidder = BidderFor(u, j, p)}
             ids == {b.id : b \in mine}
  <1>1. mine \subseteq BidDoc
    BY SeenTypes
  <1>2. ids \in SUBSET Nat /\ MaxId \in Nat /\ \A k \in ids : k <= MaxId
    BY <1>1 DEF BidDoc, Ids, ConstantsAssumption
  <1>3. PICK m \in ids : \A k \in ids : k <= m
    <2>1. x.id \in ids
      OBVIOUS
    <2> HIDE DEF ids
    <2> QED
      BY <1>2, <2>1, Greatest
  <1>4. PICK y \in mine : y.id = m
    BY <1>3
  <1>5. y \in LatestBid(u, c, p, answer)
    BY <1>3, <1>4 DEF LatestBid, ConstantsAssumption
  <1> QED
    BY <1>5

LEMMA BackedRowHasBid ==
    ASSUME ConstantsAssumption, TypeOK, Backed
    PROVE  RowHasBid
  <1> DEFINE written(u) == {b \in SeenBids(u) : b.by = u}
  <1> SUFFICES ASSUME NEW u \in Users, NEW v \in SeenConvs(u), v.owner = u
               PROVE  /\ LatestBid(u, v.chat, v.partner, SeenBids(u)) # {}
                      /\ u # PosterOf[v.job] =>
                           LatestBid(u, v.chat, v.partner, written(u)) # {}
    BY DEF RowHasBid
  <1>1. PICK b \in Users, n \in Int : /\ Parties(v, b)
                                      /\ ChatAhead(u, n, v.chat, v.job)
                                      /\ BidAhead(u, n, v.job, b)
    BY SeenConvBacked
  <1>2. v \in ConvDoc /\ opened[v.chat] = v.job /\ v.job \in Jobs
    BY SeenConvBacked DEF ConvDoc
  <1>3. SeenChatJob(u, v.chat) = v.job
    BY <1>1, <1>2, QueuedChatSeen DEF ConvDoc
  <1>4. BidderFor(u, v.job, v.partner) = b
    BY <1>1 DEF Parties, BidderFor
  <1>5. PICK x \in SeenBids(u) : OwnBid(x, v.job, b)
    BY <1>1, QueuedBidSeen
  <1>6. x.job = v.job /\ x.bidder = BidderFor(u, v.job, v.partner) /\ x.by = b
    BY <1>4, <1>5 DEF OwnBid
  <1>7. LatestBid(u, v.chat, v.partner, SeenBids(u)) # {}
    BY <1>2, <1>3, <1>6, AnswerHasLatest
  <1>8. ASSUME u # PosterOf[v.job]
        PROVE  LatestBid(u, v.chat, v.partner, written(u)) # {}
    <2>1. b = u
      BY <1>1, <1>8 DEF Parties
    <2>2. x \in written(u) /\ written(u) \in SUBSET SeenBids(u)
      BY <1>6, <2>1
    <2> HIDE DEF written
    <2> QED
      BY <1>2, <1>3, <1>6, <2>2, AnswerHasLatest
  <1> QED
    BY <1>7, <1>8

(* Whenever the server answers, a row of the user's message list has a bid *)
(* to show, and a bidder's row has one among those the bidder's own phone  *)
(* wrote, which is what its cache is sure to hold: bidObj!                 *)
(* (DatabaseHelper:366, 399) meets no nil there.                           *)
THEOREM RowsHaveBids == Sound /\ Spec => []RowHasBid
  <1>1. TypeOK /\ Backed => RowHasBid
    BY ConstantsAssumption, BackedRowHasBid
  <1> QED
    BY <1>1, AlwaysBacked, TypeCorrect, PTL

-----------------------------------------------------------------------------
(* Why an acceptance is recorded as a whole: acceptedJob queues its three  *)
(* writes together and one queue keeps their order, so the helpr the chat  *)
(* needs is behind its acceptance or recorded; and both users of a chat    *)
(* compute the same helpr, the bidder the chat was opened by.              *)

(* No phone loses its queue, and neither half of the record is refused.    *)
Recording ==
    /\ Sound
    /\ MaxCrashes = 0
    /\ "helpr" \notin Refusable /\ "acceptedJob" \notin Refusable

HelprFor(f, c) == [job |-> opened[c], user |-> f[c]]

(* The acceptance at i has its chat ahead of it and its record behind it.  *)
AcceptQueued(f, u, i) ==
    LET c == pending[u][i].chat IN
    /\ opened[c] # NoJob
    /\ ChatAhead(u, i - 1, c, opened[c])
    /\ i + 1 \in Queued(u, "helpr") /\ pending[u][i + 1].helpr = HelprFor(f, c)
    /\ i + 2 \in Queued(u, "acceptedJob") /\ pending[u][i + 2].helpr = HelprFor(f, c)

Recorded(f, c) ==
    /\ opened[c] # NoJob
    /\ chatJob[c] = opened[c]
    /\ \E u \in Users : HelprComing(u, HelprFor(f, c))

ScreenAhead(u) ==
    screen[u] # NoScreen => ChatAhead(u, Len(pending[u]), screen[u].chat, screen[u].job)

Signed(f) ==
    /\ \A c \in accepted : Recorded(f, c)
    /\ \A u \in Users : \A i \in Queued(u, "accept") : AcceptQueued(f, u, i)
    /\ \A u \in Users : ScreenAhead(u)

LEMMA InitSigned ==
    ASSUME Init, NEW f
    PROVE  Signed(f)
  <1>1. \A u \in Users : Queued(u, "accept") = {}
    BY DEF Init, Queued
  <1> QED
    BY <1>1 DEF Init, Signed, ScreenAhead

(* The job a chat was opened for never changes.                            *)
LEMMA OpenedStays ==
    ASSUME TypeOK, ConstantsAssumption, NEW f, Paired(f), [Next]_vars
    PROVE  \A c \in Ids : opened[c] # NoJob => opened'[c] = opened[c]
  <1>1. opened' = opened
        \/ \E c \in Ids, j \in Jobs : c = now + 1 /\ opened' = [opened EXCEPT ![c] = j]
    <2>1. ASSUME NEW u \in Users, NEW q \in calls[u],
                 CreateFirstBid(u, q) \/ DieOnOwnJob(u, q)
          PROVE  opened' = opened
                 \/ \E c \in Ids, j \in Jobs :
                      c = now + 1 /\ opened' = [opened EXCEPT ![c] = j]
      <3>1. q.job \in Jobs /\ now + 1 \in Ids
        BY <2>1 DEF CreateFirstBid, DieOnOwnJob, TypeOK, Call, Ids, ConstantsAssumption
      <3>2. \E c \in ChatsFor(u, q.job) :
              opened' = IF c = now + 1 THEN [opened EXCEPT ![c] = q.job] ELSE opened
        BY <2>1 DEF CreateFirstBid, DieOnOwnJob
      <3> QED
        BY <3>1, <3>2
    <2>2. ASSUME NEW u \in Users, UserStep(u) PROVE opened' = opened
      BY <2>2 DEF UserStep, OpenConversation, Cancel, PlaceBid, Counter, Accept, Reject
    <2>3. ASSUME NEW u \in Users, NEW q \in calls[u],
                 EnterConversation(u, q) \/ MissPoster(u, q) \/ LeaveConversation(u, q)
          PROVE  opened' = opened
      BY <2>3 DEF EnterConversation, MissPoster, LeaveConversation
    <2>4. ASSUME NEW u \in Users, Acknowledge(u) \/ Refuse(u) \/ Crash(u)
          PROVE  opened' = opened
      BY <2>4 DEF Acknowledge, Refuse, Crash
    <2>5. CASE UNCHANGED vars
      BY <2>5 DEF vars
    <2> QED
      BY <2>1, <2>2, <2>3, <2>4, <2>5 DEF Next, Answer
  <1>2. \A c \in Ids : opened[c] # NoJob => c # now + 1
    BY DEF Paired, Ids, TypeOK, ConstantsAssumption
  <1> QED
    BY <1>1, <1>2 DEF TypeOK

-----------------------------------------------------------------------------
(* Steps that append to a queue.                                           *)

LEMMA ExtendSigned ==
    ASSUME TypeOK, ConstantsAssumption, NEW f, Signed(f), NEW g, Keeps(f, g),
           \A c \in Ids : opened[c] # NoJob => opened'[c] = opened[c],
           UNCHANGED server, NEW u \in Users, NEW t \in Seq(Write),
           pending' = [pending EXCEPT ![u] = @ \o t]
    PROVE  /\ \A c \in accepted' : Recorded(g, c)'
           /\ \A x \in Users : \A i \in Queued(x, "accept") : AcceptQueued(g, x, i)'
           /\ \A x \in Users : screen'[x] \in {screen[x], NoScreen} => ScreenAhead(x)'
  <1>1. \A x \in Users : pending[x] \in Seq(Write)
    BY DEF TypeOK
  <1>2. \A x \in Users : \A i \in DOMAIN pending[x] :
          /\ i \in Int /\ pending[x][i] \in Write
          /\ i \in DOMAIN pending'[x] /\ pending'[x][i] = pending[x][i]
    <2> TAKE x \in Users
    <2>1. CASE x = u
      BY <2>1, <1>1, Extended DEF TypeOK
    <2>2. CASE x # u
      BY <2>2, <1>1 DEF TypeOK
    <2> QED
      BY <2>1, <2>2
  <1>3. \A x \in Users :
          /\ \A i \in Queued(x, "accept") :
               pending'[x][i] = pending[x][i] /\ i \in Int
               /\ pending[x][i] \in Write /\ pending[x][i].op = "accept"
          /\ \A i \in Queued(x, "helpr") :
               i \in Queued(x, "helpr")' /\ pending'[x][i] = pending[x][i]
          /\ \A i \in Queued(x, "acceptedJob") :
               i \in Queued(x, "acceptedJob")' /\ pending'[x][i] = pending[x][i]
    BY <1>2 DEF Queued
  <1>4. \A c \in Ids : opened[c] # NoJob =>
          opened'[c] = opened[c] /\ HelprFor(g, c)' = HelprFor(f, c)
    BY DEF Keeps, HelprFor
  <1>5. ASSUME NEW x \in Users, NEW h, HelprComing(x, h)
        PROVE  HelprComing(x, h)'
    <2>1. helprs' = helprs /\ acceptedJobs' = acceptedJobs
      BY DEF server
    <2>2. h \in helprs \/ \E i \in Queued(x, "helpr")' : pending'[x][i].helpr = h
      BY <1>3, <1>5 DEF HelprComing
    <2>3. h \in acceptedJobs
          \/ \E i \in Queued(x, "acceptedJob")' : pending'[x][i].helpr = h
      BY <1>3, <1>5 DEF HelprComing
    <2> QED
      BY <2>1, <2>2, <2>3 DEF HelprComing
  <1>6. ASSUME NEW c \in accepted'
        PROVE  Recorded(g, c)'
    <2>1. c \in accepted /\ c \in Ids /\ chatJob' = chatJob
      BY DEF server, TypeOK
    <2>2. Recorded(f, c)
      BY <2>1 DEF Signed
    <2>3. HelprFor(g, c)' = HelprFor(f, c) /\ opened'[c] = opened[c]
      BY <1>4, <2>1, <2>2 DEF Recorded
    <2> QED
      BY <1>5, <2>1, <2>2, <2>3 DEF Recorded
  <1>7. ASSUME NEW x \in Users, NEW i \in Queued(x, "accept")
        PROVE  AcceptQueued(g, x, i)'
    <2>1. /\ AcceptQueued(f, x, i) /\ pending[x][i] \in Write
          /\ pending[x][i].op = "accept" /\ i \in Int
          /\ pending'[x][i] = pending[x][i]
      BY <1>3 DEF Signed
    <2> PICK c \in Ids : c = pending[x][i].chat
      BY <2>1, WriteFields
    <2>2. /\ opened[c] # NoJob /\ ChatAhead(x, i - 1, c, opened[c])
          /\ i + 1 \in Queued(x, "helpr") /\ pending[x][i + 1].helpr = HelprFor(f, c)
          /\ i + 2 \in Queued(x, "acceptedJob")
          /\ pending[x][i + 2].helpr = HelprFor(f, c)
      BY <2>1 DEF AcceptQueued
    <2>3. opened'[c] = opened[c] /\ HelprFor(g, c)' = HelprFor(f, c)
      BY <1>4, <2>2
    <2>4. ChatAhead(x, i - 1, c, opened[c])'
      <3>1. PICK j : j = opened[c]
        OBVIOUS
      <3>2. ChatAhead(x, i - 1, c, j)'
        BY <2>1, <2>2, <3>1, i - 1 \in Int, ExtendAhead
      <3> QED
        BY <2>3, <3>1, <3>2
    <2>5. /\ i + 1 \in Queued(x, "helpr")' /\ pending'[x][i + 1] = pending[x][i + 1]
          /\ i + 2 \in Queued(x, "acceptedJob")'
          /\ pending'[x][i + 2] = pending[x][i + 2]
      BY <1>3, <2>2
    <2> QED
      BY <2>1, <2>2, <2>3, <2>4, <2>5 DEF AcceptQueued
  <1>8. ASSUME NEW x \in Users, screen'[x] \in {screen[x], NoScreen}
        PROVE  ScreenAhead(x)'
    <2>1. SUFFICES ASSUME screen'[x] = screen[x], screen[x] # NoScreen
                   PROVE  ChatAhead(x, Len(pending[x]), screen[x].chat, screen[x].job)'
      BY <1>8 DEF ScreenAhead
    <2>2. PICK c, j : c = screen[x].chat /\ j = screen[x].job
      OBVIOUS
    <2>3. PICK n \in Int, m \in Int :
            n = Len(pending[x]) /\ m = Len(pending'[x]) /\ n <= m
      <3>1. CASE x = u
        BY <3>1, <1>1, Extended DEF TypeOK
      <3>2. CASE x # u
        BY <3>2, <1>1 DEF TypeOK
      <3> QED
        BY <3>1, <3>2
    <2>4. ChatAhead(x, n, c, j)
      BY <2>1, <2>2, <2>3 DEF Signed, ScreenAhead
    <2>5. ChatAhead(x, m, c, j)'
      BY <2>3, <2>4, ExtendAhead
    <2> QED
      BY <2>1, <2>2, <2>3, <2>5
  <1> QED
    BY <1>6, <1>7, <1>8

(* Every step of a phone but Accept and opening a conversation.            *)
LEMMA AppendSigned ==
    ASSUME TypeOK, ConstantsAssumption, NEW f, Signed(f), NEW g, Keeps(f, g),
           \A c \in Ids : opened[c] # NoJob => opened'[c] = opened[c],
           UNCHANGED server, NEW u \in Users, NEW t \in Seq(Write),
           pending' = [pending EXCEPT ![u] = @ \o t],
           \A i \in DOMAIN t : t[i].op # "accept",
           \A x \in Users : screen'[x] \in {screen[x], NoScreen}
    PROVE  Signed(g)'
  <1>1. ASSUME NEW x \in Users, NEW i \in Queued(x, "accept")'
        PROVE  i \in Queued(x, "accept")
    <2>1. CASE x = u
      <3>1. pending[u] \in Seq(Write) /\ pending'[u] = pending[u] \o t
        BY DEF TypeOK
      <3>2. i \in DOMAIN (pending[u] \o t) /\ (pending[u] \o t)[i].op = "accept"
        BY <1>1, <2>1, <3>1 DEF Queued
      <3>3. i \in DOMAIN pending[u] /\ (pending[u] \o t)[i] = pending[u][i]
        BY <3>1, <3>2, Extended
      <3> QED
        BY <2>1, <3>2, <3>3 DEF Queued
    <2>2. CASE x # u
      BY <1>1, <2>2 DEF Queued, TypeOK
    <2> QED
      BY <2>1, <2>2
  <1> QED
    BY <1>1, ExtendSigned DEF Signed

LEMMA IdleSigned ==
    ASSUME TypeOK, ConstantsAssumption, NEW f, Signed(f), NEW g, Keeps(f, g),
           \A c \in Ids : opened[c] # NoJob => opened'[c] = opened[c],
           UNCHANGED <<server, pending>>, NEW u \in Users,
           \A x \in Users : screen'[x] \in {screen[x], NoScreen}
    PROVE  Signed(g)'
  <1>1. pending[u] \in Seq(Write)
    BY DEF TypeOK
  <1>2. PICK t \in Seq(Write) : t = << >>
    <2>1. << >> \in Seq(Write)
      OBVIOUS
    <2> QED
      BY <2>1
  <1>3. pending[u] \o t = pending[u] /\ \A i \in DOMAIN t : t[i].op # "accept"
    BY <1>1, <1>2
  <1>4. pending' = [pending EXCEPT ![u] = @ \o t]
    BY <1>3 DEF TypeOK
  <1> QED
    BY <1>3, <1>4, AppendSigned

LEMMA OneSigned ==
    ASSUME TypeOK, ConstantsAssumption, NEW f, Signed(f), NEW g, Keeps(f, g),
           \A c \in Ids : opened[c] # NoJob => opened'[c] = opened[c],
           UNCHANGED server, NEW u \in Users, NEW w \in Write, w.op # "accept",
           pending' = [pending EXCEPT ![u] = Append(@, w)],
           \A x \in Users : screen'[x] \in {screen[x], NoScreen}
    PROVE  Signed(g)'
  <1>1. pending[u] \in Seq(Write)
    BY DEF TypeOK
  <1>2. PICK t \in Seq(Write) : t = <<w>>
    <2>1. <<w>> \in Seq(Write)
      OBVIOUS
    <2> QED
      BY <2>1
  <1>3. pending[u] \o t = Append(pending[u], w) /\ \A i \in DOMAIN t : t[i].op # "accept"
    BY <1>1, <1>2
  <1>4. pending' = [pending EXCEPT ![u] = @ \o t]
    BY <1>3 DEF TypeOK
  <1> QED
    BY <1>3, <1>4, AppendSigned

(* The writes of a createBid, whole or cut off by the app's death.         *)
LEMMA BidSigned ==
    ASSUME TypeOK, ConstantsAssumption, NEW f, Signed(f), NEW g, Keeps(f, g),
           \A c \in Ids : opened[c] # NoJob => opened'[c] = opened[c],
           UNCHANGED server, NEW u \in Users, NEW j \in Jobs, NEW p,
           NEW c \in Ids, NEW n \in Ids, u = PosterOf[j] => p \in Users,
           NEW k \in 0..3, NEW t,
           \/ t = BidWrites(u, j, p, c, n)
           \/ t = SubSeq(BidWrites(u, j, p, c, n), 1, k),
           pending' = [pending EXCEPT ![u] = @ \o t],
           \A x \in Users : screen'[x] \in {screen[x], NoScreen}
    PROVE  Signed(g)'
  <1> DEFINE b == BidWrites(u, j, p, c, n)
  <1>1. b \in Seq(Write)
    BY BidWritesType
  <1>2. Len(b) = 3 /\ \A i \in DOMAIN b : b[i].op # "accept"
    BY DEF BidWrites
  <1> HIDE DEF b
  <1>3. t = b \/ t = SubSeq(b, 1, k)
    BY DEF b
  <1>4. t \in Seq(Write)
    <2>1. SubSeq(b, 1, k) \in Seq(Write)
      BY <1>1, <1>2, QueueTypes
    <2> QED
      BY <1>1, <1>3, <2>1
  <1>5. \A i \in DOMAIN t : t[i].op # "accept"
    BY <1>1, <1>2, <1>3, Cut
  <1> QED
    BY <1>4, <1>5, AppendSigned

LEMMA CounterSigned ==
    ASSUME TypeOK, ConstantsAssumption, NEW f, Signed(f), NEW u \in Users, Counter(u)
    PROVE  Signed(f)'
  <1>1. PICK s \in Screen : s = screen[u]
    BY DEF Counter, TypeOK
  <1>2. /\ s.job \in Jobs /\ s.partner \in Users /\ s.chat \in Ids
        /\ UNCHANGED <<server, opened>> /\ now + 1 \in Ids
        /\ \A x \in Users : screen'[x] \in {screen[x], NoScreen}
    BY <1>1 DEF Counter, CloseScreen, TypeOK, Ids, ConstantsAssumption, Screen
  <1>3. PICK t : /\ t = BidWrites(u, s.job, s.partner, s.chat, now + 1)
                 /\ pending' = [pending EXCEPT ![u] = @ \o t]
    BY <1>1 DEF Counter
  <1> QED
    BY <1>2, <1>3, 3 \in 0..3, BidSigned DEF Keeps

LEMMA CreateFirstBidSigned ==
    ASSUME TypeOK, ConstantsAssumption, Sound, Backed, NEW f, Signed(f),
           NEW g, Keeps(f, g),
           \A c \in Ids : opened[c] # NoJob => opened'[c] = opened[c],
           NEW u \in Users, NEW q \in calls[u], CreateFirstBid(u, q)
    PROVE  Signed(g)'
  <1>1. /\ q.job \in Jobs /\ u # PosterOf[q.job]
        /\ UNCHANGED <<server, screen>> /\ now + 1 \in Ids
    BY DEF CreateFirstBid, TypeOK, Call, Ids, ConstantsAssumption
  <1> DEFINE t(c) == BidWrites(u, q.job, NoUser, c, now + 1)
  <1>2. PICK c \in ChatsFor(u, q.job) : pending' = [pending EXCEPT ![u] = @ \o t(c)]
    BY DEF CreateFirstBid
  <1>3. c \in Ids
    BY <1>1, ChatsForJob
  <1> QED
    BY <1>1, <1>2, <1>3, 3 \in 0..3, BidSigned

LEMMA DieOnOwnJobSigned ==
    ASSUME TypeOK, ConstantsAssumption, Sound, Backed, NEW f, Signed(f),
           NEW g, Keeps(f, g),
           \A c \in Ids : opened[c] # NoJob => opened'[c] = opened[c],
           NEW u \in Users, NEW q \in calls[u], DieOnOwnJob(u, q)
    PROVE  Signed(g)'
  <1>1. now + 1 \in Ids
    BY DEF DieOnOwnJob, TypeOK, Ids, ConstantsAssumption
  <1>2. q.job \in Jobs /\ UNCHANGED server
    BY DEF DieOnOwnJob, TypeOK, Call
  <1>3. \A x \in Users : screen'[x] \in {screen[x], NoScreen}
    BY DEF DieOnOwnJob, CloseScreen, TypeOK
  <1>4. PICK c \in ChatsFor(u, q.job), k \in 0..2 :
          pending' = [pending EXCEPT ![u] =
            @ \o SubSeq(BidWrites(u, q.job, u, c, now + 1), 1, k)]
    BY DEF DieOnOwnJob
  <1>5. PICK t : /\ t = SubSeq(BidWrites(u, q.job, u, c, now + 1), 1, k)
                 /\ pending' = [pending EXCEPT ![u] = @ \o t]
    BY <1>4
  <1>6. c \in Ids /\ k \in 0..3
    BY <1>1, <1>2, ChatsForJob
  <1> QED
    BY <1>1, <1>2, <1>3, <1>5, <1>6, BidSigned

LEMMA LookUpSigned ==
    ASSUME TypeOK, ConstantsAssumption, NEW f, Signed(f), NEW u \in Users,
           NEW q \in calls[u],
           EnterConversation(u, q) \/ MissPoster(u, q) \/ LeaveConversation(u, q)
    PROVE  Signed(f)'
  <1>1. UNCHANGED <<server, opened, screen>>
    BY LookUpStep
  <1>2. CASE pending' = pending
    BY <1>1, <1>2, IdleSigned DEF Keeps
  <1>3. ASSUME NEW w \in Write, w.op \in {"conv", "active"},
               pending' = [pending EXCEPT ![u] = Append(@, w)]
        PROVE  Signed(f)'
    BY <1>1, <1>3, OneSigned DEF Keeps
  <1> QED
    BY <1>2, <1>3, LookUpStep

(* A conversation is seen once its chat is queued or on the server.        *)
LEMMA OpenConversationSigned ==
    ASSUME TypeOK, ConstantsAssumption, Backed, NEW f, Signed(f),
           NEW u \in Users, NEW v \in SeenConvs(u), OpenConversation(u, v)
    PROVE  Signed(f)'
  <1>1. /\ UNCHANGED <<server, pending, opened>>
        /\ \A x \in Users \ {u} : screen'[x] = screen[x]
        /\ screen'[u].chat = v.chat /\ screen'[u].job = v.job
    BY DEF OpenConversation, TypeOK
  <1>2. ChatAhead(u, Len(pending[u]), v.chat, v.job)
    <2>1. PICK n \in Int : ChatAhead(u, n, v.chat, v.job)
      BY SeenConvBacked
    <2>2. pending[u] \in Seq(Write)
      BY DEF TypeOK
    <2>3. \A i \in DOMAIN pending[u] : i <= Len(pending[u])
      BY <2>2
    <2> QED
      BY <2>1, <2>3 DEF ChatAhead, Queued
  <1>3. ScreenAhead(u)'
    BY <1>1, <1>2 DEF ScreenAhead, ChatAhead, Queued, server
  <1>4. \A x \in Users \ {u} : ScreenAhead(x)'
    BY <1>1 DEF Signed, ScreenAhead, ChatAhead, Queued, server
  <1>5. \A c \in accepted' : Recorded(f, c)'
    BY <1>1 DEF Signed, Recorded, HelprComing, HelprFor, Queued, server
  <1>6. \A x \in Users : \A i \in Queued(x, "accept")' : AcceptQueued(f, x, i)'
    BY <1>1 DEF Signed, AcceptQueued, ChatAhead, HelprFor, Queued, server
  <1> QED
    BY <1>3, <1>4, <1>5, <1>6 DEF Signed

(* Whichever of a chat's users accepts, the helpr is the chat's opener.    *)
LEMMA HelprIsOpener ==
    ASSUME NEW f, NEW u \in Users, ScreenPaired(f, u), screen[u] # NoScreen
    PROVE  /\ HelprOf(u, screen[u]) = HelprFor(f, screen[u].chat)
           /\ opened[screen[u].chat] = screen[u].job
  BY DEF ScreenPaired, Parties, Joined, HelprOf, HelprFor

LEMMA AcceptSigned ==
    ASSUME TypeOK, ConstantsAssumption, NEW f, Paired(f), Signed(f),
           NEW u \in Users, Accept(u)
    PROVE  Signed(f)'
  <1> PICK s \in Screen : s = screen[u]
    BY DEF Accept, TypeOK
  <1> DEFINE h == HelprOf(u, s)
  <1>1. /\ s.chat \in Ids /\ s.job \in Jobs /\ s # NoScreen
        /\ h = HelprFor(f, s.chat) /\ h \in JobHelpr /\ opened[s.chat] = s.job
    <2>1. HelprOf(u, s) \in JobHelpr
      BY DEF HelprOf, JobHelpr, Screen
    <2>2. ScreenPaired(f, u)
      BY DEF Paired
    <2> QED
      BY <2>1, <2>2, HelprIsOpener DEF Screen, Accept
  <1>2. PICK t : /\ t = AcceptWrites(s.chat, h)
                 /\ pending' = [pending EXCEPT ![u] = @ \o t]
    BY DEF Accept
  <1>3. /\ UNCHANGED <<server, opened>>
        /\ \A x \in Users : screen'[x] \in {screen[x], NoScreen}
    BY DEF Accept, CloseScreen, TypeOK
  <1> HIDE DEF h
  <1>4. /\ t \in Seq(Write) /\ DOMAIN t = 1..3 /\ Len(t) = 3
        /\ t[1] = [op |-> "accept", chat |-> s.chat]
        /\ t[2] = [op |-> "helpr", helpr |-> h]
        /\ t[3] = [op |-> "acceptedJob", helpr |-> h]
    <2>1. /\ [op |-> "accept", chat |-> s.chat] \in Write
          /\ [op |-> "helpr", helpr |-> h] \in Write
          /\ [op |-> "acceptedJob", helpr |-> h] \in Write
      BY <1>1 DEF Write
    <2> QED
      BY <1>2, <2>1 DEF AcceptWrites
  <1>5. Keeps(f, f) /\ \A c \in Ids : opened[c] # NoJob => opened'[c] = opened[c]
    BY <1>3 DEF Keeps
  <1>6. /\ \A c \in accepted' : Recorded(f, c)'
        /\ \A x \in Users : \A i \in Queued(x, "accept") : AcceptQueued(f, x, i)'
        /\ \A x \in Users : ScreenAhead(x)'
    BY <1>2, <1>3, <1>4, <1>5, ExtendSigned
  <1>7. pending[u] \in Seq(Write) /\ pending'[u] = pending[u] \o t
    BY <1>2 DEF TypeOK
  <1>8. PICK l \in Nat : l = Len(pending[u])
    <2>1. pending[u] \in Seq(Write)
      BY <1>7
    <2>2. Len(pending[u]) \in Nat
      BY <2>1, LenIsNat
    <2> QED
      BY <2>2, Zenon
  <1>9. \A i \in DOMAIN t : l + i \in DOMAIN pending'[u] /\ pending'[u][l + i] = t[i]
    <2>1. PICK s1 \in Seq(Write) : s1 = pending[u]
      BY <1>7
    <2>2. \A i \in DOMAIN t : Len(s1) + i \in DOMAIN (s1 \o t) /\ (s1 \o t)[Len(s1) + i] = t[i]
      BY <1>4, Extended
    <2> QED
      BY <1>7, <1>8, <2>1, <2>2
  <1>10. AcceptQueued(f, u, l + 1)'
    <2>1. /\ pending'[u][l + 1] = t[1] /\ pending'[u][l + 2] = t[2]
          /\ pending'[u][l + 3] = t[3]
          /\ l + 2 \in DOMAIN pending'[u] /\ l + 3 \in DOMAIN pending'[u]
      BY <1>4, <1>9
    <2>2. HelprFor(f, s.chat)' = h
      BY <1>1, <1>3 DEF HelprFor
    <2>3. (l + 1) + 1 \in Queued(u, "helpr")' /\ (l + 1) + 2 \in Queued(u, "acceptedJob")'
      BY <1>4, <2>1 DEF Queued
    <2>4. ChatAhead(u, l, s.chat, s.job)'
      <3>1. ChatAhead(u, l, s.chat, s.job)
        BY <1>1, <1>8 DEF Signed, ScreenAhead
      <3>2. PICK c, j : c = s.chat /\ j = s.job
        OBVIOUS
      <3>3. ChatAhead(u, l, c, j) /\ l \in Int
        BY <3>1, <3>2
      <3>4. ChatAhead(u, l, c, j)'
        BY <1>2, <1>3, <1>4, <3>3, ExtendAhead
      <3> QED
        BY <3>2, <3>4
    <2>5. opened'[s.chat] = s.job /\ s.job # NoJob /\ (l + 1) - 1 = l
          /\ pending'[u][l + 1].chat = s.chat
      BY <1>1, <1>3, <1>4, <2>1 DEF ConstantsAssumption
    <2>6. /\ pending'[u][(l + 1) + 1].helpr = h
          /\ pending'[u][(l + 1) + 2].helpr = h
      BY <1>4, <2>1
    <2> QED
      BY <2>2, <2>3, <2>4, <2>5, <2>6 DEF AcceptQueued
  <1>11. ASSUME NEW x \in Users, NEW i \in Queued(x, "accept")'
         PROVE  AcceptQueued(f, x, i)'
    <2>1. CASE x = u
      <3>1. i \in DOMAIN (pending[u] \o t) /\ (pending[u] \o t)[i].op = "accept"
        BY <1>7, <1>11, <2>1 DEF Queued
      <3>2. CASE i \in DOMAIN pending[u]
        <4>1. (pending[u] \o t)[i] = pending[u][i]
          BY <1>4, <1>7, <3>2, Extended
        <4>2. i \in Queued(u, "accept")
          BY <3>1, <3>2, <4>1 DEF Queued
        <4> QED
          BY <1>6, <2>1, <4>2
      <3>3. CASE i \notin DOMAIN pending[u]
        <4>1. i - l \in DOMAIN t /\ (pending[u] \o t)[i] = t[i - l]
          BY <1>4, <1>7, <1>8, <3>1, <3>3, Extended
        <4>2. i - l = 1 /\ i \in Int
          BY <1>4, <1>7, <1>8, <3>1, <4>1
        <4>3. i = l + 1
          BY <4>2
        <4> QED
          BY <1>10, <2>1, <4>3
      <3> QED
        BY <3>2, <3>3
    <2>2. CASE x # u
      <3>1. i \in Queued(x, "accept")
        BY <1>2, <1>11, <2>2 DEF Queued, TypeOK
      <3> QED
        BY <1>6, <3>1
    <2> QED
      BY <2>1, <2>2
  <1> QED
    BY <1>6, <1>11 DEF Signed

-----------------------------------------------------------------------------
(* The server takes or refuses the write at the head of a queue.           *)
LEMMA PopSigned ==
    ASSUME TypeOK, ConstantsAssumption, Backed, NEW f, Paired(f), Signed(f),
           NEW u \in Users, pending[u] # << >>, NEW w, w = Head(pending[u]),
           pending' = [pending EXCEPT ![u] = Tail(@)],
           UNCHANGED <<opened, screen>>,
           bids \subseteq bids', helprs \subseteq helprs',
           acceptedJobs \subseteq acceptedJobs',
           w.op = "bid" => w.bid \in bids',
           w.op = "chat" => chatJob'[w.chat] = w.job,
           w.op = "helpr" => w.helpr \in helprs',
           w.op = "acceptedJob" => w.helpr \in acceptedJobs',
           \A c \in accepted' : c \in accepted \/ (w.op = "accept" /\ c = w.chat),
           \A c \in Ids : chatJob[c] = opened[c] => chatJob'[c] = opened[c]
    PROVE  Signed(f)'
  <1>1. /\ pending[u] \in Seq(Write) /\ pending'[u] = Tail(pending[u])
        /\ \A x \in Users \ {u} : pending'[x] = pending[x]
    BY DEF TypeOK
  <1>2. /\ Len(pending[u]) \in Nat /\ Len(pending'[u]) = Len(pending[u]) - 1
        /\ w = pending[u][1] /\ 1 \in DOMAIN pending[u]
    BY <1>1, Popped
  <1>3. \A i \in DOMAIN pending[u] : i \in Int /\ pending[u][i] \in Write
    BY <1>1
  <1>4. \A i \in DOMAIN pending[u] : i # 1 =>
          i - 1 \in DOMAIN pending'[u] /\ pending'[u][i - 1] = pending[u][i]
    <2>1. \A i \in DOMAIN pending[u] :
            i = 1 \/ (i - 1 \in DOMAIN Tail(pending[u])
                     /\ Tail(pending[u])[i - 1] = pending[u][i])
      BY <1>1, Popped
    <2> QED
      BY <1>1, <2>1
  <1>5. \A i \in DOMAIN pending'[u] :
          i + 1 \in DOMAIN pending[u] /\ pending'[u][i] = pending[u][i + 1]
    <2>1. \A i \in DOMAIN Tail(pending[u]) :
            i + 1 \in DOMAIN pending[u] /\ Tail(pending[u])[i] = pending[u][i + 1]
      BY <1>1, Popped
    <2> QED
      BY <1>1, <2>1
  <1>6. ASSUME NEW n \in Int, NEW c \in Ids, ChatAhead(u, n, c, opened[c])
        PROVE  ChatAhead(u, n - 1, c, opened[c])'
    <2>1. PICK j : j = opened[c]
      OBVIOUS
    <2>2. ChatAhead(u, n - 1, c, j)'
      BY <1>6, <2>1, PopAhead
    <2> QED
      BY <2>1, <2>2
  <1>7. ASSUME NEW x \in Users, x # u, NEW n \in Int, NEW c \in Ids,
               ChatAhead(x, n, c, opened[c])
        PROVE  ChatAhead(x, n, c, opened[c])'
    <2>1. PICK j : j = opened[c]
      OBVIOUS
    <2>2. ChatAhead(x, n, c, j)'
      BY <1>7, <2>1, PopAhead
    <2> QED
      BY <2>1, <2>2
  <1>8. ASSUME NEW x \in Users, NEW h, HelprComing(x, h)
        PROVE  HelprComing(x, h)'
    <2>1. CASE x # u
      <3>1. pending'[x] = pending[x]
        BY <1>1, <2>1
      <3> QED
        BY <1>8, <3>1 DEF HelprComing, Queued
    <2>2. CASE x = u
      <3>1. h \in helprs' \/ \E i \in Queued(u, "helpr")' : pending'[u][i].helpr = h
        <4>1. CASE h \in helprs
          BY <4>1
        <4>2. CASE \E i \in Queued(u, "helpr") : pending[u][i].helpr = h
          <5>1. PICK i \in DOMAIN pending[u] :
                  pending[u][i].op = "helpr" /\ pending[u][i].helpr = h
            BY <4>2 DEF Queued
          <5>2. CASE i = 1
            BY <1>2, <5>1, <5>2
          <5>3. CASE i # 1
            <6>1. /\ i - 1 \in DOMAIN pending'[u]
                  /\ pending'[u][i - 1].op = "helpr" /\ pending'[u][i - 1].helpr = h
              BY <1>4, <5>1, <5>3
            <6> QED
              BY <6>1 DEF Queued
          <5> QED
            BY <5>2, <5>3
        <4> QED
          BY <1>8, <2>2, <4>1, <4>2 DEF HelprComing
      <3>2. h \in acceptedJobs'
            \/ \E i \in Queued(u, "acceptedJob")' : pending'[u][i].helpr = h
        <4>1. CASE h \in acceptedJobs
          BY <4>1
        <4>2. CASE \E i \in Queued(u, "acceptedJob") : pending[u][i].helpr = h
          <5>1. PICK i \in DOMAIN pending[u] :
                  pending[u][i].op = "acceptedJob" /\ pending[u][i].helpr = h
            BY <4>2 DEF Queued
          <5>2. CASE i = 1
            BY <1>2, <5>1, <5>2
          <5>3. CASE i # 1
            <6>1. /\ i - 1 \in DOMAIN pending'[u]
                  /\ pending'[u][i - 1].op = "acceptedJob"
                  /\ pending'[u][i - 1].helpr = h
              BY <1>4, <5>1, <5>3
            <6> QED
              BY <6>1 DEF Queued
          <5> QED
            BY <5>2, <5>3
        <4> QED
          BY <1>8, <2>2, <4>1, <4>2 DEF HelprComing
      <3> QED
        BY <2>2, <3>1, <3>2 DEF HelprComing
    <2> QED
      BY <2>1, <2>2
  <1>9. \A c : HelprFor(f, c)' = HelprFor(f, c)
    BY DEF HelprFor
  <1>10. ASSUME NEW c \in accepted'
         PROVE  Recorded(f, c)'
    <2>1. CASE c \in accepted
      <3>1. Recorded(f, c) /\ c \in Ids
        BY <2>1 DEF Signed, TypeOK
      <3> QED
        BY <1>8, <1>9, <3>1 DEF Recorded
    <2>2. CASE w.op = "accept" /\ c = w.chat
      <3>1. 1 \in Queued(u, "accept") /\ c \in Ids
        BY <1>2, <1>3, <2>2, WriteFields DEF Queued
      <3>2. AcceptQueued(f, u, 1)
        BY <3>1 DEF Signed
      <3>3. /\ opened[c] # NoJob /\ ChatAhead(u, 0, c, opened[c])
            /\ 2 \in Queued(u, "helpr") /\ pending[u][2].helpr = HelprFor(f, c)
            /\ 3 \in Queued(u, "acceptedJob") /\ pending[u][3].helpr = HelprFor(f, c)
        BY <1>2, <2>2, <3>2 DEF AcceptQueued
      <3>4. chatJob[c] = opened[c]
        <4>1. \A i \in DOMAIN pending[u] : ~ (i <= 0)
          BY <1>1
        <4> QED
          BY <3>3, <4>1 DEF ChatAhead, Queued
      <3>5. HelprComing(u, HelprFor(f, c))
        BY <3>3 DEF HelprComing
      <3> QED
        BY <1>8, <1>9, <3>1, <3>3, <3>4, <3>5 DEF Recorded
    <2> QED
      BY <1>10, <2>1, <2>2
  <1>11. ASSUME NEW i \in Queued(u, "accept")'
         PROVE  AcceptQueued(f, u, i)'
    <2>1. /\ i + 1 \in Queued(u, "accept") /\ i \in Int
          /\ pending'[u][i] = pending[u][i + 1] /\ pending[u][i + 1] \in Write
      <3>1. i \in DOMAIN pending'[u] /\ pending'[u][i].op = "accept"
        BY <1>11 DEF Queued
      <3>2. i \in Int
        BY <1>1, <3>1
      <3> QED
        BY <1>3, <1>5, <3>1, <3>2 DEF Queued
    <2>2. AcceptQueued(f, u, i + 1)
      BY <2>1 DEF Signed
    <2> PICK c \in Ids : c = pending[u][i + 1].chat
      BY <2>1, WriteFields DEF Queued
    <2>3. /\ opened[c] # NoJob /\ ChatAhead(u, i, c, opened[c])
          /\ i + 2 \in Queued(u, "helpr") /\ pending[u][i + 2].helpr = HelprFor(f, c)
          /\ i + 3 \in Queued(u, "acceptedJob")
          /\ pending[u][i + 3].helpr = HelprFor(f, c)
      <3>1. (i + 1) - 1 = i /\ (i + 1) + 1 = i + 2 /\ (i + 1) + 2 = i + 3
        BY <2>1
      <3> QED
        BY <2>2, <3>1 DEF AcceptQueued
    <2>4. ChatAhead(u, i - 1, c, opened[c])'
      BY <1>6, <2>1, <2>3
    <2>5. i + 2 # 1 /\ i + 3 # 1 /\ (i + 2) - 1 = i + 1 /\ (i + 3) - 1 = i + 2
      <3>1. i >= 1
        BY <1>1, <1>11 DEF Queued
      <3> QED
        BY <2>1, <3>1
    <2>6. /\ i + 1 \in Queued(u, "helpr")' /\ pending'[u][i + 1] = pending[u][i + 2]
          /\ i + 2 \in Queued(u, "acceptedJob")'
          /\ pending'[u][i + 2] = pending[u][i + 3]
      BY <1>4, <2>3, <2>5 DEF Queued
    <2> QED
      BY <1>9, <2>1, <2>3, <2>4, <2>6 DEF AcceptQueued
  <1>12. ASSUME NEW x \in Users, x # u, NEW i \in Queued(x, "accept")'
         PROVE  AcceptQueued(f, x, i)'
    <2>1. i \in Queued(x, "accept") /\ pending'[x] = pending[x] /\ i - 1 \in Int
          /\ pending[x][i].chat \in Ids
      <3>1. pending'[x] = pending[x] /\ pending[x] \in Seq(Write)
        BY <1>1, <1>12 DEF TypeOK
      <3>2. i \in DOMAIN pending[x] /\ pending[x][i].op = "accept"
        BY <1>12, <3>1 DEF Queued
      <3>3. pending[x][i] \in Write /\ i - 1 \in Int
        BY <3>1, <3>2
      <3> QED
        BY <3>1, <3>2, <3>3, WriteFields DEF Queued
    <2>2. AcceptQueued(f, x, i)
      BY <2>1 DEF Signed
    <2>3. ChatAhead(x, i - 1, pending[x][i].chat, opened[pending[x][i].chat])'
      <3>1. PICK c \in Ids : c = pending[x][i].chat
        BY <2>1
      <3>2. ChatAhead(x, i - 1, c, opened[c])
        BY <2>2, <3>1 DEF AcceptQueued
      <3>3. ChatAhead(x, i - 1, c, opened[c])'
        BY <1>7, <1>12, <2>1, <3>2
      <3> QED
        BY <2>1, <3>1, <3>3
    <2> QED
      BY <1>9, <2>1, <2>2, <2>3 DEF AcceptQueued, Queued
  <1>13. ASSUME NEW x \in Users
         PROVE  ScreenAhead(x)'
    <2> SUFFICES ASSUME screen[x] # NoScreen
                 PROVE  ChatAhead(x, Len(pending[x]), screen[x].chat, screen[x].job)'
      BY DEF ScreenAhead
    <2>1. PICK c \in Ids : c = screen[x].chat
      BY DEF TypeOK, Screen
    <2>2. opened[c] = screen[x].job /\ opened'[c] = opened[c]
      BY <2>1 DEF Paired, ScreenPaired, Joined
    <2>3. PICK n \in Int : n = Len(pending[x])
      BY DEF TypeOK
    <2>4. ChatAhead(x, n, c, opened[c])
      BY <2>1, <2>2, <2>3 DEF Signed, ScreenAhead
    <2>5. CASE x = u
      <3>1. ChatAhead(u, n - 1, c, opened[c])' /\ Len(pending'[u]) = n - 1
        BY <1>2, <1>6, <2>3, <2>4, <2>5
      <3> QED
        BY <2>1, <2>2, <2>5, <3>1
    <2>6. CASE x # u
      <3>1. ChatAhead(x, n, c, opened[c])' /\ pending'[x] = pending[x]
        BY <1>1, <1>7, <2>4, <2>6
      <3> QED
        BY <2>1, <2>2, <2>3, <3>1
    <2> QED
      BY <2>5, <2>6
  <1> QED
    BY <1>10, <1>11, <1>12, <1>13 DEF Signed

LEMMA AcknowledgeSigned ==
    ASSUME TypeOK, ConstantsAssumption, Backed, NEW f, Paired(f), Signed(f),
           NEW u \in Users, Acknowledge(u)
    PROVE  Signed(f)'
  <1> PICK w : w = Head(pending[u])
    OBVIOUS
  <1>1. /\ pending[u] # << >> /\ pending' = [pending EXCEPT ![u] = Tail(@)]
        /\ UNCHANGED <<opened, screen>>
        /\ bids \subseteq bids' /\ helprs \subseteq helprs'
        /\ acceptedJobs \subseteq acceptedJobs'
        /\ w.op = "bid" => w.bid \in bids'
        /\ w.op = "helpr" => w.helpr \in helprs'
        /\ w.op = "acceptedJob" => w.helpr \in acceptedJobs'
        /\ \A c \in accepted' : c \in accepted \/ (w.op = "accept" /\ c = w.chat)
        /\ chatJob' = IF w.op = "chat" THEN [chatJob EXCEPT ![w.chat] = w.job]
                      ELSE chatJob
    BY DEF Acknowledge
  <1>2. w.op = "chat" => w.chat \in Ids /\ opened[w.chat] = w.job
    <2>1. pending[u] \in Seq(Write)
      BY DEF TypeOK
    <2>2. w = pending[u][1] /\ 1 \in DOMAIN pending[u] /\ w \in Write
      BY <1>1, <2>1, Popped, QueueTypes
    <2> QED
      BY <2>2, WriteFields DEF Backed, WriteBacked
  <1>3. w.op = "chat" => chatJob'[w.chat] = w.job
    BY <1>1, <1>2 DEF TypeOK
  <1>4. \A c \in Ids : chatJob[c] = opened[c] => chatJob'[c] = opened[c]
    BY <1>1, <1>2 DEF TypeOK
  <1> QED
    BY <1>1, <1>3, <1>4, PopSigned

LEMMA RefuseSigned ==
    ASSUME TypeOK, ConstantsAssumption, Recording, Backed, NEW f, Paired(f), Signed(f),
           NEW u \in Users, Refuse(u)
    PROVE  Signed(f)'
  <1> PICK w : w = Head(pending[u])
    OBVIOUS
  <1>1. /\ pending[u] # << >> /\ pending' = [pending EXCEPT ![u] = Tail(@)]
        /\ UNCHANGED <<opened, screen, bids, helprs, acceptedJobs, accepted, chatJob>>
        /\ w.op \notin {"chat", "bid", "helpr", "acceptedJob"}
    BY DEF Refuse, Recording, Sound, server
  <1> QED
    BY <1>1, PopSigned

LEMMA NextSigned ==
    ASSUME TypeOK, TypeOK', ConstantsAssumption, Recording, Backed,
           NEW f, Paired(f), Signed(f), NEW g, Keeps(f, g), Paired(g)', [Next]_vars
    PROVE  Signed(g)'
  <1>1. \A c \in Ids : opened[c] # NoJob => opened'[c] = opened[c]
    BY OpenedStays
  <1>2. ASSUME NEW u \in Users, UNCHANGED <<server, pending>>,
               \A x \in Users : screen'[x] \in {screen[x], NoScreen}
        PROVE  Signed(g)'
    BY <1>1, <1>2, IdleSigned
  <1>3. ASSUME opened' = opened, Signed(f)'
        PROVE  Signed(g)'
    <2>1. \A c \in Ids : opened[c] # NoJob => HelprFor(f, c)' = HelprFor(g, c)'
      BY DEF Keeps, HelprFor
    <2>2. ASSUME NEW c \in accepted'
          PROVE  Recorded(g, c)'
      <3>1. Recorded(f, c)' /\ c \in Ids
        BY <1>3, <2>2 DEF Signed, TypeOK
      <3> QED
        BY <1>3, <2>1, <3>1 DEF Recorded
    <2>3. ASSUME NEW u \in Users, NEW i \in Queued(u, "accept")'
          PROVE  AcceptQueued(g, u, i)'
      <3>1. AcceptQueued(f, u, i)'
        BY <1>3, <2>3 DEF Signed
      <3>2. pending'[u][i].chat \in Ids
        <4>1. i \in DOMAIN pending'[u] /\ pending'[u][i].op = "accept"
          BY <2>3 DEF Queued
        <4>2. pending'[u][i] \in Write
          BY <4>1 DEF TypeOK
        <4> QED
          BY <4>1, <4>2, WriteFields
      <3> QED
        BY <1>3, <2>1, <3>1, <3>2 DEF AcceptQueued
    <2> QED
      BY <1>3, <2>2, <2>3 DEF Signed
  <1>4. ASSUME NEW u \in Users, UserStep(u)
        PROVE  Signed(g)'
    <2>1. opened' = opened
      BY <1>4 DEF UserStep, OpenConversation, Cancel, PlaceBid, Counter, Accept, Reject
    <2>2. CASE Cancel(u) \/ (\E j \in Jobs : PlaceBid(u, j)) \/ Reject(u)
      BY <1>2, <2>2 DEF Cancel, PlaceBid, Reject, CloseScreen, TypeOK
    <2>3. CASE \E v \in SeenConvs(u) : OpenConversation(u, v)
      BY <1>3, <2>1, <2>3, OpenConversationSigned
    <2>4. CASE Counter(u)
      BY <1>3, <2>1, <2>4, CounterSigned
    <2>5. CASE Accept(u)
      BY <1>3, <2>1, <2>5, AcceptSigned
    <2> QED
      BY <1>4, <2>2, <2>3, <2>4, <2>5 DEF UserStep
  <1>5. ASSUME NEW u \in Users, NEW q \in calls[u],
               CreateFirstBid(u, q) \/ DieOnOwnJob(u, q)
        PROVE  Signed(g)'
    BY <1>1, <1>5, CreateFirstBidSigned, DieOnOwnJobSigned DEF Recording
  <1>6. ASSUME NEW u \in Users, NEW q \in calls[u],
               EnterConversation(u, q) \/ MissPoster(u, q) \/ LeaveConversation(u, q)
        PROVE  Signed(g)'
    <2>1. opened' = opened
      BY <1>6 DEF EnterConversation, MissPoster, LeaveConversation
    <2> QED
      BY <1>3, <1>6, <2>1, LookUpSigned
  <1>7. ASSUME NEW u \in Users, Acknowledge(u) \/ Refuse(u)
        PROVE  Signed(g)'
    <2>1. opened' = opened
      BY <1>7 DEF Acknowledge, Refuse
    <2> QED
      BY <1>3, <1>7, <2>1, AcknowledgeSigned, RefuseSigned
  <1>8. ASSUME NEW u \in Users, Crash(u)
        PROVE  FALSE
    BY <1>8 DEF Crash, Recording, TypeOK
  <1>9. CASE UNCHANGED vars
    <2>1. UNCHANGED <<opened, accepted, chatJob, helprs, acceptedJobs, pending, screen>>
      BY <1>9 DEF vars, server
    <2>2. \A c \in accepted : Recorded(f, c)'
      BY <2>1 DEF Signed, Recorded, HelprComing, HelprFor, Queued
    <2>3. \A u \in Users : \A i \in Queued(u, "accept") : AcceptQueued(f, u, i)'
      BY <2>1 DEF Signed, AcceptQueued, ChatAhead, HelprFor, Queued
    <2>4. \A u \in Users : ScreenAhead(u)'
      BY <2>1 DEF Signed, ScreenAhead, ChatAhead, Queued
    <2>5. Signed(f)'
      BY <2>1, <2>2, <2>3, <2>4 DEF Signed, Queued
    <2> QED
      BY <1>3, <2>1, <2>5
  <1> QED
    BY <1>4, <1>5, <1>6, <1>7, <1>8, <1>9 DEF Next, Answer

LEMMA AlwaysSigned == Recording /\ Spec => [](\E f : Paired(f) /\ Signed(f))
  <1> DEFINE Inv == Recording /\ \E f : Paired(f) /\ Signed(f)
  <1>1. Recording /\ Init => Inv
    BY ConstantsAssumption, InitPaired, InitSigned
  <1>2. TypeOK /\ TypeOK' /\ Backed /\ Inv /\ [Next]_vars => Inv'
    <2> SUFFICES ASSUME TypeOK, TypeOK', Backed, Recording, [Next]_vars,
                        NEW f, Paired(f), Signed(f)
                 PROVE  Recording' /\ \E g : Paired(g)' /\ Signed(g)'
      OBVIOUS
    <2>1. Recording'
      BY DEF Recording, Sound
    <2>2. PICK g : Paired(g)' /\ Keeps(f, g)
      BY ConstantsAssumption, NextPaired DEF Recording, Sound, DistinctNumbers
    <2> QED
      BY <2>1, <2>2, ConstantsAssumption, NextSigned
  <1>3. Inv => \E f : Paired(f) /\ Signed(f)
    OBVIOUS
  <1>4. Recording => Sound
    BY DEF Recording
  <1> HIDE DEF Inv
  <1> QED
    BY <1>1, <1>2, <1>3, <1>4, TypeCorrect, AlwaysBacked, PTL DEF Spec

(* An accepted chat's bidder is its job's helpr and has the job among the  *)
(* accepted ones, or both writes are on their way in one phone's queue:    *)
(* whichever of the two accepted, whatever else is under way               *)
(* (BidViewController:188, DatabaseHelper:433).                            *)
THEOREM AcceptancesAreComplete == Recording /\ Spec => []AcceptanceIsComplete
  <1>1. TypeOK /\ (\E f : Paired(f) /\ Signed(f)) => AcceptanceIsComplete
    <2> SUFFICES ASSUME TypeOK, NEW f, Paired(f), Signed(f), NEW c \in accepted
                 PROVE  \E h \in JobHelpr :
                          /\ h.job = chatJob[c]
                          /\ \A v \in convs : v.chat = c =>
                               h.user = BidderFor(v.owner, v.job, v.partner)
                          /\ \E u \in Users : HelprComing(u, h)
      BY DEF AcceptanceIsComplete
    <2>1. PICK h : h = HelprFor(f, c)
      OBVIOUS
    <2>2. c \in Ids /\ Recorded(f, c)
      BY DEF Signed, TypeOK
    <2>3. PICK u \in Users : HelprComing(u, h)
      BY <2>1, <2>2 DEF Recorded
    <2>4. h \in JobHelpr
      <3>1. CASE h \in helprs
        BY <3>1 DEF TypeOK
      <3>2. CASE \E i \in Queued(u, "helpr") : pending[u][i].helpr = h
        <4>1. PICK i \in DOMAIN pending[u] :
                pending[u][i].op = "helpr" /\ pending[u][i].helpr = h
          BY <3>2 DEF Queued
        <4>2. pending[u][i] \in Write
          BY <4>1 DEF TypeOK
        <4> QED
          BY <4>1, <4>2, WriteFields
      <3> QED
        BY <2>3, <3>1, <3>2 DEF HelprComing
    <2>5. h.job = chatJob[c] /\ h.user = f[c]
      BY <2>1, <2>2 DEF Recorded, HelprFor
    <2>6. \A v \in convs : v.chat = c => h.user = BidderFor(v.owner, v.job, v.partner)
      BY <2>5 DEF Paired, OfChat, Parties, BidderFor
    <2> QED
      BY <2>3, <2>4, <2>5, <2>6
  <1> QED
    BY <1>1, AlwaysSigned, TypeCorrect, PTL

-----------------------------------------------------------------------------
(* Why a bid ends in both lists: while a chat has a conversation in a list,*)
(* in a queue or a look-up under way that will enter it, it has one for    *)
(* each of its two users.  The steps between hand it from the look-up to   *)
(* the queue and from the queue to the server; an answer that finds the    *)
(* conversation there has nothing left to enter.  Only a bidder's look-up  *)
(* can end in nothing, when the poster's document cannot be got (missed).  *)

(* The server takes what the lists need.                                   *)
Listing ==
    /\ DistinctNumbers
    /\ "message" \notin Refusable /\ "conv" \notin Refusable

(* A phone loses its queue or a look-up for a job that is not its user's.  *)
LosesLookUp ==
    \E u \in Users :
        \/ Crash(u)
        \/ /\ \E q \in calls[u] : DieOnOwnJob(u, q)
           /\ \E q \in calls[u] : q.kind \in {"own", "poster"} /\ PosterOf[q.job] # u

(* Documents that are on the server or in a queue.                         *)
Waits(u, w) == \E i \in DOMAIN pending[u] : pending[u][i] = w

ConvWrite(v) == [op |-> "conv", conv |-> v]
MessageWrite(m) == [op |-> "message", message |-> m]
BidWrite(b) == [op |-> "bid", bid |-> b]

SentConv(v) == v \in convs \/ \E u \in Users : Waits(u, ConvWrite(v))
SentMessage(m) == m \in messages \/ \E u \in Users : Waits(u, MessageWrite(m))
SentBid(b) == b \in bids \/ \E u \in Users : Waits(u, BidWrite(b))

Enters(q) == q.kind \in {"own", "poster"}

Coming(c, o) ==
    \/ \E v \in ConvDoc : SentConv(v) /\ v.chat = c /\ v.owner = o
    \/ \E u \in Users : \E q \in calls[u] : Enters(q) /\ q.chat = c /\ q.owner = o

Both(f, c) ==
    /\ c \in Ids /\ opened[c] # NoJob
    /\ Coming(c, PosterOf[opened[c]])
    /\ Coming(c, f[c]) \/ c \in missed

BidEntered(f, b) ==
    \E m \in MessageDoc :
        /\ SentMessage(m) /\ m.id = b.id
        /\ opened[m.chat] = b.job /\ f[m.chat] = b.bidder
        /\ Both(f, m.chat)

Entering(f) ==
    /\ \A v \in ConvDoc : SentConv(v) => Both(f, v.chat)
    /\ \A u \in Users : \A q \in calls[u] : Enters(q) => Both(f, q.chat)
    /\ \A u \in Users : screen[u] # NoScreen => Both(f, screen[u].chat)
    /\ \A b \in BidDoc : SentBid(b) => BidEntered(f, b)

LEMMA InitEntering ==
    ASSUME Init, NEW f
    PROVE  Entering(f)
  <1>1. \A u \in Users : \A w : ~ Waits(u, w)
    BY DEF Init, Waits
  <1> QED
    BY <1>1 DEF Init, Entering, SentConv, SentBid

-----------------------------------------------------------------------------
(* What the queues hold after an append and after the head is gone.        *)
LEMMA ExtendWaits ==
    ASSUME TypeOK, NEW u \in Users, NEW t \in Seq(Write),
           pending' = [pending EXCEPT ![u] = @ \o t]
    PROVE  /\ \A x \in Users : \A w : Waits(x, w) => Waits(x, w)'
           /\ \A x \in Users : \A w :
                Waits(x, w)' => Waits(x, w) \/ \E i \in DOMAIN t : t[i] = w
           /\ \A i \in DOMAIN t : Waits(u, t[i])'
  <1>1. /\ pending[u] \in Seq(Write) /\ pending'[u] = pending[u] \o t
        /\ \A x \in Users \ {u} : pending'[x] = pending[x]
    BY DEF TypeOK
  <1>2. /\ \A i \in DOMAIN pending[u] :
             i \in DOMAIN pending'[u] /\ pending'[u][i] = pending[u][i]
        /\ \A i \in DOMAIN t : \E k \in DOMAIN pending'[u] : pending'[u][k] = t[i]
        /\ \A i \in DOMAIN pending'[u] :
             \/ i \in DOMAIN pending[u] /\ pending'[u][i] = pending[u][i]
             \/ \E k \in DOMAIN t : pending'[u][i] = t[k]
    <2> DEFINE s == pending[u] \o t
    <2>1. \A i \in DOMAIN pending[u] : i \in DOMAIN s /\ s[i] = pending[u][i]
      BY <1>1, Extended
    <2>2. ASSUME NEW i \in DOMAIN t PROVE \E k \in DOMAIN s : s[k] = t[i]
      <3>1. Len(pending[u]) + i \in DOMAIN s /\ s[Len(pending[u]) + i] = t[i]
        BY <1>1, Extended
      <3> QED
        BY <3>1
    <2>3. \A i \in DOMAIN s : i \in DOMAIN pending[u] \/ \E k \in DOMAIN t : s[i] = t[k]
      BY <1>1, Extended
    <2> QED
      BY <1>1, <2>1, <2>2, <2>3
  <1>3. \A w : Waits(u, w) => Waits(u, w)'
    BY <1>2 DEF Waits
  <1>4. \A w : Waits(u, w)' => Waits(u, w) \/ \E i \in DOMAIN t : t[i] = w
    BY <1>2 DEF Waits
  <1>5. \A i \in DOMAIN t : Waits(u, t[i])'
    BY <1>2 DEF Waits
  <1>6. \A x \in Users \ {u} : \A w : Waits(x, w)' <=> Waits(x, w)
    BY <1>1 DEF Waits
  <1> QED
    BY <1>3, <1>4, <1>5, <1>6

LEMMA PopWaits ==
    ASSUME TypeOK, NEW u \in Users, pending[u] # << >>,
           pending' = [pending EXCEPT ![u] = Tail(@)]
    PROVE  /\ \A x \in Users : \A w :
                Waits(x, w) => Waits(x, w)' \/ w = Head(pending[u])
           /\ \A x \in Users : \A w : Waits(x, w)' => Waits(x, w)
           /\ Waits(u, Head(pending[u]))
  <1>1. /\ pending[u] \in Seq(Write) /\ pending'[u] = Tail(pending[u])
        /\ \A x \in Users \ {u} : pending'[x] = pending[x]
    BY DEF TypeOK
  <1>2. /\ \A i \in DOMAIN pending'[u] : \E k \in DOMAIN pending[u] :
             pending'[u][i] = pending[u][k]
        /\ \A i \in DOMAIN pending[u] : pending[u][i] = Head(pending[u])
             \/ \E k \in DOMAIN pending'[u] : pending'[u][k] = pending[u][i]
        /\ \E k \in DOMAIN pending[u] : pending[u][k] = Head(pending[u])
    <2> DEFINE s == Tail(pending[u])
    <2>1. \A i \in DOMAIN s : \E k \in DOMAIN pending[u] : s[i] = pending[u][k]
      BY <1>1, Popped
    <2>2. \A i \in DOMAIN pending[u] : pending[u][i] = Head(pending[u])
             \/ \E k \in DOMAIN s : s[k] = pending[u][i]
      BY <1>1, Popped
    <2>3. \E k \in DOMAIN pending[u] : pending[u][k] = Head(pending[u])
      BY <1>1, Popped
    <2> QED
      BY <1>1, <2>1, <2>2, <2>3
  <1>3. \A w : Waits(u, w) => Waits(u, w)' \/ w = Head(pending[u])
    BY <1>2 DEF Waits
  <1>4. \A w : Waits(u, w)' => Waits(u, w)
    BY <1>2 DEF Waits
  <1>5. Waits(u, Head(pending[u]))
    BY <1>2 DEF Waits
  <1>6. \A x \in Users \ {u} : \A w : Waits(x, w)' <=> Waits(x, w)
    BY <1>1 DEF Waits
  <1> QED
    BY <1>3, <1>4, <1>5, <1>6

LEMMA ExtendSent ==
    ASSUME TypeOK, UNCHANGED server, NEW u \in Users, NEW t \in Seq(Write),
           pending' = [pending EXCEPT ![u] = @ \o t]
    PROVE  /\ \A v : /\ SentConv(v) => SentConv(v)'
                     /\ SentConv(v)' => SentConv(v) \/ \E i \in DOMAIN t : t[i] = ConvWrite(v)
           /\ \A m : SentMessage(m) => SentMessage(m)'
           /\ \A b : SentBid(b)' => SentBid(b) \/ \E i \in DOMAIN t : t[i] = BidWrite(b)
           /\ \A i \in DOMAIN t : /\ \A v : t[i] = ConvWrite(v) => SentConv(v)'
                                  /\ \A m : t[i] = MessageWrite(m) => SentMessage(m)'
  <1>1. convs' = convs /\ messages' = messages /\ bids' = bids
    BY DEF server
  <1>2. ASSUME NEW v
        PROVE  /\ SentConv(v) => SentConv(v)'
               /\ SentConv(v)' => SentConv(v) \/ \E i \in DOMAIN t : t[i] = ConvWrite(v)
               /\ \A i \in DOMAIN t : t[i] = ConvWrite(v) => SentConv(v)'
    <2>1. PICK w : w = ConvWrite(v)
      OBVIOUS
    <2>2. /\ SentConv(v) <=> v \in convs \/ \E x \in Users : Waits(x, w)
          /\ SentConv(v)' <=> v \in convs' \/ \E x \in Users : Waits(x, w)'
      BY <2>1 DEF SentConv, ConvWrite
    <2>3. SentConv(v) => SentConv(v)'
      BY <1>1, <2>2, ExtendWaits
    <2>4. SentConv(v)' => SentConv(v) \/ \E i \in DOMAIN t : t[i] = w
      BY <1>1, <2>2, ExtendWaits
    <2>5. \A i \in DOMAIN t : t[i] = w => SentConv(v)'
      BY <2>2, ExtendWaits
    <2> QED
      BY <2>1, <2>3, <2>4, <2>5
  <1>3. ASSUME NEW m
        PROVE  /\ SentMessage(m) => SentMessage(m)'
               /\ \A i \in DOMAIN t : t[i] = MessageWrite(m) => SentMessage(m)'
    <2>1. PICK w : w = MessageWrite(m)
      OBVIOUS
    <2>2. /\ SentMessage(m) <=> m \in messages \/ \E x \in Users : Waits(x, w)
          /\ SentMessage(m)' <=> m \in messages' \/ \E x \in Users : Waits(x, w)'
      BY <2>1 DEF SentMessage, MessageWrite
    <2>3. SentMessage(m) => SentMessage(m)'
      BY <1>1, <2>2, ExtendWaits
    <2>4. \A i \in DOMAIN t : t[i] = w => SentMessage(m)'
      BY <2>2, ExtendWaits
    <2> QED
      BY <2>1, <2>3, <2>4
  <1>4. ASSUME NEW b, SentBid(b)'
        PROVE  SentBid(b) \/ \E i \in DOMAIN t : t[i] = BidWrite(b)
    <2>1. PICK w : w = BidWrite(b)
      OBVIOUS
    <2>2. /\ SentBid(b) <=> b \in bids \/ \E x \in Users : Waits(x, w)
          /\ b \in bids' \/ \E x \in Users : Waits(x, w)'
      BY <1>4, <2>1 DEF SentBid, BidWrite
    <2> QED
      BY <1>1, <2>1, <2>2, ExtendWaits
  <1> QED
    BY <1>2, <1>3, <1>4

(* The head w goes to the server, or is refused and no list needs it.      *)
Takes(w) ==
    /\ convs \subseteq convs' /\ messages \subseteq messages'
    /\ \A v \in convs' : v \in convs \/ w = ConvWrite(v)
    /\ \A b \in bids' : b \in bids \/ w = BidWrite(b)
    /\ \A v : w = ConvWrite(v) => v \in convs'
    /\ \A m : w = MessageWrite(m) => m \in messages'

LEMMA PopSent ==
    ASSUME TypeOK, NEW u \in Users, pending[u] # << >>,
           pending' = [pending EXCEPT ![u] = Tail(@)],
           NEW w, w = Head(pending[u]), Takes(w)
    PROVE  /\ \A v : SentConv(v)' <=> SentConv(v)
           /\ \A m : SentMessage(m) => SentMessage(m)'
           /\ \A b : SentBid(b)' => SentBid(b)
  <1>1. ASSUME NEW v PROVE SentConv(v)' <=> SentConv(v)
    <2>1. PICK x : x = ConvWrite(v)
      OBVIOUS
    <2>2. /\ SentConv(v) <=> v \in convs \/ \E y \in Users : Waits(y, x)
          /\ SentConv(v)' <=> v \in convs' \/ \E y \in Users : Waits(y, x)'
      BY <2>1 DEF SentConv, ConvWrite
    <2> QED
      BY <2>1, <2>2, PopWaits DEF Takes
  <1>2. ASSUME NEW m, SentMessage(m) PROVE SentMessage(m)'
    <2>1. PICK x : x = MessageWrite(m)
      OBVIOUS
    <2>2. /\ m \in messages \/ \E y \in Users : Waits(y, x)
          /\ SentMessage(m)' <=> m \in messages' \/ \E y \in Users : Waits(y, x)'
      BY <1>2, <2>1 DEF SentMessage, MessageWrite
    <2> QED
      BY <2>1, <2>2, PopWaits DEF Takes
  <1>3. ASSUME NEW b, SentBid(b)' PROVE SentBid(b)
    <2>1. PICK x : x = BidWrite(b)
      OBVIOUS
    <2>2. /\ SentBid(b) <=> b \in bids \/ \E y \in Users : Waits(y, x)
          /\ b \in bids' \/ \E y \in Users : Waits(y, x)'
      BY <1>3, <2>1 DEF SentBid, BidWrite
    <2> QED
      BY <2>1, <2>2, PopWaits DEF Takes
  <1> QED
    BY <1>1, <1>2, <1>3

(* A conversation a phone sees is one that was sent.                       *)
LEMMA SeenSent ==
    ASSUME TypeOK, NEW u \in Users, NEW v \in SeenConvs(u)
    PROVE  v \in ConvDoc /\ SentConv(v)
  <1>1. v \in ConvDoc
    BY SeenTypes
  <1>2. CASE v \in convs
    BY <1>1, <1>2 DEF SentConv
  <1>3. CASE \E i \in Queued(u, "conv") : v = pending[u][i].conv
    <2>1. PICK i \in DOMAIN pending[u] :
            v = pending[u][i].conv /\ pending[u][i].op = "conv"
      BY <1>3 DEF Queued
    <2>2. pending[u][i] \in Write
      BY <2>1 DEF TypeOK
    <2>3. pending[u][i] = ConvWrite(v)
      BY <2>1, <2>2 DEF Write, ConvWrite
    <2> QED
      BY <1>1, <2>1, <2>3 DEF SentConv, Waits
  <1> QED
    BY <1>1, <1>2, <1>3 DEF SeenConvs

-----------------------------------------------------------------------------
(* What every step keeps: documents that are sent stay sent, and a look-up *)
(* goes only when something else puts its chat in that list, or, in the    *)
(* bidder's, when it missed the poster.                                    *)
Misses(c, o) == o # PosterOf[opened[c]] /\ c \in missed'

Carries ==
    /\ missed \subseteq missed'
    /\ \A c \in Ids : opened[c] # NoJob => opened'[c] = opened[c]
    /\ \A v \in ConvDoc : SentConv(v) => SentConv(v)'
    /\ \A m \in MessageDoc : SentMessage(m) => SentMessage(m)'
    /\ \A u \in Users : \A q \in calls[u] :
         Enters(q) => \/ q \in calls'[u] \/ Coming(q.chat, q.owner)'
                      \/ Misses(q.chat, q.owner)

LEMMA BothKept ==
    ASSUME Carries, NEW f, NEW g, Keeps(f, g)
    PROVE  /\ \A c, o : Coming(c, o) => Coming(c, o)' \/ Misses(c, o)
           /\ \A c : Both(f, c) => Both(g, c)'
           /\ \A b : BidEntered(f, b) => BidEntered(g, b)'
  <1>1. ASSUME NEW c, NEW o, Coming(c, o)
        PROVE  Coming(c, o)' \/ Misses(c, o)
    <2>1. CASE \E v \in ConvDoc : SentConv(v) /\ v.chat = c /\ v.owner = o
      BY <2>1 DEF Carries, Coming
    <2>2. CASE \E u \in Users : \E q \in calls[u] :
                 Enters(q) /\ q.chat = c /\ q.owner = o
      <3> PICK u \in Users : \E q \in calls[u] : Enters(q) /\ q.chat = c /\ q.owner = o
        BY <2>2
      <3>1. PICK q \in calls[u] : Enters(q) /\ q.chat = c /\ q.owner = o
        OBVIOUS
      <3>2. q \in calls'[u] \/ Coming(c, o)' \/ Misses(c, o)
        BY <3>1 DEF Carries
      <3> QED
        BY <3>1, <3>2 DEF Coming
    <2> QED
      BY <1>1, <2>1, <2>2 DEF Coming
  <1>2. ASSUME NEW c, Both(f, c)
        PROVE  Both(g, c)'
    <2>1. opened'[c] = opened[c] /\ g[c] = f[c] /\ c \in Ids /\ opened[c] # NoJob
      BY <1>2 DEF Both, Carries, Keeps
    <2>2. PICK p, b : p = PosterOf[opened[c]] /\ b = f[c]
      OBVIOUS
    <2>3. Coming(c, p)' /\ (Coming(c, b)' \/ c \in missed')
      BY <1>1, <1>2, <2>2 DEF Both, Misses, Carries
    <2> QED
      BY <2>1, <2>2, <2>3 DEF Both
  <1>3. ASSUME NEW b, BidEntered(f, b)
        PROVE  BidEntered(g, b)'
    <2>1. PICK m \in MessageDoc :
            /\ SentMessage(m) /\ m.id = b.id
            /\ opened[m.chat] = b.job /\ f[m.chat] = b.bidder
            /\ Both(f, m.chat)
      BY <1>3 DEF BidEntered
    <2>2. SentMessage(m)'
      BY <2>1 DEF Carries
    <2>3. opened'[m.chat] = opened[m.chat] /\ g[m.chat] = f[m.chat]
      BY <2>1 DEF Both, Carries, Keeps
    <2>4. Both(g, m.chat)'
      <3>1. PICK c : c = m.chat
        OBVIOUS
      <3> QED
        BY <1>2, <2>1, <3>1
    <2> QED
      BY <2>1, <2>2, <2>3, <2>4 DEF BidEntered
  <1> QED
    BY <1>1, <1>2, <1>3

LEMMA EnteringKept ==
    ASSUME TypeOK, Carries, NEW f, Entering(f), NEW g, Keeps(f, g),
           \A v \in ConvDoc : SentConv(v)' => SentConv(v) \/ Both(f, v.chat),
           \A x \in Users : \A q \in calls'[x] :
              q \in calls[x] \/ (Enters(q) => Both(g, q.chat)'),
           \A x \in Users : screen'[x] \in {screen[x], NoScreen}
              \/ Both(f, screen'[x].chat),
           \A b \in BidDoc : SentBid(b)' => SentBid(b) \/ BidEntered(g, b)'
    PROVE  Entering(g)'
  <1>1. /\ \A c : Both(f, c) => Both(g, c)'
        /\ \A b : BidEntered(f, b) => BidEntered(g, b)'
    BY BothKept
  <1>2. ASSUME NEW v \in ConvDoc, SentConv(v)' PROVE Both(g, v.chat)'
    <2>1. PICK c : c = v.chat
      OBVIOUS
    <2> QED
      BY <1>1, <1>2, <2>1 DEF Entering
  <1>3. ASSUME NEW x \in Users, NEW q \in calls'[x], Enters(q)
        PROVE  Both(g, q.chat)'
    <2>1. PICK c : c = q.chat
      OBVIOUS
    <2> QED
      BY <1>1, <1>3, <2>1 DEF Entering
  <1>4. ASSUME NEW x \in Users, screen'[x] # NoScreen
        PROVE  Both(g, screen[x].chat)'
    <2>1. Both(f, screen'[x].chat)
      BY <1>4 DEF Entering
    <2>2. PICK c : c = screen'[x].chat
      OBVIOUS
    <2> QED
      BY <1>1, <2>1, <2>2
  <1>5. \A b \in BidDoc : SentBid(b)' => BidEntered(g, b)'
    BY <1>1 DEF Entering
  <1> QED
    BY <1>2, <1>3, <1>4, <1>5 DEF Entering

-----------------------------------------------------------------------------
(* The steps, one lemma each.                                              *)

LEMMA AppendCarries ==
    ASSUME TypeOK, UNCHANGED server, NEW u \in Users, NEW t \in Seq(Write),
           pending' = [pending EXCEPT ![u] = @ \o t], missed' = missed,
           \A c \in Ids : opened[c] # NoJob => opened'[c] = opened[c],
           \A x \in Users : \A q \in calls[x] :
              Enters(q) => q \in calls'[x] \/ Coming(q.chat, q.owner)'
    PROVE  Carries
  BY ExtendSent DEF Carries

(* Steps that change neither documents nor queues.                         *)
LEMMA IdleEntering ==
    ASSUME TypeOK, NEW f, Entering(f), UNCHANGED <<server, pending, opened, missed>>,
           \A x \in Users : \A q \in calls[x] : q \in calls'[x],
           \A x \in Users : \A q \in calls'[x] : q \in calls[x] \/ ~ Enters(q),
           \A x \in Users : screen'[x] \in {screen[x], NoScreen}
              \/ Both(f, screen'[x].chat)
    PROVE  Entering(f)'
  <1>1. UNCHANGED <<convs, messages, bids>>
    BY DEF server
  <1>2. /\ \A v : SentConv(v)' <=> SentConv(v)
        /\ \A m : SentMessage(m)' <=> SentMessage(m)
        /\ \A b : SentBid(b)' <=> SentBid(b)
    BY <1>1 DEF SentConv, SentMessage, SentBid, Waits
  <1>3. Carries /\ Keeps(f, f)
    BY <1>2 DEF Carries, Keeps
  <1> QED
    BY <1>2, <1>3, EnteringKept

(* Writes that are neither conversations nor bids, and no new look-up.     *)
LEMMA PlainEntering ==
    ASSUME TypeOK, NEW f, Entering(f), UNCHANGED server,
           NEW u \in Users, NEW t \in Seq(Write),
           pending' = [pending EXCEPT ![u] = @ \o t], missed' = missed,
           \A i \in DOMAIN t : t[i].op \notin {"conv", "bid"},
           NEW g, Keeps(f, g),
           \A c \in Ids : opened[c] # NoJob => opened'[c] = opened[c],
           \A x \in Users : \A q \in calls[x] :
              Enters(q) => q \in calls'[x] \/ Coming(q.chat, q.owner)',
           \A x \in Users : \A q \in calls'[x] : q \in calls[x],
           \A x \in Users : screen'[x] \in {screen[x], NoScreen}
    PROVE  Entering(g)'
  <1>1. Carries
    BY AppendCarries
  <1>2. ASSUME NEW v, SentConv(v)' PROVE SentConv(v)
    <2>1. \A i \in DOMAIN t : t[i] # ConvWrite(v)
      BY DEF ConvWrite
    <2> QED
      BY <1>2, <2>1, ExtendSent
  <1>3. ASSUME NEW b, SentBid(b)' PROVE SentBid(b)
    <2>1. \A i \in DOMAIN t : t[i] # BidWrite(b)
      BY DEF BidWrite
    <2> QED
      BY <1>3, <2>1, ExtendSent
  <1> QED
    BY <1>1, <1>2, <1>3, EnteringKept

LEMMA OpenConversationEntering ==
    ASSUME TypeOK, NEW f, Entering(f), NEW u \in Users, NEW v \in SeenConvs(u),
           OpenConversation(u, v)
    PROVE  Entering(f)'
  <1>1. /\ UNCHANGED <<server, pending, opened, missed, calls>>
        /\ screen'[u].chat = v.chat
        /\ \A x \in Users \ {u} : screen'[x] = screen[x]
    BY DEF OpenConversation, TypeOK
  <1>2. Both(f, v.chat)
    BY SeenSent DEF Entering
  <1>3. \A x \in Users : screen'[x] \in {screen[x], NoScreen}
          \/ Both(f, screen'[x].chat)
    <2>1. Both(f, screen'[u].chat)
      BY <1>1, <1>2
    <2> QED
      BY <1>1, <2>1
  <1> QED
    BY <1>1, <1>3, IdleEntering

LEMMA TapEntering ==
    ASSUME TypeOK, NEW f, Entering(f), NEW u \in Users,
           Cancel(u) \/ Reject(u) \/ \E j \in Jobs : PlaceBid(u, j)
    PROVE  Entering(f)'
  <1>1. UNCHANGED <<server, pending, opened, missed>>
    BY DEF Cancel, PlaceBid, Reject
  <1>2. \A x \in Users : screen'[x] \in {screen[x], NoScreen}
    BY DEF Cancel, PlaceBid, Reject, CloseScreen, TypeOK
  <1>3. \E asked : /\ calls' = [calls EXCEPT ![u] = @ \cup asked]
                   /\ \A q \in asked : ~ Enters(q)
    <2>1. CASE Cancel(u)
      <3>1. PICK asked : asked = {}
        OBVIOUS
      <3>2. calls' = [calls EXCEPT ![u] = @ \cup asked]
        BY <2>1, <3>1 DEF Cancel, TypeOK
      <3>3. \A q \in asked : ~ Enters(q)
        BY <3>1
      <3> QED
        BY <3>2, <3>3
    <2>2. CASE Reject(u)
      <3> DEFINE s == screen[u]
                 asked ==
            {[kind |-> "reject", n |-> now + 1, chat |-> s.chat, job |-> s.job,
              owner |-> o] : o \in {u, s.partner}}
      <3>1. calls' = [calls EXCEPT ![u] = @ \cup asked]
        BY <2>2 DEF Reject
      <3>2. \A q \in asked : ~ Enters(q)
        BY DEF Enters
      <3> HIDE DEF asked
      <3> QED
        BY <3>1, <3>2
    <2>3. ASSUME NEW j \in Jobs, PlaceBid(u, j)
          PROVE  \E asked : /\ calls' = [calls EXCEPT ![u] = @ \cup asked]
                            /\ \A q \in asked : ~ Enters(q)
      <3> DEFINE asked ==
            {[kind |-> "chatOf", n |-> now + 1, chat |-> 0, job |-> j, owner |-> u]}
      <3>1. calls' = [calls EXCEPT ![u] = @ \cup asked]
        BY <2>3 DEF PlaceBid
      <3>2. \A q \in asked : ~ Enters(q)
        BY DEF Enters
      <3> HIDE DEF asked
      <3> QED
        BY <3>1, <3>2
    <2> QED
      BY <2>1, <2>2, <2>3
  <1>4. /\ \A x \in Users : \A q \in calls[x] : q \in calls'[x]
        /\ \A x \in Users : \A q \in calls'[x] : q \in calls[x] \/ ~ Enters(q)
    BY <1>3 DEF TypeOK
  <1> QED
    BY <1>1, <1>2, <1>4, IdleEntering

LEMMA AcceptEntering ==
    ASSUME TypeOK, NEW f, Entering(f), NEW u \in Users, Accept(u)
    PROVE  Entering(f)'
  <1> PICK s \in Screen : s = screen[u]
    BY DEF Accept, TypeOK
  <1>1. PICK t : /\ t = AcceptWrites(s.chat, HelprOf(u, s))
                 /\ pending' = [pending EXCEPT ![u] = @ \o t]
    BY DEF Accept
  <1>2. t \in Seq(Write) /\ \A i \in DOMAIN t : t[i].op \notin {"conv", "bid"}
    <2>1. HelprOf(u, s) \in JobHelpr
      BY DEF HelprOf, JobHelpr, Screen
    <2>2. /\ [op |-> "accept", chat |-> s.chat] \in Write
          /\ [op |-> "helpr", helpr |-> HelprOf(u, s)] \in Write
          /\ [op |-> "acceptedJob", helpr |-> HelprOf(u, s)] \in Write
      BY <2>1 DEF Write, Screen
    <2> QED
      BY <1>1, <2>2 DEF AcceptWrites
  <1>3. UNCHANGED <<server, opened, missed, calls>>
    BY DEF Accept
  <1>4. \A x \in Users : screen'[x] \in {screen[x], NoScreen}
    BY DEF Accept, CloseScreen, TypeOK
  <1>5. Keeps(f, f)
    BY DEF Keeps
  <1> QED
    BY <1>1, <1>2, <1>3, <1>4, <1>5, PlainEntering

(* The three writes of a createBid.                                        *)
LEMMA BidWritesAre ==
    ASSUME NEW u, NEW j, NEW p, NEW c, NEW n, NEW t,
           t = BidWrites(u, j, p, c, n)
    PROVE  /\ DOMAIN t = 1..3 /\ Len(t) = 3
           /\ t[1].op = "chat"
           /\ t[2] = MessageWrite([id |-> n, chat |-> c, by |-> u])
           /\ t[3] = BidWrite([id |-> n, job |-> j, by |-> u,
                               bidder |-> IF u # PosterOf[j] THEN u ELSE p])
  BY DEF BidWrites, MessageWrite, BidWrite

(* A createBid whose two look-ups cover both users of the chat.            *)
LEMMA BidEntering ==
    ASSUME TypeOK, ConstantsAssumption, NEW f, Entering(f), NEW g, Keeps(f, g),
           UNCHANGED <<server, missed>>,
           \A d \in Ids : opened[d] # NoJob => opened'[d] = opened[d],
           NEW u \in Users, NEW j \in Jobs, NEW p, NEW c \in Ids, NEW n \in Ids,
           u = PosterOf[j] => p \in Users,
           NEW t, t = BidWrites(u, j, p, c, n),
           pending' = [pending EXCEPT ![u] = @ \o t],
           \A x \in Users : \A q \in calls[x] : Enters(q) => q \in calls'[x],
           BidCalls(u, j, c, n) \subseteq calls'[u],
           \A x \in Users : \A q \in calls'[x] :
              q \in calls[x] \/ q \in BidCalls(u, j, c, n),
           opened'[c] = j,
           Both(f, c) \/ g[c] = u,
           g[c] = IF u # PosterOf[j] THEN u ELSE p,
           \A x \in Users : screen'[x] \in {screen[x], NoScreen}
    PROVE  Entering(g)'
  <1>1. t \in Seq(Write)
    BY BidWritesType
  <1> DEFINE m == [id |-> n, chat |-> c, by |-> u]
             b == [id |-> n, job |-> j, by |-> u,
                   bidder |-> IF u # PosterOf[j] THEN u ELSE p]
  <1>2. /\ DOMAIN t = 1..3 /\ t[1].op = "chat"
        /\ t[2] = MessageWrite(m) /\ t[3] = BidWrite(b)
    BY BidWritesAre
  <1>3. /\ m \in MessageDoc /\ m.id = n /\ m.chat = c
        /\ b.id = n /\ b.job = j /\ b.bidder = g[c]
    BY DEF MessageDoc
  <1> HIDE DEF m, b
  <1>4. /\ \A v : SentConv(v)' => SentConv(v) \/ \E i \in DOMAIN t : t[i] = ConvWrite(v)
        /\ \A x : SentBid(x)' => SentBid(x) \/ \E i \in DOMAIN t : t[i] = BidWrite(x)
        /\ \A i \in DOMAIN t : \A x : t[i] = MessageWrite(x) => SentMessage(x)'
    BY <1>1, ExtendSent
  <1>5. Carries
    BY <1>1, AppendCarries
  <1>6. Both(g, c)'
    <2>1. CASE Both(f, c)
      BY <1>5, <2>1, BothKept
    <2>2. CASE g[c] = u
      <3>1. BidCalls(u, j, c, n) \subseteq calls'[u]
        OBVIOUS
      <3>2. /\ \E q \in BidCalls(u, j, c, n) :
                 Enters(q) /\ q.chat = c /\ q.owner = u
            /\ \E q \in BidCalls(u, j, c, n) :
                 Enters(q) /\ q.chat = c /\ q.owner = PosterOf[j]
        BY DEF BidCalls, Enters
      <3>3. Coming(c, u)' /\ Coming(c, PosterOf[j])'
        BY <3>1, <3>2 DEF Coming
      <3>4. j # NoJob
        BY DEF ConstantsAssumption
      <3> QED
        BY <2>2, <3>3, <3>4 DEF Both
    <2> QED
      BY <2>1, <2>2
  <1>7. ASSUME NEW v \in ConvDoc, SentConv(v)'
        PROVE  SentConv(v)
    <2>1. \A i \in DOMAIN t : t[i] # ConvWrite(v)
      BY <1>2 DEF ConvWrite, MessageWrite, BidWrite
    <2> QED
      BY <1>4, <1>7, <2>1
  <1>8. ASSUME NEW x \in BidDoc, SentBid(x)'
        PROVE  SentBid(x) \/ BidEntered(g, x)'
    <2>1. (\E i \in DOMAIN t : t[i] = BidWrite(x)) => x = b
      BY <1>2 DEF MessageWrite, BidWrite
    <2>2. SentMessage(m)'
      BY <1>2, <1>4, 2 \in 1..3
    <2>3. BidEntered(g, b)'
      BY <1>3, <1>6, <2>2 DEF BidEntered
    <2> QED
      BY <1>4, <1>8, <2>1, <2>3
  <1>9. \A x \in Users : \A q \in calls'[x] : q \in calls[x] \/ (Enters(q) => Both(g, q.chat)')
    <2>1. \A q \in BidCalls(u, j, c, n) : q.chat = c
      BY DEF BidCalls
    <2>2. \A q \in BidCalls(u, j, c, n) : Both(g, q.chat)'
      BY <1>6, <2>1
    <2> QED
      BY <2>2
  <1> QED
    BY <1>5, <1>7, <1>8, <1>9, EnteringKept

LEMMA CounterEntering ==
    ASSUME TypeOK, ConstantsAssumption, NEW f, Paired(f), Entering(f),
           NEW u \in Users, Counter(u)
    PROVE  Entering(f)'
  <1>1. PICK s \in Screen : s = screen[u]
    BY DEF Counter, TypeOK
  <1>2. /\ s.job \in Jobs /\ s.partner \in Users /\ s.chat \in Ids
        /\ UNCHANGED <<server, opened, missed>> /\ now + 1 \in Ids
        /\ \A x \in Users : screen'[x] \in {screen[x], NoScreen}
    BY <1>1 DEF Counter, CloseScreen, TypeOK, Ids, ConstantsAssumption, Screen
  <1>3. /\ opened[s.chat] = s.job
        /\ f[s.chat] = IF u # PosterOf[s.job] THEN u ELSE s.partner
    <2>1. ScreenPaired(f, u)
      BY DEF Paired
    <2> QED
      BY <1>1, <2>1 DEF ScreenPaired, Joined, Parties, Counter
  <1>4. Both(f, s.chat)
    BY <1>1 DEF Entering, Counter
  <1>5. PICK t : /\ t = BidWrites(u, s.job, s.partner, s.chat, now + 1)
                 /\ pending' = [pending EXCEPT ![u] = @ \o t]
    BY <1>1 DEF Counter
  <1>6. calls' = [calls EXCEPT ![u] = @ \cup BidCalls(u, s.job, s.chat, now + 1)]
    BY <1>1 DEF Counter
  <1>7. /\ \A x \in Users : \A q \in calls[x] : Enters(q) => q \in calls'[x]
        /\ BidCalls(u, s.job, s.chat, now + 1) \subseteq calls'[u]
        /\ \A x \in Users : \A q \in calls'[x] :
              q \in calls[x] \/ q \in BidCalls(u, s.job, s.chat, now + 1)
    BY <1>6 DEF TypeOK
  <1>8. Keeps(f, f)
    BY DEF Keeps
  <1>9. opened'[s.chat] = s.job
    BY <1>2, <1>3
  <1> QED
    BY <1>2, <1>3, <1>4, <1>5, <1>7, <1>8, <1>9, BidEntering

LEMMA CreateFirstBidEntering ==
    ASSUME TypeOK, TypeOK', ConstantsAssumption, DistinctNumbers,
           NEW f, Paired(f), Entering(f), NEW g, Keeps(f, g), Paired(g)',
           NEW u \in Users, NEW q \in calls[u], CreateFirstBid(u, q)
    PROVE  Entering(g)'
  <1>1. now + 1 \in Ids
    BY DEF CreateFirstBid, TypeOK, Ids, ConstantsAssumption
  <1>2. q.job \in Jobs /\ u # PosterOf[q.job] /\ UNCHANGED <<server, screen, missed>>
        /\ q.kind = "chatOf"
    BY DEF CreateFirstBid, TypeOK, Call
  <1>3. PICK c \in ChatsFor(u, q.job) :
          /\ pending' = [pending EXCEPT ![u] =
               @ \o BidWrites(u, q.job, NoUser, c, now + 1)]
          /\ calls' = [calls EXCEPT ![u] =
               (@ \ {q}) \cup BidCalls(u, q.job, c, now + 1)]
          /\ opened' = IF c = now + 1 THEN [opened EXCEPT ![c] = q.job] ELSE opened
    BY DEF CreateFirstBid
  <1>4. /\ c \in Ids
        /\ \/ c = now + 1 /\ opened[c] = NoJob
           \/ c # now + 1 /\ opened[c] = q.job
    BY <1>1, <1>2, ChatsForOpener
  <1>5. /\ opened'[c] = q.job
        /\ \A d \in Ids : opened[d] # NoJob => opened'[d] = opened[d]
    BY <1>3, <1>4 DEF TypeOK
  <1>6. g[c] = u
    <2>1. PICK p \in BidCalls(u, q.job, c, now + 1) : p.kind = "own"
      BY DEF BidCalls
    <2>2. p.chat = c /\ p.job = q.job
      BY <2>1 DEF BidCalls
    <2>3. p \in calls'[u]
      BY <1>3, <2>1 DEF TypeOK
    <2>4. CallPaired(g, u, p)'
      BY <2>3 DEF Paired
    <2>5. Joined(g, u, p.chat, p.job)'
      BY <2>1, <2>4 DEF CallPaired
    <2> QED
      BY <1>2, <2>2, <2>5 DEF Joined
  <1>7. /\ \A x \in Users : \A p \in calls[x] : Enters(p) => p \in calls'[x]
        /\ BidCalls(u, q.job, c, now + 1) \subseteq calls'[u]
        /\ \A x \in Users : \A p \in calls'[x] :
              p \in calls[x] \/ p \in BidCalls(u, q.job, c, now + 1)
    BY <1>2, <1>3 DEF TypeOK, Enters
  <1>8. PICK t : /\ t = BidWrites(u, q.job, NoUser, c, now + 1)
                 /\ pending' = [pending EXCEPT ![u] = @ \o t]
    BY <1>3
  <1>9. \A x \in Users : screen'[x] \in {screen[x], NoScreen}
    BY <1>2
  <1> QED
    BY <1>1, <1>2, <1>4, <1>5, <1>6, <1>7, <1>8, <1>9, BidEntering

(* The dying phone had look-ups for its user's own jobs only: those search *)
(* the poster's own list, which has the conversation already.              *)
LEMMA DieOnOwnJobEntering ==
    ASSUME TypeOK, ConstantsAssumption, DistinctNumbers, NEW f, Paired(f), Entering(f),
           NEW g, Keeps(f, g),
           \A c \in Ids : opened[c] # NoJob => opened'[c] = opened[c],
           NEW u \in Users, NEW q \in calls[u], DieOnOwnJob(u, q),
           \A p \in calls[u] : Enters(p) => PosterOf[p.job] = u
    PROVE  Entering(g)'
  <1>1. now + 1 \in Ids
    <2>1. now \in 0..MaxId /\ now < MaxId /\ MaxId \in Nat
      BY DEF DieOnOwnJob, TypeOK, ConstantsAssumption
    <2> QED
      BY <2>1 DEF Ids
  <1>2. q.job \in Jobs /\ UNCHANGED server /\ missed' = missed
    BY DEF DieOnOwnJob, TypeOK, Call
  <1>3. \A x \in Users : screen'[x] \in {screen[x], NoScreen}
    BY DEF DieOnOwnJob, CloseScreen, TypeOK
  <1>4. PICK c \in ChatsFor(u, q.job), k \in 0..2 :
          pending' = [pending EXCEPT ![u] =
            @ \o SubSeq(BidWrites(u, q.job, u, c, now + 1), 1, k)]
    BY DEF DieOnOwnJob
  <1>5. PICK t : /\ t = SubSeq(BidWrites(u, q.job, u, c, now + 1), 1, k)
                 /\ pending' = [pending EXCEPT ![u] = @ \o t]
    BY <1>4
  <1>6. c \in Ids
    BY <1>1, <1>2, ChatsForOpener
  <1>7. t \in Seq(Write) /\ \A i \in DOMAIN t : t[i].op \notin {"conv", "bid"}
    <2>1. PICK b : b = BidWrites(u, q.job, u, c, now + 1)
      OBVIOUS
    <2>2. b \in Seq(Write)
      BY <1>1, <1>2, <1>6, <2>1, BidWritesType
    <2>3. Len(b) = 3 /\ b[1].op = "chat" /\ b[2].op = "message"
      BY <2>1 DEF BidWrites
    <2>4. k \in 0..Len(b)
      BY <2>3
    <2>5. SubSeq(b, 1, k) \in Seq(Write)
      BY <2>2, <2>4, QueueTypes
    <2>6. \A i \in DOMAIN SubSeq(b, 1, k) : i \in 1..2 /\ SubSeq(b, 1, k)[i] = b[i]
      BY <2>2, <2>4, Cut
    <2> QED
      BY <1>5, <2>1, <2>3, <2>5, <2>6
  <1>8. calls' = [calls EXCEPT ![u] = {}]
    BY DEF DieOnOwnJob
  <1>9. ASSUME NEW p \in calls[u], Enters(p)
        PROVE  Coming(p.chat, p.owner)'
    <2>1. CallPaired(f, u, p) /\ PosterOf[p.job] = u
      BY <1>9 DEF Paired
    <2>2. p.owner = u /\ Listed(p.chat, u)
      BY <1>9, <2>1 DEF CallPaired, Joined, Enters
    <2>3. PICK v \in convs : v.chat = p.chat /\ v.owner = u
      BY <2>2 DEF Listed
    <2>4. v \in ConvDoc /\ v \in convs'
      BY <1>2 DEF TypeOK, server
    <2> QED
      BY <2>2, <2>3, <2>4 DEF Coming, SentConv
  <1>10. /\ \A x \in Users : \A p \in calls[x] :
               Enters(p) => p \in calls'[x] \/ Coming(p.chat, p.owner)'
         /\ \A x \in Users : \A p \in calls'[x] : p \in calls[x]
    BY <1>8, <1>9 DEF TypeOK
  <1> QED
    BY <1>2, <1>3, <1>5, <1>7, <1>10, PlainEntering

(* The look-up's chat is in the list it searched, or is queued for it.     *)
LEMMA EnterConversationEntering ==
    ASSUME TypeOK, ConstantsAssumption, NEW f, Entering(f),
           NEW u \in Users, NEW q \in calls[u], EnterConversation(u, q)
    PROVE  Entering(f)'
  <1>1. /\ q \in Call /\ Enters(q) /\ UNCHANGED <<server, opened, missed, screen>>
        /\ calls' = [calls EXCEPT ![u] = @ \ {q}]
    BY DEF EnterConversation, TypeOK, Enters
  <1>2. PosterOf[q.job] \in Users
    BY <1>1 DEF Call, ConstantsAssumption
  <1>a. PICK docs \in Answers(u, q.owner, q.chat) :
          pending' = [pending EXCEPT ![u] = Append(@,
            IF docs = {}
            THEN [op |-> "conv", conv |-> NewConv(u, q)]
            ELSE [op |-> "active", docs |-> docs, value |-> TRUE])]
    BY DEF EnterConversation
  <1> DEFINE v == NewConv(u, q)
             w == IF docs = {} THEN ConvWrite(v)
                  ELSE [op |-> "active", docs |-> docs, value |-> TRUE]
  <1>3. pending' = [pending EXCEPT ![u] = Append(@, w)]
    BY <1>a DEF ConvWrite
  <1>4. v \in ConvDoc /\ v.chat = q.chat /\ v.owner = q.owner
    BY <1>1, <1>2 DEF NewConv, ConvDoc, DocIds, Call, Enters
  <1>5. docs \subseteq DocIds
    BY AnswerTypes
  <1> HIDE DEF v
  <1>6. w \in Write
    BY <1>4, <1>5 DEF Write, ConvWrite
  <1>7. Both(f, q.chat)
    BY <1>1 DEF Entering
  <1>8. ASSUME docs # {}
        PROVE  \E x \in ConvDoc : SentConv(x) /\ x.chat = q.chat /\ x.owner = q.owner
    <2>1. PICK x \in SeenConvs(u) : x.owner = q.owner /\ x.chat = q.chat
      BY <1>8 DEF Answers, ConvDocs, HeldConvs
    <2> QED
      BY <2>1, SeenSent
  <1>9. /\ docs = {} => w = ConvWrite(v)
        /\ docs # {} => w.op = "active"
    OBVIOUS
  <1> HIDE DEF w
  <1>10. PICK t \in Seq(Write) : /\ DOMAIN t = {1} /\ t[1] = w
                                 /\ pending' = [pending EXCEPT ![u] = @ \o t]
    <2>1. pending[u] \in Seq(Write)
      BY DEF TypeOK
    <2>2. PICK t : t = <<w>>
      OBVIOUS
    <2>3. t \in Seq(Write) /\ DOMAIN t = {1} /\ t[1] = w
      BY <1>6, <2>2
    <2>4. pending[u] \o t = Append(pending[u], w)
      BY <1>6, <2>1, <2>2
    <2>5. pending' = [pending EXCEPT ![u] = @ \o t]
      BY <1>3, <2>4 DEF TypeOK
    <2> QED
      BY <2>3, <2>5
  <1>11. /\ \A x : SentConv(x) => SentConv(x)'
         /\ \A x : SentConv(x)' => SentConv(x) \/ w = ConvWrite(x)
         /\ \A x : SentBid(x)' => SentBid(x) \/ w = BidWrite(x)
         /\ \A x : w = ConvWrite(x) => SentConv(x)'
    BY <1>1, <1>10, ExtendSent
  <1>12. Coming(q.chat, q.owner)'
    BY <1>4, <1>8, <1>9, <1>11 DEF Coming
  <1>13. \A x \in Users : \A p \in calls[x] :
           Enters(p) => p \in calls'[x] \/ Coming(p.chat, p.owner)'
    BY <1>1, <1>12 DEF TypeOK
  <1>14. Carries
    BY <1>1, <1>10, <1>13, AppendCarries
  <1>15. \A x \in ConvDoc : SentConv(x)' => SentConv(x) \/ Both(f, x.chat)
    <2>1. \A x : w = ConvWrite(x) => x.chat = q.chat
      BY <1>4, <1>9 DEF ConvWrite
    <2> QED
      BY <1>7, <1>11, <2>1
  <1>16. \A b \in BidDoc : SentBid(b)' => SentBid(b)
    BY <1>9, <1>11 DEF ConvWrite, BidWrite
  <1>17. \A x \in Users : \A p \in calls'[x] : p \in calls[x]
    BY <1>1 DEF TypeOK
  <1>18. Keeps(f, f) /\ screen' = screen
    BY <1>1 DEF Keeps
  <1> QED
    BY <1>14, <1>15, <1>16, <1>17, <1>18, EnteringKept

(* Without the poster's document the caller's list is left alone: a bidder *)
(* misses the chat, the poster's own list has it already.                  *)
LEMMA MissPosterEntering ==
    ASSUME TypeOK, NEW f, Paired(f), Entering(f),
           NEW u \in Users, NEW q \in calls[u], MissPoster(u, q)
    PROVE  Entering(f)'
  <1>1. /\ q \in Call /\ q.kind = "own"
        /\ UNCHANGED <<server, pending, opened, screen>>
        /\ calls' = [calls EXCEPT ![u] = @ \ {q}]
        /\ missed' = IF u = PosterOf[q.job] THEN missed ELSE missed \cup {q.chat}
    BY DEF MissPoster, TypeOK
  <1>2. /\ opened[q.chat] = q.job /\ q.owner = u
        /\ u = PosterOf[q.job] => Listed(q.chat, u)
    BY <1>1 DEF Paired, CallPaired, Joined
  <1>3. UNCHANGED <<convs, messages, bids>>
    BY <1>1 DEF server
  <1>4. /\ \A v : SentConv(v)' <=> SentConv(v)
        /\ \A m : SentMessage(m)' <=> SentMessage(m)
        /\ \A b : SentBid(b)' <=> SentBid(b)
    BY <1>1, <1>3 DEF SentConv, SentMessage, SentBid, Waits
  <1>5. Coming(q.chat, q.owner)' \/ Misses(q.chat, q.owner)
    <2>1. CASE u = PosterOf[q.job]
      <3>1. PICK v \in convs : v.chat = q.chat /\ v.owner = u
        BY <1>2, <2>1 DEF Listed
      <3>2. v \in ConvDoc /\ SentConv(v)'
        BY <1>4, <3>1 DEF TypeOK, SentConv
      <3> QED
        BY <1>2, <3>1, <3>2 DEF Coming
    <2>2. CASE u # PosterOf[q.job]
      BY <1>1, <1>2, <2>2 DEF Misses
    <2> QED
      BY <2>1, <2>2
  <1>6. \A x \in Users : \A p \in calls[x] : p \in calls'[x] \/ p = q
    BY <1>1 DEF TypeOK
  <1>7. Carries /\ Keeps(f, f)
    BY <1>1, <1>4, <1>5, <1>6 DEF Carries, Keeps
  <1>8. \A x \in Users : \A p \in calls'[x] : p \in calls[x]
    BY <1>1 DEF TypeOK
  <1> QED
    BY <1>1, <1>4, <1>7, <1>8, EnteringKept

LEMMA LeaveConversationEntering ==
    ASSUME TypeOK, NEW f, Entering(f),
           NEW u \in Users, NEW q \in calls[u], LeaveConversation(u, q)
    PROVE  Entering(f)'
  <1>1. /\ ~ Enters(q) /\ UNCHANGED <<server, opened, missed, screen>>
        /\ calls' = [calls EXCEPT ![u] = @ \ {q}]
    BY DEF LeaveConversation, Enters
  <1>a. PICK docs \in Answers(u, q.owner, q.chat) :
          pending' = [pending EXCEPT ![u] =
            IF docs = {} THEN @ ELSE Append(@, Deactivation(docs))]
    BY DEF LeaveConversation
  <1> DEFINE w == Deactivation(docs)
  <1>2. pending' = pending \/ pending' = [pending EXCEPT ![u] = Append(@, w)]
    BY <1>a DEF TypeOK
  <1>3. docs \subseteq DocIds
    BY AnswerTypes
  <1>4. w \in Write /\ w.op = "active"
    BY <1>3 DEF Write, Deactivation
  <1> HIDE DEF w
  <1>5. PICK t \in Seq(Write) : /\ \A i \in DOMAIN t : t[i].op = "active"
                                /\ pending' = [pending EXCEPT ![u] = @ \o t]
    <2>1. pending[u] \in Seq(Write)
      BY DEF TypeOK
    <2>2. CASE pending' = pending
      <3>1. PICK t : t = << >>
        OBVIOUS
      <3>2. t \in Seq(Write) /\ \A i \in DOMAIN t : t[i].op = "active"
        BY <3>1
      <3>3. pending[u] \o t = pending[u]
        BY <2>1, <3>1
      <3>4. pending' = [pending EXCEPT ![u] = @ \o t]
        BY <2>2, <3>3 DEF TypeOK
      <3> QED
        BY <3>2, <3>4
    <2>3. CASE pending' = [pending EXCEPT ![u] = Append(@, w)]
      <3>1. PICK t : t = <<w>>
        OBVIOUS
      <3>2. t \in Seq(Write) /\ \A i \in DOMAIN t : t[i].op = "active"
        BY <1>4, <3>1
      <3>3. pending[u] \o t = Append(pending[u], w)
        BY <1>4, <2>1, <3>1
      <3>4. pending' = [pending EXCEPT ![u] = @ \o t]
        BY <2>3, <3>3 DEF TypeOK
      <3> QED
        BY <3>2, <3>4
    <2> QED
      BY <1>2, <2>2, <2>3
  <1>6. /\ \A x \in Users : \A p \in calls[x] : Enters(p) => p \in calls'[x]
        /\ \A x \in Users : \A p \in calls'[x] : p \in calls[x]
    BY <1>1 DEF TypeOK
  <1>7. Keeps(f, f)
    BY DEF Keeps
  <1> QED
    BY <1>1, <1>5, <1>6, <1>7, PlainEntering

LEMMA PopEntering ==
    ASSUME TypeOK, Listing, NEW f, Entering(f), NEW u \in Users,
           Acknowledge(u) \/ Refuse(u)
    PROVE  Entering(f)'
  <1>1. /\ pending[u] # << >> /\ pending' = [pending EXCEPT ![u] = Tail(@)]
        /\ UNCHANGED <<opened, missed, screen, calls>>
    BY DEF Acknowledge, Refuse
  <1> PICK w : w = Head(pending[u])
    OBVIOUS
  <1>2. w \in Write
    BY <1>1, QueueTypes DEF TypeOK
  <1>3. /\ w.op = "conv" => w = ConvWrite(w.conv)
        /\ w.op = "bid" => w = BidWrite(w.bid)
    BY <1>2 DEF Write, ConvWrite, BidWrite
  <1>4. Takes(w)
    <2>1. CASE Acknowledge(u)
      <3>1. /\ messages' = IF w.op = "message" THEN messages \cup {w.message} ELSE messages
            /\ bids' = IF w.op = "bid" THEN bids \cup {w.bid} ELSE bids
            /\ convs' = IF w.op = "conv" THEN convs \cup {w.conv} ELSE convs
        BY <2>1 DEF Acknowledge
      <3> QED
        BY <1>3, <3>1 DEF Takes, ConvWrite, MessageWrite
    <2>2. CASE Refuse(u)
      <3>1. UNCHANGED <<convs, messages, bids>> /\ w.op \notin {"conv", "message"}
        BY <2>2 DEF Refuse, Listing, server
      <3> QED
        BY <3>1 DEF Takes, ConvWrite, MessageWrite
    <2> QED
      BY <2>1, <2>2
  <1>5. /\ \A v : SentConv(v)' <=> SentConv(v)
        /\ \A m : SentMessage(m) => SentMessage(m)'
        /\ \A b : SentBid(b)' => SentBid(b)
    BY <1>1, <1>4, PopSent
  <1>6. Carries /\ Keeps(f, f)
    BY <1>1, <1>5 DEF Carries, Keeps
  <1> QED
    BY <1>1, <1>5, <1>6, EnteringKept

LEMMA NextEntering ==
    ASSUME TypeOK, TypeOK', ConstantsAssumption, Listing,
           NEW f, Paired(f), Entering(f), NEW g, Keeps(f, g), Paired(g)',
           [Next]_vars, [~ LosesLookUp]_vars
    PROVE  \E h : Paired(h)' /\ Entering(h)'
  <1>1. \A c \in Ids : opened[c] # NoJob => opened'[c] = opened[c]
    BY OpenedStays
  <1>2. CASE UNCHANGED vars
    <2>1. /\ UNCHANGED <<convs, messages, bids>> /\ pending' = pending
          /\ opened' = opened /\ calls' = calls /\ screen' = screen
          /\ now' = now /\ missed' = missed
      BY <1>2 DEF vars, server
    <2>2. UNCHANGED <<server, pending, opened, missed>>
      BY <1>2 DEF vars
    <2>3. Entering(f)'
      BY <2>1, <2>2, IdleEntering
    <2>4. Paired(f)'
      BY <2>1 DEF Paired, OfChat, Parties, QueuedConvs, SeenConvs, Queued, CallPaired,
                  ScreenPaired, Joined, Listed
    <2> QED
      BY <2>3, <2>4
  <1>3. ASSUME NEW u \in Users, UserStep(u)
        PROVE  Paired(f)' /\ Entering(f)'
    BY <1>3, OpenConversationPaired, CounterPaired, QuietPaired,
       OpenConversationEntering, CounterEntering, TapEntering, AcceptEntering
       DEF UserStep
  <1>4. ASSUME NEW u \in Users, NEW q \in calls[u], CreateFirstBid(u, q)
        PROVE  Entering(g)'
    BY <1>4, CreateFirstBidEntering DEF Listing
  <1>5. ASSUME NEW u \in Users, NEW q \in calls[u], DieOnOwnJob(u, q), ~ UNCHANGED vars
        PROVE  Entering(g)'
    <2>1. \A p \in calls[u] : Enters(p) => PosterOf[p.job] = u
      BY <1>5 DEF LosesLookUp, Enters
    <2> QED
      BY <1>1, <1>5, <2>1, DieOnOwnJobEntering DEF Listing
  <1>6. ASSUME NEW u \in Users, NEW q \in calls[u],
               EnterConversation(u, q) \/ MissPoster(u, q) \/ LeaveConversation(u, q)
        PROVE  Paired(f)' /\ Entering(f)'
    BY <1>6, EnterConversationPaired, MissPosterPaired, LeaveConversationPaired,
       EnterConversationEntering, MissPosterEntering, LeaveConversationEntering
  <1>7. ASSUME NEW u \in Users, Acknowledge(u) \/ Refuse(u)
        PROVE  Paired(f)' /\ Entering(f)'
    BY <1>7, AcknowledgePaired, QuietPaired, PopEntering
  <1>8. ASSUME NEW u \in Users, Crash(u)
        PROVE  UNCHANGED vars
    BY <1>8 DEF LosesLookUp
  <1> QED
    BY <1>2, <1>3, <1>4, <1>5, <1>6, <1>7, <1>8 DEF Next, Answer

(* Once nothing is in flight, every bid on the server is in the poster's   *)
(* list, and in the bidder's unless the bidder's phone could not get the   *)
(* poster's document for that chat (DatabaseHelper:151-179): whatever else *)
(* was refused and however look-ups and writes were interleaved, if no     *)
(* phone lost its queue or the look-ups of another user's job.             *)
THEOREM BidsAreListed ==
    Listing /\ Spec /\ [][~ LosesLookUp]_vars => []BidIsListed
  <1> DEFINE Inv == Listing /\ \E f : Paired(f) /\ Entering(f)
  <1>1. Listing /\ Init => Inv
    BY ConstantsAssumption, InitPaired, InitEntering
  <1>2. TypeOK /\ TypeOK' /\ Inv /\ [Next]_vars /\ [~ LosesLookUp]_vars => Inv'
    <2> SUFFICES ASSUME TypeOK, TypeOK', Listing, [Next]_vars, [~ LosesLookUp]_vars,
                        NEW f, Paired(f), Entering(f)
                 PROVE  Listing' /\ \E g : Paired(g)' /\ Entering(g)'
      OBVIOUS
    <2>1. Listing'
      BY DEF Listing, DistinctNumbers
    <2>2. PICK g : Paired(g)' /\ Keeps(f, g)
      BY ConstantsAssumption, NextPaired DEF Listing
    <2> QED
      BY <2>1, <2>2, ConstantsAssumption, NextEntering
  <1>3. TypeOK /\ Inv => BidIsListed
    <2> SUFFICES ASSUME TypeOK, Quiet, NEW f, Entering(f), NEW b \in bids
                 PROVE  \E m \in messages : /\ m.id = b.id
                                            /\ Listed(m.chat, PosterOf[b.job])
                                            /\ Listed(m.chat, b.bidder)
                                               \/ m.chat \in missed
      BY DEF BidIsListed
    <2>1. \A u \in Users : calls[u] = {} /\ \A w : ~ Waits(u, w)
      BY DEF Quiet, Waits
    <2>2. b \in BidDoc /\ SentBid(b)
      BY DEF TypeOK, SentBid
    <2>3. PICK m \in MessageDoc :
            /\ SentMessage(m) /\ m.id = b.id
            /\ opened[m.chat] = b.job /\ f[m.chat] = b.bidder
            /\ Both(f, m.chat)
      BY <2>2 DEF Entering, BidEntered
    <2>4. m \in messages
      BY <2>1, <2>3 DEF SentMessage
    <2>5. \A c, o : Coming(c, o) => Listed(c, o)
      BY <2>1 DEF Coming, SentConv, Listed
    <2>6. /\ Listed(m.chat, PosterOf[b.job])
          /\ Listed(m.chat, b.bidder) \/ m.chat \in missed
      BY <2>3, <2>5 DEF Both
    <2> QED
      BY <2>3, <2>4, <2>6
  <1> HIDE DEF Inv
  <1> QED
    BY <1>1, <1>2, <1>3, TypeCorrect, PTL DEF Spec

(* A poster of all jobs never loses such a look-up: without crashes, which *)
(* stand for failing queries too, every bid is listed so.                  *)
OnePosterListing ==
    /\ Listing
    /\ MaxCrashes = 0
    /\ \A i, j \in Jobs : PosterOf[i] = PosterOf[j]

THEOREM OnePostersBidsAreListed == OnePosterListing /\ Spec => []BidIsListed
  <1>1. OnePosterListing /\ TypeOK /\ [Next]_vars => OnePosterListing' /\ [~ LosesLookUp]_vars
    <2> SUFFICES ASSUME OnePosterListing, TypeOK, LosesLookUp
                 PROVE  FALSE
      BY DEF OnePosterListing, Listing, DistinctNumbers
    <2>1. PICK u \in Users :
            \/ Crash(u)
            \/ /\ \E q \in calls[u] : DieOnOwnJob(u, q)
               /\ \E q \in calls[u] : q.kind \in {"own", "poster"} /\ PosterOf[q.job] # u
      BY DEF LosesLookUp
    <2>2. ~ Crash(u)
      BY DEF Crash, OnePosterListing, TypeOK
    <2>3. \A q \in calls[u] : q.job \in Jobs
      BY DEF TypeOK, Call
    <2>4. \A q \in calls[u] : DieOnOwnJob(u, q) => u = PosterOf[q.job]
      BY DEF DieOnOwnJob
    <2> QED
      BY <2>1, <2>2, <2>3, <2>4 DEF OnePosterListing
  <1>2. OnePosterListing => Listing
    BY DEF OnePosterListing
  <1> QED
    BY <1>1, <1>2, BidsAreListed, TypeCorrect, PTL DEF Spec

-----------------------------------------------------------------------------
(* Why bidding implements Negotiation: an offer stands behind its chat in  *)
(* the queue, and the two records of an acceptance directly behind it, so  *)
(* that whoever reads the database sees them in this order, with nothing   *)
(* of the same phone in between.                                           *)

(* Acceptances are not refused either.                                     *)
Dealing == Recording /\ "accept" \notin Refusable

OfferReady(u, i) ==
    LET w == pending[u][i] IN
    w.op = "bid" =>
      /\ w.bid.bidder # PosterOf[w.bid.job]
      /\ \E c \in Ids : /\ opened[c] = w.bid.job
                       /\ ChatAhead(u, i - 1, c, w.bid.job)

RecordReady(u, i) ==
    LET q == pending[u] IN
    /\ q[i].op = "helpr" =>
         /\ i + 1 \in DOMAIN q /\ Records(q[i + 1], "acceptedJob", q[i].helpr)
         /\ i # 1 => q[i - 1].op = "accept"
    /\ q[i].op = "acceptedJob" =>
         IF i = 1 THEN q[i].helpr \in helprs ELSE Records(q[i - 1], "helpr", q[i].helpr)

Arranged ==
    \A u \in Users : \A i \in DOMAIN pending[u] : OfferReady(u, i) /\ RecordReady(u, i)

AgreedOn(f) == \A c \in accepted : HelprFor(f, c) \in Agreed

LEMMA InitArranged ==
    ASSUME Init, NEW f
    PROVE  Arranged /\ AgreedOn(f)
  BY DEF Init, Arranged, AgreedOn

(* The writes one step of a phone adds to its queue.                       *)
Plain(w) == w.op \notin {"bid", "accept", "helpr", "acceptedJob"}

BidsInChat(u, t) ==
    \E j \in Jobs, c \in Ids, n \in Ids : \E p :
        /\ t = BidWrites(u, j, p, c, n)
        /\ opened[c] = j
        /\ u # PosterOf[j] \/ p \in Users \ {PosterOf[j]}

LEMMA AcceptWritesAre ==
    ASSUME NEW c \in Ids, NEW h \in JobHelpr, NEW t, t = AcceptWrites(c, h)
    PROVE  /\ t \in Seq(Write) /\ DOMAIN t = 1..3 /\ Len(t) = 3
           /\ t[1].op = "accept"
           /\ Records(t[2], "helpr", h) /\ Records(t[3], "acceptedJob", h)
  <1>1. /\ [op |-> "accept", chat |-> c] \in Write
        /\ [op |-> "helpr", helpr |-> h] \in Write
        /\ [op |-> "acceptedJob", helpr |-> h] \in Write
    BY DEF Write
  <1>2. t \in Seq(Write)
    BY <1>1 DEF AcceptWrites
  <1>3. DOMAIN t = 1..3 /\ Len(t) = 3
    BY DEF AcceptWrites
  <1>4. /\ t[1].op = "accept"
        /\ Records(t[2], "helpr", h) /\ Records(t[3], "acceptedJob", h)
    BY DEF AcceptWrites, Records
  <1> QED
    BY <1>2, <1>3, <1>4

(* What a phone does is hand over one such batch, or nothing.              *)
Appends(u, t) ==
    /\ UNCHANGED server
    /\ pending' = [pending EXCEPT ![u] = @ \o t]
    /\ \/ \A i \in DOMAIN t : Plain(t[i])
       \/ BidsInChat(u, t)'
       \/ \E c \in Ids, h \in JobHelpr : t = AcceptWrites(c, h)

LEMMA IdleAppends ==
    ASSUME TypeOK, NEW u \in Users, UNCHANGED <<server, pending>>
    PROVE  \E t \in Seq(Write) : Appends(u, t)
  <1>1. PICK t \in Seq(Write) : t = << >>
    <2>1. << >> \in Seq(Write)
      OBVIOUS
    <2> QED
      BY <2>1
  <1>2. pending[u] \in Seq(Write) /\ pending[u] \o t = pending[u]
    BY <1>1 DEF TypeOK
  <1>3. pending' = [pending EXCEPT ![u] = @ \o t]
    BY <1>2 DEF TypeOK
  <1>4. \A i \in DOMAIN t : Plain(t[i])
    BY <1>1
  <1> QED
    BY <1>3, <1>4 DEF Appends

LEMMA OneAppends ==
    ASSUME TypeOK, NEW u \in Users, UNCHANGED server, NEW w \in Write, Plain(w),
           pending' = [pending EXCEPT ![u] = Append(@, w)]
    PROVE  \E t \in Seq(Write) : Appends(u, t)
  <1>1. PICK t \in Seq(Write) : t = <<w>>
    <2>1. <<w>> \in Seq(Write)
      OBVIOUS
    <2> QED
      BY <2>1
  <1>2. pending[u] \in Seq(Write) /\ pending[u] \o t = Append(pending[u], w)
    BY <1>1 DEF TypeOK
  <1>3. pending' = [pending EXCEPT ![u] = @ \o t]
    BY <1>2 DEF TypeOK
  <1>4. \A i \in DOMAIN t : Plain(t[i])
    BY <1>1
  <1> QED
    BY <1>3, <1>4 DEF Appends

LEMMA LookUpAppends ==
    ASSUME TypeOK, ConstantsAssumption, NEW u \in Users, NEW q \in calls[u],
           EnterConversation(u, q) \/ MissPoster(u, q) \/ LeaveConversation(u, q)
    PROVE  \E t \in Seq(Write) : Appends(u, t)
  <1>1. UNCHANGED server
    BY LookUpStep
  <1>2. CASE pending' = pending
    BY <1>1, <1>2, IdleAppends
  <1>3. ASSUME NEW w \in Write, w.op \in {"conv", "active"},
               pending' = [pending EXCEPT ![u] = Append(@, w)]
        PROVE  \E t \in Seq(Write) : Appends(u, t)
    BY <1>1, <1>3, OneAppends DEF Plain
  <1> QED
    BY <1>2, <1>3, LookUpStep

LEMMA CounterAppends ==
    ASSUME TypeOK, ConstantsAssumption, NEW f, Paired(f), NEW u \in Users, Counter(u)
    PROVE  \E t \in Seq(Write) : Appends(u, t)
  <1>1. PICK s \in Screen : s = screen[u] /\ s # NoScreen
    BY DEF Counter, TypeOK
  <1>2. /\ s.job \in Jobs /\ s.partner \in Users /\ s.chat \in Ids
        /\ UNCHANGED <<server, opened>> /\ now + 1 \in Ids
    BY <1>1 DEF Counter, TypeOK, Ids, ConstantsAssumption, Screen
  <1>3. ScreenPaired(f, u)
    BY DEF Paired
  <1>4. opened'[s.chat] = s.job
        /\ (u # PosterOf[s.job] \/ s.partner \in Users \ {PosterOf[s.job]})
    BY <1>1, <1>2, <1>3 DEF ScreenPaired, Joined, Parties
  <1>5. PICK t : /\ t = BidWrites(u, s.job, s.partner, s.chat, now + 1)
                 /\ pending' = [pending EXCEPT ![u] = @ \o t]
    BY <1>1 DEF Counter
  <1>6. BidsInChat(u, t)'
    BY <1>2, <1>4, <1>5 DEF BidsInChat, BidWrites
  <1>7. t \in Seq(Write)
    BY <1>2, <1>5, BidWritesType
  <1> QED
    BY <1>2, <1>5, <1>6, <1>7 DEF Appends

LEMMA CreateFirstBidAppends ==
    ASSUME TypeOK, ConstantsAssumption, Sound, Backed, NEW u \in Users,
           NEW q \in calls[u], CreateFirstBid(u, q)
    PROVE  \E t \in Seq(Write) : Appends(u, t)
  <1>1. /\ q.job \in Jobs /\ u # PosterOf[q.job]
        /\ UNCHANGED server /\ now + 1 \in Ids
    BY DEF CreateFirstBid, TypeOK, Call, Ids, ConstantsAssumption
  <1>2. PICK c \in ChatsFor(u, q.job) :
          /\ pending' = [pending EXCEPT ![u] =
               @ \o BidWrites(u, q.job, NoUser, c, now + 1)]
          /\ opened' = IF c = now + 1 THEN [opened EXCEPT ![c] = q.job] ELSE opened
    BY DEF CreateFirstBid
  <1>3. c \in Ids /\ (c = now + 1 \/ opened[c] = q.job)
    BY <1>1, ChatsForJob
  <1>4. opened'[c] = q.job
    BY <1>2, <1>3 DEF TypeOK
  <1>5. PICK t : /\ t = BidWrites(u, q.job, NoUser, c, now + 1)
                 /\ pending' = [pending EXCEPT ![u] = @ \o t]
    BY <1>2
  <1>6. BidsInChat(u, t)'
    BY <1>1, <1>3, <1>4, <1>5 DEF BidsInChat, BidWrites
  <1>7. t \in Seq(Write)
    BY <1>1, <1>3, <1>5, BidWritesType
  <1> QED
    BY <1>1, <1>5, <1>6, <1>7 DEF Appends

(* The app dies before the bid: what is left of the batch is plain.        *)
LEMMA DieOnOwnJobAppends ==
    ASSUME TypeOK, ConstantsAssumption, Sound, Backed, NEW u \in Users,
           NEW q \in calls[u], DieOnOwnJob(u, q)
    PROVE  \E t \in Seq(Write) : Appends(u, t)
  <1>1. now + 1 \in Ids
    BY DEF DieOnOwnJob, TypeOK, Ids, ConstantsAssumption
  <1>2. q.job \in Jobs /\ UNCHANGED server
    BY DEF DieOnOwnJob, TypeOK, Call
  <1>3. PICK c \in ChatsFor(u, q.job), k \in 0..2 :
          pending' = [pending EXCEPT ![u] =
            @ \o SubSeq(BidWrites(u, q.job, u, c, now + 1), 1, k)]
    BY DEF DieOnOwnJob
  <1>4. c \in Ids
    BY <1>1, <1>2, ChatsForJob
  <1> DEFINE b == BidWrites(u, q.job, u, c, now + 1)
  <1>5. b \in Seq(Write)
    BY <1>1, <1>2, <1>4, BidWritesType
  <1>6. /\ Len(b) = 3 /\ b[1].op = "chat" /\ b[2].op = "message"
    BY DEF BidWrites
  <1> HIDE DEF b
  <1>7. PICK t : t = SubSeq(b, 1, k) /\ pending' = [pending EXCEPT ![u] = @ \o t]
    BY <1>3 DEF b
  <1>8. k \in 0..Len(b) /\ t \in Seq(Write)
    <2>1. k \in 0..Len(b)
      BY <1>6
    <2>2. SubSeq(b, 1, k) \in Seq(Write)
      BY <1>5, <2>1, QueueTypes
    <2> QED
      BY <1>7, <2>1, <2>2
  <1>9. ASSUME NEW i \in DOMAIN t
        PROVE  Plain(t[i])
    <2>1. i \in 1..k /\ t[i] = b[i]
      BY <1>5, <1>7, <1>8, <1>9, Cut
    <2>2. i = 1 \/ i = 2
      BY <2>1
    <2> QED
      BY <1>6, <2>1, <2>2 DEF Plain
  <1> QED
    BY <1>2, <1>7, <1>8, <1>9 DEF Appends

LEMMA AcceptAppends ==
    ASSUME TypeOK, ConstantsAssumption, NEW u \in Users, Accept(u)
    PROVE  \E t \in Seq(Write) : Appends(u, t)
  <1>1. PICK s \in Screen : s = screen[u]
    BY DEF Accept, TypeOK
  <1>2. HelprOf(u, s) \in JobHelpr /\ s.chat \in Ids /\ UNCHANGED server
    BY DEF HelprOf, JobHelpr, Screen, Accept
  <1>3. PICK t : /\ t = AcceptWrites(s.chat, HelprOf(u, s))
                 /\ pending' = [pending EXCEPT ![u] = @ \o t]
    BY <1>1 DEF Accept
  <1>4. t \in Seq(Write)
    BY <1>2, <1>3, AcceptWritesAre
  <1> QED
    BY <1>2, <1>3, <1>4 DEF Appends

LEMMA StepAppends ==
    ASSUME TypeOK, ConstantsAssumption, Sound, Backed, NEW f, Paired(f),
           NEW u \in Users, UserStep(u) \/ Answer(u)
    PROVE  \E t \in Seq(Write) : Appends(u, t)
  <1>1. ASSUME UserStep(u) PROVE \E t \in Seq(Write) : Appends(u, t)
    <2>1. CASE \/ Cancel(u) \/ (\E j \in Jobs : PlaceBid(u, j)) \/ Reject(u)
               \/ \E v \in SeenConvs(u) : OpenConversation(u, v)
      BY <2>1, IdleAppends DEF Cancel, PlaceBid, Reject, OpenConversation
    <2>2. CASE Counter(u) \/ Accept(u)
      BY <2>2, CounterAppends, AcceptAppends
    <2> QED
      BY <1>1, <2>1, <2>2 DEF UserStep
  <1>2. ASSUME NEW q \in calls[u], CreateFirstBid(u, q) \/ DieOnOwnJob(u, q)
        PROVE  \E t \in Seq(Write) : Appends(u, t)
    BY <1>2, CreateFirstBidAppends, DieOnOwnJobAppends
  <1>3. ASSUME NEW q \in calls[u],
               EnterConversation(u, q) \/ MissPoster(u, q) \/ LeaveConversation(u, q)
        PROVE  \E t \in Seq(Write) : Appends(u, t)
    BY <1>3, LookUpAppends
  <1> QED
    BY <1>1, <1>2, <1>3 DEF Answer

-----------------------------------------------------------------------------
(* What a batch does to the arrangement of the queue, and that nobody who  *)
(* reads the database notices it.                                          *)
LEMMA AppendArranged ==
    ASSUME TypeOK, ConstantsAssumption, Arranged, NEW u \in Users, NEW t \in Seq(Write),
           Appends(u, t),
           \A c \in Ids : opened[c] # NoJob => opened'[c] = opened[c]
    PROVE  Arranged'
  <1>1. \A x \in Users : pending[x] \in Seq(Write)
    BY DEF TypeOK
  <1>2. /\ UNCHANGED server /\ pending' = [pending EXCEPT ![u] = @ \o t]
    BY DEF Appends
  <1>3. /\ pending'[u] = pending[u] \o t
        /\ \A x \in Users \ {u} : pending'[x] = pending[x]
    BY <1>2 DEF TypeOK
  <1>4. \A x \in Users : \A i \in DOMAIN pending[x] :
          /\ i \in Int /\ i >= 1 /\ pending[x][i] \in Write
          /\ i \in DOMAIN pending'[x] /\ pending'[x][i] = pending[x][i]
          /\ i # 1 => i - 1 \in DOMAIN pending[x]
    <2> TAKE x \in Users
    <2>1. CASE x = u
      BY <2>1, <1>1, <1>3, Extended
    <2>2. CASE x # u
      BY <2>2, <1>1, <1>3
    <2> QED
      BY <2>1, <2>2
  <1>5. ASSUME NEW x \in Users, NEW i \in DOMAIN pending[x]
        PROVE  OfferReady(x, i)'
    <2>1. SUFFICES ASSUME pending[x][i].op = "bid"
                   PROVE  OfferReady(x, i)'
      BY <1>4 DEF OfferReady
    <2>2. PICK w \in Write : w = pending[x][i] /\ pending'[x][i] = w /\ w.op = "bid"
      BY <1>4, <2>1
    <2>3. w.bid.job \in Jobs
      BY <2>2, WriteFields DEF BidDoc
    <2>4. PICK c \in Ids : opened[c] = w.bid.job /\ ChatAhead(x, i - 1, c, w.bid.job)
      BY <2>2 DEF Arranged, OfferReady
    <2>5. w.bid.bidder # PosterOf[w.bid.job]
      BY <2>2 DEF Arranged, OfferReady
    <2>6. opened'[c] = w.bid.job
      BY <2>3, <2>4 DEF ConstantsAssumption
    <2>7. PICK j, n : j = w.bid.job /\ n = i - 1 /\ n \in Int
      BY <1>4
    <2>8. ChatAhead(x, n, c, j)'
      BY <1>2, <2>4, <2>7, ExtendAhead
    <2> QED
      BY <2>2, <2>5, <2>6, <2>7, <2>8 DEF OfferReady
  <1>6. ASSUME NEW x \in Users, NEW i \in DOMAIN pending[x]
        PROVE  RecordReady(x, i)'
    <2>1. RecordReady(x, i) /\ pending'[x][i] = pending[x][i] /\ helprs' = helprs
      BY <1>2, <1>4 DEF Arranged, server
    <2>2. ASSUME pending[x][i].op = "helpr"
          PROVE  /\ i + 1 \in DOMAIN pending'[x]
                 /\ pending'[x][i + 1] = pending[x][i + 1]
      BY <1>4, <2>1, <2>2 DEF RecordReady
    <2>3. i # 1 => pending'[x][i - 1] = pending[x][i - 1]
      BY <1>4
    <2> QED
      BY <2>1, <2>2, <2>3 DEF RecordReady
  <1>7. PICK l \in Nat : l = Len(pending[u])
    <2>1. pending[u] \in Seq(Write)
      BY <1>1
    <2>2. Len(pending[u]) \in Nat
      BY <2>1, LenIsNat
    <2> QED
      BY <2>2, Zenon
  <1>8. /\ \A i \in DOMAIN t : l + i \in DOMAIN pending'[u] /\ pending'[u][l + i] = t[i]
        /\ \A i \in DOMAIN pending'[u] : i \in DOMAIN pending[u] \/ i - l \in DOMAIN t
    BY <1>1, <1>3, <1>7, Extended
  <1>9. ASSUME NEW k \in DOMAIN t
        PROVE  OfferReady(u, l + k)' /\ RecordReady(u, l + k)'
    <2>1. k \in Int /\ l + k \in Int /\ k >= 1 /\ pending'[u][l + k] = t[k]
      BY <1>8
    <2>2. CASE \A i \in DOMAIN t : Plain(t[i])
      BY <2>1, <2>2 DEF Plain, OfferReady, RecordReady
    <2>3. CASE BidsInChat(u, t)'
      <3>1. /\ DOMAIN t = 1..3
            /\ t[1].op = "chat" /\ t[2].op = "message" /\ t[3].op = "bid"
            /\ t[3].bid.bidder # PosterOf[t[3].bid.job]
            /\ t[1].chat \in Ids /\ t[1].job = t[3].bid.job
            /\ opened'[t[1].chat] = t[3].bid.job
        <4>1. PICK j \in Jobs, c \in Ids, n \in Ids :
                \E p : /\ t = BidWrites(u, j, p, c, n)
                       /\ opened'[c] = j
                       /\ (u # PosterOf[j] \/ p \in Users \ {PosterOf[j]})
          BY <2>3 DEF BidsInChat, BidWrites
        <4>2. PICK p : /\ t = BidWrites(u, j, p, c, n)
                       /\ opened'[c] = j
                       /\ (u # PosterOf[j] \/ p \in Users \ {PosterOf[j]})
          BY <4>1
        <4>3. DOMAIN t = 1..3
          BY <4>2 DEF BidWrites
        <4>4. /\ t[1] = [op |-> "chat", chat |-> c, job |-> j]
              /\ t[2].op = "message"
              /\ t[3] = [op |-> "bid", bid |-> [id |-> n, job |-> j,
                             by |-> u, bidder |-> IF u # PosterOf[j] THEN u ELSE p]]
          BY <4>2 DEF BidWrites
        <4> QED
          BY <4>2, <4>3, <4>4
      <3>2. RecordReady(u, l + k)'
        BY <2>1, <3>1 DEF RecordReady
      <3>3. CASE k # 3
        BY <2>1, <3>1, <3>2, <3>3 DEF OfferReady
      <3>4. CASE k = 3
        <4>1. /\ l + 1 \in DOMAIN pending'[u] /\ pending'[u][l + 1] = t[1]
              /\ pending'[u][l + 3] = t[3]
          BY <1>8, <3>1
        <4>2. l + 1 \in Queued(u, "chat")'
          BY <3>1, <4>1 DEF Queued
        <4>3. l + 1 <= (l + 3) - 1
          OBVIOUS
        <4>4. PICK n : n = (l + 3) - 1
          OBVIOUS
        <4>5. ChatAhead(u, n, t[1].chat, t[3].bid.job)'
          BY <3>1, <4>1, <4>2, <4>3, <4>4 DEF ChatAhead
        <4>6. OfferReady(u, l + 3)'
          BY <3>1, <4>1, <4>4, <4>5 DEF OfferReady
        <4> QED
          BY <3>2, <3>4, <4>6
      <3> QED
        BY <3>2, <3>3, <3>4
    <2>4. CASE \E c \in Ids, h \in JobHelpr : t = AcceptWrites(c, h)
      <3>1. PICK h \in JobHelpr :
              /\ DOMAIN t = 1..3 /\ t[1].op = "accept"
              /\ Records(t[2], "helpr", h) /\ Records(t[3], "acceptedJob", h)
        BY <2>4, AcceptWritesAre
      <3>2. OfferReady(u, l + k)'
        BY <2>1, <3>1 DEF OfferReady, Records
      <3>3. /\ pending'[u][l + 1] = t[1] /\ pending'[u][l + 2] = t[2]
            /\ pending'[u][l + 3] = t[3] /\ l + 3 \in DOMAIN pending'[u]
        BY <1>8, <3>1
      <3>4. CASE k = 1
        <4>1. RecordReady(u, l + 1)'
          BY <3>1, <3>3 DEF RecordReady
        <4> QED
          BY <3>2, <3>4, <4>1
      <3>5. CASE k = 2
        <4>1. (l + 2) + 1 = l + 3 /\ (l + 2) - 1 = l + 1
          OBVIOUS
        <4>2. RecordReady(u, l + 2)'
          BY <3>1, <3>3, <4>1 DEF RecordReady, Records
        <4> QED
          BY <3>2, <3>5, <4>2
      <3>6. CASE k = 3
        <4>1. (l + 3) - 1 = l + 2 /\ l + 3 # 1
          OBVIOUS
        <4>2. RecordReady(u, l + 3)'
          BY <3>1, <3>3, <4>1 DEF RecordReady, Records
        <4> QED
          BY <3>2, <3>6, <4>2
      <3> QED
        BY <3>1, <3>2, <3>4, <3>5, <3>6
    <2> QED
      BY <2>2, <2>3, <2>4 DEF Appends
  <1>10. ASSUME NEW i \in DOMAIN pending'[u], i \notin DOMAIN pending[u]
         PROVE  OfferReady(u, i)' /\ RecordReady(u, i)'
    <2>1. i - l \in DOMAIN t /\ i \in Int
      BY <1>1, <1>3, <1>8, <1>10
    <2>2. PICK k \in DOMAIN t : k = i - l
      BY <2>1
    <2>3. i = l + k
      BY <2>1, <2>2
    <2> QED
      BY <1>9, <2>3
  <1>11. ASSUME NEW x \in Users, NEW i \in DOMAIN pending'[x]
         PROVE  OfferReady(x, i)' /\ RecordReady(x, i)'
    BY <1>3, <1>5, <1>6, <1>10, <1>11
  <1> QED
    BY <1>11 DEF Arranged

LEMMA AppendAgreed ==
    ASSUME TypeOK, Arranged, NEW u \in Users, NEW t \in Seq(Write), Appends(u, t)
    PROVE  Agreed' = Agreed
  <1>1. pending[u] \in Seq(Write) /\ pending' = [pending EXCEPT ![u] = @ \o t]
        /\ helprs' = helprs /\ acceptedJobs' = acceptedJobs
    BY DEF TypeOK, Appends, server
  <1>2. /\ pending'[u] = pending[u] \o t
        /\ \A x \in Users \ {u} : pending'[x] = pending[x]
    BY <1>1 DEF TypeOK
  <1>3. t # << >> => t[1].op \notin {"helpr", "acceptedJob"}
    <2>1. SUFFICES ASSUME t # << >>
                   PROVE  t[1].op \notin {"helpr", "acceptedJob"}
      OBVIOUS
    <2>2. 1 \in DOMAIN t
      BY <2>1
    <2>3. CASE BidsInChat(u, t)'
      BY <2>3 DEF BidsInChat, BidWrites
    <2>4. CASE \E c \in Ids, h \in JobHelpr : t = AcceptWrites(c, h)
      BY <2>4, AcceptWritesAre
    <2> QED
      BY <2>2, <2>3, <2>4 DEF Appends, Plain
  <1>4. ASSUME NEW h
        PROVE  BeingRecorded(u, h)' <=> BeingRecorded(u, h)
    <2>1. CASE pending[u] = << >>
      <3>1. ~ BeingRecorded(u, h)
        BY <2>1 DEF BeingRecorded
      <3>2. pending'[u] = t
        BY <1>2, <2>1
      <3>3. ~ BeingRecorded(u, h)'
        BY <1>3, <3>2 DEF BeingRecorded, Records
      <3> QED
        BY <3>1, <3>3
    <2>2. CASE pending[u] # << >>
      <3>1. 1 \in DOMAIN pending[u] /\ Len(pending[u]) >= 1 /\ Len(pending'[u]) >= 1
            /\ pending'[u][1] = pending[u][1]
        BY <1>1, <1>2, <2>2
      <3>2. RecordReady(u, 1)
        BY <3>1 DEF Arranged
      <3>3. pending[u][1].op = "helpr" =>
              /\ Len(pending[u]) >= 2 /\ Len(pending'[u]) >= 2
              /\ pending'[u][2] = pending[u][2]
        BY <1>1, <1>2, <3>2 DEF RecordReady
      <3> QED
        BY <1>1, <3>1, <3>3 DEF BeingRecorded, Records
    <2> QED
      BY <2>1, <2>2
  <1>5. ASSUME NEW x \in Users, NEW h
        PROVE  BeingRecorded(x, h)' <=> BeingRecorded(x, h)
    BY <1>1, <1>2, <1>4 DEF BeingRecorded
  <1> QED
    BY <1>1, <1>5 DEF Agreed

-----------------------------------------------------------------------------
(* The server takes or refuses the write at the head of a queue.           *)
LEMMA PopArranged ==
    ASSUME TypeOK, ConstantsAssumption, Backed, Arranged,
           NEW u \in Users, pending[u] # << >>, NEW w, w = Head(pending[u]),
           pending' = [pending EXCEPT ![u] = Tail(@)],
           opened' = opened, bids \subseteq bids', helprs \subseteq helprs',
           w.op = "bid" => w.bid \in bids',
           w.op = "chat" => chatJob'[w.chat] = w.job,
           w.op = "helpr" => w.helpr \in helprs',
           \A c \in Ids : chatJob[c] = opened[c] => chatJob'[c] = opened[c]
    PROVE  Arranged'
  <1>1. /\ pending[u] \in Seq(Write) /\ pending'[u] = Tail(pending[u])
        /\ \A x \in Users \ {u} : pending'[x] = pending[x]
    BY DEF TypeOK
  <1>2. w = pending[u][1] /\ 1 \in DOMAIN pending[u]
    BY <1>1, Popped
  <1>3. \A i \in DOMAIN pending[u] : i # 1 =>
          i - 1 \in DOMAIN pending'[u] /\ pending'[u][i - 1] = pending[u][i]
    <2>1. \A i \in DOMAIN pending[u] :
            i = 1 \/ (i - 1 \in DOMAIN Tail(pending[u])
                     /\ Tail(pending[u])[i - 1] = pending[u][i])
      BY <1>1, Popped
    <2> QED
      BY <1>1, <2>1
  <1>4. \A i \in DOMAIN pending'[u] :
          /\ i \in Int /\ i >= 1 /\ i + 1 \in DOMAIN pending[u]
          /\ pending'[u][i] = pending[u][i + 1] /\ pending[u][i + 1] \in Write
    <2>1. \A i \in DOMAIN Tail(pending[u]) :
            i + 1 \in DOMAIN pending[u] /\ Tail(pending[u])[i] = pending[u][i + 1]
      BY <1>1, Popped
    <2>2. \A i \in DOMAIN Tail(pending[u]) : i \in Int /\ i >= 1
      BY <1>1
    <2>3. \A i \in DOMAIN pending[u] : pending[u][i] \in Write
      BY <1>1
    <2> QED
      BY <1>1, <2>1, <2>2, <2>3
  <1>5. ASSUME NEW i \in DOMAIN pending'[u]
        PROVE  OfferReady(u, i)'
    <2>1. SUFFICES ASSUME pending[u][i + 1].op = "bid"
                   PROVE  OfferReady(u, i)'
      BY <1>4 DEF OfferReady
    <2>2. OfferReady(u, i + 1)
      BY <1>4 DEF Arranged
    <2>3. PICK v : v = pending[u][i + 1] /\ pending'[u][i] = v
      BY <1>4
    <2>4. PICK c \in Ids : opened[c] = v.bid.job /\ ChatAhead(u, (i + 1) - 1, c, v.bid.job)
      BY <2>1, <2>2, <2>3 DEF OfferReady
    <2>5. PICK n \in Int : n = (i + 1) - 1 /\ n - 1 = i - 1
      BY <1>4
    <2>6. ChatAhead(u, n - 1, c, v.bid.job)'
      <3>1. PICK j : j = v.bid.job
        OBVIOUS
      <3>2. ChatAhead(u, n - 1, c, j)'
        BY <2>4, <2>5, <3>1, PopAhead
      <3>3. pending'[u][i].bid.job = j
        BY <2>3, <3>1
      <3> QED
        BY <3>1, <3>2
    <2> QED
      BY <2>1, <2>2, <2>3, <2>4, <2>5, <2>6 DEF OfferReady
  <1>6. ASSUME NEW i \in DOMAIN pending'[u]
        PROVE  RecordReady(u, i)'
    <2>1. RecordReady(u, i + 1)
      BY <1>4 DEF Arranged
    <2>2. /\ i \in Int /\ i >= 1 /\ i + 1 \in DOMAIN pending[u]
          /\ pending'[u][i] = pending[u][i + 1] /\ (i + 1) - 1 = i /\ i + 1 # 1
      BY <1>4
    <2>3. pending[u][i + 1].op = "helpr" =>
            i + 1 \in DOMAIN pending'[u] /\ pending'[u][i + 1] = pending[u][(i + 1) + 1]
      <3>1. SUFFICES ASSUME (i + 1) + 1 \in DOMAIN pending[u]
                     PROVE  i + 1 \in DOMAIN pending'[u]
                            /\ pending'[u][i + 1] = pending[u][(i + 1) + 1]
        BY <2>1 DEF RecordReady
      <3>2. (i + 1) + 1 # 1 /\ ((i + 1) + 1) - 1 = i + 1
        BY <2>2
      <3> QED
        BY <1>3, <3>1, <3>2
    <2>4. i # 1 => pending'[u][i - 1] = pending[u][i]
      <3>1. SUFFICES ASSUME i # 1 PROVE pending'[u][i - 1] = pending[u][i]
        OBVIOUS
      <3>2. i \in DOMAIN pending[u]
        BY <1>1, <2>2
      <3> QED
        BY <1>3, <3>1, <3>2
    <2>5. i = 1 => pending[u][i] = w
      BY <1>2
    <2> QED
      BY <2>1, <2>2, <2>3, <2>4, <2>5 DEF RecordReady, Records
  <1>7. ASSUME NEW x \in Users \ {u}, NEW i \in DOMAIN pending[x]
        PROVE  OfferReady(x, i)' /\ RecordReady(x, i)'
    <2>1. pending'[x] = pending[x] /\ pending[x] \in Seq(Write)
      BY <1>1 DEF TypeOK
    <2>2. OfferReady(x, i) /\ RecordReady(x, i)
      BY DEF Arranged
    <2>3. RecordReady(x, i)'
      BY <2>1, <2>2 DEF RecordReady
    <2>4. ASSUME pending[x][i].op = "bid"
          PROVE  OfferReady(x, i)'
      <3>1. PICK j, n : j = pending[x][i].bid.job /\ n = i - 1 /\ n \in Int
        BY <2>1
      <3>2. PICK c \in Ids : opened[c] = j /\ ChatAhead(x, n, c, j)
        BY <2>2, <2>4, <3>1 DEF OfferReady
      <3>3. ChatAhead(x, n, c, j)'
        BY <3>1, <3>2, PopAhead
      <3> QED
        BY <2>1, <2>2, <2>4, <3>1, <3>2, <3>3 DEF OfferReady
    <2>5. pending[x][i].op # "bid" => OfferReady(x, i)'
      BY <2>1 DEF OfferReady
    <2> QED
      BY <2>3, <2>4, <2>5
  <1> QED
    BY <1>1, <1>5, <1>6, <1>7 DEF Arranged

LEMMA AcknowledgeArranged ==
    ASSUME TypeOK, ConstantsAssumption, Backed, Arranged, NEW u \in Users, Acknowledge(u)
    PROVE  Arranged'
  <1> PICK w : w = Head(pending[u])
    OBVIOUS
  <1>1. /\ pending[u] # << >> /\ pending' = [pending EXCEPT ![u] = Tail(@)]
        /\ opened' = opened /\ bids \subseteq bids' /\ helprs \subseteq helprs'
        /\ w.op = "bid" => w.bid \in bids'
        /\ w.op = "helpr" => w.helpr \in helprs'
        /\ chatJob' = IF w.op = "chat" THEN [chatJob EXCEPT ![w.chat] = w.job]
                      ELSE chatJob
    BY DEF Acknowledge
  <1>2. w.op = "chat" => w.chat \in Ids /\ opened[w.chat] = w.job
    <2>1. pending[u] \in Seq(Write)
      BY DEF TypeOK
    <2>2. w = pending[u][1] /\ 1 \in DOMAIN pending[u] /\ w \in Write
      BY <1>1, <2>1, Popped, QueueTypes
    <2> QED
      BY <2>2, WriteFields DEF Backed, WriteBacked
  <1>3. /\ w.op = "chat" => chatJob'[w.chat] = w.job
        /\ \A c \in Ids : chatJob[c] = opened[c] => chatJob'[c] = opened[c]
    BY <1>1, <1>2 DEF TypeOK
  <1> QED
    BY <1>1, <1>2, <1>3, PopArranged

LEMMA RefuseArranged ==
    ASSUME TypeOK, ConstantsAssumption, Recording, Backed, Arranged,
           NEW u \in Users, Refuse(u)
    PROVE  Arranged'
  <1> PICK w : w = Head(pending[u])
    OBVIOUS
  <1>1. /\ pending[u] # << >> /\ pending' = [pending EXCEPT ![u] = Tail(@)]
        /\ UNCHANGED <<opened, bids, helprs, chatJob>>
        /\ w.op \notin {"chat", "bid", "helpr"}
    BY DEF Refuse, Recording, Sound, server
  <1> QED
    BY <1>1, PopArranged

LEMMA SecondAndThird ==
    ASSUME NEW s \in Seq(Write), s # << >>
    PROVE  /\ Len(Tail(s)) >= 1 <=> 2 \in DOMAIN s
           /\ Len(Tail(s)) >= 2 <=> 3 \in DOMAIN s
           /\ Len(s) >= 2 <=> 2 \in DOMAIN s
           /\ 2 \in DOMAIN s => Tail(s)[1] = s[2]
           /\ 3 \in DOMAIN s => Tail(s)[2] = s[3]
           /\ 3 \in DOMAIN s => 2 \in DOMAIN s
  <1>1. Len(s) \in Nat /\ DOMAIN s = 1..Len(s) /\ Len(Tail(s)) = Len(s) - 1
    OBVIOUS
  <1>2. \A i \in DOMAIN s : i = 1 \/ Tail(s)[i - 1] = s[i]
    BY Popped
  <1>3. 2 - 1 = 1 /\ 3 - 1 = 2
    OBVIOUS
  <1>4. /\ 2 \in DOMAIN s => Tail(s)[1] = s[2]
        /\ 3 \in DOMAIN s => Tail(s)[2] = s[3]
    BY <1>2, <1>3
  <1> QED
    BY <1>1, <1>4

(* A record is complete as soon as its first half comes to the head of the *)
(* queue, which is when the acceptance before it reaches the server.       *)
LEMMA PopAgreed ==
    ASSUME TypeOK, Arranged, NEW u \in Users, pending[u] # << >>,
           NEW w, w = Head(pending[u]),
           pending' = [pending EXCEPT ![u] = Tail(@)],
           helprs' = IF w.op = "helpr" THEN helprs \cup {w.helpr} ELSE helprs,
           acceptedJobs' = IF w.op = "acceptedJob" THEN acceptedJobs \cup {w.helpr}
                           ELSE acceptedJobs
    PROVE  /\ w.op # "accept" => Agreed' = Agreed
           /\ \A h \in JobHelpr :
                /\ w.op = "accept"
                /\ 2 \in DOMAIN pending[u] /\ Records(pending[u][2], "helpr", h)
                => Agreed' = Agreed \cup {h}
  <1>1. /\ pending[u] \in Seq(Write) /\ pending'[u] = Tail(pending[u])
        /\ \A x \in Users \ {u} : pending'[x] = pending[x]
    BY DEF TypeOK
  <1>2. w = pending[u][1] /\ 1 \in DOMAIN pending[u] /\ Len(pending[u]) >= 1
    BY <1>1, Popped
  <1>3. /\ Len(pending'[u]) >= 1 <=> 2 \in DOMAIN pending[u]
        /\ Len(pending'[u]) >= 2 <=> 3 \in DOMAIN pending[u]
        /\ Len(pending[u]) >= 2 <=> 2 \in DOMAIN pending[u]
        /\ 2 \in DOMAIN pending[u] => pending'[u][1] = pending[u][2]
        /\ 3 \in DOMAIN pending[u] => pending'[u][2] = pending[u][3]
        /\ 3 \in DOMAIN pending[u] => 2 \in DOMAIN pending[u]
    BY <1>1, SecondAndThird
  <1>4. helprs \subseteq helprs'
    OBVIOUS
  <1>5. ASSUME NEW x \in Users \ {u}, NEW h
        PROVE  /\ BeingRecorded(x, h) => BeingRecorded(x, h)'
               /\ BeingRecorded(x, h)' =>
                    BeingRecorded(x, h) \/ (w.op = "helpr" /\ h = w.helpr)
    BY <1>1, <1>4 DEF BeingRecorded
  <1>6. RecordReady(u, 1) /\ (2 \in DOMAIN pending[u] => RecordReady(u, 2))
    BY <1>2 DEF Arranged
  <1>7. 2 \in DOMAIN pending[u] =>
          /\ pending[u][2].op = "helpr" =>
               /\ w.op = "accept"
               /\ 3 \in DOMAIN pending[u]
               /\ Records(pending[u][3], "acceptedJob", pending[u][2].helpr)
          /\ pending[u][2].op = "acceptedJob" => Records(w, "helpr", pending[u][2].helpr)
    BY <1>2, <1>6, 2 # 1, 2 - 1 = 1, 2 + 1 = 3 DEF RecordReady
  <1>8. CASE w.op \notin {"accept", "helpr", "acceptedJob"}
    <2>1. ASSUME NEW h PROVE ~ BeingRecorded(u, h) /\ ~ BeingRecorded(u, h)'
      BY <1>2, <1>3, <1>7, <1>8 DEF BeingRecorded, Records
    <2>2. Agreed' = Agreed
      BY <1>5, <1>8, <2>1 DEF Agreed
    <2> QED
      BY <1>8, <2>2
  <1>9. CASE w.op = "helpr"
    <2>1. /\ 2 \in DOMAIN pending[u] /\ Records(pending[u][2], "acceptedJob", w.helpr)
      BY <1>2, <1>6, <1>9, 1 + 1 = 2 DEF RecordReady
    <2>2. BeingRecorded(u, w.helpr) /\ BeingRecorded(u, w.helpr)'
      BY <1>2, <1>3, <1>9, <2>1 DEF BeingRecorded, Records
    <2>3. ASSUME NEW h, h # w.helpr
          PROVE  ~ BeingRecorded(u, h) /\ ~ BeingRecorded(u, h)'
      BY <1>2, <1>3, <1>9, <2>1, <2>3 DEF BeingRecorded, Records
    <2>4. ASSUME NEW h \in JobHelpr PROVE h \in Agreed' <=> h \in Agreed
      <3>1. CASE h = w.helpr
        BY <2>2, <3>1 DEF Agreed
      <3>2. CASE h # w.helpr
        BY <1>5, <1>9, <2>3, <3>2 DEF Agreed
      <3> QED
        BY <3>1, <3>2
    <2> QED
      BY <1>9, <2>4 DEF Agreed
  <1>10. CASE w.op = "acceptedJob"
    <2>1. w.helpr \in helprs
      BY <1>2, <1>6, <1>10 DEF RecordReady
    <2>2. BeingRecorded(u, w.helpr)
      BY <1>2, <1>10, <2>1 DEF BeingRecorded, Records
    <2>3. ASSUME NEW h PROVE ~ BeingRecorded(u, h)'
      BY <1>2, <1>3, <1>7, <1>10 DEF BeingRecorded, Records
    <2>4. ASSUME NEW h, h # w.helpr PROVE ~ BeingRecorded(u, h)
      BY <1>2, <1>10, <2>4 DEF BeingRecorded, Records
    <2>5. ASSUME NEW h \in JobHelpr PROVE h \in Agreed' <=> h \in Agreed
      <3>1. CASE h = w.helpr
        BY <1>10, <2>1, <2>2, <3>1 DEF Agreed
      <3>2. CASE h # w.helpr
        BY <1>5, <1>10, <2>3, <2>4, <3>2 DEF Agreed
      <3> QED
        BY <3>1, <3>2
    <2> QED
      BY <1>10, <2>5 DEF Agreed
  <1>11. ASSUME NEW h \in JobHelpr, w.op = "accept",
                2 \in DOMAIN pending[u], Records(pending[u][2], "helpr", h)
         PROVE  Agreed' = Agreed \cup {h}
    <2>1. 3 \in DOMAIN pending[u] /\ Records(pending[u][3], "acceptedJob", h)
      BY <1>7, <1>11 DEF Records
    <2>2. BeingRecorded(u, h)'
      BY <1>3, <1>11, <2>1 DEF BeingRecorded, Records
    <2>3. ASSUME NEW g PROVE ~ BeingRecorded(u, g)
      BY <1>2, <1>11 DEF BeingRecorded, Records
    <2>4. ASSUME NEW g, g # h PROVE ~ BeingRecorded(u, g)'
      BY <1>3, <1>11, <2>1, <2>4 DEF BeingRecorded, Records
    <2>5. ASSUME NEW g \in JobHelpr PROVE g \in Agreed' <=> g \in Agreed \/ g = h
      <3>1. CASE g = h
        BY <2>2, <3>1 DEF Agreed
      <3>2. CASE g # h
        BY <1>5, <1>11, <2>3, <2>4, <3>2 DEF Agreed
      <3> QED
        BY <3>1, <3>2
    <2> QED
      BY <2>5 DEF Agreed
  <1> QED
    BY <1>8, <1>9, <1>10, <1>11

-----------------------------------------------------------------------------
(* What readers of the database see of each write that arrives.            *)
LEMMA AtHead ==
    ASSUME TypeOK, NEW u \in Users, pending[u] # << >>
    PROVE  /\ Head(pending[u]) \in Write /\ Head(pending[u]) = pending[u][1]
           /\ 1 \in DOMAIN pending[u]
           /\ \A c, j : ChatAhead(u, 0, c, j) => chatJob[c] = j
           /\ \A j, b : BidAhead(u, 0, j, b) => BidOnServer(j, b)
  <1>1. pending[u] \in Seq(Write) /\ \A i \in DOMAIN pending[u] : ~ (i <= 0)
    BY DEF TypeOK
  <1>2. /\ Head(pending[u]) \in Write /\ Head(pending[u]) = pending[u][1]
        /\ 1 \in DOMAIN pending[u]
    BY <1>1, Popped, QueueTypes
  <1> QED
    BY <1>1, <1>2 DEF ChatAhead, BidAhead, Queued

LEMMA ChatDeals ==
    ASSUME TypeOK, ConstantsAssumption, Backed, NEW u \in Users, Acknowledge(u),
           NEW w, w = Head(pending[u]), w.op = "chat", Agreed' = Agreed
    PROVE  \E c \in Ids, j \in Jobs : Deal!Propose(c, j)
  <1>1. w \in Write /\ w = pending[u][1] /\ 1 \in DOMAIN pending[u]
    BY AtHead DEF Acknowledge
  <1>2. w.chat \in Ids /\ w.job \in Jobs /\ opened[w.chat] = w.job
    BY <1>1, WriteFields DEF Backed, WriteBacked
  <1>3. chatJob[w.chat] \in {NoJob, w.job}
    BY <1>2 DEF Backed
  <1>4. /\ chatJob' = [chatJob EXCEPT ![w.chat] = w.job]
        /\ accepted' = accepted \ {w.chat}
        /\ bids' = bids /\ convs' = convs
    BY DEF Acknowledge
  <1>5. Deal!Propose(w.chat, w.job)
    BY <1>3, <1>4 DEF Deal!Propose, OffersMade, RowsListed
  <1> QED
    BY <1>2, <1>5

LEMMA BidDeals ==
    ASSUME TypeOK, ConstantsAssumption, Arranged, NEW u \in Users, Acknowledge(u),
           NEW w, w = Head(pending[u]), w.op = "bid", Agreed' = Agreed
    PROVE  \E o \in Deal!Offer : Deal!MakeOffer(o)
  <1>1. w \in Write /\ w = pending[u][1] /\ 1 \in DOMAIN pending[u]
    BY AtHead DEF Acknowledge
  <1>2. w.bid \in BidDoc
    BY <1>1, WriteFields
  <1> DEFINE o == [job |-> w.bid.job, user |-> w.bid.bidder]
  <1>3. o \in Deal!Offer
    BY <1>2 DEF BidDoc, Deal!Offer
  <1>4. OfferReady(u, 1)
    BY <1>1 DEF Arranged
  <1>5. /\ o.user # PosterOf[o.job]
        /\ \E c \in Ids : ChatAhead(u, 0, c, o.job)
    BY <1>1, <1>4, 1 - 1 = 0 DEF OfferReady
  <1>6. \E c \in Ids : chatJob[c] = o.job
    BY <1>5, AtHead DEF Acknowledge
  <1>7. bids' = bids \cup {w.bid} /\ UNCHANGED <<chatJob, accepted, convs>>
    BY DEF Acknowledge
  <1>8. OffersMade' = OffersMade \cup {o}
    BY <1>7 DEF OffersMade
  <1> HIDE DEF o
  <1>9. Deal!MakeOffer(o)
    BY <1>5, <1>6, <1>7, <1>8 DEF Deal!MakeOffer, RowsListed
  <1> QED
    BY <1>3, <1>9

LEMMA ConvDeals ==
    ASSUME TypeOK, ConstantsAssumption, Backed, NEW f, Paired(f), AgreedOn(f),
           NEW u \in Users, Acknowledge(u),
           NEW w, w = Head(pending[u]), w.op = "conv", Agreed' = Agreed
    PROVE  \/ UNCHANGED <<chatJob, OffersMade, RowsListed, accepted, Agreed>>
           \/ \E r \in Deal!Row, o \in OffersMade : Deal!List(r, o)
  <1>1. w \in Write /\ w = pending[u][1] /\ 1 \in DOMAIN pending[u]
    BY AtHead DEF Acknowledge
  <1>2. PICK v \in ConvDoc : v = w.conv
    BY <1>1, WriteFields
  <1>3. /\ convs' = convs \cup {v} /\ UNCHANGED <<chatJob, accepted, bids>>
    BY <1>2 DEF Acknowledge
  <1>4. CASE v \in convs
    BY <1>3, <1>4 DEF RowsListed, OffersMade
  <1>5. CASE v \notin convs
    <2> DEFINE r == [chat |-> v.chat, owner |-> v.owner, partner |-> v.partner]
               o == [job |-> v.job, user |-> u]
    <2>1. r \in Deal!Row
      BY DEF ConvDoc, Deal!Row
    <2>2. /\ opened[v.chat] = v.job /\ Parties(v, u)
          /\ ChatAhead(u, 0, v.chat, v.job) /\ BidAhead(u, 0, v.job, u)
      BY <1>1, <1>2, 1 - 1 = 0 DEF Backed, WriteBacked
    <2>3. chatJob[v.chat] = v.job /\ BidOnServer(v.job, u)
      BY <2>2, AtHead DEF Acknowledge
    <2>4. o \in OffersMade
      BY <2>3 DEF BidOnServer, OwnBid, OffersMade
    <2>5. v \in QueuedConvs(u) /\ v \in SeenConvs(u)
      BY <1>1, <1>2 DEF QueuedConvs, SeenConvs, Queued
    <2>6. f[v.chat] = u
      BY <2>5 DEF Paired
    <2>7. {v.owner, v.partner} = {PosterOf[v.job], u}
      BY <2>2 DEF Parties
    <2>8. ASSUME NEW x \in convs, x.chat = v.chat
          PROVE  {x.owner, x.partner} = {PosterOf[v.job], u} /\ x.owner # v.owner
      <3>1. OfChat(f, x)
        BY DEF Paired
      <3>2. {x.owner, x.partner} = {PosterOf[v.job], u}
        BY <2>2, <2>6, <2>8, <3>1 DEF OfChat, Parties
      <3>3. x \in SeenConvs(u)
        BY DEF SeenConvs
      <3>4. x.owner = v.owner => x = v
        BY <2>5, <2>8, <3>3 DEF Paired, SameRow
      <3> QED
        BY <1>5, <3>2, <3>4
    <2>9. v.chat \in accepted => o \in Agreed
      BY <2>2, <2>6 DEF AgreedOn, HelprFor
    <2>10. RowsListed' = RowsListed \cup {r}
      BY <1>3 DEF RowsListed
    <2>11. \A s \in RowsListed : s.chat = r.chat =>
             {s.owner, s.partner} = {r.owner, r.partner} /\ s.owner # r.owner
      BY <2>7, <2>8 DEF RowsListed
    <2>12. r.chat = v.chat /\ o.job = v.job /\ o.user = u
           /\ {r.owner, r.partner} = {PosterOf[o.job], o.user}
      BY <2>7
    <2> HIDE DEF r, o
    <2>13. Deal!List(r, o)
      BY <1>3, <2>3, <2>4, <2>9, <2>10, <2>11, <2>12
      DEF Deal!List, Deal!Sides, OffersMade
    <2> QED
      BY <2>1, <2>4, <2>13
  <1> QED
    BY <1>4, <1>5

LEMMA AcceptDeals ==
    ASSUME TypeOK, ConstantsAssumption, Backed, Arranged, NEW f, Paired(f), Signed(f),
           NEW u \in Users, Acknowledge(u),
           NEW w, w = Head(pending[u]), w.op = "accept"
    PROVE  /\ w.chat \in Ids /\ opened[w.chat] # NoJob
           /\ Agreed' = Agreed \cup {HelprFor(f, w.chat)}
           /\ \E c \in Ids, o \in OffersMade : Deal!Agree(c, o)
  <1>1. w \in Write /\ w = pending[u][1] /\ 1 \in DOMAIN pending[u]
    BY AtHead DEF Acknowledge
  <1>2. PICK c \in Ids : c = w.chat
    BY <1>1, WriteFields
  <1>3. 1 \in Queued(u, "accept")
    BY <1>1 DEF Queued
  <1> DEFINE h == HelprFor(f, c)
  <1>4. /\ opened[c] # NoJob /\ ChatAhead(u, 0, c, opened[c])
        /\ 2 \in Queued(u, "helpr") /\ pending[u][2].helpr = h
    BY <1>1, <1>2, <1>3, 1 - 1 = 0, 1 + 1 = 2 DEF Signed, AcceptQueued
  <1>5. 2 \in DOMAIN pending[u] /\ Records(pending[u][2], "helpr", h)
    BY <1>4 DEF Queued, Records
  <1>6. h \in JobHelpr
    <2>1. pending[u][2] \in Write /\ pending[u][2].op = "helpr"
      BY <1>5 DEF TypeOK, Records
    <2> QED
      BY <1>4, <2>1, WriteFields
  <1>7. /\ pending[u] # << >> /\ pending' = [pending EXCEPT ![u] = Tail(@)]
        /\ UNCHANGED <<helprs, acceptedJobs, chatJob, bids, convs>>
        /\ accepted' = accepted \cup {c}
    BY <1>2 DEF Acknowledge
  <1>8. Agreed' = Agreed \cup {h}
    BY <1>5, <1>6, <1>7, PopAgreed
  <1>9. chatJob[c] = h.job
    BY <1>4, <1>7, AtHead DEF HelprFor
  <1>10. h \in OffersMade
    <2>1. BidAhead(u, 1, h.job, h.user)
      BY <1>4, <1>5, 2 - 1 = 1 DEF Backed, WriteBacked, Records
    <2>2. \A i \in Queued(u, "bid") : ~ (i <= 1)
      <3>1. \A i \in DOMAIN pending[u] : i <= 1 => i = 1
        BY DEF TypeOK
      <3> QED
        BY <1>1, <3>1 DEF Queued
    <2>3. BidOnServer(h.job, h.user)
      BY <2>1, <2>2 DEF BidAhead
    <2>4. h = [job |-> h.job, user |-> h.user]
      BY DEF HelprFor
    <2> QED
      BY <2>3, <2>4 DEF BidOnServer, OwnBid, OffersMade
  <1>11. \A r \in RowsListed : r.chat = c => h.user \in {r.owner, r.partner}
    BY DEF RowsListed, Paired, OfChat, Parties, HelprFor
  <1> HIDE DEF h
  <1>12. Deal!Agree(c, h)
    BY <1>7, <1>8, <1>9, <1>10, <1>11 DEF Deal!Agree, Deal!Sides, OffersMade, RowsListed
  <1> QED
    BY <1>2, <1>4, <1>8, <1>10, <1>12 DEF h

-----------------------------------------------------------------------------
(* Steps of the phones, and refusals, show nothing to the readers.         *)
LEMMA QuietStep ==
    ASSUME TypeOK, ConstantsAssumption, Dealing, Backed, Arranged, NEW f, Paired(f),
           [Next]_vars, \A u \in Users : ~ Acknowledge(u)
    PROVE  UNCHANGED server /\ Arranged' /\ Agreed' = Agreed
  <1>1. \A c \in Ids : opened[c] # NoJob => opened'[c] = opened[c]
    BY OpenedStays
  <1>2. Sound /\ Recording
    BY DEF Dealing, Recording
  <1>3. ASSUME NEW u \in Users, UserStep(u) \/ Answer(u)
        PROVE  UNCHANGED server /\ Arranged' /\ Agreed' = Agreed
    <2>1. PICK t \in Seq(Write) : Appends(u, t)
      BY <1>2, <1>3, StepAppends
    <2>2. Arranged'
      BY <1>1, <2>1, AppendArranged
    <2>3. Agreed' = Agreed
      BY <2>1, AppendAgreed
    <2> QED
      BY <2>1, <2>2, <2>3 DEF Appends
  <1>4. ASSUME NEW u \in Users, Refuse(u)
        PROVE  UNCHANGED server /\ Arranged' /\ Agreed' = Agreed
    <2>1. Arranged'
      BY <1>2, <1>4, RefuseArranged
    <2>2. PICK w : w = Head(pending[u])
      OBVIOUS
    <2>3. /\ pending[u] # << >> /\ pending' = [pending EXCEPT ![u] = Tail(@)]
          /\ UNCHANGED server /\ UNCHANGED <<helprs, acceptedJobs>>
          /\ w.op \notin {"accept", "helpr", "acceptedJob"}
      BY <1>4, <2>2 DEF Refuse, Dealing, Recording, server
    <2>4. Agreed' = Agreed
      BY <2>2, <2>3, PopAgreed
    <2> QED
      BY <2>1, <2>3, <2>4
  <1>5. ASSUME NEW u \in Users, Crash(u) PROVE FALSE
    BY <1>2, <1>5 DEF Crash, Recording, TypeOK
  <1>6. CASE UNCHANGED vars
    <2>1. UNCHANGED server /\ UNCHANGED <<pending, opened, bids, helprs, acceptedJobs, chatJob>>
      BY <1>6 DEF vars, server
    <2>2. Arranged'
      BY <2>1 DEF Arranged, OfferReady, RecordReady, ChatAhead, Queued
    <2>3. Agreed' = Agreed
      BY <2>1 DEF Agreed, BeingRecorded
    <2> QED
      BY <2>1, <2>2, <2>3
  <1> QED
    BY <1>3, <1>4, <1>5, <1>6 DEF Next

LEMMA ArrivalAgreed ==
    ASSUME TypeOK, Arranged, NEW u \in Users, Acknowledge(u),
           NEW w, w = Head(pending[u]), w.op # "accept"
    PROVE  Agreed' = Agreed
  <1>1. /\ pending[u] # << >> /\ pending' = [pending EXCEPT ![u] = Tail(@)]
        /\ helprs' = IF w.op = "helpr" THEN helprs \cup {w.helpr} ELSE helprs
        /\ acceptedJobs' = IF w.op = "acceptedJob" THEN acceptedJobs \cup {w.helpr}
                           ELSE acceptedJobs
    BY DEF Acknowledge
  <1> QED
    BY <1>1, PopAgreed

(* Each write that arrives is a step of the negotiation or none.           *)
LEMMA ArrivalDeals ==
    ASSUME TypeOK, ConstantsAssumption, Backed, Arranged,
           NEW f, Paired(f), Signed(f), AgreedOn(f), NEW u \in Users, Acknowledge(u)
    PROVE  [Deal!Next]_(Deal!vars)
  <1>1. PICK w : w = Head(pending[u])
    OBVIOUS
  <1>2. CASE w.op = "accept"
    <2>1. \E c \in Ids, o \in OffersMade : Deal!Agree(c, o)
      BY <1>1, <1>2, AcceptDeals
    <2> QED
      BY <2>1 DEF Deal!Next
  <1>3. CASE w.op # "accept"
    <2>1. Agreed' = Agreed
      BY <1>1, <1>3, ArrivalAgreed
    <2>2. CASE w.op = "chat"
      <3>1. \E c \in Ids, j \in Jobs : Deal!Propose(c, j)
        BY <1>1, <2>1, <2>2, ChatDeals
      <3> QED
        BY <3>1 DEF Deal!Next
    <2>3. CASE w.op = "bid"
      <3>1. \E o \in Deal!Offer : Deal!MakeOffer(o)
        BY <1>1, <2>1, <2>3, BidDeals
      <3> QED
        BY <3>1 DEF Deal!Next
    <2>4. CASE w.op = "conv"
      <3>1. \/ UNCHANGED <<chatJob, OffersMade, RowsListed, accepted, Agreed>>
            \/ \E r \in Deal!Row, o \in OffersMade : Deal!List(r, o)
        BY <1>1, <2>1, <2>4, ConvDeals
      <3> QED
        BY <3>1 DEF Deal!Next, Deal!vars
    <2>5. CASE w.op \notin {"chat", "bid", "conv"}
      <3>1. UNCHANGED <<chatJob, accepted, bids, convs>>
        BY <1>1, <1>3, <2>5 DEF Acknowledge
      <3> QED
        BY <2>1, <3>1 DEF OffersMade, RowsListed, Deal!vars
    <2> QED
      BY <2>2, <2>3, <2>4, <2>5
  <1> QED
    BY <1>2, <1>3

LEMMA StepDeals ==
    ASSUME TypeOK, ConstantsAssumption, Dealing, Backed, Arranged,
           NEW f, Paired(f), Signed(f), AgreedOn(f), [Next]_vars
    PROVE  [Deal!Next]_(Deal!vars)
  <1>1. CASE \A u \in Users : ~ Acknowledge(u)
    <2>1. UNCHANGED server /\ Agreed' = Agreed
      BY <1>1, QuietStep
    <2>2. UNCHANGED <<chatJob, accepted, bids, convs>>
      BY <2>1 DEF server
    <2> QED
      BY <2>1, <2>2 DEF OffersMade, RowsListed, Deal!vars
  <1>2. CASE \E u \in Users : Acknowledge(u)
    BY <1>2, ArrivalDeals
  <1> QED
    BY <1>1, <1>2

(* The records of every accepted chat stay complete.                       *)
LEMMA StepAgreedOn ==
    ASSUME TypeOK, ConstantsAssumption, Dealing, Backed, Arranged,
           NEW f, Paired(f), Signed(f), AgreedOn(f), [Next]_vars, NEW g, Keeps(f, g)
    PROVE  Arranged' /\ AgreedOn(g)'
  <1>1. \A c \in Ids : opened[c] # NoJob => HelprFor(g, c)' = HelprFor(f, c)
    BY OpenedStays DEF Keeps, HelprFor
  <1>2. \A c \in accepted : c \in Ids /\ opened[c] # NoJob /\ HelprFor(f, c) \in Agreed
    BY DEF Signed, Recorded, AgreedOn, TypeOK
  <1>3. CASE \A u \in Users : ~ Acknowledge(u)
    <2>1. Arranged' /\ Agreed' = Agreed /\ accepted' = accepted
      BY <1>3, QuietStep DEF server
    <2> QED
      BY <1>1, <1>2, <2>1 DEF AgreedOn
  <1>4. ASSUME NEW u \in Users, Acknowledge(u)
        PROVE  Arranged' /\ AgreedOn(g)'
    <2>1. Arranged'
      BY <1>4, AcknowledgeArranged
    <2>2. PICK w : w = Head(pending[u])
      OBVIOUS
    <2>3. CASE w.op # "accept"
      <3>1. Agreed' = Agreed /\ accepted' \subseteq accepted
        BY <1>4, <2>2, <2>3, ArrivalAgreed DEF Acknowledge
      <3> QED
        BY <1>1, <1>2, <2>1, <3>1 DEF AgreedOn
    <2>4. CASE w.op = "accept"
      <3>1. /\ w.chat \in Ids /\ opened[w.chat] # NoJob
            /\ Agreed' = Agreed \cup {HelprFor(f, w.chat)}
        BY <1>4, <2>2, <2>4, AcceptDeals
      <3>2. accepted' = accepted \cup {w.chat}
        BY <1>4, <2>2, <2>4 DEF Acknowledge
      <3> QED
        BY <1>1, <1>2, <2>1, <3>1, <3>2 DEF AgreedOn
    <2> QED
      BY <2>3, <2>4
  <1> QED
    BY <1>3, <1>4

DealInv == Dealing /\ \E f : Paired(f) /\ Signed(f) /\ Arranged /\ AgreedOn(f)

LEMMA AlwaysDealing == Dealing /\ Spec => []DealInv
  <1>1. Dealing /\ Init => DealInv
    BY ConstantsAssumption, InitPaired, InitSigned, InitArranged DEF DealInv
  <1>2. TypeOK /\ TypeOK' /\ Backed /\ DealInv /\ [Next]_vars => DealInv'
    <2> SUFFICES ASSUME TypeOK, TypeOK', Backed, Dealing, [Next]_vars,
                        NEW f, Paired(f), Signed(f), Arranged, AgreedOn(f)
                 PROVE  Dealing' /\ \E g : Paired(g)' /\ Signed(g)' /\ Arranged' /\ AgreedOn(g)'
      BY DEF DealInv
    <2>1. Dealing' /\ Recording
      BY DEF Dealing, Recording, Sound
    <2>2. PICK g : Paired(g)' /\ Keeps(f, g)
      BY ConstantsAssumption, <2>1, NextPaired DEF Recording, Sound, DistinctNumbers
    <2>3. Signed(g)'
      BY <2>1, <2>2, ConstantsAssumption, NextSigned
    <2>4. Arranged' /\ AgreedOn(g)'
      BY <2>2, ConstantsAssumption, StepAgreedOn
    <2> QED
      BY <2>1, <2>2, <2>3, <2>4
  <1>3. Dealing => Sound
    BY DEF Dealing, Recording
  <1> QED
    BY <1>1, <1>2, <1>3, TypeCorrect, AlwaysBacked, PTL DEF Spec

(* Bidding implements the negotiation, in which an acceptance and its      *)
(* records are one step and a row is listed when there is something to     *)
(* load behind it, although each document is written for itself and rows   *)
(* are entered by look-ups of both phones - as long as no phone loses its  *)
(* queue, job numbers are unique, and neither chats, bids, acceptances nor *)
(* their records are refused (DatabaseHelper:80-202 and 432-442,           *)
(* BidViewController:187-188).                                             *)
THEOREM ImplementsTheNegotiation == Dealing /\ Spec => ImplementsNegotiation
  <1>1. Init => Deal!Init
    BY DEF Init, Deal!Init, OffersMade, RowsListed, Agreed, BeingRecorded
  <1>2. TypeOK /\ Backed /\ DealInv /\ [Next]_vars => [Deal!Next]_(Deal!vars)
    BY ConstantsAssumption, StepDeals DEF DealInv
  <1>3. Dealing => Sound
    BY DEF Dealing, Recording
  <1> QED
    BY <1>1, <1>2, <1>3, AlwaysDealing, TypeCorrect, AlwaysBacked, PTL
    DEF Spec, ImplementsNegotiation, Deal!Spec
=============================================================================
