--------------------------- MODULE BidNegotiation ---------------------------
(***************************************************************************)
(* Bidding on a job: the Bid screen (BidViewController), the part of       *)
(* DatabaseHelper it calls (createBid, getBidAmt, acceptedJob, rejectBid)  *)
(* and the Firestore documents they share.                                 *)
(*                                                                         *)
(* Every phone keeps a queue of writes it has issued and the server has    *)
(* not acknowledged; the server takes them in order, one at a time.  A     *)
(* query is answered later than it is asked, with the server's documents   *)
(* of that moment overlaid with the phone's own queued writes, or, when    *)
(* the server is out of reach, with what the phone's cache holds of them.  *)
(* The code that asked runs on with the answer, so every point where the   *)
(* source waits for a completion block separates two actions here.         *)
(*                                                                         *)
(* A tick of the clock, now, stands for a Date() and for the UUIDs made    *)
(* with it: the tick of a createBid call names its bid document, its       *)
(* message and its conversation documents, and dates the bid.  Every tap   *)
(* that sends something takes one.                                         *)
(***************************************************************************)
EXTENDS Integers, Sequences, FiniteSets

CONSTANTS
    Users,       \* the signed-in users, one phone each
    Jobs,        \* the job documents, each under its Firebase ID
    PosterOf,    \* the posterID of a job ("email" in JobInformation)
    JobNum,      \* the numeric id of a job, which the app allocates itself
    NoUser, NoJob,
    Refusable,   \* the kinds of write the server may refuse for good
    MaxId,       \* bound: ticks of the clock
    MaxCrashes,  \* bound: times a phone loses its memory
    MaxQueue     \* bound: writes still queued when a user taps a button

WriteKinds == {"chat", "message", "bid", "conv", "active",
               "accept", "helpr", "acceptedJob"}

ASSUME ConstantsAssumption ==
    /\ PosterOf \in [Jobs -> Users]
    /\ JobNum \in [Jobs -> Nat]
    /\ NoUser \notin Users
    /\ NoJob \notin Jobs
    /\ Refusable \subseteq WriteKinds
    /\ MaxId \in Nat
    /\ MaxCrashes \in Nat
    /\ MaxQueue \in Nat

VARIABLES
    \* The documents on the server.
    chatJob,      \* chats/{c}.jobFirebaseID, NoJob when there is no document
    accepted,     \* the chats whose "accepted" is true
    messages,     \* chats/{chat}/messages/{id}, by its sender
    bids,         \* jobs/{job}/bidders/{bidder}/bids/{id}
    convs,        \* users/{owner}/conversations/{doc}, all but "active"
    active,       \* the conversation documents whose "active" is true
    helprs,       \* jobs/{job}/helprs/{user}
    acceptedJobs, \* users/{user}/acceptedJobs/{job}
    \* The phones.
    pending,      \* each phone's queue of unacknowledged writes
    calls,        \* each phone's queries that have not been answered
    screen,       \* each phone's Bid screen
    now,
    crashes,
    \* History: what the properties compare the documents with.
    opened,       \* the job a chat's UUID was generated for
    agreements,   \* what a user who tapped Accept had on the screen
    missed,       \* the chats of createBid calls that did not get the poster
    died          \* the users whose app was killed or died of a trap

server == <<chatJob, accepted, messages, bids, convs, active, helprs, acceptedJobs>>
history == <<opened, agreements, missed, died>>
vars == <<server, pending, calls, screen, now, crashes, history>>

-----------------------------------------------------------------------------
Ids == 1..MaxId
DocIds == Ids \X {"own", "poster"}

MessageDoc == [id: Ids, chat: Ids, by: Users]
(* by, who made the bid, is history: the document does not say.            *)
BidDoc     == [id: Ids, job: Jobs, bidder: Users, by: Users]
ConvDoc    == [doc: DocIds, owner: Users, partner: Users, chat: Ids, job: Jobs]
JobHelpr   == [job: Jobs, user: Users]
Agreement  == [chat: Ids, bid: Ids, by: Users]

Write ==
    [op: {"chat"}, chat: Ids, job: Jobs]
    \cup [op: {"message"}, message: MessageDoc]
    \cup [op: {"bid"}, bid: BidDoc]
    \cup [op: {"conv"}, conv: ConvDoc]
    \cup [op: {"active"}, docs: SUBSET DocIds, value: BOOLEAN]
    \cup [op: {"accept"}, chat: Ids]
    \cup [op: {"helpr"}, helpr: JobHelpr]
    \cup [op: {"acceptedJob"}, helpr: JobHelpr]

(* A query in flight.  "chatOf" looks for the chat of a new bid, "own" and *)
(* "poster" are createBid's two look-ups and "reject" one of rejectBid's.  *)
(* n tells the query from others like it.                                  *)
Call ==
    [kind: {"chatOf"}, n: Ids, chat: {0}, job: Jobs, owner: Users]
    \cup [kind: {"own", "poster", "reject"}, n: Ids, chat: Ids, job: Jobs, owner: Users]

(* The Bid screen of a conversation; the one opened from a job's details   *)
(* has no state but the job and is part of PlaceBid.                       *)
Screen == [job: Jobs, chat: Ids, partner: Users, bid: Ids]
NoScreen == [job |-> NoJob, chat |-> 0, partner |-> NoUser, bid |-> 0]

TypeOK ==
    /\ chatJob \in [Ids -> Jobs \cup {NoJob}]
    /\ accepted \subseteq Ids
    /\ messages \subseteq MessageDoc
    /\ bids \subseteq BidDoc
    /\ convs \subseteq ConvDoc
    /\ active \subseteq DocIds
    /\ helprs \subseteq JobHelpr
    /\ acceptedJobs \subseteq JobHelpr
    /\ pending \in [Users -> Seq(Write)]
    /\ calls \in [Users -> SUBSET Call]
    /\ screen \in [Users -> Screen \cup {NoScreen}]
    /\ now \in 0..MaxId
    /\ crashes \in 0..MaxCrashes
    /\ opened \in [Ids -> Jobs \cup {NoJob}]
    /\ agreements \subseteq Agreement
    /\ missed \subseteq Ids
    /\ died \subseteq Users

Init ==
    /\ chatJob = [c \in Ids |-> NoJob]
    /\ accepted = {} /\ messages = {} /\ bids = {} /\ convs = {} /\ active = {}
    /\ helprs = {} /\ acceptedJobs = {}
    /\ pending = [u \in Users |-> << >>]
    /\ calls = [u \in Users |-> {}]
    /\ screen = [u \in Users |-> NoScreen]
    /\ now = 0
    /\ crashes = 0
    /\ opened = [c \in Ids |-> NoJob]
    /\ agreements = {} /\ missed = {} /\ died = {}

-----------------------------------------------------------------------------
(* What a phone sees: the server's documents under its own queued writes.  *)

Queued(u, op) == {i \in DOMAIN pending[u] : pending[u][i].op = op}

SeenBids(u) == bids \cup {pending[u][i].bid : i \in Queued(u, "bid")}

SeenConvs(u) == convs \cup {pending[u][i].conv : i \in Queued(u, "conv")}

(* What of it the phone finds in its cache when the server is out of reach:*)
(* its user's own list, and for a bidder the poster's entries too, which   *)
(* that phone wrote itself.                                                *)
HeldConvs(u) == {v \in SeenConvs(u) : v.owner \in {u, PosterOf[v.job]}}

SeenChatJob(u, c) ==
    LET writes == {i \in Queued(u, "chat") : pending[u][i].chat = c}
        last == CHOOSE i \in writes : \A k \in writes : k <= i
    IN  IF writes = {} THEN chatJob[c] ELSE pending[u][last].job

(* The user whose bids u reads in a conversation on job j with partner p.  *)
BidderFor(u, j, p) == IF PosterOf[j] = u THEN p ELSE u

(* getBidAmt: the newest of the bids that answer its query for the chat's  *)
(* job and that user; empty where the code would unwrap a nil Bid.         *)
LatestBid(u, c, p, answer) ==
    LET j == SeenChatJob(u, c)
        mine == {b \in answer : b.job = j /\ b.bidder = BidderFor(u, j, p)}
    IN  IF j = NoJob THEN {} ELSE {b \in mine : \A x \in mine : x.id <= b.id}

-----------------------------------------------------------------------------
(* Mutants: the bid always filed under the partner, under the poster, or   *)
(* not at all.                                                             *)
BidWritesUnderPartner(u, j, p, c, n) ==
    << [op |-> "chat", chat |-> c, job |-> j],
       [op |-> "message", message |-> [id |-> n, chat |-> c, by |-> u]],
       [op |-> "bid", bid |-> [id |-> n, job |-> j, bidder |-> p, by |-> u]] >>
BidWritesUnderPoster(u, j, p, c, n) ==
    BidWritesUnderPartner(u, j, PosterOf[j], c, n)
BidWritesWithoutBid(u, j, p, c, n) ==
    SubSeq(BidWritesUnderPartner(u, j, p, c, n), 1, 2)

(* The writes of one createBid call, in the order it issues them.          *)
BidWrites(u, j, p, c, n) ==
    << [op |-> "chat", chat |-> c, job |-> j],
       [op |-> "message", message |-> [id |-> n, chat |-> c, by |-> u]],
       [op |-> "bid", bid |-> [id |-> n, job |-> j, by |-> u,
                               bidder |-> IF u # PosterOf[j] THEN u ELSE p]] >>

(* Mutants: one list forgotten; both look-ups in the caller's list.        *)
BidCallsOwnOnly(u, j, c, n) ==
    {[kind |-> "own", n |-> n, chat |-> c, job |-> j, owner |-> u]}
BidCallsInOwnList(u, j, c, n) ==
    BidCallsOwnOnly(u, j, c, n)
    \cup {[kind |-> "poster", n |-> n, chat |-> c, job |-> j, owner |-> u]}

(* The queries it leaves running: the conversation in the caller's list    *)
(* and the one in the poster's.                                            *)
BidCalls(u, j, c, n) ==
    {[kind |-> "own", n |-> n, chat |-> c, job |-> j, owner |-> u],
     [kind |-> "poster", n |-> n, chat |-> c, job |-> j, owner |-> PosterOf[j]]}

MayTap(u) == Len(pending[u]) <= MaxQueue

CloseScreen(u) == screen' = [screen EXCEPT ![u] = NoScreen]

-----------------------------------------------------------------------------
(* Screens.                                                                *)

(* A row of the message list that takes the chat for not accepted.  Row and*)
(* bid are the list's own copies, as old as its listeners' last calls and  *)
(* its last queries: the conversation may have been left and the chat      *)
(* accepted since, and the bid is any the phone knew.  With no bid yet the *)
(* Bid screen traps (BidViewController:97), which is a Crash.              *)
OpenConversation(u, v) ==
    /\ screen[u] = NoScreen
    /\ v \in SeenConvs(u)
    /\ v.owner = u
    /\ \E b \in SeenBids(u) :
         /\ b.job \in {v.job, SeenChatJob(u, v.chat)}
         /\ b.bidder = BidderFor(u, b.job, v.partner)
         /\ screen' = [screen EXCEPT ![u] =
              [job |-> v.job, chat |-> v.chat, partner |-> v.partner, bid |-> b.id]]
    /\ UNCHANGED <<server, pending, calls, now, crashes, history>>

Cancel(u) ==
    /\ screen[u] # NoScreen
    /\ CloseScreen(u)
    /\ UNCHANGED <<server, pending, calls, now, crashes, history>>

-----------------------------------------------------------------------------
(* Bidding.                                                                *)

(* Place Bid on the screen opened from a job's details, which shows nothing*)
(* but the job (chatID is nil): it asks for the user's conversations with  *)
(* the job's number and dismisses the screen.  Any user may, the poster too*)
PlaceBid(u, j) ==
    /\ screen[u] = NoScreen
    /\ MayTap(u)
    /\ now < MaxId
    /\ now' = now + 1
    /\ calls' = [calls EXCEPT ![u] = @ \cup
         {[kind |-> "chatOf", n |-> now + 1, chat |-> 0, job |-> j, owner |-> u]}]
    /\ UNCHANGED <<server, pending, screen, crashes, history>>

(* Mutant: the query runs over everybody's conversations.                  *)
ChatsForAnyone(u, j) ==
    LET known == {v \in SeenConvs(u) : JobNum[v.job] = JobNum[j]}
    IN  IF known = {} THEN {now + 1} ELSE {v.chat : v \in known}

(* The chats that query can settle on: any of the matching conversations'  *)
(* (the last one in an order the app does not choose), or a new UUID.  The *)
(* phone's cache is sure to hold those it wrote itself, and no others.     *)
ChatsFor(u, j) ==
    LET known == {v \in SeenConvs(u) : v.owner = u /\ JobNum[v.job] = JobNum[j]}
        others == {v \in known : u = PosterOf[v.job]}
    IN  {v.chat : v \in known} \cup (IF known = others THEN {now + 1} ELSE {})

(* Its answer: the bid is created in that chat.                            *)
CreateFirstBid(u, q) ==
    /\ q \in calls[u]
    /\ q.kind = "chatOf"
    /\ u # PosterOf[q.job]
    /\ now < MaxId
    /\ now' = now + 1
    /\ \E c \in ChatsFor(u, q.job) :
         /\ pending' = [pending EXCEPT ![u] = @ \o BidWrites(u, q.job, NoUser, c, now + 1)]
         /\ calls' = [calls EXCEPT ![u] =
              (@ \ {q}) \cup BidCalls(u, q.job, c, now + 1)]
         /\ opened' = IF c = now + 1 THEN [opened EXCEPT ![c] = q.job] ELSE opened
    /\ UNCHANGED <<server, screen, crashes, agreements, missed, died>>

(* The poster bids on the job itself: partnerID is "", so after the chat   *)
(* and the message createBid asks for document("") and the app dies.  What *)
(* reached the stored queue by then is sent after the restart.             *)
DieOnOwnJob(u, q) ==
    /\ q \in calls[u]
    /\ q.kind = "chatOf"
    /\ u = PosterOf[q.job]
    /\ now < MaxId
    /\ now' = now + 1
    /\ \E c \in ChatsFor(u, q.job), k \in 0..2 :
         /\ pending' = [pending EXCEPT ![u] =
              @ \o SubSeq(BidWrites(u, q.job, u, c, now + 1), 1, k)]
         /\ opened' = IF c = now + 1 THEN [opened EXCEPT ![c] = q.job] ELSE opened
    /\ calls' = [calls EXCEPT ![u] = {}]
    /\ died' = died \cup {u}
    /\ CloseScreen(u)
    /\ UNCHANGED <<server, crashes, agreements, missed>>

(* Counter on a conversation's screen: the chat is known, createBid runs   *)
(* at once.                                                                *)
Counter(u) ==
    /\ screen[u] # NoScreen
    /\ MayTap(u)
    /\ now < MaxId
    /\ now' = now + 1
    /\ LET s == screen[u] IN
         /\ pending' = [pending EXCEPT ![u] =
              @ \o BidWrites(u, s.job, s.partner, s.chat, now + 1)]
         /\ calls' = [calls EXCEPT ![u] = @ \cup BidCalls(u, s.job, s.chat, now + 1)]
    /\ CloseScreen(u)
    /\ UNCHANGED <<server, crashes, history>>

(* Mutant: the answer ignores the phone's own queued writes.               *)
ConvDocsOnServer(u, owner, c) ==
    {v.doc : v \in {w \in convs : w.owner = owner /\ w.chat = c}}

(* The documents the server's answer to a query for chat c in owner's      *)
(* conversations has for u.                                                *)
ConvDocs(u, owner, c) ==
    {v.doc : v \in {w \in SeenConvs(u) : w.owner = owner /\ w.chat = c}}

(* The answers it may get, the second one from the cache.                  *)
Answers(u, owner, c) ==
    {ConvDocs(u, owner, c),
     {v.doc : v \in {w \in HeldConvs(u) : w.owner = owner /\ w.chat = c}}}

(* The conversation document a createBid look-up makes when it finds none: *)
(* the caller's names the poster as partner, the poster's names the caller.*)
NewConv(u, q) ==
    [doc |-> <<q.n, q.kind>>, owner |-> q.owner,
     partner |-> IF q.kind = "own" THEN PosterOf[q.job] ELSE u,
     chat |-> q.chat, job |-> q.job]

(* The answer to one of createBid's look-ups: the conversation is created, *)
(* or made active again.  (One write stands for the loop over the found    *)
(* documents: OneConversationPerChat says there is one at most.)           *)
EnterConversation(u, q) ==
    /\ q \in calls[u]
    /\ q.kind \in {"own", "poster"}
    /\ \E docs \in Answers(u, q.owner, q.chat) :
         pending' = [pending EXCEPT ![u] = Append(@,
             IF docs = {}
             THEN [op |-> "conv", conv |-> NewConv(u, q)]
             ELSE [op |-> "active", docs |-> docs, value |-> TRUE])]
    /\ calls' = [calls EXCEPT ![u] = @ \ {q}]
    /\ UNCHANGED <<server, screen, now, crashes, history>>

(* The look-up in the caller's list comes after a getDocument of the       *)
(* poster; where that fails (offline, with nothing in the cache) the list  *)
(* is left alone, though bid and message are sent.                         *)
MissPoster(u, q) ==
    /\ q \in calls[u]
    /\ q.kind = "own"
    /\ calls' = [calls EXCEPT ![u] = @ \ {q}]
    /\ missed' = IF u = PosterOf[q.job] THEN missed ELSE missed \cup {q.chat}
    /\ UNCHANGED <<server, pending, screen, now, crashes, opened, agreements, died>>

-----------------------------------------------------------------------------
(* Accepting and rejecting.                                                *)

(* Mutant: the helpr is always the partner.                                *)
HelprIsPartner(u, s) == [job |-> s.job, user |-> s.partner]

(* The helpr of an acceptance is the user when the partner is the poster,  *)
(* otherwise the partner.                                                  *)
HelprOf(u, s) ==
    [job |-> s.job, user |-> IF s.partner = PosterOf[s.job] THEN u ELSE s.partner]

(* Mutant: the job is not added to the helpr's records.                    *)
AcceptWritesWithoutJob(c, h) ==
    << [op |-> "accept", chat |-> c], [op |-> "helpr", helpr |-> h] >>

(* Mutant: the records before the chat.                                    *)
AcceptWritesRecordsFirst(c, h) ==
    << [op |-> "helpr", helpr |-> h],
       [op |-> "acceptedJob", helpr |-> h],
       [op |-> "accept", chat |-> c] >>

(* acceptedJob's three writes.                                             *)
AcceptWrites(c, h) ==
    << [op |-> "accept", chat |-> c],
       [op |-> "helpr", helpr |-> h],
       [op |-> "acceptedJob", helpr |-> h] >>

Accept(u) ==
    /\ screen[u] # NoScreen
    /\ MayTap(u)
    /\ now < MaxId
    /\ now' = now + 1
    /\ LET s == screen[u] IN
         /\ pending' = [pending EXCEPT ![u] = @ \o AcceptWrites(s.chat, HelprOf(u, s))]
         /\ agreements' = agreements \cup {[chat |-> s.chat, bid |-> s.bid, by |-> u]}
    /\ CloseScreen(u)
    /\ UNCHANGED <<server, calls, crashes, opened, missed, died>>

(* rejectBid asks for the conversation in both lists.                      *)
Reject(u) ==
    /\ screen[u] # NoScreen
    /\ MayTap(u)
    /\ now < MaxId
    /\ now' = now + 1
    /\ LET s == screen[u] IN
         calls' = [calls EXCEPT ![u] = @ \cup
           {[kind |-> "reject", n |-> now + 1, chat |-> s.chat, job |-> s.job,
             owner |-> o] : o \in {u, s.partner}}]
    /\ CloseScreen(u)
    /\ UNCHANGED <<server, pending, crashes, history>>

(* Mutant: the conversations are made active.                              *)
Reactivation(docs) == [op |-> "active", docs |-> docs, value |-> TRUE]

Deactivation(docs) == [op |-> "active", docs |-> docs, value |-> FALSE]

(* An answer to one of them: what was found is made inactive.              *)
LeaveConversation(u, q) ==
    /\ q \in calls[u]
    /\ q.kind = "reject"
    /\ \E docs \in Answers(u, q.owner, q.chat) :
         pending' = [pending EXCEPT ![u] =
             IF docs = {} THEN @ ELSE Append(@, Deactivation(docs))]
    /\ calls' = [calls EXCEPT ![u] = @ \ {q}]
    /\ UNCHANGED <<server, screen, now, crashes, history>>

-----------------------------------------------------------------------------
(* The Firestore client.                                                   *)

(* The server applies the write at the head of a queue.  setData without   *)
(* merge replaces the chat document, so a bid's chat write clears accepted.*)
Acknowledge(u) ==
    /\ pending[u] # << >>
    /\ LET w == Head(pending[u]) IN
         /\ chatJob' = IF w.op = "chat" THEN [chatJob EXCEPT ![w.chat] = w.job]
                       ELSE chatJob
         /\ accepted' = IF w.op = "chat" THEN accepted \ {w.chat}
                        ELSE IF w.op = "accept" THEN accepted \cup {w.chat}
                        ELSE accepted
         /\ messages' = IF w.op = "message" THEN messages \cup {w.message} ELSE messages
         /\ bids' = IF w.op = "bid" THEN bids \cup {w.bid} ELSE bids
         /\ convs' = IF w.op = "conv" THEN convs \cup {w.conv} ELSE convs
         /\ active' = IF w.op = "conv" THEN active \cup {w.conv.doc}
                      ELSE IF w.op # "active" THEN active
                      ELSE IF w.value THEN active \cup w.docs
                      ELSE active \ w.docs
         /\ helprs' = IF w.op = "helpr" THEN helprs \cup {w.helpr} ELSE helprs
         /\ acceptedJobs' = IF w.op = "acceptedJob" THEN acceptedJobs \cup {w.helpr}
                            ELSE acceptedJobs
    /\ pending' = [pending EXCEPT ![u] = Tail(@)]
    /\ UNCHANGED <<calls, screen, now, crashes, history>>

(* A permanent error drops the write at the head and no other.             *)
Refuse(u) ==
    /\ pending[u] # << >>
    /\ Head(pending[u]).op \in Refusable
    /\ pending' = [pending EXCEPT ![u] = Tail(@)]
    /\ UNCHANGED <<server, calls, screen, now, crashes, history>>

(* The app is killed, or dies of a trap: a row tapped before its bid came, *)
(* a query that fails (querySnapshot! in createBid, rejectBid and          *)
(* btnPlaceBid), a cache that holds no bid of a row (bidObj! in getBidAmt).*)
(* After the restart the queue is what reached the disk, which its last    *)
(* writes may not have; completion blocks and screens are gone.            *)
Crash(u) ==
    /\ crashes < MaxCrashes
    /\ crashes' = crashes + 1
    /\ \E k \in 0..Len(pending[u]) :
         pending' = [pending EXCEPT ![u] = SubSeq(@, 1, k)]
    /\ calls' = [calls EXCEPT ![u] = {}]
    /\ died' = died \cup {u}
    /\ CloseScreen(u)
    /\ UNCHANGED <<server, now, opened, agreements, missed>>

-----------------------------------------------------------------------------
UserStep(u) ==
    \/ \E v \in SeenConvs(u) : OpenConversation(u, v)
    \/ Cancel(u)
    \/ \E j \in Jobs : PlaceBid(u, j)
    \/ Counter(u)
    \/ Accept(u)
    \/ Reject(u)

Answer(u) ==
    \E q \in calls[u] :
        \/ CreateFirstBid(u, q)
        \/ DieOnOwnJob(u, q)
        \/ EnterConversation(u, q)
        \/ MissPoster(u, q)
        \/ LeaveConversation(u, q)

Next ==
    \E u \in Users :
        \/ UserStep(u)
        \/ Answer(u)
        \/ Acknowledge(u)
        \/ Refuse(u)
        \/ Crash(u)

Spec == Init /\ [][Next]_vars

(* The client resends its queue until the server answers, and every query  *)
(* is answered, with documents or an error; what users do is up to them.   *)
(* Between two taps only finitely many of these steps are possible, so one *)
(* condition on all of them is enough.                                     *)
FairSpec ==
    /\ Spec
    /\ WF_vars(\E u \in Users : Acknowledge(u) \/ Answer(u))

-----------------------------------------------------------------------------
(* What holds.                                                             *)

OwnBid(x, j, b) == x.job = j /\ x.bidder = b /\ x.by = b

BidOnServer(j, b) == \E x \in bids : OwnBid(x, j, b)

(* A row of the message list can always be loaded: the chat document of    *)
(* every conversation on the server names the conversation's job, and      *)
(* among the bids getBidAmt asks for (DatabaseHelper:334, 372) is one the  *)
(* bidder made, although createBid writes the four documents separately.   *)
ConversationIsBacked ==
    \A v \in convs :
        /\ chatJob[v.chat] = v.job
        /\ BidOnServer(v.job, BidderFor(v.owner, v.job, v.partner))

(* The same as a phone sees it, its own queued writes on top: the row of   *)
(* any conversation of its user finds the chat's job and a bid to show, so *)
(* bidObj! (DatabaseHelper:366, 399) meets no nil, at whatever moment the  *)
(* server answers; and a bidder's row does so from what the bidder's phone *)
(* itself has written, as long as the cache answers.  (A poster's phone    *)
(* may have nothing cached of the bids, and then it does trap: see Crash.) *)
RowHasBid ==
    \A u \in Users : \A v \in SeenConvs(u) :
        v.owner = u =>
            /\ LatestBid(u, v.chat, v.partner, SeenBids(u)) # {}
            /\ u # PosterOf[v.job] =>
                 LatestBid(u, v.chat, v.partner, {b \in SeenBids(u) : b.by = u}) # {}

(* Whoever is recorded as a job's helpr (acceptedJob) has made a bid on it,*)
(* whatever the phone that accepted had on its screen.                     *)
HelprHasBid ==
    \A h \in helprs \cup acceptedJobs : BidOnServer(h.job, h.user)

(* A chat is between the poster and one bidder: every conversation         *)
(* document leading to it has the poster on one side and the same bidder   *)
(* on the other, so no third user reads or accepts in it.                  *)
ChatHasTwoParties ==
    \A v, w \in convs : v.chat = w.chat =>
        /\ PosterOf[v.job] \in {v.owner, v.partner}
        /\ v.owner # v.partner
        /\ {v.owner, v.partner} = {w.owner, w.partner}

(* createBid looks a conversation up before it creates one; interleaved    *)
(* look-ups of both phones never leave a list with two rows for one chat,  *)
(* which rejectBid would deactivate and the message list show twice.       *)
OneConversationPerChat ==
    \A v, w \in convs : v.owner = w.owner /\ v.chat = w.chat => v = w

(* Acceptance is recorded as a whole, and for the right user: with no crash*)
(* and no refused write, once the accepting phone's queue is through, the  *)
(* bidder of an accepted chat, whoever of the two accepted, is a helpr of  *)
(* its job and has the job in acceptedJobs (acceptedJob writes the three   *)
(* documents separately, BidViewController:188 picks the user).            *)
HelprComing(u, h) ==
    /\ h \in helprs \/ \E i \in Queued(u, "helpr") : pending[u][i].helpr = h
    /\ \/ h \in acceptedJobs
       \/ \E i \in Queued(u, "acceptedJob") : pending[u][i].helpr = h

AcceptanceIsComplete ==
    \A c \in accepted : \E h \in JobHelpr :
        /\ h.job = chatJob[c]
        /\ \A v \in convs : v.chat = c => h.user = BidderFor(v.owner, v.job, v.partner)
        /\ \E u \in Users : HelprComing(u, h)

(* Nothing in flight means nothing half done: every bid on the server is   *)
(* in the message lists of the poster and of its bidder, although createBid*)
(* enters them long after the bid, from two unrelated queries.  The bidder *)
(* goes without only in a chat for which the poster could not be got.      *)
Quiet == \A u \in Users : pending[u] = << >> /\ calls[u] = {}

Listed(c, u) == \E v \in convs : v.chat = c /\ v.owner = u

BidIsListed ==
    Quiet => \A b \in bids : \E m \in messages :
        /\ m.id = b.id
        /\ Listed(m.chat, PosterOf[b.job])
        /\ Listed(m.chat, b.bidder) \/ m.chat \in missed

(* To who reads the database, bidding is a negotiation: offers, then rows, *)
(* then acceptances with their records, although createBid and acceptedJob *)
(* write each document for itself and rows are entered by look-ups of both *)
(* phones.  An acceptance counts as recorded once nothing can come between *)
(* its writes any more.                                                    *)
OffersMade == {[job |-> b.job, user |-> b.bidder] : b \in bids}

RowsListed == {[chat |-> v.chat, owner |-> v.owner, partner |-> v.partner] : v \in convs}

Records(w, op, h) == w.op = op /\ w.helpr = h

BeingRecorded(u, h) ==
    LET q == pending[u] IN
    \/ Len(q) >= 2 /\ Records(q[1], "helpr", h) /\ Records(q[2], "acceptedJob", h)
    \/ h \in helprs /\ Len(q) >= 1 /\ Records(q[1], "acceptedJob", h)

Agreed ==
    {h \in JobHelpr : h \in helprs \cap acceptedJobs \/ \E u \in Users : BeingRecorded(u, h)}

Deal == INSTANCE Negotiation WITH
    Chats <- Ids,
    chats <- chatJob,
    offers <- OffersMade,
    rows <- RowsListed,
    agreed <- Agreed

ImplementsNegotiation == Deal!Spec

(* Every createBid that reached its look-ups ends with the chat active in  *)
(* the poster's message list, at least for a moment, if the app lives.     *)
(* (No chat is opened at the first tick, which is always a tap.)           *)
BidSurfaces ==
    \A u \in Users, c \in Ids \ {1} :
        (\E q \in calls[u] : q.kind = "poster" /\ q.chat = c)
            ~> \/ u \in died
               \/ \E v \in convs : /\ v.chat = c /\ v.owner = PosterOf[v.job]
                                    /\ v.doc \in active

(* Every reject that reached its query of the rejecting user's own list    *)
(* (rejectBid) ends with the chat inactive there, at least for a moment,   *)
(* if the app lives.                                                       *)
RejectionLands ==
    \A u \in Users, c \in Ids \ {1} :
        (\E q \in calls[u] : q.kind = "reject" /\ q.chat = c /\ q.owner = u)
            ~> \/ u \in died
               \/ \E v \in convs : /\ v.chat = c /\ v.owner = u
                                    /\ v.doc \notin active

-----------------------------------------------------------------------------
(* Why the first two hold: the inductive invariant of their proof.  The    *)
(* documents a conversation or a helpr depends on are on the server or     *)
(* further ahead in the same queue, and everything that names a chat names *)
(* it with the job its UUID was generated for.                             *)

ChatAhead(u, n, c, j) ==
    \/ chatJob[c] = j
    \/ \E i \in Queued(u, "chat") :
         i <= n /\ pending[u][i].chat = c /\ pending[u][i].job = j

BidAhead(u, n, j, b) ==
    \/ BidOnServer(j, b)
    \/ \E i \in Queued(u, "bid") : i <= n /\ OwnBid(pending[u][i].bid, j, b)

Parties(v, b) ==
    /\ b # PosterOf[v.job]
    /\ \/ v.owner = b /\ v.partner = PosterOf[v.job]
       \/ v.owner = PosterOf[v.job] /\ v.partner = b

ConvBacked(v) ==
    /\ opened[v.chat] = v.job
    /\ chatJob[v.chat] = v.job
    /\ \E b \in Users : Parties(v, b) /\ BidOnServer(v.job, b)

WriteBacked(u, i) ==
    LET w == pending[u][i] IN
    /\ w.op = "chat" => opened[w.chat] = w.job
    /\ w.op = "conv" =>
         /\ opened[w.conv.chat] = w.conv.job
         /\ Parties(w.conv, u)
         /\ ChatAhead(u, i - 1, w.conv.chat, w.conv.job)
         /\ BidAhead(u, i - 1, w.conv.job, u)
    /\ w.op \in {"helpr", "acceptedJob"} =>
         BidAhead(u, i - 1, w.helpr.job, w.helpr.user)

CallBacked(u, q) ==
    q.kind \in {"own", "poster"} =>
        /\ opened[q.chat] = q.job
        /\ q.owner = IF q.kind = "own" THEN u ELSE PosterOf[q.job]
        /\ IF u = PosterOf[q.job]
           THEN Listed(q.chat, u)
           ELSE /\ ChatAhead(u, Len(pending[u]), q.chat, q.job)
                /\ BidAhead(u, Len(pending[u]), q.job, u)

ScreenBacked(u) ==
    LET s == screen[u] IN
    s # NoScreen =>
        /\ opened[s.chat] = s.job
        /\ u = PosterOf[s.job] => Listed(s.chat, u)
        /\ BidAhead(u, Len(pending[u]), s.job, HelprOf(u, s).user)

Backed ==
    /\ \A c \in Ids : /\ opened[c] # NoJob => c <= now
                      /\ chatJob[c] \in {NoJob, opened[c]}
    /\ \A v \in convs : ConvBacked(v)
    /\ HelprHasBid
    /\ \A u \in Users :
         /\ \A i \in DOMAIN pending[u] : WriteBacked(u, i)
         /\ \A q \in calls[u] : CallBacked(u, q)
         /\ ScreenBacked(u)

-----------------------------------------------------------------------------
(* What the repository says and the code does not do.                      *)

(* "turn chat to accepted so users can commmunicate fully"                 *)
(* (DatabaseHelper:433): an accepted chat stays accepted.                  *)
AcceptedStays == [][accepted \subseteq accepted']_vars

(* "grab previous bid information and display accept, counter, reject      *)
(* buttons" (BidViewController:95): what is accepted is the bid that was   *)
(* displayed.  The newest bid of an accepted chat, the one both users are  *)
(* shown as agreed, is one that was on the screen of who accepted.         *)
AcceptedBidWasSeen ==
    \A c \in accepted : \A b \in bids :
        /\ b.job = chatJob[c]
        /\ \E m \in messages : m.id = b.id /\ m.chat = c
        /\ \A x \in bids : x.job = b.job /\ x.bidder = b.bidder => x.id <= b.id
        => \E a \in agreements : a.chat = c /\ a.bid = b.id

(* "the user requesting help can look at the different rates individuals   *)
(* are offering, and accept" (README:12): nobody accepts an own bid.       *)
NoOwnBidAccepted ==
    \A a \in agreements, m \in messages : m.id = a.bid => m.by # a.by

(* "conversation does not exist already" (BidViewController:253): a new    *)
(* chat is opened only for a first bid, so a bidder has one chat per job.  *)
OneChatPerBidder ==
    \A v, w \in convs :
        v.owner = w.owner /\ v.partner = w.partner /\ v.job = w.job => v.chat = w.chat

(* "create conversation reference in bidder's conversations log"           *)
(* (DatabaseHelper:156): after a counter of the poster, the last thing     *)
(* tapped, the chat is active in the bidder's list, at least for a moment. *)
CounterReachesBidder ==
    \A j \in Jobs, c \in Ids \ {1} :
        (\E q \in calls[PosterOf[j]] :
            q.kind = "own" /\ q.job = j /\ q.chat = c /\ q.n = now)
            ~> \/ PosterOf[j] \in died
               \/ \A v \in convs : v.chat = c /\ v.owner # PosterOf[j] => v.doc \in active
=============================================================================
