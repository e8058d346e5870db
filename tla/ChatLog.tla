------------------------------- MODULE ChatLog -------------------------------
(***************************************************************************)
(* The chat log (ChatLogController) of the parties to one chat, a phone    *)
(* each: storeMessage, the listener on the chat's messages in the order of *)
(* their "created" dates, and the rows it fills.                           *)
(*                                                                         *)
(* Firestore's client works through what the app asks of it on a queue of  *)
(* its own: a write is put on disk and shown to the phone's own listener   *)
(* there, and sent to the server later.  A snapshot lists what it adds in  *)
(* the query's order; each addition becomes a block of the main queue that *)
(* appends it to the log's messages, and asks for another block, which     *)
(* reloads the rows: until then the screen shows the ones it had.          *)
(*                                                                         *)
(* Messages are numbered in the order they are sent.  A message is dated   *)
(* by the clock of the phone that sends it; clocks differ, and do not run  *)
(* backwards.  A log that is closed and opened again is a new one, with a  *)
(* new listener; the rows of the old one are not seen any more.            *)
(***************************************************************************)
EXTENDS Integers, Sequences, FiniteSets

CONSTANTS
    Users,       \* the parties to the chat
    Bidder,      \* the one whose bid began it
    Bids,        \* the number of messages that bidding left in the chat
    Skews,       \* how far a phone's clock may be ahead
    Refusing,    \* whether the server may refuse a message for good
    MaxMessages  \* bound: messages

ASSUME ConstantsAssumption ==
    /\ Bidder \in Users
    /\ Bids \in Nat /\ MaxMessages \in Nat
    /\ Bids <= MaxMessages
    /\ Skews \subseteq Int
    /\ Refusing \in BOOLEAN

VARIABLES
    skew,    \* each phone's clock, against the true time
    sender,  \* the sender of each message
    stored,  \* the messages on the server
    known,   \* the server's messages in a phone's cache
    queue,   \* a phone's own messages on disk, not yet acknowledged
    tasks,   \* what the app asked of the client: messages, and to Listen
    open,    \* the phones that show the log
    heard,   \* the messages the open log's listener was told of, in order
    filled,  \* how many of them are in "messages"
    rows,    \* how many of those the screen shows, since it last reloaded
    saw      \* history: the rows on its sender's screen when a message was sent

vars == <<skew, sender, stored, known, queue, tasks, open, heard, filled, rows,
          saw>>

-----------------------------------------------------------------------------
Messages == 1..MaxMessages
Listen == 0

TypeOK ==
    /\ skew \in [Users -> Skews]
    /\ sender \in Seq(Users) /\ Len(sender) \in Bids..MaxMessages
    /\ stored \in SUBSET Messages
    /\ known \in [Users -> SUBSET Messages]
    /\ queue \in [Users -> Seq(Messages)]
    /\ tasks \in [Users -> Seq(Messages \cup {Listen})]
    /\ open \in SUBSET Users
    /\ heard \in [Users -> Seq(Messages)]
    /\ filled \in [Users -> Nat] /\ rows \in [Users -> Nat]
    /\ \A u \in Users : rows[u] <= filled[u] /\ filled[u] <= Len(heard[u])
    /\ saw \in [1..Len(sender) -> SUBSET Messages]

(* The log is opened from an accepted chat: there are bids, the first of   *)
(* them the bidder's, and their messages, which a phone has in its cache   *)
(* unless it is newly installed.                                           *)
Init ==
    /\ skew \in [Users -> Skews]
    /\ sender \in [1..Bids -> Users]
    /\ Bids > 0 => sender[1] = Bidder
    /\ stored = 1..Bids
    /\ known \in [Users -> {{}, 1..Bids}]
    /\ queue = [u \in Users |-> << >>]
    /\ tasks = [u \in Users |-> << >>]
    /\ open = {}
    /\ heard = [u \in Users |-> << >>]
    /\ filled = [u \in Users |-> 0]
    /\ rows = [u \in Users |-> 0]
    /\ saw = [n \in 1..Bids |-> {}]

-----------------------------------------------------------------------------
Elements(s) == {s[i] : i \in DOMAIN s}

Created(m) == m + skew[sender[m]]

(* order(by: "created", descending: false).  Messages of one instant are   *)
(* told apart by their document IDs, which are random: here, by number.    *)
Before(m, n) ==
    \/ Created(m) < Created(n)
    \/ Created(m) = Created(n) /\ m < n

(* Mutant: a query without an order.                                       *)
AnyOrder(S) ==
    {s \in [1..Cardinality(S) -> S] : Elements(s) = S}

(* The messages of S as a snapshot lists them.                             *)
InOrder(S) ==
    {s \in [1..Cardinality(S) -> S] :
        /\ Elements(s) = S
        /\ \A i, k \in DOMAIN s : i < k => Before(s[i], s[k])}

(* What the phone's view of the query holds.                               *)
Local(u) == known[u] \cup Elements(queue[u])

Listening(u) == u \in open /\ Listen \notin Elements(tasks[u])

(* Mutant: all documents of a snapshot, and not what it adds.              *)
TellAll(u, S) ==
    \E s \in InOrder(S) : heard' = [heard EXCEPT ![u] = @ \o s]

(* The listener of u, if there is one, hears of the messages among S that  *)
(* are new to it.                                                          *)
Tell(u, S) ==
    IF S \subseteq Elements(heard[u]) THEN UNCHANGED heard
    ELSE \E s \in InOrder(S \ Elements(heard[u])) :
            heard' = [heard EXCEPT ![u] = @ \o s]

Shown(u) == {heard[u][i] : i \in 1..rows[u]}

-----------------------------------------------------------------------------
(* The screen.                                                             *)

(* viewDidLoad: observeMessages.                                           *)
OpenLog(u) ==
    /\ u \notin open
    /\ open' = open \cup {u}
    /\ tasks' = [tasks EXCEPT ![u] = Append(@, Listen)]
    /\ UNCHANGED <<skew, sender, stored, known, queue, heard, filled, rows, saw>>

(* Mutant: the rows outlive the log.                                       *)
KeepRows(u) ==
    /\ open' = open \ {u}
    /\ heard' = [heard EXCEPT ![u] = << >>]
    /\ UNCHANGED <<filled, rows>>

ClearLog(u) ==
    /\ open' = open \ {u}
    /\ heard' = [heard EXCEPT ![u] = << >>]
    /\ filled' = [filled EXCEPT ![u] = 0]
    /\ rows' = [rows EXCEPT ![u] = 0]

(* There is one Listen at the most.                                        *)
Writes(q) ==
    IF Listen \notin Elements(q) THEN q
    ELSE LET i == CHOOSE i \in DOMAIN q : q[i] = Listen
         IN  SubSeq(q, 1, i - 1) \o SubSeq(q, i + 1, Len(q))

(* Back to the message list.                                               *)
CloseLog(u) ==
    /\ u \in open
    /\ ClearLog(u)
    /\ tasks' = [tasks EXCEPT ![u] = Writes(@)]
    /\ UNCHANGED <<skew, sender, stored, known, queue, saw>>

(* A block of the main queue: messages.append.                             *)
AppendMessage(u) ==
    /\ u \in open
    /\ filled[u] < Len(heard[u])
    /\ filled' = [filled EXCEPT ![u] = @ + 1]
    /\ UNCHANGED <<skew, sender, stored, known, queue, tasks, open, heard, rows, saw>>

(* The block asked for there: reloadData, which shows whatever has been    *)
(* appended by now, and scrollToBottom.  One that has nothing new to show  *)
(* does nothing.                                                           *)
ReloadRows(u) ==
    /\ u \in open
    /\ rows[u] < filled[u]
    /\ rows' = [rows EXCEPT ![u] = filled[u]]
    /\ UNCHANGED <<skew, sender, stored, known, queue, tasks, open, heard, filled, saw>>

(* The app is gone; the client has done what is in q.                      *)
Die(u, q) ==
    /\ ClearLog(u)
    /\ queue' = [queue EXCEPT ![u] = q]
    /\ tasks' = [tasks EXCEPT ![u] = << >>]

(* scrollToBottom counts the rows of the screen: before the first reload   *)
(* it scrolls to item -1, though a message may have been appended.         *)
KeyboardShown(u) ==
    /\ u \in open
    /\ rows[u] = 0
    /\ Die(u, queue[u])
    /\ UNCHANGED <<skew, sender, stored, known, saw>>

(* handleSend: storeMessage, then scrollToBottom.  If that is the end, the *)
(* client may still have worked off some of what it was asked.             *)
Send(u) ==
    LET m == Len(sender) + 1
        asked == Append(tasks[u], m)
    IN  /\ u \in open
        /\ m \in Messages
        /\ sender' = Append(sender, u)
        /\ saw' = Append(saw, Shown(u))
        /\ IF rows[u] = 0
           THEN \E k \in 0..Len(Writes(asked)) :
                    Die(u, queue[u] \o SubSeq(Writes(asked), 1, k))
           ELSE /\ tasks' = [tasks EXCEPT ![u] = asked]
                /\ UNCHANGED <<queue, open, heard, filled, rows>>
        /\ UNCHANGED <<skew, stored, known>>

(* The app is killed.                                                      *)
Crash(u) ==
    /\ Die(u, queue[u])
    /\ UNCHANGED <<skew, sender, stored, known, saw>>

-----------------------------------------------------------------------------
(* The client.                                                             *)

Done(u) == tasks' = [tasks EXCEPT ![u] = Tail(@)]

(* Mutant: a listener first hears from the server.                         *)
TellNothing(u) == UNCHANGED heard

(* A listener first hears what the cache and the queue hold, if anything.  *)
TellFirst(u) == Tell(u, Local(u))

StartListening(u) ==
    /\ tasks[u] # << >>
    /\ Head(tasks[u]) = Listen
    /\ Done(u)
    /\ TellFirst(u)
    /\ UNCHANGED <<skew, sender, stored, known, queue, open, filled, rows, saw>>

(* Mutant: the newest first.                                               *)
QueuedFirst(u, m) == <<m>> \o queue[u]

QueuedLast(u, m) == Append(queue[u], m)

(* A write goes to disk, and to the phone's own log.                       *)
WriteMessage(u) ==
    /\ tasks[u] # << >>
    /\ Head(tasks[u]) # Listen
    /\ Done(u)
    /\ queue' = [queue EXCEPT ![u] = QueuedLast(u, Head(tasks[u]))]
    /\ IF Listening(u) THEN Tell(u, Local(u) \cup {Head(tasks[u])})
       ELSE UNCHANGED heard
    /\ UNCHANGED <<skew, sender, stored, known, open, filled, rows, saw>>

(* The server takes the oldest write.                                      *)
Acknowledge(u) ==
    /\ queue[u] # << >>
    /\ queue' = [queue EXCEPT ![u] = Tail(@)]
    /\ stored' = stored \cup {Head(queue[u])}
    /\ known' = [known EXCEPT ![u] = @ \cup {Head(queue[u])}]
    /\ UNCHANGED <<skew, sender, tasks, open, heard, filled, rows, saw>>

(* It refuses it: the listener hears of a removal, which it passes over.   *)
Refuse(u) ==
    /\ Refusing
    /\ queue[u] # << >>
    /\ queue' = [queue EXCEPT ![u] = Tail(@)]
    /\ UNCHANGED <<skew, sender, stored, known, tasks, open, heard, filled, rows,
                   saw>>

(* A snapshot of the server.                                               *)
Sync(u) ==
    /\ known[u] # stored
    /\ known' = [known EXCEPT ![u] = stored]
    /\ IF Listening(u) THEN Tell(u, stored \cup Elements(queue[u]))
       ELSE UNCHANGED heard
    /\ UNCHANGED <<skew, sender, stored, queue, tasks, open, filled, rows, saw>>

-----------------------------------------------------------------------------
MainQueue(u) == AppendMessage(u) \/ ReloadRows(u)

Work(u) == StartListening(u) \/ WriteMessage(u)

Answer(u) == Acknowledge(u) \/ Refuse(u)

Next ==
    \E u \in Users :
        \/ OpenLog(u) \/ CloseLog(u) \/ KeyboardShown(u) \/ Send(u) \/ Crash(u)
        \/ MainQueue(u) \/ Work(u) \/ Answer(u) \/ Sync(u)

Spec == Init /\ [][Next]_vars

(* Queues are worked off, and a phone is connected now and then for long   *)
(* enough; a user need do nothing.                                         *)
FairSpec ==
    /\ Spec
    /\ \A u \in Users :
         /\ WF_vars(MainQueue(u) \/ Work(u))
         /\ WF_vars(Answer(u) \/ Sync(u))

-----------------------------------------------------------------------------
(* What holds.                                                             *)

(* In every log the messages of one sender stand in the order they were    *)
(* sent, whatever the clocks say, through refusals, restarts and snapshots *)
(* that interleave with the phone's own writes (ChatLogController:43-57).  *)
(* A message that bidding left may turn up below those its own sender sent *)
(* before the phone had it in its cache, as rows are never put in between. *)
SenderOrder ==
    \A u \in Users : \A i, k \in DOMAIN heard[u] :
        LET m == heard[u][i]
            n == heard[u][k]
        IN  i < k /\ sender[m] = sender[n] =>
              m < n \/ (sender[n] = u /\ n <= Bids)

(* A reply stands below every message its sender had on the screen when    *)
(* sending it, in either log, in whatever portions the listeners hear of   *)
(* them, unless the reply is dated earlier (ChatLogController:43, 353).    *)
RepliesFollow ==
    \A u \in Users : \A i, k \in DOMAIN heard[u] :
        LET m == heard[u][i]
            n == heard[u][k]
        IN  i < k /\ n \in saw[m] => Before(m, n)

(* A log shows no message twice, though a phone's own messages come both   *)
(* from its queue and from the server (ChatLogController:51-57).           *)
ShownOnce ==
    \A u \in Users : \A i, k \in DOMAIN heard[u] : heard[u][i] = heard[u][k] => i = k

(* A message that reached its phone's disk reaches every log that stays    *)
(* open, the sender's own and the partner's, unless the server refuses it; *)
(* a restart of the sender's app does not lose it.                         *)
OnDisk(m) == \E u \in Users : m \in Elements(queue[u])

Refused(m) ==
    /\ m \in 1..Len(sender) \ stored
    /\ \A u \in Users : m \notin Elements(queue[u]) \cup Elements(tasks[u])

MessageArrives ==
    \A m \in Messages \ 1..Bids, v \in Users :
        OnDisk(m) ~> m \in Shown(v) \/ v \notin open \/ Refused(m)

-----------------------------------------------------------------------------
(* What the repository says and the code does not do.                      *)

(* "scroll down to latest message" (ChatLogController:61): the bottom row  *)
(* is the newest of the rows, by the dates the messages carry.             *)
LatestIsLast ==
    \A u \in Users : \A i \in 1..rows[u] : ~Before(heard[u][rows[u]], heard[u][i])

(* The two logs, opened and filled with the same messages, agree.          *)
LogsAgree ==
    \A u, v \in open : Elements(heard[u]) = Elements(heard[v]) => heard[u] = heard[v]

(* A row stands for a message that is stored or on its way.                *)
RowsAreMessages ==
    \A u \in Users : \A m \in Shown(u) : ~Refused(m)

(* A reply stands below what it answers.                                   *)
RepliesAlwaysFollow ==
    \A u \in Users : \A i, k \in DOMAIN heard[u] :
        i < k => heard[u][k] \notin saw[heard[u][i]]
=============================================================================
