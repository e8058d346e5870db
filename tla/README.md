# A TLA+ verification of helpr

helpr is an iOS client (Swift, `src/helpr/helpr`) for a gig market. A user posts
a job, other users ("helprs") bid on it, poster and bidder negotiate in a chat
and one of them accepts. There is no server code: every phone reads and writes
a shared Firestore database directly, through asynchronous calls, and nothing
but the order of those calls keeps the documents consistent. That is what this
project models.

## 1. Inventory

| Component | Source | State | Operations |
|---|---|---|---|
| Bid negotiation | `BidViewController`, `DatabaseHelper` (`createBid`, `getBidAmt`, `acceptedJob`, `rejectBid`), `JobDetailsViewController.bidBtnAction` | `chats/{c}`, `chats/{c}/messages`, `jobs/{j}/bidders/{u}/bids`, `jobs/{j}/helprs`, `users/{u}/conversations`, `users/{u}/acceptedJobs`; the Bid screen's fields | place a bid, counter, accept, reject, cancel |
| Posting a job | `PostAdTableViewController`, `StorageHelper.saveImages/uploadImages`, `DatabaseHelper.addJobInformation` | `jobs/{j}`, `users/{u}/posts`, stored pictures; the job being posted | post, allocate the number, upload, create the documents |
| The posting form | `PostAdTableViewController`, `CategoriesTableViewController` | the photo list with its plus tile, category, title, the Post button | pick a photo, choose a category, edit the title, post, cancel |
| Message list | `MessageTableViewController`, `MessagePreview` | `mPreviews`, three kinds of listener | add, update, remove a row; open a conversation |
| Chat log | `ChatLogController`, `DatabaseHelper.storeMessage` | `messages` of the open chat, its listener | open, send, receive, scroll, close |
| Job lists | `JobsTableViewController`, `SearchTableViewController`, `ExploreTableViewController`, `DatabaseHelper.getJob/getJobs` | the arrays of Explore and of "my jobs"; `SearchTableViewController.jobs`, one array for all search screens | listen, load, filter |
| Session | `LaunchScreenViewController`, `SignUpViewController`, `SignInViewController`, `SettingsTableViewController`, `EBRoundedTabBarController`, `UserProfile` | the Firebase user, the profile statics, `users/{u}`, the tab bar and its controllers' user | sign up, sign in, cancel, sign out, load the profile |
| Relative time | `Date+timeAgoSinceDate` | none | a pure function of two dates |
| Firestore client | `Pods/FirebaseFirestore` | the queue of unacknowledged writes, the local overlay, the cache, the views of listeners | enqueue, acknowledge, refuse, restore after a restart, raise snapshots |
| Pictures | `StorageHelper` (download, profile) | Firebase Storage | upload, download |
| Views, cells, legacy screens, vendored pods, empty test templates | the rest | layout | none that the properties see |

How they interact: the screens call `DatabaseHelper`, which issues writes
(`setData`) and queries (`getDocuments`) on the one Firestore client of the
phone. A write takes effect in the phone's own queries at once and on the server
when its turn in the phone's queue comes; a query's completion block runs later
and issues more writes. The message list, the chat log and the job lists listen
to the documents the others write. Two phones meet only on the server.

A listener is never removed by the app. A chat log opened again is a new log with a
new listener, and a search screen opened again a further listener that fills the
same array. Everything that runs later - a completion block, a listener's call, a
notification of FirebaseAuth - looks the signed-in account up when it runs.

What is hard here:

* **interleaving**: `createBid` is four writes and two queries whose answers write
  again; `rejectBid` is two queries; both phones run them on the same chat.
* **read, then act on it**: the chat of a first bid, the existence of a
  conversation, the number of a job and the bid on the screen are read at one
  moment and used at a later one.
* **partial failure**: none of these groups of writes is a batch or a
  transaction, and sign-up is three calls, each of which may fail with half of its work
  done. The queue survives a crash of the app, completion blocks do not. A get that fails
  is mostly passed over, a query that fails traps on `querySnapshot!`, and a phone that is
  offline answers from its cache, possibly with nothing.
* **order**: a picture list is filled in the order uploads complete; a chat's
  `accepted` is overwritten by whichever write is later in its queue; a chat log
  appends what it hears of, and phones' clocks differ; jobs of a list arrive by one
  query each.
* **accounts**: what a completion block does, it does in the name of the account
  signed in when it runs.
* **positions**: the message list finds the index of a row in one block and uses it
  in another, after listeners may have moved the rows; the chat log scrolls to the
  last row when there may be none.

What makes each component correct:

* bid negotiation: every conversation has the chat, the job and the bid behind it
  that the screens unwrap; a chat has two parties and a list one row for it; an
  acceptance is recorded whole and stays; a bid reaches the poster; a rejection
  takes effect.
* posting: a job appears once, whole, and before it is listed; numbers grow and
  are unique; a post that starts ends on the server.
* form: what is shown is what is posted; the Post button never traps.
* message list: one row per active conversation, which shows its own chat's bid and
  newest message; no index outlives the rows it came from.
* chat log: one row per message, a sender's in order, a reply below what it answers;
  a message that reached the disk reaches both logs.
* job lists: every job that is named can be loaded; one row per job and listener; a
  post made on one phone is shown on the others.
* session: documents, pictures, profile and tabs are those of the account signed in;
  an account that is opened is completed.
* relative time: an older thing never reads as a younger one.

## 2. Modules

| Module | Models | Needs |
|---|---|---|
| `Negotiation` | abstract: what readers of the database may rely on about offers, rows and acceptances | |
| `BidNegotiation` | bidding, accepting and rejecting by any number of users over the phones' write queues | implements `Negotiation` |
| `BidNegotiation_proofs` | types; what a conversation and a helpr depend on; who is party to a chat; acceptances; bids in both lists; the refinement | `BidNegotiation` |
| `PostForm` | the posting form of one phone | |
| `PostForm_proofs` | types, its inductive invariant and properties | `PostForm` |
| `JobBoard` | abstract: what readers of the database may rely on about jobs | |
| `JobPosting` | posting, from the Post button to the server, on several phones and accounts | implements `JobBoard` |
| `JobPosting_proofs` | types, the inductive invariant, the numbers, the refinement | `JobPosting` |
| `JobFeed` | the lists of jobs on another phone | extends `JobPosting` |
| `JobFeed_proofs` | types, rows per listener, loads | `JobFeed`, `JobPosting_proofs` |
| `MessageList` | the message list of one user: rows, listeners, queries | |
| `MessageList_proofs` | types, rows against conversations, indexes, documents that rest | `MessageList` |
| `ChatLog` | the chat log of both parties to a chat, over the client's queues, cache and listener | |
| `ChatLog_proofs` | types, the order of the rows | `ChatLog` |
| `Session` | accounts, sign-up, sign-in, sign-out, the profile and the tabs of one phone | |
| `Session_proofs` | types, whose documents, profile and tabs they are | `Session` |
| `TimeAgo` | relative time, a function, with its theorem | |
| `MC...` | model values and constant definitions of TLC's instances | the module of that name |

`PostForm` ends where `JobPosting` begins: `FinishAddingPost` hands `posted` to the
`pics` of `Post`, and `PostHasPicture` is what entitles `Post` to its guard
`pics # {}`. `JobFeed` composes with `JobPosting`: its steps are those of the
posting phones or of a reader's phone, and meet in `jobs` and `posts`.
`JobPosting` allocates the numbers `BidNegotiation` takes as the constant `JobNum`;
that they need not be distinct is `NumbersAreUnique`. `MessageList` reads the
documents `BidNegotiation` writes, seen from one phone and in the order `createBid`
writes them; that a chat has one conversation document is `OneConversationPerChat`
there. A row tapped in it is `OpenConversation`, or, once the chat is accepted,
`OpenLog` of `ChatLog`, whose first `Bids` messages are those bidding left.
`account` of `JobPosting` is `current` of `Session` on each phone.

### How state and actions correspond to the code

**BidNegotiation.** The eight server variables are the collections of the
inventory. `pending[u]` is the Firestore client's queue (`FSTRemoteStore`,
`FSTSyncEngine`): writes leave it in order, one acknowledged or refused at a time.
A query is answered with the server's documents under the phone's own queued
writes (`Seen...`), or, offline, with what the phone's cache holds of them: for the
look-ups of conversations that is at least its user's own list and what the phone itself wrote
(`Answers`, `HeldConvs`). `calls[u]` holds the queries whose completion block has not
run. Each place where the source waits for a completion block separates two
actions:

| Code | Actions |
|---|---|
| `MessageTableViewController` `didSelectRowAt` | `OpenConversation` |
| `BidViewController.btnPlaceBid` | `PlaceBid`, then `CreateFirstBid` (or `DieOnOwnJob`) when its query is answered |
| `handleCounter` | `Counter` |
| `createBid` | the writes `BidWrites` at once; each of its two look-ups an `EnterConversation`; a get of the poster that fails, `MissPoster` |
| `handleAccept`, `acceptedJob` | `Accept` with `AcceptWrites` |
| `handleReject`, `rejectBid` | `Reject`, then two `LeaveConversation` |
| Firestore | `Acknowledge`, `Refuse` |
| the app is killed; a trap on a query that failed (`querySnapshot!`), on a cache without the bids (`bidObj!`), on a row tapped before its bid came | `Crash` |

A tick `now` stands for a `Date()` and the UUIDs made with it; the clocks of the
phones are taken to agree. Every tap that sends something takes one. `OpenConversation`
opens a row as the message list has it, which may be old: any conversation and any bid of it
the phone ever saw, accepted since or not. The screen keeps the bid it was opened with, since
nothing refreshes it. `missed` (history) are the chats whose poster the bidder's phone could
not get, and which the code then leaves out of the bidder's list; `died` the users whose app
was killed or trapped. `Crash` keeps a prefix of the stored queue and drops every
completion block. The loop of `createBid` over the conversations a look-up finds is
one write: `OneConversationPerChat` is what makes that exact.

**PostForm.** `photos` is `postPhotos`, row *i* of the code being *i*+1 here. `Appear` is
`viewDidAppear` with `updateCollectionView` and is part of every action that uncovers
the form. A category stands for its default photo (every category of
`CategoriesTableViewController` has one). The library always returns an image, and
images from `UIImage(named:)` equal themselves, as its cache makes them.

**JobPosting.** `draft[p]` is the progress of one post through
`finishAddingPost`, `saveImages` and `uploadImages`. `queue[phone][account]` is one
queue per account, as `credentialDidChangeWithUser` switches them.
`WriteJob` takes the account of the moment the last upload completes and
issues the two writes of `addJobInformation`; with nobody signed in `userID!` is nil
and the app dies (`DieWithoutUser`). Posting asks for no account
(`EBRoundedTabBarController` only guards other tabs). Phones are online when the number
query is answered. Pictures are a set: their order in the document is not
modelled, only which ones are there.

**MessageList.** The first six variables are the documents, changed by either phone;
the rest is `MessageTableViewController`. A listener's call is an action that takes
what the documents are now, so a change is heard late and several may be heard
at once; what one call does on the main queue is one step.

| Code (`MessageTableViewController`) | Actions |
|---|---|
| conversations listener, `loopThroughConvos` | `HearAdded`, `HearResumed`, `HearLeft` |
| listener of a chat document | `HearChat` |
| listener of a chat's messages | `HearMessages`, then `AnswerChat`, `AnswerMessageBid` per message |
| job of a row | `AnswerJob`, which appends the row |
| `getBidAmt`, `getMsgPreview` of a row | `AnswerChat`, `AnswerBid`, `AnswerPreview` |
| a query that fails | `AnswerError` |
| a chat document or a bid the cache does not have (`document.data()!`, `bidObj!`) | `MissDocument` |

A row keeps the chat its bid and its message came from, which the code cannot
see but a user would. `getBidAmt` is two steps and not three: nothing is read from
its second query but the poster. Gets of one document share a listener in the
client (`FSTEventManager`) and are answered in order, hence `IsNext`; a row's own job is
therefore there before its bid. `Die` is a trap (`index!`, an index past the end): the app
is started again and the list loads from nothing (`LoadAnew`). `MissDocument` is counted with
the writes, as a phone that is offline for good would die of it again and again.

**ChatLog.** `tasks[u]` is the client's worker queue, on which the app's calls wait;
`queue[u]` its writes on disk; `known[u]` the server's messages in its cache;
`heard[u]` what the open log's listener was told of, in order, of which the first
`filled[u]` are in `messages` and the first `rows[u]` on the screen: `observeMessages` appends
each added document in a block of its own of the main queue, which asks for another one
that reloads the rows. A snapshot lists what it adds in the order of
the `created` dates (`InOrder`), so rows of different snapshots need not be in that
order.

| Code | Actions |
|---|---|
| `ChatLogController.viewDidLoad`, leaving the screen | `OpenLog`, `CloseLog` |
| `observeMessages`, one `documentChange` | `AppendMessage` |
| `reloadData` and `scrollToBottom` in the block it asks for | `ReloadRows` |
| `handleSend`, `storeMessage`, `scrollToBottom` | `Send`; before the first reload it dies after the write was handed over |
| `handleKeyboardDidShow` | `KeyboardShown` |
| `FSTSyncEngine`, `FSTEventManager`, `FSTView` | `StartListening`, `WriteMessage`, `Acknowledge`, `Refuse`, `Sync` |
| the app is killed | `Crash` |

A message is dated `m + skew`: messages are numbered in the order they are sent, and a
phone's clock may be ahead of another's by a constant. A removal is passed over, as
the code does, so the row of a refused message stays.

**JobFeed.** `Lists` are the screens with a listener, `Arrays` what they fill: all search
screens share one array. `heard[l]` is what a list's listener was told of, `loads` the
`getJob` calls it made and `missed` (history) those that ended without a job.

| Code | Actions |
|---|---|
| `viewDidLoad` of the lists | `OpenList` |
| their listeners | `HearJobs`, one `getJob` per added document |
| `getJob` | `AnswerJob`, `AnswerNothing` (its completion is never called) |
| `acceptedJob` on the poster's phone | `BeAccepted` |
| the reader's app is started again | `Restart` |

**Session.** `current` is `Auth.auth().currentUser`, set on a queue of FirebaseAuth's
own; `main` is the main queue with the blocks that follow, the notification before
the completion block. `below` is the stack of screens a presented one leads back to. An
account stands for the details its owner typed in, so that `document[a] = b` reads:
the document of `a` holds `b`'s details.

| Code | Actions |
|---|---|
| `LaunchScreenViewController.loadJobs` | `LeaveLaunch` |
| the title screen, segues, cancelling | `Start`, `GoToSignIn`, `GoToSignUp`, `Cancel` |
| `FinishSignUpViewController.registerUser` | `RegisterUser`, `AnswerCreate`, `RunCreated` (the document taken or refused), `AnswerAddInfo`, `LosePicture` |
| `createUser` that fails after the account was made; one that overlooks it and traps on `(user?.user.email)!` | `AnswerHalfCreated`; `AnswerNobody`, `RunHalfCreated` |
| `SignInViewController.signInDidPress`, `saveUser` | `SignInDidPress`, `AnswerSignIn`, `RunSignedIn` |
| the tab bar's listener, `getUser` | `MakeTabs`, `TellListeners`, `AnswerGetUser` |
| `doLogOut` | `DoLogOut` |
| a failed call; a trap on `userID!`; the app is killed | `AnswerError`; `Die`, also of `OpenMessages`; `Crash` |

`disturbed` is history: the user did not wait for what was asked, or the profile could not
be loaded. The properties are about users who wait; what the others meet is in the table of
refuted statements. `failed` (history) are the accounts whose sign-up went wrong in part: a
`createUser` that made the account and failed, a document that was refused
(`addUserInformation` turns the error into `completion(nil)`), a picture that has no JPEG or
was not uploaded, or the death of the app before the last of these. In `Init` an account
opened elsewhere may be one of them. Its owner signs in like any other, waits at the tabs and
sees no profile, since `getUser` does not call back: `ProfileIsOwn` and `ProfileArrives` say
nothing of an account without a document, and `AccountIsComplete` nothing of one in `failed`.

**TimeAgo.** The seven components of Foundation's calendar are the input; `timeAgo` is
the chain of comparisons over them.

## 3. Checks

Passing runs:

| Run | Instance | Shows |
|---|---|---|
| `bid_core` | a poster and two bidders (symmetric), one job, 4 ticks, no crash, no refusal, posters that may not be got (192,000 states) | types; bidding implements `Negotiation`; conversations are backed; one conversation per chat, with its two parties; an accepted chat's bidder is recorded as the helpr, whole; when nothing is in flight every bid is listed by its poster, and by its bidder unless the poster was not got |
| `bid_crash` | a poster and a bidder, 4 ticks, one crash, refusable conversation writes (707,000 states) | a row on a phone, its queued writes included, always finds its chat and a bid in the server's answer, a bidder's also in what its own phone wrote; helprs have bids; conversations are not doubled |
| `bid_live` | a poster and a bidder, 4 ticks, fair (128,000 states) | bids surface and rejections land, if the app that has to see to it lives |
| `form_core` | two photos (each pickable again), two categories, five places | shape of the row, no trap, matching default photo |
| `post_core` | 2 phones, 2 accounts, 2 posts, 2 pictures, one sign-in, one crash, queries, uploads and entries may fail | posting implements `JobBoard`; numbers grow |
| `feed_live` | 2 accounts, 2 posts from one phone, a reader with all lists and one search screen, a failing `getJob` in Explore, restarts, fair (98,476 states) | every load finds its job; a row per listener; a post arrives on the server and on every list meant to show it |
| `list_core` | two chats in any initial state, 2 messages, 2 writes, symmetric (1,277,060 states) | types; the rows are the active conversations; indexes hold until a row is removed; documents that rest are shown |
| `list_live` | one chat, 4 writes, failing queries, documents missing in the cache, fair (80,414 states) | the rows come to be the active conversations, deaths included |
| `chat_core` | two parties, one message of the bidder that bidding left and two new ones, clocks 0 or 2 ticks ahead, caches with or without the bid, refusals, crashes at any moment, fair (322,859 states) | types; a sender's rows in order; replies below what they answer; no row twice; messages on disk arrive |
| `session_core` | two accounts, opened already, whole or in part, or not, up to one call or block under way when a button is tapped, two screens deep, failing and half-done calls, refused documents, lost pictures, crashes at any moment, fair (328,953 states) | types; document, tabs and profile are the user's own; accounts are whole but for those in `failed`; the profile arrives |

Runs that refute what the repository says (see `findings` in `PROJECT.json`):
`bid_counter_reaches` (the bidder rejects, the poster, whose row or screen is still there,
counters, and the counter never reaches the bidder) and `list_other_chat` (a chat's message is
written into another chat's row, whose index `getBidAmt`'s block found before a row above was
removed).

More statements stand in the modules with the line they come from. They have
no run of their own; TLC refutes each on the instance given here:

| Statement | Instance | What happens |
|---|---|---|
| `AcceptedStays` | `Bid_core.cfg`, as a `PROPERTY` | a bid sent while the other user accepts takes the acceptance back |
| `AcceptedBidWasSeen` | `Bid_core.cfg` | a counter that arrives while the older bid is on the screen is what is taken to be accepted |
| `NoOwnBidAccepted` | `Bid_core.cfg` | whoever bid last can accept it alone |
| `OneChatPerBidder` | `Bid_core.cfg` | two quick first bids open two chats |
| `BidIsListed` | `Bid_crash.cfg`, `Refusable = {}` | a phone dies between the bid and the look-ups |
| `BidIsListed` | `Bid_core.cfg` with `Jobs = {job, job2}`, `TwoPosters`, `Users = {poster, other}`, no symmetry | a user bids on another's job and then on a job of their own: the app dies with the look-ups of the first bid |
| `ChatHasTwoParties` | `Bid_core.cfg` with `Jobs = {job, job2}`, `TwoPosters`, `SameNumber`, no symmetry | a bid settles on the chat of another job with the same number |
| `AllPhotosPosted` | `Form_core.cfg` | with five photos there is no plus tile, and the last photo is left out in its place |
| `NumbersAreUnique` | `Post_core.cfg` | two phones ask for the highest number before either job is on the server |
| `PosterIsAuthor` | `Post_core.cfg` | the account changes while the pictures upload |
| `PostArrives` | `Feed_live.cfg`, `Failing = {"upload"}` | a failed upload is never counted |
| `NewestFirst` | `Feed_live.cfg` | the query of an older job is answered first, or a later snapshot is put below |
| `JobShownOnce` | `Feed_live.cfg`, `Searches = {search1, search2}` | a second search screen's listener fills the shared array again |
| `AcceptanceIsShown` | `List_core.cfg` | `getBidAmt` reports an `accepted` older than the listener's, or the listener spoke before there was a row |
| `NewestIsShown` | `List_core.cfg` | a resumed conversation has no listeners; or the first snapshot's messages, newest first, leave the oldest |
| `LatestIsLast`, `LogsAgree` | `Chat_core.cfg`, `Skews = {0}` | each log puts its own messages above the partner's that were on their way |
| `RowsAreMessages` | `Chat_core.cfg` | the row of a refused message stays |
| `RepliesAlwaysFollow` | `Chat_core.cfg` | a reply from a phone whose clock is behind is dated earlier |
| `UserIsAdded` | `Session_core.cfg` | the details typed in go to the document of whoever signs in meanwhile |
| `EveryAccountHasDocument` | `Session_core.cfg` | a call of a sign-up failed, or the app died, after the account was created; the initial states have such accounts |
| `ProfileIsCurrent` | `Session_core.cfg` | the answer to the last user's `getUser` comes after the next one signed in; or the next one has no document |
| `TabsAreCurrent` | `Session_core.cfg` | a guest's tabs stay when the account that was asked for comes |

### Bounds, and why they are enough

* `MaxId`: placing a bid takes two ticks (the tap, and its answer, which makes the documents),
  accept, reject and counter one each. Four allow two first bids in flight at once, of one
  bidder or of two; or a bid and two of the other taps, such as a rejection and then a counter,
  or an acceptance against a counter. The look-ups of two phones for one chat overlap
  within this, which is where the races are. A poster who bids on a job of their own while a rejection
  or a counter of theirs is under way needs a fifth or sixth tick: the app then dies with the look-ups.
  That is why `BidSurfaces` and `RejectionLands` have the proviso that the app lives, which is
  exercised at four ticks by the deaths that do fit.
* `MaxQueue` bounds only how many writes may be queued when a user taps; completion
  blocks add to the queue without bound.
* One crash at any point, losing any suffix: the properties speak of documents, and a
  second crash loses nothing of another kind.
* Two phones, accounts and posts are what a race over a number or a change of
  account needs; two pictures make "the last upload" a choice.
* Two chats are what a shifted index needs; two messages and two writes let a chat
  be left, resumed or accepted between a query and its answer. `Init` has the documents in
  every state, so the writes are all spent on races. `list_live` follows one chat, since
  rows of other chats change neither whether it has a row nor what is asked for it, and
  has four writes: left and resumed twice, or a bid whole.
* `MaxPhotos` is the code's five. Two photos suffice since they are interchangeable.
* `feed_live` follows posts of one phone, the reader's own account among the authors;
  that phones may race is `post_core`'s question, and the proofs' for every instance. Each
  array has one list here but for the search array, which a second screen would share:
  `RowPerListener` also passes with two search screens, and is proved for any number.
* `MaxMessages`: a message of bidding, a message and its reply; `Skews` lets clocks be further apart
  than the two messages. The message bidding left is the bidder's, since the first bid of a
  chat is (`Bidder`). Closing, opening and crashes are unbounded.
* `MaxPending` 1: a tap with one call or block under way adds a second, whose answers make more: a
  sign-up, its notification and a sign-in overlap. The properties were also checked with
  `MaxPending = 2` (1.87 million states, over four minutes). `MaxBelow` 2 covers title, sign-in, sign-up and a
  guest's tabs, sign-up, sign-in. Two accounts: whose is it, and whose it should be.
* Deadlock is not checked: users may stop, and the bounds stop them.

### Fairness

In `BidNegotiation` one condition is weakly fair, on acknowledgements and answers of
all phones together: the client resends its queue until the server answers, and every query is
answered one way or the other, from the cache if need be. Between two taps only finitely
many of these steps are possible, so all of them are taken. In `JobPosting` `Acknowledge` and the
completion blocks (`Continue`) are weakly fair: a query is answered and an upload ends, one way
or the other. No user action is fair, nor is a refusal or a crash.
In `MessageList` `Load` is weakly fair: listeners are called and queries answered. Between two writes
only finitely many such steps are possible, so one condition on their union is enough.
No write is fair there, nor is `MissDocument`.

In `ChatLog` two conditions per phone are weakly fair: the two queues of the phone
(`MainQueue`, `Work`), and the network (an `Answer` of the server, which may be a refusal, or a
snapshot, `Sync`): a phone is connected again and again, long enough. Each such step leaves
less to do, and sending is bounded, so one condition on two kinds of step starves neither.
In `JobFeed` listeners are
called (`HearJobs`) and each `getJob` is answered, by a job or by nothing, beside what
`JobPosting` assumes. In `Session` blocks run (`Run`) and each call is answered or fails.
Leaving the launch screen is not fair: it waits for `getJobs`, which does not call back when it fails. No user action and no crash is fair anywhere.

## 4. Proofs

For every value of the constants, with TLAPS:

* **Types**: `TypeCorrect` of `BidNegotiation`, `PostForm`, `JobPosting`, `MessageList`,
  `ChatLog` and `Session`, `FeedTypeCorrect` of `JobFeed`.
* **`AlwaysBacked`**, hence **`ConversationsAreBacked`** and **`HelprsHaveBids`**. The two
  properties are not inductive: a conversation write deep in a queue says nothing
  of the server. `Backed` adds that what a queued write, a query in flight or a
  screen depends on is on the server *or further ahead in the same queue*, and that
  everything that names a chat names it with the job its UUID was generated
  for. Acknowledging and crashing shorten queues at the two ends, which keeps
  "ahead". The theorem assumes `Sound`: distinct job numbers, and that neither
  chats nor bids are refused. Both are needed: the code uses the number as a key and
  never looks at an error.
* **`ChatsHaveTwoParties`** and **`OneRowPerChat`**, from distinct numbers alone, whatever is
  refused. `Paired(f)` says who opened each chat: `f` is a function that
  exists in every state, extended when a first bid generates a UUID. Conversations
  are only ever queued on the phone of the chat's opener, which sees what it queued;
  the poster's phone gets at a chat only through a conversation the server has, so its
  own look-ups never come up empty. That is why two unprotected look-ups do not
  make two documents.
* **`RowsHaveBids`**, from `AlwaysBacked`: the newest bid of a row is in the server's answer at whatever
  moment a phone asks, and a bidder's row has one among the bids of the same phone, which its
  cache answers with. (A poster's phone that is offline may have none, and dies: `Crash`.) The bid is on the server or ahead in the queue that shows the row, so the set
  `getBidAmt` searches is not empty; that a bounded set of ticks has a greatest member is
  proved from well-founded induction on the naturals.
* **`AcceptancesAreComplete`**. `Signed(f)`, with the `f` of `Paired`: an accepted chat's bidder has
  both records or has them coming in one queue, and behind each queued acceptance of a chat
  stand the two records of that same bidder; the chat document is on the server or
  ahead of the acceptance, and ahead of what a screen could send. Both users of a chat
  work out the same helpr because a screen's partner is one of the two parties. Assumed
  (`Recording`): what `Sound` says, no crash (a crash cuts the queue between the three writes)
  and neither record refused.
* **`BidsAreListed`**. `Entering(f)`: once a chat has a conversation, on the server or queued, or a
  look-up that will enter one, both its users have one or the other; and every bid on
  the server or queued has its message in such a chat. A look-up that finds a conversation hands
  over to that, one that finds none to the write it queues, and a write to the
  server. A get of the poster that fails leaves only the bidder's own entry out, and puts the chat among
  `missed`. Answers from the cache make no difference to `createBid`, which looks into the caller's own
  list and the poster's: the bidder's phone wrote the chat's entry in either itself. (What the poster's
  phone may lack is the bidder's list, where `rejectBid` looks.)
  Assumed (`Listing`): distinct numbers, messages and conversations not refused.
  Its proviso `[][~ LosesLookUp]_vars` excludes crashes and the one death that loses
  look-ups for somebody else's job; TLC refutes the property without it (above).
  **`OnePostersBidsAreListed`** discharges the proviso where one user posts all jobs and no
  phone crashes, by a kill or a trap: a poster's look-ups are then all for jobs of their own, and what
  those enter is already there.
* **`ImplementsTheNegotiation`**: the refinement of `Negotiation`, whose steps are a chat that is
  proposed, an offer, a row and an acceptance together with its records. The mapping reads
  offers, rows and acceptances off the documents; a record counts as agreed when both its
  documents are there, or when what is missing is next in one phone's queue, so the
  acceptance's write is the step of both records and theirs are stutters. `Arranged` says why
  that is right: a bid stands behind its chat, and the two records directly
  behind their acceptance. `AgreedOn(f)`, with the `f` of `Paired`: every accepted chat's bidder is
  agreed on. A row enters when chat and bid are there (`Backed`), for the side that
  has none (`Paired`). Assumed (`Dealing`): what `Recording` says, and no acceptance refused;
  messages and conversations may be. With a crash the refinement fails where
  `AcceptanceIsComplete` does, and with an acceptance refused its records stay without it.
* **`FormInvariant`**, hence **`PostsHavePictures`**, **`PlusStaysLast`** and **`DefaultsMatch`**.
  `FormInv` adds what the row is before a photo was picked (`Row`), that the button
  is enabled only after a category was chosen, and that the tapped cell is in the row.
* **`AlwaysOrdered`** and **`ImplementsTheBoard`**: the refinement of `JobBoard`, through
  crashes, changes of account and failed queries, uploads and entries. `BoardInv`
  says that a job is queued once over all queues, with its post's pictures and
  ahead of the entry that names it. It assumes `JobsAccepted`, that no job document is
  refused: `addJobInformation` writes the entry whatever became of the job.
* **`NumbersIncrease`**, under the same assumption. `NumInv` adds that while nobody changes the
  account, what a phone could see it still sees, until the post finds its number, and
  that a number, once found, is above those.
* **`OneRowForEachListener`** and **`LoadsSucceed`** of `JobFeed`. `FeedSpec` implies `Spec` of
  `JobPosting`, whose invariants are thus cited as they stand. `HeardInv` says that a
  listener has heard only what its source still has and that calls under way and calls
  that failed are different ones, all of them heard; then rows and listeners can be
  counted. `ListedInv`, that whatever is listed is published, follows from the
  order of the writes (`BoardInv`), and with it every load finds its job.
* **`RowsMatch`** and **`IndexesHold`**. `RowsAreConversations` is inductive with the types: the
  job query that will append a row stands for the row until it is answered, and
  leaving a conversation removes that row or kills the app. `IndexesHoldUntilLeft` is
  inductive with it: while `left` is false rows are only appended, so that an index found
  once stays that of its chat. `TypeInv` adds to the types that the places in line of the
  queries in flight have a bound (`Bounded`), without which the next place is no number.
* **`StillDocumentsShown`**, where documents rest and no query fails. `StillInv`: each row is right or
  its own `getBidAmt` is still under way, a query for a row's job implies one, and what a
  query has noted of `accepted` is still true.
* **`AlwaysInOrder`**, hence **`SendersInOrder`**, **`RepliesComeAfter`** and **`RowsShownOnce`**, for any
  clocks, caches, refusals and crashes. `ChatInv` says that a sender's messages pass from tasks
  to disk to server in the order they were sent, that a phone's cache holds a beginning of
  what each other phone got to the server, and that whoever has a reply has what it
  answers, or it is lost.
* **`AlwaysInSession`**, hence **`DocumentsStayOwn`**, **`TabsStayOwn`**, **`ProfilesStayOwn`** and
  **`AccountsAreComplete`**, through failures and deaths of the app at any moment. `SessionInv`: until
  the user fails to wait, what is under way is one
  chain - a call, its notification, its completion block, the queries they start - and each
  link concerns the user it was started for; and each account that is not in `failed` has its
  document and picture or the link of the chain that will store them. `ProfilesStayOwn` excepts
  accounts without a document, `AccountsAreComplete` those in `failed`.
* **`NeverReadsYounger`** of `TimeAgo`: of two ages, the one longer by the calendar is never
  worded as younger.

Every invariant of a passing run, and both refinements, are stated by one of these theorems, under hypotheses the run's instance
meets. Only model-checked are the liveness properties, which are out of the prover's reach. Not proved either is what a chat log's order owes to the sort
itself: `InOrder` is taken as the set of ordered listings.
The assumptions on constants are evaluated by TLC in each run.

## 5. Not modelled, and why

* Filtering and sections of the job lists: they only read the arrays.
* Downloads of pictures: they fill image views, nothing is decided by them.
* Layout, cells and keyboard handling, but for the scrolling that can trap.
* The map and the address search: their results are stored as they come.
* The wording of `timeAgoSinceDate` without numbers: it has no caller.
* The screens of the settings other than signing out: they are stubs. `updateProfile`
  changes a picture of the account signed in and nothing else reads it.
* `PostAdViewController` and the other controllers that are not part of the target.
* The vendored pods, but for what the client's write queue, cache and listeners and
  FirebaseAuth's notifications owe the application. They are most of the
  repository's lines; their own algorithms are another project's.
