------------------------------- MODULE Session -------------------------------
(***************************************************************************)
(* Who is signed in on a phone, and what the app remembers of them: sign-up*)
(* (FinishSignUpViewController), sign-in (SignInViewController), signing   *)
(* out (SettingsTableViewController), the tab bar and its listener         *)
(* (EBRoundedTabBarController), createUser, addUserInformation and getUser *)
(* of DatabaseHelper, and FirebaseAuth under them.                         *)
(*                                                                         *)
(* FirebaseAuth sets the current user on a queue of its own; the           *)
(* notification of the change, then the completion block of the call that  *)
(* made it, are blocks of the main queue and run later.  Each of them, and *)
(* each answer of a query, looks up the current user anew.  A tab bar's    *)
(* controllers, on the other hand, look it up once, when they are made.    *)
(*                                                                         *)
(* An account stands for the details its owner typed in, too: a user       *)
(* document, a profile or a picture is named for the account it describes. *)
(* Tab bars and their listeners are never removed while the app lives.     *)
(***************************************************************************)
EXTENDS Naturals, Sequences, FiniteSets

CONSTANTS
    Accounts,  \* the accounts the owners of this phone have or may open
    NoUser,
    MaxPending, \* bound: calls and blocks under way when a user taps a button
    MaxBelow   \* bound: screens that can be cancelled, one over the other

ASSUME ConstantsAssumption ==
    /\ NoUser \notin Accounts
    /\ MaxPending \in Nat
    /\ MaxBelow \in Nat

VARIABLES
    registered, \* the accounts that exist
    document,   \* users/{account}: whose details it holds
    pictures,   \* profilePictures/{account}/{picture}: pairs <<folder, whose>>
    current,    \* Auth.auth().currentUser
    profile,    \* whose name and e-mail address UserProfile holds
    screen,
    below,      \* the screens it was presented over and leads back to
    tabsOf,     \* the user the tab bar on the screen was made for
    listens,    \* a tab bar listens for changes of the current user
    toldOf,     \* the user it was last told of
    calls,      \* what has not been answered
    main,       \* the blocks waiting for the main queue
    disturbed,  \* history: the user did not wait, or getUser failed
    failed      \* history: the accounts whose sign-up failed or ended in part

app == <<profile, screen, below, tabsOf, listens, toldOf, calls, main>>
vars == <<registered, document, pictures, current, app, disturbed, failed>>

-----------------------------------------------------------------------------
Who == Accounts \cup {NoUser}
Call == [op: {"create", "signIn", "getUser", "addInfo"}, who: Accounts]
Block ==
    [block: {"created", "signedIn"}, who: Accounts]
    \cup [block: {"changed", "listening", "halfCreated"}, who: {NoUser}]
Screens == {"launch", "welcome", "signIn", "signUp", "tabs"}

TypeOK ==
    /\ registered \subseteq Accounts
    /\ document \in [Accounts -> Who]
    /\ pictures \subseteq Accounts \X Accounts
    /\ current \in Who
    /\ profile \in Who
    /\ screen \in Screens
    /\ below \in Seq(Screens \ {"launch"})
    /\ tabsOf \in Who
    /\ listens \in BOOLEAN
    /\ toldOf \in Who
    /\ calls \subseteq Call
    /\ main \in Seq(Block)
    /\ disturbed \in BOOLEAN
    /\ failed \subseteq Accounts

(* The app is started, by a user who may be signed in from before; the     *)
(* accounts there are were opened on other phones, not all of them whole.  *)
Init ==
    /\ registered \in SUBSET Accounts
    /\ failed \in SUBSET registered
    /\ \E lost \in SUBSET failed :
         document = [a \in Accounts |-> IF a \in registered \ lost THEN a ELSE NoUser]
    /\ pictures = {<<a, a>> : a \in registered \ failed}
    /\ current \in registered \cup {NoUser}
    /\ profile = NoUser
    /\ screen = "launch"
    /\ below = << >>
    /\ tabsOf = NoUser
    /\ listens = FALSE
    /\ toldOf = NoUser
    /\ calls = {}
    /\ main = << >>
    /\ disturbed = FALSE

-----------------------------------------------------------------------------
Asks(op, a) == calls' = calls \cup {[op |-> op, who |-> a]}

OfTabs(b) == [block |-> b, who |-> NoUser]

AuthPending ==
    \/ \E q \in calls : q.op \in {"create", "signIn"}
    \/ \E i \in DOMAIN main : main[i].block \in {"created", "signedIn"}

SignInPending ==
    \/ \E q \in calls : q.op = "signIn"
    \/ \E i \in DOMAIN main : main[i].block = "signedIn"

Pending == calls # {} \/ main # << >>

Tap(s) == screen = s /\ Cardinality(calls) + Len(main) <= MaxPending

Present(s) == screen' = s /\ below' = Append(below, screen)

(* Mutant: the controllers of the first tab bar stay.                      *)
KeepTabs(blocks) ==
    /\ screen' = "tabs"
    /\ below' = << >>
    /\ tabsOf' = IF tabsOf = NoUser THEN current ELSE tabsOf
    /\ listens' = (listens \/ current # NoUser)
    /\ main' = IF current = NoUser THEN blocks ELSE Append(blocks, OfTabs("listening"))

(* Mutant: a tab bar does not listen.                                      *)
MakeDeafTabs(blocks) ==
    /\ screen' = "tabs"
    /\ below' = << >>
    /\ tabsOf' = current
    /\ main' = blocks
    /\ UNCHANGED listens

(* A new tab bar: its controllers note the current user, and it listens if *)
(* there is one, which is answered with a first call.                      *)
MakeTabs(blocks) ==
    /\ screen' = "tabs"
    /\ below' = << >>
    /\ tabsOf' = current
    /\ listens' = (listens \/ current # NoUser)
    /\ main' = IF current = NoUser THEN blocks ELSE Append(blocks, OfTabs("listening"))

(* The sign-ups that have an account, and are not through.                 *)
Saving == {q.who : q \in {p \in calls : p.op = "addInfo"}}
Unsaved == {main[i].who : i \in {k \in DOMAIN main : main[k].block = "created"}}

(* The app dies.  A createUser that was asked for may have got through; of *)
(* the sign-ups under way nothing more is done, and a document that has not*)
(* reached the disk is lost.                                               *)
Die ==
    /\ \E made \in SUBSET ({q.who : q \in {p \in calls : p.op = "create"}} \ registered) :
          /\ registered' = registered \cup made
          /\ failed' = failed \cup made \cup Saving \cup Unsaved
    /\ \E lost \in SUBSET {a \in Saving : document[a] = a} :
          document' = [a \in Accounts |-> IF a \in lost THEN NoUser ELSE document[a]]
    /\ profile' = NoUser
    /\ screen' = "launch"
    /\ below' = << >>
    /\ tabsOf' = NoUser
    /\ listens' = FALSE
    /\ toldOf' = NoUser
    /\ calls' = {}
    /\ main' = << >>
    /\ UNCHANGED <<pictures, current, disturbed>>

-----------------------------------------------------------------------------
(* The screens.                                                            *)

(* loadJobs, when getJobs has called back: the tab bar if a user is signed *)
(* in, or the title screen.                                                *)
LeaveLaunch ==
    /\ screen = "launch"
    /\ IF current # NoUser THEN MakeTabs(main)
       ELSE screen' = "welcome" /\ UNCHANGED <<below, tabsOf, listens, main>>
    /\ UNCHANGED <<registered, document, pictures, current, profile, toldOf, calls,
                   disturbed, failed>>

(* The title screen leads to the tab bar, signed in or not.                *)
Start ==
    /\ Tap("welcome")
    /\ MakeTabs(main)
    /\ disturbed' = (disturbed \/ AuthPending)
    /\ UNCHANGED <<registered, document, pictures, current, profile, toldOf, calls, failed>>

(* From the title screen, or from sign-up.                                 *)
GoToSignIn ==
    /\ Tap("welcome") \/ Tap("signUp")
    /\ Len(below) < MaxBelow
    /\ Present("signIn")
    /\ UNCHANGED <<registered, document, pictures, current, profile, tabsOf, listens,
                   toldOf, calls, main, disturbed, failed>>

(* From sign-in, or from the tabs of a guest.                              *)
GoToSignUp ==
    /\ Tap("signIn") \/ (Tap("tabs") /\ current = NoUser)
    /\ Len(below) < MaxBelow
    /\ Present("signUp")
    /\ disturbed' = (disturbed \/ SignInPending)
    /\ UNCHANGED <<registered, document, pictures, current, profile, tabsOf, listens,
                   toldOf, calls, main, failed>>

(* Sign-in and sign-up are dismissed, answered or not.                     *)
Cancel ==
    /\ Tap("signIn") \/ Tap("signUp")
    /\ below # << >>
    /\ screen' = below[Len(below)]
    /\ below' = SubSeq(below, 1, Len(below) - 1)
    /\ disturbed' = (disturbed \/ SignInPending)
    /\ UNCHANGED <<registered, document, pictures, current, profile, tabsOf, listens,
                   toldOf, calls, main, failed>>

(* registerUser asks for the account and is back at the title screen.      *)
RegisterUser(a) ==
    /\ Tap("signUp")
    /\ Asks("create", a)
    /\ screen' = "welcome"
    /\ below' = << >>
    /\ disturbed' = (disturbed \/ Pending)
    /\ UNCHANGED <<registered, document, pictures, current, profile, tabsOf, listens,
                   toldOf, main, failed>>

SignInDidPress(a) ==
    /\ Tap("signIn")
    /\ Asks("signIn", a)
    /\ disturbed' = (disturbed \/ Pending)
    /\ UNCHANGED <<registered, document, pictures, current, profile, screen, below,
                   tabsOf, listens, toldOf, main, failed>>

(* A signOut that throws is caught and changes nothing.                    *)
DoLogOut ==
    /\ Tap("tabs")
    /\ current # NoUser
    /\ current' = NoUser
    /\ main' = Append(main, OfTabs("changed"))
    /\ screen' = "welcome"
    /\ below' = << >>
    /\ disturbed' = (disturbed \/ Pending)
    /\ UNCHANGED <<registered, document, pictures, profile, tabsOf, listens, toldOf,
                   calls, failed>>

(* The messages of a tab bar made for a guest: userID!.                    *)
OpenMessages ==
    /\ screen = "tabs"
    /\ tabsOf = NoUser
    /\ Die

Crash == Die

-----------------------------------------------------------------------------
(* Answers.                                                                *)

Answered(q) == calls' = calls \ {q}

(* FirebaseAuth has the current user before anyone is told.                *)
SignsIn(a, done) ==
    /\ current' = a
    /\ main' = main \o <<OfTabs("changed"), [block |-> done, who |-> a]>>

(* Mutant: the completion block does not look at the error.                *)
CreateAnyway(q) ==
    /\ q.op = "create"
    /\ Answered(q)
    /\ IF q.who \in registered
       THEN /\ main' = Append(main, [block |-> "created", who |-> q.who])
            /\ UNCHANGED <<registered, current>>
       ELSE registered' = registered \cup {q.who} /\ SignsIn(q.who, "created")
    /\ UNCHANGED <<document, pictures, profile, screen, below, tabsOf, listens,
                   toldOf, disturbed, failed>>

(* createUser; an address that is in use is an error.                      *)
AnswerCreate(q) ==
    /\ q.op = "create"
    /\ Answered(q)
    /\ IF q.who \in registered THEN UNCHANGED <<registered, current, main>>
       ELSE registered' = registered \cup {q.who} /\ SignsIn(q.who, "created")
    /\ UNCHANGED <<document, pictures, profile, screen, below, tabsOf, listens,
                   toldOf, disturbed, failed>>

AnswerSignIn(q) ==
    /\ q.op = "signIn"
    /\ Answered(q)
    /\ IF q.who \in registered THEN SignsIn(q.who, "signedIn")
       ELSE UNCHANGED <<current, main>>
    /\ UNCHANGED <<registered, document, pictures, profile, screen, below, tabsOf,
                   listens, toldOf, disturbed, failed>>

(* The account is there, but its answer was lost, or the keychain does not *)
(* take the user.  For the app that is an error like another.              *)
AnswerHalfCreated(q) ==
    /\ q.op = "create"
    /\ q.who \notin registered
    /\ Answered(q)
    /\ registered' = registered \cup {q.who}
    /\ failed' = failed \cup {q.who}
    /\ UNCHANGED <<document, pictures, current, profile, screen, below, tabsOf, listens,
                   toldOf, main, disturbed>>

(* FirebaseAuth makes the account, but its second call, for what is known  *)
(* of it, fails, which it overlooks: nobody is signed in, and all is well. *)
AnswerNobody(q) ==
    /\ q.op = "create"
    /\ q.who \notin registered
    /\ Answered(q)
    /\ registered' = registered \cup {q.who}
    /\ failed' = failed \cup {q.who}
    /\ SignsIn(NoUser, "halfCreated")
    /\ UNCHANGED <<document, pictures, profile, screen, below, tabsOf, listens, toldOf,
                   disturbed>>

(* getUser of the tab bar: UserProfile becomes what the document says, or  *)
(* what is on its way there.  Without a document nobody is told.           *)
AnswerGetUser(q) ==
    /\ q.op = "getUser"
    /\ Answered(q)
    /\ profile' \in {IF document[q.who] = NoUser THEN profile ELSE document[q.who]}
                    \cup {p.who : p \in {x \in calls : x.op = "addInfo"}}
    /\ UNCHANGED <<registered, document, pictures, current, screen, below, tabsOf,
                   listens, toldOf, main, disturbed, failed>>

(* Mutant: the picture is left out.                                        *)
SkipPicture(q) ==
    /\ q.op = "addInfo"
    /\ Answered(q)
    /\ UNCHANGED <<registered, document, pictures, current, profile, screen, below,
                   tabsOf, listens, toldOf, main, disturbed, failed>>

(* The document is on the server, or refused, which addUserInformation     *)
(* hides: the picture is stored in the folder of whoever is signed in now  *)
(* (currentUser!.uid).                                                     *)
AnswerAddInfo(q) ==
    /\ q.op = "addInfo"
    /\ IF current = NoUser THEN Die
       ELSE /\ Answered(q)
            /\ pictures' = pictures \cup {<<current, q.who>>}
            /\ UNCHANGED <<registered, document, current, profile, screen, below,
                           tabsOf, listens, toldOf, main, disturbed, failed>>

(* Or it is not: there is no JPEG of it, or the upload fails.              *)
LosePicture(q) ==
    /\ q.op = "addInfo"
    /\ current # NoUser
    /\ Answered(q)
    /\ failed' = failed \cup {q.who, current}
    /\ UNCHANGED <<registered, document, pictures, current, profile, screen, below,
                   tabsOf, listens, toldOf, main, disturbed>>

(* An error ends the call; getUser does not tell the one who asked.        *)
AnswerError(q) ==
    /\ q.op # "addInfo"
    /\ Answered(q)
    /\ disturbed' = (disturbed \/ q.op = "getUser")
    /\ UNCHANGED <<registered, document, pictures, current, profile, screen, below,
                   tabsOf, listens, toldOf, main, failed>>

-----------------------------------------------------------------------------
(* Blocks of the main queue.                                               *)

Runs(b) == main # << >> /\ Head(main).block = b

(* Mutant: getUser without a user.                                         *)
TellOfNoUser(b) ==
    /\ Runs(b)
    /\ main' = Tail(main)
    /\ IF listens /\ (b = "listening" \/ current # toldOf)
       THEN toldOf' = current /\ Asks("getUser", current)
       ELSE UNCHANGED <<toldOf, calls>>
    /\ UNCHANGED <<registered, document, pictures, current, profile, screen, below,
                   tabsOf, listens, disturbed, failed>>

(* Mutant: a new listener is not told of the user there is.                *)
TellOfChanges(b) ==
    /\ Runs(b)
    /\ main' = Tail(main)
    /\ IF listens /\ current # toldOf
       THEN /\ toldOf' = current
            /\ IF current = NoUser THEN UNCHANGED calls ELSE Asks("getUser", current)
       ELSE UNCHANGED <<toldOf, calls>>
    /\ UNCHANGED <<registered, document, pictures, current, profile, screen, below,
                   tabsOf, listens, disturbed, failed>>

(* The listeners are told of the user there is now, if it is another one;  *)
(* a new listener is in any case.                                          *)
TellListeners(b) ==
    /\ Runs(b)
    /\ main' = Tail(main)
    /\ IF listens /\ (b = "listening" \/ current # toldOf)
       THEN /\ toldOf' = current
            /\ IF current = NoUser THEN UNCHANGED calls ELSE Asks("getUser", current)
       ELSE UNCHANGED <<toldOf, calls>>
    /\ UNCHANGED <<registered, document, pictures, current, profile, screen, below,
                   tabsOf, listens, disturbed, failed>>

(* validSignupHandle: addUserInformation for whoever is signed in now      *)
(* (userID!), with the details of the one who registered.  The server takes*)
(* the document or refuses it.                                             *)
RunCreated ==
    /\ Runs("created")
    /\ IF current = NoUser THEN Die
       ELSE /\ main' = Tail(main)
            /\ \/ /\ document' = [document EXCEPT ![current] = Head(main).who]
                  /\ UNCHANGED failed
               \/ /\ failed' = failed \cup {Head(main).who, current}
                  /\ UNCHANGED document
            /\ Asks("addInfo", Head(main).who)
            /\ UNCHANGED <<registered, pictures, current, profile, screen, below,
                           tabsOf, listens, toldOf, disturbed>>

(* createUser's completion block looks for the address of nobody:          *)
(* (user?.user.email)!.                                                    *)
RunHalfCreated == Runs("halfCreated") /\ Die

(* saveUser (currentUser!) makes a UserProfile without the display name,   *)
(* which no account has; then the segue, if the screen is still there.     *)
RunSignedIn ==
    /\ Runs("signedIn")
    /\ IF current = NoUser THEN Die
       ELSE /\ profile' = NoUser
            /\ IF screen = "signIn" THEN MakeTabs(Tail(main))
               ELSE main' = Tail(main) /\ UNCHANGED <<screen, below, tabsOf, listens>>
            /\ UNCHANGED <<registered, document, pictures, current, toldOf, calls,
                           disturbed, failed>>

-----------------------------------------------------------------------------
User ==
    \/ Start
    \/ GoToSignIn
    \/ GoToSignUp
    \/ Cancel
    \/ \E a \in Accounts : RegisterUser(a) \/ SignInDidPress(a)
    \/ DoLogOut
    \/ OpenMessages
    \/ Crash

Answer(q) ==
    \/ AnswerCreate(q)
    \/ AnswerHalfCreated(q)
    \/ AnswerNobody(q)
    \/ AnswerSignIn(q)
    \/ AnswerGetUser(q)
    \/ AnswerAddInfo(q)
    \/ LosePicture(q)
    \/ AnswerError(q)

Run ==
    \/ TellListeners("changed")
    \/ TellListeners("listening")
    \/ RunCreated
    \/ RunHalfCreated
    \/ RunSignedIn

App ==
    \/ LeaveLaunch
    \/ \E q \in calls : Answer(q)
    \/ Run

Next == User \/ App

Spec == Init /\ [][Next]_vars

(* Blocks run, and calls are answered or fail, sooner or later; between two*)
(* taps only finitely many do, so one condition on all of them is enough.  *)
(* It leaves out getJobs of the launch screen, which never calls back when *)
(* it fails.                                                               *)
FairSpec ==
    /\ Spec
    /\ WF_vars(Run \/ \E q \in calls : Answer(q))

-----------------------------------------------------------------------------
(* What holds.                                                             *)

(* A user who waits - who does not sign in, sign up or sign out before     *)
(* what was asked for has happened, does not leave the sign-in screen with *)
(* a sign-in under way, nor the title screen for the tabs with an account  *)
(* under way - is told apart from the others on the phone, in whatever     *)
(* order FirebaseAuth's notification, its completion block and the queries *)
(* they start come in, and wherever the app dies and is started again.     *)

(* Every user document holds the details of its own account, or nothing    *)
(* (addUserInformation, DatabaseHelper:204-216).                           *)
DocumentIsOwn ==
    ~disturbed => \A a \in Accounts : document[a] \in {NoUser, a}

(* The tabs on the screen were made for the user who is signed in          *)
(* (JobsTableViewController:27, MessageTableViewController:17).            *)
TabsAreOwn ==
    ~disturbed /\ screen = "tabs" => tabsOf = current

(* When everything has been answered, UserProfile - under whose name the   *)
(* phone bids, posts and chats - is the signed-in user, if the tabs are    *)
(* shown, though saveUser, the listener and getUser all write it.  (Whose  *)
(* document was refused, or never written, goes without: getUser does not  *)
(* call back.)                                                             *)
ProfileIsOwn ==
    ~disturbed /\ ~Pending /\ screen = "tabs" /\ current # NoUser
        => profile = current \/ document[current] = NoUser

(* And every account then has its document, and its picture where the      *)
(* document says it is (FinishSignUpViewController:342-356), unless one of *)
(* its own sign-up's calls failed or the app died before the last one.     *)
AccountIsComplete ==
    ~disturbed /\ ~Pending =>
        \A a \in registered \ failed : document[a] = a /\ <<a, a>> \in pictures

(* The profile of a user who waits at the tabs comes, if there is one and  *)
(* the app lives.                                                          *)
ProfileArrives ==
    \A a \in Accounts :
        current = a /\ screen = "tabs" /\ document[a] # NoUser
            ~> profile = a \/ current # a \/ screen = "launch" \/ disturbed

-----------------------------------------------------------------------------
(* What the repository says and the code does not do.                      *)

(* "Authenticate and add user" (SignUpViewController:324).                 *)
UserIsAdded ==
    \A a \in Accounts : document[a] \in {NoUser, a}

(* An account that was opened has a user document when all is done.        *)
EveryAccountHasDocument ==
    ~Pending => \A a \in registered : document[a] # NoUser

(* "get current user" (DatabaseHelper:218): with everything answered, the  *)
(* profile is that of the user who is signed in, or nobody's.              *)
ProfileIsCurrent ==
    ~Pending /\ current # NoUser => profile \in {NoUser, current}

(* The tabs are those of the user who is signed in.                        *)
TabsAreCurrent == screen = "tabs" => tabsOf = current
=============================================================================
