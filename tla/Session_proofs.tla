---------------------------- MODULE Session_proofs ----------------------------
(***************************************************************************)
(* For any accounts and bounds: the types, and that a user who waits is    *)
(* told apart from the others.  SessionInv is the inductive invariant: as  *)
(* long as nobody hurries, a call to FirebaseAuth is the only thing under  *)
(* way until it is answered, and everything that follows from the answer   *)
(* is about the user it signed in.                                         *)
(***************************************************************************)
EXTENDS Session, SequenceTheorems, TLAPS

-----------------------------------------------------------------------------
(* The inductive invariant.                                                *)

AuthCall(q) == q.op \in {"create", "signIn"}
AuthBlock(b) == b.block \in {"created", "signedIn"}

InMain(b) == \E i \in DOMAIN main : main[i] = b

(* An app that has just started has nothing under way.                     *)
FreshStart == screen = "launch" => calls = {} /\ main = << >>

CurrentExists == current \in registered \cup {NoUser}

ListenersListen == InMain(OfTabs("listening")) => listens

(* A call to FirebaseAuth waits alone, and not at the tabs.                *)
AuthAlone ==
    \A q \in calls :
        AuthCall(q) => calls = {q} /\ main = << >> /\ screen # "tabs"

(* So does its completion block, but for what the notification asked for.  *)
BlockAlone ==
    \A i \in DOMAIN main : AuthBlock(main[i]) =>
        /\ main[i].who = current
        /\ screen # "tabs"
        /\ \A q \in calls : q.op = "getUser"
        /\ \A k \in DOMAIN main : AuthBlock(main[k]) => k = i

(* All other calls are about the user there is.                            *)
CallsAreCurrent == \A q \in calls : AuthCall(q) \/ q.who = current

DocumentsAreOwn == \A a \in Accounts : document[a] \in {NoUser, a}

(* An account has its document and its picture, or will have, unless its   *)
(* sign-up failed in part.                                                 *)
Created(a) == [block |-> "created", who |-> a]
AddInfo(a) == [op |-> "addInfo", who |-> a]

AccountsAreMade ==
    \A a \in registered \ failed :
        InMain(Created(a)) \/ (document[a] = a /\ (<<a, a>> \in pictures \/ AddInfo(a) \in calls))

(* The tabs' user has a profile, or will have, if there is a document.     *)
ProfileComes ==
    screen = "tabs" /\ current # NoUser =>
        \/ profile = current
        \/ document[current] = NoUser
        \/ [op |-> "getUser", who |-> current] \in calls
        \/ InMain(OfTabs("listening"))

TabsOfCurrent == screen = "tabs" => tabsOf = current

(* A sign-in is waited for on its screen.                                  *)
SignInStays == SignInPending => screen = "signIn"

(* The tabs beneath another screen are those of a guest, who has asked for *)
(* no account.                                                             *)
CreatePending ==
    \/ \E q \in calls : q.op = "create"
    \/ \E i \in DOMAIN main : main[i].block = "created"

GuestBelow ==
    (\E i \in DOMAIN below : below[i] = "tabs") =>
        /\ tabsOf = NoUser
        /\ ~CreatePending
        /\ current = NoUser \/ \E i \in DOMAIN main : main[i].block = "signedIn"

Waits ==
    /\ AuthAlone
    /\ BlockAlone
    /\ CallsAreCurrent
    /\ DocumentsAreOwn
    /\ AccountsAreMade
    /\ ProfileComes
    /\ TabsOfCurrent
    /\ SignInStays
    /\ GuestBelow

SessionInv ==
    /\ TypeOK
    /\ FreshStart
    /\ CurrentExists
    /\ ListenersListen
    /\ ~disturbed => Waits

-----------------------------------------------------------------------------
(* The main queue.                                                         *)

LEMMA BlockKinds ==
    ASSUME NEW b \in Block
    PROVE  /\ b.block \in {"created", "signedIn", "changed", "listening", "halfCreated"}
           /\ b.who \in Who
           /\ AuthBlock(b) => b.who \in Accounts
           /\ ~AuthBlock(b) => b = OfTabs(b.block)
  BY DEF Block, Who, AuthBlock, OfTabs

LEMMA TabsBlocks ==
    ASSUME NEW k \in {"changed", "listening", "halfCreated"}
    PROVE  OfTabs(k) \in Block /\ OfTabs(k).block = k /\ ~AuthBlock(OfTabs(k))
  BY DEF Block, OfTabs, AuthBlock

LEMMA AuthBlocks ==
    ASSUME NEW k \in {"created", "signedIn"}, NEW a \in Accounts
    PROVE  LET b == [block |-> k, who |-> a]
           IN  b \in Block /\ AuthBlock(b) /\ b.who = a /\ b.block = k
  BY DEF Block, AuthBlock

(* The first block runs.                                                   *)
LEMMA MainTail ==
    ASSUME main \in Seq(Block), main # << >>, main' = Tail(main)
    PROVE  /\ main' \in Seq(Block)
           /\ Head(main) = main[1] /\ 1 \in DOMAIN main /\ Head(main) \in Block
           /\ \A i \in DOMAIN main' : i + 1 \in DOMAIN main /\ main'[i] = main[i + 1]
           /\ \A b : InMain(b)' => InMain(b)
           /\ \A b : InMain(b) => InMain(b)' \/ b = Head(main)
  <1>1. PICK n \in Nat : n = Len(main) /\ n >= 1 /\ DOMAIN main = 1..n
    <2>1. Len(main) \in Nat /\ DOMAIN main = 1..Len(main) /\ Len(main) # 0
      BY EmptySeq
    <2>2. Len(main) >= 1
      BY <2>1
    <2> QED
      BY <2>1, <2>2
  <1>2. /\ Tail(main) \in Seq(Block)
        /\ Len(Tail(main)) = n - 1
        /\ DOMAIN Tail(main) = 1..(n - 1)
        /\ \A i \in 1..(n - 1) : Tail(main)[i] = main[i + 1]
    BY <1>1
  <1>3. Head(main) = main[1] /\ main[1] \in Block
    BY <1>1
  <1>4. \A b : InMain(b)' => InMain(b)
    BY <1>1, <1>2 DEF InMain
  <1>5. ASSUME NEW b, InMain(b), b # Head(main)
        PROVE  InMain(b)'
    <2>1. PICK i \in 1..n : main[i] = b
      BY <1>1, <1>5 DEF InMain
    <2>2. i # 1
      BY <2>1, <1>3, <1>5
    <2>3. i - 1 \in 1..(n - 1) /\ main'[i - 1] = main[i]
      BY <1>2, <2>2
    <2> QED
      BY <1>2, <2>1, <2>3 DEF InMain
  <1> QED
    BY <1>1, <1>2, <1>3, <1>4, <1>5

(* A block is added.                                                       *)
LEMMA MainAppend ==
    ASSUME NEW s \in Seq(Block), NEW c \in Block, main' = Append(s, c)
    PROVE  /\ main' \in Seq(Block)
           /\ \A i \in DOMAIN main' :
                 (i \in DOMAIN s /\ main'[i] = s[i]) \/ (i = Len(s) + 1 /\ main'[i] = c)
           /\ \A i \in DOMAIN s : i \in DOMAIN main' /\ main'[i] = s[i]
           /\ InMain(c)'
  <1>1. PICK n \in Nat : n = Len(s) /\ DOMAIN s = 1..n
    OBVIOUS
  <1>2. /\ main' \in Seq(Block)
        /\ DOMAIN main' = 1..(n + 1)
        /\ \A i \in 1..n : main'[i] = s[i]
        /\ main'[n + 1] = c
    BY <1>1
  <1> QED
    BY <1>1, <1>2 DEF InMain

-----------------------------------------------------------------------------
(* What the parts of the invariant mean for an action.                     *)

USE DEF Tap, Asks, Answered, Runs, Who, Screens

(* If the user waited until now, nothing was under way.                    *)
LEMMA NothingPending ==
    ASSUME ~Pending
    PROVE  calls = {} /\ main = << >>
  BY DEF Pending

LEMMA NoAuthPending ==
    ASSUME calls = {}, main = << >>
    PROVE  ~SignInPending /\ ~CreatePending
  BY DEF SignInPending, CreatePending

LEMMA NothingInMain ==
    ASSUME main = << >>
    PROVE  \A b : ~InMain(b)
  BY DEF InMain

LEMMA InitHolds == Init => SessionInv
  <1> SUFFICES ASSUME Init
               PROVE  SessionInv
    OBVIOUS
  <1>1. TypeOK
    <2>1. main \in Seq(Block)
      BY EmptySeq DEF Init
    <2>2. document \in [Accounts -> Who]
      BY DEF Init
    <2>3. pictures \subseteq Accounts \X Accounts
      BY DEF Init
    <2>4. below \in Seq(Screens \ {"launch"})
      BY EmptySeq DEF Init
    <2> QED
      BY <2>1, <2>2, <2>3, <2>4 DEF Init, TypeOK
  <1>2. \A b : ~InMain(b)
    BY NothingInMain DEF Init
  <1>3. AuthAlone /\ BlockAlone /\ CallsAreCurrent
    BY DEF Init, AuthAlone, BlockAlone, CallsAreCurrent
  <1>4. DocumentsAreOwn /\ AccountsAreMade
    BY DEF Init, DocumentsAreOwn, AccountsAreMade
  <1>5. FreshStart /\ CurrentExists /\ ProfileComes /\ TabsOfCurrent
    BY DEF Init, FreshStart, CurrentExists, ProfileComes, TabsOfCurrent
  <1>6. SignInStays /\ GuestBelow
    BY NoAuthPending DEF Init, SignInStays, GuestBelow
  <1> QED
    BY <1>1, <1>2, <1>3, <1>4, <1>5, <1>6 DEF SessionInv, Waits, ListenersListen

LEMMA DieKeeps ==
    ASSUME SessionInv, Die
    PROVE  SessionInv'
  <1>1. TypeOK'
    <2>1. main' \in Seq(Block)
      BY EmptySeq DEF Die
    <2>2. registered' \subseteq Accounts /\ failed' \subseteq Accounts
      <3>1. Saving \subseteq Accounts
        BY DEF SessionInv, TypeOK, Saving, Call
      <3>2. Unsaved \subseteq Accounts
        <4>1. ASSUME NEW i \in DOMAIN main, main[i].block = "created"
              PROVE  main[i].who \in Accounts
          <5>1. main[i] \in Block
            BY DEF SessionInv, TypeOK
          <5> QED
            BY <4>1, <5>1, BlockKinds DEF AuthBlock
        <4> QED
          BY <4>1 DEF Unsaved
      <3> QED
        BY <3>1, <3>2 DEF SessionInv, TypeOK, Die, Call
    <2>3. document' \in [Accounts -> Who]
      BY DEF SessionInv, TypeOK, Die, Who
    <2>4. below' \in Seq(Screens \ {"launch"})
      BY EmptySeq DEF Die
    <2> QED
      BY <2>1, <2>2, <2>3, <2>4 DEF SessionInv, TypeOK, Die
  <1>2. \A b : ~InMain(b)'
    BY DEF Die, InMain
  <1>3. FreshStart' /\ CurrentExists' /\ ListenersListen'
    BY <1>2 DEF SessionInv, Die, FreshStart, CurrentExists, ListenersListen
  <1>4. ASSUME ~disturbed'
        PROVE  Waits'
    <2>1. Waits
      BY <1>4 DEF SessionInv, Die
    <2>2. \A a : InMain(Created(a)) => a \in Unsaved
      BY DEF InMain, Created, Unsaved
    <2>3. \A a : AddInfo(a) \in calls => a \in Saving
      BY DEF AddInfo, Saving
    <2>4. AuthAlone' /\ BlockAlone' /\ CallsAreCurrent'
      BY DEF Die, AuthAlone, BlockAlone, CallsAreCurrent
    <2>5. DocumentsAreOwn'
      BY <2>1 DEF Die, Waits, DocumentsAreOwn, SessionInv, TypeOK
    <2>6. AccountsAreMade'
      <3> SUFFICES ASSUME NEW a \in registered', a \notin failed'
                   PROVE  document'[a] = a /\ <<a, a>> \in pictures'
        BY DEF AccountsAreMade
      <3>1. a \in registered \ failed /\ a \notin Saving /\ a \notin Unsaved
        BY DEF Die
      <3>2. document[a] = a /\ <<a, a>> \in pictures
        BY <2>1, <2>2, <2>3, <3>1 DEF Waits, AccountsAreMade
      <3>3. a \in Accounts
        BY <3>1 DEF SessionInv, TypeOK
      <3> QED
        BY <3>1, <3>2, <3>3 DEF Die
    <2>7. ProfileComes' /\ TabsOfCurrent'
      BY DEF Die, ProfileComes, TabsOfCurrent
    <2>8. SignInStays' /\ GuestBelow'
      BY DEF Die, SignInStays, SignInPending, GuestBelow
    <2> QED
      BY <2>4, <2>5, <2>6, <2>7, <2>8 DEF Waits
  <1> QED
    BY <1>1, <1>3, <1>4 DEF SessionInv

(* Another screen is shown over this one.                                  *)
LEMMA PresentKeeps ==
    ASSUME SessionInv, NEW s \in {"signIn", "signUp"}, Present(s),
           screen \in {"welcome", "signIn", "signUp", "tabs"},
           screen = "tabs" => current = NoUser,
           disturbed' \in BOOLEAN,
           ~disturbed' => ~disturbed /\ (SignInPending => s = "signIn"),
           UNCHANGED <<registered, document, pictures, current, profile, tabsOf, listens,
                       toldOf, calls, main, failed>>
    PROVE  SessionInv'
  <1>1. TypeOK'
    BY DEF SessionInv, TypeOK, Present
  <1>2. \A b : InMain(b)' <=> InMain(b)
    BY DEF InMain
  <1>3. FreshStart' /\ CurrentExists' /\ ListenersListen'
    BY <1>2 DEF SessionInv, FreshStart, CurrentExists, ListenersListen, Present
  <1>4. ASSUME ~disturbed'
        PROVE  Waits'
    <2>1. Waits /\ (SignInPending => s = "signIn")
      BY <1>4 DEF SessionInv
    <2>2. AuthAlone' /\ BlockAlone' /\ CallsAreCurrent'
      BY <2>1 DEF Waits, AuthAlone, BlockAlone, CallsAreCurrent, Present
    <2>3. DocumentsAreOwn' /\ AccountsAreMade'
      BY <1>2, <2>1 DEF Waits, DocumentsAreOwn, AccountsAreMade
    <2>4. ProfileComes' /\ TabsOfCurrent'
      BY DEF ProfileComes, TabsOfCurrent, Present
    <2>5. SignInStays'
      BY <2>1 DEF SignInStays, SignInPending, Present
    <2>6. GuestBelow'
      <3>1. below \in Seq(Screens \ {"launch"}) /\ below' = Append(below, screen)
        BY DEF SessionInv, TypeOK, Present
      <3>2. ASSUME NEW i \in DOMAIN below', below'[i] = "tabs"
            PROVE  screen = "tabs" \/ \E k \in DOMAIN below : below[k] = "tabs"
        BY <3>1, <3>2
      <3>3. CASE screen = "tabs"
        <4>1. ~CreatePending
          BY <2>1, <3>3
          DEF CreatePending, Waits, AuthAlone, BlockAlone, AuthCall, AuthBlock
        <4>2. tabsOf = NoUser /\ current = NoUser
          BY <2>1, <3>3 DEF Waits, TabsOfCurrent
        <4> QED
          BY <4>1, <4>2 DEF GuestBelow, CreatePending
      <3>4. CASE screen # "tabs"
        BY <2>1, <3>2, <3>4 DEF Waits, GuestBelow, CreatePending, SignInPending
      <3> QED
        BY <3>3, <3>4
    <2> QED
      BY <2>1, <2>2, <2>3, <2>4, <2>5, <2>6 DEF Waits
  <1> QED
    BY <1>1, <1>3, <1>4 DEF SessionInv

(* The one beneath is shown again.                                         *)
LEMMA CancelKeeps ==
    ASSUME SessionInv, Cancel
    PROVE  SessionInv'
  <1>1. PICK n \in Nat : n = Len(below) /\ n >= 1 /\ DOMAIN below = 1..n
    <2>1. below \in Seq(Screens \ {"launch"}) /\ below # << >>
      BY DEF SessionInv, TypeOK, Cancel
    <2>2. Len(below) # 0
      BY <2>1, EmptySeq
    <2> QED
      BY <2>1, <2>2
  <1>2. below \in Seq(Screens \ {"launch"}) /\ below' = SubSeq(below, 1, n - 1)
    BY <1>1 DEF SessionInv, TypeOK, Cancel
  <1>3. /\ below' \in Seq(Screens \ {"launch"})
        /\ DOMAIN below' = 1..(n - 1)
        /\ \A i \in 1..(n - 1) : below'[i] = below[i]
    BY <1>1, <1>2
  <1>4. screen' = below[n] /\ n \in DOMAIN below /\ screen' \in Screens \ {"launch"}
    BY <1>1, <1>2 DEF Cancel
  <1>5. TypeOK'
    BY <1>3, <1>4 DEF SessionInv, TypeOK, Cancel
  <1>6. \A b : InMain(b)' <=> InMain(b)
    BY DEF InMain, Cancel
  <1>7. FreshStart' /\ CurrentExists' /\ ListenersListen'
    BY <1>4, <1>6 DEF SessionInv, FreshStart, CurrentExists, ListenersListen, Cancel
  <1>8. ASSUME ~disturbed'
        PROVE  Waits'
    <2>1. Waits /\ ~SignInPending
      BY <1>8 DEF SessionInv, Cancel
    <2>2. screen' = "tabs" => tabsOf = NoUser /\ current = NoUser /\ ~CreatePending
      BY <1>4, <2>1 DEF Waits, GuestBelow, SignInPending
    <2>3. AuthAlone' /\ CallsAreCurrent'
      BY <2>1, <2>2
      DEF Waits, AuthAlone, CallsAreCurrent, AuthCall, SignInPending, CreatePending, Cancel
    <2>4. BlockAlone'
      BY <2>1, <2>2
      DEF Waits, BlockAlone, AuthBlock, SignInPending, CreatePending, Cancel
    <2>5. DocumentsAreOwn' /\ AccountsAreMade'
      BY <1>6, <2>1 DEF Waits, DocumentsAreOwn, AccountsAreMade, Cancel
    <2>6. ProfileComes' /\ TabsOfCurrent'
      BY <2>2 DEF ProfileComes, TabsOfCurrent, Cancel
    <2>7. SignInStays'
      BY <2>1 DEF SignInStays, SignInPending, Cancel
    <2>8. GuestBelow'
      BY <1>1, <1>3, <2>1 DEF Waits, GuestBelow, CreatePending, SignInPending, Cancel
    <2> QED
      BY <2>3, <2>4, <2>5, <2>6, <2>7, <2>8 DEF Waits
  <1> QED
    BY <1>5, <1>7, <1>8 DEF SessionInv

-----------------------------------------------------------------------------
(* A new tab bar.                                                          *)

LEMMA TabsMain ==
    ASSUME NEW s \in Seq(Block), MakeTabs(s)
    PROVE  /\ main' \in Seq(Block)
           /\ \A i \in DOMAIN main' :
                 (i \in DOMAIN s /\ main'[i] = s[i])
                 \/ (main'[i] = OfTabs("listening") /\ current # NoUser)
           /\ current # NoUser => InMain(OfTabs("listening"))'
  <1>1. CASE current = NoUser
    BY <1>1 DEF MakeTabs
  <1>2. CASE current # NoUser
    <2>1. main' = Append(s, OfTabs("listening")) /\ OfTabs("listening") \in Block
      BY <1>2, TabsBlocks DEF MakeTabs
    <2> QED
      BY <1>2, <2>1, MainAppend
  <1> QED
    BY <1>1, <1>2

LEMMA TabsKeep ==
    ASSUME SessionInv, NEW s \in Seq(Block), MakeTabs(s),
           \A i \in DOMAIN s : InMain(s[i]),
           ~disturbed' => /\ ~disturbed
                          /\ \A q \in calls : ~AuthCall(q)
                          /\ \A i \in DOMAIN s : ~AuthBlock(s[i])
                          /\ \A a \in Accounts : ~InMain(Created(a)),
           profile' \in Who, disturbed' \in BOOLEAN,
           UNCHANGED <<registered, document, pictures, current, toldOf, calls, failed>>
    PROVE  SessionInv'
  <1>1. TypeOK'
    <2>1. below' \in Seq(Screens \ {"launch"})
      BY EmptySeq DEF MakeTabs
    <2> QED
      BY <2>1, TabsMain DEF SessionInv, TypeOK, MakeTabs
  <1>2. ListenersListen'
    <2>1. ASSUME InMain(OfTabs("listening"))'
          PROVE  listens'
      <3>1. PICK i \in DOMAIN main' : main'[i] = OfTabs("listening")
        BY <2>1 DEF InMain
      <3>2. CASE i \in DOMAIN s /\ main'[i] = s[i]
        BY <3>1, <3>2 DEF SessionInv, ListenersListen, MakeTabs
      <3>3. CASE current # NoUser
        BY <3>3 DEF MakeTabs
      <3> QED
        BY <3>2, <3>3, TabsMain
    <2> QED
      BY <2>1 DEF ListenersListen
  <1>3. FreshStart' /\ CurrentExists'
    BY DEF SessionInv, FreshStart, CurrentExists, MakeTabs
  <1>4. ASSUME ~disturbed'
        PROVE  Waits'
    <2>1. Waits
      BY <1>4 DEF SessionInv
    <2>2. AuthAlone' /\ CallsAreCurrent'
      BY <1>4, <2>1 DEF Waits, AuthAlone, CallsAreCurrent
    <2>3. BlockAlone'
      <3>1. \A i \in DOMAIN main' : ~AuthBlock(main'[i])
        BY <1>4, TabsMain, TabsBlocks
      <3> QED
        BY <3>1 DEF BlockAlone
    <2>4. DocumentsAreOwn' /\ AccountsAreMade'
      BY <1>4, <2>1 DEF Waits, DocumentsAreOwn, AccountsAreMade, SessionInv, TypeOK
    <2>5. ProfileComes'
      BY TabsMain DEF ProfileComes
    <2>6. TabsOfCurrent'
      BY DEF TabsOfCurrent, MakeTabs
    <2>7. ~SignInPending'
      <3>1. \A i \in DOMAIN main' : ~AuthBlock(main'[i])
        BY <1>4, TabsMain, TabsBlocks
      <3> QED
        BY <1>4, <3>1 DEF SignInPending, AuthCall, AuthBlock
    <2>8. SignInStays' /\ GuestBelow'
      BY <2>7 DEF SignInStays, GuestBelow, MakeTabs
    <2> QED
      BY <2>2, <2>3, <2>4, <2>5, <2>6, <2>8 DEF Waits
  <1> QED
    BY <1>1, <1>2, <1>3, <1>4 DEF SessionInv

LEMMA LeaveLaunchKeeps ==
    ASSUME SessionInv, LeaveLaunch
    PROVE  SessionInv'
  <1>1. CASE current # NoUser
    <2>1. calls = {} /\ main = << >> /\ MakeTabs(main)
      BY <1>1 DEF LeaveLaunch, SessionInv, FreshStart
    <2>2. \A b : ~InMain(b)
      BY <2>1, NothingInMain
    <2>3. /\ main \in Seq(Block) /\ profile' \in Who /\ disturbed' \in BOOLEAN
          /\ UNCHANGED <<registered, document, pictures, current, toldOf, calls, disturbed,
                         failed>>
      BY DEF LeaveLaunch, SessionInv, TypeOK
    <2>4. \A i \in DOMAIN main : InMain(main[i]) /\ ~AuthBlock(main[i])
      BY <2>2 DEF InMain
    <2> QED
      BY <2>1, <2>2, <2>3, <2>4, TabsKeep
  <1>2. CASE current = NoUser
    <2>1. calls = {} /\ main = << >> /\ screen' = "welcome"
      BY <1>2 DEF LeaveLaunch, SessionInv, FreshStart
    <2>2. UNCHANGED <<registered, document, pictures, current, profile, below, tabsOf,
                      listens, toldOf, calls, main, disturbed, failed>>
      BY <1>2 DEF LeaveLaunch
    <2>3. TypeOK'
      BY <2>1, <2>2 DEF SessionInv, TypeOK
    <2>4. FreshStart' /\ CurrentExists' /\ ListenersListen'
      BY <2>1, <2>2 DEF SessionInv, FreshStart, CurrentExists, ListenersListen, InMain
    <2>5. ASSUME ~disturbed
          PROVE  Waits'
      <3>1. Waits
        BY <2>5 DEF SessionInv
      <3>2. AuthAlone' /\ BlockAlone' /\ CallsAreCurrent'
        BY <2>1, <2>2 DEF AuthAlone, BlockAlone, CallsAreCurrent
      <3>3. DocumentsAreOwn' /\ AccountsAreMade'
        BY <2>2, <3>1 DEF Waits, DocumentsAreOwn, AccountsAreMade, InMain
      <3>4. ProfileComes' /\ TabsOfCurrent'
        BY <2>1 DEF ProfileComes, TabsOfCurrent
      <3>5. SignInStays' /\ GuestBelow'
        BY <2>1, <2>2, <3>1, NoAuthPending
        DEF Waits, SignInStays, GuestBelow, SignInPending, CreatePending
      <3> QED
        BY <3>2, <3>3, <3>4, <3>5 DEF Waits
    <2> QED
      BY <2>2, <2>3, <2>4, <2>5 DEF SessionInv
  <1> QED
    BY <1>1, <1>2

LEMMA StartKeeps ==
    ASSUME SessionInv, Start
    PROVE  SessionInv'
  <1>1. main \in Seq(Block) /\ (\A i \in DOMAIN main : InMain(main[i]))
    BY DEF SessionInv, TypeOK, InMain
  <1>2. ASSUME ~disturbed'
        PROVE  /\ \A q \in calls : ~AuthCall(q)
               /\ \A i \in DOMAIN main : ~AuthBlock(main[i])
               /\ \A a \in Accounts : ~InMain(Created(a))
    <2>1. ~AuthPending
      BY <1>2 DEF Start
    <2>2. /\ \A q \in calls : ~AuthCall(q)
          /\ \A i \in DOMAIN main : ~AuthBlock(main[i])
      BY <2>1 DEF AuthPending, AuthCall, AuthBlock
    <2>3. \A a \in Accounts : AuthBlock(Created(a))
      BY DEF Created, AuthBlock
    <2> QED
      BY <2>2, <2>3 DEF InMain
  <1>3. profile' \in Who /\ disturbed' \in BOOLEAN
    BY DEF Start, SessionInv, TypeOK
  <1> QED
    BY <1>1, <1>2, <1>3, TabsKeep DEF Start

LEMMA RunSignedInKeeps ==
    ASSUME SessionInv, RunSignedIn
    PROVE  SessionInv'
  <1>1. CASE current = NoUser
    BY <1>1, DieKeeps DEF RunSignedIn
  <1>2. CASE current # NoUser
    <2> DEFINE s == Tail(main)
    <2>1. main \in Seq(Block) /\ main # << >>
      BY DEF RunSignedIn, SessionInv, TypeOK
    <2>2. s \in Seq(Block) /\ main[1] = Head(main) /\ 1 \in DOMAIN main
      BY <2>1
    <2>3. \A i \in DOMAIN s : i + 1 \in DOMAIN main /\ s[i] = main[i + 1] /\ i + 1 # 1
      BY <2>1
    <2>4. \A i \in DOMAIN s : InMain(s[i])
      BY <2>3 DEF InMain
    <2>5. ASSUME ~disturbed
          PROVE  /\ screen # "tabs"
                 /\ \A q \in calls : ~AuthCall(q)
                 /\ \A i \in DOMAIN s : ~AuthBlock(s[i])
                 /\ \A a \in Accounts : ~InMain(Created(a))
      <3>1. AuthBlock(main[1]) /\ BlockAlone
        BY <2>2, <2>5 DEF RunSignedIn, SessionInv, Waits, AuthBlock
      <3>2. /\ screen # "tabs"
            /\ \A q \in calls : q.op = "getUser"
            /\ \A k \in DOMAIN main : AuthBlock(main[k]) => k = 1
        BY <2>2, <3>1 DEF BlockAlone
      <3>3. \A a \in Accounts : ~InMain(Created(a))
        BY <2>2, <3>2 DEF RunSignedIn, InMain, Created, AuthBlock
      <3> QED
        BY <2>3, <3>2, <3>3 DEF AuthCall
    <2>6. CASE screen = "signIn"
      <3>1. MakeTabs(s) /\ profile' \in Who /\ disturbed' \in BOOLEAN
        BY <1>2, <2>6 DEF RunSignedIn, SessionInv, TypeOK
      <3> HIDE DEF s
      <3> QED
        BY <1>2, <2>2, <2>4, <2>5, <3>1, TabsKeep DEF RunSignedIn
    <2>7. CASE screen # "signIn"
      <3>1. main' = s
        BY <1>2, <2>7 DEF RunSignedIn
      <3>2. TypeOK'
        BY <1>2, <2>2, <2>7, <3>1 DEF RunSignedIn, SessionInv, TypeOK
      <3>3. \A b : InMain(b)' => InMain(b)
        BY <2>1, <3>1, MainTail
      <3>4. FreshStart' /\ CurrentExists' /\ ListenersListen'
        BY <1>2, <2>1, <2>7, <3>3
        DEF RunSignedIn, SessionInv, FreshStart, CurrentExists, ListenersListen
      <3>5. ASSUME ~disturbed'
            PROVE  Waits'
        <4>1. ~disturbed /\ Waits
          BY <1>2, <3>5 DEF RunSignedIn, SessionInv
        <4>2. SignInPending
          BY <2>2 DEF RunSignedIn, SignInPending
        <4> QED
          BY <2>7, <4>1, <4>2 DEF Waits, SignInStays
      <3> QED
        BY <3>2, <3>4, <3>5 DEF SessionInv
    <2> QED
      BY <2>6, <2>7
  <1> QED
    BY <1>1, <1>2

-----------------------------------------------------------------------------
(* FirebaseAuth.                                                           *)

LEMMA AskAuthKeeps ==
    ASSUME SessionInv, NEW op \in {"create", "signIn"}, NEW a \in Accounts, Asks(op, a),
           (screen' = "signIn" /\ below' = below /\ op = "signIn")
           \/ (screen' = "welcome" /\ below' = << >> /\ op = "create"),
           disturbed' = (disturbed \/ Pending),
           UNCHANGED <<registered, document, pictures, current, profile, tabsOf, listens,
                       toldOf, main, failed>>
    PROVE  SessionInv'
  <1>1. TypeOK'
    <2>1. below' \in Seq(Screens \ {"launch"})
      BY EmptySeq DEF SessionInv, TypeOK
    <2> QED
      BY <2>1 DEF SessionInv, TypeOK, Call
  <1>2. FreshStart' /\ CurrentExists' /\ ListenersListen'
    BY DEF SessionInv, FreshStart, CurrentExists, ListenersListen, InMain
  <1>3. ASSUME ~disturbed'
        PROVE  Waits'
    <2>1. ~disturbed /\ ~Pending /\ Waits
      BY <1>3 DEF SessionInv
    <2>2. calls' = {[op |-> op, who |-> a]} /\ main' = << >>
      BY <2>1, NothingPending
    <2>3. AuthAlone' /\ BlockAlone' /\ CallsAreCurrent'
      BY <2>2 DEF AuthAlone, BlockAlone, CallsAreCurrent, AuthCall
    <2>4. DocumentsAreOwn'
      BY <2>1 DEF Waits, DocumentsAreOwn
    <2>5. AccountsAreMade'
      BY <2>1 DEF Waits, AccountsAreMade, InMain
    <2>6. ProfileComes' /\ TabsOfCurrent'
      BY DEF ProfileComes, TabsOfCurrent
    <2>7. SignInStays'
      BY <2>2 DEF SignInStays, SignInPending
    <2>8. GuestBelow'
      BY <2>1, <2>2, NothingPending, NoAuthPending
      DEF Waits, GuestBelow, SignInPending, CreatePending
    <2> QED
      BY <2>3, <2>4, <2>5, <2>6, <2>7, <2>8 DEF Waits
  <1> QED
    BY <1>1, <1>2, <1>3 DEF SessionInv

LEMMA DoLogOutKeeps ==
    ASSUME SessionInv, DoLogOut
    PROVE  SessionInv'
  <1>1. OfTabs("changed") \in Block /\ ~AuthBlock(OfTabs("changed"))
        /\ OfTabs("changed") # OfTabs("listening") /\ main \in Seq(Block)
    BY TabsBlocks DEF OfTabs, SessionInv, TypeOK
  <1>2. main' = Append(main, OfTabs("changed"))
    BY DEF DoLogOut
  <1>3. /\ main' \in Seq(Block)
        /\ \A i \in DOMAIN main' :
              (i \in DOMAIN main /\ main'[i] = main[i]) \/ main'[i] = OfTabs("changed")
    BY <1>1, <1>2, MainAppend
  <1>4. TypeOK'
    <2>1. below' \in Seq(Screens \ {"launch"})
      BY EmptySeq DEF DoLogOut
    <2> QED
      BY <1>3, <2>1 DEF SessionInv, TypeOK, DoLogOut
  <1>5. ListenersListen'
    BY <1>1, <1>3 DEF SessionInv, ListenersListen, InMain, DoLogOut
  <1>6. FreshStart' /\ CurrentExists'
    BY DEF FreshStart, CurrentExists, DoLogOut
  <1>7. ASSUME ~disturbed'
        PROVE  Waits'
    <2>1. ~disturbed /\ ~Pending /\ Waits
      BY <1>7 DEF SessionInv, DoLogOut
    <2>2. calls = {} /\ main = << >> /\ calls' = {}
      BY <2>1, NothingPending DEF DoLogOut
    <2>3. AuthAlone' /\ CallsAreCurrent'
      BY <2>2 DEF AuthAlone, CallsAreCurrent
    <2>4. BlockAlone'
      BY <1>1, <1>3, <2>2 DEF BlockAlone
    <2>5. DocumentsAreOwn' /\ AccountsAreMade'
      BY <2>1, <2>2, NothingInMain DEF DoLogOut, Waits, DocumentsAreOwn, AccountsAreMade
    <2>6. ProfileComes' /\ TabsOfCurrent'
      BY DEF DoLogOut, ProfileComes, TabsOfCurrent
    <2>7. ~SignInPending'
      BY <1>3, <2>2 DEF SignInPending, OfTabs
    <2>8. SignInStays' /\ GuestBelow'
      BY <2>7 DEF SignInStays, GuestBelow, DoLogOut
    <2> QED
      BY <2>3, <2>4, <2>5, <2>6, <2>8 DEF Waits
  <1> QED
    BY <1>4, <1>5, <1>6, <1>7 DEF SessionInv

(* A call to FirebaseAuth that fails, though it may have made an account.  *)
LEMMA AuthErrorKeeps ==
    ASSUME SessionInv, NEW q \in calls, AuthCall(q), Answered(q),
           NEW made \in SUBSET Accounts,
           registered' = registered \cup made, failed' = failed \cup made,
           UNCHANGED <<document, pictures, current, profile, screen, below, tabsOf,
                       listens, toldOf, main, disturbed>>
    PROVE  SessionInv'
  <1>1. TypeOK'
    BY DEF SessionInv, TypeOK
  <1>2. FreshStart' /\ CurrentExists' /\ ListenersListen'
    BY DEF SessionInv, FreshStart, CurrentExists, ListenersListen, InMain
  <1>3. ASSUME ~disturbed'
        PROVE  Waits'
    <2>1. Waits
      BY <1>3 DEF SessionInv
    <2>2. calls = {q} /\ main = << >> /\ screen # "tabs"
      BY <2>1 DEF Waits, AuthAlone
    <2>3. AuthAlone' /\ BlockAlone' /\ CallsAreCurrent'
      BY <2>2 DEF AuthAlone, BlockAlone, CallsAreCurrent
    <2>4. \A a : AddInfo(a) # q
      BY DEF AddInfo, AuthCall
    <2>5. DocumentsAreOwn' /\ AccountsAreMade'
      <3>1. registered' \ failed' \subseteq registered \ failed
        OBVIOUS
      <3> QED
        BY <2>1, <2>2, <2>4, <3>1, NothingInMain DEF Waits, DocumentsAreOwn, AccountsAreMade
    <2>6. ProfileComes' /\ TabsOfCurrent'
      BY <2>2 DEF ProfileComes, TabsOfCurrent
    <2>7. SignInStays' /\ ~SignInPending' /\ ~CreatePending'
      BY <2>2 DEF SignInStays, SignInPending, CreatePending
    <2>8. GuestBelow'
      BY <2>1, <2>2, <2>7 DEF Waits, GuestBelow
    <2> QED
      BY <2>3, <2>5, <2>6, <2>7, <2>8 DEF Waits
  <1> QED
    BY <1>1, <1>2, <1>3 DEF SessionInv

LEMMA AuthRefusedKeeps ==
    ASSUME SessionInv, NEW q \in calls, AuthCall(q), Answered(q),
           UNCHANGED <<registered, document, pictures, current, profile, screen, below, tabsOf,
                       listens, toldOf, main, disturbed, failed>>
    PROVE  SessionInv'
  <1>1. PICK made \in SUBSET Accounts :
          registered' = registered \cup made /\ failed' = failed \cup made
    <2>1. {} \in SUBSET Accounts /\ registered' = registered \cup {} /\ failed' = failed \cup {}
      OBVIOUS
    <2> QED
      BY <2>1
  <1> QED
    BY <1>1, AuthErrorKeeps

(* One that signs an account in, a new one or not.                         *)
LEMMA SignsInKeeps ==
    ASSUME SessionInv, NEW q \in calls, AuthCall(q), Answered(q),
           NEW k \in {"created", "signedIn"}, SignsIn(q.who, k),
           registered' = registered \cup {q.who},
           k = "created" \/ q.who \in registered,
           q.op = "create" => k = "created",
           q.op = "signIn" => k = "signedIn",
           UNCHANGED <<document, pictures, profile, screen, below, tabsOf, listens, toldOf,
                       disturbed, failed>>
    PROVE  SessionInv'
  <1> DEFINE b == [block |-> k, who |-> q.who]
  <1>1. q.who \in Accounts /\ main \in Seq(Block)
    BY DEF SessionInv, TypeOK, Call
  <1>2. /\ OfTabs("changed") \in Block /\ ~AuthBlock(OfTabs("changed"))
        /\ OfTabs("changed") # OfTabs("listening")
    BY TabsBlocks DEF OfTabs
  <1>3. b \in Block /\ AuthBlock(b) /\ b.who = q.who /\ b # OfTabs("listening")
    BY <1>1, AuthBlocks DEF OfTabs
  <1>4. main' = main \o <<OfTabs("changed"), b>>
    BY DEF SignsIn
  <1>5. k = "created" => b = Created(q.who)
    BY DEF Created
  <1> HIDE DEF b
  <1>6. main' \in Seq(Block)
    BY <1>1, <1>2, <1>3, <1>4
  <1>7. TypeOK'
    BY <1>1, <1>6 DEF SessionInv, TypeOK, SignsIn
  <1>8. ListenersListen'
    <2>1. \A i \in DOMAIN main' :
            (i \in DOMAIN main /\ main'[i] = main[i]) \/ main'[i] \in {OfTabs("changed"), b}
      BY <1>1, <1>4
    <2> QED
      BY <1>2, <1>3, <2>1 DEF SessionInv, ListenersListen, InMain
  <1>9. FreshStart' /\ CurrentExists'
    BY DEF SessionInv, FreshStart, CurrentExists, SignsIn
  <1>10. ASSUME ~disturbed'
         PROVE  Waits'
    <2>1. Waits
      BY <1>10 DEF SessionInv
    <2>2. calls = {q} /\ main = << >> /\ screen # "tabs"
      BY <2>1 DEF Waits, AuthAlone
    <2>3. main' = <<OfTabs("changed"), b>> /\ calls' = {}
      BY <1>2, <1>3, <1>4, <2>2
    <2>4. AuthAlone' /\ CallsAreCurrent'
      BY <2>3 DEF AuthAlone, CallsAreCurrent
    <2>5. BlockAlone'
      <3>1. /\ DOMAIN main' = {1, 2} /\ main'[1] = OfTabs("changed") /\ main'[2] = b
            /\ screen' # "tabs" /\ current' = q.who
        BY <2>2, <2>3 DEF SignsIn
      <3> QED
        BY <1>2, <1>3, <2>3, <3>1 DEF BlockAlone
    <2>6. \A a : AddInfo(a) # q
      BY DEF AddInfo, AuthCall
    <2>7. InMain(b)'
      BY <2>3 DEF InMain
    <2>8. AccountsAreMade'
      <3>1. ASSUME NEW a \in registered \ failed
            PROVE  document'[a] = a /\ <<a, a>> \in pictures'
        BY <2>1, <2>2, <2>6, NothingInMain DEF Waits, AccountsAreMade
      <3>2. q.who \notin registered => InMain(Created(q.who))'
        BY <1>5, <2>7
      <3> QED
        BY <3>1, <3>2 DEF AccountsAreMade
    <2>9. DocumentsAreOwn'
      BY <2>1 DEF Waits, DocumentsAreOwn
    <2>10. ProfileComes' /\ TabsOfCurrent'
      BY <2>2 DEF ProfileComes, TabsOfCurrent
    <2>11. /\ DOMAIN main' = {1, 2} /\ main'[1] = OfTabs("changed") /\ main'[2] = b
           /\ b.block = k /\ OfTabs("changed").block = "changed"
      BY <1>1, <2>3, AuthBlocks DEF b, OfTabs
    <2>12. SignInStays'
      <3>1. q.op = "signIn" => SignInPending
        BY DEF SignInPending
      <3> QED
        BY <2>1, <2>3, <2>11, <3>1 DEF Waits, SignInStays, SignInPending, AuthCall
    <2>13. GuestBelow'
      <3>1. q.op = "create" => CreatePending
        BY DEF CreatePending
      <3> QED
        BY <2>1, <2>3, <2>11, <3>1 DEF Waits, GuestBelow, CreatePending, AuthCall
    <2> QED
      BY <2>4, <2>5, <2>8, <2>9, <2>10, <2>12, <2>13 DEF Waits
  <1> QED
    BY <1>7, <1>8, <1>9, <1>10 DEF SessionInv

-----------------------------------------------------------------------------
(* The calls to the database.                                              *)

(* A call that is answered leaves the others, and the main queue.          *)
LEMMA GetUserKeeps ==
    ASSUME SessionInv, NEW q \in calls, AnswerGetUser(q)
    PROVE  SessionInv'
  <1>1. TypeOK'
    BY DEF SessionInv, TypeOK, AnswerGetUser, Call
  <1>2. FreshStart' /\ CurrentExists' /\ ListenersListen'
    BY DEF AnswerGetUser, SessionInv, FreshStart, CurrentExists, ListenersListen, InMain
  <1>3. ASSUME ~disturbed'
        PROVE  Waits'
    <2>1. Waits
      BY <1>3 DEF SessionInv, AnswerGetUser
    <2>2. q.op = "getUser" /\ q.who = current /\ q.who \in Accounts
      BY <2>1 DEF AnswerGetUser, Waits, CallsAreCurrent, AuthCall, SessionInv, TypeOK, Call
    <2>3. \A p \in calls : ~AuthCall(p)
      BY <2>1, <2>2 DEF Waits, AuthAlone, AuthCall
    <2>4. AuthAlone' /\ BlockAlone' /\ CallsAreCurrent'
      BY <2>1, <2>3
      DEF AnswerGetUser, Waits, AuthAlone, BlockAlone, CallsAreCurrent
    <2>5. \A a : AddInfo(a) # q
      BY <2>2 DEF AddInfo
    <2>6. DocumentsAreOwn' /\ TabsOfCurrent'
      BY <2>1 DEF AnswerGetUser, Waits, DocumentsAreOwn, TabsOfCurrent
    <2>7. AccountsAreMade'
      BY <2>1, <2>5 DEF AnswerGetUser, Waits, AccountsAreMade, InMain
    <2>8. ASSUME document[current] # NoUser
          PROVE  profile' = current
      <3>1. document[current] = current
        BY <2>1, <2>2, <2>8 DEF Waits, DocumentsAreOwn
      <3>2. \A p \in calls : p.op = "addInfo" => p.who = current
        BY <2>1 DEF Waits, CallsAreCurrent, AuthCall
      <3> QED
        BY <2>2, <2>8, <3>1, <3>2 DEF AnswerGetUser
    <2>9. ProfileComes'
      BY <2>8 DEF ProfileComes, AnswerGetUser
    <2>10. SignInStays' /\ GuestBelow'
      BY <2>1, <2>2
      DEF AnswerGetUser, Waits, SignInStays, GuestBelow, SignInPending, CreatePending
    <2> QED
      BY <2>4, <2>6, <2>7, <2>9, <2>10 DEF Waits
  <1> QED
    BY <1>1, <1>2, <1>3 DEF SessionInv

LEMMA AddInfoKeeps ==
    ASSUME SessionInv, NEW q \in calls, AnswerAddInfo(q) \/ LosePicture(q)
    PROVE  SessionInv'
  <1>1. CASE current = NoUser
    BY <1>1, DieKeeps DEF AnswerAddInfo, LosePicture
  <1>2. CASE current # NoUser
    <2>1. /\ Answered(q)
          /\ \/ pictures' = pictures \cup {<<current, q.who>>} /\ failed' = failed
             \/ pictures' = pictures /\ failed' = failed \cup {q.who, current}
          /\ UNCHANGED <<registered, document, current, profile, screen, below, tabsOf, listens,
                         toldOf, main, disturbed>>
      BY <1>2 DEF AnswerAddInfo, LosePicture
    <2>2. q.op = "addInfo" /\ q.who \in Accounts
      BY DEF AnswerAddInfo, LosePicture, SessionInv, TypeOK, Call
    <2>3. TypeOK'
      BY <1>2, <2>1, <2>2 DEF SessionInv, TypeOK
    <2>4. FreshStart' /\ CurrentExists' /\ ListenersListen'
      BY <2>1 DEF SessionInv, FreshStart, CurrentExists, ListenersListen, InMain
    <2>5. ASSUME ~disturbed'
          PROVE  Waits'
      <3>1. Waits
        BY <2>1, <2>5 DEF SessionInv
      <3>2. q.who = current
        BY <2>2, <3>1 DEF Waits, CallsAreCurrent, AuthCall
      <3>3. AuthAlone' /\ BlockAlone' /\ CallsAreCurrent'
        BY <2>1, <2>2, <3>1
        DEF Waits, AuthAlone, BlockAlone, CallsAreCurrent, AuthCall
      <3>4. DocumentsAreOwn' /\ TabsOfCurrent'
        BY <2>1, <3>1 DEF Waits, DocumentsAreOwn, TabsOfCurrent
      <3>5. \A a : AddInfo(a) = q => a = q.who
        BY DEF AddInfo
      <3>6. AccountsAreMade'
        BY <2>1, <3>1, <3>2, <3>5 DEF Waits, AccountsAreMade, InMain
      <3>7. ProfileComes'
        BY <2>1, <2>2, <3>1 DEF Waits, ProfileComes, InMain
      <3>8. SignInStays' /\ GuestBelow'
        BY <2>1, <2>2, <3>1
        DEF Waits, SignInStays, GuestBelow, SignInPending, CreatePending
      <3> QED
        BY <3>3, <3>4, <3>6, <3>7, <3>8 DEF Waits
    <2> QED
      BY <2>3, <2>4, <2>5 DEF SessionInv
  <1> QED
    BY <1>1, <1>2

LEMMA ErrorKeeps ==
    ASSUME SessionInv, NEW q \in calls, AnswerError(q)
    PROVE  SessionInv'
  <1>1. q \in Call
    BY DEF SessionInv, TypeOK
  <1>2. CASE AuthCall(q)
    <2>1. disturbed' = disturbed
      BY <1>2 DEF AnswerError, AuthCall, SessionInv, TypeOK
    <2> QED
      BY <1>2, <2>1, AuthRefusedKeeps DEF AnswerError
  <1>3. CASE ~AuthCall(q)
    <2>1. disturbed'
      BY <1>1, <1>3 DEF AnswerError, AuthCall, Call
    <2>2. TypeOK'
      BY <2>1 DEF AnswerError, SessionInv, TypeOK
    <2>3. FreshStart' /\ CurrentExists' /\ ListenersListen'
      BY DEF AnswerError, SessionInv, FreshStart, CurrentExists, ListenersListen, InMain
    <2> QED
      BY <2>1, <2>2, <2>3 DEF SessionInv
  <1> QED
    BY <1>2, <1>3

LEMMA AuthAnswerKeeps ==
    ASSUME SessionInv, NEW q \in calls, AnswerCreate(q) \/ AnswerSignIn(q)
    PROVE  SessionInv'
  <1>1. AuthCall(q) /\ Answered(q)
    BY DEF AnswerCreate, AnswerSignIn, AuthCall
  <1>2. CASE AnswerCreate(q) /\ q.who \in registered
    BY <1>1, <1>2, AuthRefusedKeeps DEF AnswerCreate
  <1>3. CASE AnswerCreate(q) /\ q.who \notin registered
    BY <1>1, <1>3, SignsInKeeps DEF AnswerCreate
  <1>4. CASE AnswerSignIn(q) /\ q.who \in registered
    <2>1. registered' = registered \cup {q.who}
      BY <1>4 DEF AnswerSignIn
    <2> QED
      BY <1>1, <1>4, <2>1, SignsInKeeps DEF AnswerSignIn
  <1>5. CASE AnswerSignIn(q) /\ q.who \notin registered
    BY <1>1, <1>5, AuthRefusedKeeps DEF AnswerSignIn
  <1> QED
    BY <1>2, <1>3, <1>4, <1>5

LEMMA HalfCreatedKeeps ==
    ASSUME SessionInv, NEW q \in calls, AnswerHalfCreated(q)
    PROVE  SessionInv'
  <1>1. AuthCall(q) /\ q.who \in Accounts
    BY DEF AnswerHalfCreated, AuthCall, SessionInv, TypeOK, Call
  <1>2. {q.who} \in SUBSET Accounts
    BY <1>1
  <1> QED
    BY <1>1, <1>2, AuthErrorKeeps DEF AnswerHalfCreated

(* The account is made and nobody is signed in.                            *)
LEMMA NobodyKeeps ==
    ASSUME SessionInv, NEW q \in calls, AnswerNobody(q)
    PROVE  SessionInv'
  <1> DEFINE t == OfTabs("changed")
             b == OfTabs("halfCreated")
  <1>1. /\ q.op = "create" /\ AuthCall(q) /\ q.who \in Accounts /\ main \in Seq(Block)
        /\ current' = NoUser /\ calls' = calls \ {q} /\ main' = main \o <<t, b>>
        /\ registered' = registered \cup {q.who} /\ failed' = failed \cup {q.who}
        /\ UNCHANGED <<document, pictures, profile, screen, below, tabsOf, listens, toldOf,
                       disturbed>>
    BY DEF AnswerNobody, Answered, SignsIn, OfTabs, AuthCall, SessionInv, TypeOK, Call
  <1>2. /\ t \in Block /\ ~AuthBlock(t) /\ t # OfTabs("listening")
        /\ b \in Block /\ ~AuthBlock(b) /\ b # OfTabs("listening")
        /\ t.block = "changed" /\ b.block = "halfCreated"
    BY TabsBlocks DEF OfTabs
  <1> HIDE DEF t, b
  <1>3. main' \in Seq(Block)
    BY <1>1, <1>2
  <1>4. TypeOK'
    BY <1>1, <1>3 DEF SessionInv, TypeOK, Who
  <1>5. \A i \in DOMAIN main' :
          (i \in DOMAIN main /\ main'[i] = main[i]) \/ main'[i] \in {t, b}
    BY <1>1
  <1>6. ListenersListen'
    BY <1>1, <1>2, <1>5 DEF SessionInv, ListenersListen, InMain
  <1>7. FreshStart' /\ CurrentExists'
    BY <1>1 DEF SessionInv, FreshStart, CurrentExists
  <1>8. ASSUME ~disturbed'
        PROVE  Waits'
    <2>1. Waits
      BY <1>1, <1>8 DEF SessionInv
    <2>2. calls = {q} /\ main = << >> /\ screen # "tabs"
      BY <1>1, <2>1 DEF Waits, AuthAlone
    <2>3. calls' = {} /\ \A i \in DOMAIN main' : main'[i] \in {t, b}
      BY <1>1, <1>5, <2>2
    <2>4. AuthAlone' /\ CallsAreCurrent'
      BY <2>3 DEF AuthAlone, CallsAreCurrent
    <2>5. BlockAlone'
      BY <1>2, <2>3 DEF BlockAlone
    <2>6. \A a : AddInfo(a) # q
      BY <1>1 DEF AddInfo
    <2>7. AccountsAreMade'
      BY <1>1, <2>1, <2>2, <2>6, NothingInMain DEF Waits, AccountsAreMade
    <2>8. DocumentsAreOwn' /\ ProfileComes' /\ TabsOfCurrent'
      BY <1>1, <2>1, <2>2 DEF Waits, DocumentsAreOwn, ProfileComes, TabsOfCurrent
    <2>9. ~SignInPending' /\ ~CreatePending'
      BY <1>2, <2>3 DEF SignInPending, CreatePending
    <2>10. SignInStays' /\ GuestBelow'
      BY <1>1, <2>1, <2>9 DEF Waits, SignInStays, GuestBelow
    <2> QED
      BY <2>4, <2>5, <2>7, <2>8, <2>10 DEF Waits
  <1> QED
    BY <1>4, <1>6, <1>7, <1>8 DEF SessionInv

-----------------------------------------------------------------------------
(* The blocks.                                                             *)

LEMMA TellKeeps ==
    ASSUME SessionInv, NEW k \in {"changed", "listening"}, TellListeners(k)
    PROVE  SessionInv'
  <1>1. /\ main \in Seq(Block) /\ main # << >> /\ main' = Tail(main)
        /\ Head(main).block = k
        /\ UNCHANGED <<registered, document, pictures, current, profile, screen, below, tabsOf,
                       listens, disturbed, failed>>
    BY DEF SessionInv, TypeOK, TellListeners
  <1>2. /\ main' \in Seq(Block)
        /\ Head(main) = main[1] /\ 1 \in DOMAIN main /\ Head(main) \in Block
        /\ \A i \in DOMAIN main' : i + 1 \in DOMAIN main /\ main'[i] = main[i + 1]
        /\ \A b : InMain(b)' => InMain(b)
        /\ \A b : InMain(b) => InMain(b)' \/ b = Head(main)
    BY <1>1, MainTail
  <1>3. Head(main) = OfTabs(k)
    BY <1>1, <1>2, BlockKinds DEF AuthBlock
  <1>4. /\ calls \subseteq calls'
        /\ calls' \subseteq calls \cup {[op |-> "getUser", who |-> current]}
        /\ calls' # calls => current # NoUser
        /\ toldOf' \in Who
    BY DEF TellListeners, SessionInv, TypeOK
  <1>5. TypeOK'
    BY <1>1, <1>2, <1>4 DEF SessionInv, TypeOK, Call
  <1>6. ListenersListen' /\ CurrentExists' /\ FreshStart'
    BY <1>1, <1>2 DEF SessionInv, ListenersListen, CurrentExists, FreshStart
  <1>7. ASSUME ~disturbed'
        PROVE  Waits'
    <2>1. Waits
      BY <1>1, <1>7 DEF SessionInv
    <2>2. \A q \in calls' : ~AuthCall(q)
      BY <1>1, <1>4, <2>1 DEF Waits, AuthAlone, AuthCall
    <2>3. AuthAlone' /\ CallsAreCurrent'
      BY <1>1, <1>4, <2>1, <2>2 DEF Waits, AuthAlone, CallsAreCurrent
    <2>4. BlockAlone'
      <3> SUFFICES ASSUME NEW i \in DOMAIN main', AuthBlock(main'[i])
                   PROVE  /\ main'[i].who = current
                          /\ screen # "tabs"
                          /\ \A q \in calls' : q.op = "getUser"
                          /\ \A j \in DOMAIN main' : AuthBlock(main'[j]) => j = i
        BY <1>1 DEF BlockAlone
      <3>1. i + 1 \in DOMAIN main /\ AuthBlock(main[i + 1]) /\ main'[i] = main[i + 1]
        BY <1>2
      <3>2. /\ main[i + 1].who = current
            /\ screen # "tabs"
            /\ \A q \in calls : q.op = "getUser"
            /\ \A j \in DOMAIN main : AuthBlock(main[j]) => j = i + 1
        BY <2>1, <3>1 DEF Waits, BlockAlone
      <3>3. \A q \in calls' : q.op = "getUser"
        BY <1>4, <3>2
      <3>4. ASSUME NEW j \in DOMAIN main', AuthBlock(main'[j])
            PROVE  j = i
        <4>1. i \in Nat /\ j \in Nat
          BY <1>2
        <4>2. j + 1 = i + 1
          BY <1>2, <3>2, <3>4
        <4> QED
          BY <4>1, <4>2
      <3> QED
        BY <3>1, <3>2, <3>3, <3>4
    <2>5. DocumentsAreOwn' /\ TabsOfCurrent'
      BY <1>1, <2>1 DEF Waits, DocumentsAreOwn, TabsOfCurrent
    <2>6. \A a : Created(a) # Head(main)
      BY <1>1 DEF Created
    <2>7. AccountsAreMade'
      BY <1>1, <1>2, <1>4, <2>1, <2>6 DEF Waits, AccountsAreMade
    <2>8. ProfileComes'
      <3> SUFFICES ASSUME screen = "tabs", current # NoUser
                   PROVE  \/ profile = current
                          \/ document[current] = NoUser
                          \/ [op |-> "getUser", who |-> current] \in calls'
                          \/ InMain(OfTabs("listening"))'
        BY <1>1 DEF ProfileComes
      <3>1. CASE k = "listening"
        <4>1. listens
          BY <1>2, <1>3, <3>1 DEF SessionInv, ListenersListen, InMain
        <4> QED
          BY <3>1, <4>1 DEF TellListeners
      <3>2. CASE k # "listening"
        <4>1. OfTabs("listening") # Head(main)
          BY <1>1, <3>2 DEF OfTabs
        <4> QED
          BY <1>2, <1>4, <2>1, <4>1 DEF Waits, ProfileComes
      <3> QED
        BY <3>1, <3>2
    <2>9. \A i \in DOMAIN main :
             main[i].block # k => \E j \in DOMAIN main' : main'[j] = main[i]
      <3> SUFFICES ASSUME NEW i \in DOMAIN main, main[i].block # k
                   PROVE  \E j \in DOMAIN main' : main'[j] = main[i]
        OBVIOUS
      <3>1. PICK b : b = main[i]
        OBVIOUS
      <3>2. InMain(b) /\ b # Head(main)
        BY <1>1, <3>1 DEF InMain
      <3>3. InMain(b)'
        BY <1>2, <3>2
      <3> QED
        BY <3>1, <3>3 DEF InMain
    <2>10. SignInStays' /\ (SignInPending' => SignInPending) /\ (CreatePending' => CreatePending)
      BY <1>1, <1>2, <1>4, <2>1 DEF Waits, SignInStays, SignInPending, CreatePending
    <2>11. GuestBelow'
      BY <1>1, <2>1, <2>9, <2>10 DEF Waits, GuestBelow
    <2> QED
      BY <2>3, <2>4, <2>5, <2>7, <2>8, <2>10, <2>11 DEF Waits
  <1> QED
    BY <1>5, <1>6, <1>7 DEF SessionInv

LEMMA RunCreatedKeeps ==
    ASSUME SessionInv, RunCreated
    PROVE  SessionInv'
  <1>1. CASE current = NoUser
    BY <1>1, DieKeeps DEF RunCreated
  <1>2. CASE current # NoUser
    <2> DEFINE w == Head(main).who
    <2>1. /\ main \in Seq(Block) /\ main # << >> /\ main' = Tail(main)
          /\ Head(main).block = "created"
          /\ \/ document' = [document EXCEPT ![current] = w] /\ failed' = failed
             \/ document' = document /\ failed' = failed \cup {w, current}
          /\ calls' = calls \cup {AddInfo(w)}
          /\ UNCHANGED <<registered, pictures, current, profile, screen, below, tabsOf, listens,
                         toldOf, disturbed>>
      BY <1>2 DEF RunCreated, SessionInv, TypeOK, AddInfo
    <2>2. /\ main' \in Seq(Block)
          /\ Head(main) = main[1] /\ 1 \in DOMAIN main /\ Head(main) \in Block
          /\ \A i \in DOMAIN main' : i + 1 \in DOMAIN main /\ main'[i] = main[i + 1]
          /\ \A b : InMain(b)' => InMain(b)
          /\ \A b : InMain(b) => InMain(b)' \/ b = Head(main)
      BY <2>1, MainTail
    <2>3. AuthBlock(Head(main)) /\ w \in Accounts
      BY <2>1, <2>2, BlockKinds DEF AuthBlock
    <2>4. TypeOK'
      BY <1>2, <2>1, <2>2, <2>3 DEF SessionInv, TypeOK, Call, AddInfo
    <2>5. ListenersListen' /\ CurrentExists' /\ FreshStart'
      BY <2>1, <2>2 DEF SessionInv, ListenersListen, CurrentExists, FreshStart
    <2>6. ASSUME ~disturbed'
          PROVE  Waits'
      <3>1. Waits
        BY <2>1, <2>6 DEF SessionInv
      <3>2. /\ w = current
            /\ screen # "tabs"
            /\ \A q \in calls : q.op = "getUser"
            /\ \A k \in DOMAIN main : AuthBlock(main[k]) => k = 1
        BY <2>2, <2>3, <3>1 DEF Waits, BlockAlone
      <3>3. AuthAlone' /\ CallsAreCurrent'
        BY <2>1, <3>1, <3>2 DEF Waits, AuthAlone, CallsAreCurrent, AuthCall, AddInfo
      <3>4. \A i \in DOMAIN main' : ~AuthBlock(main'[i])
        <4>1. \A i \in DOMAIN main' : i \in Nat /\ i >= 1
          BY <2>2
        <4> QED
          BY <2>2, <3>2, <4>1
      <3>5. BlockAlone'
        BY <3>4 DEF BlockAlone
      <3>6. DocumentsAreOwn'
        BY <2>1, <2>3, <3>1, <3>2 DEF Waits, DocumentsAreOwn, SessionInv, TypeOK
      <3>7. ProfileComes' /\ TabsOfCurrent'
        BY <2>1, <3>2 DEF ProfileComes, TabsOfCurrent
      <3>8. AccountsAreMade'
        <4> SUFFICES ASSUME NEW a \in registered', a \notin failed'
                     PROVE  \/ InMain(Created(a))'
                            \/ document'[a] = a
                               /\ (<<a, a>> \in pictures \/ AddInfo(a) \in calls')
          BY <2>1 DEF AccountsAreMade, AddInfo
        <4>1. CASE a = current
          <5>1. document'[a] = a
            BY <2>1, <3>2, <4>1 DEF SessionInv, TypeOK
          <5> QED
            BY <2>1, <3>2, <4>1, <5>1
        <4>2. CASE a # current
          <5>1. Created(a) # Head(main)
            BY <3>2, <4>2 DEF Created
          <5>2. InMain(Created(a)) => InMain(Created(a))'
            BY <2>2, <5>1
          <5>3. document'[a] = document[a]
            BY <2>1, <4>2 DEF SessionInv, TypeOK
          <5> QED
            BY <2>1, <3>1, <5>2, <5>3 DEF Waits, AccountsAreMade
        <4> QED
          BY <4>1, <4>2
      <3>9. SignInStays'
        <4>1. ~SignInPending'
          BY <2>1, <3>2, <3>4 DEF SignInPending, AuthBlock, AddInfo
        <4> QED
          BY <4>1 DEF SignInStays
      <3>10. GuestBelow'
        <4>1. CreatePending
          BY <2>1, <2>2 DEF CreatePending
        <4> QED
          BY <2>1, <3>1, <4>1 DEF Waits, GuestBelow
      <3> QED
        BY <3>1, <3>3, <3>5, <3>6, <3>7, <3>8, <3>9, <3>10 DEF Waits
    <2> QED
      BY <2>4, <2>5, <2>6 DEF SessionInv
  <1> QED
    BY <1>1, <1>2

-----------------------------------------------------------------------------
(* The theorems.                                                           *)

LEMMA UserKeeps ==
    ASSUME SessionInv, User
    PROVE  SessionInv'
  <1>1. CASE Start
    BY <1>1, StartKeeps
  <1>2. CASE GoToSignIn
    <2>1. disturbed' \in BOOLEAN
      BY <1>2 DEF GoToSignIn, SessionInv, TypeOK
    <2> QED
      BY <1>2, <2>1, PresentKeeps DEF GoToSignIn
  <1>3. CASE GoToSignUp
    <2>1. disturbed' \in BOOLEAN
      BY <1>3 DEF GoToSignUp, SessionInv, TypeOK
    <2> QED
      BY <1>3, <2>1, PresentKeeps DEF GoToSignUp
  <1>4. ASSUME NEW a \in Accounts, RegisterUser(a)
        PROVE  SessionInv'
    BY <1>4, AskAuthKeeps DEF RegisterUser
  <1>5. ASSUME NEW a \in Accounts, SignInDidPress(a)
        PROVE  SessionInv'
    BY <1>5, AskAuthKeeps DEF SignInDidPress
  <1>6. CASE DoLogOut
    BY <1>6, DoLogOutKeeps
  <1>7. CASE OpenMessages \/ Crash
    BY <1>7, DieKeeps DEF OpenMessages, Crash
  <1>8. CASE Cancel
    BY <1>8, CancelKeeps
  <1> QED
    BY <1>1, <1>2, <1>3, <1>4, <1>5, <1>6, <1>7, <1>8 DEF User

LEMMA AppKeeps ==
    ASSUME SessionInv, App
    PROVE  SessionInv'
  <1>1. CASE LeaveLaunch
    BY <1>1, LeaveLaunchKeeps
  <1>2. ASSUME NEW q \in calls, Answer(q)
        PROVE  SessionInv'
    BY <1>2, AuthAnswerKeeps, HalfCreatedKeeps, NobodyKeeps, GetUserKeeps, AddInfoKeeps,
       ErrorKeeps DEF Answer
  <1>3. CASE Run
    BY <1>3, TellKeeps, RunCreatedKeeps, DieKeeps, RunSignedInKeeps DEF Run, RunHalfCreated
  <1> QED
    BY <1>1, <1>2, <1>3 DEF App

LEMMA StutterKeeps ==
    ASSUME SessionInv, UNCHANGED vars
    PROVE  SessionInv'
  <1> USE DEF vars, app
  <1>1. TypeOK'
    BY DEF SessionInv, TypeOK
  <1>2. \A b : InMain(b)' <=> InMain(b)
    BY DEF InMain
  <1>3. FreshStart' /\ CurrentExists' /\ ListenersListen'
    BY <1>2 DEF SessionInv, FreshStart, CurrentExists, ListenersListen
  <1>4. Waits => AuthAlone' /\ BlockAlone' /\ CallsAreCurrent' /\ DocumentsAreOwn'
    BY DEF Waits, AuthAlone, BlockAlone, CallsAreCurrent, DocumentsAreOwn
  <1>5. Waits => AccountsAreMade' /\ ProfileComes' /\ TabsOfCurrent'
    BY <1>2 DEF Waits, AccountsAreMade, ProfileComes, TabsOfCurrent
  <1>6. Waits => SignInStays' /\ GuestBelow'
    BY DEF Waits, SignInStays, GuestBelow, SignInPending, CreatePending
  <1> QED
    BY <1>1, <1>3, <1>4, <1>5, <1>6 DEF SessionInv, Waits

(* The inductive invariant, for any accounts and however much is under way *)
(* when a user taps: while everybody waits, one thing happens at a time    *)
(* and it is about the user who is signed in (SignUpViewController:314-356,*)
(* SignInViewController:68-116, EBRoundedTabBarController:46-58).          *)
THEOREM AlwaysInSession == Spec => []SessionInv
  <1>1. SessionInv /\ [Next]_vars => SessionInv'
    BY UserKeeps, AppKeeps, StutterKeeps DEF Next
  <1> QED
    BY <1>1, InitHolds, PTL DEF Spec

(* Every reachable state is of the declared types.                         *)
THEOREM TypeCorrect == Spec => []TypeOK
  <1>1. SessionInv => TypeOK
    BY DEF SessionInv
  <1> QED
    BY <1>1, AlwaysInSession, PTL

(* A user document holds the details of its own account, or nothing, if    *)
(* nobody hurries (DatabaseHelper:204-216).                                *)
THEOREM DocumentsStayOwn == Spec => []DocumentIsOwn
  <1>1. SessionInv => DocumentIsOwn
    BY DEF SessionInv, Waits, DocumentsAreOwn, DocumentIsOwn
  <1> QED
    BY <1>1, AlwaysInSession, PTL

(* The tab bar's controllers, which look the user up once, then show the   *)
(* user who is signed in (JobsTableViewController:27).                     *)
THEOREM TabsStayOwn == Spec => []TabsAreOwn
  <1>1. SessionInv => TabsAreOwn
    BY DEF SessionInv, Waits, TabsOfCurrent, TabsAreOwn
  <1> QED
    BY <1>1, AlwaysInSession, PTL

(* When everything is answered, UserProfile is the user at the tabs, if    *)
(* there is a document (EBRoundedTabBarController:46-58,                   *)
(* DatabaseHelper:218-235).                                                *)
THEOREM ProfilesStayOwn == Spec => []ProfileIsOwn
  <1>1. SessionInv => ProfileIsOwn
    BY NothingPending, NothingInMain
    DEF SessionInv, Waits, ProfileComes, ProfileIsOwn
  <1> QED
    BY <1>1, AlwaysInSession, PTL

(* And every account has its document and its picture, if no call of its   *)
(* sign-up failed, the others' however often (SignUpViewController:324-356)*)
THEOREM AccountsAreComplete == Spec => []AccountIsComplete
  <1>1. SessionInv => AccountIsComplete
    BY NothingPending, NothingInMain
    DEF SessionInv, Waits, AccountsAreMade, AccountIsComplete
  <1> QED
    BY <1>1, AlwaysInSession, PTL
=============================================================================
