------------------------------- MODULE JobFeed -------------------------------
(***************************************************************************)
(* The lists of jobs on a reader's phone, fed by what JobPosting puts on   *)
(* the server: Explore (ExploreTableViewController), the search screens    *)
(* (SearchTableViewController) and the two lists of "my jobs"              *)
(* (JobsTableViewController), each with a listener, and getJob of          *)
(* DatabaseHelper, which loads one job for each document a listener hears. *)
(*                                                                         *)
(* The reader's phone posts no job of its own while we look; its user may  *)
(* be one who does, on another phone.  All search screens share an array   *)
(* (static var jobs), and every screen has a listener of its own, which    *)
(* outlives it; the other lists are made once, with the tab bar.           *)
(***************************************************************************)
EXTENDS JobPosting

CONSTANTS
    me,         \* the user signed in on the reader's phone
    Searches,   \* the search screens that may be opened
    LoadFails   \* the lists for which getJob may fail

ASSUME FeedConstantsAssumption ==
    /\ me \in Users
    /\ LoadFails \subseteq {"explore", "posted", "accepted"} \cup Searches
    /\ Searches \cap {"explore", "posted", "accepted", "search"} = {}

VARIABLES
    acceptedJobs, \* the documents users/{me}/acceptedJobs/{id}
    opened,       \* the lists whose viewDidLoad has run
    heard,        \* the documents a list's listener was told of
    loads,        \* the getJob calls that have not been answered
    missed,       \* history: those that ended without a job
    rows          \* jobs, postedJobs and acceptedJobs: the arrays shown

feed == <<acceptedJobs, opened, heard, loads, missed, rows>>

-----------------------------------------------------------------------------
Lists == {"explore", "posted", "accepted"} \cup Searches
Arrays == {"explore", "posted", "accepted", "search"}
ArrayOf(l) == IF l \in Searches THEN "search" ELSE l

Load == [list: Lists, job: Posts]

FeedTypeOK ==
    /\ acceptedJobs \subseteq Posts
    /\ opened \subseteq Lists
    /\ heard \in [Lists -> SUBSET Posts]
    /\ loads \subseteq Load
    /\ missed \subseteq Load
    /\ rows \in [Arrays -> Seq(JobDoc)]

FeedInit ==
    /\ Init
    /\ acceptedJobs = {}
    /\ opened = {}
    /\ heard = [l \in Lists |-> {}]
    /\ loads = {}
    /\ missed = {}
    /\ rows = [a \in Arrays |-> << >>]

-----------------------------------------------------------------------------
Published == {j.id : j \in jobs}

(* What a list listens to.                                                 *)
Source(l) ==
    CASE l = "posted"   -> {e.id : e \in {x \in posts : x.poster = me}}
      [] l = "accepted" -> acceptedJobs
      [] OTHER          -> Published

(* A poster accepts a bid of this user (acceptedJob).                      *)
BeAccepted(p) ==
    /\ \E j \in jobs : j.id = p /\ j.poster # me
    /\ acceptedJobs' = acceptedJobs \cup {p}
    /\ UNCHANGED <<opened, heard, loads, missed, rows>>

(* viewDidLoad.                                                            *)
OpenList(l) ==
    /\ l \notin opened
    /\ opened' = opened \cup {l}
    /\ UNCHANGED <<acceptedJobs, heard, loads, missed, rows>>

(* Mutant: everything is loaded at every snapshot.                         *)
LoadAll(l) == {[list |-> l, job |-> p] : p \in Source(l)}

(* Mutant: a call does not say which list it is for.                       *)
LoadForArray(l) == {[list |-> ArrayOf(l), job |-> p] : p \in Source(l) \ heard[l]}

(* getJob for every document that was added.                               *)
LoadAdded(l) == {[list |-> l, job |-> p] : p \in Source(l) \ heard[l]}

HearJobs(l) ==
    /\ l \in opened
    /\ ~ Source(l) \subseteq heard[l]
    /\ heard' = [heard EXCEPT ![l] = Source(l)]
    /\ loads' = loads \cup LoadAdded(l)
    /\ UNCHANGED <<acceptedJobs, opened, missed, rows>>

(* The answers to different calls come in any order.                       *)
Answered(q) == q \in loads /\ loads' = loads \ {q}

(* Mutant: the array of another list.                                      *)
Misplaced(q) == "explore"

(* The completion block appends to the array of its list.                  *)
Place(q) == ArrayOf(q.list)

AnswerJob(q) ==
    /\ Answered(q)
    /\ \E j \in jobs :
         /\ j.id = q.job
         /\ rows' = [rows EXCEPT ![Place(q)] = Append(@, j)]
    /\ UNCHANGED <<acceptedJobs, opened, heard, missed>>

(* An error, or no such document: completion is never called.              *)
AnswerNothing(q) ==
    /\ q.list \in LoadFails \/ q.job \notin Published
    /\ Answered(q)
    /\ missed' = missed \cup {q}
    /\ UNCHANGED <<acceptedJobs, opened, heard, rows>>

(* The reader's app is started again.                                      *)
Restart ==
    /\ opened # {}
    /\ opened' = {}
    /\ heard' = [l \in Lists |-> {}]
    /\ loads' = {}
    /\ missed' = {}
    /\ rows' = [a \in Arrays |-> << >>]
    /\ UNCHANGED acceptedJobs

-----------------------------------------------------------------------------
AnswerLoad(q) == AnswerJob(q) \/ AnswerNothing(q)

Feed ==
    \/ \E p \in Posts : BeAccepted(p)
    \/ \E l \in Lists : OpenList(l) \/ HearJobs(l)
    \/ \E q \in loads : AnswerLoad(q)
    \/ Restart

FeedNext ==
    \/ Next /\ UNCHANGED feed
    \/ Feed /\ UNCHANGED vars

FeedSpec == FeedInit /\ [][FeedNext]_<<vars, feed>>

(* Listeners hear and calls are answered; the poster's side as before.     *)
FairFeedSpec ==
    /\ FeedSpec
    /\ \A p \in Posts : WF_vars(Continue(p))
    /\ \A ph \in Phones : WF_vars(Acknowledge(ph))
    /\ \A l \in Lists : WF_feed(HearJobs(l))
    /\ \A q \in Load : WF_feed(AnswerLoad(q))

-----------------------------------------------------------------------------
(* What holds.                                                             *)

(* Every getJob finds its job, though a list of posts and the jobs are     *)
(* different collections, written one after the other by another phone     *)
(* whose uploads and accounts come and go (JobsTableViewController:47-56,  *)
(* DatabaseHelper:52-72).                                                  *)
LoadsFindJobs == \A q \in loads : q.job \in Published

(* Each listener of an array brings each job into it once: as many rows    *)
(* show a job as listeners have heard of it, but for the calls that are    *)
(* under way or failed.  None is lost or doubled by snapshots and answers  *)
(* that come in any order (ExploreTableViewController:30-48).              *)
RowPerListener ==
    \A a \in Arrays, p \in Posts :
        Cardinality({i \in DOMAIN rows[a] : rows[a][i].id = p}) =
        Cardinality({l \in Lists :
            /\ ArrayOf(l) = a
            /\ p \in heard[l]
            /\ [list |-> l, job |-> p] \notin loads \cup missed})

(* From the Post button to the screen: a post made with an account is shown*)
(* by every list that is open and is meant to show it, or its getJob       *)
(* failed.                                                                 *)
Shows(l, p) == \E i \in DOMAIN rows[ArrayOf(l)] : rows[ArrayOf(l)][i].id = p

PostReachesList ==
    \A p \in Posts, l \in Lists \ {"accepted"} :
        (draft[p].stage = "numbering" /\ author[p] # NoUser) ~>
            \/ l = "posted" /\ author[p] # me
            \/ l \notin opened
            \/ Shows(l, p)
            \/ [list |-> l, job |-> p] \in missed

-----------------------------------------------------------------------------
(* What the repository says and the code does not do.                      *)

(* "load one job at a time, to be called when a new post has been added to *)
(* database" (DatabaseHelper:287): a list shows a job once.                *)
JobShownOnce ==
    \A a \in Arrays : \A i, k \in DOMAIN rows[a] :
        rows[a][i].id = rows[a][k].id => i = k

(* order(by: "postedTime", descending: true) (ExploreTableViewController:  *)
(* 31): a later job stands above the ones its poster's phone had seen.     *)
NewestFirst ==
    \A a \in Arrays : \A i, k \in DOMAIN rows[a] :
        i < k => rows[a][i].id \notin older[rows[a][k].id]
=============================================================================
