----------------------------- MODULE JobPosting -----------------------------
(***************************************************************************)
(* Posting a job, from the Post button to the documents on the server:     *)
(* the query that allocates the job's number (PostAdTableViewController,   *)
(* finishAddingPost), the uploads of its pictures (StorageHelper) and the  *)
(* two writes of addJobInformation (DatabaseHelper).                       *)
(*                                                                         *)
(* The form is dismissed at once; everything after it runs from completion *)
(* blocks, while the user may post again, sign out or change the account.  *)
(* Firestore keeps one queue of unacknowledged writes per account and      *)
(* phone, and sends and overlays the one of the account signed in.         *)
(***************************************************************************)
EXTENDS Integers, Sequences, FiniteSets

CONSTANTS
    Phones, Users,
    Posts,       \* the Firebase IDs (UUIDs) of the jobs that can be posted
    Pictures,
    NoUser, NoPhone,
    Failing,     \* the operations that can fail for good
    MaxSwitches, \* bound: times a user signs in
    MaxCrashes   \* bound: times a phone dies other than by the code's doing

Operations == {"query", "upload", "job", "post"}

ASSUME ConstantsAssumption ==
    /\ NoUser \notin Users
    /\ NoPhone \notin Phones
    /\ Failing \subseteq Operations
    /\ MaxSwitches \in Nat
    /\ MaxCrashes \in Nat

VARIABLES
    jobs,      \* the documents jobs/{id}
    posts,     \* the documents users/{poster}/posts/{id}
    queue,     \* queue[phone][account]: unacknowledged writes
    account,   \* the account signed in on a phone
    draft,     \* the progress of each post
    switches, crashes,
    author,    \* history: the account a post was made under
    older      \* history: the jobs the phone could see when it was made

vars == <<jobs, posts, queue, account, draft, switches, crashes, author, older>>

-----------------------------------------------------------------------------
JobDoc == [id: Posts, num: Nat, poster: Users, pictures: SUBSET Pictures]
PostDoc == [id: Posts, poster: Users]
Write == [op: {"job"}, job: JobDoc] \cup [op: {"post"}, post: PostDoc]

(* A post waits for the answer of the number query, then for its uploads;  *)
(* "written" once addJobInformation has run, "lost" when it never will.    *)
Blank == [stage |-> "blank", phone |-> NoPhone, num |-> 0,
          pictures |-> {}, uploaded |-> {}]
Draft == {Blank} \cup
    [stage: {"numbering", "uploading", "written", "lost"}, phone: Phones, num: Nat,
     pictures: SUBSET Pictures, uploaded: SUBSET Pictures]

TypeOK ==
    /\ jobs \subseteq JobDoc
    /\ posts \subseteq PostDoc
    /\ queue \in [Phones -> [Users -> Seq(Write)]]
    /\ account \in [Phones -> Users \cup {NoUser}]
    /\ draft \in [Posts -> Draft]
    /\ switches \in 0..MaxSwitches
    /\ crashes \in 0..MaxCrashes
    /\ author \in [Posts -> Users \cup {NoUser}]
    /\ older \in [Posts -> SUBSET Posts]

Init ==
    /\ jobs = {} /\ posts = {}
    /\ queue = [ph \in Phones |-> [u \in Users |-> << >>]]
    /\ account \in [Phones -> Users \cup {NoUser}]
    /\ draft = [p \in Posts |-> Blank]
    /\ switches = 0 /\ crashes = 0
    /\ author = [p \in Posts |-> NoUser]
    /\ older = [p \in Posts |-> {}]

-----------------------------------------------------------------------------
(* The job documents a query returns to a phone: the server's, and those   *)
(* in the queue of the account signed in.                                  *)
SeenJobs(ph) ==
    IF account[ph] = NoUser THEN jobs
    ELSE LET q == queue[ph][account[ph]]
         IN  jobs \cup {q[i].job : i \in {k \in DOMAIN q : q[k].op = "job"}}

(* Mutant: the first job ever counts down from zero.                       *)
NextNumbersFromNone(seen) ==
    IF seen = {} THEN {-1}
    ELSE {j.num + 1 : j \in {k \in seen : \A x \in seen : x.num <= k.num}}

(* order(by: "id", descending: true).limit(to: 1), plus one; 0 for the     *)
(* first job ever.                                                         *)
NextNumbers(seen) ==
    IF seen = {} THEN {0}
    ELSE {j.num + 1 : j \in {k \in seen : \A x \in seen : x.num <= k.num}}

(* Mutant: the count is compared before it is incremented.                *)
CountedTooLate(p, pic) == draft[p].uploaded = draft[p].pictures

(* uploadCount == imagesCount, after this upload.                          *)
LastUpload(p, pic) == draft[p].uploaded \cup {pic} = draft[p].pictures

(* Mutant: the list of posts is written first.                             *)
EntryFirst(p, u, job) ==
    << [op |-> "post", post |-> [id |-> p, poster |-> u]],
       [op |-> "job", job |-> job] >>

(* addJobInformation's two writes.                                         *)
JobWrites(p, u, job) ==
    << [op |-> "job", job |-> job],
       [op |-> "post", post |-> [id |-> p, poster |-> u]] >>

(* What dies with a phone's memory: the posts still on their way.          *)
InMemory(ph) ==
    {p \in Posts : draft[p].phone = ph /\ draft[p].stage \in {"numbering", "uploading"}}
LoseDrafts(ph) ==
    draft' = [p \in Posts |->
                IF p \in InMemory(ph) THEN [draft[p] EXCEPT !.stage = "lost"] ELSE draft[p]]

-----------------------------------------------------------------------------
(* The Post button, enabled only when there is a picture.  Nothing asks    *)
(* for an account.                                                         *)
Post(ph, p, pics) ==
    /\ draft[p].stage = "blank"
    /\ pics # {}
    /\ draft' = [draft EXCEPT ![p] =
         [Blank EXCEPT !.stage = "numbering", !.phone = ph, !.pictures = pics]]
    /\ author' = [author EXCEPT ![p] = account[ph]]
    /\ older' = [older EXCEPT ![p] = {j.id : j \in SeenJobs(ph)}]
    /\ UNCHANGED <<jobs, posts, queue, account, switches, crashes>>

(* Mutant: the answer leaves out the phone's own queued writes.            *)
FindNumberOnServer(p) ==
    /\ draft[p].stage = "numbering"
    /\ \E n \in NextNumbers(jobs) :
         draft' = [draft EXCEPT ![p].stage = "uploading", ![p].num = n]
    /\ UNCHANGED <<jobs, posts, queue, account, switches, crashes, author, older>>

(* The number query is answered, and every picture starts uploading.       *)
FindNumber(p) ==
    /\ draft[p].stage = "numbering"
    /\ \E n \in NextNumbers(SeenJobs(draft[p].phone)) :
         draft' = [draft EXCEPT ![p].stage = "uploading", ![p].num = n]
    /\ UNCHANGED <<jobs, posts, queue, account, switches, crashes, author, older>>

(* Its error is printed and nothing else happens, ever.                    *)
NumberError(p) ==
    /\ "query" \in Failing
    /\ draft[p].stage = "numbering"
    /\ draft' = [draft EXCEPT ![p].stage = "lost"]
    /\ UNCHANGED <<jobs, posts, queue, account, switches, crashes, author, older>>

Uploading(p, pic) ==
    /\ draft[p].stage = "uploading"
    /\ pic \in draft[p].pictures \ draft[p].uploaded

(* One of several uploads ends, in any order.                              *)
Upload(p, pic) ==
    /\ Uploading(p, pic)
    /\ ~ LastUpload(p, pic)
    /\ draft' = [draft EXCEPT ![p].uploaded = @ \cup {pic}]
    /\ UNCHANGED <<jobs, posts, queue, account, switches, crashes, author, older>>

(* The last one: the documents are written in the name of the account      *)
(* signed in at that moment.                                               *)
WriteJob(p, pic) ==
    LET ph == draft[p].phone
        u == account[ph]
        job == [id |-> p, num |-> draft[p].num, poster |-> u,
                pictures |-> draft[p].uploaded \cup {pic}]
    IN  /\ Uploading(p, pic)
        /\ LastUpload(p, pic)
        /\ u # NoUser
        /\ queue' = [queue EXCEPT ![ph][u] = @ \o JobWrites(p, u, job)]
        /\ draft' = [draft EXCEPT ![p].stage = "written", ![p].uploaded = @ \cup {pic}]
        /\ UNCHANGED <<jobs, posts, account, switches, crashes, author, older>>

(* With nobody signed in, userID! is nil and the app dies.                 *)
DieWithoutUser(p, pic) ==
    /\ Uploading(p, pic)
    /\ LastUpload(p, pic)
    /\ account[draft[p].phone] = NoUser
    /\ LoseDrafts(draft[p].phone)
    /\ UNCHANGED <<jobs, posts, queue, account, switches, crashes, author, older>>

(* A failed upload is printed and never counted, so the post never ends.   *)
UploadError(p, pic) ==
    /\ "upload" \in Failing
    /\ Uploading(p, pic)
    /\ draft' = [draft EXCEPT ![p].stage = "lost"]
    /\ UNCHANGED <<jobs, posts, queue, account, switches, crashes, author, older>>

-----------------------------------------------------------------------------
SignOut(ph) ==
    /\ account[ph] # NoUser
    /\ switches < MaxSwitches
    /\ account' = [account EXCEPT ![ph] = NoUser]
    /\ UNCHANGED <<jobs, posts, queue, draft, switches, crashes, author, older>>

SignIn(ph, u) ==
    /\ account[ph] = NoUser
    /\ switches < MaxSwitches
    /\ switches' = switches + 1
    /\ account' = [account EXCEPT ![ph] = u]
    /\ UNCHANGED <<jobs, posts, queue, draft, crashes, author, older>>

-----------------------------------------------------------------------------
(* The Firestore client.                                                   *)

Sending(ph) ==
    /\ account[ph] # NoUser
    /\ queue[ph][account[ph]] # << >>

Sent(ph) == queue' = [queue EXCEPT ![ph][account[ph]] = Tail(@)]

(* The server applies the oldest write of the account signed in.           *)
Acknowledge(ph) ==
    /\ Sending(ph)
    /\ LET w == Head(queue[ph][account[ph]]) IN
         /\ jobs' = IF w.op = "job" THEN jobs \cup {w.job} ELSE jobs
         /\ posts' = IF w.op = "post" THEN posts \cup {w.post} ELSE posts
    /\ Sent(ph)
    /\ UNCHANGED <<account, draft, switches, crashes, author, older>>

Refuse(ph) ==
    /\ Sending(ph)
    /\ Head(queue[ph][account[ph]]).op \in Failing
    /\ Sent(ph)
    /\ UNCHANGED <<jobs, posts, account, draft, switches, crashes, author, older>>

(* A phone restarts.  The last writes of the account signed in may not     *)
(* have been stored; earlier accounts' were before the account changed.    *)
Crash(ph) ==
    /\ crashes < MaxCrashes
    /\ crashes' = crashes + 1
    /\ \E u \in Users : \E n \in 0..Len(queue[ph][u]) :
         /\ u # account[ph] => n = Len(queue[ph][u])
         /\ queue' = [queue EXCEPT ![ph][u] = SubSeq(@, 1, n)]
    /\ LoseDrafts(ph)
    /\ UNCHANGED <<jobs, posts, account, switches, author, older>>

-----------------------------------------------------------------------------
(* The completion blocks of one post.                                      *)
Continue(p) ==
    \/ FindNumber(p)
    \/ NumberError(p)
    \/ \E pic \in Pictures :
         \/ Upload(p, pic)
         \/ WriteJob(p, pic)
         \/ DieWithoutUser(p, pic)
         \/ UploadError(p, pic)

Next ==
    \/ \E p \in Posts : Continue(p)
    \/ \E ph \in Phones :
         \/ \E p \in Posts, pics \in SUBSET Pictures : Post(ph, p, pics)
         \/ SignOut(ph)
         \/ \E u \in Users : SignIn(ph, u)
         \/ Acknowledge(ph)
         \/ Refuse(ph)
         \/ Crash(ph)

Spec == Init /\ [][Next]_vars

(* Queries are answered, uploads end one way or the other, and the client  *)
(* sends its queue until the server answers.                               *)
FairSpec ==
    /\ Spec
    /\ \A p \in Posts : WF_vars(Continue(p))
    /\ \A ph \in Phones : WF_vars(Acknowledge(ph))

-----------------------------------------------------------------------------
(* What holds.                                                             *)

(* Everybody else sees only whole jobs: each document appears once, with   *)
(* the pictures chosen for that post, and is listed under its poster only  *)
(* after it (the job list loads each listed post, JobsTableViewController: *)
(* 53), although the writes are separate and uploads end in any order.     *)
Board == INSTANCE JobBoard WITH
    requested <- {[id |-> p, pictures |-> draft[p].pictures] :
                    p \in {x \in Posts : draft[x].stage # "blank"}},
    published <- {[id |-> j.id, pictures |-> j.pictures, poster |-> j.poster] : j \in jobs},
    listed <- posts

ImplementsBoard == Board!Spec

(* Why: a written job is on its way once, with its post's pictures, and    *)
(* always ahead of its entry.                                              *)
IsWritten(j) == draft[j.id].stage = "written" /\ draft[j.id].pictures = j.pictures

Names(j, e) == j.id = e.id /\ j.poster = e.poster

Ready(ph, u, i) ==
    LET q == queue[ph][u] IN
    /\ q[i].op = "job" => IsWritten(q[i].job) /\ \A j \in jobs : j.id # q[i].job.id
    /\ q[i].op = "post" =>
         \/ \E j \in jobs : Names(j, q[i].post)
         \/ \E k \in 1..(i - 1) : q[k].op = "job" /\ Names(q[k].job, q[i].post)

QueuedOnce ==
    \A ph, ph2 \in Phones, u, u2 \in Users :
        \A i \in DOMAIN queue[ph][u], k \in DOMAIN queue[ph2][u2] :
            /\ queue[ph][u][i].op = "job" /\ queue[ph2][u2][k].op = "job"
            /\ queue[ph][u][i].job.id = queue[ph2][u2][k].job.id
            => ph = ph2 /\ u = u2 /\ i = k

BoardInv ==
    /\ \A j \in jobs : IsWritten(j)
    /\ \A ph \in Phones, u \in Users : \A i \in DOMAIN queue[ph][u] : Ready(ph, u, i)
    /\ QueuedOnce

(* The number query sees what the phone itself has written: while nobody   *)
(* changes the account, a post gets a larger number than every job the     *)
(* phone could see when the Post button was tapped, even one that was      *)
(* still in its queue (PostAdTableViewController:203-212).                 *)
LaterJobHasLargerNumber ==
    switches = 0 =>
        \A j \in jobs : \A i \in older[j.id] : draft[i].num < j.num

(* With no failure, crash or change of account, every post made with an    *)
(* account ends on the server and in its poster's list.                    *)
PostArrives ==
    \A p \in Posts :
        (draft[p].stage = "numbering" /\ author[p] # NoUser)
            ~> \E e \in posts : e.id = p /\ e.poster = author[p]

-----------------------------------------------------------------------------
(* What the repository says and the code does not do.                      *)

(* "get highest job id within database and add 1 for new job id"           *)
(* (PostAdTableViewController:203): numbers identify jobs.                 *)
NumbersAreUnique == \A i, j \in jobs : i.num = j.num => i.id = j.id

(* "It allows users to post jobs for which they require help" (README:12): *)
(* a job's poster is the user who posted it.                               *)
PosterIsAuthor == \A j \in jobs : j.poster = author[j.id]
=============================================================================
