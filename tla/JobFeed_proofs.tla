---------------------------- MODULE JobFeed_proofs ----------------------------
(***************************************************************************)
(* For any users, posts, search screens and failures: the types of the     *)
(* lists, that an array has one row for each listener that told of a job,  *)
(* and that every load finds its job if no job document is refused.        *)
(* FeedSpec takes only steps of JobPosting or steps that leave it alone,   *)
(* so what is proved of posting holds here.                                *)
(***************************************************************************)
EXTENDS JobFeed, JobPosting_proofs, FiniteSetTheorems

-----------------------------------------------------------------------------
(* The poster's side is that of JobPosting.                                *)

LEMMA FeedPosts == FeedSpec => Spec
  <1>1. FeedInit => Init
    BY DEF FeedInit
  <1>2. [FeedNext]_<<vars, feed>> => [Next]_vars
    BY DEF FeedNext
  <1> QED
    BY <1>1, <1>2, PTL DEF FeedSpec, Spec

(* Documents of jobs and of posts are never deleted.                       *)
LEMMA DocumentsStay ==
    ASSUME [Next]_vars
    PROVE  jobs \subseteq jobs' /\ posts \subseteq posts'
  <1>1. CASE \E ph \in Phones : Acknowledge(ph)
    BY <1>1 DEF Acknowledge
  <1>2. CASE UNCHANGED <<jobs, posts>>
    BY <1>2
  <1>3. ASSUME NEW p \in Posts, Continue(p)
        PROVE  UNCHANGED <<jobs, posts>>
    BY <1>3 DEF Continue, FindNumber, NumberError, Upload, WriteJob,
                DieWithoutUser, UploadError
  <1>4. ASSUME NEW ph \in Phones,
               \/ \E p \in Posts, pics \in SUBSET Pictures : Post(ph, p, pics)
               \/ SignOut(ph)
               \/ \E u \in Users : SignIn(ph, u)
               \/ Refuse(ph)
               \/ Crash(ph)
        PROVE  UNCHANGED <<jobs, posts>>
    BY <1>4 DEF Post, SignOut, SignIn, Refuse, Crash
  <1>5. CASE UNCHANGED vars
    BY <1>5 DEF vars
  <1> QED
    BY <1>1, <1>2, <1>3, <1>4, <1>5 DEF Next

-----------------------------------------------------------------------------
(* Types.                                                                  *)

LEMMA ArrayType ==
    ASSUME NEW l \in Lists
    PROVE  ArrayOf(l) \in Arrays
  BY FeedConstantsAssumption DEF Lists, Arrays, ArrayOf

LEMMA PublishedPosts == TypeOK => Published \subseteq Posts
  BY DEF TypeOK, Published, JobDoc

LEMMA SourceType ==
    ASSUME TypeOK, FeedTypeOK, NEW l \in Lists
    PROVE  Source(l) \subseteq Posts
  <1>1. {e.id : e \in {x \in posts : x.poster = me}} \subseteq Posts
    BY DEF TypeOK, PostDoc
  <1>2. acceptedJobs \subseteq Posts
    BY DEF FeedTypeOK
  <1> QED
    BY <1>1, <1>2, PublishedPosts DEF Source

LEMMA FeedInitType == FeedInit => FeedTypeOK
  BY DEF FeedInit, FeedTypeOK

LEMMA AnswerJobType ==
    ASSUME TypeOK, FeedTypeOK, NEW q \in loads, AnswerJob(q)
    PROVE  FeedTypeOK'
  <1>1. PICK j \in jobs : /\ j.id = q.job
                          /\ rows' = [rows EXCEPT ![Place(q)] = Append(@, j)]
    BY DEF AnswerJob
  <1>2. j \in JobDoc
    BY DEF TypeOK
  <1>3. Place(q) \in Arrays
    BY ArrayType DEF FeedTypeOK, Load, Place
  <1>4. rows' \in [Arrays -> Seq(JobDoc)]
    BY <1>1, <1>2, <1>3 DEF FeedTypeOK
  <1> QED
    BY <1>4 DEF AnswerJob, Answered, FeedTypeOK

LEMMA FeedNextType ==
    ASSUME TypeOK, FeedTypeOK, [FeedNext]_<<vars, feed>>
    PROVE  FeedTypeOK'
  <1>1. CASE UNCHANGED feed
    BY <1>1 DEF feed, FeedTypeOK
  <1>2. ASSUME NEW p \in Posts, BeAccepted(p) PROVE FeedTypeOK'
    BY <1>2 DEF BeAccepted, FeedTypeOK
  <1>3. ASSUME NEW l \in Lists, OpenList(l) PROVE FeedTypeOK'
    BY <1>3 DEF OpenList, FeedTypeOK
  <1>4. ASSUME NEW l \in Lists, HearJobs(l) PROVE FeedTypeOK'
    <2>1. Source(l) \subseteq Posts
      BY SourceType
    <2>2. LoadAdded(l) \subseteq Load
      BY <2>1 DEF LoadAdded, Load
    <2> QED
      BY <1>4, <2>1, <2>2 DEF HearJobs, FeedTypeOK
  <1>5. ASSUME NEW q \in loads, AnswerJob(q) PROVE FeedTypeOK'
    BY <1>5, AnswerJobType
  <1>6. ASSUME NEW q \in loads, AnswerNothing(q) PROVE FeedTypeOK'
    BY <1>6 DEF AnswerNothing, Answered, FeedTypeOK
  <1>7. CASE Restart
    BY <1>7 DEF Restart, FeedTypeOK
  <1> QED
    BY <1>1, <1>2, <1>3, <1>4, <1>5, <1>6, <1>7 DEF FeedNext, Feed, AnswerLoad

(* The arrays hold job documents, the loads are calls of the lists that    *)
(* exist, in every step of either phone (JobsTableViewController,          *)
(* ExploreTableViewController, SearchTableViewController).                 *)
THEOREM FeedTypeCorrect == FeedSpec => []FeedTypeOK
  <1>1. FeedInit => FeedTypeOK
    BY FeedInitType
  <1>2. TypeOK /\ FeedTypeOK /\ [FeedNext]_<<vars, feed>> => FeedTypeOK'
    BY FeedNextType
  <1> QED
    BY <1>1, <1>2, FeedPosts, TypeCorrect, PTL DEF FeedSpec

-----------------------------------------------------------------------------
(* Rows and listeners.                                                     *)

RowsOf(a, p) == {i \in DOMAIN rows[a] : rows[a][i].id = p}

(* The listeners that told of a job that was then loaded.                  *)
Tellers(a, p) ==
    {l \in Lists :
        /\ ArrayOf(l) = a
        /\ p \in heard[l]
        /\ [list |-> l, job |-> p] \notin loads \cup missed}

(* Only an open list hears, nothing it heard goes away, and a call is made *)
(* once for each document it heard.                                        *)
HeardInv ==
    /\ IsFiniteSet(opened)
    /\ \A l \in Lists : heard[l] # {} => l \in opened
    /\ \A l \in Lists : heard[l] \subseteq Source(l)
    /\ \A q \in loads \cup missed : q.job \in heard[q.list]
    /\ loads \cap missed = {}

LEMMA FeedInitHeard == FeedInit => HeardInv /\ RowPerListener
  <1> SUFFICES ASSUME FeedInit PROVE HeardInv /\ RowPerListener
    OBVIOUS
  <1>1. HeardInv
    BY FS_EmptySet DEF FeedInit, HeardInv
  <1>2. ASSUME NEW a \in Arrays, NEW p \in Posts
        PROVE  RowsOf(a, p) = {} /\ Tellers(a, p) = {}
    BY DEF FeedInit, RowsOf, Tellers
  <1>3. RowPerListener
    BY <1>2 DEF RowPerListener, RowsOf, Tellers
  <1> QED
    BY <1>1, <1>3

(* What a list listens to only grows.                                      *)
LEMMA SourceGrows ==
    ASSUME jobs \subseteq jobs', posts \subseteq posts',
           acceptedJobs \subseteq acceptedJobs', NEW l \in Lists
    PROVE  Source(l) \subseteq Source(l)'
  BY DEF Source, Published

LEMMA FeedNextGrows ==
    ASSUME [FeedNext]_<<vars, feed>>, NEW l \in Lists
    PROVE  Source(l) \subseteq Source(l)'
  <1>1. jobs \subseteq jobs' /\ posts \subseteq posts'
    BY DocumentsStay DEF FeedNext
  <1>2. acceptedJobs \subseteq acceptedJobs'
    BY DEF FeedNext, Feed, feed, BeAccepted, OpenList, HearJobs, AnswerLoad,
           AnswerJob, AnswerNothing, Restart
  <1> QED
    BY <1>1, <1>2, SourceGrows

(* Steps that leave the lists as they are, or open one.                    *)
LEMMA QuietSteps ==
    ASSUME HeardInv, RowPerListener, NEW opening \in SUBSET Lists,
           \E l \in Lists : opening \subseteq {l},
           opened' = opened \cup opening,
           UNCHANGED <<heard, loads, missed, rows>>,
           \A l \in Lists : Source(l) \subseteq Source(l)'
    PROVE  HeardInv' /\ RowPerListener'
  <1>1. IsFiniteSet(opened')
    <2>1. PICK l \in Lists : opening = {} \/ opening = {l}
      OBVIOUS
    <2>2. opened' = opened \/ opened' = opened \cup {l}
      BY <2>1
    <2> QED
      BY <2>2, FS_AddElement DEF HeardInv
  <1>2. HeardInv'
    BY <1>1 DEF HeardInv
  <1>3. RowPerListener'
    BY DEF RowPerListener
  <1> QED
    BY <1>2, <1>3

(* A snapshot: the calls made are those for what was not heard before.     *)
LEMMA HearJobsRows ==
    ASSUME TypeOK, FeedTypeOK, HeardInv, RowPerListener,
           NEW h \in Lists, HearJobs(h),
           \A l \in Lists : Source(l) \subseteq Source(l)'
    PROVE  HeardInv' /\ RowPerListener'
  <1>1. /\ h \in opened
        /\ heard' = [heard EXCEPT ![h] = Source(h)]
        /\ loads' = loads \cup LoadAdded(h)
        /\ UNCHANGED <<acceptedJobs, opened, missed, rows>>
    BY DEF HearJobs
  <1>2. /\ heard'[h] = Source(h)
        /\ \A l \in Lists \ {h} : heard'[l] = heard[l]
    BY <1>1 DEF FeedTypeOK
  <1>3. /\ \A l \in Lists : heard[l] \subseteq Source(l)
        /\ \A l \in Lists : heard[l] # {} => l \in opened
        /\ \A q \in loads \cup missed : q.job \in heard[q.list]
        /\ loads \cap missed = {}
        /\ IsFiniteSet(opened)
    BY DEF HeardInv
  <1>4. \A l \in Lists : heard[l] \subseteq heard'[l]
    BY <1>2, <1>3
  <1>5. \A q \in loads \cup missed : q.list \in Lists
    BY DEF FeedTypeOK, Load
  <1>6. \A q \in LoadAdded(h) :
          q.list = h /\ q.job \in heard'[q.list] /\ q.job \notin heard[h]
    BY <1>2 DEF LoadAdded
  <1>7. \A q \in loads' \cup missed' : q.job \in heard'[q.list]
    BY <1>1, <1>3, <1>4, <1>5, <1>6
  <1>8. loads' \cap missed' = {}
    BY <1>1, <1>3, <1>6
  <1>9. \A l \in Lists : heard'[l] # {} => l \in opened'
    BY <1>1, <1>2, <1>3
  <1>10. \A l \in Lists : heard'[l] \subseteq Source(l)'
    BY <1>2, <1>3
  <1>11. HeardInv'
    BY <1>1, <1>3, <1>7, <1>8, <1>9, <1>10 DEF HeardInv
  <1>12. ASSUME NEW a \in Arrays, NEW p \in Posts
         PROVE  Tellers(a, p)' = Tellers(a, p)
    <2>1. ASSUME NEW l \in Lists, l # h
          PROVE  (l \in Tellers(a, p)') <=> l \in Tellers(a, p)
      <3>1. [list |-> l, job |-> p] \notin LoadAdded(h)
        BY <1>6, <2>1
      <3> QED
        BY <1>1, <1>2, <2>1, <3>1 DEF Tellers
    <2>2. (h \in Tellers(a, p)') <=> h \in Tellers(a, p)
      <3>1. CASE p \in heard[h]
        <4>1. [list |-> h, job |-> p] \notin LoadAdded(h)
          BY <1>6, <3>1
        <4>2. p \in heard'[h]
          BY <1>4, <3>1
        <4> QED
          BY <1>1, <3>1, <4>1, <4>2 DEF Tellers
      <3>2. CASE p \in Source(h) \ heard[h]
        <4>1. [list |-> h, job |-> p] \in LoadAdded(h)
          BY <3>2 DEF LoadAdded
        <4> QED
          BY <1>1, <3>2, <4>1 DEF Tellers
      <3>3. CASE p \notin Source(h) /\ p \notin heard[h]
        BY <1>2, <3>3 DEF Tellers
      <3> QED
        BY <3>1, <3>2, <3>3
    <2>3. \A l \in Tellers(a, p) \cup Tellers(a, p)' : l \in Lists
      BY DEF Tellers
    <2> QED
      BY <2>1, <2>2, <2>3
  <1>13. ASSUME NEW a \in Arrays, NEW p \in Posts
         PROVE  RowsOf(a, p)' = RowsOf(a, p)
    BY <1>1 DEF RowsOf
  <1>14. RowPerListener'
    BY <1>12, <1>13 DEF RowPerListener, RowsOf, Tellers
  <1> QED
    BY <1>11, <1>14

(* A job that arrives: one row more, and one load less.                    *)
LEMMA AnswerJobRows ==
    ASSUME TypeOK, FeedTypeOK, HeardInv, RowPerListener,
           NEW q \in loads, AnswerJob(q),
           \A l \in Lists : Source(l) \subseteq Source(l)'
    PROVE  HeardInv' /\ RowPerListener'
  <1>1. PICK j \in jobs : /\ j.id = q.job
                          /\ rows' = [rows EXCEPT ![Place(q)] = Append(@, j)]
    BY DEF AnswerJob
  <1>2. /\ loads' = loads \ {q}
        /\ UNCHANGED <<acceptedJobs, opened, heard, missed>>
    BY DEF AnswerJob, Answered
  <1>3. /\ q.list \in Lists /\ q.job \in Posts
        /\ q = [list |-> q.list, job |-> q.job]
    BY DEF FeedTypeOK, Load
  <1>4. /\ Place(q) \in Arrays /\ ArrayOf(q.list) = Place(q)
        /\ q.job \in heard[q.list] /\ q \notin missed
    BY <1>3, ArrayType DEF Place, HeardInv
  <1>5. HeardInv'
    BY <1>2 DEF HeardInv
  <1>6. ASSUME NEW a \in Arrays, NEW p \in Posts
        PROVE  /\ IsFiniteSet(RowsOf(a, p))
               /\ IsFiniteSet(Tellers(a, p))
    <2>1. rows[a] \in Seq(JobDoc)
      BY DEF FeedTypeOK
    <2>2. Len(rows[a]) \in Nat /\ DOMAIN rows[a] = 1..Len(rows[a])
      BY <2>1
    <2>3. IsFiniteSet(DOMAIN rows[a])
      BY <2>2, FS_Interval
    <2>4. RowsOf(a, p) \in SUBSET DOMAIN rows[a]
      BY DEF RowsOf
    <2>5. Tellers(a, p) \in SUBSET opened
      BY DEF Tellers, HeardInv
    <2> QED
      BY <2>3, <2>4, <2>5, FS_Subset DEF HeardInv
  <1>7. ASSUME NEW a \in Arrays, NEW p \in Posts
        PROVE  Cardinality(RowsOf(a, p)') = Cardinality(Tellers(a, p)')
    <2>0. Cardinality(RowsOf(a, p)) = Cardinality(Tellers(a, p))
      BY DEF RowPerListener, RowsOf, Tellers
    <2>1. rows[a] \in Seq(JobDoc) /\ j \in JobDoc
      BY DEF FeedTypeOK, TypeOK
    <2>2. CASE a = Place(q) /\ p = q.job
      <3> DEFINE n == Len(rows[a]) + 1
      <3>1. rows'[a] = Append(rows[a], j)
        BY <1>1, <1>4, <2>2 DEF FeedTypeOK
      <3>2. n \notin RowsOf(a, p)
        BY <2>1 DEF RowsOf
      <3>3. RowsOf(a, p)' = RowsOf(a, p) \cup {n}
        BY <1>1, <2>1, <2>2, <3>1 DEF RowsOf
      <3>4. q.list \notin Tellers(a, p)
        BY <1>3, <2>2 DEF Tellers
      <3>5. Tellers(a, p)' = Tellers(a, p) \cup {q.list}
        <4>1. q.list \in Tellers(a, p)'
          BY <1>2, <1>3, <1>4, <2>2 DEF Tellers
        <4>2. ASSUME NEW l \in Lists, l # q.list
              PROVE  (l \in Tellers(a, p)') <=> l \in Tellers(a, p)
          <5>1. [list |-> l, job |-> p] # q
            BY <4>2
          <5> QED
            BY <1>2, <5>1 DEF Tellers
        <4>3. \A l \in Tellers(a, p) \cup Tellers(a, p)' : l \in Lists
          BY DEF Tellers
        <4> QED
          BY <1>3, <4>1, <4>2, <4>3
      <3>6. Cardinality(RowsOf(a, p) \cup {n}) = Cardinality(RowsOf(a, p)) + 1
        BY <1>6, <3>2, FS_AddElement
      <3>7. Cardinality(Tellers(a, p) \cup {q.list}) = Cardinality(Tellers(a, p)) + 1
        BY <1>6, <3>4, FS_AddElement
      <3> QED
        BY <2>0, <3>3, <3>5, <3>6, <3>7
    <2>3. CASE ~ (a = Place(q) /\ p = q.job)
      <3>1. RowsOf(a, p)' = RowsOf(a, p)
        <4>1. CASE a # Place(q)
          <5>1. rows'[a] = rows[a]
            BY <1>1, <4>1 DEF FeedTypeOK
          <5> QED
            BY <5>1 DEF RowsOf
        <4>2. CASE a = Place(q) /\ p # q.job
          <5>1. rows'[a] = Append(rows[a], j)
            BY <1>1, <1>4, <4>2 DEF FeedTypeOK
          <5> QED
            BY <1>1, <2>1, <4>2, <5>1 DEF RowsOf
        <4> QED
          BY <2>3, <4>1, <4>2
      <3>2. Tellers(a, p)' = Tellers(a, p)
        <4>1. ASSUME NEW l \in Lists, ArrayOf(l) = a
              PROVE  [list |-> l, job |-> p] # q
          <5>1. CASE p # q.job
            BY <5>1
          <5>2. CASE a # Place(q)
            BY <1>4, <4>1, <5>2
          <5> QED
            BY <2>3, <5>1, <5>2
        <4> QED
          BY <1>2, <4>1 DEF Tellers
      <3> QED
        BY <2>0, <3>1, <3>2
    <2> QED
      BY <2>2, <2>3
  <1>8. RowPerListener'
    BY <1>7 DEF RowPerListener, RowsOf, Tellers
  <1> QED
    BY <1>5, <1>8

(* A call that ends without a job counts as missed.                        *)
LEMMA AnswerNothingRows ==
    ASSUME FeedTypeOK, HeardInv, RowPerListener,
           NEW q \in loads, AnswerNothing(q),
           \A l \in Lists : Source(l) \subseteq Source(l)'
    PROVE  HeardInv' /\ RowPerListener'
  <1>1. /\ loads' = loads \ {q} /\ missed' = missed \cup {q}
        /\ UNCHANGED <<acceptedJobs, opened, heard, rows>>
    BY DEF AnswerNothing, Answered
  <1>2. loads' \cup missed' = loads \cup missed
    BY <1>1
  <1>3. HeardInv'
    BY <1>1, <1>2 DEF HeardInv
  <1>4. RowPerListener'
    BY <1>1, <1>2 DEF RowPerListener
  <1> QED
    BY <1>3, <1>4

LEMMA RestartRows ==
    ASSUME Restart
    PROVE  HeardInv' /\ RowPerListener'
  <1>1. HeardInv'
    BY FS_EmptySet DEF Restart, HeardInv
  <1>2. ASSUME NEW a \in Arrays, NEW p \in Posts
        PROVE  RowsOf(a, p)' = {} /\ Tellers(a, p)' = {}
    BY DEF Restart, RowsOf, Tellers
  <1>3. RowPerListener'
    BY <1>2 DEF RowPerListener, RowsOf, Tellers
  <1> QED
    BY <1>1, <1>3

LEMMA FeedNextRows ==
    ASSUME TypeOK, FeedTypeOK, HeardInv, RowPerListener,
           [FeedNext]_<<vars, feed>>
    PROVE  HeardInv' /\ RowPerListener'
  <1>0. \A l \in Lists : Source(l) \subseteq Source(l)'
    BY FeedNextGrows
  <1>1. CASE UNCHANGED feed
    <2> {} \in SUBSET Lists /\ \E l \in Lists : {} \subseteq {l}
      BY DEF Lists
    <2>1. opened' = opened \cup {} /\ UNCHANGED <<heard, loads, missed, rows>>
      BY <1>1 DEF feed
    <2> QED
      BY <1>0, <2>1, QuietSteps
  <1>2. ASSUME NEW p \in Posts, BeAccepted(p) PROVE HeardInv' /\ RowPerListener'
    <2> {} \in SUBSET Lists /\ \E l \in Lists : {} \subseteq {l}
      BY DEF Lists
    <2>1. opened' = opened \cup {} /\ UNCHANGED <<heard, loads, missed, rows>>
      BY <1>2 DEF BeAccepted
    <2> QED
      BY <1>0, <2>1, QuietSteps
  <1>3. ASSUME NEW l \in Lists, OpenList(l) PROVE HeardInv' /\ RowPerListener'
    <2>1. opened' = opened \cup {l} /\ UNCHANGED <<heard, loads, missed, rows>>
      BY <1>3 DEF OpenList
    <2> QED
      BY <1>0, <2>1, QuietSteps
  <1>4. ASSUME NEW l \in Lists, HearJobs(l) PROVE HeardInv' /\ RowPerListener'
    BY <1>0, <1>4, HearJobsRows
  <1>5. ASSUME NEW q \in loads, AnswerJob(q) PROVE HeardInv' /\ RowPerListener'
    BY <1>0, <1>5, AnswerJobRows
  <1>6. ASSUME NEW q \in loads, AnswerNothing(q) PROVE HeardInv' /\ RowPerListener'
    BY <1>0, <1>6, AnswerNothingRows
  <1>7. CASE Restart
    BY <1>7, RestartRows
  <1> QED
    BY <1>1, <1>2, <1>3, <1>4, <1>5, <1>6, <1>7 DEF FeedNext, Feed, AnswerLoad

(* As many rows show a job as listeners told of it, but for the calls that *)
(* are under way or ended without one, for any number of search screens,   *)
(* failures and restarts (ExploreTableViewController:30-48,                *)
(* SearchTableViewController, JobsTableViewController:47-90).              *)
THEOREM OneRowForEachListener == FeedSpec => []RowPerListener
  <1>1. FeedInit => HeardInv /\ RowPerListener
    BY FeedInitHeard
  <1>2. TypeOK /\ FeedTypeOK /\ (HeardInv /\ RowPerListener)
            /\ [FeedNext]_<<vars, feed>>
            => (HeardInv /\ RowPerListener)'
    BY FeedNextRows
  <1> QED
    BY <1>1, <1>2, FeedPosts, TypeCorrect, FeedTypeCorrect, PTL DEF FeedSpec

LEMMA AlwaysHeard == FeedSpec => []HeardInv
  <1>1. FeedInit => HeardInv /\ RowPerListener
    BY FeedInitHeard
  <1>2. TypeOK /\ FeedTypeOK /\ (HeardInv /\ RowPerListener)
            /\ [FeedNext]_<<vars, feed>>
            => (HeardInv /\ RowPerListener)'
    BY FeedNextRows
  <1> QED
    BY <1>1, <1>2, FeedPosts, TypeCorrect, FeedTypeCorrect, PTL DEF FeedSpec

-----------------------------------------------------------------------------
(* Loads find their jobs.                                                  *)

(* What a list of posts or of accepted jobs names is on the server.        *)
ListedInv ==
    /\ \A e \in posts : e.id \in Published
    /\ acceptedJobs \subseteq Published

LEMMA EntriesFollow ==
    ASSUME TypeOK, BoardInv, [Next]_vars, \A e \in posts : e.id \in Published
    PROVE  \A e \in posts' : e.id \in Published'
  <1>1. Published \subseteq Published'
    BY DocumentsStay DEF Published
  <1>2. CASE posts' = posts
    BY <1>1, <1>2
  <1>3. ASSUME NEW ph \in Phones, Acknowledge(ph)
        PROVE  \A e \in posts' : e.id \in Published'
    <2> DEFINE u == account[ph]
               q == queue[ph][u]
    <2>1. u \in Users /\ q # << >>
      BY <1>3 DEF Acknowledge, Sending, TypeOK
    <2>2. q \in Seq(Write)
      BY <2>1 DEF TypeOK
    <2>3. 1 \in DOMAIN q /\ Head(q) = q[1]
      BY <2>1, <2>2
    <2>4. Ready(ph, u, 1)
      BY <2>1, <2>3 DEF BoardInv
    <2>5. ASSUME q[1].op = "post"
          PROVE  q[1].post.id \in Published
      <3>1. \E j \in jobs : Names(j, q[1].post)
        BY <2>4, <2>5 DEF Ready
      <3> QED
        BY <3>1 DEF Names, Published
    <2>6. posts' = IF q[1].op = "post" THEN posts \cup {q[1].post} ELSE posts
      BY <1>3, <2>3 DEF Acknowledge
    <2> QED
      BY <1>1, <2>5, <2>6
  <1>4. ASSUME NEW p \in Posts, Continue(p)
        PROVE  posts' = posts
    BY <1>4 DEF Continue, FindNumber, NumberError, Upload, WriteJob,
                DieWithoutUser, UploadError
  <1>5. ASSUME NEW ph \in Phones,
               \/ \E p \in Posts, pics \in SUBSET Pictures : Post(ph, p, pics)
               \/ SignOut(ph)
               \/ \E u \in Users : SignIn(ph, u)
               \/ Refuse(ph)
               \/ Crash(ph)
        PROVE  posts' = posts
    BY <1>5 DEF Post, SignOut, SignIn, Refuse, Crash
  <1>6. ASSUME UNCHANGED vars PROVE posts' = posts
    BY <1>6 DEF vars
  <1> QED
    BY <1>2, <1>3, <1>4, <1>5, <1>6 DEF Next

LEMMA AcceptedFollow ==
    ASSUME [FeedNext]_<<vars, feed>>, acceptedJobs \subseteq Published
    PROVE  acceptedJobs' \subseteq Published'
  <1>1. Published \subseteq Published'
    BY DocumentsStay DEF FeedNext, Published
  <1>2. CASE acceptedJobs' = acceptedJobs
    BY <1>1, <1>2
  <1>3. ASSUME NEW p \in Posts, BeAccepted(p)
        PROVE  acceptedJobs' \subseteq Published'
    <2>1. p \in Published /\ acceptedJobs' = acceptedJobs \cup {p}
      BY <1>3 DEF BeAccepted, Published
    <2> QED
      BY <1>1, <2>1
  <1> QED
    BY <1>2, <1>3 DEF FeedNext, Feed, feed, OpenList, HearJobs, AnswerLoad,
                      AnswerJob, AnswerNothing, Restart

LEMMA AlwaysListed == JobsAccepted /\ FeedSpec => []ListedInv
  <1>1. FeedInit => ListedInv
    BY DEF FeedInit, Init, ListedInv
  <1>2. TypeOK /\ BoardInv /\ ListedInv /\ [FeedNext]_<<vars, feed>> => ListedInv'
    BY EntriesFollow, AcceptedFollow DEF FeedNext, ListedInv
  <1> QED
    BY <1>1, <1>2, FeedPosts, AlwaysOrdered, PTL DEF FeedSpec

(* If no job document is refused, every getJob finds its job: a list of    *)
(* posts or of accepted jobs never names one that is not there, whatever   *)
(* the poster's uploads, accounts and crashes (JobsTableViewController:    *)
(* 47-56, DatabaseHelper:52-72).                                           *)
THEOREM LoadsSucceed == JobsAccepted /\ FeedSpec => []LoadsFindJobs
  <1>1. FeedTypeOK /\ HeardInv /\ ListedInv => LoadsFindJobs
    <2> SUFFICES ASSUME FeedTypeOK, HeardInv, ListedInv, NEW q \in loads
                 PROVE  q.job \in Published
      BY DEF LoadsFindJobs
    <2>1. q.list \in Lists /\ q.job \in heard[q.list]
      BY DEF FeedTypeOK, Load, HeardInv
    <2>2. q.job \in Source(q.list)
      BY <2>1 DEF HeardInv
    <2>3. Source(q.list) \subseteq Published
      BY DEF Source, ListedInv
    <2> QED
      BY <2>2, <2>3
  <1> QED
    BY <1>1, FeedTypeCorrect, AlwaysHeard, AlwaysListed, PTL
=============================================================================
